------------------------- MODULE GroupMemberProofs -------------------------
(***************************************************************************)
(* The owner and the member of a federated group, for any set of instances  *)
(* and any number of changes, delivered in any order, repeated or refused.   *)
(***************************************************************************)
EXTENDS GroupMember, TLAPS

First == [home |-> FirstHome, id |-> 1]

LEMMA SiteFacts ==
  /\ MemberHome \in Site /\ FirstHome \in Standing /\ MemberHome \notin Standing
  /\ First \in Owner
  /\ \A s \in Site : s # MemberHome => s \in Standing
  /\ \A p \in Owner : p.home \in Standing
BY GroupAssumption DEF Standing, Owner, First

\* The clock of a member only moves on, and to the time of an event.
LEMMA ClockFacts ==
  ASSUME GroupTypeOK, NEW s \in Site, NEW at \in 1..MaxMoves
  PROVE  /\ ClockAt(s, at) \in [Site -> 0..MaxMoves]
         /\ ClockAt(s, at)[s] = IF at > clock[s] THEN at ELSE clock[s]
         /\ \A t \in Site \ {s} : ClockAt(s, at)[t] = clock[t]
BY DEF GroupTypeOK, ClockAt

LEMMA DoneFacts ==
  ASSUME GroupTypeOK, NEW s \in Site, NEW e \in Move, NEW mark \in BOOLEAN, Done(s, e, mark)
  PROVE  /\ settled' \in [Site -> SUBSET Move] /\ marked' \in [Site -> SUBSET Move]
         /\ settled'[s] = settled[s] \cup {e}
         /\ marked'[s] = IF mark THEN marked[s] \cup {e} ELSE marked[s]
         /\ \A t \in Site \ {s} : settled'[t] = settled[t] /\ marked'[t] = marked[t]
BY DEF GroupTypeOK, Done

LEMMA MoveFacts ==
  ASSUME GroupTypeOK, NEW s \in Site, NEW e \in ForSite(s)
  PROVE  /\ e \in groupLog /\ e \in Move /\ e.at \in 1..MaxMoves /\ e.owner \in Owner
         /\ e.from \in Site
BY DEF GroupTypeOK, ForSite, Move

-----------------------------------------------------------------------------
(* Types.                                                                   *)

LEMMA GroupTypeStart == ASSUME GroupInit PROVE GroupTypeOK
<1>1. 0 \in 0..MaxMoves
  BY GroupAssumption
<1>2. holds \in [Site -> BOOLEAN] /\ member \in [Site -> BOOLEAN]
  BY DEF GroupInit
<1>3. owner \in [Site -> Owner] /\ realOwner \in Owner
  BY SiteFacts DEF GroupInit, First
<1>4. clock \in [Site -> 0..MaxMoves] /\ now \in 0..MaxMoves
  BY <1>1 DEF GroupInit
<1>5. marked \in [Site -> SUBSET Move] /\ settled \in [Site -> SUBSET Move]
      /\ starting \in [Site -> SUBSET Move] /\ groupLog \subseteq Move
  BY DEF GroupInit
<1>6. lastMove \in {"add", "leave", "kick"} /\ odd \subseteq {"early", "overtaken"}
  BY DEF GroupInit
<1> QED BY <1>2, <1>3, <1>4, <1>5, <1>6 DEF GroupTypeOK

\* The event of a change made at s.
NewMove(s, kind, to, withMember) ==
  [kind |-> kind, from |-> s, told |-> Others(s, withMember), owner |-> to, at |-> now + 1]

LEMMA AnnounceFacts ==
  ASSUME GroupTypeOK, NEW s \in Site, NEW kind \in {"add", "leave", "kick", "transfer"},
         NEW to \in Owner, NEW withMember \in BOOLEAN, Announce(s, kind, to, withMember)
  PROVE  /\ now \in Nat /\ now + 1 \in 1..MaxMoves /\ now' = now + 1
         /\ NewMove(s, kind, to, withMember) \in Move
         /\ groupLog' = groupLog \cup {NewMove(s, kind, to, withMember)}
         /\ UNCHANGED <<marked, settled, starting>>
<1>1. now \in Nat /\ now + 1 \in 1..MaxMoves
  BY GroupAssumption DEF Announce, GroupTypeOK
<1>2. Others(s, withMember) \in SUBSET Site
  BY DEF Others, Standing
<1>3. NewMove(s, kind, to, withMember) \in Move
  BY <1>1, <1>2 DEF NewMove, Move
<1>4. /\ now' = now + 1
      /\ groupLog' = groupLog \cup {NewMove(s, kind, to, withMember)}
      /\ UNCHANGED <<marked, settled, starting>>
  BY DEF Announce, NewMove
<1> QED BY <1>1, <1>3, <1>4, Zenon

LEMMA MovedType ==
  ASSUME GroupTypeOK, NEW s \in Site, NEW kind \in {"add", "leave", "kick"},
         NEW there \in BOOLEAN, Moved(s, kind, there)
  PROVE  GroupTypeOK'
<1>1. Announce(s, kind, owner[s], TRUE) /\ owner[s] \in Owner
  BY DEF Moved, GroupTypeOK
<1>2. /\ now \in Nat /\ now + 1 \in 1..MaxMoves /\ now' = now + 1
      /\ groupLog' \subseteq Move
      /\ UNCHANGED <<marked, settled, starting>>
  <2>1. kind \in {"add", "leave", "kick", "transfer"}
    OBVIOUS
  <2>2. /\ now \in Nat /\ now + 1 \in 1..MaxMoves /\ now' = now + 1
        /\ NewMove(s, kind, owner[s], TRUE) \in Move
        /\ groupLog' = groupLog \cup {NewMove(s, kind, owner[s], TRUE)}
        /\ UNCHANGED <<marked, settled, starting>>
    BY <1>1, <2>1, AnnounceFacts, Zenon
  <2> QED BY <2>2 DEF GroupTypeOK
<1>3. clock' \in [Site -> 0..MaxMoves]
  BY <1>2, ClockFacts DEF Moved
<1>4. member' \in [Site -> BOOLEAN] /\ lastMove' \in {"add", "leave", "kick"}
      /\ UNCHANGED <<holds, owner, realOwner, odd>>
  BY DEF Moved, GroupTypeOK
<1>5. now' \in 0..MaxMoves
  BY <1>2
<1> QED BY <1>2, <1>3, <1>4, <1>5 DEF GroupTypeOK

LEMMA TransferType == ASSUME GroupTypeOK, NEW s \in Site, TransferOwner(s) PROVE GroupTypeOK'
<1>1. PICK p \in Owner : /\ owner' = [owner EXCEPT ![s] = p]
                         /\ realOwner' = p
                         /\ Announce(s, "transfer", p, member[s])
  BY DEF TransferOwner
<1>2. member[s] \in BOOLEAN
  BY DEF GroupTypeOK
<1>3. /\ now' \in 0..MaxMoves
      /\ groupLog' \subseteq Move
      /\ UNCHANGED <<marked, settled, starting>>
  BY <1>1, <1>2, AnnounceFacts DEF GroupTypeOK
<1>4. owner' \in [Site -> Owner] /\ realOwner' \in Owner
  BY <1>1 DEF GroupTypeOK
<1> QED BY <1>3, <1>4 DEF GroupTypeOK, TransferOwner

\* What a processor may do to the copy of its own instance: the columns of the others
\* stay, the clock moves to the event's time or not at all.
AtSite(s, e) ==
  /\ UNCHANGED <<groupLog, now, lastMove, realOwner>>
  /\ holds' \in [Site -> BOOLEAN] /\ member' \in [Site -> BOOLEAN]
  /\ owner' \in [Site -> Owner]
  /\ clock' \in {clock, ClockAt(s, e.at)}
  /\ settled' \in [Site -> SUBSET Move] /\ marked' \in [Site -> SUBSET Move]
  /\ starting' \in [Site -> SUBSET Move]
  /\ settled'[s] \in {settled[s], settled[s] \cup {e}}
  /\ marked'[s] \in {marked[s], marked[s] \cup {e}}
  /\ \A t \in Site \ {s} : /\ holds'[t] = holds[t] /\ member'[t] = member[t]
                           /\ owner'[t] = owner[t] /\ settled'[t] = settled[t]
                           /\ marked'[t] = marked[t] /\ starting'[t] = starting[t]
  /\ odd \subseteq odd' /\ odd' \subseteq {"early", "overtaken"}
  /\ holds[s] => holds'[s]
  /\ ~holds'[s] => member'[s] = member[s]
  /\ starting'[s] \subseteq starting[s] \cup {e}
  /\ e \in starting'[s] \ starting[s] => e.kind = "add"

LEMMA AtSiteType ==
  ASSUME GroupTypeOK, NEW s \in Site, NEW e \in ForSite(s), AtSite(s, e)
  PROVE  GroupTypeOK'
<1>1. clock' \in [Site -> 0..MaxMoves]
  BY MoveFacts, ClockFacts DEF AtSite, GroupTypeOK
<1> QED BY <1>1 DEF AtSite, GroupTypeOK

LEMMA DeliverAtSite ==
  ASSUME GroupTypeOK, NEW s \in Site, NEW e \in ForSite(s), Deliver(s, e)
  PROVE  AtSite(s, e)
<1>0. /\ UNCHANGED <<groupLog, now, lastMove, realOwner>>
      /\ odd \subseteq odd' /\ odd' \subseteq {"early", "overtaken"}
      /\ e \in Move /\ e.owner \in Owner
  BY MoveFacts DEF Deliver, GroupTypeOK
<1>1. ASSUME UNCHANGED Copy, UNCHANGED starting, NEW mark \in BOOLEAN, Done(s, e, mark),
             clock' \in {clock, ClockAt(s, e.at)}
      PROVE  AtSite(s, e)
  <2>1. UNCHANGED <<holds, member, owner, starting>>
    BY <1>1 DEF Copy
  <2>2. /\ settled' \in [Site -> SUBSET Move] /\ marked' \in [Site -> SUBSET Move]
        /\ settled'[s] = settled[s] \cup {e}
        /\ marked'[s] \in {marked[s], marked[s] \cup {e}}
        /\ \A t \in Site \ {s} : settled'[t] = settled[t] /\ marked'[t] = marked[t]
    BY <1>0, <1>1 DEF Done, GroupTypeOK
  <2> QED BY <1>0, <1>1, <2>1, <2>2 DEF AtSite, GroupTypeOK
<1>2. CASE e.kind = "add" /\ ProcessMemberAdd(s, e)
  <2>1. CASE IgnoreAdd(s, e)
    BY <1>1, <2>1 DEF IgnoreAdd, Copy
  <2>2. CASE AddToCopy(s, e)
    <3>1. member' \in [Site -> BOOLEAN] /\ \A t \in Site \ {s} : member'[t] = member[t]
      BY <2>2 DEF AddToCopy, GroupTypeOK
    <3> QED BY <1>0, <2>2, <3>1, DoneFacts DEF AddToCopy, AtSite, GroupTypeOK
  <2>3. CASE StartCopy(s, e)
    <3>1. CASE UNCHANGED starting /\ Done(s, e, FALSE)
      BY <1>1, <2>3, <3>1 DEF StartCopy, Copy
    <3>2. CASE starting' = [starting EXCEPT ![s] = @ \cup {e}] /\ UNCHANGED <<settled, marked>>
      <4>1. starting' \in [Site -> SUBSET Move] /\ \A t \in Site \ {s} : starting'[t] = starting[t]
        BY <1>0, <3>2 DEF GroupTypeOK
      <4> QED BY <1>0, <1>2, <2>3, <3>2, <4>1 DEF StartCopy, Copy, AtSite, GroupTypeOK
    <3> QED BY <2>3, <3>1, <3>2 DEF StartCopy
  <2> QED BY <1>2, <2>1, <2>2, <2>3 DEF ProcessMemberAdd
<1>3. CASE ProcessMemberRemove(s, e)
  <2>1. CASE RemoveNowhere(s, e)
    BY <1>1, <2>1 DEF RemoveNowhere, Copy
  <2>2. CASE RemoveFromCopy(s, e)
    <3>1. member' \in [Site -> BOOLEAN] /\ \A t \in Site \ {s} : member'[t] = member[t]
      BY <2>2 DEF RemoveFromCopy, GroupTypeOK
    <3>2. Done(s, e, ~Older(s, e)) /\ (~Older(s, e)) \in BOOLEAN
      BY <2>2 DEF RemoveFromCopy, Older
    <3> QED BY <1>0, <2>2, <3>1, <3>2, DoneFacts DEF RemoveFromCopy, AtSite, GroupTypeOK
  <2> QED BY <1>3, <2>1, <2>2 DEF ProcessMemberRemove
<1>4. CASE ProcessOwnershipTransfer(s, e)
  <2>1. CASE Done(s, e, FALSE) /\ UNCHANGED <<Copy, clock, starting>>
    BY <1>1, <2>1 DEF Copy
  <2>2. CASE /\ owner' = [owner EXCEPT ![s] = e.owner]
             /\ Done(s, e, TRUE)
             /\ UNCHANGED <<holds, member, clock, starting>>
    <3>1. owner' \in [Site -> Owner] /\ \A t \in Site \ {s} : owner'[t] = owner[t]
      BY <1>0, <2>2 DEF GroupTypeOK
    <3> QED BY <1>0, <2>2, <3>1, DoneFacts DEF AtSite, GroupTypeOK
  <2> QED BY <1>4, <2>1, <2>2 DEF ProcessOwnershipTransfer
<1> QED BY <1>2, <1>3, <1>4 DEF Deliver

\* A bootstrap is of an add told to the site.  The standing users' instances have the
\* group; a copy there is not shows no member.
BaseInv ==
  /\ GroupTypeOK
  /\ \A s \in Site : \A e \in starting[s] : e \in ForSite(s) /\ e.kind = "add"
  /\ \A s \in Standing : holds[s]
  /\ \A s \in Site : ~holds[s] => ~member[s]

LEMMA FinishAtSite ==
  ASSUME BaseInv, NEW s \in Site, NEW e \in starting[s], FinishCopy(s, e)
  PROVE  AtSite(s, e)
<1>0. e \in ForSite(s) /\ e \in Move /\ e.owner \in Owner /\ GroupTypeOK
  BY MoveFacts DEF BaseInv
<1>1. /\ starting' \in [Site -> SUBSET Move] /\ starting'[s] \subseteq starting[s]
      /\ \A t \in Site \ {s} : starting'[t] = starting[t]
      /\ UNCHANGED <<groupLog, now, lastMove, realOwner, odd>>
  BY <1>0 DEF FinishCopy, GroupTypeOK
<1>2. CASE holds[s]
  BY <1>0, <1>1, <1>2 DEF FinishCopy, Copy, AtSite, GroupTypeOK
<1>3. CASE ~holds[s]
  <2>1. Done(s, e, ~Older(s, e)) /\ (~Older(s, e)) \in BOOLEAN
    BY <1>3 DEF FinishCopy
  <2>2. /\ settled' \in [Site -> SUBSET Move] /\ marked' \in [Site -> SUBSET Move]
        /\ settled'[s] = settled[s] \cup {e}
        /\ marked'[s] \in {marked[s], marked[s] \cup {e}}
        /\ \A t \in Site \ {s} : settled'[t] = settled[t] /\ marked'[t] = marked[t]
    BY <1>0, <2>1 DEF Done, GroupTypeOK
  <2>3. /\ holds' = [holds EXCEPT ![s] = TRUE] /\ owner' = [owner EXCEPT ![s] = e.owner]
        /\ member' = [member EXCEPT ![s] = ~Older(s, e)] /\ clock' = ClockAt(s, e.at)
    BY <1>3 DEF FinishCopy
  <2>4. /\ holds' \in [Site -> BOOLEAN] /\ member' \in [Site -> BOOLEAN]
        /\ owner' \in [Site -> Owner] /\ holds'[s]
        /\ \A t \in Site \ {s} : holds'[t] = holds[t] /\ member'[t] = member[t]
                                 /\ owner'[t] = owner[t]
    BY <1>0, <2>3 DEF GroupTypeOK
  <2>5. clock' \in {clock, ClockAt(s, e.at)} /\ odd \subseteq odd'
        /\ odd' \subseteq {"early", "overtaken"}
    BY <1>0, <1>1, <2>3 DEF GroupTypeOK
  <2> QED BY <1>1, <2>2, <2>4, <2>5 DEF AtSite
<1> QED BY <1>2, <1>3

LEMMA GiveUpAtSite ==
  ASSUME GroupTypeOK, NEW s \in Site, NEW e \in ForSite(s), GiveUp(s, e)
  PROVE  AtSite(s, e) /\ UNCHANGED <<holds, member, owner, clock, starting, marked>>
<1>1. /\ UNCHANGED <<holds, member, owner, clock, starting, groupLog, now, lastMove, realOwner>>
      /\ odd \subseteq odd' /\ odd' \subseteq {"early", "overtaken"}
      /\ Done(s, e, FALSE)
  BY DEF GiveUp, Copy, GroupTypeOK
<1>2. /\ settled' \in [Site -> SUBSET Move] /\ UNCHANGED marked
      /\ settled'[s] = settled[s] \cup {e}
      /\ \A t \in Site \ {s} : settled'[t] = settled[t]
  BY <1>1, MoveFacts DEF Done, GroupTypeOK
<1> QED BY <1>1, <1>2 DEF AtSite, GroupTypeOK

LEMMA BaseStart == ASSUME GroupInit PROVE BaseInv
<1>1. \A s \in Site : starting[s] = {} /\ ~member[s]
  BY DEF GroupInit
<1>2. \A s \in Standing : holds[s]
  BY SiteFacts DEF GroupInit, Standing
<1> QED BY <1>1, <1>2, GroupTypeStart DEF BaseInv

LEMMA BaseAtSite ==
  ASSUME BaseInv, NEW s \in Site, NEW e \in ForSite(s), AtSite(s, e)
  PROVE  BaseInv'
<1>1. GroupTypeOK'
  BY AtSiteType DEF BaseInv
<1>2. \A t \in Site : \A f \in starting'[t] : f \in ForSite(t)' /\ f.kind = "add"
  BY DEF BaseInv, AtSite, ForSite
<1>3. \A t \in Standing : holds'[t]
  BY DEF BaseInv, AtSite, Standing
<1>4. \A t \in Site : ~holds'[t] => ~member'[t]
  BY DEF BaseInv, AtSite
<1> QED BY <1>1, <1>2, <1>3, <1>4 DEF BaseInv

\* The changes the users make.
LEMMA ChangeFacts ==
  ASSUME BaseInv, NEW s \in Site,
         (s = MemberHome /\ LeaveGroup) \/ AddMember(s) \/ KickMember(s)
  PROVE  /\ holds[s]
         /\ \E kind \in {"add", "leave", "kick"} :
              /\ Moved(s, kind, kind = "add")
              /\ kind = "kick" => owner[s].home = s
<1>1. CASE s = MemberHome /\ LeaveGroup
  BY <1>1 DEF LeaveGroup
<1>2. CASE AddMember(s)
  BY <1>2 DEF AddMember, BaseInv
<1>3. CASE KickMember(s)
  BY <1>3, SiteFacts DEF KickMember, BaseInv, GroupTypeOK
<1> QED BY <1>1, <1>2, <1>3

LEMMA BaseMoved ==
  ASSUME BaseInv, NEW s \in Site, holds[s], NEW kind \in {"add", "leave", "kick"},
         NEW there \in BOOLEAN, Moved(s, kind, there)
  PROVE  BaseInv'
<1>1. GroupTypeOK'
  BY MovedType DEF BaseInv
<1>2. groupLog \subseteq groupLog' /\ UNCHANGED <<starting, holds>>
      /\ \A t \in Site \ {s} : member'[t] = member[t]
  BY DEF Moved, Announce, BaseInv, GroupTypeOK
<1>3. \A t \in Site : \A f \in starting'[t] : f \in ForSite(t)' /\ f.kind = "add"
  BY <1>2 DEF BaseInv, ForSite
<1> QED BY <1>1, <1>2, <1>3 DEF BaseInv

LEMMA BaseTransfer == ASSUME BaseInv, NEW s \in Site, TransferOwner(s) PROVE BaseInv'
<1>1. GroupTypeOK'
  BY TransferType DEF BaseInv
<1>2. groupLog \subseteq groupLog' /\ UNCHANGED <<starting, holds, member>>
  BY DEF TransferOwner, Announce
<1>3. \A t \in Site : \A f \in starting'[t] : f \in ForSite(t)' /\ f.kind = "add"
  BY <1>2 DEF BaseInv, ForSite
<1> QED BY <1>1, <1>2, <1>3 DEF BaseInv

-----------------------------------------------------------------------------
(* The owner.                                                               *)

\* Transfers on their way to the instance of the owner they make.
InFlight == {e \in groupLog : e.kind = "transfer" /\ e.owner.home # e.from
                              /\ e \notin marked[e.owner.home]}

\* The group is a token: at one instance, whose user is the owner, or in one event.
TokenInv ==
  /\ SoleOwner
  /\ \A e \in groupLog : e.from \notin e.told
  /\ \A e \in InFlight : /\ e.owner = realOwner
                         /\ \A s \in Site : owner[s].home # s
                         /\ \A f \in InFlight : f = e

LEMMA TokenStart == ASSUME GroupInit PROVE TokenInv
BY DEF GroupInit, TokenInv, SoleOwner, InFlight

\* Nothing but a transfer moves the token.
LEMMA TokenUnmoved ==
  ASSUME BaseInv, TokenInv, UNCHANGED realOwner, InFlight' \subseteq InFlight,
         \A e \in groupLog' \ groupLog : e.from \notin e.told,
         \A s \in Site : owner'[s] = owner[s] \/ owner'[s].home # s
  PROVE  TokenInv'
<1>1. SoleOwner'
  BY DEF TokenInv, SoleOwner
<1>2. \A e \in groupLog' : e.from \notin e.told
  BY DEF TokenInv
<1> QED BY <1>1, <1>2 DEF TokenInv

LEMMA OthersFact == \A s \in Site : \A withMember \in BOOLEAN : s \notin Others(s, withMember)
BY DEF Others

LEMMA TokenMoved ==
  ASSUME BaseInv, TokenInv, NEW s \in Site, NEW kind \in {"add", "leave", "kick"},
         NEW there \in BOOLEAN, Moved(s, kind, there)
  PROVE  TokenInv'
<1> DEFINE e == [kind |-> kind, from |-> s, told |-> Others(s, TRUE), owner |-> owner[s],
                 at |-> now + 1]
<1>1. groupLog' = groupLog \cup {e} /\ UNCHANGED <<owner, realOwner, marked>>
  BY DEF Moved, Announce
<1>2. e.kind # "transfer" /\ e.from \notin e.told
  BY OthersFact
<1> HIDE DEF e
<1>3. InFlight' \subseteq InFlight
  BY <1>1, <1>2 DEF InFlight
<1> QED BY <1>1, <1>2, <1>3, TokenUnmoved

\* Only its holder gives the token away, and to one place.
LEMMA TokenTransfer ==
  ASSUME BaseInv, TokenInv, NEW s \in Site, TransferOwner(s)
  PROVE  TokenInv'
<1>1. PICK p \in Owner : /\ owner[s].home = s
                         /\ owner' = [owner EXCEPT ![s] = p]
                         /\ realOwner' = p
                         /\ Announce(s, "transfer", p, member[s])
  BY DEF TransferOwner
<1> DEFINE e == [kind |-> "transfer", from |-> s, told |-> Others(s, member[s]), owner |-> p,
                 at |-> now + 1]
<1>2. groupLog' = groupLog \cup {e} /\ UNCHANGED marked
  BY <1>1 DEF Announce
<1>3. e.kind = "transfer" /\ e.from = s /\ e.owner = p /\ e.from \notin e.told
  BY OthersFact DEF BaseInv, GroupTypeOK
<1> HIDE DEF e
<1>4. InFlight = {} /\ \A t \in Site : owner[t].home = t => t = s
  BY <1>1 DEF TokenInv, SoleOwner
<1>5. owner'[s] = p /\ \A t \in Site \ {s} : owner'[t] = owner[t]
  BY <1>1 DEF BaseInv, GroupTypeOK
<1>6. InFlight' \subseteq {e} /\ (e \in InFlight' => p.home # s)
  BY <1>2, <1>3, <1>4 DEF InFlight
<1>7. SoleOwner'
  BY <1>1, <1>4, <1>5 DEF SoleOwner
<1> QED BY <1>1, <1>2, <1>3, <1>4, <1>5, <1>6, <1>7 DEF TokenInv

LEMMA InFlightAtSite ==
  ASSUME BaseInv, NEW s \in Site, NEW e \in ForSite(s), AtSite(s, e)
  PROVE  InFlight' \subseteq InFlight
<1>1. groupLog' = groupLog /\ \A t \in Site : marked[t] \subseteq marked'[t]
  BY DEF AtSite
<1>2. \A f \in groupLog : f.owner.home \in Site
  BY SiteFacts DEF BaseInv, GroupTypeOK, Move, Standing
<1> QED BY <1>1, <1>2 DEF InFlight

\* A transfer that takes effect at the new owner's instance is the one in flight.
LEMMA TokenTaken ==
  ASSUME BaseInv, TokenInv, NEW s \in Site, NEW e \in ForSite(s) \ marked[s],
         e.kind = "transfer", AtSite(s, e), owner[s].home = e.from,
         owner' = [owner EXCEPT ![s] = e.owner], marked'[s] = marked[s] \cup {e}
  PROVE  TokenInv'
<1>1. e.from # s /\ e \in groupLog
  BY DEF TokenInv, ForSite
<1>2. InFlight' \subseteq InFlight
  BY InFlightAtSite
<1>3. owner'[s] = e.owner /\ (\A t \in Site \ {s} : owner'[t] = owner[t])
      /\ UNCHANGED <<groupLog, realOwner>>
  BY DEF AtSite, BaseInv, GroupTypeOK
<1>4. CASE e.owner.home # s
  BY <1>2, <1>3, <1>4, TokenUnmoved DEF TokenInv
<1>5. CASE e.owner.home = s
  <2>1. e \in InFlight
    BY <1>1, <1>5 DEF InFlight
  <2>2. e.owner = realOwner /\ (\A t \in Site : owner[t].home # t) /\ InFlight = {e}
    BY <2>1 DEF TokenInv
  <2>3. InFlight' = {}
    BY <1>2, <1>5, <2>2 DEF InFlight
  <2>4. SoleOwner'
    BY <1>3, <2>2 DEF SoleOwner
  <2> QED BY <1>3, <2>3, <2>4 DEF TokenInv
<1> QED BY <1>4, <1>5

LEMMA TokenDeliver ==
  ASSUME BaseInv, TokenInv, NEW s \in Site, NEW e \in ForSite(s), Deliver(s, e)
  PROVE  TokenInv'
<1>1. AtSite(s, e) /\ InFlight' \subseteq InFlight
  BY DeliverAtSite, InFlightAtSite DEF BaseInv
<1>2. UNCHANGED <<groupLog, realOwner>>
  BY DEF Deliver
<1>3. CASE UNCHANGED owner
  BY <1>1, <1>2, <1>3, TokenUnmoved
<1>4. CASE /\ e.kind = "transfer" /\ MayTransfer(s, e)
           /\ owner' = [owner EXCEPT ![s] = e.owner] /\ Done(s, e, TRUE)
  <2>1. marked'[s] = marked[s] \cup {e} /\ e \notin marked[s]
    BY <1>4 DEF Done, Deliver, BaseInv, GroupTypeOK
  <2> QED BY <1>1, <1>4, <2>1, TokenTaken DEF MayTransfer
<1> QED BY <1>3, <1>4 DEF Deliver, ProcessMemberAdd, IgnoreAdd, AddToCopy, StartCopy,
     ProcessMemberRemove, RemoveNowhere, RemoveFromCopy, ProcessOwnershipTransfer, Copy

LEMMA TokenFinish ==
  ASSUME BaseInv, TokenInv, NEW s \in Site, NEW e \in starting[s], FinishCopy(s, e)
  PROVE  TokenInv'
<1>1. AtSite(s, e) /\ e \in ForSite(s) /\ InFlight' \subseteq InFlight
  BY FinishAtSite, InFlightAtSite DEF BaseInv
<1>2. UNCHANGED <<groupLog, realOwner>>
  BY DEF FinishCopy
<1>3. CASE holds[s]
  BY <1>1, <1>2, <1>3, TokenUnmoved DEF FinishCopy, Copy
<1>4. CASE ~holds[s]
  <2>1. s = MemberHome
    BY <1>4, SiteFacts DEF BaseInv
  <2>2. owner'[s].home # s /\ \A t \in Site \ {s} : owner'[t] = owner[t]
    BY <1>1, <2>1, SiteFacts DEF AtSite
  <2> QED BY <1>1, <1>2, <2>2, TokenUnmoved
<1> QED BY <1>3, <1>4

LEMMA TokenStep ==
  ASSUME BaseInv, TokenInv, [GroupNext]_groupVars
  PROVE  BaseInv' /\ TokenInv'
<1>1. CASE UNCHANGED groupVars
  BY <1>1 DEF groupVars, BaseInv, TokenInv, GroupTypeOK, SoleOwner, InFlight, ForSite
<1>2. ASSUME NEW s \in Site, (s = MemberHome /\ LeaveGroup) \/ AddMember(s) \/ KickMember(s)
      PROVE  BaseInv' /\ TokenInv'
  <2>1. PICK kind \in {"add", "leave", "kick"} : Moved(s, kind, kind = "add")
    BY <1>2, ChangeFacts
  <2>2. holds[s] /\ (kind = "add") \in BOOLEAN
    BY <1>2, ChangeFacts
  <2> DEFINE there == kind = "add"
  <2>3. Moved(s, kind, there) /\ there \in BOOLEAN
    BY <2>1
  <2> HIDE DEF there
  <2> QED BY <2>2, <2>3, BaseMoved, TokenMoved, Zenon
<1>3. ASSUME NEW s \in Site, TransferOwner(s) PROVE BaseInv' /\ TokenInv'
  BY <1>3, BaseTransfer, TokenTransfer
<1>4. ASSUME NEW s \in Site, NEW e \in ForSite(s), Deliver(s, e) PROVE BaseInv' /\ TokenInv'
  BY <1>4, DeliverAtSite, BaseAtSite, TokenDeliver DEF BaseInv
<1>5. ASSUME NEW s \in Site, NEW e \in ForSite(s), GiveUp(s, e) PROVE BaseInv' /\ TokenInv'
  <2>1. AtSite(s, e) /\ UNCHANGED owner
    BY <1>5, GiveUpAtSite DEF BaseInv
  <2>2. UNCHANGED <<groupLog, realOwner>>
    BY <1>5 DEF GiveUp
  <2> QED BY <2>1, <2>2, BaseAtSite, InFlightAtSite, TokenUnmoved
<1>6. ASSUME NEW s \in Site, NEW e \in starting[s], FinishCopy(s, e) PROVE BaseInv' /\ TokenInv'
  BY <1>6, FinishAtSite, BaseAtSite, TokenFinish DEF BaseInv
<1>7. CASE GroupNext
  BY <1>2, <1>3, <1>4, <1>5, <1>6, <1>7, SiteFacts DEF GroupNext
<1> QED BY <1>1, <1>7

\* The type invariant of the copies, clocks, logs and markers.
THEOREM GroupTypeCorrect == GroupSpec => []GroupTypeOK
<1>1. GroupInit => BaseInv /\ TokenInv
  BY BaseStart, TokenStart
<1>2. BaseInv => GroupTypeOK
  BY DEF BaseInv
<1> QED BY <1>1, <1>2, TokenStep, PTL DEF GroupSpec

\* For any number of instances and transfers, in any order, with repeats and refusals,
\* an instance that takes its own user for the owner is right, so no two do.
THEOREM SoleOwnerCorrect == GroupSpec => []SoleOwner
<1>1. GroupInit => BaseInv /\ TokenInv
  BY BaseStart, TokenStart
<1>2. TokenInv => SoleOwner
  BY DEF TokenInv
<1> QED BY <1>1, <1>2, TokenStep, PTL DEF GroupSpec

-----------------------------------------------------------------------------
(* The member.                                                              *)

MemberMoves == {e \in groupLog : e.kind # "transfer"}

\* The log: one event of each time, a member's told to all, the last one `lastMove'.
LogInv ==
  /\ \A e \in groupLog : e.at <= now
  /\ \A e, f \in groupLog : e.at = f.at => e = f
  /\ \A e \in MemberMoves : e.told = Site \ {e.from}
  /\ \A s \in Site : settled[s] \subseteq groupLog
  /\ \/ MemberMoves = {} /\ lastMove # "add"
     \/ \E e \in MemberMoves : e.kind = lastMove /\ \A f \in MemberMoves : f.at <= e.at

\* What a copy shows is what the event its clock stands at says.
Shows(s) ==
  \/ clock[s] = 0 /\ ~member[s]
  \/ \E e \in MemberMoves : e.at = clock[s] /\ (member[s] <=> e.kind = "add")

\* While the first owner stays, the clock of a site has caught up with whatever the
\* site did or is done with, unless that came before its copy.
CaughtUp ==
  /\ \A s \in Site : owner[s] = First
  /\ \A e \in groupLog : e.owner = First /\ (e.kind = "kick" => e.from = FirstHome)
  /\ "early" \notin odd =>
       \A s \in Site : \A e \in MemberMoves : s = e.from \/ e \in settled[s] => e.at <= clock[s]

MemberInv == LogInv /\ (\A s \in Site : Shows(s)) /\ (~Transferred => CaughtUp)

LEMMA MemberStart == ASSUME GroupInit PROVE MemberInv
<1>1. MemberMoves = {} /\ groupLog = {} /\ lastMove = "leave"
  BY DEF GroupInit, MemberMoves
<1>2. LogInv
  BY <1>1 DEF LogInv, GroupInit
<1>3. (\A s \in Site : Shows(s)) /\ CaughtUp
  BY <1>1 DEF Shows, CaughtUp, GroupInit, First
<1> QED BY <1>2, <1>3 DEF MemberInv

LEMMA TimeFacts ==
  ASSUME BaseInv, MemberInv
  PROVE  /\ now \in Nat
         /\ \A e \in groupLog : e.at \in 1..now /\ e.at \in Nat
         /\ \A s \in Site : clock[s] \in 0..now /\ clock[s] \in Nat
<1>1. now \in Nat /\ \A s \in Site : clock[s] \in Nat
  BY GroupAssumption DEF BaseInv, GroupTypeOK
<1>2. \A e \in groupLog : e.at \in 1..now /\ e.at \in Nat
  BY <1>1 DEF BaseInv, GroupTypeOK, Move, MemberInv, LogInv
<1>3. \A s \in Site : clock[s] <= now
  BY <1>1, <1>2 DEF MemberInv, Shows, MemberMoves
<1> QED BY <1>1, <1>2, <1>3

\* A change of the member: the site that makes it is the first to show it.
LEMMA MemberMoved ==
  ASSUME BaseInv, MemberInv, NEW s \in Site, NEW kind \in {"add", "leave", "kick"},
         Moved(s, kind, kind = "add"), kind = "kick" => owner[s].home = s
  PROVE  MemberInv'
<1> DEFINE e == [kind |-> kind, from |-> s, told |-> Others(s, TRUE), owner |-> owner[s],
                 at |-> now + 1]
<1>1. /\ groupLog' = groupLog \cup {e} /\ lastMove' = kind /\ now' = now + 1
      /\ clock' = ClockAt(s, now + 1)
      /\ UNCHANGED <<owner, settled, odd>>
  BY DEF Moved, Announce
<1>2. /\ e.kind = kind /\ e.from = s /\ e.told = Site \ {s} /\ e.owner = owner[s]
      /\ e.at = now + 1
  BY DEF Others
<1>3. member'[s] = (kind = "add") /\ \A t \in Site \ {s} : member'[t] = member[t]
  BY DEF Moved, BaseInv, GroupTypeOK
<1> HIDE DEF e
<1>4. now + 1 \in 1..MaxMoves
  BY GroupAssumption, TimeFacts DEF Moved, Announce, BaseInv, GroupTypeOK
<1>5. clock'[s] = now + 1 /\ \A t \in Site \ {s} : clock'[t] = clock[t]
  BY <1>1, <1>4, ClockFacts, TimeFacts DEF BaseInv
<1>6. MemberMoves' = MemberMoves \cup {e}
  BY <1>1, <1>2 DEF MemberMoves
<1>7. LogInv'
  <2>1. \A f \in groupLog : f.at <= now /\ f.at \in Nat
    BY TimeFacts
  <2>2. \A f \in groupLog' : f.at <= now'
    BY <1>1, <1>2, <2>1, TimeFacts
  <2>3. \A f, g \in groupLog' : f.at = g.at => f = g
    BY <1>1, <1>2, <2>1, TimeFacts DEF MemberInv, LogInv
  <2>4. \A f \in MemberMoves' : f.told = Site \ {f.from}
    BY <1>2, <1>6 DEF MemberInv, LogInv
  <2>5. \A t \in Site : settled'[t] \subseteq groupLog'
    BY <1>1 DEF MemberInv, LogInv
  <2>6. \A f \in MemberMoves' : f.at <= e.at
    BY <1>2, <1>6, <2>1, TimeFacts DEF MemberMoves
  <2> QED BY <1>1, <1>2, <1>6, <2>2, <2>3, <2>4, <2>5, <2>6 DEF LogInv
<1>8. \A t \in Site : Shows(t)'
  <2>1. Shows(s)'
    BY <1>2, <1>3, <1>5, <1>6 DEF Shows
  <2>2. ASSUME NEW t \in Site \ {s} PROVE Shows(t)'
    <3>1. Shows(t) /\ clock'[t] = clock[t] /\ member'[t] = member[t]
      BY <1>3, <1>5 DEF MemberInv
    <3> QED BY <1>6, <3>1 DEF Shows
  <2> QED BY <2>1, <2>2
<1>9. ASSUME ~Transferred' PROVE CaughtUp'
  <2>1. CaughtUp
    BY <1>1, <1>9 DEF MemberInv, Transferred
  <2>2. \A f \in groupLog' : f.owner = First /\ (f.kind = "kick" => f.from = FirstHome)
    BY <1>1, <1>2, <2>1 DEF CaughtUp, First
  <2>3. \A t \in Site : e \notin settled[t]
    BY <1>2, TimeFacts DEF MemberInv, LogInv
  <2>4. \A t \in Site : \A f \in MemberMoves :
          f.at <= clock[t] => f.at <= clock'[t]
    BY <1>5, TimeFacts DEF MemberMoves
  <2>5. ASSUME "early" \notin odd', NEW t \in Site, NEW f \in MemberMoves',
               t = f.from \/ f \in settled'[t]
        PROVE  f.at <= clock'[t]
    <3>1. CASE f = e
      BY <1>1, <1>2, <1>5, <2>3, <2>5, <3>1, TimeFacts
    <3>2. CASE f \in MemberMoves
      BY <1>1, <2>1, <2>4, <2>5, <3>2 DEF CaughtUp
    <3> QED BY <1>6, <2>5, <3>1, <3>2
  <2> QED BY <1>1, <2>1, <2>2, <2>5 DEF CaughtUp
<1> QED BY <1>7, <1>8, <1>9 DEF MemberInv

LEMMA MemberTransfer ==
  ASSUME BaseInv, MemberInv, NEW s \in Site, TransferOwner(s)
  PROVE  MemberInv'
<1>1. PICK p \in Owner : Announce(s, "transfer", p, member[s])
  BY DEF TransferOwner
<1> DEFINE e == [kind |-> "transfer", from |-> s, told |-> Others(s, member[s]), owner |-> p,
                 at |-> now + 1]
<1>2. /\ groupLog' = groupLog \cup {e} /\ now' = now + 1
      /\ UNCHANGED <<member, clock, lastMove, settled>>
  BY <1>1 DEF Announce, TransferOwner
<1>3. e.kind = "transfer" /\ e.at = now + 1
  OBVIOUS
<1> HIDE DEF e
<1>4. MemberMoves' = MemberMoves
  BY <1>2, <1>3 DEF MemberMoves
<1>5. LogInv'
  <2>1. \A f \in groupLog : f.at <= now /\ f.at \in Nat
    BY TimeFacts
  <2>2. \A f \in groupLog' : f.at <= now'
    BY <1>2, <1>3, <2>1, TimeFacts
  <2>3. \A f, g \in groupLog' : f.at = g.at => f = g
    BY <1>2, <1>3, <2>1, TimeFacts DEF MemberInv, LogInv
  <2> QED BY <1>2, <1>4, <2>2, <2>3 DEF MemberInv, LogInv
<1>6. \A t \in Site : Shows(t)'
  BY <1>2, <1>4 DEF MemberInv, Shows
<1>7. Transferred'
  BY <1>2, <1>3 DEF Transferred
<1> QED BY <1>5, <1>6, <1>7 DEF MemberInv

\* An event processed at s keeps the invariant if s shows it, or something newer.
LEMMA MemberAtSite ==
  ASSUME BaseInv, MemberInv, NEW s \in Site, NEW e \in ForSite(s), AtSite(s, e), Shows(s)',
         ~Transferred => owner'[s] = First,
         ~Transferred /\ CaughtUp /\ "early" \notin odd' /\ e.kind # "transfer"
           /\ e \in settled'[s] \ settled[s] => e.at <= clock'[s]
  PROVE  MemberInv'
<1>1. /\ UNCHANGED <<groupLog, now, lastMove, MemberMoves, Transferred>>
      /\ e \in groupLog /\ e.at \in 1..MaxMoves
  BY MoveFacts DEF AtSite, MemberMoves, Transferred, BaseInv
<1>2. \A t \in Site \ {s} : clock'[t] = clock[t]
  BY <1>1, ClockFacts DEF AtSite, BaseInv
<1>3. clock'[s] \in Nat /\ clock'[s] >= clock[s]
  <2>1. clock[s] \in Nat /\ e.at \in Nat
    BY <1>1, TimeFacts
  <2>2. CASE clock' = clock
    BY <2>1, <2>2
  <2>3. CASE clock' = ClockAt(s, e.at)
    BY <1>1, <2>1, <2>3, ClockFacts DEF BaseInv
  <2> QED BY <2>2, <2>3 DEF AtSite
<1>4. LogInv'
  BY <1>1 DEF MemberInv, LogInv, AtSite
<1>5. \A t \in Site : Shows(t)'
  BY <1>1, <1>2 DEF MemberInv, Shows, AtSite
<1>6. ASSUME ~Transferred' PROVE CaughtUp'
  <2>1. CaughtUp /\ ~Transferred
    BY <1>1, <1>6 DEF MemberInv
  <2>2. \A t \in Site : owner'[t] = First
    BY <2>1 DEF CaughtUp, AtSite
  <2>3. ASSUME "early" \notin odd', NEW t \in Site, NEW f \in MemberMoves',
               t = f.from \/ f \in settled'[t]
        PROVE  f.at <= clock'[t]
    <3>1. "early" \notin odd /\ f \in MemberMoves /\ f.at \in Nat /\ f \in groupLog
      BY <1>1, <2>3, TimeFacts DEF AtSite, MemberMoves
    <3>2. CASE t # s
      BY <1>2, <2>1, <2>3, <3>1, <3>2 DEF CaughtUp, AtSite
    <3>3. CASE t = s /\ (s = f.from \/ f \in settled[s])
      <4>1. f.at <= clock[s]
        BY <2>1, <3>1, <3>3 DEF CaughtUp
      <4> QED BY <1>3, <3>1, <3>3, <4>1, TimeFacts
    <3>4. CASE t = s /\ f \in settled'[s] \ settled[s]
      BY <2>1, <2>3, <3>1, <3>4 DEF AtSite, MemberMoves
    <3> QED BY <2>3, <3>2, <3>3, <3>4
  <2> QED BY <1>1, <2>1, <2>2, <2>3 DEF CaughtUp
<1> QED BY <1>4, <1>5, <1>6 DEF MemberInv

\* The clock after a claim is the later of the two.
LEMMA ClaimFacts ==
  ASSUME BaseInv, MemberInv, NEW s \in Site, NEW e \in ForSite(s), clock' = ClockAt(s, e.at)
  PROVE  /\ clock'[s] = IF Older(s, e) THEN clock[s] ELSE e.at
         /\ e.at <= clock'[s] /\ e.at \in Nat
<1>1. e.at \in 1..MaxMoves /\ e \in groupLog /\ e.at \in Nat /\ clock[s] \in Nat
  BY MoveFacts, TimeFacts DEF BaseInv
<1>2. clock'[s] = IF e.at > clock[s] THEN e.at ELSE clock[s]
  BY <1>1, ClockFacts DEF BaseInv
<1> QED BY <1>1, <1>2 DEF Older

LEMMA ShowsUnmoved ==
  ASSUME MemberInv, NEW s \in Site, UNCHANGED groupLog, member'[s] = member[s],
         clock'[s] = clock[s]
  PROVE  Shows(s)'
BY DEF MemberInv, Shows, MemberMoves

LEMMA ShowsMoved ==
  ASSUME BaseInv, MemberInv, NEW s \in Site, NEW e \in ForSite(s), UNCHANGED groupLog,
         e.kind # "transfer", clock'[s] = e.at, member'[s] <=> e.kind = "add"
  PROVE  Shows(s)'
BY MoveFacts DEF Shows, MemberMoves, BaseInv

LEMMA MemberDeliver ==
  ASSUME BaseInv, MemberInv, NEW s \in Site, NEW e \in ForSite(s), Deliver(s, e)
  PROVE  MemberInv'
<1>0. /\ AtSite(s, e) /\ UNCHANGED groupLog /\ e \in groupLog
      /\ clock[s] \in Nat /\ e.at \in Nat
      /\ member[s] \in BOOLEAN /\ clock \in [Site -> 0..MaxMoves]
  BY DeliverAtSite, TimeFacts, MoveFacts DEF BaseInv, AtSite, GroupTypeOK
<1>1. ~Transferred => owner[s] = First
  BY DEF MemberInv, CaughtUp
<1>2. CASE e.kind = "transfer"
  <2>1. Transferred
    BY <1>0, <1>2 DEF Transferred
  <2>2. UNCHANGED <<member, clock>>
    BY <1>2 DEF Deliver, ProcessOwnershipTransfer, Copy
  <2> QED BY <1>0, <1>2, <2>1, <2>2, ShowsUnmoved, MemberAtSite
<1>3. CASE e.kind = "add" /\ ProcessMemberAdd(s, e)
  <2>1. CASE IgnoreAdd(s, e)
    BY <1>0, <1>1, <2>1, ShowsUnmoved, MemberAtSite DEF IgnoreAdd, Copy, Older
  <2>2. CASE AddToCopy(s, e)
    <3>1. member'[s] /\ owner' = owner /\ clock' = ClockAt(s, e.at) /\ ~Older(s, e)
      BY <2>2 DEF AddToCopy, BaseInv, GroupTypeOK
    <3>2. clock'[s] = e.at
      BY <3>1, ClaimFacts
    <3>3. Shows(s)'
      BY <1>0, <1>3, <3>1, <3>2, ShowsMoved
    <3> QED BY <1>0, <1>1, <3>1, <3>2, <3>3, MemberAtSite
  <2>3. CASE StartCopy(s, e)
    <3>1. UNCHANGED <<owner, member, clock>>
      BY <2>3 DEF StartCopy, Copy
    <3>2. "early" \in odd' \/ settled' = settled
      BY <1>3, <2>3 DEF StartCopy, Deliver, Early
    <3> QED BY <1>0, <1>1, <3>1, <3>2, ShowsUnmoved, MemberAtSite
  <2> QED BY <1>3, <2>1, <2>2, <2>3 DEF ProcessMemberAdd
<1>4. CASE e.kind \in {"leave", "kick"} /\ ProcessMemberRemove(s, e)
  <2>1. CASE RemoveNowhere(s, e) /\ e.kind = "leave"
    <3>1. ~member[s] /\ UNCHANGED <<owner, member>> /\ clock' = ClockAt(s, e.at)
      BY <2>1 DEF RemoveNowhere, Copy, BaseInv
    <3>2. e.at <= clock'[s] /\ (clock'[s] = clock[s] \/ clock'[s] = e.at)
      BY <3>1, ClaimFacts
    <3>3. Shows(s)'
      BY <1>0, <2>1, <3>1, <3>2, ShowsMoved, ShowsUnmoved
    <3> QED BY <1>0, <1>1, <3>1, <3>2, <3>3, MemberAtSite
  <2>2. CASE RemoveNowhere(s, e) /\ e.kind = "kick"
    <3>1. UNCHANGED <<owner, member, clock>> /\ "early" \in odd'
      BY <2>2 DEF RemoveNowhere, Copy, Deliver, Early
    <3> QED BY <1>0, <1>1, <3>1, ShowsUnmoved, MemberAtSite
  <2>3. CASE RemoveFromCopy(s, e) /\ Older(s, e)
    <3>1. UNCHANGED <<owner, clock>> /\ member'[s] = member[s]
      BY <1>0, <2>3 DEF RemoveFromCopy, BaseInv, GroupTypeOK
    <3> QED BY <1>0, <1>1, <2>3, <3>1, ShowsUnmoved, MemberAtSite DEF Older
  <2>4. CASE RemoveFromCopy(s, e) /\ ~Older(s, e)
    <3>1. ~member'[s] /\ owner' = owner /\ clock' = ClockAt(s, e.at)
      BY <2>4 DEF RemoveFromCopy, BaseInv, GroupTypeOK
    <3>2. clock'[s] = e.at
      BY <2>4, <3>1, ClaimFacts
    <3>3. Shows(s)'
      BY <1>0, <1>4, <3>1, <3>2, ShowsMoved
    <3> QED BY <1>0, <1>1, <3>1, <3>2, <3>3, MemberAtSite
  <2> QED BY <1>4, <2>1, <2>2, <2>3, <2>4 DEF ProcessMemberRemove
<1> QED BY <1>2, <1>3, <1>4 DEF Deliver

\* A bootstrap takes the member in, or, told already that it has left, leaves it out.
LEMMA MemberFinish ==
  ASSUME BaseInv, MemberInv, NEW s \in Site, NEW e \in starting[s], FinishCopy(s, e)
  PROVE  MemberInv'
<1>0. /\ AtSite(s, e) /\ e \in ForSite(s) /\ e.kind = "add" /\ UNCHANGED groupLog
      /\ e \in groupLog /\ clock[s] \in Nat
  BY FinishAtSite, TimeFacts, MoveFacts DEF BaseInv, AtSite
<1>1. CASE holds[s]
  <2>1. UNCHANGED <<owner, member, clock, settled>>
    BY <1>1 DEF FinishCopy, Copy
  <2>2. ~Transferred => owner'[s] = First
    BY <2>1 DEF MemberInv, CaughtUp
  <2> QED BY <1>0, <2>1, <2>2, ShowsUnmoved, MemberAtSite
<1>2. CASE ~holds[s]
  <2>1. /\ owner'[s] = e.owner /\ member'[s] = ~Older(s, e) /\ ~member[s]
        /\ clock' = ClockAt(s, e.at)
    BY <1>2 DEF FinishCopy, BaseInv, GroupTypeOK
  <2>2. e.at <= clock'[s] /\ clock'[s] = IF Older(s, e) THEN clock[s] ELSE e.at
    BY <1>0, <2>1, ClaimFacts
  <2>3. Shows(s)'
    <3>1. CASE Older(s, e)
      BY <1>0, <2>1, <2>2, <3>1, ShowsUnmoved DEF BaseInv, GroupTypeOK, AtSite
    <3>2. CASE ~Older(s, e)
      BY <1>0, <2>1, <2>2, <3>2, ShowsMoved
    <3> QED BY <3>1, <3>2
  <2>4. ~Transferred => owner'[s] = First
    BY <1>0, <2>1 DEF MemberInv, CaughtUp
  <2> QED BY <1>0, <2>2, <2>3, <2>4, MemberAtSite
<1> QED BY <1>1, <1>2

LEMMA MemberGiveUp ==
  ASSUME BaseInv, MemberInv, NEW s \in Site, NEW e \in ForSite(s), GiveUp(s, e)
  PROVE  MemberInv'
<1>1. AtSite(s, e) /\ UNCHANGED <<owner, member, clock, groupLog>> /\ e \in groupLog
  BY GiveUpAtSite, MoveFacts DEF BaseInv, AtSite
<1>2. ~Transferred => owner'[s] = First
  BY <1>1 DEF MemberInv, CaughtUp
<1>3. ~Transferred /\ CaughtUp => e.kind # "kick"
  BY <1>1 DEF GiveUp, Authorised, CaughtUp, First
<1>4. e.kind \in {"kick", "transfer"}
  BY DEF GiveUp
<1> QED BY <1>1, <1>2, <1>3, <1>4, ShowsUnmoved, MemberAtSite

LEMMA MemberStep ==
  ASSUME BaseInv, MemberInv, [GroupNext]_groupVars
  PROVE  MemberInv'
<1>1. CASE UNCHANGED groupVars
  BY <1>1 DEF groupVars, MemberInv, LogInv, Shows, CaughtUp, MemberMoves, Transferred
<1>2. ASSUME NEW s \in Site, (s = MemberHome /\ LeaveGroup) \/ AddMember(s) \/ KickMember(s)
      PROVE  MemberInv'
  BY <1>2, ChangeFacts, MemberMoved
<1>3. CASE GroupNext
  BY <1>2, <1>3, MemberTransfer, MemberDeliver, MemberGiveUp, MemberFinish, SiteFacts
  DEF GroupNext
<1> QED BY <1>1, <1>3

LEMMA MembersShown == ASSUME BaseInv, MemberInv PROVE MembersAgree
<1> SUFFICES ASSUME AllSettled, ~Transferred, "early" \notin odd, NEW s \in Site
             PROVE  member[s] <=> lastMove = "add"
  BY DEF MembersAgree, Agreed
<1>1. \A e \in MemberMoves : e \in groupLog /\ e.at \in Nat /\ e.at > 0 /\ clock[s] \in Nat
  BY TimeFacts DEF MemberMoves
<1>2. \A e \in MemberMoves : e.at <= clock[s]
  <2> SUFFICES ASSUME NEW e \in MemberMoves PROVE e.at <= clock[s]
    OBVIOUS
  <2>1. s = e.from \/ e \in ForSite(s)
    BY DEF MemberInv, LogInv, ForSite, MemberMoves
  <2>2. s = e.from \/ e \in settled[s]
    BY <2>1 DEF AllSettled
  <2> QED BY <2>2 DEF MemberInv, CaughtUp
<1>3. CASE MemberMoves = {}
  BY <1>3 DEF MemberInv, LogInv, Shows
<1>4. CASE MemberMoves # {}
  <2>1. PICK e \in MemberMoves : e.kind = lastMove /\ \A f \in MemberMoves : f.at <= e.at
    BY <1>4 DEF MemberInv, LogInv
  <2>2. PICK f \in MemberMoves : f.at = clock[s] /\ (member[s] <=> f.kind = "add")
    BY <1>1, <1>2, <2>1 DEF MemberInv, Shows
  <2>3. f.at = e.at
    BY <1>1, <1>2, <2>1, <2>2
  <2>4. f = e
    BY <1>1, <2>3 DEF MemberInv, LogInv
  <2> QED BY <2>1, <2>2, <2>4
<1> QED BY <1>3, <1>4

\* For any number of instances and changes, once every event has been delivered, in
\* whatever order and however often, the copies agree on who is in the group.
THEOREM MembersCorrect == GroupSpec => []MembersAgree
<1>1. GroupInit => BaseInv /\ TokenInv /\ MemberInv
  BY BaseStart, TokenStart, MemberStart
<1>2. BaseInv /\ TokenInv /\ MemberInv /\ [GroupNext]_groupVars
        => BaseInv' /\ TokenInv' /\ MemberInv'
  BY TokenStep, MemberStep
<1>3. BaseInv /\ MemberInv => MembersAgree
  BY MembersShown
<1> QED BY <1>1, <1>2, <1>3, PTL DEF GroupSpec
=============================================================================
