----------------------------- MODULE GroupMember -----------------------------
(***************************************************************************)
(* One member of a federated group conversation, and the group's owner, as *)
(* every instance's copy of the group has them.  A member may be added by  *)
(* anybody, is removed by the owner or leaves, and the owner may pass the   *)
(* group on.  Each instance tells the others by events, which arrive by the *)
(* live relay or a pull in any order; the member's subject clock orders the *)
(* adds and removals, and nothing orders the transfers.                     *)
(***************************************************************************)
EXTENDS Naturals, FiniteSets

CONSTANTS
  Site,        \* the instances
  MemberHome,  \* the member's own instance, which has no other user in the group
  FirstHome,   \* the instance of the group's first owner
  PerHome,     \* users of each other instance who are in the group all the time
  MaxMoves     \* changes that are made, the bound on time

ASSUME GroupAssumption ==
  /\ MemberHome \in Site
  /\ FirstHome \in Site \ {MemberHome}
  /\ PerHome \in Nat \ {0}
  /\ MaxMoves \in Nat

Standing == Site \ {MemberHome}
Owner == [home : Standing, id : 1..PerHome]

VARIABLES
  holds,      \* holds[s]: s has the row of the group in dm_channels
  member,     \* member[s]: the member's row in dm_members at s
  owner,      \* owner[s]: the group's owner in the copy of s
  clock,      \* clock[s]: the member's row of federation_subject_clocks
  groupLog,   \* the events in the mutation logs
  marked,     \* marked[s]: events with a system message at s, the marker of a duplicate
  settled,    \* settled[s]: events the senders and the pull of s are done with
  starting,   \* starting[s]: adds whose bootstrap waits for the group's icon
  now,        \* the time of the latest change
  lastMove,   \* history: the last thing that happened to the member
  realOwner,  \* history: the owner by the last transfer
  odd         \* history: what was unusual about the deliveries

groupVars == <<holds, member, owner, clock, groupLog, marked, settled, starting, now,
               lastMove, realOwner, odd>>
-----------------------------------------------------------------------------
\* What is told of a change: the instances it goes to, and the owner it names
\* (the new one for a transfer).
Move == [kind : {"add", "leave", "kick", "transfer"}, from : Site, told : SUBSET Site,
         owner : Owner, at : 1..MaxMoves]

GroupTypeOK ==
  /\ holds \in [Site -> BOOLEAN]
  /\ member \in [Site -> BOOLEAN]
  /\ owner \in [Site -> Owner]
  /\ clock \in [Site -> 0..MaxMoves]
  /\ groupLog \subseteq Move
  /\ marked \in [Site -> SUBSET Move]
  /\ settled \in [Site -> SUBSET Move]
  /\ starting \in [Site -> SUBSET Move]
  /\ now \in 0..MaxMoves
  /\ lastMove \in {"add", "leave", "kick"}
  /\ realOwner \in Owner
  /\ odd \subseteq {"early", "overtaken"}

\* The group exists where its standing users live; the member is not in it yet.
GroupInit ==
  /\ holds = [s \in Site |-> s # MemberHome]
  /\ member = [s \in Site |-> FALSE]
  /\ owner = [s \in Site |-> [home |-> FirstHome, id |-> 1]]
  /\ clock = [s \in Site |-> 0]
  /\ groupLog = {}
  /\ marked = [s \in Site |-> {}]
  /\ settled = [s \in Site |-> {}]
  /\ starting = [s \in Site |-> {}]
  /\ now = 0
  /\ lastMove = "leave"
  /\ realOwner = [home |-> FirstHome, id |-> 1]
  /\ odd = {}

\* recordSubjectChange, never back; isSubjectChangeStale.
ClockAt(s, at) == IF at > clock[s] THEN [clock EXCEPT ![s] = at] ELSE clock
Older(s, e) == e.at < clock[s]

-----------------------------------------------------------------------------
(* The routes: a change made at s, told to the instances of the members, the *)
(* one it adds or removes included.                                         *)

\* getGroupDmTargetOrigins
Others(s, withMember) == (IF withMember THEN Site ELSE Standing) \ {s}

\* The event carries the time of the change before.
Announce_OldTime(s, kind, to, withMember) ==
  /\ now < MaxMoves
  /\ now' = now + 1
  /\ groupLog' = groupLog \cup {[kind |-> kind, from |-> s, told |-> Others(s, withMember),
                                 owner |-> to, at |-> now]}
  /\ UNCHANGED <<marked, settled, starting>>

Announce(s, kind, to, withMember) ==
  /\ now < MaxMoves
  /\ now' = now + 1
  /\ groupLog' = groupLog \cup {[kind |-> kind, from |-> s, told |-> Others(s, withMember),
                                 owner |-> to, at |-> now + 1]}
  /\ UNCHANGED <<marked, settled, starting>>

Moved(s, kind, there) ==
  /\ member' = [member EXCEPT ![s] = there]
  /\ clock' = ClockAt(s, now + 1)
  /\ lastMove' = kind
  /\ Announce(s, kind, owner[s], TRUE)
  /\ UNCHANGED <<holds, owner, realOwner, odd>>

\* POST /api/dm/:id/members, by a standing user
AddMember(s) ==
  /\ s \in Standing
  /\ ~member[s]
  /\ Moved(s, "add", TRUE)

\* DELETE /api/dm/:id/members
LeaveGroup ==
  /\ holds[MemberHome] /\ member[MemberHome]
  /\ Moved(MemberHome, "leave", FALSE)

\* DELETE /api/dm/:id/members/:targetUserId, by the owner
KickMember(s) ==
  /\ owner[s].home = s
  /\ member[s]
  /\ Moved(s, "kick", FALSE)

\* POST /api/dm/:id/transfer.  The member's instance is told if the member is in.
TransferOwner(s) ==
  /\ owner[s].home = s
  /\ \E p \in Owner \ {owner[s]} :
       /\ owner' = [owner EXCEPT ![s] = p]
       /\ realOwner' = p
       /\ Announce(s, "transfer", p, member[s])
  /\ UNCHANGED <<holds, member, clock, lastMove, odd>>

-----------------------------------------------------------------------------
(* The processors.  `Done' is an accepted or finally refused event, `mark'   *)
(* says that a system message was written for it.                           *)

ForSite(s) == {e \in groupLog : s \in e.told}

Done(s, e, mark) ==
  /\ settled' = [settled EXCEPT ![s] = @ \cup {e}]
  /\ marked' = IF mark THEN [marked EXCEPT ![s] = @ \cup {e}] ELSE marked

Copy == <<holds, member, owner>>

\* An add older than the member's last change here, bootstrap or not.
IgnoreAdd(s, e) ==
  /\ Older(s, e)
  /\ Done(s, e, FALSE)
  /\ UNCHANGED <<Copy, clock, starting>>

\* The clock is not asked: an add is applied whenever it comes.
AddToCopy_Always(s, e) ==
  /\ holds[s]
  /\ clock' = ClockAt(s, e.at)
  /\ member' = [member EXCEPT ![s] = TRUE]
  /\ Done(s, e, TRUE)
  /\ UNCHANGED <<holds, owner, starting>>

\* Incremental: the adder, a standing user, is a member of every copy.
AddToCopy(s, e) ==
  /\ ~Older(s, e)
  /\ holds[s]
  /\ clock' = ClockAt(s, e.at)
  /\ member' = [member EXCEPT ![s] = TRUE]
  /\ Done(s, e, TRUE)
  /\ UNCHANGED <<holds, owner, starting>>

\* No copy: only the owner's instance may start one, and the icon is fetched first.
StartCopy(s, e) ==
  /\ ~Older(s, e)
  /\ ~holds[s]
  /\ IF e.owner.home = e.from
     THEN /\ starting' = [starting EXCEPT ![s] = @ \cup {e}]
          /\ UNCHANGED <<settled, marked>>
     ELSE /\ Done(s, e, FALSE)
          /\ UNCHANGED starting
  /\ UNCHANGED <<Copy, clock>>

ProcessMemberAdd(s, e) == IgnoreAdd(s, e) \/ AddToCopy(s, e) \/ StartCopy(s, e)

\* After the download: the group's row (a second one throws, and the event stays
\* to be retried), the roster without a member whose clock is newer, the claim.
FinishCopy(s, e) ==
  /\ e \in starting[s]
  /\ starting' = [starting EXCEPT ![s] = @ \ {e}]
  /\ IF holds[s]
     THEN UNCHANGED <<Copy, clock, settled, marked>>
     ELSE /\ holds' = [holds EXCEPT ![s] = TRUE]
          /\ owner' = [owner EXCEPT ![s] = e.owner]
          /\ member' = [member EXCEPT ![s] = ~Older(s, e)]
          /\ clock' = ClockAt(s, e.at)
          /\ Done(s, e, ~Older(s, e))
  /\ UNCHANGED <<groupLog, now, lastMove, realOwner, odd>>

\* A removal where there is no group: a leave still moves the clock.
RemoveNowhere(s, e) ==
  /\ ~holds[s]
  /\ clock' = IF e.kind = "leave" THEN ClockAt(s, e.at) ELSE clock
  /\ Done(s, e, FALSE)
  /\ UNCHANGED <<Copy, starting>>

\* A kick counts from the instance of the owner this copy has; from another it is
\* refused, to be retried.  A kick of nobody moves the clock all the same.
Authorised(s, e) == e.kind = "leave" \/ owner[s].home = e.from

RemoveFromCopy(s, e) ==
  /\ holds[s]
  /\ Authorised(s, e)
  /\ clock' = IF Older(s, e) THEN clock ELSE ClockAt(s, e.at)
  /\ member' = [member EXCEPT ![s] = @ /\ Older(s, e)]
  /\ Done(s, e, ~Older(s, e))
  /\ UNCHANGED <<holds, owner, starting>>

ProcessMemberRemove(s, e) == RemoveNowhere(s, e) \/ RemoveFromCopy(s, e)

\* Only the instance of the owner this copy has may transfer; no clock.
MayTransfer(s, e) == owner[s].home = e.from

\* No system message, so nothing tells a transfer that comes again.
ProcessOwnershipTransfer_Unmarked(s, e) ==
  \/ /\ ~holds[s]
     /\ Done(s, e, FALSE)
     /\ UNCHANGED <<Copy, clock, starting>>
  \/ /\ holds[s]
     /\ MayTransfer(s, e)
     /\ owner' = [owner EXCEPT ![s] = e.owner]
     /\ Done(s, e, FALSE)
     /\ UNCHANGED <<holds, member, clock, starting>>

ProcessOwnershipTransfer(s, e) ==
  \/ /\ ~holds[s]
     /\ Done(s, e, FALSE)
     /\ UNCHANGED <<Copy, clock, starting>>
  \/ /\ holds[s]
     /\ MayTransfer(s, e)
     /\ owner' = [owner EXCEPT ![s] = e.owner]
     /\ Done(s, e, TRUE)
     /\ UNCHANGED <<holds, member, clock, starting>>

\* A kick, or an add by another than the owner, comes before the copy it is for.
Early(s, e) == ~holds[s] /\ (e.kind = "kick" \/ (e.kind = "add" /\ e.owner.home # e.from))

\* An earlier change is still on its way here.
LeavesBehind(s, e) == \E f \in ForSite(s) \ settled[s] : f.at < e.at

\* processRelayEvents: any event not marked, also one delivered before.
Deliver(s, e) ==
  /\ e \in ForSite(s) \ marked[s]
  /\ \/ e.kind = "add" /\ ProcessMemberAdd(s, e)
     \/ e.kind \in {"leave", "kick"} /\ ProcessMemberRemove(s, e)
     \/ e.kind = "transfer" /\ ProcessOwnershipTransfer(s, e)
  /\ odd' = odd \cup (IF Early(s, e) THEN {"early"} ELSE {})
                \cup (IF LeavesBehind(s, e) THEN {"overtaken"} ELSE {})
  /\ UNCHANGED <<groupLog, now, lastMove, realOwner>>

\* An event that is still refused when its time is up is dropped.
GiveUp(s, e) ==
  /\ e \in ForSite(s) \ settled[s]
  /\ holds[s]
  /\ \/ e.kind = "kick" /\ ~Authorised(s, e)
     \/ e.kind = "transfer" /\ ~MayTransfer(s, e)
  /\ Done(s, e, FALSE)
  /\ odd' = odd \cup (IF ForSite(s) \subseteq settled[s] \cup {e} THEN {} ELSE {"overtaken"})
  /\ UNCHANGED <<Copy, clock, starting, groupLog, now, lastMove, realOwner>>

GroupNext ==
  \/ LeaveGroup
  \/ \E s \in Site : AddMember(s) \/ KickMember(s) \/ TransferOwner(s)
  \/ \E s \in Site : \E e \in ForSite(s) : Deliver(s, e) \/ GiveUp(s, e)
  \/ \E s \in Site : \E e \in starting[s] : FinishCopy(s, e)

GroupSpec == GroupInit /\ [][GroupNext]_groupVars

-----------------------------------------------------------------------------
AllSettled == \A s \in Site : ForSite(s) \subseteq settled[s] /\ starting[s] = {}

Transferred == \E e \in groupLog : e.kind = "transfer"
Agreed == \A s \in Site : holds[s] => (member[s] <=> lastMove = "add")

\* Once every event was delivered, in any order and any number of times, every
\* copy of the group has the member in or out as the last change of it says,
\* while the owner stays and no kick, and no add of another's, came before the
\* copy it was for.
MembersAgree == AllSettled /\ ~Transferred /\ "early" \notin odd => Agreed

\* At most one instance takes its own user for the owner, whatever the order in
\* which transfers arrive: where an own user is the owner, it is the real one.
SoleOwner == \A s \in Site : owner[s].home = s => owner[s] = realOwner

\* The copies have the member as the last change says, whoever owns the group,
\* at least where every instance got every event in the order of the changes
\* (federation.md "Subject clocks": member events are last-writer-wins).
LastMoveWins == AllSettled /\ odd = {} => Agreed
=============================================================================
