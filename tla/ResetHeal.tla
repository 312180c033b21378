------------------------------ MODULE ResetHeal ------------------------------
(***************************************************************************)
(* What this instance does about the users of a peer that was wiped and set *)
(* up again on its domain.  Seeing another incarnation flags the users known *)
(* so far and writes a journal; only a handshake that confirms the new       *)
(* incarnation deletes the flagged stubs and detaches the flagged accounts.  *)
(***************************************************************************)
EXTENDS Naturals, FiniteSets

CONSTANTS
  MaxWipes,     \* times the peer is set up anew
  MaxRestores,  \* times a backup brings an earlier incarnation back
  MaxCrashes    \* times this instance stops in the middle of a heal

ASSUME ResetAssumption ==
  /\ MaxWipes \in Nat
  /\ MaxRestores \in Nat
  /\ MaxCrashes \in Nat

VARIABLES
  live,      \* the incarnation that runs on the peer's domain
  latest,    \* the newest one there was
  peering,   \* the peer row: established, with a reset detected, or neither
  baseline,  \* its peer_instance_id
  observed,  \* its observed_peer_instance_id
  dead,      \* dead_epoch of the reset journal
  open,      \* the journal is unresolved
  plain,     \* users homed at the peer without federation_heal_pending
  flagged,   \* users with it
  gone,      \* users deleted or detached by a heal: never made again
  noticed,   \* history: incarnations seen replaced, while no backup came back
  early,     \* history: incarnations met before their detection, or twice
  restores, crashes

resetVars == <<live, latest, peering, baseline, observed, dead, open, plain, flagged, gone,
               noticed, early, restores, crashes>>
-----------------------------------------------------------------------------
NoEpoch == 0
Epoch == 1..(MaxWipes + 1)
User == [of : Epoch, kind : {"stub", "account"}]
Of(users, e) == {u \in users : u.of = e}
Stubs(users) == {u \in users : u.kind = "stub"}

ResetTypeOK ==
  /\ latest \in Epoch /\ live \in 1..latest
  /\ peering \in {"none", "active", "attention"}
  /\ baseline \in 0..latest /\ (peering = "none" <=> baseline = NoEpoch)
  /\ observed \in 0..latest /\ (peering = "attention" <=> observed # NoEpoch)
  /\ dead \in 0..latest /\ (open => dead # NoEpoch)
  /\ plain \subseteq User /\ flagged \subseteq User /\ gone \subseteq User
  /\ plain \cap flagged = {} /\ gone \cap (plain \cup flagged) = {}
  /\ noticed \subseteq Epoch /\ early \subseteq Epoch
  /\ restores \in 0..MaxRestores /\ crashes \in 0..MaxCrashes

ResetInit ==
  /\ live = 1 /\ latest = 1
  /\ peering = "none" /\ baseline = NoEpoch /\ observed = NoEpoch
  /\ dead = NoEpoch /\ open = FALSE
  /\ plain = {} /\ flagged = {} /\ gone = {}
  /\ noticed = {} /\ early = {}
  /\ restores = 0 /\ crashes = 0

-----------------------------------------------------------------------------
(* The peer.                                                                *)

Wipe ==
  /\ latest <= MaxWipes
  /\ latest' = latest + 1 /\ live' = latest + 1
  /\ UNCHANGED <<peering, baseline, observed, dead, open, plain, flagged, gone, noticed, early,
                 restores, crashes>>

Restore(e) ==
  /\ restores < MaxRestores
  /\ e \in 1..latest \ {live}
  /\ live' = e
  /\ restores' = restores + 1
  /\ early' = early \cup {e} /\ noticed' = {}
  /\ UNCHANGED <<latest, peering, baseline, observed, dead, open, plain, flagged, gone, crashes>>

\* A user of the peer becomes known: a friend or DM member is added by its identity
\* (a stub), or it signs in here (an account).  A deleted identity stays deleted.
Meet(u) ==
  /\ u.of = live
  /\ u \notin plain \cup flagged \cup gone
  /\ plain' = plain \cup {u}
  /\ early' = IF peering # "none" /\ live \notin {baseline, observed}
              THEN early \cup {live} ELSE early
  /\ UNCHANGED <<live, latest, peering, baseline, observed, dead, open, flagged, gone, noticed,
                 restores, crashes>>

-----------------------------------------------------------------------------
(* Detection: markPeerReset.                                                *)

\* Every sight of the other incarnation is taken for a new one.
FirstSight_Always == TRUE

\* The same incarnation seen again is no new detection.
FirstSight == ~(peering = "attention" /\ observed = live)

\* A resolved journal stays resolved.
Journal_StaysResolved ==
  IF dead = NoEpoch THEN dead' = baseline /\ open' = TRUE ELSE UNCHANGED <<dead, open>>

\* An unresolved journal keeps the incarnation it was written for.
Journal == dead' = (IF open THEN dead ELSE baseline) /\ open' = TRUE

\* A probe, or a handshake of the peer's, shows another instance id.
Observe ==
  /\ peering \in {"active", "attention"}
  /\ live # baseline
  /\ FirstSight
  /\ peering' = "attention"
  /\ observed' = live
  /\ flagged' = flagged \cup plain
  /\ plain' = {}
  /\ Journal
  /\ noticed' = IF live \in early THEN noticed
                ELSE (noticed \cup {baseline, observed}) \ {live, NoEpoch}
  /\ UNCHANGED <<live, latest, baseline, gone, early, restores, crashes>>

\* An admin revokes or resets the peering.
RemovePeering ==
  /\ peering # "none"
  /\ peering' = "none" /\ baseline' = NoEpoch /\ observed' = NoEpoch
  /\ UNCHANGED <<live, latest, dead, open, plain, flagged, gone, noticed, early, restores, crashes>>

-----------------------------------------------------------------------------
(* The heal: healResetIncarnation and quarantineOrphanedAccounts, run as the *)
(* handshake's row turns active.  Every deletion commits on its own.         *)

\* A false alarm leaves the flags to the next reset.
Unflag_KeepsFlags == UNCHANGED <<plain, flagged, gone>>

Unflag == plain' = plain \cup flagged /\ flagged' = {} /\ UNCHANGED gone

\* The healed users are looked up by what the deletion overwrote.
Heal_KeepsFlags(users) == gone' = gone \cup users /\ UNCHANGED <<plain, flagged>>

Heal(users) == flagged' = flagged \ users /\ gone' = gone \cup users /\ UNCHANGED plain

HealDone ==
  /\ open
  /\ IF dead = live THEN Unflag ELSE Heal(flagged)
  /\ open' = FALSE

\* The process stops on the way.
HealCut ==
  /\ open /\ crashes < MaxCrashes
  /\ crashes' = crashes + 1
  /\ \/ dead = live /\ Unflag
     \/ dead # live /\ \E users \in SUBSET Stubs(flagged) : Heal(users)
     \/ UNCHANGED <<plain, flagged, gone>>
  /\ UNCHANGED open

\* A handshake, signed on both sides, ends in an active row with the peer's id.
Handshake ==
  /\ peering = "none"
  /\ peering' = "active" /\ baseline' = live
  /\ \/ HealDone /\ UNCHANGED crashes
     \/ HealCut
     \/ ~open /\ UNCHANGED <<open, plain, flagged, gone, crashes>>
  /\ UNCHANGED <<live, latest, observed, dead, noticed, early, restores>>

ResetNext ==
  \/ Wipe
  \/ \E e \in Epoch : Restore(e)
  \/ \E u \in User : Meet(u)
  \/ Observe \/ RemovePeering \/ Handshake

ResetSpec == ResetInit /\ [][ResetNext]_resetVars

-----------------------------------------------------------------------------
\* No snapshot outlives its journal: flags are there only while a reset waits for
\* its heal, however resets, crashes and handshakes follow each other, so a later
\* reset never acts on an older one's flags alone.
SnapshotHasJournal == flagged # {} => open

\* Once the journal is resolved nobody is left of an incarnation this instance saw
\* replaced, also when the peer was reset again before the admin re-peered.
HealComplete == ~open => \A u \in plain \cup flagged : u.of \notin noticed

\* A heal deletes and detaches nobody of the incarnation it confirms, if those users
\* were met after its detection and no backup brought it back.
HealSparesLater == [][Handshake /\ live \notin early => Of(gone', live) = Of(gone, live)]_resetVars

\* No heal ever deletes or detaches a user of the incarnation it confirms
\* (federationReset.ts: the snapshot holds "exactly the current (dead-incarnation) users").
HealSparesConfirmed == [][Handshake => Of(gone', live) = Of(gone, live)]_resetVars
=============================================================================
