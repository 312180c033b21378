-------------------------- MODULE ResetHealProofs --------------------------
(***************************************************************************)
(* The heal of a reset peer, for any number of wipes, restored backups,     *)
(* removed peerings and crashes.                                           *)
(***************************************************************************)
EXTENDS ResetHeal, TLAPS

\* Nobody is known of an incarnation that is still to come.
KnownHaveBeen == \A u \in plain \cup flagged : u.of <= latest

\* The running incarnation was not seen replaced, and nobody free of the flag is of
\* one that was.
NoticedInv ==
  /\ noticed \subseteq 1..latest /\ live \notin noticed
  /\ \A u \in plain : u.of \notin noticed

\* A journal for the incarnation that runs again was left by a backup.
JournalInv == open /\ dead = live => noticed = {} /\ live \in early

\* Who could be flagged too much: users of the running incarnation, met before their
\* row tells them from the dead.
EarlyInv ==
  /\ \A u \in flagged : u.of = live => live \in early
  /\ \A u \in plain : u.of = live /\ peering # "none" /\ live \notin {baseline, observed}
                        => live \in early

ResetInv ==
  ResetTypeOK /\ SnapshotHasJournal /\ KnownHaveBeen /\ NoticedInv /\ JournalInv /\ EarlyInv

HealInvs == SnapshotHasJournal /\ NoticedInv /\ JournalInv /\ EarlyInv /\ KnownHaveBeen

HealSparesStep == Handshake /\ live \notin early => Of(gone', live) = Of(gone, live)

LEMMA ResetStart == ASSUME ResetInit PROVE ResetInv
<1> USE ResetAssumption DEF ResetInit, Epoch, NoEpoch
<1>1. ResetTypeOK
  BY DEF ResetTypeOK
<1>2. HealInvs
  BY DEF HealInvs, SnapshotHasJournal, KnownHaveBeen, NoticedInv, JournalInv, EarlyInv
<1> QED BY <1>1, <1>2 DEF ResetInv, HealInvs

LEMMA WipeKeeps == ASSUME ResetInv, Wipe PROVE ResetInv'
<1> USE ResetAssumption DEF ResetInv, Wipe
<1>1. ResetTypeOK'
  BY DEF ResetTypeOK, Epoch, NoEpoch
<1>2. \A u \in plain \cup flagged : u.of # latest + 1
  BY DEF ResetTypeOK, KnownHaveBeen, User, Epoch
<1>3. HealInvs'
  BY <1>2 DEF HealInvs, SnapshotHasJournal, KnownHaveBeen, NoticedInv, JournalInv, EarlyInv,
     ResetTypeOK, User, Epoch
<1> QED BY <1>1, <1>3 DEF HealInvs

LEMMA RestoreKeeps == ASSUME ResetInv, NEW e \in Epoch, Restore(e) PROVE ResetInv'
<1> USE ResetAssumption DEF ResetInv, Restore
<1>1. ResetTypeOK'
  BY DEF ResetTypeOK, Epoch, NoEpoch
<1>2. HealInvs'
  BY DEF HealInvs, SnapshotHasJournal, KnownHaveBeen, NoticedInv, JournalInv, EarlyInv,
     ResetTypeOK
<1> QED BY <1>1, <1>2 DEF HealInvs

LEMMA MeetKeeps == ASSUME ResetInv, NEW u \in User, Meet(u) PROVE ResetInv'
<1> USE ResetAssumption DEF ResetInv, Meet
<1>1. ResetTypeOK'
  BY DEF ResetTypeOK, Epoch, NoEpoch
<1>2. early \subseteq early'
  OBVIOUS
<1>3. SnapshotHasJournal' /\ KnownHaveBeen' /\ NoticedInv'
  BY DEF SnapshotHasJournal, KnownHaveBeen, NoticedInv, ResetTypeOK
<1>4. JournalInv'
  BY <1>2 DEF JournalInv
<1>5. EarlyInv'
  BY <1>2 DEF EarlyInv
<1> QED BY <1>1, <1>3, <1>4, <1>5

\* Whoever of the running incarnation a detection flags was met before it.
LEMMA ObserveKeeps == ASSUME ResetInv, Observe PROVE ResetInv'
<1> USE ResetAssumption DEF ResetInv, Observe
<1>1. ResetTypeOK'
  BY DEF ResetTypeOK, Epoch, NoEpoch, Journal
<1>2. live \notin {baseline, observed}
  BY DEF ResetTypeOK, FirstSight, NoEpoch, Epoch
<1>3. SnapshotHasJournal' /\ KnownHaveBeen'
  BY DEF SnapshotHasJournal, KnownHaveBeen, Journal
<1>4. NoticedInv'
  BY DEF NoticedInv, ResetTypeOK, NoEpoch
<1>5. JournalInv'
  BY DEF JournalInv, Journal
<1>6. EarlyInv'
  BY <1>2 DEF EarlyInv
<1> QED BY <1>1, <1>3, <1>4, <1>5, <1>6

LEMMA RemovePeeringKeeps == ASSUME ResetInv, RemovePeering PROVE ResetInv'
<1> USE ResetAssumption DEF ResetInv, RemovePeering
<1>1. ResetTypeOK'
  BY DEF ResetTypeOK, NoEpoch, Epoch
<1>2. HealInvs'
  BY DEF HealInvs, SnapshotHasJournal, KnownHaveBeen, NoticedInv, JournalInv, EarlyInv
<1> QED BY <1>1, <1>2 DEF HealInvs

\* What a handshake does to the users, whole or cut short.
LEMMA HandshakeHeals ==
  ASSUME ResetInv, Handshake
  PROVE  /\ crashes' \in 0..MaxCrashes
         /\ flagged' # {} => open'
         /\ open' => open
         /\ \/ Unflag /\ (flagged = {} \/ (open /\ dead = live))
            \/ \E users \in SUBSET flagged : Heal(users) /\ (dead # live \/ users = {})
<1> USE ResetAssumption DEF Handshake, ResetInv
<1>1. CASE HealDone /\ UNCHANGED crashes
  BY <1>1 DEF HealDone, Unflag, Heal, ResetTypeOK
<1>2. CASE HealCut
  <2>1. crashes' \in 0..MaxCrashes /\ open /\ open'
    BY <1>2 DEF HealCut, ResetTypeOK
  <2>2. CASE dead = live /\ Unflag
    BY <2>1, <2>2
  <2>3. CASE dead # live /\ \E users \in SUBSET Stubs(flagged) : Heal(users)
    BY <2>1, <2>3 DEF Stubs
  <2>4. CASE UNCHANGED <<plain, flagged, gone>>
    <3>1. Heal({})
      BY <2>4 DEF Heal
    <3> QED BY <2>1, <3>1
  <2> QED BY <1>2, <2>2, <2>3, <2>4 DEF HealCut
<1>3. CASE ~open /\ UNCHANGED <<open, plain, flagged, gone, crashes>>
  <2>1. flagged = {}
    BY <1>3 DEF SnapshotHasJournal
  <2>2. Unflag
    BY <1>3, <2>1 DEF Unflag
  <2> QED BY <1>3, <2>1, <2>2 DEF ResetTypeOK
<1> QED BY <1>1, <1>2, <1>3

LEMMA HandshakeKeeps == ASSUME ResetInv, Handshake PROVE ResetInv'
<1> USE DEF ResetInv, Handshake
<1>1. plain' \cup flagged' \subseteq plain \cup flagged /\ flagged' \subseteq flagged
      /\ plain' \cap flagged' = {} /\ gone' \subseteq User
      /\ gone' \cap (plain' \cup flagged') = {}
  <2>1. CASE Unflag
    BY <2>1 DEF Unflag, ResetTypeOK
  <2>2. CASE \E users \in SUBSET flagged : Heal(users)
    BY <2>2 DEF Heal, ResetTypeOK
  <2> QED BY <2>1, <2>2, HandshakeHeals
<1>2. ResetTypeOK'
  BY <1>1, HandshakeHeals DEF ResetTypeOK, NoEpoch, Epoch
<1>3. SnapshotHasJournal' /\ KnownHaveBeen'
  BY <1>1, HandshakeHeals DEF SnapshotHasJournal, KnownHaveBeen
<1>4. NoticedInv'
  <2>1. CASE Unflag /\ flagged = {}
    BY <2>1 DEF NoticedInv, Unflag
  <2>2. CASE Unflag /\ open /\ dead = live
    BY <2>2 DEF NoticedInv, JournalInv
  <2>3. CASE \E users \in SUBSET flagged : Heal(users)
    BY <2>3 DEF NoticedInv, Heal
  <2> QED BY <2>1, <2>2, <2>3, HandshakeHeals
<1>5. JournalInv'
  BY HandshakeHeals DEF JournalInv
<1>6. EarlyInv'
  BY <1>1 DEF EarlyInv
<1> QED BY <1>2, <1>3, <1>4, <1>5, <1>6

LEMMA ResetStep == ASSUME ResetInv, [ResetNext]_resetVars PROVE ResetInv'
<1>1. CASE UNCHANGED resetVars
  BY <1>1 DEF resetVars, ResetInv, ResetTypeOK, SnapshotHasJournal, KnownHaveBeen, NoticedInv,
     JournalInv, EarlyInv
<1>2. CASE ResetNext
  BY <1>2, WipeKeeps, RestoreKeeps, MeetKeeps, ObserveKeeps, RemovePeeringKeeps, HandshakeKeeps
  DEF ResetNext
<1> QED BY <1>1, <1>2

\* The type invariant of the reset's rows and users.
THEOREM ResetTypeCorrect == ResetSpec => []ResetTypeOK
<1>1. ResetInv => ResetTypeOK
  BY DEF ResetInv
<1> QED BY ResetStart, ResetStep, <1>1, PTL DEF ResetSpec

\* No user carries the flag of a reset whose journal is resolved.
THEOREM SnapshotCorrect == ResetSpec => []SnapshotHasJournal
<1>1. ResetInv => SnapshotHasJournal
  BY DEF ResetInv
<1> QED BY ResetStart, ResetStep, <1>1, PTL DEF ResetSpec

\* When the journal is resolved, every user of an incarnation that was seen replaced
\* has been healed, however many resets the journal covered.
THEOREM HealCompleteCorrect == ResetSpec => []HealComplete
<1>1. ResetInv => HealComplete
  BY DEF ResetInv, HealComplete, SnapshotHasJournal, NoticedInv
<1> QED BY ResetStart, ResetStep, <1>1, PTL DEF ResetSpec

LEMMA HandshakeSpares == ASSUME ResetInv PROVE HealSparesStep
<1> SUFFICES ASSUME Handshake, live \notin early PROVE Of(gone', live) = Of(gone, live)
  BY DEF HealSparesStep
<1>1. \A u \in flagged : u.of # live
  BY DEF ResetInv, EarlyInv
<1>2. CASE Unflag
  BY <1>2 DEF Unflag, Of
<1>3. CASE \E users \in SUBSET flagged : Heal(users)
  BY <1>1, <1>3 DEF Heal, Of
<1> QED BY <1>2, <1>3, HandshakeHeals

\* A heal spares the users of the incarnation it confirms who were met after that
\* incarnation was detected.
THEOREM HealSparesCorrect == ResetSpec => HealSparesLater
<1>1. ResetInv /\ [ResetNext]_resetVars => [HealSparesStep]_resetVars
  BY HandshakeSpares
<1> QED BY ResetStart, ResetStep, <1>1, PTL DEF ResetSpec, HealSparesLater, HealSparesStep
=============================================================================
