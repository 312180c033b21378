------------------------ MODULE SecretRotationProofs ------------------------
(***************************************************************************)
(* Two peers that rotate their secret sign with one the other knows, for any *)
(* grace period, any interval of the ticks and any number of rotations.      *)
(***************************************************************************)
EXTENDS SecretRotation, TLAPS

\* A pending secret meets a tick within an interval after its grace period.
ClockInv ==
  \A p \in Peer : /\ incoming[p] = None => elapsed[p] = 0
                  /\ elapsed[p] + untilTick[p] <= Grace + Period

\* Where a rotation stands: before it or with both sides at the same point, with one
\* side promoted and the other not, or taken by the remote whose answer is on its way.
Level == primary["one"] = primary["two"] /\ incoming["one"] = incoming["two"]
Ahead(p) == incoming[p] = None /\ incoming[Remote(p)] = primary[p]
Answering(p) ==
  /\ call[p].phase = "taken"
  /\ primary[p] = primary[Remote(p)]
  /\ incoming[p] = None /\ incoming[Remote(p)] = call[p].key
  /\ elapsed[Remote(p)] = 0

\* As long as neither crossed calls nor a lost answer set the two apart.
TogetherInv ==
  /\ \A p \in Peer : call[p].phase # "none" => incoming[p] = None /\ call[Remote(p)].phase = "none"
  /\ \/ (\A p \in Peer : call[p].phase # "taken") /\ (Level \/ \E p \in Peer : Ahead(p))
     \/ \E p \in Peer : Answering(p)

RotationInv == RotationTypeOK /\ ClockInv /\ (apart \/ TogetherInv)

LEMMA RotationStart == ASSUME RotationInit PROVE RotationInv
<1> USE RotationAssumption DEF RotationInit
<1>0. 1 \in Secret /\ NoCall \in Call
  BY DEF Secret, NoCall, Call
<1>1. RotationTypeOK
  <2>1. untilTick \in [Peer -> 0..Period]
    OBVIOUS
  <2>2. 0 \in 0..Grace + Period /\ 0 \in 0..MaxLosses
    OBVIOUS
  <2>3. elapsed \in [Peer -> 0..Grace + Period]
    BY <2>2
  <2>4. authFailures \in [Peer -> 0..AuthFailureThreshold]
    OBVIOUS
  <2> QED BY <1>0, <2>1, <2>2, <2>3, <2>4 DEF RotationTypeOK
<1>2. ClockInv
  BY DEF ClockInv
<1>3. TogetherInv
  BY DEF TogetherInv, Level, NoCall, Peer
<1> QED BY <1>1, <1>2, <1>3 DEF RotationInv

LEMMA AskKeeps == ASSUME RotationInv, NEW p \in Peer, AskRotation(p) PROVE RotationInv'
<1> USE RotationAssumption DEF RotationInv, AskRotation
<1>1. RotationTypeOK'
  BY DEF RotationTypeOK, Secret, Call
<1>2. ClockInv'
  BY DEF ClockInv
<1>3. ASSUME ~apart' PROVE TogetherInv'
  <2>1. TogetherInv /\ \A q \in Peer : call[q].phase = "none"
    BY <1>3 DEF Peer, Remote
  <2>2. \A q \in Peer : ~Answering(q)
    BY <2>1 DEF Answering
  <2>3. (\A q \in Peer : call'[q].phase # "taken") /\ (Level \/ \E q \in Peer : Ahead(q))'
    BY <2>1, <2>2 DEF TogetherInv, Level, Ahead, RotationTypeOK
  <2> QED BY <2>1, <2>3 DEF TogetherInv, RotationTypeOK, Peer, Remote
<1> QED BY <1>1, <1>2, <1>3

LEMMA TakeKeeps == ASSUME RotationInv, NEW p \in Peer, TakeRotation(p) PROVE RotationInv'
<1> USE RotationAssumption DEF RotationInv, TakeRotation
<1>0. call[p] \in Call /\ call[p].key \in Secret \cup {None} /\ Remote(p) \in Peer \ {p}
      /\ Remote(Remote(p)) = p
  BY DEF RotationTypeOK, Call, Peer, Remote
<1>1. RotationTypeOK'
  <2>1. /\ incoming' \in [Peer -> Secret \cup {None}]
        /\ elapsed' \in [Peer -> 0..Grace + Period]
    BY <1>0 DEF RotationTypeOK, Pend
  <2>2. [call[p] EXCEPT !.phase = "taken"] \in Call /\ [call[p] EXCEPT !.phase = "refused"] \in Call
    BY <1>0 DEF Call
  <2>3. call' \in [Peer -> Call]
    BY <2>2 DEF RotationTypeOK
  <2> QED BY <2>1, <2>3 DEF RotationTypeOK
<1>2. ClockInv'
  BY <1>0 DEF ClockInv, Pend, RotationTypeOK
<1>3. ASSUME ~apart' PROVE TogetherInv'
  <2>1. TogetherInv /\ incoming[p] = None /\ call[Remote(p)].phase = "none"
    BY <1>3 DEF TogetherInv
  <2>2. (\A q \in Peer : call[q].phase # "taken") /\ (Level \/ \E q \in Peer : Ahead(q))
    BY <2>1, <1>0 DEF TogetherInv, Answering, Peer, Remote
  <2>3. \A q \in Peer : call'[q].phase # "none" => q = p
    BY <2>1, <1>0 DEF RotationTypeOK, Peer, Remote
  <2>4. CASE MayTake(Remote(p), call[p])
    <3>1. incoming[Remote(p)] = None
      BY <2>4 DEF MayTake
    <3>2. primary[p] = primary[Remote(p)]
      BY <3>1, <2>1, <2>2, <1>0 DEF Level, Ahead, Peer, Remote, RotationTypeOK, Secret, None
    <3>3. Answering(p)'
      BY <2>1, <2>4, <3>2, <1>0 DEF Answering, Pend, RotationTypeOK, Call
    <3> QED BY <2>1, <2>3, <3>3, <1>0 DEF TogetherInv, Pend, RotationTypeOK
  <2>5. CASE ~MayTake(Remote(p), call[p])
    <3>1. call'[p].phase = "refused"
      BY <2>5, <1>0 DEF RotationTypeOK, Call
    <3>2. \A q \in Peer : call'[q].phase # "taken"
      BY <2>3, <3>1
    <3>3. (Level \/ \E q \in Peer : Ahead(q))'
      BY <2>2, <2>5 DEF Level, Ahead
    <3> QED BY <2>1, <2>3, <2>5, <3>2, <3>3, <1>0 DEF TogetherInv, RotationTypeOK
  <2> QED BY <2>4, <2>5
<1> QED BY <1>1, <1>2, <1>3

LEMMA SettleKeeps == ASSUME RotationInv, NEW p \in Peer, SettleRotation(p) PROVE RotationInv'
<1> USE RotationAssumption DEF RotationInv, SettleRotation
<1>0. call[p] \in Call /\ call[p].key \in Secret \cup {None} /\ Remote(p) \in Peer \ {p}
      /\ Remote(Remote(p)) = p
  BY DEF RotationTypeOK, Call, Peer, Remote
<1>1. RotationTypeOK'
  <2>1. NoCall \in Call
    BY DEF NoCall, Call
  <2> QED BY <1>0, <2>1 DEF RotationTypeOK, Pend
<1>2. ClockInv'
  BY <1>0 DEF ClockInv, Pend, RotationTypeOK
<1>3. ASSUME ~apart' PROVE TogetherInv'
  <2>1. TogetherInv /\ call[Remote(p)].phase = "none"
    BY <1>3 DEF TogetherInv
  <2>2. \A q \in Peer : call'[q].phase = "none"
    BY <2>1, <1>0 DEF RotationTypeOK, NoCall, Peer, Remote
  <2>3. CASE call[p].phase = "taken"
    <3>1. Answering(p)
      BY <2>1, <2>3, <1>0 DEF TogetherInv, Answering, Peer, Remote
    <3>2. Level'
      BY <2>3, <3>1, <1>0 DEF Answering, Level, Pend, RotationTypeOK, Peer, Remote
    <3> QED BY <2>2, <3>2 DEF TogetherInv
  <2>4. CASE call[p].phase # "taken"
    <3>1. Level \/ \E q \in Peer : Ahead(q)
      BY <2>1, <2>4, <1>0 DEF TogetherInv, Answering, Peer, Remote
    <3>2. (Level \/ \E q \in Peer : Ahead(q))'
      BY <2>4, <3>1 DEF Level, Ahead
    <3> QED BY <2>2, <3>2 DEF TogetherInv
  <2> QED BY <2>3, <2>4
<1> QED BY <1>1, <1>2, <1>3

LEMMA LoseKeeps == ASSUME RotationInv, NEW p \in Peer, LoseCall(p) PROVE RotationInv'
<1> USE RotationAssumption DEF RotationInv, LoseCall
<1>0. Remote(p) \in Peer \ {p}
  BY DEF Peer, Remote
<1>1. RotationTypeOK'
  BY <1>0 DEF RotationTypeOK, Call, NoCall, Secret
<1>2. ClockInv'
  BY DEF ClockInv
<1>3. ASSUME ~apart' PROVE TogetherInv'
  <2>1. TogetherInv /\ call[p].phase # "taken" /\ call[Remote(p)].phase = "none"
    BY <1>3 DEF TogetherInv
  <2>2. \A q \in Peer : call'[q].phase = "none"
    BY <2>1, <1>0 DEF RotationTypeOK, NoCall, Peer, Remote
  <2>3. Level \/ \E q \in Peer : Ahead(q)
    BY <2>1, <1>0 DEF TogetherInv, Answering, Peer, Remote
  <2>4. (Level \/ \E q \in Peer : Ahead(q))'
    BY <2>3 DEF Level, Ahead
  <2> QED BY <2>2, <2>4 DEF TogetherInv
<1> QED BY <1>1, <1>2, <1>3

\* A tick during a call promotes nothing of it: the remote took the secret just now.
LEMMA TickKeeps == ASSUME RotationInv, NEW p \in Peer, HealthTick(p) PROVE RotationInv'
<1> USE RotationAssumption DEF RotationInv, HealthTick
<1>0. Remote(p) \in Peer \ {p} /\ Remote(Remote(p)) = p
  BY DEF Peer, Remote
<1>1. RotationTypeOK'
  BY DEF RotationTypeOK, Finalized
<1>2. ClockInv'
  <2> SUFFICES ASSUME NEW q \in Peer
               PROVE  /\ incoming'[q] = None => elapsed'[q] = 0
                      /\ elapsed'[q] + untilTick'[q] <= Grace + Period
    BY DEF ClockInv
  <2>1. elapsed[q] \in Nat /\ untilTick[q] \in Nat /\ elapsed[p] \in Nat
    BY DEF RotationTypeOK
  <2>2. CASE q # p
    BY <2>1, <2>2 DEF ClockInv, Finalized, RotationTypeOK
  <2>3. CASE q = p /\ incoming[p] # None /\ GraceOver(p)
    BY <2>1, <2>3 DEF ClockInv, Finalized, RotationTypeOK
  <2>4. CASE q = p /\ ~(incoming[p] # None /\ GraceOver(p))
    BY <2>1, <2>4 DEF ClockInv, GraceOver, RotationTypeOK
  <2> QED BY <2>2, <2>3, <2>4
<1>3. ASSUME ~apart' PROVE TogetherInv'
  <2>1. TogetherInv
    BY <1>3
  <2>2. CASE ~(incoming[p] # None /\ GraceOver(p))
    BY <2>1, <2>2 DEF TogetherInv, Level, Ahead, Answering
  <2>3. CASE incoming[p] # None /\ GraceOver(p)
    <3>1. call[p].phase = "none"
      BY <2>1, <2>3 DEF TogetherInv
    <3>2. ~Answering(p) /\ ~Answering(Remote(p))
      BY <2>3, <3>1, <1>0 DEF Answering, GraceOver, RotationTypeOK
    <3>3. (\A q \in Peer : call[q].phase # "taken") /\ (Level \/ \E q \in Peer : Ahead(q))
      BY <2>1, <3>2, <1>0 DEF TogetherInv, Peer, Remote
    <3>4. CASE Level
      <4>1. Ahead(p)'
        BY <2>3, <3>4, <1>0 DEF Level, Ahead, Finalized, RotationTypeOK, Peer, Remote
      <4> QED BY <2>1, <2>3, <3>1, <3>3, <4>1, <1>0 DEF TogetherInv, Finalized, RotationTypeOK
    <3>5. CASE Ahead(Remote(p))
      <4>1. Level'
        BY <2>3, <3>5, <1>0 DEF Level, Ahead, Finalized, RotationTypeOK, Peer, Remote
      <4> QED BY <2>1, <2>3, <3>1, <3>3, <4>1, <1>0 DEF TogetherInv, Finalized, RotationTypeOK
    <3>6. ~Ahead(p)
      BY <2>3 DEF Ahead
    <3> QED BY <3>3, <3>4, <3>5, <3>6, <1>0 DEF Peer, Remote
  <2> QED BY <2>2, <2>3
<1> QED BY <1>1, <1>2, <1>3

LEMMA TimeKeeps == ASSUME RotationInv, TimePasses PROVE RotationInv'
<1> USE RotationAssumption DEF RotationInv, TimePasses
<1>1. RotationTypeOK'
  BY DEF RotationTypeOK, ClockInv
<1>2. ClockInv'
  BY DEF ClockInv, RotationTypeOK
<1>3. ASSUME ~apart' PROVE TogetherInv'
  <2>1. TogetherInv /\ \A p \in Peer : call[p].phase = "none"
    BY <1>3
  <2>2. Level \/ \E q \in Peer : Ahead(q)
    BY <2>1 DEF TogetherInv, Answering
  <2>3. (Level \/ \E q \in Peer : Ahead(q))'
    BY <2>2 DEF Level, Ahead
  <2> QED BY <2>1, <2>3 DEF TogetherInv
<1> QED BY <1>1, <1>2, <1>3

\* A delivery counts, or starts the count anew, and changes no secret.
LEMMA RelayKeeps == ASSUME RotationInv, NEW p \in Peer, RelayBatch(p) PROVE RotationInv'
<1> USE RotationAssumption DEF RotationInv, RelayBatch
<1>1. RotationTypeOK'
  BY DEF RotationTypeOK, Active
<1>2. ClockInv'
  BY DEF ClockInv
<1>3. ASSUME ~apart' PROVE TogetherInv'
  BY <1>3 DEF TogetherInv, Level, Ahead, Answering
<1> QED BY <1>1, <1>2, <1>3

LEMMA RotationStep == ASSUME RotationInv, [RotationNext]_rotationVars PROVE RotationInv'
<1>1. CASE UNCHANGED rotationVars
  BY <1>1 DEF rotationVars, RotationInv, RotationTypeOK, ClockInv, TogetherInv, Level, Ahead,
     Answering
<1>2. CASE RotationNext
  BY <1>2, AskKeeps, TakeKeeps, SettleKeeps, LoseKeeps, TickKeeps, RelayKeeps,
     TimeKeeps DEF RotationNext
<1> QED BY <1>1, <1>2

\* The type invariant of the two rows, their calls and their clocks: in particular a
\* pending secret is promoted within a tick's interval after its grace period.
THEOREM RotationTypeCorrect == RotationSpec => []RotationTypeOK
<1>1. RotationInv => RotationTypeOK
  BY DEF RotationInv
<1> QED BY RotationStart, RotationStep, <1>1, PTL DEF RotationSpec

\* However long the grace period and the ticks' interval are, and whatever calls are
\* refused or lost on the way there: what a peer signs with verifies at the other one, or
\* will at its next tick or once it reads an answer, until an answer is lost or both
\* sides ask at once.
THEOREM RotationCorrect == RotationSpec => []RefusedForATick
<1>1. RotationInv => RefusedForATick
  <2> SUFFICES ASSUME RotationInv, ~apart, NEW p \in Peer
               PROVE  \/ Verifies(Remote(p), Signing(p))
                      \/ Signing(p) = incoming[Remote(p)] /\ GraceOver(Remote(p))
                      \/ call[Remote(p)].phase = "taken"
    BY DEF RefusedForATick
  <2>1. /\ TogetherInv /\ Remote(p) \in Peer /\ Remote(Remote(p)) = p
        /\ elapsed[Remote(p)] \in Nat /\ primary[p] \in Secret /\ primary[Remote(p)] \in Secret
    BY DEF RotationInv, RotationTypeOK, Peer, Remote
  <2>2. Signing(p) = incoming[Remote(p)] =>
          Verifies(Remote(p), Signing(p)) \/ GraceOver(Remote(p))
    BY <2>1, RotationAssumption DEF Verifies, GraceOver
  <2>3. Signing(p) = primary[Remote(p)] => Verifies(Remote(p), Signing(p))
    BY DEF Verifies
  <2>4. CASE Level
    BY <2>1, <2>2, <2>3, <2>4 DEF Level, Signing, Peer, Remote
  <2>5. CASE Ahead(p)
    BY <2>2, <2>5 DEF Ahead, Signing
  <2>6. CASE Ahead(Remote(p))
    BY <2>1, <2>3, <2>6 DEF Ahead, Signing, Secret, None
  <2>7. CASE Answering(p)
    BY <2>3, <2>7 DEF Answering, Signing
  <2>8. CASE Answering(Remote(p))
    BY <2>8 DEF Answering
  <2> QED BY <2>1, <2>4, <2>5, <2>6, <2>7, <2>8 DEF TogetherInv, Peer, Remote
<1> QED BY RotationStart, RotationStep, <1>1, PTL DEF RotationSpec
=============================================================================
