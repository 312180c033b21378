--------------------------- MODULE SecretRotation ---------------------------
(***************************************************************************)
(* Two active peers replace the secret they sign their requests with.      *)
(* Either side asks the other to take a new secret; each then keeps both    *)
(* for a grace period and drops the old one at a tick of its health check.  *)
(* Time passes in units of which Grace make the grace period and Period the *)
(* interval of the ticks; a call takes less than a unit.  Meanwhile they     *)
(* relay to each other, and each counts the deliveries the other refuses.    *)
(***************************************************************************)
EXTENDS Naturals

CONSTANTS
  Grace,         \* ROTATION_GRACE_PERIOD_MS
  Period,        \* HEALTH_CHECK_INTERVAL_MS
  AuthFailureThreshold,
  MaxRotations,  \* new secrets that are made
  MaxLosses      \* calls that fail on the way

ASSUME RotationAssumption ==
  /\ Grace \in Nat \ {0}
  /\ Period \in Nat \ {0}
  /\ AuthFailureThreshold \in Nat \ {0}
  /\ MaxRotations \in Nat
  /\ MaxLosses \in Nat

VARIABLES
  primary,   \* primary[p]: hmac_secret of the row p has for the other
  incoming,  \* incoming[p]: pending_hmac_secret, or None
  elapsed,   \* elapsed[p]: the time since secret_rotation_at
  untilTick, \* untilTick[p]: the time to the next health check
  call,      \* call[p]: the rotation p asks for
  minted,    \* the number of secrets made so far
  losses,    \* calls that failed
  authFailures, \* authFailures[p]: consecutive_auth_failures of p's row
  apart      \* history: an answer was lost, or both sides asked at once

rotationVars == <<primary, incoming, elapsed, untilTick, call, minted, losses,
                  authFailures, apart>>
-----------------------------------------------------------------------------
Peer == {"one", "two"}
Remote(p) == IF p = "one" THEN "two" ELSE "one"
None == 0
Secret == 1..MaxRotations + 1
NoCall == [phase |-> "none", key |-> None, signed |-> None]
Call == [phase : {"none", "asked", "taken", "refused"}, key : Secret \cup {None},
         signed : Secret \cup {None}]

RotationTypeOK ==
  /\ primary \in [Peer -> Secret]
  /\ incoming \in [Peer -> Secret \cup {None}]
  /\ elapsed \in [Peer -> 0..Grace + Period]
  /\ untilTick \in [Peer -> 0..Period]
  /\ call \in [Peer -> Call]
  /\ minted \in Secret
  /\ losses \in 0..MaxLosses
  /\ authFailures \in [Peer -> 0..AuthFailureThreshold]
  /\ apart \in BOOLEAN

RotationInit ==
  /\ primary = [p \in Peer |-> 1]
  /\ incoming = [p \in Peer |-> None]
  /\ elapsed = [p \in Peer |-> 0]
  /\ untilTick \in [Peer -> 1..Period]
  /\ call = [p \in Peer |-> NoCall]
  /\ minted = 1
  /\ losses = 0
  /\ authFailures = [p \in Peer |-> 0]
  /\ apart = FALSE

\* At the threshold the row moves to needs_attention, which an admin alone ends.
Active(p) == authFailures[p] < AuthFailureThreshold

\* verifyPeerSignature: the pending secret counts for the grace period only.
Verifies(p, key) == key = primary[p] \/ (key = incoming[p] /\ elapsed[p] <= Grace)

\* The outbox, the pull and the relay sign with the pending secret as soon as there
\* is one.
Signing(p) == IF incoming[p] # None THEN incoming[p] ELSE primary[p]

Pend(p, key) ==
  /\ incoming' = [incoming EXCEPT ![p] = key]
  /\ elapsed' = [elapsed EXCEPT ![p] = 0]

-----------------------------------------------------------------------------
(* A rotation, by an admin or by the health check; signed with the old secret. *)

AskRotation(p) ==
  /\ Active(p)
  /\ call[p].phase = "none"
  /\ incoming[p] = None
  /\ minted <= MaxRotations
  /\ minted' = minted + 1
  /\ call' = [call EXCEPT ![p] = [phase |-> "asked", key |-> minted + 1, signed |-> primary[p]]]
  /\ apart' = (apart \/ call[Remote(p)].phase # "none")
  /\ UNCHANGED <<primary, incoming, elapsed, untilTick, losses, authFailures>>

\* POST /api/federation/peer/rotate: 403 for a row that is not active, 401 for a wrong
\* signature, 409 for a rotation in progress.
MayTake(p, c) == Active(p) /\ Verifies(p, c.signed) /\ incoming[p] = None

TakeRotation(p) ==
  /\ call[p].phase = "asked"
  /\ IF MayTake(Remote(p), call[p])
     THEN /\ Pend(Remote(p), call[p].key)
          /\ call' = [call EXCEPT ![p].phase = "taken"]
     ELSE /\ call' = [call EXCEPT ![p].phase = "refused"]
          /\ UNCHANGED <<incoming, elapsed>>
  /\ UNCHANGED <<primary, untilTick, minted, losses, authFailures, apart>>

\* The answer: the secret is stored only when the remote took it, whatever the row
\* holds by now.
SettleRotation_Unread(p) ==
  /\ call[p].phase \in {"taken", "refused"}
  /\ call' = [call EXCEPT ![p] = NoCall]
  /\ Pend(p, call[p].key)
  /\ UNCHANGED <<primary, untilTick, minted, losses, authFailures, apart>>

SettleRotation(p) ==
  /\ call[p].phase \in {"taken", "refused"}
  /\ call' = [call EXCEPT ![p] = NoCall]
  /\ IF call[p].phase = "taken"
     THEN Pend(p, call[p].key)
     ELSE UNCHANGED <<incoming, elapsed>>
  /\ UNCHANGED <<primary, untilTick, minted, losses, authFailures, apart>>

\* A timeout, a lost request or answer, or a stop of the process that asked.
LoseCall(p) ==
  /\ call[p].phase # "none"
  /\ losses < MaxLosses
  /\ losses' = losses + 1
  /\ call' = [call EXCEPT ![p] = NoCall]
  /\ apart' = (apart \/ call[p].phase = "taken")
  /\ UNCHANGED <<primary, incoming, elapsed, untilTick, minted, authFailures>>

-----------------------------------------------------------------------------
(* The relay.  Messages that wait in the queue are each due at a time of their *)
(* own, so any number of deliveries may come before the next tick.             *)

\* authenticateS2SPeer: 403 for a row that is not active, 401 for a wrong signature.
Accepts(p, key) == Active(p) /\ Verifies(p, key)

\* An answered batch starts the count anew, a refused one adds to it.  Bound: none is
\* sent while the answer to the other side's rotation is on its way to it; such a
\* batch is refused, but the round trip is too short for a threshold of them.
RelayBatch(p) ==
  /\ Active(p)
  /\ call[Remote(p)].phase # "taken"
  /\ authFailures' = [authFailures EXCEPT ![p] =
                       IF Accepts(Remote(p), Signing(p)) THEN 0 ELSE @ + 1]
  /\ UNCHANGED <<primary, incoming, elapsed, untilTick, call, minted, losses, apart>>

-----------------------------------------------------------------------------
(* Time.  A tick fires when it is due and promotes a secret whose grace period *)
(* is over.                                                                    *)

\* A tick waits for a whole interval after the grace period.
GraceOver_Later(p) == elapsed[p] > Grace + Period

GraceOver(p) == elapsed[p] > Grace

\* The pending fields are not cleared.
Finalized_KeepsPending(p) ==
  /\ primary' = [primary EXCEPT ![p] = incoming[p]]
  /\ UNCHANGED incoming

Finalized(p) ==
  /\ primary' = [primary EXCEPT ![p] = incoming[p]]
  /\ incoming' = [incoming EXCEPT ![p] = None]

HealthTick(p) ==
  /\ untilTick[p] = 0
  /\ untilTick' = [untilTick EXCEPT ![p] = Period]
  /\ IF incoming[p] # None /\ GraceOver(p)
     THEN Finalized(p) /\ elapsed' = [elapsed EXCEPT ![p] = 0]
     ELSE UNCHANGED <<primary, incoming, elapsed>>
  /\ UNCHANGED <<call, minted, losses, authFailures, apart>>

TimePasses ==
  /\ \A p \in Peer : untilTick[p] > 0 /\ call[p].phase = "none"
  /\ untilTick' = [p \in Peer |-> untilTick[p] - 1]
  /\ elapsed' = [p \in Peer |-> IF incoming[p] = None THEN 0 ELSE elapsed[p] + 1]
  /\ UNCHANGED <<primary, incoming, call, minted, losses, authFailures, apart>>

RotationNext ==
  \/ TimePasses
  \/ \E p \in Peer :
       AskRotation(p) \/ TakeRotation(p) \/ SettleRotation(p) \/ LoseCall(p) \/ HealthTick(p)
         \/ RelayBatch(p)

\* The timers run and calls end; nobody has to start a rotation.
RotationFairness ==
  /\ WF_rotationVars(TimePasses)
  /\ \A p \in Peer : WF_rotationVars(TakeRotation(p)) /\ WF_rotationVars(SettleRotation(p))
                     /\ WF_rotationVars(HealthTick(p))

RotationSpec == RotationInit /\ [][RotationNext]_rotationVars /\ RotationFairness

-----------------------------------------------------------------------------
\* Through every rotation, taken or refused, and wherever each side's ticks fall, what
\* a peer signs with verifies at the other one, with two exceptions that pass by
\* themselves: the other's grace period for just this secret is over and its next
\* tick promotes it, or the other has yet to read the answer to the rotation it asked
\* for.  Not so when an answer is lost or both ask at once.
RefusedForATick ==
  apart \/ \A p \in Peer :
    \/ Verifies(Remote(p), Signing(p))
    \/ Signing(p) = incoming[Remote(p)] /\ GraceOver(Remote(p))
    \/ call[Remote(p)].phase = "taken"

\* What the comment on HEALTH_CHECK_INTERVAL_MS says: a rotation trips no auth
\* failures.  Here only that it never costs the peering, when no call is lost and
\* the sides do not ask at once.
RotationSparesPeer == apart \/ \A p \in Peer : Active(p)

\* A rotation that began ends with both sides on one secret, and only that.
RotationEnds ==
  (\E p \in Peer : incoming[p] # None)
    ~> (apart \/ \A p \in Peer : incoming[p] = None /\ primary[p] = primary[Remote(p)])
=============================================================================
