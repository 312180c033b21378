----------------------------- MODULE PeerState -----------------------------
(***************************************************************************)
(* The peer row one instance keeps for another, and the pure decisions     *)
(* made on it (packages/server/src/utils/federationPeerState.ts).  Nothing *)
(* here is a behaviour: Peering.tla drives these operators.                *)
(***************************************************************************)
EXTENDS Naturals

\* FederationPeerStatus, with "none" for an origin that has no row.
Status == {"none", "pending", "awaiting_approval", "active", "unreachable",
           "needs_attention", "rejected", "revoked"}

\* FederationNeedsAttentionReason and FederationRejectedReason; "null" is NULL.
AttentionReasons == {"auth_failures", "peer_reset_detected", "repeer_incomplete"}

RemoteRejectedReasons ==
  {"denied_by_remote", "revoked_by_remote", "expired_on_remote",
   "stale_peering_on_remote"}

Reasons ==
  AttentionReasons \cup RemoteRejectedReasons \cup {"denied_by_local_admin", "null"}

Established == {"active", "unreachable", "needs_attention"}

\* The reasons a status may carry (the TransitionSpec union).
ReasonsOf(status) ==
  CASE status = "needs_attention" -> AttentionReasons
    [] status = "rejected" -> RemoteRejectedReasons \cup {"denied_by_local_admin"}
    [] OTHER -> {"null"}

\* Secrets, approval tokens and row ids are numbers; 0 is NULL.  A row's id is
\* the secret it was inserted with: a row that is `pending' still holds it, so
\* no two rows an instance makes for its own exchanges share one.
PeerRows ==
  [status : Status, reason : Reasons, id : Nat, secret : Nat, token : Nat,
   by : {"none", "auto", "admin", "remote"}, queued : BOOLEAN, epoch : Nat]

NoRow ==
  [status |-> "none", reason |-> "null", id |-> 0, secret |-> 0, token |-> 0,
   by |-> "none", queued |-> FALSE, epoch |-> 0]

\* insertPeer: epoch 0 is a NULL peer_instance_id.
NewRow(status, reason, secret, by, epoch) ==
  [NoRow EXCEPT !.status = status, !.reason = reason, !.id = secret,
                !.secret = secret, !.by = by, !.epoch = epoch]

\* A move that is given no reason leaves the old one in place.
Move_KeepsReason(row, status, reason) ==
  LET refused == status \in {"rejected", "revoked"} /\ row.status # status
  IN  [row EXCEPT !.status = status,
                  !.reason = IF reason = "null" THEN row.reason ELSE reason,
                  !.queued = row.queued /\ ~refused]

\* Entering a refused status leaves the outbox alone.
Move_KeepsMail(row, status, reason) ==
  [row EXCEPT !.status = status, !.reason = reason]

\* What applyPeerTransition writes for any move: the new status with its
\* reason, and entering a refused status ends every queued delivery.
Move(row, status, reason) ==
  LET refused == status \in {"rejected", "revoked"} /\ row.status # status
  IN  [row EXCEPT !.status = status, !.reason = reason,
                  !.queued = row.queued /\ ~refused]

\* Activation without the remote's instance id.
Activated_NoBaseline(row, secret, epoch) ==
  [Move(row, "active", "null") EXCEPT !.secret = secret, !.token = 0]

\* The row once a handshake has settled it, with the secret both sides use.
Activated(row, secret, epoch) ==
  [Move(row, "active", "null") EXCEPT !.secret = secret, !.epoch = epoch,
                                      !.token = 0]

LocallyRefused(row) ==
  \/ row.status = "revoked"
  \/ row.status = "rejected" /\ row.reason = "denied_by_local_admin"

-----------------------------------------------------------------------------
(* Decisions *)

\* With auto-accept off, only a local admin's decision lets a handshake in.
LocallyAuthorized(row, auto) == auto \/ row.by = "admin"

\* Both sides keep handshaking: the rule for two handshakes at once is gone.
AcceptUncompleted_NoTieBreak(row, auto, inFlight, weAreLower) ==
  IF ~LocallyAuthorized(row, auto) THEN "queue" ELSE "activate"

\* Either side refuses while its own handshake runs, whoever it is.
AcceptUncompleted_BothRefuse(row, auto, inFlight, weAreLower) ==
  IF ~LocallyAuthorized(row, auto) THEN "queue"
  ELSE IF inFlight THEN "refuse_in_progress"
  ELSE "activate"

\* No handshake of ours has completed on this row: the remote's is taken,
\* except that of two handshakes at once the lower origin's wins.
AcceptUncompleted(row, auto, inFlight, weAreLower) ==
  IF ~LocallyAuthorized(row, auto) THEN "queue"
  ELSE IF inFlight /\ weAreLower THEN "refuse_in_progress"
  ELSE "activate"

\* An admin's provenance is not asked for any more.
DecideInbound_Ungated(row, auto, token, inFlight, weAreLower) ==
  CASE row.status = "none"            -> "create"
    [] row.status \in Established     -> "refuse_exists"
    [] row.status = "revoked"         -> "refuse_revoked"
    [] row.status = "rejected" /\ row.reason = "denied_by_local_admin" -> "refuse_denied"
    [] OTHER                          -> "activate"

\* A row in trouble takes the remote's handshake as a pending one does.
DecideInbound_Rekeys(row, auto, token, inFlight, weAreLower) ==
  CASE row.status = "none"    -> IF auto THEN "create" ELSE "queue"
    [] row.status = "active"  -> "refuse_exists"
    [] row.status = "revoked" -> "refuse_revoked"
    [] OTHER                  -> "activate"

\* Our own denial is taken for one of the remote's.
DecideInbound_OurDenial(row, auto, token, inFlight, weAreLower) ==
  CASE row.status = "none" -> IF auto THEN "create" ELSE "queue"
    [] row.status \in Established -> "refuse_exists"
    [] row.status = "revoked" -> "refuse_revoked"
    [] OTHER -> AcceptUncompleted(row, auto, inFlight, weAreLower)

\* decideInboundHandshake: what /peer/accept does for the row it finds.
DecideInbound(row, auto, token, inFlight, weAreLower) ==
  CASE row.status = "none" -> IF auto THEN "create" ELSE "queue"
    [] row.status \in Established -> "refuse_exists"
    [] row.status = "revoked" -> "refuse_revoked"
    [] row.status = "pending" -> AcceptUncompleted(row, auto, inFlight, weAreLower)
    [] row.status = "awaiting_approval" ->
         IF auto \/ (row.by = "admin" /\ row.token # 0 /\ row.token = token)
         THEN "activate" ELSE "queue"
    [] row.status = "rejected" /\ row.reason = "denied_by_local_admin" -> "refuse_denied"
    [] row.status = "rejected" /\ row.reason \in RemoteRejectedReasons ->
         AcceptUncompleted(row, auto, inFlight, weAreLower)
    [] OTHER -> IF auto THEN "activate" ELSE "refuse_denied"

\* /epoch: what the holder of `row' answers to a request signed with `secret'.
EpochAnswer(row, secret) ==
  CASE row.status \in {"none", "revoked"} -> "not_peered"
    [] row.secret # secret                -> "mismatch"
    [] OTHER                              -> "verified"
=============================================================================
