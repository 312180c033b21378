------------------------------ MODULE Peering ------------------------------
(***************************************************************************)
(* Peering between two Backspace instances: the handshake exchange, the    *)
(* admin's approval queue and the peer row each side keeps for the other.  *)
(* Peerings of different origins share no state, so two sides suffice.     *)
(*                                                                         *)
(* A step of an instance is what its process does between two awaits.  An  *)
(* instance runs at most one handshake of its own with an origin           *)
(* (inFlightPeering and adminHandshakes), and answers the other side's at  *)
(* any time.  A request may be lost, may be answered after its sender gave *)
(* up, and its answer may be lost.                                         *)
(***************************************************************************)
EXTENDS PeerState, FiniteSets

CONSTANTS
  Gated,         \* the sides whose admin never turns auto-accept on
  MaxSecret,     \* bound: secrets generated in a behaviour
  MaxToken,      \* bound: approval tokens alive at once
  MaxFaults,     \* bound: losses, timeouts, crashes and expiries
  MaxDecisions,  \* bound: local admins' actions
  MaxOutages,    \* bound: delivery failures an established row suffers
  MaxWipes       \* bound: reinstallations

Side == {"lower", "higher"}   \* "lower" has the lower origin

ASSUME GatedAssumption == Gated \subseteq Side
ASSUME BoundsAssumption ==
  /\ MaxSecret \in Nat /\ MaxToken \in Nat /\ MaxFaults \in Nat
  /\ MaxDecisions \in Nat /\ MaxOutages \in Nat /\ MaxWipes \in Nat

Other(s) == IF s = "lower" THEN "higher" ELSE "lower"

VARIABLES
  peer,        \* peer[s]: the row s keeps for the other side (federation_peers)
  autoAccept,  \* autoAccept[s]: instance_settings.auto_accept_peering
  inReq,       \* inReq[s]: the inbound approval request s has queued
  outReq,      \* outReq[s]: the outbound approval request s has queued
  hs,          \* hs[s]: the handshake s is running
  net,         \* the /peer/accept requests in transit
  deny,        \* deny[s]: a delivered /peer/denied s has yet to act on
  parked,      \* parked[s]: the answer to the probe of a parked row
  fanout,      \* fanout[s]: the row id onPeerActivated still has to run for
  epoch,       \* epoch[s]: the instance id, new after a reinstallation
  fresh,       \* secrets generated so far
  spent,       \* what the behaviour has used of each bound
  held         \* held[s]: every secret peer[s] has had (for properties only)

rows     == <<peer, fanout, held>>
requests == <<inReq, outReq>>
work     == <<deny, parked>>
settings == <<autoAccept, epoch>>
vars == <<rows, requests, work, settings, hs, net, fresh, spent>>

-----------------------------------------------------------------------------
(* Data *)

Tokens == 1 .. MaxToken

Modes == {"auto", "initiate", "inbound", "outbound"}
AdminModes == Modes \ {"auto"}
FailurePolicies == {"keep", "remove_unless_queued", "release_to_traffic", "repark"}
Answers == {"accepted", "exists", "queued", "denied", "revoked", "in_progress"}
Probes == {"none", "verified", "not_peered", "mismatch", "unknown"}

Request == [open : BOOLEAN, secret : Nat, token : Nat]
NoRequest == [open |-> FALSE, secret |-> 0, token |-> 0]

\* An exchange of ours: `req' says the approval request it was started for is
\* still there, `token' is the token the remote's 202 carried.
Exchange ==
  [at : {"idle", "sent"} \cup Answers, mode : Modes, secret : Nat,
   onFailure : FailurePolicies, req : BOOLEAN, token : Nat,
   probe : Probes, epoch : Nat]

NoExchange ==
  [at |-> "idle", mode |-> "auto", secret |-> 0, onFailure |-> "keep",
   req |-> FALSE, token |-> 0, probe |-> "none", epoch |-> 0]

\* `live': the sender still waits for the answer.
Messages ==
  [from : Side, secret : Nat, token : Nat, epoch : Nat, live : BOOLEAN]

Denials == [kind : {"none", "denied", "expired"}, secret : Nat, req : BOOLEAN]
NoDenial == [kind |-> "none", secret |-> 0, req |-> FALSE]

ParkedProbes == [probe : Probes, secret : Nat, epoch : Nat]
NoProbe == [probe |-> "none", secret |-> 0, epoch |-> 0]

Idle(s) == hs[s].at = "idle"
AdminExchange(s) == ~Idle(s) /\ hs[s].mode \in AdminModes

\* The row our exchange runs on, still waiting for it.
Mine(s) == peer[s].status = "pending" /\ peer[s].secret = hs[s].secret

\* readPeerState(peerId) for the row our exchange was started on.
SameRow(s) == peer[s].status # "none" /\ peer[s].id = hs[s].secret

\* The peer row and the hook that entering `active' starts.
WritePeer(s, row) ==
  /\ peer' = [peer EXCEPT ![s] = row]
  /\ fanout' = IF row.status = "active" /\ peer[s].status # "active"
               THEN [fanout EXCEPT ![s] = row.id] ELSE fanout
  /\ held' = [held EXCEPT ![s] = @ \cup {row.secret}]

Limit(kind) ==
  CASE kind = "faults"    -> MaxFaults
    [] kind = "decisions" -> MaxDecisions
    [] kind = "outages"   -> MaxOutages
    [] kind = "wipes"     -> MaxWipes

Spend(kind) ==
  /\ spent[kind] < Limit(kind)
  /\ spent' = [spent EXCEPT ![kind] = @ + 1]

TokensInUse ==
  UNION {{peer[s].token, inReq[s].token, outReq[s].token, hs[s].token} : s \in Side}
    \cup {m.token : m \in net}

-----------------------------------------------------------------------------
Init ==
  /\ peer = [s \in Side |-> NoRow]
  /\ autoAccept = [s \in Side |-> s \notin Gated]
  /\ inReq = [s \in Side |-> NoRequest]
  /\ outReq = [s \in Side |-> NoRequest]
  /\ hs = [s \in Side |-> NoExchange]
  /\ net = {}
  /\ deny = [s \in Side |-> NoDenial]
  /\ parked = [s \in Side |-> NoProbe]
  /\ fanout = [s \in Side |-> 0]
  /\ epoch = [s \in Side |-> 1]
  /\ fresh = 0
  /\ spent = [kind \in {"faults", "decisions", "outages", "wipes"} |-> 0]
  /\ held = [s \in Side |-> {}]

-----------------------------------------------------------------------------
(* Local traffic *)

\* queueOutboxEvent, targeted: onto the row, or onto a placeholder for an
\* origin without one, which the outbound gate may refuse.
QueueEvent(s) ==
  /\ ~peer[s].queued
  /\ \/ /\ peer[s].status \in {"active", "pending", "unreachable"}
        /\ WritePeer(s, [peer[s] EXCEPT !.queued = TRUE])
        /\ UNCHANGED fresh
     \/ /\ peer[s].status = "none" /\ ~inReq[s].open /\ autoAccept[s]
        /\ fresh < MaxSecret
        /\ fresh' = fresh + 1
        /\ WritePeer(s, [NewRow("pending", "null", fresh + 1, "auto", 0)
                           EXCEPT !.queued = TRUE])
  /\ UNCHANGED <<requests, work, settings, hs, net, spent>>

\* The last queued entry is delivered, or dropped at the relay TTL.
EmptyQueue(s) ==
  /\ peer[s].queued
  /\ IF peer[s].status = "active" THEN UNCHANGED spent ELSE Spend("faults")
  /\ WritePeer(s, [peer[s] EXCEPT !.queued = FALSE])
  /\ UNCHANGED <<requests, work, settings, hs, net, fresh>>

-----------------------------------------------------------------------------
(* Starting a handshake *)

Send(s, mode, secret, onFailure, token) ==
  /\ hs' = [hs EXCEPT ![s] = [NoExchange EXCEPT
              !.at = "sent", !.mode = mode, !.secret = secret,
              !.onFailure = onFailure, !.req = (mode = "inbound")]]
  /\ net' = net \cup {[from |-> s, secret |-> secret, token |-> token,
                       epoch |-> epoch[s], live |-> TRUE]}

\* What ensurePeered refuses before it looks at the gate: a settled row, an
\* admin's exchange in flight, an inbound request our admin has not ruled on.
Unsettled(s) ==
  /\ peer[s].status \in {"none", "pending"}
  /\ ~AdminExchange(s)
  /\ ~inReq[s].open

\* With auto-accept off only a row an admin created may be handshaked on.
GateRefuses(row, auto) ==
  ~auto /\ (row.status = "none" \/ (row.status = "pending" /\ row.by # "admin"))

\* ensurePeered when the outbound gate refuses: the ungated placeholder goes,
\* and a user's wish becomes an outbound approval request.  It runs before
\* the in-flight check, so the row may go under a handshake of its own.
OutboundGate(s, intent) ==
  /\ Unsettled(s)
  /\ GateRefuses(peer[s], autoAccept[s])
  /\ WritePeer(s, NoRow)
  /\ outReq' = IF intent = "user_action" /\ ~outReq[s].open
               THEN [outReq EXCEPT ![s] = [NoRequest EXCEPT !.open = TRUE]]
               ELSE outReq
  /\ UNCHANGED <<inReq, work, settings, hs, net, fresh, spent>>

\* ensurePeered past the gate, and performHandshake: on the pending row with
\* its secret, or on a new one.
EnsurePeered(s) ==
  /\ Unsettled(s) /\ ~GateRefuses(peer[s], autoAccept[s])
  /\ Idle(s)
  /\ \/ /\ peer[s].status = "pending"
        /\ Send(s, "auto", peer[s].secret, "keep", 0)
        /\ UNCHANGED <<rows, fresh>>
     \/ /\ peer[s].status = "none"
        /\ fresh < MaxSecret
        /\ fresh' = fresh + 1
        /\ WritePeer(s, NewRow("pending", "null", fresh + 1, "auto", 0))
        /\ Send(s, "auto", fresh + 1, "remove_unless_queued", 0)
  /\ UNCHANGED <<requests, work, settings, spent>>

\* The outbox worker's attempt for a pending row with entries waiting.
ResolvePendingPeer(s) ==
  /\ peer[s].status = "pending" /\ peer[s].queued /\ Idle(s)
  /\ EnsurePeered(s) \/ OutboundGate(s, "system")

\* Which rows an admin's handshake replaces by a fresh one.
Replaced(status, mode) ==
  \/ status \in {"none", "rejected", "revoked"}
  \/ status = "awaiting_approval" /\ mode # "initiate"
  \/ status = "needs_attention" /\ mode = "initiate"

\* /peer/initiate and both approvals: claimAdminHandshake and
\* prepareAdminHandshakeRow, then the request.
AdminHandshake(s, mode) ==
  /\ Idle(s)
  /\ mode = "inbound" => inReq[s].open
  /\ mode = "outbound" => outReq[s].open
  /\ Spend("decisions")
  /\ LET token == IF mode = "inbound" THEN inReq[s].token ELSE 0
     IN  \/ /\ peer[s].status = "pending" /\ peer[s].by = "admin"
            /\ Send(s, mode, peer[s].secret, "keep", token)
            /\ UNCHANGED <<rows, fresh>>
         \/ /\ peer[s].status = "pending" /\ peer[s].by = "auto"
            /\ WritePeer(s, [peer[s] EXCEPT !.by = "admin"])
            /\ Send(s, mode, peer[s].secret, "release_to_traffic", token)
            /\ UNCHANGED fresh
         \/ /\ Replaced(peer[s].status, mode)
            /\ fresh < MaxSecret
            /\ fresh' = fresh + 1
            /\ WritePeer(s, NewRow("pending", "null", fresh + 1, "admin", 0))
            /\ Send(s, mode, fresh + 1, "remove_unless_queued", token)
  /\ UNCHANGED <<requests, work, settings>>

\* An inbound approval that finds the peering established.
ApproveEstablished(s) ==
  /\ Idle(s)
  /\ inReq[s].open /\ peer[s].status \in {"active", "unreachable"}
  /\ Spend("decisions")
  /\ inReq' = [inReq EXCEPT ![s] = NoRequest]
  /\ deny' = [deny EXCEPT ![s].req = FALSE]
  /\ UNCHANGED <<rows, outReq, parked, settings, hs, net, fresh>>

-----------------------------------------------------------------------------
(* Answering a handshake: POST /api/federation/peer/accept *)

Decision(s, m) ==
  DecideInbound(peer[s], autoAccept[s], m.token, ~Idle(s), s = "lower")

\* The answer reaches the exchange it belongs to while its sender waits;
\* `lost' says it does not.  `cleared' is the side whose approval requests go.
Answer(m, answer, token, lost, cleared) ==
  /\ net' = net \ {m}
  /\ IF lost THEN m.live /\ Spend("faults") ELSE UNCHANGED spent
  /\ LET heard == m.live /\ ~lost
     IN  hs' = [x \in Side |->
           IF x = m.from /\ heard THEN [hs[x] EXCEPT !.at = answer, !.token = token]
           ELSE IF x \in cleared THEN [hs[x] EXCEPT !.req = FALSE]
           ELSE hs[x]]

\* `create' and `activate': the row takes the caller's secret.  Leaving
\* awaiting_approval deletes every approval request for the origin.
AcceptHandshake(m, lost) ==
  LET s == Other(m.from)
      cleared == IF peer[s].status = "awaiting_approval" THEN {s} ELSE {}
  IN  /\ Decision(s, m) \in {"create", "activate"}
      /\ WritePeer(s, IF peer[s].status = "none"
                      THEN NewRow("active", "null", m.secret, "remote", m.epoch)
                      ELSE Activated(peer[s], m.secret, m.epoch))
      /\ inReq' = [x \in Side |-> IF x \in cleared THEN NoRequest ELSE inReq[x]]
      /\ outReq' = [x \in Side |-> IF x \in cleared THEN NoRequest ELSE outReq[x]]
      /\ deny' = [x \in Side |-> IF x \in cleared THEN [deny[x] EXCEPT !.req = FALSE]
                                 ELSE deny[x]]
      /\ Answer(m, "accepted", 0, lost, cleared)
      /\ UNCHANGED <<parked, settings, fresh>>

\* queueApprovalRequest: refresh the request held for the origin, in whichever
\* direction it is queued (inbound first), or queue one.
QueueHandshake(m, lost) ==
  LET s == Other(m.from)
      token == CHOOSE t \in Tokens : t \notin TokensInUse
      request == [open |-> TRUE, secret |-> m.secret, token |-> token]
  IN  /\ Decision(s, m) = "queue"
      /\ Tokens \ TokensInUse # {}
      /\ IF inReq[s].open \/ ~outReq[s].open
         THEN inReq' = [inReq EXCEPT ![s] = request] /\ UNCHANGED outReq
         ELSE outReq' = [outReq EXCEPT ![s] = request] /\ UNCHANGED inReq
      /\ Answer(m, "queued", token, lost, {})
      /\ UNCHANGED <<rows, work, settings, fresh>>

\* The refusals.  An established row is never re-keyed; a new epoch in the
\* request is the sign of a reinstalled remote (markPeerReset).
RefuseHandshake(m, lost) ==
  LET s == Other(m.from)
      decision == Decision(s, m)
      reset == /\ decision = "refuse_exists"
               /\ peer[s].epoch # 0 /\ m.epoch # peer[s].epoch
  IN  /\ decision \in {"refuse_exists", "refuse_revoked", "refuse_denied",
                       "refuse_in_progress"}
      /\ IF reset
         THEN WritePeer(s, Move(peer[s], "needs_attention", "peer_reset_detected"))
         ELSE UNCHANGED rows
      /\ Answer(m, CASE decision = "refuse_exists"  -> "exists"
                     [] decision = "refuse_revoked" -> "revoked"
                     [] decision = "refuse_denied"  -> "denied"
                     [] OTHER                       -> "in_progress",
                0, lost, {})
      /\ UNCHANGED <<requests, work, settings, fresh>>

LoseRequest(m) ==
  /\ Spend("faults")
  /\ net' = net \ {m}
  /\ UNCHANGED <<rows, requests, work, settings, hs, fresh>>

-----------------------------------------------------------------------------
(* Settling a handshake: runOutboundHandshake and what its callers do next *)

\* The exchange ends with `row' as the row of this side.  A failed backstop
\* attempt parks its row again (resolveStaleParkedPeers); an approved inbound
\* request is deleted once the outcome is active or awaiting_approval.
Finish(s, row) ==
  LET ours == row.status # "none" /\ row.id = hs[s].secret
      final == IF hs[s].onFailure = "repark" /\ ours /\ row.status = "pending"
               THEN Move(row, "rejected", "stale_peering_on_remote") ELSE row
      done == /\ hs[s].req /\ ours
              /\ row.status \in {"active", "unreachable", "awaiting_approval"}
  IN  /\ WritePeer(s, final)
      /\ hs' = [hs EXCEPT ![s] = NoExchange]
      /\ inReq' = IF done THEN [inReq EXCEPT ![s] = NoRequest] ELSE inReq
      /\ deny' = IF done THEN [deny EXCEPT ![s].req = FALSE] ELSE deny
      /\ UNCHANGED <<outReq, parked, settings, fresh>>

\* A 202: our request waits for the remote admin.
SettleQueued(s) ==
  /\ hs[s].at = "queued"
  /\ Finish(s, IF Mine(s)
               THEN [Move(peer[s], "awaiting_approval", "null")
                       EXCEPT !.token = hs[s].token]
               ELSE peer[s])
  /\ UNCHANGED <<net, spent>>

\* A 403 of the two kinds only a Backspace instance sends.
SettleRefused(s) ==
  /\ hs[s].at \in {"denied", "revoked"}
  /\ Finish(s, IF Mine(s)
               THEN Move(peer[s], "rejected",
                         IF hs[s].at = "denied" THEN "denied_by_remote"
                         ELSE "revoked_by_remote")
               ELSE peer[s])
  /\ UNCHANGED <<net, spent>>

\* A 409 from a remote whose own handshake wins.
SettleInProgress(s) ==
  /\ hs[s].at = "in_progress"
  /\ Finish(s, peer[s])
  /\ UNCHANGED <<net, spent>>

\* No answer: the remote may still take the request later.
GiveUp(s) ==
  LET mine == {m \in net : m.from = s /\ m.live}
      pending == peer[s].status = "pending" /\ SameRow(s)
  IN  /\ hs[s].at = "sent"
      /\ IF mine = {} THEN UNCHANGED spent ELSE Spend("faults")
      /\ net' = (net \ mine) \cup {[m EXCEPT !.live = FALSE] : m \in mine}
      /\ Finish(s,
           CASE pending /\ hs[s].onFailure = "remove_unless_queued" /\ ~peer[s].queued
                  -> NoRow
             [] pending /\ hs[s].onFailure = "release_to_traffic"
                  -> [peer[s] EXCEPT !.by = "auto"]
             [] OTHER -> peer[s])

\* The signed /epoch round trip with the secret we sent.  Its answer is used
\* later, when either row may have changed.
Verify(s) ==
  /\ hs[s].at = "accepted" \/ (hs[s].at = "exists" /\ Mine(s))
  /\ hs[s].probe = "none"
  /\ \/ /\ hs' = [hs EXCEPT ![s].probe = EpochAnswer(peer[Other(s)], hs[s].secret),
                            ![s].epoch = epoch[Other(s)]]
        /\ UNCHANGED spent
     \/ /\ Spend("faults")
        /\ hs' = [hs EXCEPT ![s].probe = "unknown"]
  /\ UNCHANGED <<rows, requests, work, settings, net, fresh>>

\* Any 409 is taken for a finished peering.
AfterExists_Believes(s) ==
  IF Mine(s) THEN Activated(peer[s], hs[s].secret, hs[s].epoch) ELSE peer[s]

\* The 409 counts as one more failed attempt.
AfterExists_Retries(s) == peer[s]

\* 409 PEER_EXISTS_RESET_REQUIRED: whole if the remote holds our secret, else
\* parked until its admin resets the row it holds.
AfterExists(s) ==
  CASE Mine(s) /\ hs[s].probe = "verified"
         -> Activated(peer[s], hs[s].secret, hs[s].epoch)
    [] Mine(s) /\ hs[s].probe # "verified"
         -> Move(peer[s], "rejected", "stale_peering_on_remote")
    [] OTHER -> peer[s]

SettleExists(s) ==
  /\ hs[s].at = "exists"
  /\ ~Mine(s) \/ hs[s].probe # "none"
  /\ Finish(s, AfterExists(s))
  /\ UNCHANGED <<net, spent>>

\* The remote holds our secret although our row took its own meanwhile.
TookBoth(s) ==
  /\ SameRow(s) /\ peer[s].status = "active" /\ peer[s].secret # hs[s].secret
  /\ hs[s].probe = "verified"

\* settleAccepted: the row after a 200 and the check of it.
AfterAccept(s) ==
  CASE Mine(s) /\ hs[s].probe = "verified"
         -> Activated(peer[s], hs[s].secret, hs[s].epoch)
    [] Mine(s) /\ hs[s].probe \in {"mismatch", "not_peered"}
         -> Move(peer[s], "needs_attention", "repeer_incomplete")
    [] TookBoth(s)
         -> [peer[s] EXCEPT !.secret = hs[s].secret, !.epoch = hs[s].epoch]
    [] OTHER -> peer[s]

SettleAccepted(s) ==
  /\ hs[s].at = "accepted" /\ hs[s].probe # "none"
  /\ Finish(s, AfterAccept(s))
  /\ UNCHANGED <<net, spent>>

-----------------------------------------------------------------------------
(* The backstop for parked rows: resolveStaleParkedPeers *)

StaleParked(row) ==
  row.status = "rejected" /\ row.reason = "stale_peering_on_remote"

\* One signed /epoch for a parked row.  A mismatch or no answer changes
\* nothing and is left out.
ProbeParked(s) ==
  LET answer == EpochAnswer(peer[Other(s)], peer[s].secret)
  IN  /\ StaleParked(peer[s]) /\ Idle(s) /\ parked[s] = NoProbe
      /\ answer \in {"verified", "not_peered"}
      /\ parked' = [parked EXCEPT ![s] = [probe |-> answer,
                      secret |-> peer[s].secret, epoch |-> epoch[Other(s)]]]
      /\ UNCHANGED <<rows, requests, deny, settings, hs, net, fresh, spent>>

\* The backstop only reopens: a verified probe changes nothing.
StillParked_NotVerified(s) ==
  /\ peer[s].status = "rejected" /\ peer[s].secret = parked[s].secret
  /\ parked[s].probe # "verified"

\* The backstop only activates: a remote without a row changes nothing.
StillParked_OnlyVerified(s) ==
  /\ peer[s].status = "rejected" /\ peer[s].secret = parked[s].secret
  /\ parked[s].probe = "verified"

\* The compare-and-set the backstop acts under: a rejected row with the
\* probed secret, whatever its reason is by now.
StillParked(s) ==
  peer[s].status = "rejected" /\ peer[s].secret = parked[s].secret

\* The answer arrives: activate, or reopen the row and handshake through
\* ensurePeered, whose gate may remove it.
SettleParked(s) ==
  /\ parked[s] # NoProbe
  /\ parked' = [parked EXCEPT ![s] = NoProbe]
  /\ LET reopened == Move(peer[s], "pending", "null")
     IN  \/ /\ StillParked(s) /\ parked[s].probe = "verified"
            /\ WritePeer(s, Activated(peer[s], parked[s].secret, parked[s].epoch))
            /\ UNCHANGED <<hs, net>>
         \/ /\ StillParked(s) /\ parked[s].probe = "not_peered"
            /\ \/ /\ inReq[s].open
                  /\ WritePeer(s, reopened)
                  /\ UNCHANGED <<hs, net>>
               \/ /\ ~inReq[s].open /\ GateRefuses(reopened, autoAccept[s])
                  /\ WritePeer(s, NoRow)
                  /\ UNCHANGED <<hs, net>>
               \/ /\ ~inReq[s].open /\ ~GateRefuses(reopened, autoAccept[s])
                  /\ Idle(s)
                  /\ WritePeer(s, reopened)
                  /\ Send(s, "auto", peer[s].secret, "repark", 0)
         \/ /\ ~StillParked(s)
            /\ UNCHANGED <<rows, hs, net>>
  /\ UNCHANGED <<requests, deny, settings, fresh, spent>>

-----------------------------------------------------------------------------
(* Approval requests that are refused or expire *)

\* handleInboundDeny and the janitor's expiry: a signed /peer/denied, which
\* the remote takes while it awaits our approval.  Delivery and the remote's
\* handling are one step; our own row and queue follow in SettleDenial.  A
\* notice the remote refuses changes nothing (the admin's 502).
DenyInbound(s, kind, lost) ==
  LET theirs == peer[Other(s)]
      reason == IF kind = "denied" THEN "denied_by_remote" ELSE "expired_on_remote"
  IN  /\ inReq[s].open /\ deny[s] = NoDenial
      /\ theirs.status = "awaiting_approval" /\ theirs.secret = inReq[s].secret
      /\ WritePeer(Other(s), Move(theirs, "rejected", reason))
      /\ IF lost \/ kind = "expired" THEN Spend("faults") ELSE Spend("decisions")
      /\ deny' = IF lost THEN deny
                 ELSE [deny EXCEPT ![s] = [kind |-> kind, secret |-> inReq[s].secret,
                                           req |-> TRUE]]
      /\ UNCHANGED <<requests, parked, settings, hs, net, fresh>>

\* The denial was acknowledged: record our admin's refusal (an expiry records
\* none) and delete the request.
SettleDenial(s) ==
  /\ deny[s] # NoDenial
  /\ LET refusable == peer[s].status \in {"pending", "awaiting_approval", "rejected"}
     IN  IF deny[s].kind = "denied" /\ peer[s].status = "none"
         THEN WritePeer(s, NewRow("rejected", "denied_by_local_admin",
                                  deny[s].secret, "admin", 0))
         ELSE IF deny[s].kind = "denied" /\ refusable
         THEN WritePeer(s, Move(peer[s], "rejected", "denied_by_local_admin"))
         ELSE UNCHANGED rows
  /\ inReq' = IF deny[s].req THEN [inReq EXCEPT ![s] = NoRequest] ELSE inReq
  /\ hs' = IF deny[s].req THEN [hs EXCEPT ![s].req = FALSE] ELSE hs
  /\ deny' = [deny EXCEPT ![s] = NoDenial]
  /\ UNCHANGED <<outReq, parked, settings, net, fresh, spent>>

\* handleOutboundDeny, and the expiry of an outbound request: no remote call.
DropOutbound(s, kind) ==
  /\ outReq[s].open
  /\ outReq' = [outReq EXCEPT ![s] = NoRequest]
  /\ IF kind = "denied" THEN Spend("decisions") ELSE Spend("faults")
  /\ UNCHANGED <<rows, inReq, work, settings, hs, net, fresh>>

-----------------------------------------------------------------------------
(* The admin's peer actions *)

Decide(s, row) ==
  /\ Spend("decisions")
  /\ WritePeer(s, row)
  /\ UNCHANGED <<requests, work, settings, hs, net, fresh>>

Revoke(s) ==
  /\ peer[s].status \notin {"none", "revoked"}
  /\ Decide(s, Move(peer[s], "revoked", "null"))

ResetPeer(s) == peer[s].status = "needs_attention" /\ Decide(s, NoRow)

DeletePermanently(s) == peer[s].status \in {"revoked", "rejected"} /\ Decide(s, NoRow)

ToggleAutoAccept(s) ==
  /\ s \notin Gated
  /\ Spend("decisions")
  /\ autoAccept' = [autoAccept EXCEPT ![s] = ~@]
  /\ UNCHANGED <<rows, requests, work, epoch, hs, net, fresh>>

-----------------------------------------------------------------------------
(* What happens to established and to forgotten rows *)

\* The remote refuses our deliveries (401 or 403) five times in a row, which
\* takes longer than any exchange does.
AuthRefusal(s) ==
  /\ peer[s].status = "active"
  /\ \A x \in Side : Idle(x)
  /\ peer[Other(s)].status # "active" \/ peer[Other(s)].secret # peer[s].secret
  /\ Spend("outages")
  /\ WritePeer(s, Move(peer[s], "needs_attention", "auth_failures"))
  /\ UNCHANGED <<requests, work, settings, hs, net, fresh>>

MarkUnreachable(s) ==
  /\ peer[s].status = "active"
  /\ Spend("outages")
  /\ WritePeer(s, Move(peer[s], "unreachable", "null"))
  /\ UNCHANGED <<requests, work, settings, hs, net, fresh>>

\* An unauthenticated probe shows another epoch than the trusted baseline.
SeesReset(s) == peer[s].epoch # 0 /\ epoch[Other(s)] # peer[s].epoch

\* recoverOrDetectReset, from the recovery tick or the admin's recheck.
Recover(s) ==
  /\ peer[s].status = "unreachable"
  /\ WritePeer(s, IF SeesReset(s)
                  THEN Move(peer[s], "needs_attention", "peer_reset_detected")
                  ELSE Move(peer[s], "active", "null"))
  /\ UNCHANGED <<requests, work, settings, hs, net, fresh, spent>>

\* detectResetForPeer on a row that already needs attention.
DetectReset(s) ==
  /\ peer[s].status = "needs_attention"
  /\ peer[s].reason # "peer_reset_detected"
  /\ SeesReset(s)
  /\ WritePeer(s, Move(peer[s], "needs_attention", "peer_reset_detected"))
  /\ UNCHANGED <<requests, work, settings, hs, net, fresh, spent>>

\* cleanupUnusedAutoPendingPeers: an hour old, nothing queued, no exchange.
CleanupUnusedPending(s) ==
  /\ peer[s].status = "pending" /\ peer[s].by = "auto" /\ ~peer[s].queued
  /\ Idle(s)
  /\ WritePeer(s, NoRow)
  /\ UNCHANGED <<requests, work, settings, hs, net, fresh, spent>>

\* fanoutOutboundSubscribers, at the end of onPeerActivated.
FanOut(s) ==
  /\ fanout[s] # 0
  /\ fanout' = [fanout EXCEPT ![s] = 0]
  /\ outReq' = IF peer[s].status # "none" /\ peer[s].id = fanout[s]
               THEN [outReq EXCEPT ![s] = NoRequest] ELSE outReq
  /\ UNCHANGED <<peer, held, inReq, work, settings, hs, net, fresh, spent>>

\* The process stops: exchanges and hooks are gone, the database stays.  The
\* startup bootstrap runs the hook again for a row that never synced.
Crash(s) ==
  /\ ~Idle(s) \/ deny[s] # NoDenial \/ parked[s] # NoProbe \/ fanout[s] # 0
  /\ Spend("faults")
  /\ hs' = [hs EXCEPT ![s] = NoExchange]
  /\ deny' = [deny EXCEPT ![s] = NoDenial]
  /\ parked' = [parked EXCEPT ![s] = NoProbe]
  /\ net' = {IF m.from = s THEN [m EXCEPT !.live = FALSE] ELSE m : m \in net}
  /\ \E id \in {0, fanout[s]} : fanout' = [fanout EXCEPT ![s] = id]
  /\ UNCHANGED <<peer, held, requests, settings, fresh>>

\* A reinstallation on the same domain: an empty database, a new epoch.  It
\* takes longer than any request does.
Quiet ==
  /\ net = {}
  /\ \A s \in Side : Idle(s) /\ deny[s] = NoDenial /\ parked[s] = NoProbe

Wipe(s) ==
  /\ s \notin Gated /\ Quiet
  /\ Spend("wipes")
  /\ epoch' = [epoch EXCEPT ![s] = @ + 1]
  /\ autoAccept' = [autoAccept EXCEPT ![s] = TRUE]
  /\ peer' = [peer EXCEPT ![s] = NoRow]
  /\ fanout' = [fanout EXCEPT ![s] = 0]
  /\ inReq' = [inReq EXCEPT ![s] = NoRequest]
  /\ outReq' = [outReq EXCEPT ![s] = NoRequest]
  /\ UNCHANGED <<work, hs, net, fresh, held>>

-----------------------------------------------------------------------------
Local(s) ==
  \/ QueueEvent(s) \/ EmptyQueue(s)
  \/ \E intent \in {"user_action", "system"} : OutboundGate(s, intent)
  \/ EnsurePeered(s) \/ ResolvePendingPeer(s)
  \/ \E mode \in AdminModes : AdminHandshake(s, mode)
  \/ ApproveEstablished(s)

Settle(s) ==
  \/ SettleQueued(s) \/ SettleRefused(s) \/ SettleInProgress(s)
  \/ GiveUp(s) \/ Verify(s) \/ SettleExists(s) \/ SettleAccepted(s)

Approvals(s) ==
  \/ \E kind \in {"denied", "expired"}, lost \in BOOLEAN : DenyInbound(s, kind, lost)
  \/ SettleDenial(s)
  \/ \E kind \in {"denied", "expired"} : DropOutbound(s, kind)

Upkeep(s) ==
  \/ ProbeParked(s) \/ SettleParked(s)
  \/ Revoke(s) \/ ResetPeer(s) \/ DeletePermanently(s) \/ ToggleAutoAccept(s)
  \/ AuthRefusal(s) \/ MarkUnreachable(s) \/ Recover(s) \/ DetectReset(s)
  \/ CleanupUnusedPending(s) \/ FanOut(s) \/ Crash(s) \/ Wipe(s)

Transit ==
  \/ \E lost \in BOOLEAN : \E m \in net : AcceptHandshake(m, lost)
  \/ \E lost \in BOOLEAN : \E m \in net : QueueHandshake(m, lost)
  \/ \E lost \in BOOLEAN : \E m \in net : RefuseHandshake(m, lost)
  \/ \E m \in net : LoseRequest(m)

Next ==
  \/ \E s \in Side : Local(s) \/ Settle(s) \/ Approvals(s) \/ Upkeep(s)
  \/ Transit

Spec == Init /\ [][Next]_vars

\* What the program keeps trying: the worker's tick, the 15-minute backstop,
\* the HTTP client (which answers or times out) and the process itself, which
\* runs the code after an await.  No admin and no user is ever obliged to act.
Deliver(m) ==
  \E lost \in BOOLEAN :
    AcceptHandshake(m, lost) \/ QueueHandshake(m, lost) \/ RefuseHandshake(m, lost)

Fairness ==
  /\ \A s \in Side :
       /\ WF_vars(\E m \in net : m.from = s /\ Deliver(m))
       /\ WF_vars(ResolvePendingPeer(s))
       /\ WF_vars(Settle(s))
       /\ WF_vars(SettleDenial(s))
       /\ WF_vars(ProbeParked(s))
       /\ WF_vars(SettleParked(s))

FairSpec == Spec /\ Fairness

-----------------------------------------------------------------------------
(* Properties *)

RowsOK ==
  /\ peer \in [Side -> PeerRows]
  /\ \A s \in Side : peer[s].reason \in ReasonsOf(peer[s].status)
  /\ fanout \in [Side -> Nat]
  /\ held \in [Side -> SUBSET Nat]

RequestsOK ==
  /\ inReq \in [Side -> Request]
  /\ outReq \in [Side -> Request]

WorkOK ==
  /\ deny \in [Side -> Denials]
  /\ parked \in [Side -> ParkedProbes]

ExchangesOK ==
  /\ hs \in [Side -> Exchange]
  /\ net \subseteq Messages

SettingsOK ==
  /\ autoAccept \in [Side -> BOOLEAN]
  /\ epoch \in [Side -> Nat]

CountersOK ==
  /\ fresh \in Nat
  /\ spent \in [{"faults", "decisions", "outages", "wipes"} -> Nat]

\* Every variable has its shape, and a row's reason is one its status allows.
TypeOK ==
  RowsOK /\ RequestsOK /\ WorkOK /\ ExchangesOK /\ SettingsOK /\ CountersOK

\* An instance that never turns auto-accept on has a peer row only where its
\* admin decided so: not from traffic, not from a remote's handshake, not from
\* an expiry, whatever order requests, answers and denials come in.
GatedByAdmin ==
  \A s \in Gated : peer[s].status # "none" => peer[s].by = "admin"

\* A row is active only on a secret that the other side's row has held: a 200
\* alone, a lost answer or a timeout never makes a peering out of one side's word.
ActiveOnSharedSecret ==
  \A s \in Side : peer[s].status = "active" => peer[s].secret \in held[Other(s)]

\* A row that was refused, or does not exist, has nothing queued against it.
RefusedHoldNoMail ==
  \A s \in Side :
    peer[s].queued => peer[s].status \notin {"none", "rejected", "revoked"}

\* An established row takes another secret only from our own exchange, once
\* the remote verifiably held that secret: no request from outside re-keys it.
NeverRekeyed ==
  [][\A s \in Side :
       /\ peer[s].status \in Established /\ peer'[s].status \in Established
       /\ peer'[s].secret # peer[s].secret
       => hs[s].probe = "verified" /\ peer'[s].secret = hs[s].secret]_vars

\* Our admin's own refusal ends only by our admin's hand (or with the
\* database): no handshake, denial, expiry or backstop answer lifts it.
LocalRefusalsHold ==
  [][\A s \in Side :
       LocallyRefused(peer[s]) /\ ~LocallyRefused(peer'[s])
       => spent'.decisions # spent.decisions \/ spent'.wipes # spent.wipes]_vars

\* What of that is true of the code: a revocation stands until our admin takes
\* it back, and a denial yields to nothing but the answer to a probe that the
\* backstop sent before the denial.
OnlyBackstopLifts ==
  [][\A s \in Side :
       /\ LocallyRefused(peer[s]) /\ ~LocallyRefused(peer'[s])
       /\ spent'.decisions = spent.decisions /\ spent'.wipes = spent.wipes
       => StillParked(s) /\ parked[s] # NoProbe /\ parked'[s] = NoProbe]_vars

\* When both sides are active and nothing is in flight, they hold one secret, if
\* at most one thing went wrong and an admin acted at most once: two handshakes
\* at once, one of them cut short, end on one secret.  A second loss, an outage
\* or an admin's second action during an exchange does split them.
OneSecretSurvives ==
  (/\ spent.faults + spent.outages <= 1 /\ spent.decisions <= 1
   /\ \A s \in Side : peer[s].status = "active" /\ Idle(s) /\ parked[s] = NoProbe
   /\ net = {})
  => peer["lower"].secret = peer["higher"].secret

\* Each side of a peering knows the instance it peered with, so that a later
\* reinstallation shows: also when the remote was reinstalled before it.
BaselineKnown ==
  (/\ \A s \in Side : peer[s].status = "active"
   /\ peer["lower"].secret = peer["higher"].secret)
  => \A s \in Side : peer[s].epoch = epoch[Other(s)]

Peered ==
  /\ \A s \in Side : peer[s].status = "active"
  /\ peer["lower"].secret = peer["higher"].secret

\* Mail waiting on a placeholder leads to a peering both sides hold, also
\* when both sides start handshakes with each other, as long as nothing fails.
MailLeadsToPeering ==
  \A s \in Side :
    (peer[s].status = "pending" /\ peer[s].queued) ~> (Peered \/ spent.faults > 0)

RemoteHoldsOurs(s) ==
  /\ peer[Other(s)].status \in Established
  /\ peer[Other(s)].secret = peer[s].secret

\* The remote took our handshake and its answer was lost, or the check of it:
\* while mail waits, retries complete the peering.
LostAnswerCompletes ==
  \A s \in Side :
    (peer[s].status = "pending" /\ peer[s].queued /\ RemoteHoldsOurs(s)) ~>
      \/ peer[s].status = "active"
      \/ peer[s].status \in {"pending", "none"} /\ ~peer[s].queued

\* A row parked although the remote holds its secret does not stay parked.
ParkedCompletes ==
  \A s \in Side :
    (StaleParked(peer[s]) /\ RemoteHoldsOurs(s)) ~> ~StaleParked(peer[s])

\* Once the remote admin has cleared the older row a parked row waits for, the
\* backstop's one handshake (or the remote's own) makes the peering whole, if nothing
\* fails from then on.
ResetEndsParking ==
  \A s \in Side :
    (/\ StaleParked(peer[s]) /\ peer[Other(s)].status = "none"
     /\ spent.faults = MaxFaults /\ spent.decisions = MaxDecisions
     /\ spent.outages = MaxOutages) ~> Peered
=============================================================================
