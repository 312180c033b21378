--------------------------- MODULE PeeringProofs ---------------------------
(***************************************************************************)
(* Theorems about Peering, for every value of its constants.               *)
(***************************************************************************)
EXTENDS Peering, TLAPS

-----------------------------------------------------------------------------
(* The rows the operators build *)

GoodRow(row) == row \in PeerRows /\ row.reason \in ReasonsOf(row.status)

\* NoRow is a row without a reason.
LEMMA NoRowGood == GoodRow(NoRow)
  BY DEF GoodRow, NoRow, PeerRows, Status, Reasons, ReasonsOf

\* A move to a status with a reason it may carry keeps the row well formed.
LEMMA MoveGood ==
  ASSUME NEW row \in PeerRows, NEW status \in Status \ {"none"},
         NEW reason \in ReasonsOf(status)
  PROVE  GoodRow(Move(row, status, reason))
  BY DEF GoodRow, Move, PeerRows, Status, Reasons, ReasonsOf, AttentionReasons,
         RemoteRejectedReasons

\* insertPeer makes a well-formed row.
LEMMA NewRowGood ==
  ASSUME NEW status \in Status, NEW reason \in ReasonsOf(status),
         NEW secret \in Nat, NEW by \in {"auto", "admin", "remote"}, NEW e \in Nat
  PROVE  GoodRow(NewRow(status, reason, secret, by, e))
  BY DEF GoodRow, NewRow, NoRow, PeerRows, Status, Reasons, ReasonsOf,
         AttentionReasons, RemoteRejectedReasons

\* Activation makes a well-formed row.
LEMMA ActivatedGood ==
  ASSUME NEW row \in PeerRows, NEW secret \in Nat, NEW e \in Nat
  PROVE  GoodRow(Activated(row, secret, e))
  BY DEF GoodRow, Activated, Move, PeerRows, Status, Reasons, ReasonsOf

-----------------------------------------------------------------------------
(* The building blocks of the actions *)

\* There is always another side, and it is the other one's other side.
LEMMA OtherSide ==
  ASSUME NEW s \in Side
  PROVE  Other(s) \in Side /\ Other(s) # s /\ Other(Other(s)) = s
  BY DEF Side, Other

\* The row a side has is well formed.
LEMMA PeerGood ==
  ASSUME TypeOK, NEW s \in Side
  PROVE  GoodRow(peer[s])
  BY DEF TypeOK, RowsOK, GoodRow

\* Writing a well-formed row keeps the rows well formed.
LEMMA WriteType ==
  ASSUME TypeOK, NEW s \in Side, NEW row, GoodRow(row), WritePeer(s, row)
  PROVE  RowsOK'
  <1>1. row \in PeerRows /\ row.id \in Nat /\ row.secret \in Nat
    BY DEF GoodRow, PeerRows
  <1>2. peer' \in [Side -> PeerRows] /\ fanout' \in [Side -> Nat]
    BY <1>1 DEF TypeOK, RowsOK, WritePeer
  <1>3. held' \in [Side -> SUBSET Nat]
    BY <1>1 DEF TypeOK, RowsOK, WritePeer
  <1>4. \A x \in Side : peer'[x].reason \in ReasonsOf(peer'[x].status)
    BY DEF TypeOK, RowsOK, WritePeer, GoodRow
  <1> QED BY <1>2, <1>3, <1>4 DEF RowsOK

\* Spending within a bound counts it.
LEMMA SpendType ==
  ASSUME TypeOK, NEW kind \in {"faults", "decisions", "outages", "wipes"}, Spend(kind)
  PROVE  spent' \in [{"faults", "decisions", "outages", "wipes"} -> Nat]
  BY DEF TypeOK, CountersOK, Spend

\* A request sent keeps the exchanges well formed.
LEMMA SendType ==
  ASSUME TypeOK, NEW s \in Side, NEW mode \in Modes, NEW secret \in Nat,
         NEW onFailure \in FailurePolicies, NEW token \in Nat,
         Send(s, mode, secret, onFailure, token)
  PROVE  ExchangesOK'
  <1>1. hs' \in [Side -> Exchange]
    BY DEF TypeOK, ExchangesOK, Send, Exchange, NoExchange, Answers, Probes
  <1>2. [from |-> s, secret |-> secret, token |-> token, epoch |-> epoch[s],
         live |-> TRUE] \in Messages
    BY DEF TypeOK, SettingsOK, Messages
  <1>3. net' \subseteq Messages
    BY <1>2 DEF TypeOK, ExchangesOK, Send
  <1> QED BY <1>1, <1>3 DEF ExchangesOK

\* An answer keeps the exchanges and the counters well formed.
LEMMA AnswerType ==
  ASSUME TypeOK, NEW m \in net, NEW answer \in Answers, NEW token \in Nat,
         NEW lost \in BOOLEAN, NEW cleared, Answer(m, answer, token, lost, cleared)
  PROVE  ExchangesOK' /\ spent' \in [{"faults", "decisions", "outages", "wipes"} -> Nat]
  <1>1. hs' \in [Side -> Exchange]
    BY DEF TypeOK, ExchangesOK, Answer, Exchange
  <1>2. net' \subseteq Messages
    BY DEF TypeOK, ExchangesOK, Answer
  <1>3. spent' \in [{"faults", "decisions", "outages", "wipes"} -> Nat]
    BY SpendType DEF TypeOK, CountersOK, Answer
  <1> QED BY <1>1, <1>2, <1>3 DEF ExchangesOK

\* The end of an exchange with a well-formed row.
LEMMA FinishType ==
  ASSUME TypeOK, NEW s \in Side, NEW row, GoodRow(row), Finish(s, row)
  PROVE  /\ RowsOK' /\ RequestsOK' /\ WorkOK'
         /\ hs' \in [Side -> Exchange]
         /\ UNCHANGED <<settings, fresh>>
  <1> DEFINE final ==
        IF /\ hs[s].onFailure = "repark"
           /\ row.status # "none" /\ row.id = hs[s].secret
           /\ row.status = "pending"
        THEN Move(row, "rejected", "stale_peering_on_remote") ELSE row
  <1>1. GoodRow(final)
    BY MoveGood DEF GoodRow, Status, ReasonsOf, RemoteRejectedReasons
  <1>2. WritePeer(s, final)
    BY DEF Finish
  <1>3. RowsOK'
    BY <1>1, <1>2, WriteType
  <1>4. hs' \in [Side -> Exchange]
    BY DEF TypeOK, ExchangesOK, Finish, NoExchange, Exchange, Answers, Modes,
           FailurePolicies, Probes
  <1>5. RequestsOK'
    BY DEF TypeOK, RequestsOK, Finish, Request, NoRequest
  <1>6. WorkOK'
    BY DEF TypeOK, WorkOK, Finish, Denials
  <1> QED BY <1>3, <1>4, <1>5, <1>6 DEF Finish

-----------------------------------------------------------------------------
(* Type correctness *)

\* Nothing has happened yet.
LEMMA TypeInit == Init => TypeOK
  <1> SUFFICES ASSUME Init PROVE TypeOK
    OBVIOUS
  <1>1. RowsOK
    BY NoRowGood DEF Init, RowsOK, GoodRow
  <1>2. RequestsOK /\ WorkOK
    BY DEF Init, RequestsOK, WorkOK, Request, NoRequest, Denials, NoDenial,
           ParkedProbes, NoProbe, Probes
  <1>3. ExchangesOK
    BY DEF Init, ExchangesOK, Exchange, NoExchange, Answers, Modes,
           FailurePolicies, Probes
  <1>4. SettingsOK /\ CountersOK
    BY DEF Init, SettingsOK, CountersOK
  <1> QED BY <1>1, <1>2, <1>3, <1>4 DEF TypeOK

\* Local traffic and the start of a handshake.
LEMMA LocalType ==
  ASSUME TypeOK, NEW s \in Side, Local(s)
  PROVE  TypeOK'
  <1> USE DEF TypeOK
  <1>p. GoodRow(peer[s]) /\ peer[s] \in PeerRows /\ fresh \in Nat /\ fresh + 1 \in Nat
    BY PeerGood DEF GoodRow, CountersOK
  <1>1. CASE QueueEvent(s)
    <2>1. GoodRow([peer[s] EXCEPT !.queued = TRUE])
      BY <1>p DEF GoodRow, PeerRows
    <2>2. GoodRow([NewRow("pending", "null", fresh + 1, "auto", 0) EXCEPT !.queued = TRUE])
      BY <1>p DEF GoodRow, NewRow, NoRow, PeerRows, Status, Reasons, ReasonsOf
    <2>3. RowsOK'
      BY <1>1, <2>1, <2>2, WriteType DEF QueueEvent
    <2> QED BY <1>1, <1>p, <2>3 DEF QueueEvent, requests, work, settings, RequestsOK,
               WorkOK, ExchangesOK, SettingsOK, CountersOK
  <1>2. CASE EmptyQueue(s)
    <2>1. GoodRow([peer[s] EXCEPT !.queued = FALSE])
      BY <1>p DEF GoodRow, PeerRows
    <2>2. RowsOK'
      BY <1>2, <2>1, WriteType DEF EmptyQueue
    <2>3. CountersOK'
      BY <1>2, SpendType DEF EmptyQueue, CountersOK
    <2> QED BY <1>2, <2>2, <2>3 DEF EmptyQueue, requests, work, settings, RequestsOK,
               WorkOK, ExchangesOK, SettingsOK
  <1>3. CASE \E intent \in {"user_action", "system"} : OutboundGate(s, intent)
    <2> PICK intent \in {"user_action", "system"} : OutboundGate(s, intent)
      BY <1>3
    <2>1. RowsOK'
      BY NoRowGood, WriteType DEF OutboundGate
    <2>2. RequestsOK'
      BY DEF OutboundGate, RequestsOK, Request, NoRequest
    <2> QED BY <2>1, <2>2 DEF OutboundGate, work, settings, WorkOK, ExchangesOK,
               SettingsOK, CountersOK
  <1>4. ASSUME EnsurePeered(s) PROVE TypeOK'
    <2>1. RowsOK'
      <3>1. GoodRow(NewRow("pending", "null", fresh + 1, "auto", 0))
        BY <1>p, NewRowGood DEF Status, ReasonsOf
      <3> QED BY <1>4, <3>1, WriteType DEF EnsurePeered, rows, RowsOK
    <2>2. ExchangesOK'
      <3>1. peer[s].secret \in Nat
        BY <1>p DEF PeerRows
      <3> QED BY <1>4, <1>p, <3>1, SendType DEF EnsurePeered, Modes, FailurePolicies
    <2>3. CountersOK'
      BY <1>4, <1>p DEF EnsurePeered, CountersOK
    <2> QED BY <1>4, <2>1, <2>2, <2>3 DEF EnsurePeered, requests, work, settings,
               RequestsOK, WorkOK, SettingsOK
  <1>5. CASE ResolvePendingPeer(s)
    <2>1. CASE EnsurePeered(s)
      BY <1>4, <2>1
    <2>2. CASE OutboundGate(s, "system")
      <3>1. RowsOK'
        BY <2>2, NoRowGood, WriteType DEF OutboundGate
      <3> QED BY <2>2, <3>1 DEF OutboundGate, work, settings, RequestsOK, WorkOK,
                 ExchangesOK, SettingsOK, CountersOK
    <2> QED BY <1>5, <2>1, <2>2 DEF ResolvePendingPeer
  <1>6. CASE \E mode \in AdminModes : AdminHandshake(s, mode)
    <2> PICK mode \in AdminModes : AdminHandshake(s, mode)
      BY <1>6
    <2> DEFINE token == IF mode = "inbound" THEN inReq[s].token ELSE 0
    <2>1. token \in Nat /\ peer[s].secret \in Nat /\ mode \in Modes
      BY <1>p DEF RequestsOK, Request, PeerRows, AdminModes
    <2>2. RowsOK'
      <3>1. GoodRow(NewRow("pending", "null", fresh + 1, "admin", 0))
        BY <1>p, NewRowGood DEF Status, ReasonsOf
      <3>2. GoodRow([peer[s] EXCEPT !.by = "admin"])
        BY <1>p DEF GoodRow, PeerRows
      <3> QED BY <3>1, <3>2, WriteType DEF AdminHandshake, rows, RowsOK
    <2>3. ExchangesOK'
      BY <1>p, <2>1, SendType DEF AdminHandshake, FailurePolicies
    <2>4. CountersOK'
      BY <1>p, SpendType DEF AdminHandshake, CountersOK
    <2> QED BY <2>2, <2>3, <2>4 DEF AdminHandshake, requests, work, settings,
               RequestsOK, WorkOK, SettingsOK
  <1>7. CASE ApproveEstablished(s)
    <2>1. RequestsOK' /\ WorkOK'
      BY <1>7 DEF ApproveEstablished, RequestsOK, WorkOK, Request, NoRequest, Denials
    <2>2. CountersOK'
      BY <1>7, SpendType DEF ApproveEstablished, CountersOK
    <2> QED BY <1>7, <2>1, <2>2 DEF ApproveEstablished, rows, settings, RowsOK,
               ExchangesOK, SettingsOK
  <1> QED BY <1>1, <1>2, <1>3, <1>4, <1>5, <1>6, <1>7 DEF Local

\* The end of an exchange of ours.
LEMMA SettleType ==
  ASSUME TypeOK, NEW s \in Side, Settle(s)
  PROVE  TypeOK'
  <1> USE DEF TypeOK
  <1>p. GoodRow(peer[s]) /\ peer[s] \in PeerRows /\ peer[s].status \in Status
    BY PeerGood DEF GoodRow, PeerRows
  <1>h. hs[s] \in Exchange /\ hs[s].secret \in Nat /\ hs[s].epoch \in Nat /\ hs[s].token \in Nat
    BY DEF ExchangesOK, Exchange
  <1>f. ASSUME NEW row, GoodRow(row), Finish(s, row), ExchangesOK', CountersOK'
        PROVE  TypeOK'
    BY <1>f, FinishType DEF settings, SettingsOK
  <1>k. ASSUME NEW row, GoodRow(row), Finish(s, row), UNCHANGED <<net, spent>>
        PROVE  TypeOK'
    <2>1. hs' \in [Side -> Exchange] /\ UNCHANGED <<settings, fresh>>
      BY <1>k, FinishType
    <2>2. ExchangesOK' /\ CountersOK'
      BY <1>k, <2>1 DEF ExchangesOK, CountersOK
    <2> QED BY <1>k, <1>f, <2>2
  <1>1. CASE SettleQueued(s)
    <2>1. GoodRow([Move(peer[s], "awaiting_approval", "null") EXCEPT !.token = hs[s].token])
      BY <1>p, <1>h DEF GoodRow, Move, PeerRows, Status, Reasons, ReasonsOf
    <2> QED BY <1>1, <1>k, <1>p, <2>1 DEF SettleQueued
  <1>2. CASE SettleRefused(s)
    <2>1. \A r \in {"denied_by_remote", "revoked_by_remote"} :
            GoodRow(Move(peer[s], "rejected", r))
      BY <1>p, MoveGood DEF Status, ReasonsOf, RemoteRejectedReasons
    <2> QED BY <1>2, <1>k, <1>p, <2>1 DEF SettleRefused
  <1>3. CASE SettleInProgress(s)
    BY <1>3, <1>k, <1>p DEF SettleInProgress
  <1>4. CASE GiveUp(s)
    <2> DEFINE mine == {m \in net : m.from = s /\ m.live}
    <2>1. GoodRow([peer[s] EXCEPT !.by = "auto"])
      BY <1>p DEF GoodRow, PeerRows
    <2>2. PICK row : GoodRow(row) /\ Finish(s, row)
      BY <1>4, <1>p, <2>1, NoRowGood DEF GiveUp
    <2>3. \A m \in net : [m EXCEPT !.live = FALSE] \in Messages
      BY DEF ExchangesOK, Messages
    <2>4. net' \subseteq Messages
      BY <1>4, <2>3 DEF GiveUp, ExchangesOK
    <2>5. spent' \in [{"faults", "decisions", "outages", "wipes"} -> Nat]
      BY <1>4, SpendType DEF GiveUp, CountersOK
    <2>6. hs' \in [Side -> Exchange] /\ UNCHANGED <<settings, fresh>>
      BY <2>2, FinishType
    <2>7. ExchangesOK' /\ CountersOK'
      BY <2>4, <2>5, <2>6 DEF ExchangesOK, CountersOK
    <2> QED BY <1>f, <2>2, <2>7
  <1>5. CASE Verify(s)
    <2>1. Other(s) \in Side /\ epoch[Other(s)] \in Nat
      BY OtherSide DEF SettingsOK
    <2>2. EpochAnswer(peer[Other(s)], hs[s].secret) \in Probes
      BY DEF EpochAnswer, Probes
    <2>3. hs' \in [Side -> Exchange]
      BY <1>5, <1>h, <2>1, <2>2 DEF Verify, ExchangesOK, Exchange, Probes
    <2>4. CountersOK'
      BY <1>5, SpendType DEF Verify, CountersOK
    <2> QED BY <1>5, <2>3, <2>4 DEF Verify, rows, requests, work, settings, RowsOK,
               RequestsOK, WorkOK, ExchangesOK, SettingsOK
  <1>6. CASE SettleExists(s)
    <2>1. GoodRow(Activated(peer[s], hs[s].secret, hs[s].epoch))
      BY <1>p, <1>h, ActivatedGood
    <2>2. GoodRow(Move(peer[s], "rejected", "stale_peering_on_remote"))
      BY <1>p, MoveGood DEF Status, ReasonsOf, RemoteRejectedReasons
    <2>3. GoodRow(AfterExists(s))
      BY <1>p, <2>1, <2>2 DEF AfterExists
    <2> QED BY <1>6, <1>k, <2>3 DEF SettleExists
  <1>7. CASE SettleAccepted(s)
    <2>1. GoodRow(Activated(peer[s], hs[s].secret, hs[s].epoch))
      BY <1>p, <1>h, ActivatedGood
    <2>2. GoodRow(Move(peer[s], "needs_attention", "repeer_incomplete"))
      BY <1>p, MoveGood DEF Status, ReasonsOf, AttentionReasons
    <2>3. GoodRow([peer[s] EXCEPT !.secret = hs[s].secret, !.epoch = hs[s].epoch])
      BY <1>p, <1>h DEF GoodRow, PeerRows
    <2>4. GoodRow(AfterAccept(s))
      BY <1>p, <2>1, <2>2, <2>3 DEF AfterAccept
    <2> QED BY <1>7, <1>k, <2>4 DEF SettleAccepted
  <1> QED BY <1>1, <1>2, <1>3, <1>4, <1>5, <1>6, <1>7 DEF Settle

\* Denials, expiries and their settlement.
LEMMA ApprovalsType ==
  ASSUME TypeOK, NEW s \in Side, Approvals(s)
  PROVE  TypeOK'
  <1> USE DEF TypeOK
  <1>o. Other(s) \in Side
    BY OtherSide
  <1>p. /\ GoodRow(peer[s]) /\ peer[s] \in PeerRows
        /\ peer[Other(s)] \in PeerRows
    BY PeerGood, <1>o DEF GoodRow
  <1>1. ASSUME NEW kind \in {"denied", "expired"}, NEW lost \in BOOLEAN,
               DenyInbound(s, kind, lost)
        PROVE  TypeOK'
    <2>1. \A r \in {"denied_by_remote", "expired_on_remote"} :
            GoodRow(Move(peer[Other(s)], "rejected", r))
      BY <1>p, MoveGood DEF Status, ReasonsOf, RemoteRejectedReasons
    <2>2. RowsOK'
      BY <1>1, <1>o, <2>1, WriteType DEF DenyInbound
    <2>3. WorkOK'
      BY <1>1 DEF DenyInbound, WorkOK, Denials, RequestsOK, Request
    <2>4. CountersOK'
      BY <1>1, SpendType DEF DenyInbound, CountersOK
    <2> QED BY <1>1, <2>2, <2>3, <2>4 DEF DenyInbound, requests, settings,
               RequestsOK, ExchangesOK, SettingsOK
  <1>2. CASE SettleDenial(s)
    <2>1. deny[s].secret \in Nat
      BY DEF WorkOK, Denials
    <2>2. GoodRow(NewRow("rejected", "denied_by_local_admin", deny[s].secret, "admin", 0))
      BY <2>1, NewRowGood DEF Status, ReasonsOf
    <2>3. GoodRow(Move(peer[s], "rejected", "denied_by_local_admin"))
      BY <1>p, MoveGood DEF Status, ReasonsOf
    <2>4. RowsOK'
      BY <1>2, <2>2, <2>3, WriteType DEF SettleDenial, rows, RowsOK
    <2>5. RequestsOK'
      BY <1>2 DEF SettleDenial, RequestsOK, Request, NoRequest
    <2>6. ExchangesOK'
      BY <1>2 DEF SettleDenial, ExchangesOK, Exchange
    <2>7. WorkOK'
      BY <1>2 DEF SettleDenial, WorkOK, Denials, NoDenial
    <2> QED BY <1>2, <2>4, <2>5, <2>6, <2>7 DEF SettleDenial, settings, SettingsOK,
               CountersOK
  <1>3. ASSUME NEW kind \in {"denied", "expired"}, DropOutbound(s, kind)
        PROVE  TypeOK'
    <2>1. RequestsOK'
      BY <1>3 DEF DropOutbound, RequestsOK, Request, NoRequest
    <2>2. CountersOK'
      BY <1>3, SpendType DEF DropOutbound, CountersOK
    <2> QED BY <1>3, <2>1, <2>2 DEF DropOutbound, rows, work, settings, RowsOK,
               WorkOK, ExchangesOK, SettingsOK
  <1> QED BY <1>1, <1>2, <1>3 DEF Approvals

\* The backstop, the admin's peer actions, outages, crashes, reinstallations.
LEMMA UpkeepType ==
  ASSUME TypeOK, NEW s \in Side, Upkeep(s)
  PROVE  TypeOK'
  <1> USE DEF TypeOK
  <1>o. Other(s) \in Side /\ epoch[Other(s)] \in Nat
    BY OtherSide DEF SettingsOK
  <1>p. GoodRow(peer[s]) /\ peer[s] \in PeerRows /\ peer[s].secret \in Nat
    BY PeerGood DEF GoodRow, PeerRows
  <1>m. /\ GoodRow(Move(peer[s], "pending", "null"))
        /\ GoodRow(Move(peer[s], "active", "null"))
        /\ GoodRow(Move(peer[s], "unreachable", "null"))
        /\ GoodRow(Move(peer[s], "revoked", "null"))
        /\ GoodRow(Move(peer[s], "needs_attention", "auth_failures"))
        /\ GoodRow(Move(peer[s], "needs_attention", "peer_reset_detected"))
    BY <1>p, MoveGood DEF Status, ReasonsOf, AttentionReasons
  <1>w. ASSUME NEW row, GoodRow(row), WritePeer(s, row), CountersOK',
               UNCHANGED <<requests, work, settings, hs, net>>
        PROVE  TypeOK'
    <2>1. RowsOK'
      BY <1>w, WriteType
    <2> QED BY <1>w, <2>1 DEF requests, work, settings, RequestsOK, WorkOK,
               ExchangesOK, SettingsOK
  <1>d. ASSUME NEW row, GoodRow(row), Decide(s, row)
        PROVE  TypeOK'
    <2>1. CountersOK'
      BY <1>d, SpendType DEF Decide, CountersOK
    <2> QED BY <1>d, <1>w, <2>1 DEF Decide
  <1>1. CASE ProbeParked(s)
    <2>1. EpochAnswer(peer[Other(s)], peer[s].secret) \in Probes
      BY DEF EpochAnswer, Probes
    <2>2. WorkOK'
      BY <1>1, <1>o, <1>p, <2>1 DEF ProbeParked, WorkOK, ParkedProbes
    <2> QED BY <1>1, <2>2 DEF ProbeParked, rows, requests, settings, RowsOK,
               RequestsOK, ExchangesOK, SettingsOK, CountersOK
  <1>2. CASE SettleParked(s)
    <2>1. parked[s].secret \in Nat /\ parked[s].epoch \in Nat
      BY DEF WorkOK, ParkedProbes
    <2>2. GoodRow(Activated(peer[s], parked[s].secret, parked[s].epoch))
      BY <1>p, <2>1, ActivatedGood
    <2>3. RowsOK'
      BY <1>2, <1>m, <2>2, NoRowGood, WriteType DEF SettleParked, rows, RowsOK
    <2>4. ExchangesOK'
      BY <1>2, <1>p, SendType DEF SettleParked, Modes, FailurePolicies, ExchangesOK
    <2>5. WorkOK'
      BY <1>2 DEF SettleParked, WorkOK, ParkedProbes, NoProbe, Probes
    <2> QED BY <1>2, <2>3, <2>4, <2>5 DEF SettleParked, requests, settings,
               RequestsOK, SettingsOK, CountersOK
  <1>3. CASE Revoke(s)
    BY <1>3, <1>m, <1>d DEF Revoke
  <1>4. CASE ResetPeer(s)
    BY <1>4, NoRowGood, <1>d DEF ResetPeer
  <1>5. CASE DeletePermanently(s)
    BY <1>5, NoRowGood, <1>d DEF DeletePermanently
  <1>6. CASE ToggleAutoAccept(s)
    <2>1. SettingsOK'
      BY <1>6 DEF ToggleAutoAccept, SettingsOK
    <2>2. CountersOK'
      BY <1>6, SpendType DEF ToggleAutoAccept, CountersOK
    <2> QED BY <1>6, <2>1, <2>2 DEF ToggleAutoAccept, rows, requests, work, RowsOK,
               RequestsOK, WorkOK, ExchangesOK
  <1>7. CASE AuthRefusal(s)
    <2>1. CountersOK'
      BY <1>7, SpendType DEF AuthRefusal, CountersOK
    <2> QED BY <1>7, <1>m, <1>w, <2>1 DEF AuthRefusal
  <1>8. CASE MarkUnreachable(s)
    <2>1. CountersOK'
      BY <1>8, SpendType DEF MarkUnreachable, CountersOK
    <2> QED BY <1>8, <1>m, <1>w, <2>1 DEF MarkUnreachable
  <1>9. CASE Recover(s)
    BY <1>9, <1>m, <1>w DEF Recover, CountersOK
  <1>10. CASE DetectReset(s)
    BY <1>10, <1>m, <1>w DEF DetectReset, CountersOK
  <1>11. CASE CleanupUnusedPending(s)
    BY <1>11, NoRowGood, <1>w DEF CleanupUnusedPending, CountersOK
  <1>12. CASE FanOut(s)
    <2>1. RowsOK' /\ RequestsOK'
      BY <1>12 DEF FanOut, RowsOK, RequestsOK, Request, NoRequest
    <2> QED BY <1>12, <2>1 DEF FanOut, work, settings, WorkOK, ExchangesOK,
               SettingsOK, CountersOK
  <1>13. CASE Crash(s)
    <2>1. RowsOK'
      BY <1>13 DEF Crash, RowsOK
    <2>2. hs' \in [Side -> Exchange]
      BY <1>13 DEF Crash, ExchangesOK, Exchange, NoExchange, Answers, Modes,
                   FailurePolicies, Probes
    <2>3. \A m \in net : [m EXCEPT !.live = FALSE] \in Messages /\ m \in Messages
      BY DEF ExchangesOK, Messages
    <2>4. net' \subseteq Messages
      BY <1>13, <2>3 DEF Crash
    <2>5. WorkOK'
      BY <1>13 DEF Crash, WorkOK, Denials, NoDenial, ParkedProbes, NoProbe, Probes
    <2>6. CountersOK'
      BY <1>13, SpendType DEF Crash, CountersOK
    <2> QED BY <1>13, <2>1, <2>2, <2>4, <2>5, <2>6 DEF Crash, requests, settings,
               RequestsOK, ExchangesOK, SettingsOK
  <1>14. CASE Wipe(s)
    <2>1. RowsOK'
      BY <1>14, NoRowGood DEF Wipe, RowsOK, GoodRow
    <2>2. RequestsOK'
      BY <1>14 DEF Wipe, RequestsOK, Request, NoRequest
    <2>3. SettingsOK'
      BY <1>14 DEF Wipe, SettingsOK
    <2>4. CountersOK'
      BY <1>14, SpendType DEF Wipe, CountersOK
    <2> QED BY <1>14, <2>1, <2>2, <2>3, <2>4 DEF Wipe, work, WorkOK, ExchangesOK
  <1> QED BY <1>1, <1>2, <1>3, <1>4, <1>5, <1>6, <1>7, <1>8, <1>9, <1>10, <1>11,
             <1>12, <1>13, <1>14 DEF Upkeep

\* Requests answered or lost.
LEMMA TransitType ==
  ASSUME TypeOK, Transit
  PROVE  TypeOK'
  <1> USE DEF TypeOK
  <1>m. ASSUME NEW m \in net
        PROVE  /\ m \in Messages /\ m.from \in Side /\ m.secret \in Nat /\ m.epoch \in Nat
               /\ Other(m.from) \in Side
               /\ GoodRow(peer[Other(m.from)]) /\ peer[Other(m.from)] \in PeerRows
    BY OtherSide, PeerGood DEF ExchangesOK, Messages, GoodRow
  <1>1. ASSUME NEW lost \in BOOLEAN, NEW m \in net, AcceptHandshake(m, lost)
        PROVE  TypeOK'
    <2> DEFINE s == Other(m.from)
               row == IF peer[s].status = "none"
                      THEN NewRow("active", "null", m.secret, "remote", m.epoch)
                      ELSE Activated(peer[s], m.secret, m.epoch)
    <2>1. GoodRow(row)
      BY <1>m, NewRowGood, ActivatedGood DEF Status, ReasonsOf
    <2>2. RowsOK'
      BY <1>1, <1>m, <2>1, WriteType DEF AcceptHandshake
    <2>3. RequestsOK'
      BY <1>1 DEF AcceptHandshake, RequestsOK, Request, NoRequest
    <2>4. WorkOK'
      BY <1>1 DEF AcceptHandshake, WorkOK, Denials
    <2>5. ExchangesOK' /\ CountersOK'
      BY <1>1, AnswerType DEF AcceptHandshake, Answers, CountersOK
    <2> QED BY <1>1, <2>2, <2>3, <2>4, <2>5 DEF AcceptHandshake, settings, SettingsOK
  <1>2. ASSUME NEW lost \in BOOLEAN, NEW m \in net, QueueHandshake(m, lost)
        PROVE  TypeOK'
    <2> DEFINE token == CHOOSE t \in Tokens : t \notin TokensInUse
               request == [open |-> TRUE, secret |-> m.secret, token |-> token]
    <2>1. token \in Nat
      <3>1. PICK t \in Tokens : t \notin TokensInUse
        BY <1>2 DEF QueueHandshake
      <3>2. token \in Tokens
        BY <3>1
      <3> QED BY <3>2, BoundsAssumption DEF Tokens
    <2>2. request \in Request
      BY <1>m, <2>1 DEF Request
    <2>3. RequestsOK'
      BY <1>2, <1>m, <2>2 DEF QueueHandshake, RequestsOK
    <2>4. Answer(m, "queued", token, lost, {})
      BY <1>2 DEF QueueHandshake
    <2>5. ExchangesOK' /\ CountersOK'
      BY <1>2, <2>1, <2>4, AnswerType DEF QueueHandshake, Answers, CountersOK
    <2> QED BY <1>2, <2>3, <2>5 DEF QueueHandshake, rows, work, settings, RowsOK,
               WorkOK, SettingsOK
  <1>3. ASSUME NEW lost \in BOOLEAN, NEW m \in net, RefuseHandshake(m, lost)
        PROVE  TypeOK'
    <2>1. GoodRow(Move(peer[Other(m.from)], "needs_attention", "peer_reset_detected"))
      BY <1>m, MoveGood DEF Status, ReasonsOf, AttentionReasons
    <2>2. RowsOK'
      BY <1>3, <1>m, <2>1, WriteType DEF RefuseHandshake, rows, RowsOK
    <2>3. PICK answer \in {"exists", "revoked", "denied", "in_progress"} :
            Answer(m, answer, 0, lost, {})
      BY <1>3 DEF RefuseHandshake
    <2>4. ExchangesOK' /\ CountersOK'
      BY <1>3, <2>3, AnswerType DEF RefuseHandshake, Answers, CountersOK
    <2> QED BY <1>3, <2>2, <2>4 DEF RefuseHandshake, requests, work, settings,
               RequestsOK, WorkOK, SettingsOK
  <1>4. ASSUME NEW m \in net, LoseRequest(m)
        PROVE  TypeOK'
    <2>1. CountersOK'
      BY <1>4, SpendType DEF LoseRequest, CountersOK
    <2> QED BY <1>4, <2>1 DEF LoseRequest, rows, requests, work, settings, RowsOK,
               RequestsOK, WorkOK, ExchangesOK, SettingsOK
  <1> QED BY <1>1, <1>2, <1>3, <1>4 DEF Transit

\* A stuttering step changes nothing.
LEMMA TypeStutter ==
  ASSUME TypeOK, UNCHANGED vars
  PROVE  TypeOK'
  BY DEF vars, rows, requests, work, settings, TypeOK, RowsOK, RequestsOK, WorkOK,
         ExchangesOK, SettingsOK, CountersOK

\* Every variable keeps its shape, and every row a reason its status allows.
THEOREM TypeCorrect == Spec => []TypeOK
  <1>1. TypeOK /\ [Next]_vars => TypeOK'
    BY LocalType, SettleType, ApprovalsType, UpkeepType, TransitType, TypeStutter
       DEF Next
  <1> QED BY TypeInit, <1>1, PTL DEF Spec

-----------------------------------------------------------------------------
(* With auto-accept off for good, every row is an admin's *)

AdminRow(row) == row.status # "none" => row.by = "admin"

\* GatedByAdmin is not inductive: a failed exchange with the policy
\* release_to_traffic gives its row to traffic.  It is only ever started on a
\* row of traffic's, which a gated side has none of.
GatedPolicies ==
  \A s \in Gated : ~autoAccept[s] /\ hs[s].onFailure # "release_to_traffic"

GatedInv == TypeOK /\ GatedByAdmin /\ GatedPolicies

\* Moving or activating a row keeps its provenance.
LEMMA MoveKeepsBy ==
  ASSUME NEW row \in PeerRows, NEW status, NEW reason, NEW secret, NEW e
  PROVE  /\ Move(row, status, reason).by = row.by
         /\ Move(row, status, reason).status = status
         /\ Activated(row, secret, e).by = row.by
  BY DEF Move, Activated, PeerRows

\* A side writes an admin's row, or is not gated.
LEMMA WriteGated ==
  ASSUME GatedInv, NEW s \in Side, NEW row, WritePeer(s, row),
         s \in Gated => AdminRow(row)
  PROVE  GatedByAdmin'
  BY GatedAssumption DEF GatedInv, GatedPolicies, TypeOK, RowsOK, WritePeer, AdminRow, GatedByAdmin

\* A gated side starts no exchange with release_to_traffic.
LEMMA SendGated ==
  ASSUME GatedInv, NEW s \in Side, NEW mode, NEW secret, NEW onFailure, NEW token,
         Send(s, mode, secret, onFailure, token),
         s \in Gated => onFailure # "release_to_traffic"
  PROVE  \A x \in Gated : hs'[x].onFailure # "release_to_traffic"
  BY GatedAssumption DEF GatedInv, GatedPolicies, TypeOK, ExchangesOK, Exchange, Send, NoExchange

\* An exchange that ends leaves an admin's row, if its side is gated.
LEMMA FinishGated ==
  ASSUME GatedInv, NEW s \in Side, NEW row \in PeerRows, Finish(s, row),
         s \in Gated => AdminRow(row)
  PROVE  GatedByAdmin' /\ GatedPolicies'
  <1> DEFINE final ==
        IF /\ hs[s].onFailure = "repark"
           /\ row.status # "none" /\ row.id = hs[s].secret
           /\ row.status = "pending"
        THEN Move(row, "rejected", "stale_peering_on_remote") ELSE row
  <1>1. s \in Gated => AdminRow(final)
    BY MoveKeepsBy DEF AdminRow
  <1>2. WritePeer(s, final)
    BY DEF Finish
  <1>3. GatedByAdmin'
    BY <1>1, <1>2, WriteGated
  <1>4. \A x \in Gated : hs'[x].onFailure # "release_to_traffic"
    BY GatedAssumption DEF Finish, NoExchange, GatedInv, GatedPolicies, TypeOK, ExchangesOK
  <1>5. UNCHANGED autoAccept
    BY DEF Finish, settings
  <1> QED BY <1>3, <1>4, <1>5 DEF GatedInv, GatedPolicies

\* Nothing else of an exchange touches its policy.
LEMMA AnswerGated ==
  ASSUME GatedInv, NEW m \in net, NEW answer, NEW token, NEW lost, NEW cleared,
         Answer(m, answer, token, lost, cleared)
  PROVE  \A x \in Gated : hs'[x].onFailure # "release_to_traffic"
  <1> SUFFICES ASSUME NEW x \in Gated
               PROVE  hs'[x].onFailure = hs[x].onFailure
    BY DEF GatedInv, GatedPolicies
  <1>1. x \in Side /\ hs[x] \in Exchange
    BY GatedAssumption DEF GatedInv, GatedPolicies, TypeOK, ExchangesOK
  <1> QED BY <1>1 DEF Answer, Exchange

\* Local traffic makes no row on a gated side; an admin's handshake makes an
\* admin's row.
LEMMA LocalGated ==
  ASSUME GatedInv, NEW s \in Side, Local(s)
  PROVE  GatedByAdmin' /\ GatedPolicies'
  <1>p. /\ peer[s] \in PeerRows
        /\ s \in Gated => AdminRow(peer[s]) /\ ~autoAccept[s]
    BY DEF GatedInv, GatedPolicies, TypeOK, RowsOK, GatedByAdmin, AdminRow
  <1>n. AdminRow(NoRow)
    BY DEF AdminRow, NoRow
  <1>a. UNCHANGED autoAccept
    BY DEF Local, QueueEvent, EmptyQueue, OutboundGate, EnsurePeered,
           ResolvePendingPeer, AdminHandshake, ApproveEstablished, settings
  <1>k. ASSUME GatedByAdmin', UNCHANGED hs
        PROVE  GatedByAdmin' /\ GatedPolicies'
    BY <1>a, <1>k DEF GatedInv, GatedPolicies
  <1>1. CASE QueueEvent(s)
    <2>1. AdminRow(peer[s]) => AdminRow([peer[s] EXCEPT !.queued = TRUE])
      BY <1>p DEF AdminRow, PeerRows
    <2> QED BY <1>1, <1>p, <1>k, <2>1, WriteGated DEF QueueEvent
  <1>2. CASE EmptyQueue(s)
    <2>1. AdminRow(peer[s]) => AdminRow([peer[s] EXCEPT !.queued = FALSE])
      BY <1>p DEF AdminRow, PeerRows
    <2> QED BY <1>2, <1>p, <1>k, <2>1, WriteGated DEF EmptyQueue
  <1>3. ASSUME NEW intent, OutboundGate(s, intent)
        PROVE  GatedByAdmin' /\ GatedPolicies'
    BY <1>3, <1>n, <1>k, WriteGated DEF OutboundGate
  <1>4. ASSUME EnsurePeered(s)
        PROVE  GatedByAdmin' /\ GatedPolicies'
    <2>1. \A x \in Gated : hs'[x].onFailure # "release_to_traffic"
      BY <1>4, SendGated DEF EnsurePeered
    <2>2. CASE UNCHANGED rows
      BY <1>a, <2>1, <2>2 DEF rows, GatedInv, GatedPolicies, GatedByAdmin
    <2>3. CASE s \notin Gated /\ \E row : WritePeer(s, row)
      BY <1>a, <2>1, <2>3, WriteGated DEF GatedInv, GatedPolicies
    <2>4. s \in Gated => peer[s].status # "none"
      BY <1>4, <1>p DEF EnsurePeered, GateRefuses
    <2> QED BY <1>4, <2>2, <2>3, <2>4 DEF EnsurePeered
  <1>5. CASE ResolvePendingPeer(s)
    BY <1>5, <1>3, <1>4 DEF ResolvePendingPeer
  <1>6. ASSUME NEW mode \in AdminModes, AdminHandshake(s, mode)
        PROVE  GatedByAdmin' /\ GatedPolicies'
    <2>1. AdminRow([peer[s] EXCEPT !.by = "admin"])
      BY <1>p DEF AdminRow, PeerRows
    <2>2. AdminRow(NewRow("pending", "null", fresh + 1, "admin", 0))
      BY DEF AdminRow, NewRow, NoRow
    <2>3. GatedByAdmin'
      BY <1>6, <2>1, <2>2, WriteGated DEF AdminHandshake, rows, GatedByAdmin, GatedInv, GatedPolicies
    <2>4. s \in Gated => ~(peer[s].status = "pending" /\ peer[s].by = "auto")
      BY <1>p DEF AdminRow
    <2>5. \A x \in Gated : hs'[x].onFailure # "release_to_traffic"
      BY <1>6, <2>4, SendGated DEF AdminHandshake
    <2> QED BY <1>a, <2>3, <2>5 DEF GatedInv, GatedPolicies
  <1>7. CASE ApproveEstablished(s)
    <2>1. GatedByAdmin' /\ UNCHANGED hs
      BY <1>7 DEF ApproveEstablished, rows, GatedByAdmin, GatedInv, GatedPolicies
    <2> QED BY <2>1, <1>k
  <1> QED BY <1>1, <1>2, <1>3, <1>4, <1>5, <1>6, <1>7 DEF Local

\* A settled exchange keeps its row's provenance, unless its policy says
\* otherwise.
LEMMA SettleGated ==
  ASSUME GatedInv, NEW s \in Side, Settle(s)
  PROVE  GatedByAdmin' /\ GatedPolicies'
  <1>p. /\ peer[s] \in PeerRows
        /\ s \in Gated => AdminRow(peer[s]) /\ hs[s].onFailure # "release_to_traffic"
        /\ hs[s].secret \in Nat /\ hs[s].epoch \in Nat /\ hs[s].token \in Nat
    BY DEF GatedInv, GatedPolicies, TypeOK, RowsOK, GatedByAdmin, AdminRow, ExchangesOK, Exchange
  <1>k. ASSUME NEW row, GoodRow(row), Finish(s, row), s \in Gated => AdminRow(row)
        PROVE  GatedByAdmin' /\ GatedPolicies'
    BY <1>k, FinishGated DEF GoodRow
  <1>g. GoodRow(peer[s])
    BY PeerGood DEF GatedInv, GatedPolicies
  <1>v. ASSUME AdminRow(peer[s]), peer[s].status # "none"
        PROVE  AdminRow(Activated(peer[s], hs[s].secret, hs[s].epoch))
    BY <1>v, <1>p, MoveKeepsBy DEF AdminRow
  <1>vg. GoodRow(Activated(peer[s], hs[s].secret, hs[s].epoch))
    BY <1>p, ActivatedGood
  <1>1. CASE SettleQueued(s)
    <2> DEFINE row == [Move(peer[s], "awaiting_approval", "null") EXCEPT !.token = hs[s].token]
    <2>1. GoodRow(row) /\ row.by = peer[s].by
      BY <1>p DEF GoodRow, Move, PeerRows, Status, Reasons, ReasonsOf
    <2>2. Mine(s) /\ s \in Gated => AdminRow(row)
      BY <1>p, <2>1 DEF AdminRow, Mine
    <2> QED BY <1>1, <1>k, <1>p, <1>g, <2>1, <2>2 DEF SettleQueued
  <1>2. CASE SettleRefused(s)
    <2>1. \A r \in {"denied_by_remote", "revoked_by_remote"} :
            /\ GoodRow(Move(peer[s], "rejected", r))
            /\ Mine(s) /\ s \in Gated => AdminRow(Move(peer[s], "rejected", r))
      BY <1>p, MoveGood, MoveKeepsBy DEF Status, ReasonsOf, RemoteRejectedReasons, AdminRow, Mine
    <2> QED BY <1>2, <1>k, <1>p, <1>g, <2>1 DEF SettleRefused
  <1>3. CASE SettleInProgress(s)
    BY <1>3, <1>k, <1>p, <1>g DEF SettleInProgress
  <1>4. CASE GiveUp(s)
    <2>1. GoodRow([peer[s] EXCEPT !.by = "auto"])
      BY <1>g DEF GoodRow, PeerRows
    <2>2. AdminRow(NoRow)
      BY DEF AdminRow, NoRow
    <2>3. PICK row : GoodRow(row) /\ Finish(s, row) /\ (s \in Gated => AdminRow(row))
      BY <1>4, <1>p, <1>g, <2>1, <2>2, NoRowGood DEF GiveUp
    <2> QED BY <1>k, <2>3
  <1>5. CASE Verify(s)
    <2>1. \A x \in Gated : hs'[x].onFailure = hs[x].onFailure
      BY <1>5, GatedAssumption DEF Verify, GatedInv, GatedPolicies, TypeOK, ExchangesOK, Exchange
    <2> QED BY <1>5, <2>1 DEF Verify, rows, settings, GatedInv, GatedPolicies, GatedByAdmin
  <1>6. CASE SettleExists(s)
    <2>1. GoodRow(Move(peer[s], "rejected", "stale_peering_on_remote"))
      BY <1>p, MoveGood DEF Status, ReasonsOf, RemoteRejectedReasons
    <2>2. GoodRow(AfterExists(s))
      BY <1>g, <1>vg, <2>1 DEF AfterExists
    <2>3. s \in Gated => AdminRow(AfterExists(s))
      BY <1>p, <1>v, MoveKeepsBy DEF AfterExists, AdminRow, Mine
    <2> QED BY <1>6, <1>k, <2>2, <2>3 DEF SettleExists
  <1>7. CASE SettleAccepted(s)
    <2>1. GoodRow(Move(peer[s], "needs_attention", "repeer_incomplete"))
      BY <1>p, MoveGood DEF Status, ReasonsOf, AttentionReasons
    <2>2. GoodRow([peer[s] EXCEPT !.secret = hs[s].secret, !.epoch = hs[s].epoch])
      BY <1>g, <1>p DEF GoodRow, PeerRows
    <2>3. AdminRow(peer[s]) => AdminRow([peer[s] EXCEPT !.secret = hs[s].secret, !.epoch = hs[s].epoch])
      BY <1>p DEF AdminRow, PeerRows
    <2>4. GoodRow(AfterAccept(s))
      BY <1>g, <1>vg, <2>1, <2>2 DEF AfterAccept
    <2>5. s \in Gated => AdminRow(AfterAccept(s))
      BY <1>p, <1>v, <2>3, MoveKeepsBy DEF AfterAccept, AdminRow, Mine
    <2> QED BY <1>7, <1>k, <2>4, <2>5 DEF SettleAccepted
  <1> QED BY <1>1, <1>2, <1>3, <1>4, <1>5, <1>6, <1>7 DEF Settle

\* A denial makes an admin's row; an expiry makes none.
LEMMA ApprovalsGated ==
  ASSUME GatedInv, NEW s \in Side, Approvals(s)
  PROVE  GatedByAdmin' /\ GatedPolicies'
  <1>o. Other(s) \in Side
    BY OtherSide
  <1>p. \A x \in Side : peer[x] \in PeerRows /\ (x \in Gated => AdminRow(peer[x]))
    BY DEF GatedInv, TypeOK, RowsOK, GatedByAdmin, AdminRow
  <1>1. ASSUME NEW kind, NEW lost, DenyInbound(s, kind, lost)
        PROVE  GatedByAdmin' /\ GatedPolicies'
    <2>1. \A r : Other(s) \in Gated => AdminRow(Move(peer[Other(s)], "rejected", r))
      BY <1>1, <1>o, <1>p, MoveKeepsBy DEF DenyInbound, AdminRow
    <2>2. GatedByAdmin'
      BY <1>1, <1>o, <2>1, WriteGated DEF DenyInbound
    <2> QED BY <1>1, <2>2 DEF DenyInbound, settings, GatedInv, GatedPolicies
  <1>2. CASE SettleDenial(s)
    <2>1. AdminRow(NewRow("rejected", "denied_by_local_admin", deny[s].secret, "admin", 0))
      BY DEF AdminRow, NewRow, NoRow
    <2>2. /\ s \in Gated
          /\ peer[s].status \in {"pending", "awaiting_approval", "rejected"}
          => AdminRow(Move(peer[s], "rejected", "denied_by_local_admin"))
      BY <1>p, MoveKeepsBy DEF AdminRow
    <2>3. GatedByAdmin'
      BY <1>2, <2>1, <2>2, WriteGated DEF SettleDenial, rows, GatedInv, GatedByAdmin
    <2>4. \A x \in Gated : hs'[x].onFailure = hs[x].onFailure
      BY <1>2, GatedAssumption DEF SettleDenial, GatedInv, TypeOK, ExchangesOK, Exchange
    <2> QED BY <1>2, <2>3, <2>4 DEF SettleDenial, settings, GatedInv, GatedPolicies
  <1>3. ASSUME NEW kind, DropOutbound(s, kind)
        PROVE  GatedByAdmin' /\ GatedPolicies'
    BY <1>3 DEF DropOutbound, rows, settings, GatedInv, GatedByAdmin, GatedPolicies
  <1> QED BY <1>1, <1>2, <1>3 DEF Approvals

\* Upkeep moves rows and removes them; a gated side's setting stays off.
LEMMA UpkeepGated ==
  ASSUME GatedInv, NEW s \in Side, Upkeep(s)
  PROVE  GatedByAdmin' /\ GatedPolicies'
  <1>p. /\ peer[s] \in PeerRows /\ peer[s].status \in Status
        /\ s \in Gated => AdminRow(peer[s])
    BY DEF GatedInv, TypeOK, RowsOK, GatedByAdmin, AdminRow, PeerRows
  <1>n. AdminRow(NoRow)
    BY DEF AdminRow, NoRow
  <1>m. ASSUME NEW status, NEW reason, peer[s].status # "none", s \in Gated
        PROVE  AdminRow(Move(peer[s], status, reason))
    BY <1>m, <1>p, MoveKeepsBy DEF AdminRow
  <1>w. ASSUME NEW row, WritePeer(s, row), s \in Gated => AdminRow(row),
               UNCHANGED <<settings, hs>>
        PROVE  GatedByAdmin' /\ GatedPolicies'
    BY <1>w, WriteGated DEF settings, GatedInv, GatedPolicies
  <1>1. CASE ProbeParked(s)
    BY <1>1 DEF ProbeParked, rows, settings, GatedInv, GatedByAdmin, GatedPolicies
  <1>2. CASE SettleParked(s)
    <2>1. StillParked(s) /\ s \in Gated =>
            /\ AdminRow(Activated(peer[s], parked[s].secret, parked[s].epoch))
            /\ AdminRow(Move(peer[s], "pending", "null"))
      BY <1>p, MoveKeepsBy DEF StillParked, AdminRow
    <2>2. GatedByAdmin'
      BY <1>2, <1>n, <2>1, WriteGated DEF SettleParked, rows, GatedInv, GatedByAdmin
    <2>3. \A x \in Gated : hs'[x].onFailure # "release_to_traffic"
      BY <1>2, SendGated DEF SettleParked, GatedInv, GatedPolicies
    <2> QED BY <1>2, <2>2, <2>3 DEF SettleParked, settings, GatedInv, GatedPolicies
  <1>3. CASE Revoke(s)
    BY <1>3, <1>m, <1>w DEF Revoke, Decide
  <1>4. CASE ResetPeer(s) \/ DeletePermanently(s) \/ CleanupUnusedPending(s)
    BY <1>4, <1>n, <1>w DEF ResetPeer, DeletePermanently, CleanupUnusedPending, Decide
  <1>5. CASE ToggleAutoAccept(s)
    BY <1>5 DEF ToggleAutoAccept, rows, GatedInv, GatedByAdmin, GatedPolicies, TypeOK,
                SettingsOK
  <1>6. CASE AuthRefusal(s) \/ MarkUnreachable(s) \/ Recover(s) \/ DetectReset(s)
    BY <1>6, <1>m, <1>w DEF AuthRefusal, MarkUnreachable, Recover, DetectReset
  <1>7. CASE FanOut(s)
    BY <1>7 DEF FanOut, settings, GatedInv, GatedByAdmin, GatedPolicies
  <1>8. CASE Crash(s)
    <2>1. \A x \in Gated : hs'[x].onFailure # "release_to_traffic"
      BY <1>8, GatedAssumption DEF Crash, NoExchange, GatedInv, GatedPolicies, TypeOK,
         ExchangesOK
    <2> QED BY <1>8, <2>1 DEF Crash, settings, GatedInv, GatedByAdmin, GatedPolicies
  <1>9. CASE Wipe(s)
    <2>1. \A x \in Gated : autoAccept'[x] = autoAccept[x] /\ peer'[x] = peer[x]
      BY <1>9, GatedAssumption DEF Wipe, GatedInv, TypeOK, SettingsOK, RowsOK
    <2> QED BY <1>9, <2>1, GatedAssumption DEF Wipe, GatedInv, GatedByAdmin, GatedPolicies
  <1> QED BY <1>1, <1>2, <1>3, <1>4, <1>5, <1>6, <1>7, <1>8, <1>9 DEF Upkeep

\* A remote's handshake makes no row on a gated side.
LEMMA TransitGated ==
  ASSUME GatedInv, Transit
  PROVE  GatedByAdmin' /\ GatedPolicies'
  <1>m. ASSUME NEW m \in net
        PROVE  /\ Other(m.from) \in Side /\ peer[Other(m.from)] \in PeerRows
               /\ Other(m.from) \in Gated =>
                    AdminRow(peer[Other(m.from)]) /\ ~autoAccept[Other(m.from)]
    BY OtherSide DEF GatedInv, GatedPolicies, TypeOK, ExchangesOK, Messages, RowsOK,
       GatedByAdmin, AdminRow
  <1>1. ASSUME NEW lost, NEW m \in net, AcceptHandshake(m, lost)
        PROVE  GatedByAdmin' /\ GatedPolicies'
    <2> DEFINE s == Other(m.from)
               row == IF peer[s].status = "none"
                      THEN NewRow("active", "null", m.secret, "remote", m.epoch)
                      ELSE Activated(peer[s], m.secret, m.epoch)
    <2>1. s \in Gated => peer[s].status # "none"
      BY <1>1, <1>m DEF AcceptHandshake, Decision, DecideInbound
    <2>2. s \in Gated => AdminRow(row)
      BY <1>m, <2>1, MoveKeepsBy DEF AdminRow
    <2>3. WritePeer(s, row)
      BY <1>1 DEF AcceptHandshake
    <2>4. GatedByAdmin'
      BY <1>m, <2>2, <2>3, WriteGated
    <2>5. \A x \in Gated : hs'[x].onFailure # "release_to_traffic"
      BY <1>1, AnswerGated DEF AcceptHandshake
    <2> QED BY <1>1, <2>4, <2>5 DEF AcceptHandshake, settings, GatedInv, GatedPolicies
  <1>2. ASSUME NEW lost, NEW m \in net, QueueHandshake(m, lost)
        PROVE  GatedByAdmin' /\ GatedPolicies'
    <2>1. \A x \in Gated : hs'[x].onFailure # "release_to_traffic"
      BY <1>2, AnswerGated DEF QueueHandshake
    <2> QED BY <1>2, <2>1 DEF QueueHandshake, rows, settings, GatedInv, GatedByAdmin,
               GatedPolicies
  <1>3. ASSUME NEW lost, NEW m \in net, RefuseHandshake(m, lost)
        PROVE  GatedByAdmin' /\ GatedPolicies'
    <2> DEFINE s == Other(m.from)
    <2>1. s \in Gated /\ Decision(s, m) = "refuse_exists" =>
            AdminRow(Move(peer[s], "needs_attention", "peer_reset_detected"))
      BY <1>m, MoveKeepsBy DEF AdminRow, Decision, DecideInbound, AcceptUncompleted,
         Established
    <2>2. GatedByAdmin'
      BY <1>3, <1>m, <2>1, WriteGated DEF RefuseHandshake, rows, GatedInv, GatedByAdmin
    <2>3. \A x \in Gated : hs'[x].onFailure # "release_to_traffic"
      BY <1>3, AnswerGated DEF RefuseHandshake
    <2> QED BY <1>3, <2>2, <2>3 DEF RefuseHandshake, settings, GatedInv, GatedPolicies
  <1>4. ASSUME NEW m \in net, LoseRequest(m)
        PROVE  GatedByAdmin' /\ GatedPolicies'
    BY <1>4 DEF LoseRequest, rows, settings, GatedInv, GatedByAdmin, GatedPolicies
  <1> QED BY <1>1, <1>2, <1>3, <1>4 DEF Transit

\* An instance whose admin never turns auto-accept on has a peer row only where
\* its admin asked for one, refused one or approved one.
THEOREM GatedCorrect == Spec => []GatedByAdmin
  <1>1. Init => GatedByAdmin /\ GatedPolicies
    <2> SUFFICES ASSUME Init, NEW s \in Gated
                 PROVE  /\ peer[s].status = "none"
                        /\ ~autoAccept[s] /\ hs[s].onFailure # "release_to_traffic"
      BY DEF GatedByAdmin, GatedPolicies
    <2>1. s \in Side
      BY GatedAssumption
    <2>2. peer[s] = NoRow /\ hs[s] = NoExchange
      BY <2>1 DEF Init
    <2>3. autoAccept[s] = (s \notin Gated)
      BY <2>1 DEF Init
    <2>4. ~autoAccept[s]
      BY <2>3
    <2> QED BY <2>2, <2>4 DEF NoRow, NoExchange
  <1>2. TypeOK /\ GatedByAdmin /\ GatedPolicies /\ [Next]_vars
        => (GatedByAdmin /\ GatedPolicies)'
    <2> SUFFICES ASSUME GatedInv, [Next]_vars
                 PROVE  GatedByAdmin' /\ GatedPolicies'
      BY DEF GatedInv
    <2>1. CASE UNCHANGED vars
      BY <2>1 DEF vars, rows, settings, GatedInv, GatedByAdmin, GatedPolicies
    <2> QED BY <2>1, LocalGated, SettleGated, ApprovalsGated, UpkeepGated, TransitGated
            DEF Next
  <1> QED BY TypeCorrect, <1>1, <1>2, PTL DEF Spec
-----------------------------------------------------------------------------
(* A refused peering holds no mail *)

Calm(row) == row.queued => row.status \notin {"none", "rejected", "revoked"}

\* The rows the operators build: a move into a refused status purges, one within it
\* has nothing to purge.
LEMMA RowsCalm ==
  ASSUME NEW row \in PeerRows, Calm(row), NEW status \in Status \ {"none"}, NEW reason,
         NEW secret, NEW e, NEW by
  PROVE  /\ Calm(NoRow)
         /\ Calm(NewRow(status, reason, secret, by, e))
         /\ Calm(Move(row, status, reason))
         /\ Calm(Activated(row, secret, e))
         /\ \A token : Calm([Move(row, status, reason) EXCEPT !.token = token])
  BY DEF Calm, NoRow, NewRow, Move, Activated, PeerRows

\* A side that writes a calm row leaves the other side's alone.
LEMMA WriteCalm ==
  ASSUME TypeOK, RefusedHoldNoMail, NEW s \in Side, NEW row, Calm(row), WritePeer(s, row)
  PROVE  RefusedHoldNoMail'
  BY DEF TypeOK, RowsOK, RefusedHoldNoMail, WritePeer, Calm

\* An exchange ends with the row it is given, or parks that row.
LEMMA FinishCalm ==
  ASSUME TypeOK, RefusedHoldNoMail, NEW s \in Side, NEW row \in PeerRows, Calm(row),
         Finish(s, row)
  PROVE  RefusedHoldNoMail'
  <1>1. Calm(Move(row, "rejected", "stale_peering_on_remote"))
    BY RowsCalm DEF Status
  <1> QED BY <1>1, WriteCalm DEF Finish

\* A row that is not written is as calm as before.
LEMMA SameCalm ==
  ASSUME RefusedHoldNoMail, UNCHANGED peer
  PROVE  RefusedHoldNoMail'
  BY DEF RefusedHoldNoMail

\* One step purges whatever it refuses.
LEMMA StepCalm ==
  ASSUME TypeOK, RefusedHoldNoMail, Next
  PROVE  RefusedHoldNoMail'
<1>t. ASSUME NEW s \in Side
      PROVE  /\ peer[s] \in PeerRows /\ Calm(peer[s]) /\ peer[s].status \in Status
             /\ Calm(NoRow) /\ NoRow \in PeerRows /\ Other(s) \in Side
  BY OtherSide, NoRowGood DEF TypeOK, RowsOK, RefusedHoldNoMail, Calm, PeerRows, GoodRow, NoRow
<1>m. ASSUME NEW s \in Side, NEW status \in Status \ {"none"}
      PROVE  /\ \A reason : Calm(Move(peer[s], status, reason))
             /\ \A reason, token : Calm([Move(peer[s], status, reason) EXCEPT !.token = token])
             /\ \A secret, e : Calm(Activated(peer[s], secret, e))
             /\ \A reason, secret, by, e : Calm(NewRow(status, reason, secret, by, e))
  BY <1>t, RowsCalm
<1>s. {"pending", "active", "unreachable", "needs_attention", "rejected", "revoked",
       "awaiting_approval"} \subseteq Status \ {"none"}
  BY DEF Status
<1>1. ASSUME NEW s \in Side, Local(s) PROVE RefusedHoldNoMail'
  <2>1. CASE QueueEvent(s)
    <3>1. peer[s].status \in {"active", "pending", "unreachable"} =>
            Calm([peer[s] EXCEPT !.queued = TRUE])
      BY <1>t DEF Calm, PeerRows
    <3>2. Calm([NewRow("pending", "null", fresh + 1, "auto", 0) EXCEPT !.queued = TRUE])
      BY DEF Calm, NewRow, NoRow
    <3> QED BY <2>1, <3>1, <3>2, WriteCalm DEF QueueEvent
  <2>2. CASE EmptyQueue(s)
    <3>1. Calm([peer[s] EXCEPT !.queued = FALSE])
      BY <1>t DEF Calm, PeerRows
    <3> QED BY <2>2, <3>1, WriteCalm DEF EmptyQueue
  <2>3. ASSUME NEW intent, OutboundGate(s, intent) PROVE RefusedHoldNoMail'
    BY <2>3, <1>t, WriteCalm DEF OutboundGate
  <2>4. ASSUME EnsurePeered(s) PROVE RefusedHoldNoMail'
    BY <2>4, <1>m, <1>s, WriteCalm, SameCalm DEF EnsurePeered, rows
  <2>5. CASE ResolvePendingPeer(s)
    BY <2>5, <2>3, <2>4 DEF ResolvePendingPeer
  <2>6. ASSUME NEW mode, AdminHandshake(s, mode) PROVE RefusedHoldNoMail'
    <3>1. Calm([peer[s] EXCEPT !.by = "admin"])
      BY <1>t DEF Calm, PeerRows
    <3> QED BY <2>6, <3>1, <1>m, <1>s, WriteCalm, SameCalm DEF AdminHandshake, rows
  <2>7. CASE ApproveEstablished(s)
    BY <2>7, SameCalm DEF ApproveEstablished, rows
  <2> QED BY <1>1, <2>1, <2>2, <2>3, <2>4, <2>5, <2>6, <2>7 DEF Local
<1>2. ASSUME NEW s \in Side, Settle(s) PROVE RefusedHoldNoMail'
  <2>h. hs[s].secret \in Nat /\ hs[s].epoch \in Nat /\ hs[s].token \in Nat
    BY DEF TypeOK, ExchangesOK, Exchange
  <2>g. GoodRow(peer[s])
    BY PeerGood
  <2>k. ASSUME NEW row, Finish(s, row), GoodRow(row), Calm(row) PROVE RefusedHoldNoMail'
    BY <2>k, FinishCalm DEF GoodRow
  <2>1. CASE SettleQueued(s)
    <3>0. GoodRow(Move(peer[s], "awaiting_approval", "null"))
      BY <1>t, MoveGood DEF Status, ReasonsOf
    <3>1. GoodRow([Move(peer[s], "awaiting_approval", "null") EXCEPT !.token = hs[s].token])
      BY <2>h, <3>0 DEF GoodRow, PeerRows
    <3> QED BY <2>1, <2>g, <2>k, <3>1, <1>t, <1>m, <1>s DEF SettleQueued
  <2>2. CASE SettleRefused(s)
    <3>1. \A r \in {"denied_by_remote", "revoked_by_remote"} :
            GoodRow(Move(peer[s], "rejected", r))
      BY <1>t, MoveGood DEF Status, ReasonsOf, RemoteRejectedReasons
    <3> QED BY <2>2, <2>g, <2>k, <3>1, <1>t, <1>m, <1>s DEF SettleRefused
  <2>3. CASE SettleInProgress(s)
    BY <2>3, <2>g, <2>k, <1>t DEF SettleInProgress
  <2>4. CASE GiveUp(s)
    <3>1. GoodRow([peer[s] EXCEPT !.by = "auto"]) /\ Calm([peer[s] EXCEPT !.by = "auto"])
      BY <1>t, <2>g DEF GoodRow, PeerRows, Calm
    <3>2. PICK row : GoodRow(row) /\ Calm(row) /\ Finish(s, row)
      BY <2>4, <1>t, <2>g, <3>1, NoRowGood DEF GiveUp
    <3> QED BY <2>k, <3>2
  <2>5. CASE Verify(s)
    BY <2>5, SameCalm DEF Verify, rows
  <2>a. /\ GoodRow(Activated(peer[s], hs[s].secret, hs[s].epoch))
        /\ Calm(Activated(peer[s], hs[s].secret, hs[s].epoch))
    BY <1>t, <1>m, <1>s, <2>h, ActivatedGood
  <2>6. CASE SettleExists(s)
    <3>1. GoodRow(Move(peer[s], "rejected", "stale_peering_on_remote"))
      BY <1>t, MoveGood DEF Status, ReasonsOf, RemoteRejectedReasons
    <3>2. GoodRow(AfterExists(s)) /\ Calm(AfterExists(s))
      BY <2>g, <2>a, <3>1, <1>t, <1>m, <1>s DEF AfterExists
    <3> QED BY <2>6, <2>k, <3>2 DEF SettleExists
  <2>7. CASE SettleAccepted(s)
    <3>1. GoodRow(Move(peer[s], "needs_attention", "repeer_incomplete"))
      BY <1>t, MoveGood DEF Status, ReasonsOf, AttentionReasons
    <3> DEFINE both == [peer[s] EXCEPT !.secret = hs[s].secret, !.epoch = hs[s].epoch]
    <3>2. GoodRow(both) /\ Calm(both)
      BY <1>t, <2>g, <2>h DEF GoodRow, PeerRows, Calm
    <3>3. GoodRow(AfterAccept(s)) /\ Calm(AfterAccept(s))
      BY <2>g, <2>a, <3>1, <3>2, <1>t, <1>m, <1>s DEF AfterAccept
    <3> QED BY <2>7, <2>k, <3>3 DEF SettleAccepted
  <2> QED BY <1>2, <2>1, <2>2, <2>3, <2>4, <2>5, <2>6, <2>7 DEF Settle
<1>3. ASSUME NEW s \in Side, Approvals(s) PROVE RefusedHoldNoMail'
  <2>1. ASSUME NEW kind, NEW lost, DenyInbound(s, kind, lost) PROVE RefusedHoldNoMail'
    <3>1. Other(s) \in Side /\ \A r : Calm(Move(peer[Other(s)], "rejected", r))
      BY <1>t, <1>m, <1>s
    <3> QED BY <2>1, <3>1, WriteCalm DEF DenyInbound
  <2>2. CASE SettleDenial(s)
    BY <2>2, <1>m, <1>s, WriteCalm, SameCalm DEF SettleDenial, rows
  <2>3. ASSUME NEW kind, DropOutbound(s, kind) PROVE RefusedHoldNoMail'
    BY <2>3, SameCalm DEF DropOutbound, rows
  <2> QED BY <1>3, <2>1, <2>2, <2>3 DEF Approvals
<1>4. ASSUME NEW s \in Side, Upkeep(s) PROVE RefusedHoldNoMail'
  <2>m. /\ Calm(Move(peer[s], "pending", "null")) /\ Calm(Move(peer[s], "revoked", "null"))
        /\ Calm(Move(peer[s], "active", "null")) /\ Calm(Move(peer[s], "unreachable", "null"))
        /\ \A r : Calm(Move(peer[s], "needs_attention", r))
        /\ \A secret, e : Calm(Activated(peer[s], secret, e))
    BY <1>m, <1>s
  <2>1. CASE ProbeParked(s)
    BY <2>1, SameCalm DEF ProbeParked, rows
  <2>2. CASE SettleParked(s)
    BY <2>2, <2>m, <1>t, WriteCalm, SameCalm DEF SettleParked, rows
  <2>3. CASE Revoke(s)
    BY <2>3, <2>m, WriteCalm DEF Revoke, Decide
  <2>4. CASE ResetPeer(s) \/ DeletePermanently(s) \/ CleanupUnusedPending(s)
    BY <2>4, <1>t, WriteCalm DEF ResetPeer, DeletePermanently, CleanupUnusedPending, Decide
  <2>5. CASE AuthRefusal(s) \/ MarkUnreachable(s) \/ Recover(s) \/ DetectReset(s)
    BY <2>5, <2>m, WriteCalm DEF AuthRefusal, MarkUnreachable, Recover, DetectReset
  <2>6. CASE ToggleAutoAccept(s) \/ FanOut(s) \/ Crash(s)
    BY <2>6, SameCalm DEF ToggleAutoAccept, FanOut, Crash, rows
  <2>7. CASE Wipe(s)
    BY <2>7 DEF Wipe, TypeOK, RowsOK, RefusedHoldNoMail, NoRow
  <2> QED BY <1>4, <2>1, <2>2, <2>3, <2>4, <2>5, <2>6, <2>7 DEF Upkeep
<1>5. ASSUME Transit PROVE RefusedHoldNoMail'
  <2>m. ASSUME NEW m \in net PROVE Other(m.from) \in Side
    BY OtherSide DEF TypeOK, ExchangesOK, Messages
  <2>1. ASSUME NEW lost, NEW m \in net, AcceptHandshake(m, lost) PROVE RefusedHoldNoMail'
    BY <2>1, <2>m, <1>m, <1>s, WriteCalm DEF AcceptHandshake
  <2>2. ASSUME NEW lost, NEW m \in net, QueueHandshake(m, lost) PROVE RefusedHoldNoMail'
    BY <2>2, SameCalm DEF QueueHandshake, rows
  <2>3. ASSUME NEW lost, NEW m \in net, RefuseHandshake(m, lost) PROVE RefusedHoldNoMail'
    BY <2>3, <2>m, <1>m, <1>s, WriteCalm, SameCalm DEF RefuseHandshake, rows
  <2>4. ASSUME NEW m \in net, LoseRequest(m) PROVE RefusedHoldNoMail'
    BY <2>4, SameCalm DEF LoseRequest, rows
  <2> QED BY <1>5, <2>1, <2>2, <2>3, <2>4 DEF Transit
<1> QED BY <1>1, <1>2, <1>3, <1>4, <1>5 DEF Next

\* A row that is refused, or gone, never holds queued mail: whoever refuses it, and
\* whichever exchange, probe or denial was under way, its outbox went with the move.
THEOREM RefusedMailCorrect == Spec => []RefusedHoldNoMail
<1>1. Init => RefusedHoldNoMail
  BY DEF Init, RefusedHoldNoMail, NoRow
<1>2. TypeOK /\ RefusedHoldNoMail /\ [Next]_vars => RefusedHoldNoMail'
  BY StepCalm DEF vars, rows, RefusedHoldNoMail
<1> QED BY <1>1, <1>2, TypeCorrect, PTL DEF Spec

-----------------------------------------------------------------------------
(* Which secrets an established row may hold.  RowStep says how one step     *)
(* changes a row's secret, and the theorems follow from it and from where    *)
(* the secrets in transit come from.                                         *)

Working == {"active", "unreachable"}

\* What a step makes of a side's row: no established one, one that keeps its
\* secret, one that takes the secret of the other side's request, or one that
\* takes a secret the other side has verifiably held.
RowStep(s) ==
  \/ peer'[s].status \notin Established
  \/ /\ peer'[s].secret = peer[s].secret
     /\ peer'[s].status \in Working => peer[s].status \in Working
  \/ /\ peer[s].status \notin Established
     /\ \E m \in net : m.from = Other(s) /\ peer'[s].secret = m.secret
  \/ hs[s].probe = "verified" /\ peer'[s].secret = hs[s].secret
  \/ /\ peer[s].status = "rejected"
     /\ parked[s].probe = "verified" /\ peer'[s].secret = parked[s].secret

\* RowStep for a step that writes `row'.
RowChange(s, row) ==
  \/ row.status \notin Established
  \/ /\ row.secret = peer[s].secret
     /\ row.status \in Working => peer[s].status \in Working
  \/ /\ peer[s].status \notin Established
     /\ \E m \in net : m.from = Other(s) /\ row.secret = m.secret
  \/ hs[s].probe = "verified" /\ row.secret = hs[s].secret
  \/ /\ peer[s].status = "rejected"
     /\ parked[s].probe = "verified" /\ row.secret = parked[s].secret

AllRowSteps == \A x \in Side : RowStep(x)

\* A side that writes a row leaves the other side's alone.
LEMMA WriteRowStep ==
  ASSUME TypeOK, NEW s \in Side, NEW row, WritePeer(s, row), RowChange(s, row)
  PROVE  AllRowSteps
  <1> SUFFICES ASSUME NEW x \in Side PROVE RowStep(x)
    BY DEF AllRowSteps
  <1>1. CASE x = s
    <2>1. peer'[x] = row
      BY <1>1 DEF WritePeer, TypeOK, RowsOK
    <2> QED BY <1>1, <2>1 DEF RowChange, RowStep
  <1>2. CASE x # s
    <2>1. peer'[x] = peer[x]
      BY <1>2 DEF WritePeer, TypeOK, RowsOK
    <2> QED BY <2>1 DEF RowStep
  <1> QED BY <1>1, <1>2

\* A row that is not written keeps its secret.
LEMMA SameRowStep ==
  ASSUME UNCHANGED peer
  PROVE  AllRowSteps
  BY DEF AllRowSteps, RowStep

\* What moving and activating do to the secret.
LEMMA MoveSecret ==
  ASSUME NEW row \in PeerRows, NEW status, NEW reason, NEW secret, NEW e
  PROVE  /\ Move(row, status, reason).secret = row.secret
         /\ Move(row, status, reason).status = status
         /\ Move(row, status, reason).id = row.id
         /\ Activated(row, secret, e).secret = secret
         /\ Activated(row, secret, e).status = "active"
  BY DEF Move, Activated, PeerRows

\* The end of an exchange writes the row it is given, or parks that row.
LEMMA FinishRowStep ==
  ASSUME TypeOK, NEW s \in Side, NEW row \in PeerRows, Finish(s, row), RowChange(s, row)
  PROVE  AllRowSteps
  <1> DEFINE final ==
        IF /\ hs[s].onFailure = "repark"
           /\ row.status # "none" /\ row.id = hs[s].secret
           /\ row.status = "pending"
        THEN Move(row, "rejected", "stale_peering_on_remote") ELSE row
  <1>1. RowChange(s, final)
    BY MoveSecret DEF RowChange, Established
  <1>2. WritePeer(s, final)
    BY DEF Finish
  <1> QED BY <1>1, <1>2, WriteRowStep

\* The rows after one step.
LEMMA StepRows ==
  ASSUME TypeOK, Next
  PROVE  AllRowSteps
  <1>t. \A s \in Side : peer[s] \in PeerRows /\ peer[s].status \in Status
    BY DEF TypeOK, RowsOK, PeerRows
  <1>0. ASSUME NEW s \in Side PROVE RowChange(s, NoRow) /\ RowChange(s, peer[s])
    BY DEF RowChange, NoRow, Established
  <1>1. ASSUME NEW s \in Side, Local(s) PROVE AllRowSteps
    <2>1. CASE QueueEvent(s)
      <3>1. RowChange(s, [peer[s] EXCEPT !.queued = TRUE])
        BY <1>t DEF RowChange, PeerRows
      <3>2. RowChange(s, [NewRow("pending", "null", fresh + 1, "auto", 0)
                            EXCEPT !.queued = TRUE])
        BY DEF RowChange, NewRow, NoRow, Established
      <3> QED BY <2>1, <3>1, <3>2, WriteRowStep DEF QueueEvent
    <2>2. CASE EmptyQueue(s)
      <3>1. RowChange(s, [peer[s] EXCEPT !.queued = FALSE])
        BY <1>t DEF RowChange, PeerRows
      <3> QED BY <2>2, <3>1, WriteRowStep DEF EmptyQueue
    <2>3. ASSUME NEW intent, OutboundGate(s, intent) PROVE AllRowSteps
      BY <2>3, <1>0, WriteRowStep DEF OutboundGate
    <2>4. ASSUME EnsurePeered(s) PROVE AllRowSteps
      <3>1. RowChange(s, NewRow("pending", "null", fresh + 1, "auto", 0))
        BY DEF RowChange, NewRow, NoRow, Established
      <3> QED BY <2>4, <3>1, WriteRowStep, SameRowStep DEF EnsurePeered, rows
    <2>5. CASE ResolvePendingPeer(s)
      BY <2>5, <2>3, <2>4 DEF ResolvePendingPeer
    <2>6. ASSUME NEW mode, AdminHandshake(s, mode) PROVE AllRowSteps
      <3>1. RowChange(s, NewRow("pending", "null", fresh + 1, "admin", 0))
        BY DEF RowChange, NewRow, NoRow, Established
      <3>2. RowChange(s, [peer[s] EXCEPT !.by = "admin"])
        BY <1>t DEF RowChange, PeerRows
      <3> QED BY <2>6, <3>1, <3>2, WriteRowStep, SameRowStep DEF AdminHandshake, rows
    <2>7. CASE ApproveEstablished(s)
      BY <2>7, SameRowStep DEF ApproveEstablished, rows
    <2> QED BY <1>1, <2>1, <2>2, <2>3, <2>4, <2>5, <2>6, <2>7 DEF Local
  <1>2. ASSUME NEW s \in Side, Settle(s) PROVE AllRowSteps
    <2>h. hs[s].secret \in Nat /\ hs[s].epoch \in Nat /\ hs[s].token \in Nat
      BY DEF TypeOK, ExchangesOK, Exchange
    <2>g. GoodRow(peer[s]) /\ GoodRow(NoRow)
      BY PeerGood, NoRowGood
    <2>k. ASSUME NEW row, Finish(s, row), GoodRow(row), RowChange(s, row)
          PROVE  AllRowSteps
      BY <2>k, FinishRowStep DEF GoodRow
    <2>1. CASE SettleQueued(s)
      <3> DEFINE row == [Move(peer[s], "awaiting_approval", "null") EXCEPT !.token = hs[s].token]
      <3>1. GoodRow(row)
        BY <1>t, <2>h DEF GoodRow, Move, PeerRows, Status, Reasons, ReasonsOf
      <3>2. row.status = "awaiting_approval"
        BY <1>t DEF Move, PeerRows
      <3>3. RowChange(s, row)
        BY <3>2 DEF RowChange, Established
      <3> QED BY <2>1, <1>0, <2>g, <2>k, <3>1, <3>3 DEF SettleQueued
    <2>2. CASE SettleRefused(s)
      <3>1. \A r \in {"denied_by_remote", "revoked_by_remote"} :
              /\ GoodRow(Move(peer[s], "rejected", r))
              /\ RowChange(s, Move(peer[s], "rejected", r))
        BY <1>t, MoveGood, MoveSecret DEF Status, ReasonsOf, RemoteRejectedReasons,
           RowChange, Established
      <3> QED BY <2>2, <1>0, <2>g, <2>k, <3>1 DEF SettleRefused
    <2>3. CASE SettleInProgress(s)
      BY <2>3, <1>0, <2>g, <2>k DEF SettleInProgress
    <2>4. CASE GiveUp(s)
      <3>1. /\ GoodRow([peer[s] EXCEPT !.by = "auto"])
            /\ RowChange(s, [peer[s] EXCEPT !.by = "auto"])
        BY <1>t, <2>g DEF GoodRow, PeerRows, RowChange
      <3>2. PICK row : GoodRow(row) /\ RowChange(s, row) /\ Finish(s, row)
        BY <2>4, <1>0, <2>g, <3>1 DEF GiveUp
      <3> QED BY <2>k, <3>2
    <2>5. CASE Verify(s)
      BY <2>5, SameRowStep DEF Verify, rows
    <2>a. GoodRow(Activated(peer[s], hs[s].secret, hs[s].epoch))
      BY <1>t, <2>h, ActivatedGood
    <2>b. hs[s].probe = "verified" =>
            RowChange(s, Activated(peer[s], hs[s].secret, hs[s].epoch))
      <3>1. Activated(peer[s], hs[s].secret, hs[s].epoch).secret = hs[s].secret
        BY <1>t, MoveSecret
      <3> QED BY <3>1 DEF RowChange
    <2>6. CASE SettleExists(s)
      <3>1. /\ GoodRow(Move(peer[s], "rejected", "stale_peering_on_remote"))
            /\ RowChange(s, Move(peer[s], "rejected", "stale_peering_on_remote"))
        BY <1>t, MoveGood, MoveSecret DEF Status, ReasonsOf, RemoteRejectedReasons,
           RowChange, Established
      <3>2. GoodRow(AfterExists(s)) /\ RowChange(s, AfterExists(s))
        BY <1>0, <2>g, <2>a, <2>b, <3>1 DEF AfterExists
      <3> QED BY <2>6, <2>k, <3>2 DEF SettleExists
    <2>7. CASE SettleAccepted(s)
      <3>1. /\ GoodRow(Move(peer[s], "needs_attention", "repeer_incomplete"))
            /\ RowChange(s, Move(peer[s], "needs_attention", "repeer_incomplete"))
        BY <1>t, MoveGood, MoveSecret DEF Status, ReasonsOf, AttentionReasons,
           RowChange, Working
      <3> DEFINE both == [peer[s] EXCEPT !.secret = hs[s].secret, !.epoch = hs[s].epoch]
      <3>2. GoodRow(both) /\ (hs[s].probe = "verified" => RowChange(s, both))
        BY <1>t, <2>g, <2>h DEF GoodRow, PeerRows, RowChange
      <3>3. GoodRow(AfterAccept(s)) /\ RowChange(s, AfterAccept(s))
        BY <1>0, <2>g, <2>a, <2>b, <3>1, <3>2 DEF AfterAccept, TookBoth
      <3> QED BY <2>7, <2>k, <3>3 DEF SettleAccepted
    <2> QED BY <1>2, <2>1, <2>2, <2>3, <2>4, <2>5, <2>6, <2>7 DEF Settle
  <1>3. ASSUME NEW s \in Side, Approvals(s) PROVE AllRowSteps
    <2>r. \A r : \A x \in Side :
            RowChange(x, Move(peer[x], "rejected", r))
      BY <1>t, MoveSecret DEF RowChange, Established
    <2>1. ASSUME NEW kind, NEW lost, DenyInbound(s, kind, lost) PROVE AllRowSteps
      BY <2>1, <2>r, OtherSide, WriteRowStep DEF DenyInbound
    <2>2. CASE SettleDenial(s)
      <3>1. RowChange(s, NewRow("rejected", "denied_by_local_admin", deny[s].secret, "admin", 0))
        BY DEF RowChange, NewRow, NoRow, Established
      <3> QED BY <2>2, <2>r, <3>1, WriteRowStep, SameRowStep DEF SettleDenial, rows
    <2>3. ASSUME NEW kind, DropOutbound(s, kind) PROVE AllRowSteps
      BY <2>3, SameRowStep DEF DropOutbound, rows
    <2> QED BY <1>3, <2>1, <2>2, <2>3 DEF Approvals
  <1>4. ASSUME NEW s \in Side, Upkeep(s) PROVE AllRowSteps
    <2>m. /\ RowChange(s, Move(peer[s], "pending", "null"))
          /\ RowChange(s, Move(peer[s], "revoked", "null"))
          /\ \A r : RowChange(s, Move(peer[s], "needs_attention", r))
          /\ peer[s].status \in Working =>
               /\ RowChange(s, Move(peer[s], "active", "null"))
               /\ RowChange(s, Move(peer[s], "unreachable", "null"))
      BY <1>t, MoveSecret DEF RowChange, Established, Working
    <2>1. CASE ProbeParked(s)
      BY <2>1, SameRowStep DEF ProbeParked, rows
    <2>2. CASE SettleParked(s)
      <3>1. StillParked(s) /\ parked[s].probe = "verified" =>
              RowChange(s, Activated(peer[s], parked[s].secret, parked[s].epoch))
        BY <1>t, MoveSecret DEF RowChange, StillParked
      <3> QED BY <2>2, <1>0, <2>m, <3>1, WriteRowStep, SameRowStep DEF SettleParked, rows
    <2>3. CASE Revoke(s)
      BY <2>3, <2>m, WriteRowStep DEF Revoke, Decide
    <2>4. CASE ResetPeer(s) \/ DeletePermanently(s) \/ CleanupUnusedPending(s)
      BY <2>4, <1>0, WriteRowStep DEF ResetPeer, DeletePermanently,
         CleanupUnusedPending, Decide
    <2>5. CASE AuthRefusal(s) \/ MarkUnreachable(s) \/ Recover(s) \/ DetectReset(s)
      BY <2>5, <2>m, WriteRowStep DEF AuthRefusal, MarkUnreachable, Recover,
         DetectReset, Working
    <2>6. CASE ToggleAutoAccept(s) \/ FanOut(s) \/ Crash(s)
      BY <2>6, SameRowStep DEF ToggleAutoAccept, FanOut, Crash, rows
    <2>7. CASE Wipe(s)
      <3> SUFFICES ASSUME NEW x \in Side PROVE RowStep(x)
        BY DEF AllRowSteps
      <3>1. peer'[x] = NoRow \/ peer'[x] = peer[x]
        BY <2>7 DEF Wipe, TypeOK, RowsOK
      <3> QED BY <3>1 DEF RowStep, NoRow, Established
    <2> QED BY <1>4, <2>1, <2>2, <2>3, <2>4, <2>5, <2>6, <2>7 DEF Upkeep
  <1>5. ASSUME Transit PROVE AllRowSteps
    <2>m. ASSUME NEW m \in net
          PROVE  Other(m.from) \in Side /\ m.from = Other(Other(m.from))
      BY OtherSide DEF TypeOK, ExchangesOK, Messages
    <2>1. ASSUME NEW lost, NEW m \in net, AcceptHandshake(m, lost) PROVE AllRowSteps
      <3> DEFINE s == Other(m.from)
                 row == IF peer[s].status = "none"
                        THEN NewRow("active", "null", m.secret, "remote", m.epoch)
                        ELSE Activated(peer[s], m.secret, m.epoch)
      <3>1. row.secret = m.secret
        BY <1>t, <2>m, MoveSecret DEF NewRow, NoRow
      <3>2. peer[s].status \notin Established
        BY <2>1 DEF AcceptHandshake, Decision, DecideInbound, Established
      <3>3. RowChange(s, row)
        BY <2>m, <3>1, <3>2 DEF RowChange
      <3>4. WritePeer(s, row)
        BY <2>1 DEF AcceptHandshake
      <3> QED BY <2>m, <3>3, <3>4, WriteRowStep
    <2>2. ASSUME NEW lost, NEW m \in net, QueueHandshake(m, lost) PROVE AllRowSteps
      BY <2>2, SameRowStep DEF QueueHandshake, rows
    <2>3. ASSUME NEW lost, NEW m \in net, RefuseHandshake(m, lost) PROVE AllRowSteps
      <3>1. RowChange(Other(m.from),
                      Move(peer[Other(m.from)], "needs_attention", "peer_reset_detected"))
        <4> DEFINE s == Other(m.from)
                   row == Move(peer[s], "needs_attention", "peer_reset_detected")
        <4>1. peer[s] \in PeerRows
          BY <1>t, <2>m
        <4>2. row.secret = peer[s].secret /\ row.status = "needs_attention"
          BY <4>1, MoveSecret
        <4> QED BY <4>2 DEF RowChange, Working
      <3> QED BY <2>3, <2>m, <3>1, WriteRowStep, SameRowStep DEF RefuseHandshake, rows
    <2>4. ASSUME NEW m \in net, LoseRequest(m) PROVE AllRowSteps
      BY <2>4, SameRowStep DEF LoseRequest, rows
    <2> QED BY <1>5, <2>1, <2>2, <2>3, <2>4 DEF Transit
  <1> QED BY <1>1, <1>2, <1>3, <1>4, <1>5 DEF Next

\* No request from outside re-keys an established row: it takes another secret
\* only from our own exchange, once the remote verifiably held that secret.
THEOREM NeverRekeyedCorrect == Spec => NeverRekeyed
  <1> DEFINE Kept ==
        \A s \in Side :
          /\ peer[s].status \in Established /\ peer'[s].status \in Established
          /\ peer'[s].secret # peer[s].secret
          => hs[s].probe = "verified" /\ peer'[s].secret = hs[s].secret
  <1>1. TypeOK /\ [Next]_vars => [Kept]_vars
    BY StepRows DEF AllRowSteps, RowStep, Established
  <1> QED BY <1>1, TypeCorrect, PTL DEF Spec, NeverRekeyed

-----------------------------------------------------------------------------
(* Where the secrets come from *)

\* ActiveOnSharedSecret is not inductive: it needs to know that the secrets in
\* transit and the probed ones are the other side's.
SecretInv ==
  /\ TypeOK
  /\ \A s \in Side : peer[s].status # "none" => peer[s].secret \in held[s]
  /\ \A m \in net : m.secret \in held[m.from]
  /\ \A s \in Side : hs[s].probe = "verified" => hs[s].secret \in held[Other(s)]
  /\ \A s \in Side : parked[s].probe = "verified" => parked[s].secret \in held[Other(s)]
  /\ \A s \in Side : peer[s].status \in Working => peer[s].secret \in held[Other(s)]

\* A secret the row has had stays held, and the row's own one is held.
HeldStep(x) ==
  /\ held[x] \subseteq held'[x]
  /\ \/ peer'[x] = peer[x] \/ peer'[x].status = "none"
     \/ peer'[x].secret \in held'[x]

\* A request in transit was there before, or carries the secret of its
\* sender's row, which is pending.
NetStep ==
  \A m \in net' :
    \/ \E n \in net : n.from = m.from /\ n.secret = m.secret
    \/ /\ m.from \in Side /\ peer'[m.from].status = "pending"
       /\ peer'[m.from].secret = m.secret

\* A verified probe was verified before, or shows the other side's row and epoch.
ProbeStep(x) ==
  /\ hs'[x].probe = "verified" =>
       \/ /\ hs[x].probe = "verified"
          /\ hs'[x].secret = hs[x].secret /\ hs'[x].epoch = hs[x].epoch
       \/ /\ peer[Other(x)].status # "none" /\ peer[Other(x)].secret = hs'[x].secret
          /\ hs'[x].epoch = epoch[Other(x)]
  /\ parked'[x].probe = "verified" =>
       \/ parked'[x] = parked[x]
       \/ /\ peer[Other(x)].status # "none" /\ peer[Other(x)].secret = parked'[x].secret
          /\ parked'[x].epoch = epoch[Other(x)]

\* Writing a row holds its secret.
LEMMA WriteHeld ==
  ASSUME TypeOK, NEW s \in Side, NEW row, WritePeer(s, row)
  PROVE  \A x \in Side : HeldStep(x)
  BY DEF TypeOK, RowsOK, WritePeer, HeldStep

\* A step that leaves the rows alone holds what was held.
LEMMA SameHeld ==
  ASSUME UNCHANGED <<peer, held>>
  PROVE  \A x \in Side : HeldStep(x)
  BY DEF HeldStep

\* Every step writes one row, or none, or reinstalls a side.
LEMMA StepHeld ==
  ASSUME TypeOK, Next
  PROVE  \A x \in Side : HeldStep(x)
  <1>w. ASSUME NEW s \in Side, NEW row, WritePeer(s, row) PROVE \A x \in Side : HeldStep(x)
    BY <1>w, WriteHeld
  <1>1. ASSUME NEW s \in Side, Local(s) PROVE \A x \in Side : HeldStep(x)
    BY <1>1, <1>w, SameHeld DEF Local, QueueEvent, EmptyQueue, OutboundGate, EnsurePeered,
       ResolvePendingPeer, AdminHandshake, ApproveEstablished, rows
  <1>2. ASSUME NEW s \in Side, Settle(s) PROVE \A x \in Side : HeldStep(x)
    BY <1>2, <1>w, SameHeld DEF Settle, SettleQueued, SettleRefused, SettleInProgress,
       GiveUp, Verify, SettleExists, SettleAccepted, Finish, rows
  <1>3. ASSUME NEW s \in Side, Approvals(s) PROVE \A x \in Side : HeldStep(x)
    BY <1>3, <1>w, SameHeld, OtherSide DEF Approvals, DenyInbound, SettleDenial,
       DropOutbound, rows
  <1>4. ASSUME NEW s \in Side, Upkeep(s) PROVE \A x \in Side : HeldStep(x)
    <2>1. CASE Wipe(s)
      <3>1. \A x \in Side : peer'[x] = NoRow \/ peer'[x] = peer[x]
        BY <2>1 DEF Wipe, TypeOK, RowsOK
      <3> QED BY <2>1, <3>1 DEF Wipe, HeldStep, NoRow
    <2>2. CASE ~Wipe(s)
      BY <1>4, <2>2, <1>w, SameHeld DEF Upkeep, ProbeParked, SettleParked, Revoke,
         ResetPeer, DeletePermanently, ToggleAutoAccept, AuthRefusal, MarkUnreachable,
         Recover, DetectReset, CleanupUnusedPending, FanOut, Crash, Decide, rows
    <2> QED BY <2>1, <2>2
  <1>5. ASSUME Transit PROVE \A x \in Side : HeldStep(x)
    <2>m. \A m \in net : Other(m.from) \in Side
      BY OtherSide DEF TypeOK, ExchangesOK, Messages
    <2> QED BY <1>5, <2>m, <1>w, SameHeld DEF Transit, AcceptHandshake, QueueHandshake,
            RefuseHandshake, LoseRequest, rows
  <1> QED BY <1>1, <1>2, <1>3, <1>4, <1>5 DEF Next

\* What a step does to the exchanges and to the requests in transit: a side sends
\* a request with the secret of its row, which is pending; an exchange is over; a
\* sender stops waiting; a request is answered; or neither is touched, except that a
\* request may be lost.
Sends(s) ==
  \E mode, secret, onFailure, token :
    /\ Idle(s) /\ Send(s, mode, secret, onFailure, token)
    /\ peer'[s].status = "pending" /\ peer'[s].secret = secret

Ends(s) ==
  hs[s].at # "sent" /\ hs' = [hs EXCEPT ![s] = NoExchange] /\ UNCHANGED net

Leaves(s) ==
  /\ hs' = [hs EXCEPT ![s] = NoExchange]
  /\ \A m \in net' :
       /\ m \in net \/ \E n \in net : m = [n EXCEPT !.live = FALSE]
       /\ m.from = s => ~m.live

Heard(m) ==
  \E answer, token, lost, cleared :
    answer \in Answers /\ Answer(m, answer, token, lost, cleared)

Rests ==
  /\ net' \subseteq net
  /\ \A x \in Side : hs'[x].at = hs[x].at /\ hs'[x].secret = hs[x].secret

Shapes ==
  \/ \E s \in Side : Sends(s) \/ Ends(s) \/ Leaves(s)
  \/ \E m \in net : Heard(m)
  \/ Rests

\* Nothing of an exchange changes when none of them does.
LEMMA SameRests ==
  ASSUME UNCHANGED hs, net' \subseteq net
  PROVE  Shapes
  BY DEF Rests, Shapes

\* Every step has one of the shapes.
LEMMA StepShapes ==
  ASSUME TypeOK, Next
  PROVE  Shapes
  <1>t. /\ \A s \in Side : peer[s] \in PeerRows
        /\ hs \in [Side -> Exchange]
    BY DEF TypeOK, RowsOK, ExchangesOK
  <1>w. \A s \in Side : \A row : WritePeer(s, row) => peer'[s] = row
    BY DEF WritePeer, TypeOK, RowsOK
  <1>n. \A by : /\ NewRow("pending", "null", fresh + 1, by, 0).status = "pending"
                /\ NewRow("pending", "null", fresh + 1, by, 0).secret = fresh + 1
    BY DEF NewRow, NoRow
  <1>f. ASSUME NEW s \in Side, NEW row, Finish(s, row), hs[s].at # "sent", UNCHANGED net
        PROVE  Shapes
    BY <1>f DEF Finish, Ends, Shapes
  <1>1. ASSUME NEW s \in Side, Local(s) PROVE Shapes
    <2>1. ASSUME EnsurePeered(s) PROVE Shapes
      <3>1. CASE peer[s].status = "pending" /\ UNCHANGED rows
                 /\ Send(s, "auto", peer[s].secret, "keep", 0)
        BY <2>1, <3>1 DEF rows, EnsurePeered, Sends, Shapes
      <3>2. CASE /\ WritePeer(s, NewRow("pending", "null", fresh + 1, "auto", 0))
                 /\ Send(s, "auto", fresh + 1, "remove_unless_queued", 0)
        <4>1. peer'[s].status = "pending" /\ peer'[s].secret = fresh + 1
          BY <1>w, <1>n, <3>2
        <4> QED BY <2>1, <3>2, <4>1 DEF EnsurePeered, Sends, Shapes
      <3> QED BY <2>1, <3>1, <3>2 DEF EnsurePeered
    <2>2. ASSUME NEW mode, AdminHandshake(s, mode) PROVE Shapes
      <3> DEFINE token == IF mode = "inbound" THEN inReq[s].token ELSE 0
      <3>1. CASE peer[s].status = "pending" /\ UNCHANGED rows
                 /\ Send(s, mode, peer[s].secret, "keep", token)
        BY <2>2, <3>1 DEF rows, AdminHandshake, Sends, Shapes
      <3>2. CASE /\ peer[s].status = "pending"
                 /\ WritePeer(s, [peer[s] EXCEPT !.by = "admin"])
                 /\ Send(s, mode, peer[s].secret, "release_to_traffic", token)
        <4>1. peer'[s].status = "pending" /\ peer'[s].secret = peer[s].secret
          BY <1>t, <1>w, <3>2 DEF PeerRows
        <4> QED BY <2>2, <3>2, <4>1 DEF AdminHandshake, Sends, Shapes
      <3>3. CASE /\ WritePeer(s, NewRow("pending", "null", fresh + 1, "admin", 0))
                 /\ Send(s, mode, fresh + 1, "remove_unless_queued", token)
        <4>1. peer'[s].status = "pending" /\ peer'[s].secret = fresh + 1
          BY <1>w, <1>n, <3>3
        <4> QED BY <2>2, <3>3, <4>1 DEF AdminHandshake, Sends, Shapes
      <3> QED BY <2>2, <3>1, <3>2, <3>3 DEF AdminHandshake
    <2>3. ASSUME NEW intent, OutboundGate(s, intent) PROVE Shapes
      BY <2>3, SameRests DEF OutboundGate
    <2>4. CASE QueueEvent(s) \/ EmptyQueue(s) \/ ApproveEstablished(s)
      BY <2>4, SameRests DEF QueueEvent, EmptyQueue, ApproveEstablished
    <2> QED BY <1>1, <2>1, <2>2, <2>3, <2>4 DEF Local, ResolvePendingPeer
  <1>2. ASSUME NEW s \in Side, Settle(s) PROVE Shapes
    <2>1. CASE GiveUp(s)
      <3>1. hs' = [hs EXCEPT ![s] = NoExchange]
        BY <2>1 DEF GiveUp, Finish
      <3>2. ASSUME NEW m \in net'
            PROVE  /\ m \in net \/ \E n \in net : m = [n EXCEPT !.live = FALSE]
                   /\ m.from = s => ~m.live
        <4> DEFINE mine == {n \in net : n.from = s /\ n.live}
        <4>1. CASE m \in net \ mine
          BY <4>1
        <4>2. CASE \E n \in mine : m = [n EXCEPT !.live = FALSE]
          BY <4>2 DEF TypeOK, ExchangesOK, Messages
        <4> QED BY <2>1, <4>1, <4>2 DEF GiveUp
      <3> QED BY <3>1, <3>2 DEF Leaves, Shapes
    <2>2. CASE Verify(s)
      <3>1. \A x \in Side : hs'[x].at = hs[x].at /\ hs'[x].secret = hs[x].secret
        BY <1>t, <2>2 DEF Verify, Exchange
      <3> QED BY <2>2, <3>1 DEF Verify, Rests, Shapes
    <2> QED BY <1>2, <1>f, <2>1, <2>2 DEF Settle, SettleQueued, SettleRefused,
            SettleInProgress, SettleExists, SettleAccepted
  <1>3. ASSUME NEW s \in Side, Approvals(s) PROVE Shapes
    <2>1. CASE SettleDenial(s)
      <3>1. \A x \in Side : hs'[x].at = hs[x].at /\ hs'[x].secret = hs[x].secret
        BY <1>t, <2>1 DEF SettleDenial, Exchange
      <3> QED BY <2>1, <3>1 DEF SettleDenial, Rests, Shapes
    <2> QED BY <1>3, <2>1, SameRests DEF Approvals, DenyInbound, DropOutbound
  <1>4. ASSUME NEW s \in Side, Upkeep(s) PROVE Shapes
    <2>1. CASE SettleParked(s)
      <3> DEFINE reopened == Move(peer[s], "pending", "null")
      <3>1. CASE Idle(s) /\ WritePeer(s, reopened)
                 /\ Send(s, "auto", peer[s].secret, "repark", 0)
        <4>1. reopened.status = "pending" /\ reopened.secret = peer[s].secret
          BY <1>t, MoveSecret
        <4>2. peer'[s].status = "pending" /\ peer'[s].secret = peer[s].secret
          BY <1>w, <3>1, <4>1
        <4> QED BY <3>1, <4>2 DEF Sends, Shapes
      <3> QED BY <2>1, <3>1, SameRests DEF SettleParked
    <2>2. CASE Crash(s)
      <3>1. hs' = [hs EXCEPT ![s] = NoExchange]
        BY <2>2 DEF Crash
      <3>2. ASSUME NEW m \in net'
            PROVE  /\ m \in net \/ \E n \in net : m = [n EXCEPT !.live = FALSE]
                   /\ m.from = s => ~m.live
        <4>1. PICK n \in net : m = IF n.from = s THEN [n EXCEPT !.live = FALSE] ELSE n
          BY <2>2 DEF Crash
        <4> QED BY <4>1 DEF TypeOK, ExchangesOK, Messages
      <3> QED BY <3>1, <3>2 DEF Leaves, Shapes
    <2>3. CASE UNCHANGED <<hs, net>>
      BY <2>3, SameRests
    <2> QED BY <1>4, <2>1, <2>2, <2>3 DEF Upkeep, ProbeParked, Revoke, ResetPeer,
            DeletePermanently, ToggleAutoAccept, AuthRefusal, MarkUnreachable, Recover,
            DetectReset, CleanupUnusedPending, FanOut, Wipe, Decide
  <1>5. ASSUME Transit PROVE Shapes
    <2>1. ASSUME NEW lost, NEW m \in net, AcceptHandshake(m, lost) PROVE Shapes
      BY <2>1 DEF AcceptHandshake, Heard, Shapes, Answers
    <2>2. ASSUME NEW lost, NEW m \in net, QueueHandshake(m, lost) PROVE Shapes
      BY <2>2 DEF QueueHandshake, Heard, Shapes, Answers
    <2>3. ASSUME NEW lost, NEW m \in net, RefuseHandshake(m, lost) PROVE Shapes
      <3>1. PICK answer \in Answers : Answer(m, answer, 0, lost, {})
        BY <2>3 DEF RefuseHandshake, Answers
      <3> QED BY <3>1 DEF Heard, Shapes
    <2>4. ASSUME NEW m \in net, LoseRequest(m) PROVE Shapes
      BY <2>4, SameRests DEF LoseRequest
    <2> QED BY <1>5, <2>1, <2>2, <2>3, <2>4 DEF Transit
  <1> QED BY <1>1, <1>2, <1>3, <1>4, <1>5 DEF Next

\* The requests in transit after one step.
LEMMA StepNet ==
  ASSUME TypeOK, Next
  PROVE  NetStep
  <1>1. ASSUME NEW s \in Side, Sends(s) PROVE NetStep
    <2>1. PICK mode, secret, onFailure, token :
            /\ Send(s, mode, secret, onFailure, token)
            /\ peer'[s].status = "pending" /\ peer'[s].secret = secret
      BY <1>1 DEF Sends
    <2> QED BY <2>1 DEF Send, NetStep
  <1>2. ASSUME NEW s \in Side, Leaves(s) PROVE NetStep
    <2>1. \A n \in net : /\ [n EXCEPT !.live = FALSE].from = n.from
                         /\ [n EXCEPT !.live = FALSE].secret = n.secret
      BY DEF TypeOK, ExchangesOK, Messages
    <2> SUFFICES ASSUME NEW m \in net'
                 PROVE  \E n \in net : n.from = m.from /\ n.secret = m.secret
      BY DEF NetStep
    <2> QED BY <1>2, <2>1 DEF Leaves
  <1>3. CASE net' \subseteq net
    BY <1>3 DEF NetStep
  <1> QED BY <1>1, <1>2, <1>3, StepShapes DEF Shapes, Ends, Heard, Answer, Rests

\* An exchange keeps its probe and its secret, or has no probe.
ExchangeKept(x) ==
  \/ hs'[x].probe = "none"
  \/ /\ hs'[x].probe = hs[x].probe
     /\ hs'[x].secret = hs[x].secret /\ hs'[x].epoch = hs[x].epoch

ParkedKept(x) == parked'[x] = parked[x] \/ parked'[x].probe = "none"

\* A new exchange has no probe yet, and neither has an ended one.
LEMMA ExchangeStep ==
  ASSUME TypeOK, NEW x \in Side
  PROVE  /\ \A s \in Side : \A mode, secret, onFailure, token :
              Send(s, mode, secret, onFailure, token) => ExchangeKept(x)
         /\ \A s \in Side : \A row : Finish(s, row) => ExchangeKept(x)
         /\ \A m \in net : \A answer, token, lost, cleared :
              Answer(m, answer, token, lost, cleared) => ExchangeKept(x)
         /\ UNCHANGED hs => ExchangeKept(x)
  <1>t. hs \in [Side -> Exchange]
    BY DEF TypeOK, ExchangesOK
  <1>n. NoExchange.probe = "none"
    BY DEF NoExchange
  <1>1. ASSUME NEW s \in Side, NEW mode, NEW secret, NEW onFailure, NEW token,
               Send(s, mode, secret, onFailure, token)
        PROVE  ExchangeKept(x)
    <2>1. CASE x = s
      BY <1>t, <1>1, <2>1 DEF Send, NoExchange, ExchangeKept
    <2>2. CASE x # s
      BY <1>t, <1>1, <2>2 DEF Send, ExchangeKept
    <2> QED BY <2>1, <2>2
  <1>2. ASSUME NEW s \in Side, NEW row, Finish(s, row)
        PROVE  ExchangeKept(x)
    BY <1>t, <1>n, <1>2 DEF Finish, ExchangeKept
  <1>3. ASSUME NEW m \in net, NEW answer, NEW token, NEW lost, NEW cleared,
               Answer(m, answer, token, lost, cleared)
        PROVE  ExchangeKept(x)
    <2>1. hs[x] \in Exchange
      BY <1>t
    <2> QED BY <1>3, <2>1 DEF Answer, Exchange, ExchangeKept
  <1>4. UNCHANGED hs => ExchangeKept(x)
    BY DEF ExchangeKept
  <1> QED BY <1>1, <1>2, <1>3, <1>4

\* A signed round trip verifies only the secret of a row the remote has.
LEMMA VerifiedShowsRow ==
  ASSUME NEW row, NEW secret, EpochAnswer(row, secret) = "verified"
  PROVE  row.status # "none" /\ row.secret = secret
  BY DEF EpochAnswer

\* The probes after one step.
LEMMA StepProbes ==
  ASSUME TypeOK, Next, NEW x \in Side
  PROVE  ProbeStep(x)
  <1>t. hs \in [Side -> Exchange] /\ parked \in [Side -> ParkedProbes]
    BY DEF TypeOK, ExchangesOK, WorkOK
  <1>k. ASSUME ExchangeKept(x), ParkedKept(x) PROVE ProbeStep(x)
    BY <1>k DEF ExchangeKept, ParkedKept, ProbeStep
  <1>u. UNCHANGED parked => ParkedKept(x)
    BY DEF ParkedKept
  <1>1. ASSUME NEW s \in Side, Local(s) PROVE ProbeStep(x)
    <2>1. UNCHANGED parked
      BY <1>1 DEF Local, QueueEvent, EmptyQueue, OutboundGate, EnsurePeered,
         ResolvePendingPeer, AdminHandshake, ApproveEstablished, work
    <2>2. ExchangeKept(x)
      BY <1>1, ExchangeStep DEF Local, QueueEvent, EmptyQueue, OutboundGate,
         EnsurePeered, ResolvePendingPeer, AdminHandshake, ApproveEstablished
    <2> QED BY <1>k, <1>u, <2>1, <2>2
  <1>2. ASSUME NEW s \in Side, Settle(s) PROVE ProbeStep(x)
    <2>1. CASE Verify(s)
      <3>1. CASE x = s
        <4>1. hs'[x].secret = hs[x].secret
          BY <1>t, <2>1, <3>1 DEF Verify, Exchange
        <4>2. hs'[x].probe = "verified" => hs'[x].epoch = epoch[Other(x)]
          BY <1>t, <2>1, <3>1 DEF Verify, Exchange
        <4>3. hs'[x].probe = "verified" =>
                EpochAnswer(peer[Other(x)], hs[x].secret) = "verified"
          BY <1>t, <2>1, <3>1 DEF Verify, Exchange
        <4>4. UNCHANGED parked
          BY <2>1 DEF Verify, work
        <4> QED BY <4>1, <4>2, <4>3, <4>4, VerifiedShowsRow DEF ProbeStep
      <3>2. CASE x # s
        <4>1. hs'[x] = hs[x] /\ UNCHANGED parked
          BY <1>t, <2>1, <3>2 DEF Verify, work
        <4> QED BY <4>1 DEF ProbeStep
      <3> QED BY <3>1, <3>2
    <2>2. ASSUME NEW row, Finish(s, row) PROVE ProbeStep(x)
      <3>1. UNCHANGED parked
        BY <2>2 DEF Finish
      <3> QED BY <1>k, <1>u, <2>2, <3>1, ExchangeStep
    <2> QED BY <1>2, <2>1, <2>2 DEF Settle, SettleQueued, SettleRefused,
            SettleInProgress, GiveUp, SettleExists, SettleAccepted
  <1>3. ASSUME NEW s \in Side, Approvals(s) PROVE ProbeStep(x)
    <2>1. UNCHANGED parked
      BY <1>3 DEF Approvals, DenyInbound, SettleDenial, DropOutbound, work
    <2>2. CASE SettleDenial(s)
      <3>1. /\ hs'[x].probe = hs[x].probe
            /\ hs'[x].secret = hs[x].secret /\ hs'[x].epoch = hs[x].epoch
        BY <1>t, <2>2 DEF SettleDenial, Exchange
      <3> QED BY <1>k, <1>u, <2>1, <3>1 DEF ExchangeKept
    <2>3. CASE UNCHANGED hs
      BY <1>k, <1>u, <2>1, <2>3, ExchangeStep
    <2> QED BY <1>3, <2>2, <2>3 DEF Approvals, DenyInbound, DropOutbound
  <1>4. ASSUME NEW s \in Side, Upkeep(s) PROVE ProbeStep(x)
    <2>1. CASE ProbeParked(s)
      <3>1. hs' = hs
        BY <2>1 DEF ProbeParked
      <3>2. CASE x = s
        <4> DEFINE answer == EpochAnswer(peer[Other(x)], peer[x].secret)
        <4>1. parked'[x] = [probe |-> answer, secret |-> peer[x].secret,
                            epoch |-> epoch[Other(x)]]
          BY <1>t, <2>1, <3>2 DEF ProbeParked
        <4> QED BY <3>1, <4>1, VerifiedShowsRow DEF ProbeStep
      <3>3. CASE x # s
        BY <1>t, <2>1, <3>1, <3>3 DEF ProbeParked, ProbeStep
      <3> QED BY <3>2, <3>3
    <2>2. CASE SettleParked(s)
      <3>1. ParkedKept(x)
        BY <1>t, <2>2 DEF SettleParked, NoProbe, ParkedKept
      <3>2. ExchangeKept(x)
        BY <2>2, ExchangeStep DEF SettleParked
      <3> QED BY <1>k, <3>1, <3>2
    <2>3. CASE Crash(s)
      <3>1. ParkedKept(x)
        BY <1>t, <2>3 DEF Crash, NoProbe, ParkedKept
      <3>2. ExchangeKept(x)
        BY <1>t, <2>3 DEF Crash, NoExchange, ExchangeKept
      <3> QED BY <1>k, <3>1, <3>2
    <2>4. CASE UNCHANGED <<hs, parked>>
      BY <1>k, <1>u, <2>4, ExchangeStep
    <2> QED BY <1>4, <2>1, <2>2, <2>3, <2>4 DEF Upkeep, Revoke, ResetPeer,
            DeletePermanently, ToggleAutoAccept, AuthRefusal, MarkUnreachable, Recover,
            DetectReset, CleanupUnusedPending, FanOut, Wipe, Decide, work
  <1>5. ASSUME Transit PROVE ProbeStep(x)
    <2>1. UNCHANGED parked
      BY <1>5 DEF Transit, AcceptHandshake, QueueHandshake, RefuseHandshake,
         LoseRequest, work
    <2>2. ExchangeKept(x)
      BY <1>5, ExchangeStep DEF Transit, AcceptHandshake, QueueHandshake,
         RefuseHandshake, LoseRequest
    <2> QED BY <1>k, <1>u, <2>1, <2>2
  <1> QED BY <1>1, <1>2, <1>3, <1>4, <1>5 DEF Next

\* One step keeps every secret in circulation a held one.
LEMMA SecretStep ==
  ASSUME SecretInv, Next, TypeOK'
  PROVE  SecretInv'
  <1>h. \A x \in Side : HeldStep(x)
    BY StepHeld DEF SecretInv
  <1>r. \A x \in Side : RowStep(x)
    BY StepRows DEF SecretInv, AllRowSteps
  <1>n. NetStep
    BY StepNet DEF SecretInv
  <1>p. \A x \in Side : ProbeStep(x)
    BY StepProbes DEF SecretInv
  <1>o. \A x \in Side : Other(x) \in Side /\ Other(Other(x)) = x
    BY OtherSide
  <1>m. \A m \in net : m.from \in Side /\ m.secret \in held[m.from]
    BY DEF SecretInv, TypeOK, ExchangesOK, Messages
  <1>1. ASSUME NEW s \in Side, peer'[s].status # "none"
        PROVE  peer'[s].secret \in held'[s]
    BY <1>1, <1>h DEF HeldStep, SecretInv
  <1>2. ASSUME NEW m \in net' PROVE m.secret \in held'[m.from]
    BY <1>1, <1>h, <1>n, <1>m DEF NetStep, HeldStep
  <1>3. ASSUME NEW s \in Side, hs'[s].probe = "verified"
        PROVE  hs'[s].secret \in held'[Other(s)]
    BY <1>3, <1>h, <1>o, <1>p DEF ProbeStep, HeldStep, SecretInv
  <1>4. ASSUME NEW s \in Side, parked'[s].probe = "verified"
        PROVE  parked'[s].secret \in held'[Other(s)]
    BY <1>4, <1>h, <1>o, <1>p DEF ProbeStep, HeldStep, SecretInv
  <1>5. ASSUME NEW s \in Side, peer'[s].status \in Working
        PROVE  peer'[s].secret \in held'[Other(s)]
    <2>1. peer'[s].secret \in held[Other(s)]
      BY <1>5, <1>m, <1>r DEF RowStep, Working, Established, SecretInv
    <2> QED BY <2>1, <1>h, <1>o DEF HeldStep
  <1> QED BY <1>1, <1>2, <1>3, <1>4, <1>5 DEF SecretInv

\* A row is active only on a secret that the other side's row has held, through
\* every interleaving of handshakes, losses, timeouts, crashes and reinstallations.
THEOREM SharedSecretCorrect == Spec => []ActiveOnSharedSecret
  <1>1. Init => SecretInv
    <2> SUFFICES ASSUME Init PROVE SecretInv
      OBVIOUS
    <2>1. \A s \in Side : /\ peer[s].status = "none" /\ hs[s].probe = "none"
                          /\ parked[s].probe = "none"
      BY DEF Init, NoRow, NoExchange, NoProbe
    <2> QED BY <2>1, TypeInit DEF SecretInv, Working, Init
  <1>2. SecretInv /\ [Next]_vars /\ TypeOK' => SecretInv'
    <2>1. ASSUME SecretInv, UNCHANGED vars PROVE SecretInv'
      BY <2>1, TypeStutter DEF SecretInv, vars, rows, work
    <2> QED BY <2>1, SecretStep
  <1>3. SecretInv => ActiveOnSharedSecret
    BY DEF SecretInv, ActiveOnSharedSecret, Working
  <1> QED BY <1>1, <1>2, <1>3, TypeCorrect, PTL DEF Spec

-----------------------------------------------------------------------------
(* What ends our admin's own refusal *)

\* A step lifts a refusal of x only with an admin's action, a reinstallation, or
\* the backstop's answer.
Excused(x) ==
  \/ spent'.decisions # spent.decisions
  \/ spent'.wipes # spent.wipes
  \/ StillParked(x) /\ parked[x] # NoProbe /\ parked'[x] = NoProbe

RefusalStep(x) ==
  LocallyRefused(peer[x]) => LocallyRefused(peer'[x]) \/ Excused(x)

AllRefusalSteps == \A x \in Side : RefusalStep(x)

\* A side that writes a row that is still refused, or was not, lifts no refusal.
LEMMA WriteRefusal ==
  ASSUME TypeOK, NEW s \in Side, NEW row, WritePeer(s, row),
         LocallyRefused(peer[s]) => LocallyRefused(row) \/ Excused(s)
  PROVE  AllRefusalSteps
  <1> SUFFICES ASSUME NEW x \in Side PROVE RefusalStep(x)
    BY DEF AllRefusalSteps
  <1>1. peer'[x] = IF x = s THEN row ELSE peer[x]
    BY DEF WritePeer, TypeOK, RowsOK
  <1> QED BY <1>1 DEF RefusalStep

\* Nor does a step that leaves the rows alone.
LEMMA SameRefusal ==
  ASSUME UNCHANGED peer
  PROVE  AllRefusalSteps
  BY DEF AllRefusalSteps, RefusalStep

\* Spending on an admin's action shows.
LEMMA SpendShows ==
  ASSUME TypeOK, NEW kind \in {"faults", "decisions", "outages", "wipes"}, Spend(kind)
  PROVE  spent'[kind] # spent[kind]
  <1>1. spent[kind] \in Nat /\ spent'[kind] = spent[kind] + 1
    BY DEF TypeOK, CountersOK, Spend
  <1> QED BY <1>1

\* A move of a refused row to the status `rejected' for our admin's reason, or
\* to `revoked', leaves it refused.
LEMMA RefusingMoves ==
  ASSUME NEW row \in PeerRows
  PROVE  /\ LocallyRefused(Move(row, "rejected", "denied_by_local_admin"))
         /\ LocallyRefused(Move(row, "revoked", "null"))
         /\ LocallyRefused(row) => row.status \in {"rejected", "revoked"}
  BY DEF LocallyRefused, Move, PeerRows

\* An exchange of ours ends with a refused row as it is.
LEMMA FinishRefusal ==
  ASSUME TypeOK, NEW s \in Side, NEW row, Finish(s, row),
         peer[s].status \in {"rejected", "revoked"} => row = peer[s]
  PROVE  AllRefusalSteps
  <1>t. peer[s] \in PeerRows
    BY DEF TypeOK, RowsOK
  <1>1. PICK final : /\ WritePeer(s, final)
                     /\ final = row \/ row.status = "pending"
    BY DEF Finish
  <1>2. LocallyRefused(peer[s]) => LocallyRefused(final)
    BY <1>t, <1>1, RefusingMoves DEF LocallyRefused
  <1> QED BY <1>1, <1>2, WriteRefusal

\* The refusals after one step.
LEMMA StepRefusals ==
  ASSUME TypeOK, Next
  PROVE  AllRefusalSteps
  <1>t. \A s \in Side : peer[s] \in PeerRows
    BY DEF TypeOK, RowsOK
  <1>r. \A s \in Side : LocallyRefused(peer[s]) => peer[s].status \in {"rejected", "revoked"}
    BY <1>t, RefusingMoves
  <1>d. ASSUME NEW s \in Side, NEW row, WritePeer(s, row),
               Spend("decisions") \/ peer[s].status \notin {"rejected", "revoked"}
        PROVE  AllRefusalSteps
    BY <1>d, <1>r, SpendShows, WriteRefusal DEF Excused
  <1>1. ASSUME NEW s \in Side, Local(s) PROVE AllRefusalSteps
    <2>1. CASE QueueEvent(s)
      BY <2>1, <1>d DEF QueueEvent
    <2>2. CASE EmptyQueue(s)
      <3>1. LocallyRefused(peer[s]) => LocallyRefused([peer[s] EXCEPT !.queued = FALSE])
        BY <1>t DEF LocallyRefused, PeerRows
      <3> QED BY <2>2, <3>1, WriteRefusal DEF EmptyQueue
    <2>3. ASSUME NEW intent, OutboundGate(s, intent) PROVE AllRefusalSteps
      BY <2>3, <1>d DEF OutboundGate, Unsettled
    <2>4. ASSUME EnsurePeered(s) PROVE AllRefusalSteps
      BY <2>4, <1>d, SameRefusal DEF EnsurePeered, rows
    <2>5. CASE ResolvePendingPeer(s)
      BY <2>5, <2>3, <2>4 DEF ResolvePendingPeer
    <2>6. ASSUME NEW mode, AdminHandshake(s, mode) PROVE AllRefusalSteps
      BY <2>6, <1>d, SameRefusal DEF AdminHandshake, rows
    <2>7. CASE ApproveEstablished(s)
      BY <2>7, SameRefusal DEF ApproveEstablished, rows
    <2> QED BY <1>1, <2>1, <2>2, <2>3, <2>4, <2>5, <2>6, <2>7 DEF Local
  <1>2. ASSUME NEW s \in Side, Settle(s) PROVE AllRefusalSteps
    <2>k. ASSUME NEW row, Finish(s, row),
                 peer[s].status \in {"rejected", "revoked"} => row = peer[s]
          PROVE  AllRefusalSteps
      BY <2>k, FinishRefusal
    <2>1. CASE SettleQueued(s)
      BY <2>1, <2>k DEF SettleQueued, Mine
    <2>2. CASE SettleRefused(s)
      BY <2>2, <2>k DEF SettleRefused, Mine
    <2>3. CASE SettleInProgress(s)
      BY <2>3, <2>k DEF SettleInProgress
    <2>4. CASE GiveUp(s)
      <3>1. PICK row : /\ Finish(s, row)
                       /\ row = peer[s] \/ peer[s].status = "pending"
        BY <2>4 DEF GiveUp
      <3> QED BY <2>k, <3>1
    <2>5. CASE Verify(s)
      BY <2>5, SameRefusal DEF Verify, rows
    <2>6. CASE SettleExists(s)
      BY <2>6, <2>k DEF SettleExists, AfterExists, Mine
    <2>7. CASE SettleAccepted(s)
      BY <2>7, <2>k DEF SettleAccepted, AfterAccept, Mine, TookBoth
    <2> QED BY <1>2, <2>1, <2>2, <2>3, <2>4, <2>5, <2>6, <2>7 DEF Settle
  <1>3. ASSUME NEW s \in Side, Approvals(s) PROVE AllRefusalSteps
    <2>1. ASSUME NEW kind, NEW lost, DenyInbound(s, kind, lost) PROVE AllRefusalSteps
      BY <2>1, <1>d, OtherSide DEF DenyInbound
    <2>2. CASE SettleDenial(s)
      <3>1. LocallyRefused(Move(peer[s], "rejected", "denied_by_local_admin"))
        BY <1>t, RefusingMoves
      <3>2. CASE UNCHANGED rows
        BY <3>2, SameRefusal DEF rows
      <3>3. CASE /\ peer[s].status = "none"
                 /\ WritePeer(s, NewRow("rejected", "denied_by_local_admin",
                                        deny[s].secret, "admin", 0))
        BY <3>3, <1>d
      <3>4. CASE WritePeer(s, Move(peer[s], "rejected", "denied_by_local_admin"))
        BY <3>1, <3>4, WriteRefusal
      <3> QED BY <2>2, <3>2, <3>3, <3>4 DEF SettleDenial
    <2>3. ASSUME NEW kind, DropOutbound(s, kind) PROVE AllRefusalSteps
      BY <2>3, SameRefusal DEF DropOutbound, rows
    <2> QED BY <1>3, <2>1, <2>2, <2>3 DEF Approvals
  <1>4. ASSUME NEW s \in Side, Upkeep(s) PROVE AllRefusalSteps
    <2>1. CASE ProbeParked(s) \/ ToggleAutoAccept(s) \/ FanOut(s) \/ Crash(s)
      BY <2>1, SameRefusal DEF ProbeParked, ToggleAutoAccept, FanOut, Crash, rows
    <2>2. CASE SettleParked(s)
      <3>1. parked[s] # NoProbe /\ parked'[s] = NoProbe
        BY <2>2 DEF SettleParked, TypeOK, WorkOK
      <3>2. CASE StillParked(s)
        <4>1. Excused(s)
          BY <3>1, <3>2 DEF Excused
        <4> QED BY <2>2, <3>2, <4>1, WriteRefusal, SameRefusal DEF SettleParked, rows
      <3>3. CASE ~StillParked(s)
        BY <2>2, <3>3, SameRefusal DEF SettleParked, rows
      <3> QED BY <3>2, <3>3
    <2>3. CASE Revoke(s) \/ ResetPeer(s) \/ DeletePermanently(s)
      BY <2>3, <1>d DEF Revoke, ResetPeer, DeletePermanently, Decide
    <2>4. CASE AuthRefusal(s) \/ MarkUnreachable(s) \/ Recover(s) \/ DetectReset(s)
               \/ CleanupUnusedPending(s)
      BY <2>4, <1>d DEF AuthRefusal, MarkUnreachable, Recover, DetectReset,
         CleanupUnusedPending
    <2>5. CASE Wipe(s)
      BY <2>5, SpendShows DEF Wipe, AllRefusalSteps, RefusalStep, Excused
    <2> QED BY <1>4, <2>1, <2>2, <2>3, <2>4, <2>5 DEF Upkeep
  <1>5. ASSUME Transit PROVE AllRefusalSteps
    <2>m. ASSUME NEW m \in net PROVE Other(m.from) \in Side
      BY OtherSide DEF TypeOK, ExchangesOK, Messages
    <2>1. ASSUME NEW lost, NEW m \in net, AcceptHandshake(m, lost) PROVE AllRefusalSteps
      <3> DEFINE s == Other(m.from)
      <3>1. PICK row : WritePeer(s, row)
        BY <2>1 DEF AcceptHandshake
      <3>2. ~LocallyRefused(peer[s])
        <4>1. Decision(s, m) \in {"create", "activate"}
          BY <2>1 DEF AcceptHandshake
        <4>2. peer[s].status # "revoked"
          BY <4>1 DEF Decision, DecideInbound, Established
        <4>3. ~(peer[s].status = "rejected" /\ peer[s].reason = "denied_by_local_admin")
          BY <4>1 DEF Decision, DecideInbound, Established, RemoteRejectedReasons
        <4> QED BY <4>2, <4>3 DEF LocallyRefused
      <3> QED BY <2>m, <3>1, <3>2, WriteRefusal
    <2>2. ASSUME NEW lost, NEW m \in net, QueueHandshake(m, lost) PROVE AllRefusalSteps
      BY <2>2, SameRefusal DEF QueueHandshake, rows
    <2>3. ASSUME NEW lost, NEW m \in net, RefuseHandshake(m, lost) PROVE AllRefusalSteps
      <3> DEFINE s == Other(m.from)
      <3>1. CASE UNCHANGED rows
        BY <3>1, SameRefusal DEF rows
      <3>2. CASE /\ Decision(s, m) = "refuse_exists"
                 /\ WritePeer(s, Move(peer[s], "needs_attention", "peer_reset_detected"))
        <4>1. peer[s].status # "revoked"
          BY <3>2 DEF Decision, DecideInbound, Established
        <4>2. ~(peer[s].status = "rejected" /\ peer[s].reason = "denied_by_local_admin")
          BY <3>2 DEF Decision, DecideInbound, Established, RemoteRejectedReasons
        <4> QED BY <2>m, <3>2, <4>1, <4>2, WriteRefusal DEF LocallyRefused
      <3> QED BY <2>3, <3>1, <3>2 DEF RefuseHandshake
    <2>4. ASSUME NEW m \in net, LoseRequest(m) PROVE AllRefusalSteps
      BY <2>4, SameRefusal DEF LoseRequest, rows
    <2> QED BY <1>5, <2>1, <2>2, <2>3, <2>4 DEF Transit
  <1> QED BY <1>1, <1>2, <1>3, <1>4, <1>5 DEF Next

\* A revocation stands until our admin takes it back, and a denial yields to
\* nothing but the answer to a probe the backstop sent before it: no handshake,
\* denial, expiry or crash lifts either.
THEOREM OnlyBackstopLiftsCorrect == Spec => OnlyBackstopLifts
  <1> DEFINE Held ==
        \A s \in Side :
          /\ LocallyRefused(peer[s]) /\ ~LocallyRefused(peer'[s])
          /\ spent'.decisions = spent.decisions /\ spent'.wipes = spent.wipes
          => StillParked(s) /\ parked[s] # NoProbe /\ parked'[s] = NoProbe
  <1>1. TypeOK /\ [Next]_vars => [Held]_vars
    BY StepRefusals DEF AllRefusalSteps, RefusalStep, Excused
  <1> QED BY <1>1, TypeCorrect, PTL DEF Spec, OnlyBackstopLifts

-----------------------------------------------------------------------------
(* Each side knows which instance it peered with *)

\* BaselineKnown is not inductive.  A side whose partner was reinstalled may keep
\* an established row with the epoch of the old instance; what saves the property
\* is that the new instance never gets at the secret of that row.  Reaches lists
\* the ways a secret may get into a side's row.
RowHas(s, secret) == peer[s].status # "none" /\ peer[s].secret = secret

ExchangeHas(s, secret) == ~Idle(s) /\ hs[s].secret = secret

NetHas(s, secret) == \E m \in net : m.from = Other(s) /\ m.secret = secret

QueueHas(s, secret) == inReq[s].open /\ inReq[s].secret = secret

DenialHas(s, secret) == deny[s] # NoDenial /\ deny[s].secret = secret

Reaches(s, secret) ==
  \/ RowHas(s, secret) \/ ExchangeHas(s, secret) \/ NetHas(s, secret)
  \/ QueueHas(s, secret) \/ DenialHas(s, secret)

\* No secret is used before it is generated.
FreshInv == \A s \in Side, secret \in Nat : Reaches(s, secret) => secret <= fresh

\* What is in flight carries the epoch of now: a reinstallation outlasts it.
EpochsInv ==
  /\ \A m \in net : m.epoch = epoch[m.from]
  /\ \A s \in Side :
       /\ hs[s].probe = "verified" /\ ~Idle(s) => hs[s].epoch = epoch[Other(s)]
       /\ parked[s].probe = "verified" => parked[s].epoch = epoch[Other(s)]

\* The secret of a row with an outdated epoch is out of the other side's reach.
StaleInv ==
  \A s \in Side, secret \in Nat :
    (/\ peer[s].status \in Working /\ peer[s].epoch # epoch[Other(s)]
     /\ peer[s].secret = secret)
    => ~Reaches(Other(s), secret)

NewSecret(secret) == secret = fresh + 1 /\ fresh' = fresh + 1

\* Where the secret and the epoch of a row that a step writes come from.
RowFrom(s, row) ==
  /\ row.status = "none" \/ NewSecret(row.secret) \/ Reaches(s, row.secret)
  /\ row.status \in Working =>
       \/ /\ peer[s].status \in Working
          /\ row.secret = peer[s].secret /\ row.epoch = peer[s].epoch
       \/ row.epoch = epoch[Other(s)]

AllRowsFrom == \A x \in Side : RowFrom(x, peer'[x])

\* The row a side has comes from itself, and no row needs no origin.
LEMMA OwnRowFrom ==
  ASSUME NEW s \in Side
  PROVE  RowFrom(s, peer[s]) /\ RowFrom(s, NoRow)
  BY DEF RowFrom, Reaches, RowHas, NoRow, Working

\* A side that writes such a row leaves the other side's alone.
LEMMA WriteFrom ==
  ASSUME TypeOK, NEW s \in Side, NEW row, WritePeer(s, row), RowFrom(s, row)
  PROVE  AllRowsFrom
  <1> SUFFICES ASSUME NEW x \in Side PROVE RowFrom(x, peer'[x])
    BY DEF AllRowsFrom
  <1>1. CASE x = s
    <2>1. peer'[x] = row
      BY <1>1 DEF WritePeer, TypeOK, RowsOK
    <2> QED BY <1>1, <2>1
  <1>2. CASE x # s
    <2>1. peer'[x] = peer[x]
      BY <1>2 DEF WritePeer, TypeOK, RowsOK
    <2> QED BY <2>1, OwnRowFrom
  <1> QED BY <1>1, <1>2

\* A row that is not written comes from itself.
LEMMA SameFrom ==
  ASSUME UNCHANGED peer
  PROVE  AllRowsFrom
  BY OwnRowFrom DEF AllRowsFrom

\* A row that is changed without its secret comes from itself.
LEMMA KeptFrom ==
  ASSUME NEW s \in Side, NEW row, peer[s].status # "none", row.secret = peer[s].secret,
         row.status \in Working =>
           \/ peer[s].status \in Working /\ row.epoch = peer[s].epoch
           \/ row.epoch = epoch[Other(s)]
  PROVE  RowFrom(s, row)
  BY DEF RowFrom, Reaches, RowHas

\* Moving a row leaves its secret and its epoch.
LEMMA MoveEpoch ==
  ASSUME NEW row \in PeerRows, NEW status, NEW reason, NEW secret, NEW e
  PROVE  /\ Move(row, status, reason).epoch = row.epoch
         /\ Activated(row, secret, e).epoch = e
  BY DEF Move, Activated, PeerRows

\* A row moved within the working statuses, or out of them, comes from itself.
LEMMA MovedFrom ==
  ASSUME TypeOK, NEW s \in Side, NEW status, NEW reason, peer[s].status # "none",
         status \in Working => peer[s].status \in Working
  PROVE  RowFrom(s, Move(peer[s], status, reason))
  <1>1. peer[s] \in PeerRows
    BY DEF TypeOK, RowsOK
  <1> QED BY <1>1, MoveSecret, MoveEpoch, KeptFrom

\* So does a row that is activated on its own secret with the epoch of now.
LEMMA ActivatedFrom ==
  ASSUME TypeOK, NEW s \in Side, NEW secret, Reaches(s, secret)
  PROVE  RowFrom(s, Activated(peer[s], secret, epoch[Other(s)]))
  <1>1. peer[s] \in PeerRows
    BY DEF TypeOK, RowsOK
  <1> QED BY <1>1, MoveSecret, MoveEpoch DEF RowFrom

\* An exchange ends with the row it is given, or parks that row.
LEMMA FinishFrom ==
  ASSUME TypeOK, NEW s \in Side, NEW row \in PeerRows, Finish(s, row), RowFrom(s, row)
  PROVE  AllRowsFrom
  <1>1. PICK final : /\ WritePeer(s, final)
                     /\ \/ final = row
                        \/ /\ row.status = "pending"
                           /\ final = Move(row, "rejected", "stale_peering_on_remote")
    BY DEF Finish
  <1>2. RowFrom(s, final)
    BY <1>1, MoveSecret DEF RowFrom, Working
  <1> QED BY <1>1, <1>2, WriteFrom

\* The rows after a step that is no reinstallation.
LEMMA StepFrom ==
  ASSUME TypeOK, EpochsInv, Next, \A y \in Side : ~Wipe(y)
  PROVE  AllRowsFrom
  <1>t. \A s \in Side : peer[s] \in PeerRows
    BY DEF TypeOK, RowsOK
  <1>n. ASSUME NEW s \in Side, NEW by, fresh' = fresh + 1
        PROVE  /\ RowFrom(s, NewRow("pending", "null", fresh + 1, by, 0))
               /\ RowFrom(s, [NewRow("pending", "null", fresh + 1, by, 0)
                                EXCEPT !.queued = TRUE])
    BY <1>n DEF RowFrom, NewSecret, NewRow, NoRow, Working
  <1>k. ASSUME NEW s \in Side, peer[s].status # "none"
        PROVE  /\ \A q : RowFrom(s, [peer[s] EXCEPT !.queued = q])
               /\ \A by : RowFrom(s, [peer[s] EXCEPT !.by = by])
    BY <1>t, <1>k, KeptFrom DEF PeerRows
  <1>1. ASSUME NEW s \in Side, Local(s) PROVE AllRowsFrom
    <2>1. CASE QueueEvent(s)
      BY <2>1, <1>n, <1>k, WriteFrom DEF QueueEvent
    <2>2. CASE EmptyQueue(s)
      <3>1. RowFrom(s, [peer[s] EXCEPT !.queued = FALSE])
        BY <1>t DEF RowFrom, Reaches, RowHas, PeerRows
      <3> QED BY <2>2, <3>1, WriteFrom DEF EmptyQueue
    <2>3. ASSUME NEW intent, OutboundGate(s, intent) PROVE AllRowsFrom
      BY <2>3, OwnRowFrom, WriteFrom DEF OutboundGate
    <2>4. ASSUME EnsurePeered(s) PROVE AllRowsFrom
      BY <2>4, <1>n, WriteFrom, SameFrom DEF EnsurePeered, rows
    <2>5. CASE ResolvePendingPeer(s)
      BY <2>5, <2>3, <2>4 DEF ResolvePendingPeer
    <2>6. ASSUME NEW mode, AdminHandshake(s, mode) PROVE AllRowsFrom
      BY <2>6, <1>n, <1>k, WriteFrom, SameFrom DEF AdminHandshake, rows
    <2>7. CASE ApproveEstablished(s)
      BY <2>7, SameFrom DEF ApproveEstablished, rows
    <2> QED BY <1>1, <2>1, <2>2, <2>3, <2>4, <2>5, <2>6, <2>7 DEF Local
  <1>2. ASSUME NEW s \in Side, Settle(s) PROVE AllRowsFrom
    <2>h. hs[s].secret \in Nat /\ hs[s].epoch \in Nat /\ hs[s].token \in Nat
      BY DEF TypeOK, ExchangesOK, Exchange
    <2>g. GoodRow(peer[s]) /\ GoodRow(NoRow)
      BY PeerGood, NoRowGood
    <2>k. ASSUME NEW row, Finish(s, row), GoodRow(row), RowFrom(s, row)
          PROVE  AllRowsFrom
      BY <2>k, FinishFrom DEF GoodRow
    <2>m. Mine(s) => peer[s].status = "pending" /\ RowHas(s, hs[s].secret)
      BY DEF Mine, RowHas
    <2>1. CASE SettleQueued(s)
      <3> DEFINE row == [Move(peer[s], "awaiting_approval", "null") EXCEPT !.token = hs[s].token]
      <3>1. GoodRow(row)
        BY <1>t, <2>h DEF GoodRow, Move, PeerRows, Status, Reasons, ReasonsOf
      <3>2. row.status = "awaiting_approval" /\ row.secret = peer[s].secret
        BY <1>t DEF Move, PeerRows
      <3>3. Mine(s) => RowFrom(s, row)
        BY <2>m, <3>2, KeptFrom DEF Working
      <3> QED BY <2>1, OwnRowFrom, <2>g, <2>k, <3>1, <3>3 DEF SettleQueued
    <2>2. CASE SettleRefused(s)
      <3>1. \A r \in {"denied_by_remote", "revoked_by_remote"} :
              /\ GoodRow(Move(peer[s], "rejected", r))
              /\ Mine(s) => RowFrom(s, Move(peer[s], "rejected", r))
        BY <1>t, <2>m, MoveGood, MovedFrom DEF Status, ReasonsOf, RemoteRejectedReasons,
           Working
      <3> QED BY <2>2, OwnRowFrom, <2>g, <2>k, <3>1 DEF SettleRefused
    <2>3. CASE SettleInProgress(s)
      BY <2>3, OwnRowFrom, <2>g, <2>k DEF SettleInProgress
    <2>4. CASE GiveUp(s)
      <3>1. /\ GoodRow([peer[s] EXCEPT !.by = "auto"])
            /\ peer[s].status = "pending" => RowFrom(s, [peer[s] EXCEPT !.by = "auto"])
        BY <1>t, <1>k, <2>g DEF GoodRow, PeerRows
      <3>2. PICK row : GoodRow(row) /\ RowFrom(s, row) /\ Finish(s, row)
        BY <2>4, OwnRowFrom, <2>g, <3>1 DEF GiveUp
      <3> QED BY <2>k, <3>2
    <2>5. CASE Verify(s)
      BY <2>5, SameFrom DEF Verify, rows
    <2>a. GoodRow(Activated(peer[s], hs[s].secret, hs[s].epoch))
      BY <1>t, <2>h, ActivatedGood
    <2>b. Mine(s) /\ ~Idle(s) /\ hs[s].probe = "verified" =>
            RowFrom(s, Activated(peer[s], hs[s].secret, hs[s].epoch))
      <3> SUFFICES ASSUME Mine(s), ~Idle(s), hs[s].probe = "verified"
                   PROVE  RowFrom(s, Activated(peer[s], hs[s].secret, hs[s].epoch))
        OBVIOUS
      <3>1. hs[s].epoch = epoch[Other(s)]
        BY DEF EpochsInv
      <3>2. Reaches(s, hs[s].secret)
        BY <2>m DEF Reaches
      <3> QED BY <3>1, <3>2, ActivatedFrom
    <2>6. CASE SettleExists(s)
      <3>1. /\ GoodRow(Move(peer[s], "rejected", "stale_peering_on_remote"))
            /\ Mine(s) => RowFrom(s, Move(peer[s], "rejected", "stale_peering_on_remote"))
        BY <1>t, <2>m, MoveGood, MovedFrom DEF Status, ReasonsOf, RemoteRejectedReasons,
           Working
      <3>2. ~Idle(s)
        BY <2>6 DEF SettleExists, Idle
      <3>3. GoodRow(AfterExists(s)) /\ RowFrom(s, AfterExists(s))
        BY OwnRowFrom, <2>g, <2>a, <2>b, <3>1, <3>2 DEF AfterExists
      <3> QED BY <2>6, <2>k, <3>3 DEF SettleExists
    <2>7. CASE SettleAccepted(s)
      <3>1. /\ GoodRow(Move(peer[s], "needs_attention", "repeer_incomplete"))
            /\ Mine(s) => RowFrom(s, Move(peer[s], "needs_attention", "repeer_incomplete"))
        BY <1>t, <2>m, MoveGood, MovedFrom DEF Status, ReasonsOf, AttentionReasons,
           Working
      <3>2. ~Idle(s)
        BY <2>7 DEF SettleAccepted, Idle
      <3> DEFINE both == [peer[s] EXCEPT !.secret = hs[s].secret, !.epoch = hs[s].epoch]
      <3>3. GoodRow(both) /\ both.secret = hs[s].secret /\ both.epoch = hs[s].epoch
        BY <1>t, <2>g, <2>h DEF GoodRow, PeerRows
      <3>4. TookBoth(s) => RowFrom(s, both)
        <4>1. Reaches(s, hs[s].secret)
          BY <3>2 DEF Reaches, ExchangeHas
        <4>2. hs[s].probe = "verified" => hs[s].epoch = epoch[Other(s)]
          BY <3>2 DEF EpochsInv
        <4> QED BY <3>3, <4>1, <4>2 DEF TookBoth, RowFrom
      <3>5. GoodRow(AfterAccept(s)) /\ RowFrom(s, AfterAccept(s))
        BY OwnRowFrom, <2>g, <2>a, <2>b, <3>1, <3>2, <3>3, <3>4 DEF AfterAccept
      <3> QED BY <2>7, <2>k, <3>5 DEF SettleAccepted
    <2> QED BY <1>2, <2>1, <2>2, <2>3, <2>4, <2>5, <2>6, <2>7 DEF Settle
  <1>3. ASSUME NEW s \in Side, Approvals(s) PROVE AllRowsFrom
    <2>r. \A r : \A x \in Side : peer[x].status # "none" =>
            RowFrom(x, Move(peer[x], "rejected", r))
      BY MovedFrom DEF Working
    <2>1. ASSUME NEW kind, NEW lost, DenyInbound(s, kind, lost) PROVE AllRowsFrom
      BY <2>1, <2>r, OtherSide, WriteFrom DEF DenyInbound
    <2>2. CASE SettleDenial(s)
      <3>1. RowFrom(s, NewRow("rejected", "denied_by_local_admin", deny[s].secret, "admin", 0))
        <4>1. Reaches(s, deny[s].secret)
          BY <2>2 DEF SettleDenial, Reaches, DenialHas
        <4> QED BY <4>1 DEF RowFrom, NewRow, NoRow, Working
      <3> QED BY <2>2, <2>r, <3>1, WriteFrom, SameFrom DEF SettleDenial, rows
    <2>3. ASSUME NEW kind, DropOutbound(s, kind) PROVE AllRowsFrom
      BY <2>3, SameFrom DEF DropOutbound, rows
    <2> QED BY <1>3, <2>1, <2>2, <2>3 DEF Approvals
  <1>4. ASSUME NEW s \in Side, Upkeep(s) PROVE AllRowsFrom
    <2>1. CASE ProbeParked(s) \/ ToggleAutoAccept(s) \/ FanOut(s) \/ Crash(s)
      BY <2>1, SameFrom DEF ProbeParked, ToggleAutoAccept, FanOut, Crash, rows
    <2>2. CASE SettleParked(s)
      <3>1. ASSUME StillParked(s)
            PROVE  /\ parked[s].probe = "verified" =>
                        RowFrom(s, Activated(peer[s], parked[s].secret, parked[s].epoch))
                   /\ RowFrom(s, Move(peer[s], "pending", "null"))
        <4>1. parked[s].probe = "verified" => parked[s].epoch = epoch[Other(s)]
          BY DEF EpochsInv
        <4>2. Reaches(s, parked[s].secret)
          BY <3>1 DEF StillParked, Reaches, RowHas
        <4> QED BY <3>1, <4>1, <4>2, ActivatedFrom, MovedFrom DEF StillParked, Working
      <3> QED BY <2>2, OwnRowFrom, <3>1, WriteFrom, SameFrom DEF SettleParked, rows
    <2>3. CASE Revoke(s)
      BY <2>3, MovedFrom, WriteFrom DEF Revoke, Decide, Working
    <2>4. CASE ResetPeer(s) \/ DeletePermanently(s) \/ CleanupUnusedPending(s)
      BY <2>4, OwnRowFrom, WriteFrom DEF ResetPeer, DeletePermanently,
         CleanupUnusedPending, Decide
    <2>5. CASE AuthRefusal(s) \/ MarkUnreachable(s) \/ Recover(s) \/ DetectReset(s)
      BY <2>5, MovedFrom, WriteFrom DEF AuthRefusal, MarkUnreachable, Recover,
         DetectReset, Working
    <2> QED BY <1>4, <2>1, <2>2, <2>3, <2>4, <2>5 DEF Upkeep
  <1>5. ASSUME Transit PROVE AllRowsFrom
    <2>m. ASSUME NEW m \in net
          PROVE  /\ Other(m.from) \in Side /\ m.from = Other(Other(m.from))
                 /\ m.epoch = epoch[m.from]
      BY OtherSide DEF TypeOK, ExchangesOK, Messages, EpochsInv
    <2>1. ASSUME NEW lost, NEW m \in net, AcceptHandshake(m, lost) PROVE AllRowsFrom
      <3> DEFINE s == Other(m.from)
      <3>1. Reaches(s, m.secret)
        BY <2>m DEF Reaches, NetHas
      <3>2. RowFrom(s, NewRow("active", "null", m.secret, "remote", m.epoch))
        BY <2>m, <3>1 DEF RowFrom, NewRow, NoRow
      <3>3. RowFrom(s, Activated(peer[s], m.secret, m.epoch))
        <4>1. RowFrom(s, Activated(peer[s], m.secret, epoch[Other(s)]))
          BY <2>m, <3>1, ActivatedFrom
        <4> QED BY <2>m, <4>1
      <3> QED BY <2>1, <2>m, <3>2, <3>3, WriteFrom DEF AcceptHandshake
    <2>2. ASSUME NEW lost, NEW m \in net, QueueHandshake(m, lost) PROVE AllRowsFrom
      BY <2>2, SameFrom DEF QueueHandshake, rows
    <2>3. ASSUME NEW lost, NEW m \in net, RefuseHandshake(m, lost) PROVE AllRowsFrom
      <3> DEFINE s == Other(m.from)
      <3>1. CASE UNCHANGED rows
        BY <3>1, SameFrom DEF rows
      <3>2. CASE /\ Decision(s, m) = "refuse_exists"
                 /\ WritePeer(s, Move(peer[s], "needs_attention", "peer_reset_detected"))
        <4>1. peer[s].status # "none"
          BY <3>2 DEF Decision, DecideInbound, Established
        <4> QED BY <2>m, <3>2, <4>1, MovedFrom, WriteFrom DEF Working
      <3> QED BY <2>3, <3>1, <3>2 DEF RefuseHandshake
    <2>4. ASSUME NEW m \in net, LoseRequest(m) PROVE AllRowsFrom
      BY <2>4, SameFrom DEF LoseRequest, rows
    <2> QED BY <1>5, <2>1, <2>2, <2>3, <2>4 DEF Transit
  <1> QED BY <1>1, <1>2, <1>3, <1>4, <1>5 DEF Next

\* While a sender waits there is one request of its exchange to be answered, and
\* else there is none: no answer reaches an exchange that is over.
LiveInv ==
  /\ \A m \in net : m.live => hs[m.from].at = "sent"
  /\ \A m, n \in net : m.live /\ n.live /\ m.from = n.from => m = n

\* One step keeps one live request per waiting sender.
LEMMA LiveStep ==
  ASSUME TypeOK, LiveInv, Next
  PROVE  LiveInv'
  <1>t. hs \in [Side -> Exchange] /\ \A m \in net : m \in Messages /\ m.from \in Side
    BY DEF TypeOK, ExchangesOK, Messages
  <1>1. ASSUME NEW s \in Side, Sends(s) PROVE LiveInv'
    <2>1. PICK mode, secret, onFailure, token :
            Idle(s) /\ Send(s, mode, secret, onFailure, token)
      BY <1>1 DEF Sends
    <2>2. \A m \in net : m.live => m.from # s
      BY <2>1 DEF LiveInv, Idle
    <2>3. hs'[s].at = "sent" /\ \A x \in Side : x # s => hs'[x] = hs[x]
      BY <1>t, <2>1 DEF Send, NoExchange
    <2>4. PICK new : new.from = s /\ net' = net \cup {new}
      BY <2>1 DEF Send
    <2> QED BY <1>t, <2>2, <2>3, <2>4 DEF LiveInv
  <1>2. ASSUME NEW s \in Side, Ends(s) PROVE LiveInv'
    <2>1. \A m \in net : m.live => m.from # s
      BY <1>2 DEF LiveInv, Ends
    <2> QED BY <1>t, <1>2, <2>1 DEF LiveInv, Ends
  <1>3. ASSUME NEW s \in Side, Leaves(s) PROVE LiveInv'
    <2>1. \A x \in Side : x # s => hs'[x] = hs[x]
      BY <1>t, <1>3 DEF Leaves
    <2>2. \A n \in net : ~[n EXCEPT !.live = FALSE].live
      BY <1>t DEF Messages
    <2>3. \A m \in net' : m.live => m \in net /\ m.from # s
      BY <1>3, <2>2 DEF Leaves
    <2> QED BY <1>t, <2>1, <2>3 DEF LiveInv
  <1>4. ASSUME NEW m \in net, Heard(m) PROVE LiveInv'
    <2>1. PICK answer, token, lost, cleared : Answer(m, answer, token, lost, cleared)
      BY <1>4 DEF Heard
    <2>2. ASSUME NEW x \in Side, ~(x = m.from /\ m.live) PROVE hs'[x].at = hs[x].at
      <3>1. hs[x] \in Exchange
        BY <1>t
      <3> QED BY <2>1, <2>2, <3>1 DEF Answer, Exchange
    <2>3. net' = net \ {m}
      BY <2>1 DEF Answer
    <2>4. ASSUME NEW n \in net', n.live PROVE hs'[n.from].at = "sent"
      <3>1. n \in net /\ n.from \in Side /\ ~(n.from = m.from /\ m.live)
        BY <1>t, <2>3, <2>4 DEF LiveInv
      <3> QED BY <2>2, <2>4, <3>1 DEF LiveInv
    <2> QED BY <2>3, <2>4 DEF LiveInv
  <1>5. CASE Rests
    BY <1>t, <1>5 DEF LiveInv, Rests
  <1> QED BY <1>1, <1>2, <1>3, <1>4, <1>5, StepShapes DEF Shapes

\* The exchange of a side after a step: over, the one it was, or sent with the
\* secret of the row, which is pending.
ExchangeFrom(x) ==
  \/ hs'[x].at = "idle"
  \/ hs[x].at # "idle" /\ hs'[x].secret = hs[x].secret
  \/ /\ hs'[x].probe = "none"
     /\ peer'[x].status = "pending" /\ peer'[x].secret = hs'[x].secret

\* Every step leaves each side's exchange in one of these ways.
LEMMA StepExchange ==
  ASSUME TypeOK, LiveInv, Next, NEW x \in Side
  PROVE  ExchangeFrom(x)
  <1>t. hs \in [Side -> Exchange] /\ \A m \in net : m.from \in Side
    BY DEF TypeOK, ExchangesOK, Messages
  <1>0. hs'[x] = hs[x] => ExchangeFrom(x)
    BY DEF ExchangeFrom
  <1>1. ASSUME NEW s \in Side, Sends(s) PROVE ExchangeFrom(x)
    <2>1. PICK mode, secret, onFailure, token :
            /\ Send(s, mode, secret, onFailure, token)
            /\ peer'[s].status = "pending" /\ peer'[s].secret = secret
      BY <1>1 DEF Sends
    <2>2. x = s => hs'[x].secret = secret /\ hs'[x].probe = "none"
      BY <1>t, <2>1 DEF Send, NoExchange
    <2>3. x # s => hs'[x] = hs[x]
      BY <1>t, <2>1 DEF Send
    <2> QED BY <1>0, <2>1, <2>2, <2>3 DEF ExchangeFrom
  <1>2. ASSUME NEW s \in Side, hs' = [hs EXCEPT ![s] = NoExchange] PROVE ExchangeFrom(x)
    <2>1. x = s => hs'[x].at = "idle"
      BY <1>t, <1>2 DEF NoExchange
    <2>2. x # s => hs'[x] = hs[x]
      BY <1>t, <1>2
    <2> QED BY <1>0, <2>1, <2>2 DEF ExchangeFrom
  <1>3. ASSUME NEW m \in net, Heard(m) PROVE ExchangeFrom(x)
    <2>1. PICK answer, token, lost, cleared : Answer(m, answer, token, lost, cleared)
      BY <1>3 DEF Heard
    <2>2. hs'[x].secret = hs[x].secret
      BY <1>t, <2>1 DEF Answer, Exchange
    <2>3. hs'[x].at = hs[x].at \/ hs[x].at = "sent"
      BY <1>t, <2>1 DEF Answer, Exchange, LiveInv
    <2> QED BY <2>2, <2>3 DEF ExchangeFrom
  <1>4. CASE Rests
    BY <1>4 DEF Rests, ExchangeFrom
  <1> QED BY <1>1, <1>2, <1>3, <1>4, StepShapes DEF Shapes, Ends, Leaves

\* The approval request and the denial of a side after a step carry the secret they
\* had, or that of a request from the other side or of the approval request.
StoredFrom(x) ==
  /\ inReq'[x].open =>
       \/ inReq[x].open /\ inReq'[x].secret = inReq[x].secret
       \/ NetHas(x, inReq'[x].secret)
  /\ deny'[x] # NoDenial =>
       \/ deny[x] # NoDenial /\ deny'[x].secret = deny[x].secret
       \/ QueueHas(x, deny'[x].secret)

\* What is unchanged, gone or marked keeps its secret.
LEMMA StoredKept ==
  ASSUME TypeOK, NEW x \in Side,
         inReq'[x] = inReq[x] \/ inReq'[x] = NoRequest,
         \/ deny'[x] = deny[x] \/ deny'[x] = NoDenial
         \/ deny'[x] = [deny[x] EXCEPT !.req = FALSE]
  PROVE  StoredFrom(x)
  <1>1. deny[x] \in Denials
    BY DEF TypeOK, WorkOK
  <1>2. [deny[x] EXCEPT !.req = FALSE].secret = deny[x].secret
    BY <1>1 DEF Denials
  <1>3. ASSUME deny[x] = NoDenial PROVE [deny[x] EXCEPT !.req = FALSE] = deny[x]
    <2>1. deny[x].req = FALSE
      BY <1>3 DEF NoDenial
    <2> QED BY <1>1, <2>1 DEF Denials
  <1>4. deny'[x] # NoDenial => deny[x] # NoDenial /\ deny'[x].secret = deny[x].secret
    BY <1>2, <1>3
  <1>5. inReq'[x].open => inReq[x].open /\ inReq'[x].secret = inReq[x].secret
    BY DEF NoRequest
  <1> QED BY <1>4, <1>5 DEF StoredFrom

\* Every step does so with what a side has stored.
LEMMA StepStored ==
  ASSUME TypeOK, Next, NEW x \in Side
  PROVE  StoredFrom(x)
  <1>t. inReq \in [Side -> Request] /\ deny \in [Side -> Denials]
    BY DEF TypeOK, RequestsOK, WorkOK
  <1>u. UNCHANGED <<inReq, deny>> => StoredFrom(x)
    BY StoredKept
  <1>1. ASSUME NEW s \in Side, Local(s) PROVE StoredFrom(x)
    <2>1. CASE ApproveEstablished(s)
      BY <1>t, <2>1, StoredKept DEF ApproveEstablished
    <2>2. CASE UNCHANGED <<inReq, deny>>
      BY <1>u, <2>2
    <2> QED BY <1>1, <2>1, <2>2 DEF Local, QueueEvent, EmptyQueue, OutboundGate, EnsurePeered,
            ResolvePendingPeer, AdminHandshake, requests, work
  <1>2. ASSUME NEW s \in Side, Settle(s) PROVE StoredFrom(x)
    <2>1. ASSUME NEW row, Finish(s, row) PROVE StoredFrom(x)
      <3>1. \/ inReq' = inReq \/ inReq' = [inReq EXCEPT ![s] = NoRequest]
        BY <2>1 DEF Finish
      <3>2. \/ deny' = deny \/ deny' = [deny EXCEPT ![s].req = FALSE]
        BY <2>1 DEF Finish
      <3> QED BY <1>t, <3>1, <3>2, StoredKept
    <2>2. CASE Verify(s)
      BY <1>u, <2>2 DEF Verify, requests, work
    <2> QED BY <1>2, <2>1, <2>2 DEF Settle, SettleQueued, SettleRefused,
            SettleInProgress, GiveUp, SettleExists, SettleAccepted
  <1>3. ASSUME NEW s \in Side, Approvals(s) PROVE StoredFrom(x)
    <2>1. ASSUME NEW kind, NEW lost, DenyInbound(s, kind, lost) PROVE StoredFrom(x)
      <3>1. UNCHANGED inReq
        BY <2>1 DEF DenyInbound, requests
      <3>2. CASE UNCHANGED deny
        BY <1>u, <3>1, <3>2
      <3>3. CASE /\ inReq[s].open
                 /\ deny' = [deny EXCEPT ![s] = [kind |-> kind, secret |-> inReq[s].secret,
                                                 req |-> TRUE]]
        BY <1>t, <3>1, <3>3 DEF StoredFrom, QueueHas
      <3> QED BY <2>1, <3>2, <3>3 DEF DenyInbound
    <2>2. CASE SettleDenial(s)
      BY <1>t, <2>2, StoredKept DEF SettleDenial
    <2>3. ASSUME NEW kind, DropOutbound(s, kind) PROVE StoredFrom(x)
      BY <1>u, <2>3 DEF DropOutbound, work
    <2> QED BY <1>3, <2>1, <2>2, <2>3 DEF Approvals
  <1>4. ASSUME NEW s \in Side, Upkeep(s) PROVE StoredFrom(x)
    <2>1. CASE Crash(s)
      BY <1>t, <2>1, StoredKept DEF Crash, requests
    <2>2. CASE Wipe(s)
      BY <1>t, <2>2, StoredKept DEF Wipe, work
    <2>3. CASE UNCHANGED <<inReq, deny>>
      BY <1>u, <2>3
    <2> QED BY <1>4, <2>1, <2>2, <2>3 DEF Upkeep, ProbeParked, SettleParked, Revoke,
            ResetPeer, DeletePermanently, ToggleAutoAccept, AuthRefusal, MarkUnreachable,
            Recover, DetectReset, CleanupUnusedPending, FanOut, Decide, requests, work
  <1>5. ASSUME Transit PROVE StoredFrom(x)
    <2>1. ASSUME NEW lost, NEW m \in net, AcceptHandshake(m, lost) PROVE StoredFrom(x)
      BY <1>t, <2>1, StoredKept DEF AcceptHandshake
    <2>2. ASSUME NEW lost, NEW m \in net, QueueHandshake(m, lost) PROVE StoredFrom(x)
      <3> DEFINE s == Other(m.from)
      <3>1. UNCHANGED deny /\ Other(s) = m.from
        BY <2>2, OtherSide DEF QueueHandshake, work, TypeOK, ExchangesOK, Messages
      <3>2. CASE UNCHANGED inReq
        BY <1>u, <3>1, <3>2
      <3>3. CASE \E token : inReq' = [inReq EXCEPT ![s] =
                                        [open |-> TRUE, secret |-> m.secret, token |-> token]]
        BY <1>t, <3>1, <3>3 DEF StoredFrom, NetHas
      <3> QED BY <2>2, <3>2, <3>3 DEF QueueHandshake
    <2>3. ASSUME NEW lost, NEW m \in net, RefuseHandshake(m, lost) PROVE StoredFrom(x)
      BY <1>u, <2>3 DEF RefuseHandshake, requests, work
    <2>4. ASSUME NEW m \in net, LoseRequest(m) PROVE StoredFrom(x)
      BY <1>u, <2>4 DEF LoseRequest, requests, work
    <2> QED BY <1>5, <2>1, <2>2, <2>3, <2>4 DEF Transit
  <1> QED BY <1>1, <1>2, <1>3, <1>4, <1>5 DEF Next

\* Only a reinstallation changes an instance id, and a step generates at most one
\* secret.
LEMMA StepSettings ==
  ASSUME TypeOK, Next
  PROVE  /\ fresh \in Nat /\ fresh' \in Nat /\ fresh <= fresh'
         /\ (\A y \in Side : ~Wipe(y)) => UNCHANGED epoch
  <1> DEFINE Goal == /\ fresh' = fresh \/ fresh' = fresh + 1
                     /\ (\A y \in Side : ~Wipe(y)) => UNCHANGED epoch
  <1>1. ASSUME NEW s \in Side, Local(s) PROVE Goal
    BY <1>1 DEF Local, QueueEvent, EmptyQueue, OutboundGate, EnsurePeered,
       ResolvePendingPeer, AdminHandshake, ApproveEstablished, settings
  <1>2. ASSUME NEW s \in Side, Settle(s) PROVE Goal
    BY <1>2 DEF Settle, SettleQueued, SettleRefused, SettleInProgress, GiveUp, Verify,
       SettleExists, SettleAccepted, Finish, settings
  <1>3. ASSUME NEW s \in Side, Approvals(s) PROVE Goal
    BY <1>3 DEF Approvals, DenyInbound, SettleDenial, DropOutbound, settings
  <1>4. ASSUME NEW s \in Side, Upkeep(s) PROVE Goal
    BY <1>4 DEF Upkeep, ProbeParked, SettleParked, Revoke, ResetPeer, DeletePermanently,
       ToggleAutoAccept, AuthRefusal, MarkUnreachable, Recover, DetectReset,
       CleanupUnusedPending, FanOut, Crash, Wipe, Decide, settings
  <1>5. ASSUME Transit PROVE Goal
    BY <1>5 DEF Transit, AcceptHandshake, QueueHandshake, RefuseHandshake, LoseRequest,
       settings
  <1>6. Goal
    BY <1>1, <1>2, <1>3, <1>4, <1>5 DEF Next
  <1>7. fresh \in Nat
    BY DEF TypeOK, CountersOK
  <1> QED BY <1>6, <1>7

\* One step that is no reinstallation: what is in flight carries the epoch of now.
LEMMA EpochsStep ==
  ASSUME TypeOK, LiveInv, EpochsInv, Next, \A y \in Side : ~Wipe(y)
  PROVE  EpochsInv'
  <1>e. UNCHANGED epoch
    BY StepSettings
  <1>t. hs \in [Side -> Exchange] /\ \A m \in net : m \in Messages
    BY DEF TypeOK, ExchangesOK
  <1>1. ASSUME NEW m \in net' PROVE m.epoch = epoch[m.from]
    <2>1. ASSUME NEW s \in Side, Sends(s) PROVE m.epoch = epoch[m.from]
      BY <2>1 DEF Sends, Send, EpochsInv
    <2>2. ASSUME NEW s \in Side, Leaves(s) PROVE m.epoch = epoch[m.from]
      <3>1. \A n \in net : /\ [n EXCEPT !.live = FALSE].from = n.from
                           /\ [n EXCEPT !.live = FALSE].epoch = n.epoch
        BY <1>t DEF Messages
      <3>2. PICK n \in net : m = n \/ m = [n EXCEPT !.live = FALSE]
        BY <2>2 DEF Leaves
      <3>3. m.from = n.from /\ m.epoch = n.epoch
        BY <3>1, <3>2
      <3> QED BY <3>3 DEF EpochsInv
    <2>3. CASE net' \subseteq net
      BY <2>3 DEF EpochsInv
    <2> QED BY <2>1, <2>2, <2>3, StepShapes DEF Shapes, Ends, Heard, Answer, Rests
  <1>2. ASSUME NEW s \in Side, hs'[s].probe = "verified", hs'[s].at # "idle"
        PROVE  hs'[s].epoch = epoch[Other(s)]
    BY <1>2, StepProbes, StepExchange DEF ProbeStep, ExchangeFrom, EpochsInv, Idle
  <1>3. ASSUME NEW s \in Side, parked'[s].probe = "verified"
        PROVE  parked'[s].epoch = epoch[Other(s)]
    BY <1>3, StepProbes DEF ProbeStep, EpochsInv
  <1> QED BY <1>e, <1>1, <1>2, <1>3 DEF EpochsInv, Idle

\* One step that is no reinstallation: a secret gets within a side's reach only if
\* it is new, or the other side's row is pending on it.
LEMMA StepReaches ==
  ASSUME TypeOK, LiveInv, EpochsInv, Next, \A y \in Side : ~Wipe(y),
         NEW x \in Side, NEW secret \in Nat, Reaches(x, secret)'
  PROVE  \/ Reaches(x, secret) \/ NewSecret(secret)
         \/ /\ peer'[Other(x)].status = "pending"
            /\ Reaches(Other(x), secret)
  <1>o. Other(x) \in Side /\ Other(Other(x)) = x
    BY OtherSide
  <1>r. \A y \in Side : peer'[y].status # "none" =>
          NewSecret(peer'[y].secret) \/ Reaches(y, peer'[y].secret)
    BY StepFrom DEF AllRowsFrom, RowFrom
  <1>1. CASE RowHas(x, secret)'
    BY <1>1, <1>r DEF RowHas
  <1>2. CASE ExchangeHas(x, secret)'
    <2>1. hs'[x].at # "idle" /\ hs'[x].secret = secret
      BY <1>2 DEF ExchangeHas, Idle
    <2>2. CASE hs[x].at # "idle" /\ hs'[x].secret = hs[x].secret
      BY <2>1, <2>2 DEF Reaches, ExchangeHas, Idle
    <2>3. CASE peer'[x].status = "pending" /\ peer'[x].secret = hs'[x].secret
      BY <1>r, <2>1, <2>3
    <2> QED BY <2>1, <2>2, <2>3, StepExchange DEF ExchangeFrom
  <1>3. CASE NetHas(x, secret)'
    <2>1. PICK m \in net' : m.from = Other(x) /\ m.secret = secret
      BY <1>3 DEF NetHas
    <2>2. CASE \E n \in net : n.from = m.from /\ n.secret = m.secret
      BY <2>1, <2>2 DEF Reaches, NetHas
    <2>3. CASE peer'[m.from].status = "pending" /\ peer'[m.from].secret = m.secret
      BY <1>o, <1>r, <2>1, <2>3
    <2> QED BY <2>2, <2>3, StepNet DEF NetStep
  <1>4. CASE QueueHas(x, secret)' \/ DenialHas(x, secret)'
    BY <1>4, StepStored DEF StoredFrom, QueueHas, DenialHas, Reaches
  <1> QED BY <1>1, <1>2, <1>3, <1>4 DEF Reaches

\* After a reinstallation no secret is within a side's reach that was not before,
\* and none at all is within reach of the new instance.
LEMMA WipeReaches ==
  ASSUME TypeOK, NEW y \in Side, Wipe(y)
  PROVE  /\ UNCHANGED <<hs, net, parked, fresh>>
         /\ net = {} /\ \A s \in Side : Idle(s) /\ parked[s].probe = "none"
         /\ peer'[y].status = "none"
         /\ \A x \in Side : peer'[x] = peer[x] \/ peer'[x].status = "none"
         /\ \A x \in Side, secret \in Nat :
              Reaches(x, secret)' => x # y /\ Reaches(x, secret)
  <1>1. /\ UNCHANGED <<hs, net, parked, deny, fresh>>
        /\ net = {} /\ \A s \in Side : Idle(s) /\ deny[s] = NoDenial /\ parked[s] = NoProbe
    BY DEF Wipe, Quiet, work
  <1>2. ASSUME NEW x \in Side
        PROVE  /\ peer'[x] = IF x = y THEN NoRow ELSE peer[x]
               /\ inReq'[x] = IF x = y THEN NoRequest ELSE inReq[x]
    BY DEF Wipe, TypeOK, RowsOK, RequestsOK
  <1>3. NoRow.status = "none" /\ NoRequest.open = FALSE /\ NoProbe.probe = "none"
    BY DEF NoRow, NoRequest, NoProbe
  <1>4. ASSUME NEW x \in Side, NEW secret \in Nat, Reaches(x, secret)'
        PROVE  x # y /\ Reaches(x, secret)
    <2>1. RowHas(x, secret)' \/ QueueHas(x, secret)'
      BY <1>1, <1>4 DEF Reaches, ExchangeHas, NetHas, DenialHas, Idle
    <2> QED BY <1>2, <1>3, <2>1 DEF RowHas, QueueHas, Reaches
  <1> QED BY <1>1, <1>2, <1>3, <1>4

\* One step uses no secret before it is generated.
LEMMA FreshStep ==
  ASSUME TypeOK, LiveInv, EpochsInv, FreshInv, Next
  PROVE  FreshInv'
  <1>f. fresh \in Nat /\ fresh' \in Nat /\ fresh <= fresh'
    BY StepSettings
  <1> SUFFICES ASSUME NEW x \in Side, NEW secret \in Nat, Reaches(x, secret)'
               PROVE  secret <= fresh'
    BY DEF FreshInv
  <1>o. Other(x) \in Side
    BY OtherSide
  <1>1. CASE \E y \in Side : Wipe(y)
    <2>1. Reaches(x, secret)
      BY <1>1, WipeReaches
    <2>2. secret <= fresh
      BY <2>1 DEF FreshInv
    <2> QED BY <1>f, <2>2
  <1>2. CASE \A y \in Side : ~Wipe(y)
    <2>1. Reaches(x, secret) \/ NewSecret(secret) \/ Reaches(Other(x), secret)
      BY <1>2, StepReaches
    <2>2. secret <= fresh \/ NewSecret(secret)
      BY <1>o, <2>1 DEF FreshInv
    <2> QED BY <1>f, <2>2 DEF NewSecret
  <1> QED BY <1>1, <1>2

\* One step keeps the secret of an outdated row out of the other side's reach.
LEMMA StaleStep ==
  ASSUME TypeOK, LiveInv, EpochsInv, FreshInv, StaleInv, Next, TypeOK'
  PROVE  StaleInv'
  <1> SUFFICES ASSUME NEW s \in Side, NEW secret \in Nat,
                      peer'[s].status \in Working, peer'[s].epoch # epoch'[Other(s)],
                      peer'[s].secret = secret, Reaches(Other(s), secret)'
               PROVE  FALSE
    BY DEF StaleInv
  <1>o. Other(s) \in Side /\ Other(Other(s)) = s
    BY OtherSide
  <1>1. CASE \E y \in Side : Wipe(y)
    <2>1. PICK y \in Side : Wipe(y)
      BY <1>1
    <2>2. peer'[y].status = "none" /\ Other(s) # y
      BY <1>o, <2>1, WipeReaches
    <2>3. s = y
      BY <2>2 DEF Side, Other
    <2> QED BY <2>2, <2>3 DEF Working
  <1>2. CASE \A y \in Side : ~Wipe(y)
    <2>1. UNCHANGED epoch
      BY <1>2, StepSettings
    <2>2. /\ peer[s].status \in Working
          /\ peer'[s].secret = peer[s].secret /\ peer'[s].epoch = peer[s].epoch
      BY <1>2, <2>1, StepFrom DEF AllRowsFrom, RowFrom
    <2>3. ~Reaches(Other(s), secret)
      BY <2>1, <2>2 DEF StaleInv
    <2>4. ~NewSecret(secret)
      <3>1. Reaches(s, secret)
        BY <2>2 DEF Reaches, RowHas, Working
      <3>2. secret <= fresh /\ fresh \in Nat
        BY <3>1 DEF FreshInv, TypeOK, CountersOK
      <3> QED BY <3>2 DEF NewSecret
    <2>5. peer'[s].status # "pending"
      BY DEF Working
    <2> QED BY <1>o, <1>2, <2>3, <2>4, <2>5, StepReaches
  <1> QED BY <1>1, <1>2

\* What is in flight carries the epoch of now, after a reinstallation too: nothing
\* is in flight then.
LEMMA EpochsStepAll ==
  ASSUME TypeOK, LiveInv, EpochsInv, Next
  PROVE  EpochsInv'
  <1>1. CASE \E y \in Side : Wipe(y)
    BY <1>1, WipeReaches DEF EpochsInv, Idle
  <1>2. CASE \A y \in Side : ~Wipe(y)
    BY <1>2, EpochsStep
  <1> QED BY <1>1, <1>2

\* What BaselineKnown rests on: nothing in flight or on record connects a new
\* instance to a row that was made with the old one.
BaselineInv == TypeOK /\ LiveInv /\ FreshInv /\ EpochsInv /\ StaleInv

\* Nothing has happened yet.
LEMMA BaselineInit == Init => BaselineInv
  <1> SUFFICES ASSUME Init PROVE BaselineInv
    OBVIOUS
  <1>1. \A s \in Side : /\ peer[s].status = "none" /\ hs[s].probe = "none" /\ Idle(s)
                        /\ parked[s].probe = "none" /\ ~inReq[s].open
                        /\ deny[s] = NoDenial
    BY DEF Init, NoRow, NoExchange, NoProbe, NoRequest, Idle
  <1>2. net = {}
    BY DEF Init
  <1>3. \A s \in Side, secret \in Nat : ~Reaches(s, secret)
    BY <1>1, <1>2 DEF Reaches, RowHas, ExchangeHas, NetHas, QueueHas, DenialHas
  <1> QED BY <1>1, <1>2, <1>3, TypeInit
          DEF BaselineInv, LiveInv, FreshInv, EpochsInv, StaleInv, Working

\* The strengthened invariant holds throughout.
LEMMA BaselineHolds == Spec => []BaselineInv
  <1>1. BaselineInv /\ [Next]_vars /\ TypeOK' => BaselineInv'
    <2>1. ASSUME BaselineInv, UNCHANGED vars PROVE BaselineInv'
      <3>1. UNCHANGED <<peer, hs, net, inReq, deny, parked, epoch, fresh>>
        BY <2>1 DEF vars, rows, requests, work, settings
      <3> QED BY <2>1, <3>1, TypeStutter
              DEF BaselineInv, LiveInv, FreshInv, EpochsInv, StaleInv, Reaches, RowHas,
                  ExchangeHas, NetHas, QueueHas, DenialHas, Idle
    <2>2. ASSUME BaselineInv, Next, TypeOK' PROVE BaselineInv'
      BY <2>2, LiveStep, FreshStep, EpochsStepAll, StaleStep DEF BaselineInv
    <2> QED BY <2>1, <2>2
  <1> QED BY <1>1, BaselineInit, TypeCorrect, PTL DEF Spec

\* Two active sides with one secret each know the instance the other one is now,
\* however often either was reinstalled before: the row of a side that does not know
\* it has a secret the new instance never gets.
THEOREM BaselineCorrect == Spec => []BaselineKnown
  <1>1. BaselineInv => BaselineKnown
    <2> SUFFICES ASSUME BaselineInv, NEW s \in Side, NEW x \in Side, x = Other(s),
                        peer[s].status = "active", peer[x].status = "active",
                        peer[s].secret = peer[x].secret
                 PROVE  peer[s].epoch = epoch[x]
      BY OtherSide DEF BaselineKnown, Side, Other
    <2>1. peer[s].secret \in Nat
      BY DEF BaselineInv, TypeOK, RowsOK, PeerRows
    <2>2. Reaches(x, peer[s].secret)
      BY DEF Reaches, RowHas
    <2> QED BY <2>1, <2>2 DEF BaselineInv, StaleInv, Working
  <1> QED BY <1>1, BaselineHolds, PTL

-----------------------------------------------------------------------------
(* One secret survives a mishap *)

\* The condition of OneSecretSurvives.
Few == spent.faults + spent.outages <= 1 /\ spent.decisions <= 1

Lower == "lower"
Higher == "higher"

Holds(s, secret) == peer[s].status \in Working /\ peer[s].secret = secret

Denied(s) == peer[s].status = "rejected" /\ peer[s].reason = "denied_by_local_admin"

Probing(s, secret) == parked[s] # NoProbe /\ parked[s].secret = secret

\* The admin's one action has closed the side: no handshake opens it again.
Closed(s) ==
  /\ spent.decisions >= 1
  /\ \/ peer[s].status = "revoked"
     \/ (Denied(s) /\ ~Probing(s, peer[s].secret))
     \/ (peer[s].status = "none" /\ ~autoAccept[s])

\* The secrets a side generated and may still act on.
Waiting == {"pending", "awaiting_approval", "rejected"}

Owns(s, secret) ==
  \/ peer[s].status \in Waiting /\ ~Denied(s) /\ peer[s].secret = secret
  \/ ExchangeHas(s, secret) \/ NetHas(Other(s), secret) \/ Probing(s, secret)

\* The row of a side may still become active on this secret of its own.
Bids(s, secret) ==
  /\ peer[s].secret = secret
  /\ \/ peer[s].status = "pending"
     \/ StaleParked(peer[s])
     \/ peer[s].status = "rejected" /\ Probing(s, secret)

\* The other side took our request, and our check will show it.
Awaits(s) ==
  /\ hs[s].at = "accepted" /\ hs[s].secret = peer[Other(s)].secret
  /\ hs[s].probe \in {"none", "verified"}

Usable(s) == Mine(s) \/ (peer[s].status \in Working /\ SameRow(s))

\* No secret is both sides', and what a side has stored is the other one's.
OwnersInv ==
  \A s \in Side, secret \in Nat : Owns(s, secret) =>
    /\ secret <= fresh
    /\ ~Owns(Other(s), secret) /\ ~QueueHas(s, secret) /\ ~DenialHas(s, secret)

\* A row that waits is on the secret it was made with, and no probe is about one
\* that is not parked.
IdsInv ==
  \A s \in Side : peer[s].status \in Waiting =>
    /\ peer[s].id = peer[s].secret
    /\ peer[s].status # "rejected" => ~Probing(s, peer[s].secret)

\* A request that is waited for has the secret of its exchange.
AskedInv ==
  \A s \in Side : hs[s].at = "sent" =>
    /\ hs[s].probe = "none"
    /\ \A m \in net : m.live /\ m.from = s => m.secret = hs[s].secret

\* What was spent shows.
CountsInv ==
  /\ \A s \in Side : peer[s].status = "unreachable" => spent.outages >= 1
  /\ \A s \in Side :
       LocallyRefused(peer[s]) \/ deny[s].kind = "denied" \/ (~autoAccept[s] /\ s \notin Gated)
       => spent.decisions >= 1
  /\ \A m \in net : ~m.live => spent.faults >= 1
  /\ \A m, n \in net : ~m.live /\ ~n.live => m.from = n.from

\* During an exchange the row is pending on it or closed; the higher side alone may
\* have taken the other side's handshake meanwhile.
InFlightInv ==
  \A s \in Side : ~Idle(s) =>
    \/ Mine(s)
    \/ /\ s = Higher /\ peer[s].status \in Working /\ SameRow(s)
       /\ peer[s].epoch = epoch[Other(s)]
    \/ Closed(s)

\* A verified secret is still the other side's.
VerifiedInv ==
  \A s \in Side : ~Idle(s) /\ hs[s].probe = "verified" /\ Usable(s) =>
    Holds(Other(s), hs[s].secret) \/ Closed(Other(s))

ParkedInv ==
  \A s \in Side : parked[s].probe = "verified" /\ StillParked(s) =>
    Holds(Other(s), parked[s].secret) \/ Closed(Other(s))

\* Who has taken a handshake is awaited, unless the answer got lost.
TakenInv ==
  \A s \in Side : peer[Other(s)].status \in Working /\ Bids(s, peer[Other(s)].secret) =>
    Awaits(s) \/ spent.faults >= 1

\* A row in trouble has nothing to do with what the other side is about to use.
TroubledInv ==
  \A s \in Side : peer[Other(s)].status = "needs_attention" =>
    ~Bids(s, peer[Other(s)].secret) /\ ~ExchangeHas(s, peer[Other(s)].secret)

\* Both sides work on different secrets only until the higher one has checked its own.
SplitInv ==
  (/\ \A s \in Side : peer[s].status \in Working
   /\ peer[Lower].secret # peer[Higher].secret)
  => Awaits(Higher) /\ spent.faults >= 1

\* A request on another secret that is still on its way to the higher side.
LateLowerInv ==
  peer[Lower].status \in Working =>
    \A m \in net : m.from = Lower /\ m.secret # peer[Lower].secret =>
      /\ spent.faults >= 1
      /\ Holds(Higher, peer[Lower].secret) \/ Closed(Higher) \/ Awaits(Higher)

\* The same for the lower side.
LateHigherInv ==
  peer[Higher].status \in Working =>
    \A m \in net : m.from = Higher /\ m.secret # peer[Higher].secret =>
      \/ peer[Lower].status \in Working \/ Closed(Lower) \/ Awaits(Lower)
      \/ (m.live /\ spent.faults >= 1)

Together ==
  /\ OwnersInv /\ IdsInv /\ AskedInv /\ CountsInv
  /\ InFlightInv /\ VerifiedInv /\ ParkedInv /\ TakenInv /\ TroubledInv
  /\ SplitInv /\ LateLowerInv /\ LateHigherInv

SurvivalInv == BaselineInv /\ GatedByAdmin /\ (Few => Together)
-----------------------------------------------------------------------------
(* What a step does to rows, exchanges and requests *)

Keeps(s) ==
  /\ peer'[s].status = peer[s].status /\ peer'[s].reason = peer[s].reason
  /\ peer'[s].id = peer[s].id /\ peer'[s].secret = peer[s].secret
  /\ peer'[s].epoch = peer[s].epoch

Stays(s) ==
  /\ hs'[s].at = hs[s].at /\ hs'[s].secret = hs[s].secret /\ hs'[s].probe = hs[s].probe

StillProbes(s) == parked'[s] = parked[s]

\* The other side is left alone, except for the answer it gets.
Aside(s) == Keeps(s) /\ Stays(s) /\ StillProbes(s)

SameSecret(s) == peer'[s].secret = peer[s].secret /\ peer'[s].id = peer[s].id

Errs == spent'.faults >= spent.faults + 1
Decides == spent'.decisions >= spent.decisions + 1
Suffers == spent'.outages >= spent.outages + 1

\* Nothing that matters here changes; a request may be lost, a probe dropped.
Untouched ==
  /\ \A s \in Side : Keeps(s) /\ Stays(s)
  /\ \A s \in Side : StillProbes(s) \/ parked'[s] = NoProbe
  /\ net' \subseteq net

\* A row becomes pending: on a new secret, or reopened by the backstop.
Opens(s) ==
  /\ peer'[s].status = "pending" /\ peer'[s].id = peer'[s].secret
  /\ \/ /\ NewSecret(peer'[s].secret) /\ StillProbes(s)
        /\ peer[s].status \notin Working \cup {"pending"}
        /\ ((peer[s].status = "none" /\ autoAccept[s]) \/ Decides)
     \/ /\ StillParked(s) /\ parked[s] # NoProbe /\ SameSecret(s) /\ parked'[s] = NoProbe

Opened(s) ==
  /\ Aside(Other(s)) /\ Stays(s) /\ Opens(s) /\ net' = net

Started(s) ==
  /\ Aside(Other(s)) /\ Idle(s)
  /\ Opens(s) \/ (peer[s].status = "pending" /\ Keeps(s) /\ StillProbes(s))
  /\ hs'[s].at = "sent" /\ hs'[s].probe = "none" /\ hs'[s].secret = peer'[s].secret
  /\ \A m \in net' : m \in net \/ (m.from = s /\ m.live /\ m.secret = hs'[s].secret)

\* A request is answered: its sender hears `answer', or does not.
Answered(m, lost, answers) ==
  /\ net' = net \ {m}
  /\ \A s \in Side : StillProbes(s)
  /\ Keeps(m.from) /\ Stays(Other(m.from))
  /\ lost => (Errs /\ m.live)
  /\ IF m.live /\ ~lost
     THEN /\ hs'[m.from].at \in answers /\ hs'[m.from].secret = hs[m.from].secret
          /\ hs'[m.from].probe = hs[m.from].probe
     ELSE Stays(m.from)

Accepted(m, lost) ==
  LET s == Other(m.from)
  IN  /\ Answered(m, lost, {"accepted"})
      /\ Decision(s, m) \in {"create", "activate"}
      /\ peer'[s].status = "active" /\ peer'[s].secret = m.secret
      /\ peer'[s].epoch = m.epoch
      /\ peer[s].status # "none" => peer'[s].id = peer[s].id

Declined(m, lost) ==
  LET s == Other(m.from)
  IN  /\ Answered(m, lost, {"exists", "queued", "denied", "revoked", "in_progress"})
      /\ \/ Keeps(s)
         \/ /\ peer[s].status \in Established /\ peer[s].epoch # m.epoch
            /\ peer'[s].status = "needs_attention" /\ SameSecret(s)

\* An exchange that was answered is settled.
Settles(s) ==
  /\ Aside(Other(s)) /\ StillProbes(s) /\ net' = net
  /\ hs[s].at \notin {"idle", "sent"} /\ hs'[s].at = "idle"
  /\ hs[s].at = "accepted" => hs[s].probe # "none"

\* It leaves the row, or ends it ...
Fails(s) ==
  /\ Settles(s)
  /\ \/ /\ Keeps(s)
        /\ hs[s].at = "accepted" => ~TookBoth(s) /\ ~(Mine(s) /\ hs[s].probe = "verified")
     \/ /\ Mine(s) /\ SameSecret(s)
        /\ hs[s].at = "accepted" => hs[s].probe # "verified"
        /\ \/ peer'[s].status \in {"awaiting_approval", "needs_attention"}
           \/ peer'[s].status = "rejected" /\ peer'[s].reason \in RemoteRejectedReasons

\* ... or makes it active on our secret.
Succeeds(s) ==
  /\ Settles(s)
  /\ (hs[s].probe = "verified" /\ Mine(s)) \/ TookBoth(s)
  /\ peer'[s].status = "active" /\ peer'[s].secret = hs[s].secret
  /\ peer'[s].id = peer[s].id

\* The sender stops waiting, or its process stops.
Quits(s) ==
  /\ Aside(Other(s)) /\ hs'[s].at = "idle"
  /\ StillProbes(s) \/ parked'[s] = NoProbe
  /\ \/ (Keeps(s) /\ Errs)
     \/ /\ hs[s].at = "sent"
        /\ \/ Keeps(s)
           \/ peer[s].status = "pending" /\ peer'[s].status = "none"
           \/ /\ peer[s].status = "pending" /\ SameSecret(s)
              /\ peer'[s].status = "rejected" /\ peer'[s].reason = "stale_peering_on_remote"
  /\ \A m \in net' :
       \/ m \in net /\ (m.from = s => ~m.live)
       \/ /\ Errs /\ ~m.live /\ m.from = s
          /\ \E n \in net : n.from = s /\ n.live /\ n.secret = m.secret

\* A signed probe.
Checks(s) ==
  /\ Aside(Other(s)) /\ Keeps(s) /\ StillProbes(s) /\ net' = net
  /\ hs[s].at = "accepted" \/ (hs[s].at = "exists" /\ Mine(s))
  /\ hs'[s].at = hs[s].at /\ hs'[s].secret = hs[s].secret /\ hs[s].probe = "none"
  /\ \/ hs'[s].probe = EpochAnswer(peer[Other(s)], hs[s].secret)
     \/ hs'[s].probe = "unknown" /\ Errs

ProbesRow(s) ==
  /\ Aside(Other(s)) /\ Keeps(s) /\ Stays(s) /\ net' = net
  /\ StaleParked(peer[s]) /\ parked'[s].secret = peer[s].secret
  /\ parked'[s].probe = EpochAnswer(peer[Other(s)], peer[s].secret)

Unparks(s) ==
  /\ Aside(Other(s)) /\ Stays(s) /\ net' = net
  /\ StillParked(s) /\ parked[s].probe = "verified"
  /\ peer'[s].status = "active" /\ SameSecret(s) /\ parked'[s] = NoProbe

\* A row goes.
Drops(s) ==
  /\ Aside(Other(s)) /\ Stays(s) /\ net' = net /\ peer'[s].status = "none"
  /\ StillProbes(s) \/ parked'[s] = NoProbe
  /\ \/ peer[s].status = "none"
     \/ peer[s].status = "pending" /\ Idle(s)
     \/ peer[s].status = "pending" /\ ~autoAccept[s] /\ peer[s].by # "admin"
     \/ StillParked(s) /\ parked[s] # NoProbe
     \/ peer[s].status \notin Working \cup {"pending"} /\ Decides

\* A row is refused: by our admin, or by the other side's.
Refuses(s) ==
  /\ Aside(Other(s)) /\ Stays(s) /\ StillProbes(s) /\ net' = net
  /\ \/ peer'[s].status = "revoked" /\ Decides
     \/ /\ peer'[s].status = "rejected" /\ peer'[s].reason = "denied_by_local_admin"
        /\ deny[s].kind = "denied"
        /\ \/ peer[s].status \in Waiting /\ SameSecret(s)
           \/ /\ peer[s].status = "none"
              /\ peer'[s].secret = deny[s].secret /\ peer'[s].id = deny[s].secret
     \/ /\ peer[s].status = "awaiting_approval" /\ SameSecret(s)
        /\ peer'[s].status = "rejected"
        /\ peer'[s].reason \in {"denied_by_remote", "expired_on_remote"}

\* An established row gets into trouble, or wavers.
Falls(s) ==
  /\ Aside(Other(s)) /\ Stays(s) /\ StillProbes(s) /\ net' = net /\ SameSecret(s)
  /\ peer'[s].status = "needs_attention"
  /\ \/ peer[s].status = "needs_attention"
     \/ peer[s].status \in Working /\ peer[s].epoch # epoch[Other(s)]
     \/ peer[s].status \in Working /\ Suffers /\ \A x \in Side : Idle(x)

Wavers(s) ==
  /\ Aside(Other(s)) /\ Stays(s) /\ StillProbes(s) /\ net' = net /\ SameSecret(s)
  /\ peer'[s].epoch = peer[s].epoch
  /\ peer[s].status \in Working /\ peer'[s].status \in Working
  /\ peer'[s].status = "unreachable" => Suffers

Acts(s) ==
  \/ Opened(s) \/ Started(s) \/ Fails(s) \/ Succeeds(s) \/ Quits(s)
  \/ Checks(s) \/ ProbesRow(s) \/ Unparks(s)
  \/ Drops(s) \/ Refuses(s) \/ Falls(s) \/ Wavers(s)

Kinds ==
  \/ Untouched
  \/ \E m \in net : \E lost \in BOOLEAN : Accepted(m, lost) \/ Declined(m, lost)
  \/ \E s \in Side : Acts(s)

\* What else a step that is no reinstallation does.
Context ==
  /\ spent.faults \in Nat /\ spent'.faults \in Nat /\ spent.faults <= spent'.faults
  /\ spent.decisions \in Nat /\ spent'.decisions \in Nat
  /\ spent.decisions <= spent'.decisions
  /\ spent.outages \in Nat /\ spent'.outages \in Nat /\ spent.outages <= spent'.outages
  /\ \A s \in Side :
       /\ autoAccept'[s] = autoAccept[s] \/ Decides
       /\ deny'[s].kind = "denied" => deny[s].kind = "denied" \/ Decides
       /\ StoredFrom(s)
  /\ UNCHANGED epoch /\ fresh \in Nat /\ fresh' \in Nat /\ fresh <= fresh'

-----------------------------------------------------------------------------

\* A step that leaves the condition of OneSecretSurvives true.
Surviving == SurvivalInv /\ Kinds /\ Context /\ Few'

\* There are two sides.
LEMMA TwoSides ==
  ASSUME NEW s \in Side, NEW x \in Side
  PROVE  x = s \/ (x = Other(s) /\ s = Other(x) /\ x # s)
  BY DEF Side, Other

\* A request comes from a side.
LEMMA FromSide ==
  ASSUME TypeOK, NEW m \in net
  PROVE  m.from \in Side
  BY DEF TypeOK, ExchangesOK, Messages

\* An act of one side leaves the other one aside.
LEMMA ActsAside ==
  ASSUME NEW s, Acts(s)
  PROVE  Aside(Other(s))
  BY DEF Acts, Opened, Started, Fails, Succeeds, Settles, Quits, Checks, ProbesRow,
     Unparks, Drops, Refuses, Falls, Wavers

\* Whose row takes a handshake.
LEMMA TakesWhom ==
  ASSUME TypeOK, NEW s \in Side, NEW m, Decision(s, m) \in {"create", "activate"}
  PROVE  /\ peer[s].status \in {"none", "pending", "awaiting_approval", "rejected"}
         /\ ~Denied(s)
         /\ peer[s].status = "none" => autoAccept[s]
         /\ peer[s].status = "pending" => Idle(s) \/ s # "lower"
  <1>1. peer[s].status \in Status
    BY DEF TypeOK, RowsOK, PeerRows
  <1> QED BY <1>1 DEF Decision, DecideInbound, AcceptUncompleted, Established, Denied,
          Status, RemoteRejectedReasons

\* Before such a step everything holds that holds when few things went wrong.
LEMMA FewBefore ==
  ASSUME Surviving
  PROVE  /\ TypeOK /\ LiveInv /\ FreshInv /\ EpochsInv /\ StaleInv /\ GatedByAdmin
         /\ OwnersInv /\ IdsInv /\ AskedInv /\ CountsInv
         /\ Few /\ Together
  <1>1. Few
    BY DEF Surviving, Context, Few
  <1> QED BY <1>1 DEF Surviving, SurvivalInv, BaselineInv, Together

\* No step opens a side again that our admin closed.
LEMMA ClosedKept ==
  ASSUME Surviving, NEW x \in Side, Closed(x)
  PROVE  Closed(x)'
  <1>c. ~Decides /\ spent'.decisions >= 1 /\ autoAccept'[x] = autoAccept[x]
    BY DEF Surviving, Context, Closed, Few, Decides
  <1>k. ASSUME Keeps(x), StillProbes(x) \/ parked'[x] = NoProbe PROVE Closed(x)'
    BY <1>c, <1>k DEF Keeps, StillProbes, Closed, Denied, Probing
  <1>t. TypeOK
    BY DEF Surviving, SurvivalInv, BaselineInv
  <1>1. CASE Untouched
    BY <1>1, <1>k DEF Untouched
  <1>2. ASSUME NEW m \in net, NEW lost, Accepted(m, lost) PROVE Closed(x)'
    <2>1. CASE x = m.from
      BY <1>2, <1>k, <2>1 DEF Accepted, Answered
    <2>2. CASE x = Other(m.from)
      BY <1>2, <1>t, <2>2, FromSide, OtherSide, TakesWhom DEF Accepted, Closed, Denied
    <2> QED BY <1>t, <2>1, <2>2, FromSide, TwoSides
  <1>3. ASSUME NEW m \in net, NEW lost, Declined(m, lost) PROVE Closed(x)'
    <2>1. CASE x = m.from
      BY <1>3, <1>k, <2>1 DEF Declined, Answered
    <2>2. CASE x = Other(m.from)
      <3>1. Keeps(x)
        BY <1>3, <2>2 DEF Declined, Closed, Denied, Established
      <3> QED BY <1>3, <1>k, <1>t, <3>1 DEF Declined, Answered
    <2> QED BY <1>t, <2>1, <2>2, FromSide, TwoSides
  <1>4. ASSUME Aside(x) PROVE Closed(x)'
    BY <1>4, <1>k DEF Aside
  <1>5. ASSUME Opened(x) \/ Started(x) PROVE Closed(x)'
    BY <1>5, <1>k, <1>c DEF Opened, Started, Opens, Closed, Denied, StillParked, Probing
  <1>6. ASSUME Fails(x) \/ Succeeds(x) PROVE Closed(x)'
    BY <1>6, <1>k DEF Fails, Succeeds, Settles, Closed, Denied, Mine, TookBoth
  <1>7. ASSUME Quits(x) PROVE Closed(x)'
    BY <1>7, <1>k DEF Quits, Closed, Denied
  <1>8. ASSUME Checks(x) \/ ProbesRow(x) PROVE Closed(x)'
    BY <1>8, <1>k DEF Checks, ProbesRow, Closed, Denied, StaleParked
  <1>9. ASSUME Unparks(x) \/ Drops(x) PROVE Closed(x)'
    BY <1>9, <1>c DEF Unparks, Drops, Closed, Denied, StillParked, Probing, NoProbe, Working
  <1>10. ASSUME Refuses(x) PROVE Closed(x)'
    <2>1. CASE peer[x].status = "none" /\ peer'[x].secret = deny[x].secret
               /\ deny[x].kind = "denied"
      BY <1>10, <1>c, <2>1, FewBefore
         DEF Refuses, Closed, Denied, StillProbes, Probing, OwnersInv, Owns, DenialHas,
             NoDenial, TypeOK, WorkOK, ParkedProbes
    <2>2. CASE peer[x].status # "none"
      BY <1>10, <1>c, <2>2 DEF Refuses, Closed, Denied, StillProbes, Probing, Waiting,
           SameSecret
    <2> QED BY <1>10, <1>c, <2>1, <2>2 DEF Refuses, Waiting
  <1>11. ASSUME Falls(x) \/ Wavers(x) PROVE Closed(x)'
    BY <1>11 DEF Falls, Wavers, Closed, Denied, Working
  <1>12. ASSUME NEW s \in Side, Acts(s) PROVE Closed(x)'
    <2>1. CASE x = s
      BY <1>12, <2>1, <1>5, <1>6, <1>7, <1>8, <1>9, <1>10, <1>11 DEF Acts
    <2> QED BY <1>4, <1>12, <2>1, ActsAside, TwoSides
  <1> QED BY <1>1, <1>2, <1>3, <1>12 DEF Surviving, Kinds

\* During an exchange the row stays pending on it, or is closed.
LEMMA InFlightStep ==
  ASSUME Surviving
  PROVE  InFlightInv'
  <1> SUFFICES ASSUME NEW x \in Side, ~Idle(x)'
               PROVE  \/ Mine(x)'
                      \/ /\ x = Higher /\ peer'[x].status \in Working /\ SameRow(x)'
                         /\ peer'[x].epoch = epoch'[Other(x)]
                      \/ Closed(x)'
    BY DEF InFlightInv
  <1> DEFINE Fine == \/ Mine(x)'
                     \/ /\ x = Higher /\ peer'[x].status \in Working /\ SameRow(x)'
                        /\ peer'[x].epoch = epoch'[Other(x)]
                     \/ Closed(x)'
  <1>e. epoch' = epoch
    BY DEF Surviving, Context
  <1>f. ~Idle(x) => \/ Mine(x)
                    \/ /\ x = Higher /\ peer[x].status \in Working /\ SameRow(x)
                       /\ peer[x].epoch = epoch[Other(x)]
                    \/ Closed(x)
    BY FewBefore DEF Together, InFlightInv
  <1>c. Closed(x) => Fine
    BY ClosedKept
  <1>k. ASSUME Keeps(x), hs'[x].secret = hs[x].secret, ~Idle(x) PROVE Fine
    BY <1>c, <1>e, <1>f, <1>k DEF Keeps, Mine, SameRow
  <1>1. CASE Untouched
    BY <1>1, <1>k DEF Untouched, Idle, Stays
  <1>2. ASSUME NEW m \in net, NEW lost, Accepted(m, lost) PROVE Fine
    <2>1. CASE x = m.from
      BY <1>2, <1>k, <2>1, FewBefore DEF Accepted, Answered, LiveInv, Idle, Stays
    <2>2. CASE x = Other(m.from)
      <3>1. Stays(x) /\ ~Idle(x)
        BY <1>2, <2>2 DEF Accepted, Answered, Stays, Idle
      <3>2. CASE Mine(x)
        BY <1>2, <1>e, <2>2, <3>1, <3>2, FewBefore, FromSide, OtherSide, TakesWhom
           DEF Accepted, Stays, Mine, SameRow, Working, IdsInv, Waiting, EpochsInv,
               Side, Higher
      <3>3. CASE ~Mine(x)
        BY <1>c, <1>f, <1>2, <2>2, <3>1, <3>3, FewBefore, FromSide, OtherSide, TakesWhom
           DEF Accepted, Working
      <3> QED BY <3>2, <3>3
    <2> QED BY <2>1, <2>2, FewBefore, FromSide, TwoSides
  <1>3. ASSUME NEW m \in net, NEW lost, Declined(m, lost) PROVE Fine
    <2>1. CASE x = m.from
      BY <1>3, <1>k, <2>1, FewBefore DEF Declined, Answered, LiveInv, Idle, Stays
    <2>2. CASE x = Other(m.from)
      <3>1. Stays(x) /\ ~Idle(x)
        BY <1>3, <2>2 DEF Declined, Answered, Stays, Idle
      <3>2. Keeps(x) \/ Closed(x)
        BY <1>3, <1>f, <2>2, <3>1, FewBefore, FromSide, OtherSide
           DEF Declined, Established, Mine, EpochsInv
      <3> QED BY <1>c, <1>k, <3>1, <3>2 DEF Stays
    <2> QED BY <2>1, <2>2, FewBefore, FromSide, TwoSides
  <1>4. ASSUME Aside(x) PROVE Fine
    BY <1>4, <1>k DEF Aside, Stays, Idle
  <1>5. ASSUME Started(x) PROVE Fine
    BY <1>5 DEF Started, Opens, Keeps, Mine
  <1>6. ASSUME Opened(x) PROVE Fine
    <2>1. ~Idle(x)
      BY <1>6 DEF Opened, Stays, Idle
    <2>2. Closed(x)
      BY <1>6, <1>f, <2>1 DEF Opened, Opens, Mine, StillParked, Working, Closed,
         Surviving, Context, Few, Decides
    <2> QED BY <1>c, <2>2
  <1>7. ASSUME Checks(x) \/ ProbesRow(x) PROVE Fine
    BY <1>7, <1>k DEF Checks, ProbesRow, Stays, Idle
  <1>8. ASSUME Unparks(x) \/ Drops(x) \/ Refuses(x) \/ Falls(x) \/ Wavers(x),
               ~Closed(x)
        PROVE  Fine
    <2>1. ~Idle(x)
      BY <1>8 DEF Unparks, Drops, Refuses, Falls, Wavers, Stays, Idle
    <2>2. ~Unparks(x)
      BY <1>f, <1>8, <2>1 DEF Unparks, StillParked, Mine, Working
    <2>3. CASE Drops(x)
      <3>1. peer[x].status = "pending" /\ ~autoAccept[x] /\ peer[x].by # "admin"
        BY <1>f, <1>8, <2>1, <2>3 DEF Drops, StillParked, Mine, Working
      <3>2. spent.decisions >= 1
        BY <3>1, FewBefore DEF GatedByAdmin, CountsInv
      <3>3. peer'[x].status = "none" /\ ~autoAccept'[x] /\ spent'.decisions >= 1
        BY <2>3, <3>1, <3>2 DEF Drops, Surviving, Context, Few, Decides
      <3> QED BY <3>3 DEF Closed
    <2>4. CASE Refuses(x)
      <3>1. CASE peer'[x].status = "revoked" /\ Decides
        <4>1. spent'.decisions >= 1
          BY <3>1 DEF Decides, Surviving, Context
        <4> QED BY <3>1, <4>1 DEF Closed
      <3>2. CASE Mine(x) /\ SameSecret(x) /\ Denied(x)' /\ deny[x].kind = "denied"
        <4>1. spent'.decisions >= 1
          BY <3>2, FewBefore DEF CountsInv, Surviving, Context
        <4>2. ~Probing(x, peer[x].secret)
          BY <3>2, FewBefore DEF IdsInv, Mine, Waiting
        <4>3. ~Probing(x, peer[x].secret)'
          BY <2>4, <3>2, <4>2 DEF Refuses, SameSecret, StillProbes, Probing
        <4> QED BY <3>2, <4>1, <4>3 DEF Closed
      <3> QED BY <1>f, <1>8, <2>1, <2>4, <3>1, <3>2
              DEF Refuses, Mine, Working, Waiting, Denied
    <2>5. ~Falls(x)
      BY <1>f, <1>8, <2>1 DEF Falls, Mine, Working
    <2>6. CASE Wavers(x)
      BY <1>e, <1>f, <1>8, <2>1, <2>6 DEF Wavers, SameSecret, Stays, Mine, SameRow, Working
    <2> QED BY <1>8, <2>2, <2>3, <2>4, <2>5, <2>6
  <1>9. ~Fails(x) /\ ~Succeeds(x) /\ ~Quits(x)
    BY DEF Fails, Succeeds, Settles, Quits, Idle
  <1>10. ASSUME NEW s \in Side, Acts(s) PROVE Fine
    <2>1. CASE x = s
      BY <1>10, <2>1, <1>c, <1>5, <1>6, <1>7, <1>8, <1>9 DEF Acts
    <2> QED BY <1>4, <1>10, <2>1, ActsAside, TwoSides
  <1> QED BY <1>1, <1>2, <1>3, <1>10 DEF Surviving, Kinds

\* Where a working row comes from.
LEMMA HoldsFrom ==
  ASSUME Surviving, NEW v \in Side, NEW y, Holds(v, y)'
  PROVE  \/ Holds(v, y)
         \/ \E m \in net : \E lost \in BOOLEAN :
              Accepted(m, lost) /\ v = Other(m.from) /\ y = m.secret
         \/ Succeeds(v) /\ y = hs[v].secret
         \/ Unparks(v) /\ y = peer[v].secret
  <1> DEFINE From == \/ Holds(v, y)
                     \/ \E m \in net : \E lost \in BOOLEAN :
                          Accepted(m, lost) /\ v = Other(m.from) /\ y = m.secret
                     \/ Succeeds(v) /\ y = hs[v].secret
                     \/ Unparks(v) /\ y = peer[v].secret
  <1>k. ASSUME Keeps(v) PROVE From
    BY <1>k DEF Keeps, Holds
  <1>1. CASE Untouched
    BY <1>1, <1>k DEF Untouched
  <1>2. ASSUME NEW m \in net, NEW lost \in BOOLEAN, Accepted(m, lost) PROVE From
    <2>1. CASE v = m.from
      BY <1>2, <1>k, <2>1 DEF Accepted, Answered
    <2>2. CASE v = Other(m.from)
      BY <1>2, <2>2 DEF Accepted, Holds
    <2> QED BY <2>1, <2>2, FewBefore, FromSide, TwoSides
  <1>3. ASSUME NEW m \in net, NEW lost \in BOOLEAN, Declined(m, lost) PROVE From
    <2>1. CASE v = m.from
      BY <1>3, <1>k, <2>1 DEF Declined, Answered
    <2>2. CASE v = Other(m.from)
      BY <1>3, <1>k, <2>2 DEF Declined, Holds, Working
    <2> QED BY <2>1, <2>2, FewBefore, FromSide, TwoSides
  <1>4. ASSUME Aside(v) PROVE From
    BY <1>4, <1>k DEF Aside
  <1>5. ~Opened(v)
    BY DEF Opened, Opens, Holds, Working
  <1>6. CASE Started(v) \/ Quits(v) \/ Checks(v) \/ ProbesRow(v)
    BY <1>6, <1>k DEF Started, Opens, Quits, Checks, ProbesRow, Holds, Working
  <1>7. CASE Fails(v)
    BY <1>7, <1>k DEF Fails, Holds, Working
  <1>8. CASE Succeeds(v) \/ Unparks(v)
    BY <1>8 DEF Succeeds, Unparks, SameSecret, Holds
  <1>9. ~Drops(v) /\ ~Refuses(v) /\ ~Falls(v)
    BY DEF Drops, Refuses, Falls, Holds, Working
  <1>10. CASE Wavers(v)
    BY <1>10 DEF Wavers, SameSecret, Holds
  <1>11. ASSUME NEW s \in Side, Acts(s) PROVE From
    <2>1. CASE v = s
      BY <1>11, <2>1, <1>5, <1>6, <1>7, <1>8, <1>9, <1>10 DEF Acts
    <2> QED BY <1>4, <1>11, <2>1, ActsAside, TwoSides
  <1> QED BY <1>1, <1>2, <1>3, <1>11 DEF Surviving, Kinds

\* A check is taken for both sides' secret only by the higher side.
LEMMA TookBothShows ==
  ASSUME Surviving, NEW v \in Side, ~Idle(v), TookBoth(v)
  PROVE  /\ v = Higher
         /\ Holds(Other(v), hs[v].secret) \/ Closed(Other(v))
  BY FewBefore DEF TookBoth, Together, InFlightInv, VerifiedInv, Mine, Closed, Denied,
     Usable, Working

\* How a working row on a secret the other side has stops working on it.
LEMMA HoldsKept ==
  ASSUME Surviving, NEW v \in Side, NEW y, Holds(v, y), Reaches(Other(v), y)
  PROVE  \/ Holds(v, y)' \/ Closed(v)'
         \/ Succeeds(v) /\ TookBoth(v)
         \/ Falls(v) /\ Suffers /\ \A x \in Side : Idle(x)
  <1> DEFINE Kept == \/ Holds(v, y)' \/ Closed(v)'
                     \/ Succeeds(v) /\ TookBoth(v)
                     \/ Falls(v) /\ Suffers /\ \A x \in Side : Idle(x)
  <1>e. peer[v].epoch = epoch[Other(v)]
    BY FewBefore DEF StaleInv, Holds, TypeOK, RowsOK, PeerRows
  <1>k. ASSUME Keeps(v) PROVE Kept
    BY <1>k DEF Keeps, Holds
  <1>1. CASE Untouched
    BY <1>1, <1>k DEF Untouched
  <1>2. ASSUME NEW m \in net, NEW lost, Accepted(m, lost) PROVE Kept
    <2>1. CASE v = m.from
      BY <1>2, <1>k, <2>1 DEF Accepted, Answered
    <2>2. CASE v = Other(m.from)
      BY <1>2, <2>2, FewBefore, TakesWhom DEF Accepted, Holds, Working
    <2> QED BY <2>1, <2>2, FewBefore, FromSide, TwoSides
  <1>3. ASSUME NEW m \in net, NEW lost, Declined(m, lost) PROVE Kept
    <2>1. CASE v = m.from
      BY <1>3, <1>k, <2>1 DEF Declined, Answered
    <2>2. CASE v = Other(m.from)
      BY <1>3, <1>e, <1>k, <2>2, FewBefore, FromSide, OtherSide DEF Declined, EpochsInv
    <2> QED BY <2>1, <2>2, FewBefore, FromSide, TwoSides
  <1>4. ASSUME Aside(v) PROVE Kept
    BY <1>4, <1>k DEF Aside
  <1>5. ~Opened(v) /\ ~Unparks(v)
    BY DEF Opened, Opens, Unparks, StillParked, Holds, Working, Surviving
  <1>6. CASE Started(v) \/ Quits(v) \/ Checks(v) \/ ProbesRow(v)
    BY <1>6, <1>k DEF Started, Opens, Quits, Checks, ProbesRow, StillParked, Holds, Working
  <1>7. CASE Fails(v) \/ Succeeds(v)
    BY <1>7, <1>k DEF Fails, Succeeds, Mine, Holds, Working
  <1>8. ~Drops(v)
    BY DEF Drops, StillParked, Holds, Working
  <1>9. CASE Refuses(v)
    <2>1. peer'[v].status = "revoked" /\ Decides
      BY <1>9 DEF Refuses, Holds, Working, Waiting
    <2>2. spent'.decisions >= 1
      BY <2>1 DEF Decides, Surviving, Context
    <2> QED BY <2>1, <2>2 DEF Closed
  <1>10. CASE Falls(v)
    BY <1>e, <1>10 DEF Falls, Holds, Working
  <1>11. CASE Wavers(v)
    BY <1>11 DEF Wavers, SameSecret, Holds
  <1>12. ASSUME NEW s \in Side, Acts(s) PROVE Kept
    <2>1. CASE v = s
      BY <1>12, <2>1, <1>5, <1>6, <1>7, <1>8, <1>9, <1>10, <1>11 DEF Acts
    <2> QED BY <1>4, <1>12, <2>1, ActsAside, TwoSides
  <1> QED BY <1>1, <1>2, <1>3, <1>12 DEF Surviving, Kinds

\* What a row may become active on it could before, or it is new.
LEMMA BidsFrom ==
  ASSUME Surviving, NEW x \in Side, NEW y \in Nat, Bids(x, y)'
  PROVE  Bids(x, y) \/ (NewSecret(y) /\ StillProbes(x))
  <1> DEFINE From == Bids(x, y) \/ (NewSecret(y) /\ StillProbes(x))
  <1>s. peer'[x].secret = y
    BY DEF Bids
  <1>k. ASSUME Keeps(x), StillProbes(x) \/ parked'[x] = NoProbe PROVE From
    BY <1>k DEF Keeps, StillProbes, Bids, StaleParked, Probing
  <1>1. CASE Untouched
    BY <1>1, <1>k DEF Untouched
  <1>2. ASSUME NEW m \in net, NEW lost, Accepted(m, lost) PROVE From
    <2>1. CASE x = m.from
      BY <1>2, <1>k, <2>1 DEF Accepted, Answered
    <2>2. CASE x = Other(m.from)
      BY <1>2, <2>2 DEF Accepted, Bids, StaleParked
    <2> QED BY <2>1, <2>2, FewBefore, FromSide, TwoSides
  <1>3. ASSUME NEW m \in net, NEW lost, Declined(m, lost) PROVE From
    <2>1. CASE x = m.from
      BY <1>3, <1>k, <2>1 DEF Declined, Answered
    <2>2. CASE x = Other(m.from)
      <3>1. Keeps(x)
        BY <1>3, <2>2 DEF Declined, Bids, StaleParked
      <3> QED BY <1>3, <1>k, <2>2, <3>1, FewBefore, FromSide, OtherSide
              DEF Declined, Answered
    <2> QED BY <2>1, <2>2, FewBefore, FromSide, TwoSides
  <1>4. ASSUME Aside(x) PROVE From
    BY <1>4, <1>k DEF Aside
  <1>5. CASE Opened(x) \/ Started(x)
    BY <1>5, <1>k, <1>s DEF Opened, Started, Opens, StillParked, SameSecret, Bids, Probing
  <1>6. CASE Fails(x)
    BY <1>6, <1>k DEF Fails, Settles, Mine, SameSecret, Bids, StaleParked
  <1>7. CASE Quits(x)
    BY <1>7, <1>k DEF Quits, SameSecret, Bids, StaleParked
  <1>8. CASE Checks(x) \/ ProbesRow(x)
    BY <1>8, <1>k DEF Checks, ProbesRow, Keeps, Bids, StaleParked
  <1>9. CASE Refuses(x)
    <2>1. StillProbes(x) /\ Probing(x, y)
      BY <1>9 DEF Refuses, Bids, StaleParked, StillProbes, Probing
    <2>2. ~(peer[x].status = "none" /\ peer'[x].secret = deny[x].secret
            /\ deny[x].kind = "denied")
      BY <1>s, <2>1, FewBefore DEF OwnersInv, Owns, DenialHas, NoDenial
    <2>3. peer[x].status \in Waiting /\ peer[x].secret = y
      BY <1>9, <1>s, <2>2
         DEF Refuses, SameSecret, Bids, StaleParked, Waiting
    <2>4. peer[x].status = "rejected"
      BY <2>1, <2>3, FewBefore DEF IdsInv
    <2> QED BY <2>1, <2>3, <2>4 DEF Bids
  <1>10. ~Succeeds(x) /\ ~Unparks(x) /\ ~Drops(x) /\ ~Falls(x) /\ ~Wavers(x)
    BY DEF Succeeds, Unparks, Drops, Falls, Wavers, Bids, StaleParked, Working
  <1>11. ASSUME NEW s \in Side, Acts(s) PROVE From
    <2>1. CASE x = s
      BY <1>11, <2>1, <1>5, <1>6, <1>7, <1>8, <1>9, <1>10 DEF Acts
    <2> QED BY <1>4, <1>11, <2>1, ActsAside, TwoSides
  <1> QED BY <1>1, <1>2, <1>3, <1>11 DEF Surviving, Kinds

\* A secret a side acts on it acted on before, or it is new.
LEMMA OwnsFrom ==
  ASSUME Surviving, NEW x \in Side, NEW y \in Nat, Owns(x, y)'
  PROVE  Owns(x, y) \/ (NewSecret(y) /\ ~Keeps(x))
  <1> DEFINE From == Owns(x, y) \/ (NewSecret(y) /\ ~Keeps(x))
  <1>o. Other(Other(x)) = x /\ Other(x) # x
    BY OtherSide
  <1> DEFINE Asks == \E m \in net : m.from = x /\ m.secret = y
             SameNet == \A m \in net' : \/ m.from # x
                                        \/ \E n \in net : n.from = x /\ n.secret = m.secret
  <1>a. Owns(x, y) <=> \/ peer[x].status \in Waiting /\ ~Denied(x) /\ peer[x].secret = y
                       \/ ExchangeHas(x, y) \/ Asks \/ Probing(x, y)
    BY <1>o DEF Owns, NetHas
  <1>b. \/ peer'[x].status \in Waiting /\ ~Denied(x)' /\ peer'[x].secret = y
        \/ ExchangeHas(x, y)' \/ Asks' \/ Probing(x, y)'
    BY <1>o DEF Owns, NetHas
  <1>w. ASSUME Stays(x), SameNet PROVE ExchangeHas(x, y)' \/ Asks' => From
    BY <1>a, <1>w DEF Stays, ExchangeHas, Idle
  <1>p. StillProbes(x) \/ parked'[x] = NoProbe => (Probing(x, y)' => From)
    BY <1>a DEF StillProbes, Probing
  <1>k. Keeps(x) => (peer'[x].status \in Waiting /\ ~Denied(x)' /\ peer'[x].secret = y => From)
    BY <1>a DEF Keeps, Denied
  <1>s. net' \subseteq net => SameNet
    OBVIOUS
  <1> HIDE DEF Asks, SameNet
  <1>1. CASE Untouched
    BY <1>1, <1>b, <1>w, <1>p, <1>k, <1>s DEF Untouched
  <1>2. ASSUME NEW m \in net, NEW lost, Accepted(m, lost) \/ Declined(m, lost) PROVE From
    <2>1. SameNet /\ StillProbes(x)
      BY <1>2, <1>s DEF Accepted, Declined, Answered
    <2>2. hs'[x].secret = hs[x].secret /\ (Idle(x) => Idle(x)')
      <3>1. CASE x = m.from
        BY <1>2, <3>1, FewBefore DEF Accepted, Declined, Answered, Stays, Idle, LiveInv
      <3>2. CASE x = Other(m.from)
        BY <1>2, <3>2 DEF Accepted, Declined, Answered, Stays, Idle
      <3> QED BY <3>1, <3>2, FewBefore, FromSide, TwoSides
    <2>3. ExchangeHas(x, y)' => ExchangeHas(x, y)
      BY <2>2 DEF ExchangeHas
    <2>4. Asks' => Asks
      BY <2>1 DEF Asks, SameNet
    <2>5. peer'[x].status \notin Waiting \/ Keeps(x)
      <3>1. CASE x = m.from
        BY <1>2, <3>1 DEF Accepted, Declined, Answered
      <3>2. CASE x = Other(m.from)
        BY <1>2, <3>2 DEF Accepted, Declined, Answered, Waiting
      <3> QED BY <3>1, <3>2, FewBefore, FromSide, TwoSides
    <2> QED BY <1>a, <1>b, <1>p, <1>k, <2>1, <2>3, <2>4, <2>5
  <1>4. ASSUME Aside(x), SameNet PROVE From
    BY <1>4, <1>b, <1>w, <1>p, <1>k DEF Aside
  <1>5. CASE Opened(x)
    <2>1. Probing(x, y)' \/ peer'[x].secret = y => From
      BY <1>5, <1>p, <1>a DEF Opened, Opens, StillParked, SameSecret, Probing, Keeps
    <2> QED BY <1>5, <1>b, <1>w, <1>s, <2>1 DEF Opened
  <1>6. CASE Started(x)
    <2>1. Probing(x, y)' \/ peer'[x].secret = y => From
      BY <1>6, <1>p, <1>a
         DEF Started, Opens, StillParked, SameSecret, Probing, Keeps, Waiting, Denied
    <2>2. ExchangeHas(x, y)' => From
      BY <1>6, <2>1 DEF Started, ExchangeHas
    <2>3. Asks' => From
      BY <1>6, <1>a, <2>1 DEF Started, Asks
    <2> QED BY <1>b, <2>1, <2>2, <2>3
  <1>7. CASE Fails(x) \/ Succeeds(x)
    <2>1. SameNet /\ ~ExchangeHas(x, y)'
      BY <1>7, <1>s DEF Fails, Succeeds, Settles, ExchangeHas, Idle
    <2>2. Asks' => Asks
      BY <2>1 DEF Asks, SameNet
    <2>3. peer'[x].status \notin Waiting \/ Keeps(x) \/ ExchangeHas(x, y) \/ peer'[x].secret # y
      BY <1>7 DEF Fails, Succeeds, Settles, Waiting, Mine, SameSecret, ExchangeHas, Idle
    <2> QED BY <1>7, <1>a, <1>b, <1>p, <1>k, <2>1, <2>2, <2>3 DEF Fails, Succeeds, Settles
  <1>8. CASE Quits(x)
    <2>1. SameNet /\ ~ExchangeHas(x, y)'
      BY <1>8 DEF Quits, SameNet, ExchangeHas, Idle
    <2>2. Asks' => Asks
      BY <2>1 DEF Asks, SameNet
    <2>3. peer'[x].status \in Waiting => peer'[x].secret = peer[x].secret
      BY <1>8 DEF Quits, Waiting, Keeps, SameSecret
    <2>4. peer'[x].status \in Waiting /\ ~Keeps(x) => peer[x].status = "pending"
      BY <1>8 DEF Quits, Waiting
    <2> QED BY <1>8, <1>a, <1>b, <1>p, <1>k, <2>1, <2>2, <2>3, <2>4 DEF Quits, Waiting, Denied
  <1>9. CASE Checks(x)
    BY <1>9, <1>a, <1>b, <1>w, <1>p, <1>k, <1>s DEF Checks, ExchangeHas, Idle, Asks
  <1>10. CASE ProbesRow(x)
    <2>1. Probing(x, y)' => From
      BY <1>10, <1>a DEF ProbesRow, Probing, StaleParked, Waiting, Denied
    <2> QED BY <1>10, <1>b, <1>w, <1>k, <1>s, <2>1 DEF ProbesRow
  <1>11. CASE Unparks(x) \/ Drops(x) \/ Falls(x) \/ Wavers(x)
    <2>1. peer'[x].status \notin Waiting
      BY <1>11 DEF Unparks, Drops, Falls, Wavers, Waiting, Working
    <2> QED BY <1>11, <1>b, <1>w, <1>p, <1>s, <2>1 DEF Unparks, Drops, Falls, Wavers
  <1>12. CASE Refuses(x)
    <2>1. peer'[x].status \in Waiting /\ ~Denied(x)' =>
            peer[x].status \in Waiting /\ ~Denied(x) /\ peer'[x].secret = peer[x].secret
      BY <1>12 DEF Refuses, Waiting, Denied, SameSecret
    <2> QED BY <1>12, <1>a, <1>b, <1>w, <1>p, <1>s, <2>1 DEF Refuses
  <1>13. ASSUME NEW s \in Side, Acts(s) PROVE From
    <2>1. CASE x = s
      BY <1>13, <2>1, <1>5, <1>6, <1>7, <1>8, <1>9, <1>10, <1>11, <1>12 DEF Acts
    <2>2. CASE x # s
      <3>1. SameNet
        BY <1>13, <1>s, <2>2 DEF Acts, Opened, Started, Fails, Succeeds, Settles, Quits,
           Checks, ProbesRow, Unparks, Drops, Refuses, Falls, Wavers, SameNet
      <3> QED BY <1>4, <1>13, <2>2, <3>1, ActsAside, TwoSides
    <2> QED BY <2>1, <2>2
  <1> QED BY <1>1, <1>2, <1>13 DEF Surviving, Kinds

\* A step changes one row at most.
LEMMA OneRow ==
  ASSUME Surviving, NEW x \in Side
  PROVE  Keeps(x) \/ Keeps(Other(x))
  <1>1. ASSUME NEW m \in net, NEW lost, Accepted(m, lost) \/ Declined(m, lost)
        PROVE  Keeps(m.from)
    BY <1>1 DEF Accepted, Declined, Answered
  <1>2. ASSUME NEW s \in Side, Acts(s) PROVE Keeps(Other(s))
    BY <1>2, ActsAside DEF Aside
  <1> QED BY <1>1, <1>2, FewBefore, FromSide, TwoSides, OtherSide
          DEF Surviving, Kinds, Untouched

\* The secrets of the two sides stay apart.
LEMMA OwnersStep ==
  ASSUME Surviving
  PROVE  OwnersInv'
  <1> SUFFICES ASSUME NEW x \in Side, NEW y \in Nat, Owns(x, y)'
               PROVE  /\ y <= fresh' /\ ~Owns(Other(x), y)'
                      /\ ~QueueHas(x, y)' /\ ~DenialHas(x, y)'
    BY DEF OwnersInv
  <1>o. Other(x) \in Side /\ Other(Other(x)) = x
    BY OtherSide
  <1>f. fresh \in Nat /\ fresh' \in Nat /\ fresh <= fresh'
    BY DEF Surviving, Context
  <1>1. Owns(x, y) \/ (NewSecret(y) /\ ~Keeps(x))
    BY OwnsFrom
  <1>2. Owns(x, y) => y <= fresh /\ ~Owns(Other(x), y) /\ ~QueueHas(x, y) /\ ~DenialHas(x, y)
    BY FewBefore DEF OwnersInv
  <1>3. NewSecret(y) => ~(y <= fresh) /\ y <= fresh'
    BY <1>f DEF NewSecret
  <1>4. y <= fresh'
    BY <1>f, <1>1, <1>2, <1>3
  <1>5. ~Owns(Other(x), y)'
    <2>1. Owns(Other(x), y)' => Owns(Other(x), y) \/ (NewSecret(y) /\ ~Keeps(Other(x)))
      BY <1>o, OwnsFrom
    <2>2. Owns(Other(x), y) => y <= fresh
      BY <1>o, FewBefore DEF OwnersInv
    <2> QED BY <1>1, <1>2, <1>3, <2>1, <2>2, OneRow
  <1>6. ~QueueHas(x, y) /\ ~NetHas(x, y) /\ ~DenialHas(x, y)
    <2>1. NetHas(x, y) => y <= fresh /\ Owns(Other(x), y)
      BY <1>o, FewBefore DEF FreshInv, Reaches, Owns
    <2>2. QueueHas(x, y) \/ DenialHas(x, y) => y <= fresh
      BY FewBefore DEF FreshInv, Reaches
    <2> QED BY <1>1, <1>2, <1>3, <2>1, <2>2
  <1>7. ~QueueHas(x, y)' /\ ~DenialHas(x, y)'
    <2>1. StoredFrom(x)
      BY DEF Surviving, Context
    <2> QED BY <1>6, <2>1 DEF StoredFrom, QueueHas, DenialHas
  <1> QED BY <1>4, <1>5, <1>7

\* A row that waits keeps the secret it was made with, unprobed until it is parked.
LEMMA IdsStep ==
  ASSUME Surviving
  PROVE  IdsInv'
  <1> SUFFICES ASSUME NEW x \in Side, peer'[x].status \in Waiting
               PROVE  /\ peer'[x].id = peer'[x].secret
                      /\ peer'[x].status # "rejected" => ~Probing(x, peer[x].secret)'
    BY DEF IdsInv
  <1> DEFINE Fine == /\ peer'[x].id = peer'[x].secret
                     /\ peer'[x].status # "rejected" => ~Probing(x, peer[x].secret)'
  <1>i. peer[x].status \in Waiting =>
          /\ peer[x].id = peer[x].secret
          /\ peer[x].status # "rejected" => ~Probing(x, peer[x].secret)
    BY FewBefore DEF IdsInv
  <1>k. ASSUME Keeps(x), StillProbes(x) \/ parked'[x] = NoProbe PROVE Fine
    BY <1>i, <1>k DEF Keeps, StillProbes, Probing
  <1>1. CASE Untouched
    BY <1>1, <1>k DEF Untouched
  <1>2. ASSUME NEW m \in net, NEW lost, Accepted(m, lost) \/ Declined(m, lost) PROVE Fine
    <2>1. CASE x = m.from
      BY <1>2, <1>k, <2>1 DEF Accepted, Declined, Answered
    <2>2. CASE x = Other(m.from)
      <3>1. Keeps(x) /\ StillProbes(x)
        BY <1>2, <2>2, FewBefore, FromSide, OtherSide
           DEF Accepted, Declined, Answered, Waiting
      <3> QED BY <1>k, <3>1
    <2> QED BY <2>1, <2>2, FewBefore, FromSide, TwoSides
  <1>3. ASSUME Aside(x) PROVE Fine
    BY <1>3, <1>k DEF Aside
  <1>4. CASE Opened(x) \/ Started(x)
    <2>1. CASE NewSecret(peer'[x].secret) /\ StillProbes(x)
               /\ peer'[x].id = peer'[x].secret
      <3>1. ~Probing(x, peer'[x].secret)
        <4>1. ASSUME Probing(x, peer'[x].secret) PROVE peer'[x].secret <= fresh
          BY <2>1, <4>1, FewBefore
             DEF NewSecret, OwnersInv, Owns, Surviving, Context
        <4> QED BY <2>1, <4>1 DEF NewSecret, Surviving, Context
      <3> QED BY <2>1, <3>1 DEF StillProbes, Probing
    <2> QED BY <1>4, <1>k, <2>1 DEF Opened, Started, Opens, Probing
  <1>5. CASE Fails(x)
    BY <1>5, <1>i, <1>k
       DEF Fails, Settles, Mine, SameSecret, StillProbes, Waiting, Probing
  <1>6. CASE Quits(x)
    BY <1>6, <1>i, <1>k DEF Quits, SameSecret, Waiting
  <1>7. CASE Checks(x) \/ ProbesRow(x)
    BY <1>7, <1>i, <1>k DEF Checks, ProbesRow, Keeps, StaleParked
  <1>8. CASE Refuses(x)
    BY <1>8, <1>i DEF Refuses, SameSecret, Waiting
  <1>9. ~Succeeds(x) /\ ~Unparks(x) /\ ~Drops(x) /\ ~Falls(x) /\ ~Wavers(x)
    BY DEF Succeeds, Unparks, Drops, Falls, Wavers, Waiting, Working
  <1>10. ASSUME NEW s \in Side, Acts(s) PROVE Fine
    <2>1. CASE x = s
      BY <1>10, <2>1, <1>4, <1>5, <1>6, <1>7, <1>8, <1>9 DEF Acts
    <2> QED BY <1>3, <1>10, <2>1, ActsAside, TwoSides
  <1> QED BY <1>1, <1>2, <1>10 DEF Surviving, Kinds

\* A request is on the secret of the exchange that waits for it.
LEMMA AskedStep ==
  ASSUME Surviving
  PROVE  AskedInv'
  <1> SUFFICES ASSUME NEW x \in Side, hs'[x].at = "sent"
               PROVE  /\ hs'[x].probe = "none"
                      /\ \A m \in net' : m.live /\ m.from = x => m.secret = hs'[x].secret
    BY DEF AskedInv
  <1> DEFINE Fine == /\ hs'[x].probe = "none"
                     /\ \A m \in net' : m.live /\ m.from = x => m.secret = hs'[x].secret
             NoMore == \A m \in net' : m.live /\ m.from = x => m \in net
  <1>a. hs[x].at = "sent" =>
          /\ hs[x].probe = "none"
          /\ \A m \in net : m.live /\ m.from = x => m.secret = hs[x].secret
    BY FewBefore DEF AskedInv
  <1>k. ASSUME Stays(x), NoMore PROVE Fine
    BY <1>a, <1>k DEF Stays
  <1>1. CASE Untouched
    BY <1>1, <1>k DEF Untouched
  <1>2. ASSUME NEW m \in net, NEW lost, Accepted(m, lost) \/ Declined(m, lost) PROVE Fine
    <2>1. NoMore
      BY <1>2 DEF Accepted, Declined, Answered
    <2>2. Stays(x)
      BY <1>2, FewBefore, FromSide, TwoSides DEF Accepted, Declined, Answered
    <2> QED BY <1>k, <2>1, <2>2
  <1>3. CASE Started(x)
    <2>1. \A m \in net : m.live => m.from # x
      BY <1>3, FewBefore DEF Started, LiveInv, Idle
    <2> QED BY <1>3, <2>1 DEF Started
  <1>4. CASE Opened(x) \/ ProbesRow(x) \/ Unparks(x) \/ Drops(x) \/ Refuses(x)
             \/ Falls(x) \/ Wavers(x)
    BY <1>4, <1>k DEF Opened, ProbesRow, Unparks, Drops, Refuses, Falls, Wavers
  <1>5. ~Fails(x) /\ ~Succeeds(x) /\ ~Quits(x) /\ ~Checks(x)
    BY DEF Fails, Succeeds, Settles, Quits, Checks
  <1>6. ASSUME NEW s \in Side, Acts(s) PROVE Fine
    <2>1. CASE x = s
      BY <1>6, <2>1, <1>3, <1>4, <1>5 DEF Acts
    <2>2. CASE x # s
      <3>1. Stays(x)
        BY <1>6, <2>2, ActsAside, TwoSides DEF Aside
      <3>2. NoMore
        BY <1>6, <2>2 DEF Acts, Opened, Started, Fails, Succeeds, Settles, Quits,
           Checks, ProbesRow, Unparks, Drops, Refuses, Falls, Wavers
      <3> QED BY <1>k, <3>1, <3>2
    <2> QED BY <2>1, <2>2
  <1> QED BY <1>1, <1>2, <1>6 DEF Surviving, Kinds

\* What went wrong is counted.
LEMMA CountsStep ==
  ASSUME Surviving
  PROVE  CountsInv'
  <1>g. /\ spent.faults \in Nat /\ spent'.faults \in Nat /\ spent.faults <= spent'.faults
        /\ spent.decisions \in Nat /\ spent'.decisions \in Nat
        /\ spent.decisions <= spent'.decisions
        /\ spent.outages \in Nat /\ spent'.outages \in Nat
        /\ spent.outages <= spent'.outages
    BY DEF Surviving, Context
  <1>n. ASSUME NEW m \in net', ~m.live
        PROVE  \/ m \in net
               \/ Errs /\ \E s \in Side : Quits(s) /\ m.from = s /\ ~Idle(s)
    BY <1>n, FewBefore
       DEF LiveInv, Idle, Surviving, Kinds, Untouched, Accepted, Declined, Answered, Acts,
       Opened, Started, Fails, Succeeds, Settles, Quits, Checks, ProbesRow, Unparks, Drops,
       Refuses, Falls, Wavers
  <1>1. ASSUME NEW s \in Side, peer'[s].status = "unreachable" PROVE spent'.outages >= 1
    <2>1. peer[s].status = "unreachable" \/ Suffers
      <3>1. ASSUME NEW x \in Side, Acts(x), x = s
            PROVE  peer[s].status = "unreachable" \/ Suffers
        BY <1>1, <3>1 DEF Acts, Opened, Started, Opens, Fails, Succeeds, Quits, Checks,
           ProbesRow, Unparks, Drops, Refuses, Falls, Wavers, Keeps
      <3>2. ASSUME Keeps(s) PROVE peer[s].status = "unreachable"
        BY <1>1, <3>2 DEF Keeps
      <3>3. ASSUME NEW m \in net, NEW lost, Accepted(m, lost) \/ Declined(m, lost)
            PROVE  Keeps(s)
        BY <1>1, <3>3, FewBefore, FromSide, TwoSides DEF Accepted, Declined, Answered
      <3> QED BY <3>1, <3>2, <3>3, ActsAside, TwoSides
              DEF Surviving, Kinds, Untouched, Aside
    <2>2. peer[s].status = "unreachable" => spent.outages >= 1
      BY FewBefore DEF CountsInv
    <2> QED BY <1>g, <2>1, <2>2 DEF Suffers
  <1>2. ASSUME NEW s \in Side,
               \/ LocallyRefused(peer'[s]) \/ deny'[s].kind = "denied"
               \/ ~autoAccept'[s] /\ s \notin Gated
        PROVE  spent'.decisions >= 1
    <2>1. \/ Decides
          \/ LocallyRefused(peer[s]) \/ deny[s].kind = "denied"
          \/ ~autoAccept[s] /\ s \notin Gated
      <3>1. ASSUME NEW x \in Side, Acts(x), x = s, LocallyRefused(peer'[s])
            PROVE  Decides \/ LocallyRefused(peer[s]) \/ deny[s].kind = "denied"
        BY <3>1 DEF Acts, Opened, Started, Opens, Fails, Succeeds, Quits, Checks, Mine,
           ProbesRow, Unparks, Drops, Refuses, Falls, Wavers, Keeps, LocallyRefused,
           RemoteRejectedReasons, Working
      <3>2. ASSUME Keeps(s), LocallyRefused(peer'[s]) PROVE LocallyRefused(peer[s])
        BY <3>2 DEF Keeps, LocallyRefused
      <3>3. ASSUME NEW m \in net, NEW lost, Accepted(m, lost) \/ Declined(m, lost),
                   LocallyRefused(peer'[s])
            PROVE  Keeps(s)
        BY <3>3, FewBefore, FromSide, TwoSides
           DEF Accepted, Declined, Answered, LocallyRefused
      <3>4. LocallyRefused(peer'[s]) =>
              Decides \/ LocallyRefused(peer[s]) \/ deny[s].kind = "denied"
        BY <3>1, <3>2, <3>3, ActsAside, TwoSides DEF Surviving, Kinds, Untouched, Aside
      <3> QED BY <1>2, <3>4 DEF Surviving, Context
    <2>2. LocallyRefused(peer[s]) \/ deny[s].kind = "denied"
          \/ (~autoAccept[s] /\ s \notin Gated) => spent.decisions >= 1
      BY FewBefore DEF CountsInv
    <2> QED BY <1>g, <2>1, <2>2 DEF Decides
  <1>3. ASSUME NEW m \in net', ~m.live PROVE spent'.faults >= 1
    <2>1. m \in net => spent.faults >= 1
      BY <1>3, FewBefore DEF CountsInv
    <2> QED BY <1>g, <1>n, <1>3, <2>1 DEF Errs
  <1>4. ASSUME NEW m \in net', NEW n \in net', ~m.live, ~n.live PROVE m.from = n.from
    <2>1. m \in net /\ n \in net => m.from = n.from
      BY <1>4, FewBefore DEF CountsInv
    <2>2. m \in net \/ n \in net => spent.faults >= 1
      BY <1>4, FewBefore DEF CountsInv
    <2>3. Errs => ~(spent.faults >= 1)
      BY <1>g DEF Errs, Surviving, Few
    <2>4. \A s, x \in Side : Quits(s) /\ Quits(x) /\ ~Idle(s) => s = x
      BY TwoSides DEF Quits, Aside, Stays, Idle
    <2> QED BY <1>n, <1>4, <2>1, <2>2, <2>3, <2>4
  <1> QED BY <1>1, <1>2, <1>3, <1>4 DEF CountsInv

\* A side that may become active on a secret of its own acts on it.
LEMMA BidsOwn ==
  ASSUME NEW x, NEW y, Bids(x, y)
  PROVE  Owns(x, y) /\ RowHas(x, y) /\ y = peer[x].secret
  BY DEF Bids, Owns, Waiting, StaleParked, Denied, RowHas

\* A check says "verified" only while the other side works on the secret, or is
\* closed.
LEMMA VerifyGives ==
  ASSUME Surviving, NEW s \in Side, NEW y \in Nat, ExchangeHas(s, y) \/ Bids(s, y),
         EpochAnswer(peer[Other(s)], y) = "verified"
  PROVE  Holds(Other(s), y) \/ Closed(Other(s))
  <1>o. Other(s) \in Side /\ Other(Other(s)) = s
    BY OtherSide
  <1>1. /\ peer[Other(s)].secret = y
        /\ peer[Other(s)].status \in Waiting \cup Established
    BY <1>o, FewBefore DEF EpochAnswer, TypeOK, RowsOK, PeerRows, Status, Waiting,
       Established
  <1>2. Owns(s, y)
    BY BidsOwn DEF Owns
  <1>3. ~Owns(Other(s), y)
    BY <1>2, FewBefore DEF OwnersInv
  <1>4. peer[Other(s)].status # "needs_attention"
    BY <1>1, FewBefore DEF Together, TroubledInv
  <1>5. CASE peer[Other(s)].status \in Waiting
    <2>1. Denied(Other(s)) /\ ~Probing(Other(s), y)
      BY <1>1, <1>3, <1>5 DEF Owns
    <2>2. spent.decisions >= 1
      BY <1>o, <2>1, FewBefore DEF CountsInv, Denied, LocallyRefused
    <2> QED BY <1>1, <2>1, <2>2 DEF Closed
  <1> QED BY <1>1, <1>4, <1>5 DEF Holds, Established, Working

\* Who waits to check the secret the other side works on keeps waiting, or works on
\* it, or is closed, unless a fault ends the wait.
LEMMA AwaitKept ==
  ASSUME Surviving, NEW u \in Side, NEW y, Awaits(u), Holds(Other(u), y)
  PROVE  \/ hs'[u].at = "accepted" /\ hs'[u].secret = y
            /\ hs'[u].probe \in {"none", "verified"}
         \/ Holds(u, y)' \/ Closed(u)'
         \/ Errs /\ (Quits(u) \/ Checks(u))
  <1> DEFINE Waits == hs'[u].at = "accepted" /\ hs'[u].secret = y
                        /\ hs'[u].probe \in {"none", "verified"}
             Kept == Waits \/ Holds(u, y)' \/ Closed(u)' \/ (Errs /\ (Quits(u) \/ Checks(u)))
  <1>a. /\ hs[u].at = "accepted" /\ hs[u].secret = y /\ ~Idle(u)
        /\ hs[u].probe \in {"none", "verified"} /\ peer[Other(u)].secret = y
    BY DEF Awaits, Holds, Idle
  <1>k. Stays(u) => Waits
    BY <1>a DEF Stays
  <1>1. ASSUME NEW m \in net, NEW lost, Accepted(m, lost) \/ Declined(m, lost)
        PROVE  Stays(u)
    <2>1. u = m.from => ~m.live
      BY <1>a, FewBefore DEF LiveInv
    <2> QED BY <1>1, <2>1, FewBefore, FromSide, TwoSides DEF Accepted, Declined, Answered
  <1>2. ~Started(u)
    BY <1>a DEF Started
  <1>3. CASE Fails(u)
    <2>1. ~Mine(u) /\ Keeps(u) /\ ~TookBoth(u) /\ hs[u].probe = "verified"
      BY <1>a, <1>3 DEF Fails, Settles
    <2>2. CASE Closed(u)
      BY <2>2, ClosedKept
    <2>3. CASE peer[u].status \in Working /\ SameRow(u)
      <3>1. Holds(u, y) \/ peer[u].secret # y
        BY <2>3 DEF Holds
      <3>2. peer[u].secret # y => peer[u].status = "unreachable"
        BY <1>a, <2>1, <2>3 DEF TookBoth, Working
      <3>3. peer[u].secret # y /\ peer[Other(u)].status \in Working => spent.faults >= 1
        BY <1>a, <2>3, FewBefore, TwoSides, OtherSide
           DEF Together, SplitInv, Side, Lower, Higher
      <3>4. peer[u].status = "unreachable" => spent.outages >= 1
        BY FewBefore DEF CountsInv
      <3>5. ~(spent.faults >= 1 /\ spent.outages >= 1)
        BY FewBefore DEF Few, Surviving, Context
      <3>6. Holds(u, y)
        BY <3>1, <3>2, <3>3, <3>4, <3>5 DEF Holds
      <3> QED BY <2>1, <3>6 DEF Keeps, Holds
    <2> QED BY <1>a, <2>1, <2>2, <2>3, FewBefore DEF Together, InFlightInv
  <1>4. CASE Succeeds(u)
    BY <1>a, <1>4 DEF Succeeds, Holds, Working
  <1>5. Quits(u) => Errs
    BY <1>a DEF Quits
  <1>6. CASE Checks(u)
    <2>1. EpochAnswer(peer[Other(u)], y) = "verified"
      BY <1>a DEF EpochAnswer, Holds, Working
    <2> QED BY <1>a, <1>6, <2>1 DEF Checks
  <1>7. CASE Opened(u) \/ ProbesRow(u) \/ Unparks(u) \/ Drops(u) \/ Refuses(u)
             \/ Falls(u) \/ Wavers(u)
    BY <1>7, <1>k DEF Opened, ProbesRow, Unparks, Drops, Refuses, Falls, Wavers
  <1>8. ASSUME NEW s \in Side, Acts(s) PROVE Kept
    <2>1. CASE u = s
      BY <1>8, <2>1, <1>2, <1>3, <1>4, <1>5, <1>6, <1>7 DEF Acts
    <2> QED BY <1>k, <1>8, <2>1, ActsAside, TwoSides DEF Aside
  <1> QED BY <1>k, <1>1, <1>8 DEF Surviving, Kinds, Untouched

\* A row that is made, reopened or unparked has no exchange running.
LEMMA OpensIdle ==
  ASSUME Surviving, NEW x \in Side, Opened(x) \/ Unparks(x)
  PROVE  Idle(x)
  <1>1. ASSUME ~Idle(x), ~Closed(x) PROVE FALSE
    BY <1>1, FewBefore DEF Together, InFlightInv, Opened, Opens, Unparks, StillParked, Mine,
       Working, Closed, Surviving, Context, Few, Decides
  <1>2. ~Closed(x)'
    BY DEF Opened, Opens, Unparks, Closed, Denied
  <1> QED BY <1>1, <1>2, ClosedKept

\* What our check has verified stays the other side's secret while it matters.
LEMMA VerifiedStep ==
  ASSUME Surviving, TypeOK'
  PROVE  VerifiedInv'
  <1> SUFFICES ASSUME NEW x \in Side, NEW y, y = hs'[x].secret,
                      ~Idle(x)', hs'[x].probe = "verified", Usable(x)'
               PROVE  Holds(Other(x), y)' \/ Closed(Other(x))'
    BY DEF VerifiedInv
  <1> DEFINE Goal == Holds(Other(x), y)' \/ Closed(Other(x))'
             Before == /\ ~Idle(x) /\ hs[x].probe = "verified" /\ Usable(x)
                       /\ hs[x].secret = y
  <1>o. Other(x) \in Side /\ Other(Other(x)) = x /\ Other(x) # x
    BY OtherSide
  <1>y. y \in Nat
    BY DEF TypeOK, ExchangesOK, Exchange
  <1>b. ASSUME Before PROVE Goal
    <2>1. ExchangeHas(x, y) /\ Reaches(x, y)
      BY <1>b DEF ExchangeHas, Reaches
    <2>2. Holds(Other(x), y) \/ Closed(Other(x))
      BY <1>b, FewBefore DEF Together, VerifiedInv
    <2>3. CASE Succeeds(Other(x)) /\ TookBoth(Other(x))
      <3>1. /\ Other(x) = Higher
            /\ Holds(x, hs[Other(x)].secret) \/ Closed(x)
        BY <1>o, <2>3, TookBothShows DEF Succeeds, Settles, Idle
      <3>2. Mine(x) \/ Closed(x)
        BY <1>b, <1>o, <3>1, FewBefore DEF Together, InFlightInv
      <3>3. ~Closed(x)
        BY <1>b DEF Usable, Mine, SameRow, Working, Closed, Denied
      <3> QED BY <3>1, <3>2, <3>3 DEF Mine, Holds, Working
    <2> QED BY <1>b, <1>o, <2>1, <2>2, <2>3, ClosedKept, HoldsKept
  <1>k. ASSUME Keeps(x), Stays(x) PROVE Before
    BY <1>k DEF Keeps, Stays, Idle, Usable, Mine, SameRow
  <1>1. CASE Untouched
    BY <1>1, <1>b, <1>k DEF Untouched
  <1>2. ASSUME NEW m \in net, NEW lost, Accepted(m, lost) PROVE Goal
    <2>1. CASE x = m.from
      <3>1. hs[x].at = "sent" => hs[x].probe = "none"
        BY FewBefore DEF AskedInv
      <3> QED BY <1>2, <1>b, <1>k, <2>1, <3>1, FewBefore DEF Accepted, Answered, LiveInv
    <2>2. CASE x = Other(m.from)
      <3>1. Stays(x) /\ ~Idle(x)
        BY <1>2, <2>2 DEF Accepted, Answered, Stays, Idle
      <3>2. peer[x].status \notin Working /\ ~Closed(x)
        BY <1>2, <2>2, FewBefore, TakesWhom DEF Accepted, Working, Closed
      <3>3. Mine(x)
        BY <3>1, <3>2, FewBefore DEF Together, InFlightInv
      <3> QED BY <1>b, <3>1, <3>3 DEF Stays, Usable
    <2> QED BY <2>1, <2>2, FewBefore, FromSide, TwoSides
  <1>3. ASSUME NEW m \in net, NEW lost, Declined(m, lost) PROVE Goal
    <2>1. CASE x = m.from
      <3>1. hs[x].at = "sent" => hs[x].probe = "none"
        BY FewBefore DEF AskedInv
      <3> QED BY <1>3, <1>b, <1>k, <2>1, <3>1, FewBefore DEF Declined, Answered, LiveInv
    <2>2. CASE x = Other(m.from)
      BY <1>3, <1>b, <1>k, <2>2 DEF Declined, Answered, Usable, Mine, Working
    <2> QED BY <2>1, <2>2, FewBefore, FromSide, TwoSides
  <1>4. ASSUME Aside(x) PROVE Goal
    BY <1>4, <1>b, <1>k DEF Aside
  <1>5. CASE Checks(x)
    <2>1. ExchangeHas(x, y) /\ EpochAnswer(peer[Other(x)], y) = "verified"
      BY <1>5 DEF Checks, ExchangeHas, Idle
    <2>2. Holds(Other(x), y) \/ Closed(Other(x))
      BY <1>y, <2>1, VerifyGives
    <2> QED BY <1>5, <1>o, <2>2, ClosedKept DEF Checks, Aside, Keeps, Holds
  <1>6. ~Opened(x) /\ ~Unparks(x)
    <2>1. Opened(x) \/ Unparks(x) => Stays(x)
      BY DEF Opened, Unparks
    <2> QED BY <2>1, OpensIdle DEF Stays, Idle
  <1>7. CASE ProbesRow(x)
    BY <1>7, <1>b, <1>k DEF ProbesRow
  <1>8. ~Started(x) /\ ~Fails(x) /\ ~Succeeds(x) /\ ~Quits(x)
    BY DEF Started, Fails, Succeeds, Settles, Quits, Idle
  <1>9. ~Drops(x) /\ ~Refuses(x) /\ ~Falls(x)
    BY DEF Drops, Refuses, Falls, Usable, Mine, SameRow, Working
  <1>10. CASE Wavers(x)
    BY <1>10, <1>b DEF Wavers, SameSecret, Stays, Idle, Usable, Mine, SameRow, Working
  <1>11. ASSUME NEW s \in Side, Acts(s) PROVE Goal
    <2>1. CASE x = s
      BY <1>11, <2>1, <1>5, <1>6, <1>7, <1>8, <1>9, <1>10 DEF Acts
    <2> QED BY <1>4, <1>11, <2>1, ActsAside, TwoSides
  <1> QED BY <1>1, <1>2, <1>3, <1>11 DEF Surviving, Kinds

\* The answer to a probe stays, is used up or is new.
LEMMA ProbeFrom ==
  ASSUME Surviving, NEW x \in Side
  PROVE  parked'[x] = parked[x] \/ parked'[x] = NoProbe \/ ProbesRow(x)
  <1>1. ASSUME NEW s \in Side, Acts(s)
        PROVE  parked'[x] = parked[x] \/ parked'[x] = NoProbe \/ ProbesRow(x)
    <2>1. CASE x = s
      BY <1>1, <2>1 DEF Acts, Opened, Started, Opens, Fails, Succeeds, Settles, Quits,
         Checks, Unparks, Drops, Refuses, Falls, Wavers, StillProbes
    <2> QED BY <1>1, <2>1, ActsAside, TwoSides DEF Aside, StillProbes
  <1> QED BY <1>1 DEF Surviving, Kinds, Untouched, Accepted, Declined, Answered, StillProbes

\* What the backstop has verified stays the other side's secret while it matters.
LEMMA ParkedStep ==
  ASSUME Surviving, TypeOK'
  PROVE  ParkedInv'
  <1> SUFFICES ASSUME NEW x \in Side, NEW y, y = parked'[x].secret,
                      parked'[x].probe = "verified",
                      peer'[x].status = "rejected", peer'[x].secret = y
               PROVE  Holds(Other(x), y)' \/ Closed(Other(x))'
    BY DEF ParkedInv, StillParked
  <1>o. Other(x) \in Side /\ Other(Other(x)) = x
    BY OtherSide
  <1>y. y \in Nat
    BY DEF TypeOK, RowsOK, PeerRows
  <1>1. CASE ProbesRow(x)
    <2>1. Bids(x, y) /\ EpochAnswer(peer[Other(x)], y) = "verified"
      BY <1>1 DEF ProbesRow, Keeps, Bids
    <2>2. Holds(Other(x), y) \/ Closed(Other(x))
      BY <1>y, <2>1, VerifyGives
    <2> QED BY <1>1, <1>o, <2>2, ClosedKept DEF ProbesRow, Aside, Keeps, Holds
  <1>2. CASE ~ProbesRow(x)
    <2>1. parked'[x] = parked[x] /\ Probing(x, y)
      BY <1>2, ProbeFrom DEF NoProbe, Probing
    <2>2. Bids(x, y)'
      BY <2>1 DEF Bids, Probing
    <2>3. Bids(x, y)
      <3>1. y <= fresh
        BY <1>y, <2>1, FewBefore DEF OwnersInv, Owns
      <3>2. ~NewSecret(y)
        BY <1>y, <3>1 DEF NewSecret, Surviving, Context
      <3> QED BY <1>y, <2>2, <3>2, BidsFrom
    <2>4. peer[x].status = "rejected" /\ peer[x].secret = y
      BY <2>1, <2>3, FewBefore DEF Bids, StaleParked, IdsInv, Waiting
    <2>5. Holds(Other(x), y) \/ Closed(Other(x))
      BY <2>1, <2>4, FewBefore DEF Together, ParkedInv, StillParked
    <2>6. Reaches(x, y)
      BY <2>4 DEF Reaches, RowHas
    <2>7. ~(Succeeds(Other(x)) /\ TookBoth(Other(x)))
      <3>1. ~Holds(x, hs[Other(x)].secret) /\ ~Closed(x)
        BY <2>1, <2>4 DEF Holds, Working, Closed
      <3> QED BY <1>o, <3>1, TookBothShows DEF Succeeds, Settles, Idle
    <2>8. Holds(Other(x), y) => ~(Suffers /\ \A s \in Side : Idle(s))
      <3>1. Holds(Other(x), y) => Awaits(x) \/ spent.faults >= 1
        BY <2>3, FewBefore DEF Together, TakenInv, Holds
      <3>2. Suffers => ~(spent.faults >= 1)
        BY DEF Suffers, Surviving, Context, Few
      <3> QED BY <3>1, <3>2 DEF Awaits, Idle
    <2> QED BY <1>o, <2>5, <2>6, <2>7, <2>8, ClosedKept, HoldsKept
  <1> QED BY <1>1, <1>2

\* The sender of a request that is accepted, and who hears of it, will check it.
LEMMA AcceptAwaited ==
  ASSUME Surviving, NEW m \in net, NEW lost, Accepted(m, lost), m.live, ~lost
  PROVE  Awaits(m.from)'
  <1>1. hs[m.from].at = "sent" /\ hs[m.from].secret = m.secret /\ hs[m.from].probe = "none"
    BY FewBefore, FromSide DEF LiveInv, AskedInv
  <1> QED BY <1>1 DEF Accepted, Answered, Awaits

\* Who took a handshake is awaited, or a fault was counted.
LEMMA TakenStep ==
  ASSUME Surviving, TypeOK'
  PROVE  TakenInv'
  <1> SUFFICES ASSUME NEW x \in Side, NEW y, y = peer'[Other(x)].secret,
                      peer'[Other(x)].status \in Working, Bids(x, y)', ~(spent'.faults >= 1)
               PROVE  Awaits(x)'
    BY DEF TakenInv
  <1>o. Other(x) \in Side /\ Other(Other(x)) = x
    BY OtherSide
  <1>y. y \in Nat
    BY <1>o DEF TypeOK, RowsOK, PeerRows
  <1>f. ~Errs /\ ~(spent.faults >= 1)
    BY DEF Errs, Surviving, Context
  <1>1. Holds(Other(x), y)'
    BY DEF Holds
  <1>2. CASE Holds(Other(x), y)
    <2>1. ~NewSecret(y)
      <3>1. Reaches(Other(x), y)
        BY <1>2 DEF Holds, Reaches, RowHas, Working
      <3>2. y <= fresh
        BY <1>o, <1>y, <3>1, FewBefore DEF FreshInv
      <3> QED BY <1>y, <3>2 DEF NewSecret, Surviving, Context
    <2>2. Bids(x, y)
      BY <1>y, <2>1, BidsFrom
    <2>3. Awaits(x)
      BY <1>2, <1>f, <2>2, FewBefore DEF Together, TakenInv, Holds
    <2>4. ~Holds(x, y)'
      BY DEF Bids, StaleParked, Holds, Working
    <2>5. ~Closed(x)'
      BY DEF Bids, StaleParked, Closed, Denied
    <2> QED BY <1>2, <1>f, <2>3, <2>4, <2>5, AwaitKept DEF Awaits
  <1>3. ASSUME NEW m \in net, NEW lost \in BOOLEAN, Accepted(m, lost),
               Other(x) = Other(m.from), y = m.secret
        PROVE  Awaits(x)'
    <2>1. x = m.from
      BY <1>3, <1>o, FewBefore, FromSide, OtherSide
    <2>2. m.live /\ ~lost
      BY <1>3, <1>f, FewBefore DEF Accepted, Answered, CountsInv
    <2> QED BY <1>3, <2>1, <2>2, AcceptAwaited
  <1>4. ~Owns(Other(x), y)
    <2>1. ASSUME Owns(Other(x), y) PROVE FALSE
      <3>1. y <= fresh /\ ~Owns(x, y)
        BY <1>o, <1>y, <2>1, FewBefore DEF OwnersInv
      <3>2. ~NewSecret(y)
        BY <1>y, <3>1 DEF NewSecret, Surviving, Context
      <3> QED BY <1>y, <3>1, <3>2, BidsFrom, BidsOwn
    <2> QED BY <2>1
  <1>5. ~(Succeeds(Other(x)) /\ y = hs[Other(x)].secret)
    BY <1>4 DEF Succeeds, Settles, Owns, ExchangeHas, Idle
  <1>6. ~(Unparks(Other(x)) /\ y = peer[Other(x)].secret)
    BY <1>4 DEF Unparks, StillParked, Owns, Probing, NoProbe
  <1> QED BY <1>o, <1>1, <1>2, <1>3, <1>5, <1>6, HoldsFrom

\* The exchange of a side is the one it was, or on the secret its row is pending on.
LEMMA ExchangeHasFrom ==
  ASSUME Surviving, NEW x \in Side, NEW y, ExchangeHas(x, y)'
  PROVE  ExchangeHas(x, y) \/ Bids(x, y)'
  <1> DEFINE From == ExchangeHas(x, y) \/ Bids(x, y)'
  <1>k. Stays(x) => From
    BY DEF Stays, ExchangeHas, Idle
  <1>1. ASSUME NEW m \in net, NEW lost, Accepted(m, lost) \/ Declined(m, lost) PROVE From
    <2>1. CASE x = m.from
      BY <1>1, <1>k, <2>1, FewBefore
         DEF Accepted, Declined, Answered, ExchangeHas, Idle, LiveInv
    <2> QED BY <1>1, <1>k, <2>1, FewBefore, FromSide, TwoSides
            DEF Accepted, Declined, Answered
  <1>2. ASSUME NEW s \in Side, Acts(s) PROVE From
    <2>1. CASE x = s
      <3>1. CASE Started(x)
        BY <3>1 DEF Started, Opens, Keeps, ExchangeHas, Bids
      <3>2. CASE Checks(x)
        BY <3>2 DEF Checks, ExchangeHas, Idle
      <3>3. ~Fails(x) /\ ~Succeeds(x) /\ ~Quits(x)
        BY DEF Fails, Succeeds, Settles, Quits, ExchangeHas, Idle
      <3> QED BY <1>2, <1>k, <2>1, <3>1, <3>2, <3>3
              DEF Acts, Opened, ProbesRow, Unparks, Drops, Refuses, Falls, Wavers
    <2> QED BY <1>2, <1>k, <2>1, ActsAside, TwoSides DEF Aside
  <1> QED BY <1>k, <1>1, <1>2 DEF Surviving, Kinds, Untouched

\* A row in trouble stays apart from what the other side is about to use.
LEMMA TroubledStep ==
  ASSUME Surviving, TypeOK'
  PROVE  TroubledInv'
  <1> SUFFICES ASSUME NEW x \in Side, NEW y, y = peer'[Other(x)].secret,
                      peer'[Other(x)].status = "needs_attention"
               PROVE  ~Bids(x, y)' /\ ~ExchangeHas(x, y)'
    BY DEF TroubledInv
  <1>o. Other(x) \in Side /\ Other(Other(x)) = x
    BY OtherSide
  <1>y. y \in Nat
    BY <1>o DEF TypeOK, RowsOK, PeerRows
  <1> DEFINE Apart == ~Bids(x, y)' /\ ~ExchangeHas(x, y)'
  <1>k. CASE peer[Other(x)].status = "needs_attention" /\ peer[Other(x)].secret = y
    <2>1. ~Bids(x, y) /\ ~ExchangeHas(x, y)
      BY <1>k, FewBefore DEF Together, TroubledInv
    <2>2. ~NewSecret(y)
      <3>1. y <= fresh
        BY <1>o, <1>y, <1>k, FewBefore DEF FreshInv, Reaches, RowHas
      <3> QED BY <1>y, <3>1 DEF NewSecret, Surviving, Context
    <2> QED BY <1>y, <2>1, <2>2, BidsFrom, ExchangeHasFrom
  <1>a. ASSUME Aside(x) PROVE /\ Bids(x, y)' => Bids(x, y)
                              /\ ExchangeHas(x, y)' => ExchangeHas(x, y)
    BY <1>a DEF Aside, Keeps, Stays, StillProbes, Bids, StaleParked, Probing, ExchangeHas,
       Idle
  <1>1. ASSUME Keeps(Other(x)) PROVE Apart
    BY <1>1, <1>k DEF Keeps
  <1>s. ASSUME Holds(Other(x), y), peer[Other(x)].epoch # epoch[x] PROVE ~Reaches(x, y)
    BY <1>o, <1>y, <1>s, FewBefore DEF StaleInv, Holds
  <1>2. ASSUME NEW m \in net, NEW lost, Accepted(m, lost) \/ Declined(m, lost) PROVE Apart
    <2>1. CASE x = m.from
      <3>1. CASE ~Keeps(Other(x)) /\ peer[Other(x)].status # "needs_attention"
        <4>1. Holds(Other(x), y) /\ peer[Other(x)].epoch # epoch[x]
          BY <1>2, <2>1, <3>1, FewBefore
             DEF Accepted, Declined, SameSecret, Established, Working, Holds, EpochsInv
        <4>2. ~RowHas(x, y) /\ ~ExchangeHas(x, y)
          BY <1>s, <4>1 DEF Reaches
        <4>3. Keeps(x)
          BY <1>2, <2>1 DEF Accepted, Declined, Answered
        <4> QED BY <4>2, <4>3, ExchangeHasFrom DEF Keeps, Bids, StaleParked, RowHas
      <3> QED BY <1>1, <1>2, <1>k, <2>1, <3>1 DEF Accepted, Declined, SameSecret
    <2>2. CASE x = Other(m.from)
      BY <1>1, <1>2, <2>2, FewBefore, FromSide, OtherSide DEF Accepted, Declined, Answered
    <2> QED BY <2>1, <2>2, FewBefore, FromSide, TwoSides
  <1>3. ASSUME Aside(x), Fails(Other(x)) PROVE Apart
    <2>1. CASE ~Keeps(Other(x))
      <3>1. Owns(Other(x), y)
        BY <1>3, <2>1 DEF Fails, Settles, Mine, SameSecret, Owns, ExchangeHas, Idle
      <3>2. ~Owns(x, y)
        BY <1>o, <1>y, <3>1, FewBefore DEF OwnersInv
      <3> QED BY <1>3, <1>a, <3>2, BidsOwn DEF Owns
    <2> QED BY <1>1, <2>1
  <1>4. ASSUME Aside(x), Falls(Other(x)) PROVE Apart
    <2>1. CASE Holds(Other(x), y) /\ peer[Other(x)].epoch # epoch[x]
      BY <1>4, <1>a, <1>s, <2>1, BidsOwn DEF Reaches
    <2>2. CASE Holds(Other(x), y) /\ Suffers /\ \A s \in Side : Idle(s)
      <3>1. Bids(x, y) => Awaits(x) \/ spent.faults >= 1
        BY <2>2, FewBefore DEF Together, TakenInv, Holds
      <3>2. ~(spent.faults >= 1)
        BY <2>2 DEF Suffers, Surviving, Context, Few
      <3> QED BY <1>4, <1>a, <2>2, <3>1, <3>2 DEF Awaits, ExchangeHas, Idle
    <2> QED BY <1>o, <1>k, <1>4, <2>1, <2>2 DEF Falls, SameSecret, Holds
  <1>5. ASSUME NEW s \in Side, Acts(s) PROVE Apart
    <2>1. CASE Other(x) = s
      <3>1. Aside(x)
        BY <1>o, <1>5, <2>1, ActsAside
      <3>2. CASE ~Fails(s) /\ ~Falls(s)
        <4>1. Keeps(s)
          BY <1>5, <2>1, <3>2 DEF Acts, Opened, Started, Opens, Succeeds, Quits, Checks,
             ProbesRow, Unparks, Drops, Refuses, Wavers, Working, Keeps
        <4> QED BY <1>1, <2>1, <4>1
      <3> QED BY <1>3, <1>4, <2>1, <3>1, <3>2
    <2>2. CASE Other(x) # s
      BY <1>o, <1>1, <1>5, <2>2, ActsAside, TwoSides DEF Aside
    <2> QED BY <2>1, <2>2
  <1> QED BY <1>o, <1>1, <1>2, <1>5 DEF Surviving, Kinds, Untouched

\* A side gets active by its own exchange, or its backstop, only on what the other
\* side works on, unless that one is closed.
LEMMA OwnAgrees ==
  ASSUME Surviving, NEW v \in Side, NEW y,
         (Succeeds(v) /\ y = hs[v].secret) \/ (Unparks(v) /\ y = peer[v].secret)
  PROVE  Holds(Other(v), y) \/ Closed(Other(v))
  BY FewBefore DEF Succeeds, Settles, Unparks, StillParked, TookBoth, Usable, Working, Idle,
     Together, VerifiedInv, ParkedInv

\* A request in transit was there before, unless its sender's row is pending.
LEMMA NetFrom ==
  ASSUME Surviving, NEW m \in net'
  PROVE  \/ m \in net
         \/ peer'[m.from].status = "pending"
         \/ Errs /\ \E n \in net : n.from = m.from /\ n.secret = m.secret
  BY DEF Surviving, Kinds, Untouched, Accepted, Declined, Answered, Acts, Opened,
     Started, Opens, Keeps, Fails, Succeeds, Settles, Quits, Checks, ProbesRow, Unparks,
     Drops, Refuses, Falls, Wavers

\* Both sides work on different secrets only while the higher one has yet to check.
LEMMA SplitStep ==
  ASSUME Surviving
  PROVE  SplitInv'
  <1> SUFFICES ASSUME NEW y, NEW z, Holds(Lower, y)', Holds(Higher, z)', y # z
               PROVE  Awaits(Higher)' /\ spent'.faults >= 1
    BY DEF SplitInv, Holds, Side, Lower, Higher
  <1>o. /\ Lower \in Side /\ Higher \in Side /\ Other(Lower) = Higher
        /\ Other(Higher) = Lower
    BY DEF Lower, Higher, Side, Other
  <1>c. ~Closed(Lower)' /\ ~Closed(Higher)' /\ ~Holds(Higher, y)'
    BY DEF Closed, Denied, Holds, Working
  <1>d. ~Closed(Lower) /\ ~Closed(Higher)
    BY <1>c, <1>o, ClosedKept
  <1>f. spent.faults >= 1 => ~Errs /\ spent'.faults >= 1
    BY DEF Errs, Surviving, Context, Few
  <1>a. ASSUME Awaits(Higher), Holds(Lower, y), spent.faults >= 1
        PROVE  Awaits(Higher)' /\ spent'.faults >= 1
    BY <1>a, <1>o, <1>c, <1>f, AwaitKept DEF Awaits, Holds
  <1>1. CASE Holds(Lower, y) /\ Holds(Higher, z)
    BY <1>1, <1>a, FewBefore DEF Together, SplitInv, Holds, Side, Lower, Higher
  <1>2. ASSUME NEW m \in net, NEW lost \in BOOLEAN, Accepted(m, lost),
               Higher = Other(m.from), z = m.secret
        PROVE  Awaits(Higher)' /\ spent'.faults >= 1
    <2>1. m.from = Lower
      BY <1>2, <1>o, FewBefore, FromSide, OtherSide
    <2>2. Holds(Lower, y)
      BY <1>2, <2>1 DEF Accepted, Answered, Keeps, Holds
    <2>3. ~Holds(Higher, y)
      BY <1>2, <1>o, FewBefore, TakesWhom DEF Accepted, Holds, Working
    <2>4. spent.faults >= 1 /\ Awaits(Higher)
      BY <1>2, <1>d, <2>1, <2>2, <2>3, FewBefore DEF Together, LateLowerInv, Holds
    <2> QED BY <1>a, <2>2, <2>4
  <1>3. ASSUME NEW m \in net, NEW lost \in BOOLEAN, Accepted(m, lost),
               Lower = Other(m.from), y = m.secret
        PROVE  Awaits(Higher)' /\ spent'.faults >= 1
    <2>1. m.from = Higher
      BY <1>3, <1>o, FewBefore, FromSide, OtherSide
    <2>2. Holds(Higher, z)
      BY <1>3, <2>1 DEF Accepted, Answered, Keeps, Holds
    <2>3. /\ peer[Lower].status \notin Working
          /\ peer[Lower].status = "pending" => Idle(Lower)
      BY <1>3, <1>o, FewBefore, TakesWhom DEF Accepted, Working, Lower
    <2>4. ~Awaits(Lower)
      <3>1. Idle(Lower)
        BY <1>o, <1>d, <2>3, FewBefore DEF Together, InFlightInv, Mine
      <3> QED BY <3>1 DEF Awaits, Idle
    <2>5. m.live /\ spent.faults >= 1
      BY <1>3, <1>d, <2>1, <2>2, <2>3, <2>4, FewBefore DEF Together, LateHigherInv, Holds
    <2>6. ~lost
      BY <1>3, <1>f, <2>5 DEF Accepted, Answered
    <2> QED BY <1>3, <1>f, <2>1, <2>5, <2>6, AcceptAwaited
  <1>4. ASSUME NEW v \in Side, NEW x, Holds(v, x)',
               (Succeeds(v) /\ x = hs[v].secret) \/ (Unparks(v) /\ x = peer[v].secret)
        PROVE  Holds(Other(v), x)' \/ Closed(Other(v))
    <2>1. Keeps(Other(v))
      BY <1>4 DEF Succeeds, Settles, Unparks, Aside
    <2> QED BY <1>4, <2>1, OwnAgrees DEF Keeps, Holds
  <1>5. ~((Succeeds(Lower) /\ y = hs[Lower].secret) \/ (Unparks(Lower) /\ y = peer[Lower].secret))
    BY <1>4, <1>o, <1>c, <1>d
  <1>6. ~((Succeeds(Higher) /\ z = hs[Higher].secret)
          \/ (Unparks(Higher) /\ z = peer[Higher].secret))
    <2>1. ~Holds(Lower, z)'
      BY DEF Holds
    <2> QED BY <1>4, <1>o, <1>d, <2>1
  <1> QED BY <1>o, <1>1, <1>2, <1>3, <1>5, <1>6, HoldsFrom

\* A request of the lower side that comes late finds the higher side on the secret the
\* lower one works on, or closed, or about to check.
LEMMA LateLowerStep ==
  ASSUME Surviving
  PROVE  LateLowerInv'
  <1> SUFFICES ASSUME NEW y, Holds(Lower, y)', NEW m \in net', m.from = Lower, m.secret # y
               PROVE  /\ spent'.faults >= 1
                      /\ Holds(Higher, y)' \/ Closed(Higher)' \/ Awaits(Higher)'
    BY DEF LateLowerInv, Holds
  <1> DEFINE Settled == Holds(Higher, y)' \/ Closed(Higher)' \/ Awaits(Higher)'
  <1>o. /\ Lower \in Side /\ Higher \in Side /\ Lower # Higher
        /\ Other(Lower) = Higher /\ Other(Higher) = Lower
    BY DEF Lower, Higher, Side, Other
  <1>c. ~Closed(Lower)' /\ ~Closed(Lower)
    <2>1. ~Closed(Lower)'
      BY DEF Closed, Denied, Holds, Working
    <2> QED BY <1>o, <2>1, ClosedKept
  <1>f. spent.faults >= 1 => ~Errs /\ ~Suffers /\ spent'.faults >= 1
    BY DEF Errs, Suffers, Surviving, Context, Few
  <1>n. m \in net \/ (Errs /\ \E n \in net : n.from = m.from /\ n.secret = m.secret)
    BY NetFrom DEF Holds, Working
  <1>1. CASE Holds(Lower, y)
    <2>1. /\ spent.faults >= 1
          /\ Holds(Higher, y) \/ Closed(Higher) \/ Awaits(Higher)
      BY <1>1, <1>n, FewBefore DEF Together, LateLowerInv, Holds
    <2>2. ASSUME Holds(Higher, y) PROVE Settled
      <3>1. Reaches(Lower, y)
        BY <1>1 DEF Reaches, RowHas, Holds, Working
      <3>2. CASE Succeeds(Higher) /\ TookBoth(Higher)
        <4>1. Holds(Lower, hs[Higher].secret)
          BY <1>o, <1>c, <3>2, TookBothShows DEF Succeeds, Settles, Idle
        <4> QED BY <1>1, <3>2, <4>1 DEF Succeeds, Holds, Working
      <3> QED BY <1>f, <1>o, <2>1, <2>2, <3>1, <3>2, HoldsKept
    <2>3. ASSUME Awaits(Higher) PROVE Settled
      BY <1>1, <1>f, <1>o, <2>1, <2>3, AwaitKept DEF Awaits, Holds
    <2> QED BY <1>f, <1>o, <2>1, <2>2, <2>3, ClosedKept
  <1>2. ASSUME NEW k \in net, NEW lost \in BOOLEAN, Accepted(k, lost),
               Lower = Other(k.from), y = k.secret
        PROVE  spent'.faults >= 1 /\ Settled
    <2>1. k.from = Higher
      BY <1>2, <1>o, FewBefore, FromSide, OtherSide
    <2>2. /\ peer[Lower].status \notin Working
          /\ peer[Lower].status = "pending" => Idle(Lower)
      BY <1>2, <1>o, FewBefore, TakesWhom DEF Accepted, Working, Lower
    <2>3. Idle(Lower)
      BY <1>c, <1>o, <2>2, FewBefore DEF Together, InFlightInv, Mine
    <2>4. m \in net
      BY <1>2 DEF Accepted, Answered
    <2>5. ~m.live
      BY <2>3, <2>4, FewBefore DEF LiveInv, Idle
    <2>6. spent.faults >= 1 /\ k.live
      BY <1>o, <2>1, <2>4, <2>5, FewBefore DEF CountsInv
    <2>7. ~lost
      BY <1>2, <1>f, <2>6 DEF Accepted, Answered
    <2> QED BY <1>2, <1>f, <2>1, <2>6, <2>7, AcceptAwaited
  <1>3. CASE (Succeeds(Lower) /\ y = hs[Lower].secret)
             \/ (Unparks(Lower) /\ y = peer[Lower].secret)
    <2>1. Keeps(Higher) /\ net' = net
      BY <1>3, <1>o DEF Succeeds, Settles, Unparks, Aside
    <2>2. Holds(Higher, y) \/ Closed(Higher)
      BY <1>3, <1>o, OwnAgrees
    <2>3. Settled
      BY <1>o, <2>1, <2>2, ClosedKept DEF Keeps, Holds
    <2>4. ~m.live
      BY <1>3, <1>o, <2>1, OpensIdle, FewBefore DEF LiveInv, Succeeds, Settles, Idle
    <2>5. spent.faults >= 1
      BY <2>1, <2>4, FewBefore DEF CountsInv
    <2> QED BY <1>f, <2>3, <2>5
  <1> QED BY <1>o, <1>1, <1>2, <1>3, HoldsFrom

\* A request of the higher side that comes late finds the lower one at work, closed or
\* about to check, or is still waited for.
LEMMA LateHigherStep ==
  ASSUME Surviving
  PROVE  LateHigherInv'
  <1> SUFFICES ASSUME NEW y, Holds(Higher, y)', NEW m \in net', m.from = Higher,
                      m.secret # y
               PROVE  \/ peer'[Lower].status \in Working \/ Closed(Lower)' \/ Awaits(Lower)'
                      \/ m.live /\ spent'.faults >= 1
    BY DEF LateHigherInv, Holds
  <1> DEFINE Settled == \/ peer'[Lower].status \in Working \/ Closed(Lower)'
                        \/ Awaits(Lower)' \/ (m.live /\ spent'.faults >= 1)
  <1>o. /\ Lower \in Side /\ Higher \in Side /\ Lower # Higher
        /\ Other(Lower) = Higher /\ Other(Higher) = Lower
    BY DEF Lower, Higher, Side, Other
  <1>c. ~Closed(Higher)' /\ ~Closed(Higher)
    <2>1. ~Closed(Higher)'
      BY DEF Closed, Denied, Holds, Working
    <2> QED BY <1>o, <2>1, ClosedKept
  <1>f. spent.faults >= 1 => ~Errs /\ ~Suffers /\ spent'.faults >= 1
    BY DEF Errs, Suffers, Surviving, Context, Few
  <1>e. ASSUME Errs, m \in net PROVE m.live /\ spent'.faults >= 1
    <2>1. m.live
      BY <1>e, <1>f, FewBefore DEF CountsInv
    <2> QED BY <1>e, <2>1 DEF Errs, Surviving, Context
  <1>n. m \in net \/ (Errs /\ \E n \in net : n.from = m.from /\ n.secret = m.secret)
    BY NetFrom DEF Holds, Working
  <1>1. CASE Holds(Higher, y)
    <2>1. \/ peer[Lower].status \in Working \/ Closed(Lower) \/ Awaits(Lower)
          \/ m \in net /\ m.live /\ spent.faults >= 1
      BY <1>1, <1>f, <1>n, FewBefore DEF Together, LateHigherInv, Holds
    <2>2. ASSUME NEW z, Holds(Lower, z) PROVE Settled
      <3>1. Reaches(Higher, z)
        <4>1. CASE z = y
          BY <1>1, <4>1 DEF Reaches, RowHas, Holds, Working
        <4>2. CASE z # y
          BY <1>1, <1>o, <2>2, <4>2, FewBefore
             DEF Together, SplitInv, Awaits, Reaches, ExchangeHas, Holds, Idle, Side,
                 Lower, Higher
        <4> QED BY <4>1, <4>2
      <3>2. ~(Succeeds(Lower) /\ TookBoth(Lower))
        BY <1>o, TookBothShows DEF Succeeds, Settles, Idle
      <3>3. ~(Suffers /\ \A s \in Side : Idle(s))
        <4>1. ASSUME Suffers, \A s \in Side : Idle(s) PROVE FALSE
          <5>1. PICK n \in net : n.from = Higher
            BY <1>n
          <5>2. ~n.live
            BY <1>o, <4>1, <5>1, FewBefore DEF LiveInv, Idle
          <5> QED BY <1>f, <4>1, <5>2, FewBefore DEF CountsInv
        <4> QED BY <4>1
      <3> QED BY <1>o, <2>2, <3>1, <3>2, <3>3, HoldsKept DEF Holds
    <2>3. ASSUME Awaits(Lower) PROVE Settled
      <3>1. CASE Errs /\ (Quits(Lower) \/ Checks(Lower))
        <4>1. m \in net
          BY <1>o, <3>1 DEF Quits, Checks
        <4> QED BY <1>e, <3>1, <4>1
      <3> QED BY <1>1, <1>o, <2>3, <3>1, AwaitKept DEF Awaits, Holds
    <2> QED BY <1>f, <1>o, <2>1, <2>2, <2>3, ClosedKept DEF Holds
  <1>2. ASSUME NEW k \in net, NEW lost \in BOOLEAN, Accepted(k, lost),
               Higher = Other(k.from), y = k.secret
        PROVE  Settled
    <2>1. k.from = Lower
      BY <1>2, <1>o, FewBefore, FromSide, OtherSide
    <2>2. m \in net
      BY <1>2 DEF Accepted, Answered
    <2>3. CASE k.live /\ ~lost
      BY <1>2, <2>1, <2>3, AcceptAwaited
    <2>4. CASE lost
      BY <1>2, <1>e, <2>2, <2>4 DEF Accepted, Answered
    <2>5. CASE ~k.live
      BY <1>f, <1>o, <2>1, <2>2, <2>5, FewBefore DEF CountsInv
    <2> QED BY <2>3, <2>4, <2>5
  <1>3. CASE (Succeeds(Higher) /\ y = hs[Higher].secret)
             \/ (Unparks(Higher) /\ y = peer[Higher].secret)
    <2>1. Keeps(Lower)
      BY <1>3, <1>o DEF Succeeds, Settles, Unparks, Aside
    <2>2. Holds(Lower, y) \/ Closed(Lower)
      BY <1>3, <1>o, OwnAgrees
    <2> QED BY <1>o, <2>1, <2>2, ClosedKept DEF Keeps, Holds
  <1> QED BY <1>o, <1>1, <1>2, <1>3, HoldsFrom

-----------------------------------------------------------------------------
(* Every step is of one of these kinds *)

\* What spending shows.
LEMMA SpendCounts ==
  ASSUME TypeOK
  PROVE  /\ Spend("faults") => Errs
         /\ Spend("decisions") => Decides
         /\ Spend("outages") => Suffers
         /\ \A kind : Spend(kind) =>
              /\ spent.faults <= spent'.faults
              /\ spent.decisions <= spent'.decisions
              /\ spent.outages <= spent'.outages
  BY DEF TypeOK, CountersOK, Spend, Errs, Decides, Suffers

\* A side that writes its row keeps the other side's.
LEMMA WriteKeeps ==
  ASSUME TypeOK, NEW s \in Side, NEW row, WritePeer(s, row)
  PROVE  peer'[s] = row /\ Keeps(Other(s))
  BY OtherSide DEF TypeOK, RowsOK, WritePeer, Keeps

\* Marking a row for its mail or its admin keeps what matters of it.
LEMMA MarkedKeeps ==
  ASSUME TypeOK, NEW s \in Side, NEW queued, NEW by,
         \/ peer'[s] = [peer[s] EXCEPT !.queued = queued]
         \/ peer'[s] = [peer[s] EXCEPT !.by = by]
         \/ peer'[s] = peer[s]
  PROVE  Keeps(s)
  BY DEF TypeOK, RowsOK, PeerRows, Keeps

\* What the writing operators do to a row.
LEMMA Edits ==
  ASSUME NEW row \in PeerRows
  PROVE  /\ \A status, reason :
              /\ Move(row, status, reason).status = status
              /\ Move(row, status, reason).reason = reason
              /\ Move(row, status, reason).id = row.id
              /\ Move(row, status, reason).secret = row.secret
              /\ Move(row, status, reason).epoch = row.epoch
         /\ \A secret, e :
              /\ Activated(row, secret, e).status = "active"
              /\ Activated(row, secret, e).id = row.id
              /\ Activated(row, secret, e).secret = secret
              /\ Activated(row, secret, e).epoch = e
  BY DEF Move, Activated, PeerRows

\* What a new row holds.
LEMMA Fields ==
  /\ \A status, reason, secret, by, e :
       /\ NewRow(status, reason, secret, by, e).status = status
       /\ NewRow(status, reason, secret, by, e).reason = reason
       /\ NewRow(status, reason, secret, by, e).id = secret
       /\ NewRow(status, reason, secret, by, e).secret = secret
       /\ NewRow(status, reason, secret, by, e).epoch = e
  /\ NoRow.status = "none"
  BY DEF NewRow, NoRow

\* A side moves its row, or drops it.
LEMMA WriteMove ==
  ASSUME TypeOK, NEW s \in Side, NEW status, NEW reason,
         WritePeer(s, Move(peer[s], status, reason))
  PROVE  /\ Keeps(Other(s)) /\ SameSecret(s)
         /\ peer'[s].status = status /\ peer'[s].reason = reason
         /\ peer'[s].epoch = peer[s].epoch
  <1>1. peer[s] \in PeerRows
    BY DEF TypeOK, RowsOK
  <1>2. peer'[s] = Move(peer[s], status, reason) /\ Keeps(Other(s))
    BY WriteKeeps
  <1> QED BY <1>1, <1>2, Edits DEF SameSecret

\* A row that is dropped is gone.
LEMMA WriteNone ==
  ASSUME TypeOK, NEW s \in Side, WritePeer(s, NoRow)
  PROVE  Keeps(Other(s)) /\ peer'[s].status = "none"
  BY WriteKeeps, Fields

\* Sending a request leaves the other side aside.
LEMMA SendStarts ==
  ASSUME TypeOK, NEW s \in Side, NEW mode, NEW secret, NEW onFailure, NEW token,
         Send(s, mode, secret, onFailure, token)
  PROVE  /\ Stays(Other(s))
         /\ hs'[s].at = "sent" /\ hs'[s].probe = "none" /\ hs'[s].secret = secret
         /\ \A m \in net' : m \in net \/ (m.from = s /\ m.live /\ m.secret = secret)
  <1>1. /\ hs'[s].at = "sent" /\ hs'[s].probe = "none" /\ hs'[s].secret = secret
        /\ hs'[Other(s)] = hs[Other(s)]
    BY OtherSide DEF TypeOK, ExchangesOK, Send, NoExchange
  <1>2. net' = net \cup {[from |-> s, secret |-> secret, token |-> token,
                          epoch |-> epoch[s], live |-> TRUE]}
    BY DEF Send
  <1>3. \A m \in net' : m \in net \/ (m.from = s /\ m.live /\ m.secret = secret)
    BY <1>2
  <1> QED BY <1>1, <1>3 DEF Stays

\* The end of an exchange.
LEMMA FinishEnds ==
  ASSUME TypeOK, NEW s \in Side, NEW row \in PeerRows, Finish(s, row)
  PROVE  /\ Stays(Other(s)) /\ Keeps(Other(s)) /\ hs'[s].at = "idle"
         /\ \A x \in Side : StillProbes(x)
         /\ \/ peer'[s] = row
            \/ /\ row.status = "pending" /\ row.id = hs[s].secret
               /\ hs[s].onFailure = "repark"
               /\ peer'[s] = Move(row, "rejected", "stale_peering_on_remote")
  <1>1. hs'[s].at = "idle" /\ hs'[Other(s)] = hs[Other(s)]
    BY OtherSide DEF TypeOK, ExchangesOK, Finish, NoExchange
  <1>2. PICK final : /\ WritePeer(s, final)
                     /\ \/ final = row
                        \/ /\ row.status = "pending" /\ row.id = hs[s].secret
                           /\ hs[s].onFailure = "repark"
                           /\ final = Move(row, "rejected", "stale_peering_on_remote")
    BY DEF Finish
  <1> QED BY <1>1, <1>2, WriteKeeps DEF Finish, Stays, StillProbes

\* The local actions.
LEMMA LocalKinds ==
  ASSUME TypeOK, NEW s \in Side, Local(s)
  PROVE  Kinds
  <1>t. peer[s] \in PeerRows /\ Other(s) \in Side /\ Other(Other(s)) = s
    BY OtherSide DEF TypeOK, RowsOK
  <1>p. \A x \in Side : StillProbes(x)
    BY DEF Local, QueueEvent, EmptyQueue, OutboundGate, EnsurePeered, ResolvePendingPeer,
       AdminHandshake, ApproveEstablished, work, StillProbes
  <1>u. ASSUME Keeps(s), Keeps(Other(s)), UNCHANGED <<hs, net>> PROVE Kinds
    BY <1>p, <1>u, TwoSides DEF Stays, Untouched, Kinds
  <1>1. CASE QueueEvent(s)
    <2>1. CASE WritePeer(s, [peer[s] EXCEPT !.queued = TRUE])
      BY <1>1, <1>u, <2>1, WriteKeeps, MarkedKeeps DEF QueueEvent
    <2>2. CASE /\ peer[s].status = "none" /\ autoAccept[s] /\ fresh' = fresh + 1
               /\ WritePeer(s, [NewRow("pending", "null", fresh + 1, "auto", 0)
                                  EXCEPT !.queued = TRUE])
      <3>0. /\ peer'[s] = [NewRow("pending", "null", fresh + 1, "auto", 0) EXCEPT !.queued = TRUE]
            /\ Keeps(Other(s))
        BY <2>2, WriteKeeps
      <3>1. peer'[s].status = "pending" /\ peer'[s].secret = fresh + 1
            /\ peer'[s].id = fresh + 1
        BY <3>0 DEF NewRow, NoRow
      <3>2. Opened(s)
        BY <1>1, <1>p, <1>t, <2>2, <3>0, <3>1
           DEF QueueEvent, Opened, Opens, Aside, Stays, NewSecret, Working
      <3> QED BY <3>2 DEF Acts, Kinds
    <2> QED BY <1>1, <2>1, <2>2 DEF QueueEvent
  <1>2. CASE EmptyQueue(s)
    <2>1. WritePeer(s, [peer[s] EXCEPT !.queued = FALSE]) /\ UNCHANGED <<hs, net>>
      BY <1>2 DEF EmptyQueue
    <2>2. peer'[s] = [peer[s] EXCEPT !.queued = FALSE] /\ Keeps(Other(s))
      BY <2>1, WriteKeeps
    <2> QED BY <1>u, <2>1, <2>2, MarkedKeeps
  <1>3. ASSUME NEW intent, OutboundGate(s, intent) PROVE Kinds
    <2>1. Drops(s)
      BY <1>3, <1>p, <1>t, WriteNone
         DEF OutboundGate, Unsettled, GateRefuses, Drops, Aside, Stays
    <2> QED BY <2>1 DEF Acts, Kinds
  <1>4. ASSUME EnsurePeered(s) PROVE Kinds
    <2>1. CASE peer[s].status = "pending" /\ Send(s, "auto", peer[s].secret, "keep", 0)
               /\ UNCHANGED rows
      <3>1. Started(s)
        BY <1>4, <1>p, <1>t, <2>1, SendStarts DEF rows, EnsurePeered, Started, Aside, Keeps
      <3> QED BY <3>1 DEF Acts, Kinds
    <2>2. CASE /\ peer[s].status = "none" /\ fresh' = fresh + 1
               /\ WritePeer(s, NewRow("pending", "null", fresh + 1, "auto", 0))
               /\ Send(s, "auto", fresh + 1, "remove_unless_queued", 0)
      <3>1. peer'[s].status = "pending" /\ peer'[s].secret = fresh + 1
            /\ peer'[s].id = fresh + 1 /\ Keeps(Other(s))
        BY <2>2, WriteKeeps, Fields
      <3>2. Opens(s)
        BY <1>4, <1>p, <2>2, <3>1
           DEF EnsurePeered, GateRefuses, Opens, NewSecret, Working
      <3>3. Started(s)
        BY <1>4, <1>p, <1>t, <2>2, <3>1, <3>2, SendStarts DEF EnsurePeered, Started, Aside
      <3> QED BY <3>3 DEF Acts, Kinds
    <2> QED BY <1>4, <2>1, <2>2 DEF EnsurePeered
  <1>5. ASSUME NEW mode \in AdminModes, AdminHandshake(s, mode) PROVE Kinds
    <2>1. PICK secret, onFailure, token : Send(s, mode, secret, onFailure, token)
          /\ \/ /\ peer[s].status = "pending" /\ secret = peer[s].secret
                /\ \/ UNCHANGED rows
                   \/ WritePeer(s, [peer[s] EXCEPT !.by = "admin"])
             \/ /\ Replaced(peer[s].status, mode)
                /\ secret = fresh + 1 /\ fresh' = fresh + 1
                /\ WritePeer(s, NewRow("pending", "null", fresh + 1, "admin", 0))
      BY <1>5 DEF AdminHandshake
    <2>2. Idle(s) /\ Decides
      BY <1>5, SpendCounts DEF AdminHandshake
    <2>3. CASE peer[s].status = "pending" /\ secret = peer[s].secret
               /\ (UNCHANGED rows \/ WritePeer(s, [peer[s] EXCEPT !.by = "admin"]))
      <3>1. Keeps(s) /\ Keeps(Other(s))
        <4>1. CASE UNCHANGED rows
          BY <4>1 DEF rows, Keeps
        <4>2. CASE WritePeer(s, [peer[s] EXCEPT !.by = "admin"])
          <5>1. peer'[s] = [peer[s] EXCEPT !.by = "admin"] /\ Keeps(Other(s))
            BY <4>2, WriteKeeps
          <5> QED BY <5>1, MarkedKeeps
        <4> QED BY <2>3, <4>1, <4>2
      <3>2. Started(s)
        BY <1>p, <1>t, <2>1, <2>2, <2>3, <3>1, SendStarts DEF Started, Aside, Keeps
      <3> QED BY <3>2 DEF Acts, Kinds
    <2>4. CASE /\ Replaced(peer[s].status, mode)
               /\ secret = fresh + 1 /\ fresh' = fresh + 1
               /\ WritePeer(s, NewRow("pending", "null", fresh + 1, "admin", 0))
      <3>1. peer'[s].status = "pending" /\ peer'[s].secret = fresh + 1
            /\ peer'[s].id = fresh + 1 /\ Keeps(Other(s))
        BY <2>4, WriteKeeps, Fields
      <3>2. Opens(s)
        BY <1>p, <2>2, <2>4, <3>1 DEF Replaced, Opens, NewSecret, Working
      <3>3. Started(s)
        BY <1>p, <1>t, <2>1, <2>2, <2>4, <3>1, <3>2, SendStarts DEF Started, Aside
      <3> QED BY <3>3 DEF Acts, Kinds
    <2> QED BY <2>1, <2>3, <2>4
  <1>6. CASE ApproveEstablished(s)
    BY <1>6, <1>u DEF ApproveEstablished, rows, Keeps
  <1> QED BY <1>1, <1>2, <1>3, <1>4, <1>5, <1>6 DEF Local, ResolvePendingPeer

\* What was answered is settled with the row it is given, or that row is parked.
LEMMA FinishSettles ==
  ASSUME TypeOK, NEW s \in Side, NEW row \in PeerRows, Finish(s, row), net' = net,
         hs[s].at \notin {"idle", "sent"}, hs[s].at = "accepted" => hs[s].probe # "none"
  PROVE  /\ Settles(s)
         /\ \/ peer'[s] = row
            \/ /\ row.status = "pending" /\ row.id = hs[s].secret
               /\ peer'[s] = Move(row, "rejected", "stale_peering_on_remote")
  BY FinishEnds, OtherSide DEF Settles, Aside

\* A settled exchange that leaves the row to itself has failed.
LEMMA KeepFails ==
  ASSUME TypeOK, IdsInv, NEW s \in Side, Finish(s, peer[s]), net' = net,
         hs[s].at \notin {"idle", "sent"}, hs[s].at = "accepted" => hs[s].probe # "none",
         hs[s].at = "accepted" => ~TookBoth(s) /\ ~(Mine(s) /\ hs[s].probe = "verified")
  PROVE  Fails(s)
  <1>t. peer[s] \in PeerRows
    BY DEF TypeOK, RowsOK
  <1>1. Settles(s)
    BY <1>t, FinishSettles
  <1>2. CASE peer'[s] = peer[s]
    BY <1>1, <1>2 DEF Fails, Keeps
  <1>3. CASE /\ peer[s].status = "pending" /\ peer[s].id = hs[s].secret
             /\ peer'[s] = Move(peer[s], "rejected", "stale_peering_on_remote")
    <2>1. Mine(s)
      BY <1>3 DEF IdsInv, Waiting, Mine
    <2>2. SameSecret(s) /\ peer'[s].status = "rejected"
          /\ peer'[s].reason = "stale_peering_on_remote"
      BY <1>3, <1>t, Edits DEF SameSecret
    <2> QED BY <1>1, <2>1, <2>2 DEF Fails, RemoteRejectedReasons
  <1> QED BY <1>t, <1>2, <1>3, FinishSettles

\* The end of an exchange of ours, and the check of its answer.
LEMMA SettleKinds ==
  ASSUME TypeOK, IdsInv, NEW s \in Side, Settle(s)
  PROVE  Acts(s)
  <1>t. /\ peer[s] \in PeerRows /\ Other(s) \in Side /\ Other(Other(s)) = s
        /\ hs[s] \in Exchange /\ hs[s].secret \in Nat /\ hs[s].epoch \in Nat
        /\ hs[s].token \in Nat
    BY OtherSide DEF TypeOK, RowsOK, ExchangesOK, Exchange
  <1>g. \A status \in Status \ {"none"} : \A reason \in ReasonsOf(status) :
          Move(peer[s], status, reason) \in PeerRows
    BY <1>t, MoveGood DEF GoodRow
  <1>a. Activated(peer[s], hs[s].secret, hs[s].epoch) \in PeerRows
    BY <1>t, ActivatedGood DEF GoodRow
  <1>1. CASE SettleQueued(s)
    <2>0. /\ hs[s].at = "queued" /\ net' = net
      BY <1>1 DEF SettleQueued
    <2>1. CASE Mine(s)
      <3> DEFINE row == [Move(peer[s], "awaiting_approval", "null") EXCEPT !.token = hs[s].token]
      <3>1. row \in PeerRows /\ row.status = "awaiting_approval"
            /\ row.id = peer[s].id /\ row.secret = peer[s].secret
        <4>1. Move(peer[s], "awaiting_approval", "null") \in PeerRows
          BY <1>g DEF Status, ReasonsOf
        <4>2. row \in PeerRows /\ row.status = Move(peer[s], "awaiting_approval", "null").status
              /\ row.id = Move(peer[s], "awaiting_approval", "null").id
              /\ row.secret = Move(peer[s], "awaiting_approval", "null").secret
          BY <1>t, <4>1 DEF PeerRows
        <4> QED BY <1>t, <4>2, Edits
      <3>2. Finish(s, row)
        BY <1>1, <2>1 DEF SettleQueued
      <3>3. Settles(s) /\ peer'[s] = row
        BY <2>0, <3>1, <3>2, FinishSettles
      <3> QED BY <2>0, <2>1, <3>1, <3>3 DEF Fails, SameSecret, Acts
    <2>2. CASE ~Mine(s)
      <3>1. Finish(s, peer[s])
        BY <1>1, <2>2 DEF SettleQueued
      <3> QED BY <2>0, <3>1, KeepFails DEF Acts
    <2> QED BY <2>1, <2>2
  <1>2. CASE SettleRefused(s)
    <2>0. /\ hs[s].at \in {"denied", "revoked"} /\ net' = net
      BY <1>2 DEF SettleRefused
    <2>1. CASE Mine(s)
      <3>1. PICK reason \in {"denied_by_remote", "revoked_by_remote"} :
              Finish(s, Move(peer[s], "rejected", reason))
        BY <1>2, <2>1 DEF SettleRefused
      <3>2. Move(peer[s], "rejected", reason) \in PeerRows
        BY <1>g DEF Status, ReasonsOf, RemoteRejectedReasons
      <3>3. Settles(s) /\ peer'[s] = Move(peer[s], "rejected", reason)
        BY <1>t, <2>0, <3>1, <3>2, FinishSettles, Edits
      <3>4. peer'[s].status = "rejected" /\ peer'[s].reason \in RemoteRejectedReasons
            /\ SameSecret(s)
        BY <1>t, <3>3, Edits DEF SameSecret, RemoteRejectedReasons
      <3> QED BY <2>0, <2>1, <3>3, <3>4 DEF Fails, Acts
    <2>2. CASE ~Mine(s)
      <3>1. Finish(s, peer[s])
        BY <1>2, <2>2 DEF SettleRefused
      <3> QED BY <2>0, <3>1, KeepFails DEF Acts
    <2> QED BY <2>1, <2>2
  <1>3. CASE SettleInProgress(s)
    BY <1>3, KeepFails DEF SettleInProgress, Acts
  <1>4. CASE GiveUp(s)
    <2> DEFINE mine == {m \in net : m.from = s /\ m.live}
    <2>1. /\ hs[s].at = "sent"
          /\ mine # {} => Errs
          /\ net' = (net \ mine) \cup {[m EXCEPT !.live = FALSE] : m \in mine}
      BY <1>4, SpendCounts DEF GiveUp
    <2>2. PICK row \in PeerRows :
            /\ Finish(s, row)
            /\ \/ peer[s].status = "pending" /\ row = NoRow
               \/ row = [peer[s] EXCEPT !.by = "auto"]
               \/ row = peer[s]
      <3>1. NoRow \in PeerRows /\ [peer[s] EXCEPT !.by = "auto"] \in PeerRows
        BY <1>t, NoRowGood DEF GoodRow, PeerRows
      <3> QED BY <1>4, <1>t, <3>1 DEF GiveUp
    <2>3. /\ Aside(Other(s)) /\ hs'[s].at = "idle" /\ StillProbes(s)
          /\ \/ peer'[s] = row
             \/ /\ row.status = "pending"
                /\ peer'[s] = Move(row, "rejected", "stale_peering_on_remote")
      BY <1>t, <2>2, FinishEnds DEF Aside
    <2>4. \/ Keeps(s)
          \/ peer[s].status = "pending" /\ peer'[s].status = "none"
          \/ /\ peer[s].status = "pending" /\ SameSecret(s)
             /\ peer'[s].status = "rejected" /\ peer'[s].reason = "stale_peering_on_remote"
      <3>1. CASE peer'[s] = row
        BY <1>t, <2>2, <3>1 DEF Keeps, NoRow, PeerRows
      <3>2. CASE /\ row.status = "pending"
                 /\ peer'[s] = Move(row, "rejected", "stale_peering_on_remote")
        <4>1. row.status = peer[s].status /\ row.id = peer[s].id /\ row.secret = peer[s].secret
          BY <1>t, <2>2, <3>2 DEF NoRow, PeerRows
        <4> QED BY <2>2, <3>2, <4>1, Edits DEF SameSecret
      <3> QED BY <2>3, <3>1, <3>2
    <2>5. ASSUME NEW m \in net'
          PROVE  \/ m \in net /\ (m.from = s => ~m.live)
                 \/ /\ Errs /\ ~m.live /\ m.from = s
                    /\ \E n \in net : n.from = s /\ n.live /\ n.secret = m.secret
      <3>1. CASE m \in net \ mine
        BY <3>1
      <3>2. ASSUME NEW n \in mine, m = [n EXCEPT !.live = FALSE]
            PROVE  /\ Errs /\ ~m.live /\ m.from = s
                   /\ n \in net /\ n.from = s /\ n.live /\ n.secret = m.secret
        <4>1. n \in Messages /\ n \in net /\ n.from = s /\ n.live
          BY DEF TypeOK, ExchangesOK
        <4> QED BY <2>1, <3>2, <4>1 DEF Messages
      <3> QED BY <2>1, <3>1, <3>2
    <2> QED BY <2>1, <2>3, <2>4, <2>5 DEF Quits, Acts
  <1>5. CASE Verify(s)
    <2>1. /\ Keeps(s) /\ Keeps(Other(s)) /\ StillProbes(s) /\ StillProbes(Other(s))
          /\ net' = net /\ hs[s].probe = "none"
          /\ hs[s].at = "accepted" \/ (hs[s].at = "exists" /\ Mine(s))
      BY <1>5 DEF Verify, rows, work, Keeps, StillProbes
    <2>2. /\ Stays(Other(s)) /\ hs'[s].at = hs[s].at /\ hs'[s].secret = hs[s].secret
          /\ \/ hs'[s].probe = EpochAnswer(peer[Other(s)], hs[s].secret)
             \/ hs'[s].probe = "unknown" /\ Errs
      BY <1>5, <1>t, OtherSide, SpendCounts DEF Verify, Stays, TypeOK, ExchangesOK, Exchange
    <2> QED BY <2>1, <2>2 DEF Checks, Aside, Acts
  <1>6. CASE SettleExists(s)
    <2>0. /\ hs[s].at = "exists" /\ net' = net /\ (~Mine(s) \/ hs[s].probe # "none")
          /\ Finish(s, AfterExists(s))
      BY <1>6 DEF SettleExists
    <2>1. CASE Mine(s) /\ hs[s].probe = "verified"
      <3>1. Finish(s, Activated(peer[s], hs[s].secret, hs[s].epoch))
        BY <2>0, <2>1 DEF AfterExists
      <3>2. Settles(s) /\ peer'[s] = Activated(peer[s], hs[s].secret, hs[s].epoch)
        BY <1>a, <1>t, <2>0, <3>1, FinishSettles, Edits
      <3> QED BY <1>t, <2>1, <3>2, Edits DEF Succeeds, Acts
    <2>2. CASE Mine(s) /\ hs[s].probe # "verified"
      <3>1. Finish(s, Move(peer[s], "rejected", "stale_peering_on_remote"))
        BY <2>0, <2>2 DEF AfterExists
      <3>2. Move(peer[s], "rejected", "stale_peering_on_remote") \in PeerRows
        BY <1>g DEF Status, ReasonsOf, RemoteRejectedReasons
      <3>3. Settles(s) /\ peer'[s] = Move(peer[s], "rejected", "stale_peering_on_remote")
        BY <1>t, <2>0, <3>1, <3>2, FinishSettles, Edits
      <3>4. peer'[s].status = "rejected" /\ peer'[s].reason \in RemoteRejectedReasons
            /\ SameSecret(s)
        BY <1>t, <3>3, Edits DEF SameSecret, RemoteRejectedReasons
      <3> QED BY <2>2, <3>3, <3>4 DEF Fails, Acts
    <2>3. CASE ~Mine(s)
      <3>1. Finish(s, peer[s])
        BY <2>0, <2>3 DEF AfterExists
      <3> QED BY <2>0, <3>1, KeepFails DEF Acts
    <2> QED BY <2>1, <2>2, <2>3
  <1>7. CASE SettleAccepted(s)
    <2>0. /\ hs[s].at = "accepted" /\ hs[s].probe # "none" /\ net' = net
          /\ Finish(s, AfterAccept(s))
      BY <1>7 DEF SettleAccepted
    <2>1. CASE Mine(s) /\ hs[s].probe = "verified"
      <3>1. Finish(s, Activated(peer[s], hs[s].secret, hs[s].epoch))
        <4>1. AfterAccept(s) = Activated(peer[s], hs[s].secret, hs[s].epoch)
          BY <2>1 DEF AfterAccept, TookBoth, Mine
        <4> QED BY <2>0, <4>1
      <3>2. Settles(s) /\ peer'[s] = Activated(peer[s], hs[s].secret, hs[s].epoch)
        BY <1>a, <1>t, <2>0, <3>1, FinishSettles, Edits
      <3> QED BY <1>t, <2>1, <3>2, Edits DEF Succeeds, Acts
    <2>2. CASE Mine(s) /\ hs[s].probe \in {"mismatch", "not_peered"}
      <3>1. Finish(s, Move(peer[s], "needs_attention", "repeer_incomplete"))
        <4>1. AfterAccept(s) = Move(peer[s], "needs_attention", "repeer_incomplete")
          BY <2>2 DEF AfterAccept, TookBoth, Mine
        <4> QED BY <2>0, <4>1
      <3>2. Move(peer[s], "needs_attention", "repeer_incomplete") \in PeerRows
        BY <1>g DEF Status, ReasonsOf, AttentionReasons
      <3>3. Settles(s) /\ peer'[s] = Move(peer[s], "needs_attention", "repeer_incomplete")
        BY <1>t, <2>0, <3>1, <3>2, FinishSettles, Edits
      <3>4. peer'[s].status = "needs_attention" /\ SameSecret(s)
        BY <1>t, <3>3, Edits DEF SameSecret
      <3> QED BY <2>2, <3>3, <3>4 DEF Fails, Acts
    <2>3. CASE TookBoth(s)
      <3> DEFINE row == [peer[s] EXCEPT !.secret = hs[s].secret, !.epoch = hs[s].epoch]
      <3>1. row \in PeerRows /\ row.status = "active" /\ row.secret = hs[s].secret
            /\ row.id = peer[s].id
        BY <1>t, <2>3 DEF PeerRows, TookBoth
      <3>2. Finish(s, row)
        BY <2>0, <2>3 DEF AfterAccept, TookBoth, Mine
      <3>3. Settles(s) /\ peer'[s] = row
        BY <2>0, <3>1, <3>2, FinishSettles
      <3> QED BY <2>3, <3>1, <3>3 DEF Succeeds, Acts
    <2>4. CASE /\ ~(Mine(s) /\ hs[s].probe = "verified")
               /\ ~(Mine(s) /\ hs[s].probe \in {"mismatch", "not_peered"})
               /\ ~TookBoth(s)
      <3>1. Finish(s, peer[s])
        BY <2>0, <2>4 DEF AfterAccept
      <3> QED BY <2>0, <2>4, <3>1, KeepFails DEF Acts
    <2> QED BY <2>1, <2>2, <2>3, <2>4
  <1> QED BY <1>1, <1>2, <1>3, <1>4, <1>5, <1>6, <1>7 DEF Settle

\* Denials and expiries.
LEMMA ApprovalsKinds ==
  ASSUME TypeOK, NEW s \in Side, Approvals(s)
  PROVE  Kinds
  <1>o. Other(s) \in Side /\ Other(Other(s)) = s
    BY OtherSide
  <1>t. peer[s] \in PeerRows /\ peer[Other(s)] \in PeerRows /\ hs \in [Side -> Exchange]
    BY <1>o DEF TypeOK, RowsOK, ExchangesOK
  <1>1. ASSUME NEW kind \in {"denied", "expired"}, NEW lost \in BOOLEAN,
               DenyInbound(s, kind, lost)
        PROVE  Kinds
    <2>1. PICK reason \in {"denied_by_remote", "expired_on_remote"} :
            /\ peer[Other(s)].status = "awaiting_approval"
            /\ WritePeer(Other(s), Move(peer[Other(s)], "rejected", reason))
            /\ UNCHANGED <<parked, hs, net>>
      BY <1>1 DEF DenyInbound
    <2>2. peer'[Other(s)] = Move(peer[Other(s)], "rejected", reason) /\ Keeps(s)
      BY <1>o, <2>1, WriteKeeps
    <2>3. /\ SameSecret(Other(s)) /\ peer'[Other(s)].status = "rejected"
          /\ peer'[Other(s)].reason = reason
      BY <1>t, <2>2, Edits DEF SameSecret
    <2>4. Aside(s) /\ Stays(Other(s)) /\ StillProbes(Other(s)) /\ net' = net
      BY <2>1, <2>2 DEF Aside, Stays, StillProbes
    <2>5. Refuses(Other(s))
      BY <1>o, <2>1, <2>3, <2>4 DEF Refuses
    <2> QED BY <1>o, <2>5 DEF Acts, Kinds
  <1>2. CASE SettleDenial(s)
    <2>1. /\ Stays(s) /\ Stays(Other(s)) /\ StillProbes(s) /\ StillProbes(Other(s))
          /\ net' = net
      BY <1>2, <1>o, <1>t DEF SettleDenial, Stays, StillProbes, Exchange
    <2>2. CASE UNCHANGED rows
      <3>1. Keeps(s) /\ Keeps(Other(s))
        BY <2>2 DEF rows, Keeps
      <3> QED BY <2>1, <3>1, TwoSides DEF Untouched, Kinds
    <2>3. CASE /\ deny[s].kind = "denied" /\ peer[s].status = "none"
               /\ WritePeer(s, NewRow("rejected", "denied_by_local_admin",
                                      deny[s].secret, "admin", 0))
      <3>1. /\ Keeps(Other(s)) /\ peer'[s].status = "rejected"
            /\ peer'[s].reason = "denied_by_local_admin"
            /\ peer'[s].secret = deny[s].secret /\ peer'[s].id = deny[s].secret
        BY <2>3, WriteKeeps, Fields
      <3>2. Refuses(s)
        BY <2>1, <2>3, <3>1 DEF Refuses, Aside
      <3> QED BY <3>2 DEF Acts, Kinds
    <2>4. CASE /\ deny[s].kind = "denied"
               /\ peer[s].status \in {"pending", "awaiting_approval", "rejected"}
               /\ WritePeer(s, Move(peer[s], "rejected", "denied_by_local_admin"))
      <3>1. /\ Keeps(Other(s)) /\ peer'[s].status = "rejected"
            /\ peer'[s].reason = "denied_by_local_admin" /\ SameSecret(s)
        BY <2>4, WriteMove
      <3>2. Refuses(s)
        BY <2>1, <2>4, <3>1 DEF Refuses, Aside, Waiting
      <3> QED BY <3>2 DEF Acts, Kinds
    <2> QED BY <1>2, <2>2, <2>3, <2>4 DEF SettleDenial
  <1>3. ASSUME NEW kind, DropOutbound(s, kind) PROVE Kinds
    <2>1. UNCHANGED <<peer, hs, net, parked>>
      BY <1>3 DEF DropOutbound, rows, work
    <2> QED BY <2>1 DEF Untouched, Keeps, Stays, StillProbes, Kinds
  <1> QED BY <1>1, <1>2, <1>3 DEF Approvals

\* The backstop, the admin's peer actions, outages and crashes.
LEMMA UpkeepKinds ==
  ASSUME TypeOK, IdsInv, NEW s \in Side, Upkeep(s), ~Wipe(s)
  PROVE  Kinds
  <1>o. Other(s) \in Side /\ Other(Other(s)) = s /\ Other(s) # s
    BY OtherSide
  <1>t. /\ peer[s] \in PeerRows /\ hs \in [Side -> Exchange]
        /\ parked \in [Side -> ParkedProbes]
    BY DEF TypeOK, RowsOK, ExchangesOK, WorkOK
  <1>w. ASSUME NEW row, WritePeer(s, row), UNCHANGED <<hs, net, parked>>
        PROVE  /\ Aside(Other(s)) /\ Stays(s) /\ StillProbes(s) /\ net' = net
               /\ peer'[s] = row
    BY <1>w, WriteKeeps DEF Aside, Stays, StillProbes
  <1>u. ASSUME UNCHANGED <<peer, hs, net>>, parked' = parked PROVE Kinds
    BY <1>u DEF Untouched, Keeps, Stays, StillProbes, Kinds
  <1>1. CASE ProbeParked(s)
    <2>1. /\ Aside(Other(s)) /\ Keeps(s) /\ Stays(s) /\ net' = net
      BY <1>1, <1>o, <1>t DEF ProbeParked, rows, Aside, Keeps, Stays, StillProbes
    <2>2. parked'[s] = [probe |-> EpochAnswer(peer[Other(s)], peer[s].secret),
                        secret |-> peer[s].secret, epoch |-> epoch[Other(s)]]
      BY <1>1, <1>t DEF ProbeParked
    <2>3. ProbesRow(s)
      BY <1>1, <2>1, <2>2 DEF ProbeParked, ProbesRow
    <2> QED BY <2>3 DEF Acts, Kinds
  <1>2. CASE SettleParked(s)
    <2>0. /\ parked[s] # NoProbe /\ parked'[s] = NoProbe /\ StillProbes(Other(s))
      BY <1>2, <1>o, <1>t DEF SettleParked, StillProbes
    <2>1. CASE /\ StillParked(s) /\ parked[s].probe = "verified"
               /\ WritePeer(s, Activated(peer[s], parked[s].secret, parked[s].epoch))
               /\ UNCHANGED <<hs, net>>
      <3>1. /\ Keeps(Other(s)) /\ peer'[s].status = "active" /\ peer'[s].id = peer[s].id
            /\ peer'[s].secret = parked[s].secret
        BY <1>t, <2>1, WriteKeeps, Edits
      <3>2. Unparks(s)
        BY <2>0, <2>1, <3>1 DEF Unparks, StillParked, SameSecret, Aside, Stays
      <3> QED BY <3>2 DEF Acts, Kinds
    <2>2. CASE /\ StillParked(s) /\ UNCHANGED <<hs, net>>
               /\ WritePeer(s, Move(peer[s], "pending", "null"))
      <3>1. /\ Keeps(Other(s)) /\ peer'[s].status = "pending" /\ SameSecret(s)
        BY <2>2, WriteMove
      <3>2. Opens(s)
        BY <2>0, <2>2, <3>1 DEF Opens, SameSecret, StillParked, IdsInv, Waiting
      <3>3. Opened(s)
        BY <2>0, <2>2, <3>1, <3>2 DEF Opened, Aside, Stays
      <3> QED BY <3>3 DEF Acts, Kinds
    <2>3. CASE StillParked(s) /\ UNCHANGED <<hs, net>> /\ WritePeer(s, NoRow)
      <3>1. Keeps(Other(s)) /\ peer'[s].status = "none"
        BY <2>3, WriteNone
      <3>2. Drops(s)
        BY <2>0, <2>3, <3>1 DEF Drops, Aside, Stays
      <3> QED BY <3>2 DEF Acts, Kinds
    <2>4. CASE /\ StillParked(s) /\ Idle(s)
               /\ WritePeer(s, Move(peer[s], "pending", "null"))
               /\ Send(s, "auto", peer[s].secret, "repark", 0)
      <3>1. /\ Keeps(Other(s)) /\ peer'[s].status = "pending" /\ SameSecret(s)
        BY <2>4, WriteMove
      <3>2. Opens(s)
        BY <2>0, <2>4, <3>1 DEF Opens, SameSecret, StillParked, IdsInv, Waiting
      <3>3. Started(s)
        BY <2>0, <2>4, <3>1, <3>2, SendStarts DEF Started, SameSecret, Aside
      <3> QED BY <3>3 DEF Acts, Kinds
    <2>5. CASE UNCHANGED <<rows, hs, net>>
      <3>1. \A x \in Side : StillProbes(x) \/ parked'[x] = NoProbe
        BY <2>0, TwoSides
      <3> QED BY <2>5, <3>1 DEF rows, Untouched, Keeps, Stays, Kinds
    <2> QED BY <1>2, <2>1, <2>2, <2>3, <2>4, <2>5 DEF SettleParked
  <1>3. CASE Revoke(s)
    <2>1. /\ Decides /\ WritePeer(s, Move(peer[s], "revoked", "null"))
          /\ UNCHANGED <<hs, net, parked>>
      BY <1>3, SpendCounts DEF Revoke, Decide, work
    <2>2. Refuses(s)
      BY <1>w, <2>1, WriteMove DEF Refuses
    <2> QED BY <2>2 DEF Acts, Kinds
  <1>4. CASE ResetPeer(s) \/ DeletePermanently(s)
    <2>1. /\ Decides /\ WritePeer(s, NoRow) /\ UNCHANGED <<hs, net, parked>>
          /\ peer[s].status \in {"needs_attention", "revoked", "rejected"}
      BY <1>4, SpendCounts DEF ResetPeer, DeletePermanently, Decide, work
    <2>2. Drops(s)
      BY <1>w, <2>1, WriteNone DEF Drops, Working
    <2> QED BY <2>2 DEF Acts, Kinds
  <1>5. CASE ToggleAutoAccept(s)
    BY <1>5, <1>u DEF ToggleAutoAccept, rows, work
  <1>6. CASE AuthRefusal(s)
    <2>1. /\ Suffers /\ WritePeer(s, Move(peer[s], "needs_attention", "auth_failures"))
          /\ UNCHANGED <<hs, net, parked>> /\ peer[s].status = "active"
          /\ \A x \in Side : Idle(x)
      BY <1>6, SpendCounts DEF AuthRefusal, work
    <2>2. SameSecret(s) /\ peer'[s].status = "needs_attention"
      BY <2>1, WriteMove
    <2>3. Falls(s)
      BY <1>w, <2>1, <2>2 DEF Falls, Working
    <2> QED BY <2>3 DEF Acts, Kinds
  <1>7. CASE MarkUnreachable(s)
    <2>1. /\ Suffers /\ WritePeer(s, Move(peer[s], "unreachable", "null"))
          /\ UNCHANGED <<hs, net, parked>> /\ peer[s].status = "active"
      BY <1>7, SpendCounts DEF MarkUnreachable, work
    <2>2. SameSecret(s) /\ peer'[s].status = "unreachable" /\ peer'[s].epoch = peer[s].epoch
      BY <2>1, WriteMove
    <2>3. Wavers(s)
      BY <1>w, <2>1, <2>2 DEF Wavers, Working
    <2> QED BY <2>3 DEF Acts, Kinds
  <1>8. CASE Recover(s)
    <2>1. UNCHANGED <<hs, net, parked>> /\ peer[s].status = "unreachable"
      BY <1>8 DEF Recover, work
    <2>2. CASE /\ SeesReset(s)
               /\ WritePeer(s, Move(peer[s], "needs_attention", "peer_reset_detected"))
      <3>1. SameSecret(s) /\ peer'[s].status = "needs_attention"
        BY <2>2, WriteMove
      <3>2. Falls(s)
        BY <1>w, <2>1, <2>2, <3>1 DEF Falls, Working, SeesReset
      <3> QED BY <3>2 DEF Acts, Kinds
    <2>3. CASE WritePeer(s, Move(peer[s], "active", "null"))
      <3>1. SameSecret(s) /\ peer'[s].status = "active" /\ peer'[s].epoch = peer[s].epoch
        BY <2>3, WriteMove
      <3>2. Wavers(s)
        BY <1>w, <2>1, <2>3, <3>1 DEF Wavers, Working
      <3> QED BY <3>2 DEF Acts, Kinds
    <2> QED BY <1>8, <2>2, <2>3 DEF Recover
  <1>9. CASE DetectReset(s)
    <2>1. /\ WritePeer(s, Move(peer[s], "needs_attention", "peer_reset_detected"))
          /\ UNCHANGED <<hs, net, parked>> /\ peer[s].status = "needs_attention"
      BY <1>9 DEF DetectReset, work
    <2>2. Falls(s)
      BY <1>w, <2>1, WriteMove DEF Falls
    <2> QED BY <2>2 DEF Acts, Kinds
  <1>10. CASE CleanupUnusedPending(s)
    <2>1. /\ WritePeer(s, NoRow) /\ UNCHANGED <<hs, net, parked>>
          /\ peer[s].status = "pending" /\ Idle(s)
      BY <1>10 DEF CleanupUnusedPending, work
    <2>2. Drops(s)
      BY <1>w, <2>1, WriteNone DEF Drops
    <2> QED BY <2>2 DEF Acts, Kinds
  <1>11. CASE FanOut(s)
    BY <1>11, <1>u DEF FanOut, work
  <1>12. CASE Crash(s)
    <2>1. /\ Errs /\ Keeps(s) /\ Keeps(Other(s))
          /\ net' = {IF m.from = s THEN [m EXCEPT !.live = FALSE] ELSE m : m \in net}
      BY <1>12, SpendCounts DEF Crash, Keeps
    <2>2. /\ Stays(Other(s)) /\ StillProbes(Other(s)) /\ parked'[s] = NoProbe
          /\ hs'[s].at = "idle"
      BY <1>12, <1>o, <1>t DEF Crash, Stays, StillProbes, NoExchange
    <2>3. ASSUME NEW m \in net'
          PROVE  \/ m \in net /\ (m.from = s => ~m.live)
                 \/ /\ ~m.live /\ m.from = s
                    /\ \E n \in net : n.from = s /\ n.live /\ n.secret = m.secret
      <3>1. PICK n \in net : m = IF n.from = s THEN [n EXCEPT !.live = FALSE] ELSE n
        BY <2>1
      <3>2. n \in Messages
        BY DEF TypeOK, ExchangesOK
      <3>3. CASE n.from # s
        BY <3>1, <3>3
      <3>4. CASE n.from = s /\ n.live
        BY <3>1, <3>2, <3>4 DEF Messages
      <3>5. CASE n.from = s /\ ~n.live
        <4>1. m = n
          BY <3>1, <3>2, <3>5 DEF Messages
        <4> QED BY <3>5, <4>1
      <3> QED BY <3>2, <3>3, <3>4, <3>5 DEF Messages
    <2>4. Quits(s)
      BY <2>1, <2>2, <2>3 DEF Quits, Aside
    <2> QED BY <2>4 DEF Acts, Kinds
  <1> QED BY <1>1, <1>2, <1>3, <1>4, <1>5, <1>6, <1>7, <1>8, <1>9, <1>10, <1>11, <1>12
          DEF Upkeep

\* The requests that are answered, or lost.
LEMMA TransitKinds ==
  ASSUME TypeOK, Transit
  PROVE  Kinds
  <1>t. \A m \in net : m \in Messages /\ m.from \in Side
    BY DEF TypeOK, ExchangesOK, Messages
  <1>h. hs \in [Side -> Exchange]
    BY DEF TypeOK, ExchangesOK
  <1>a. ASSUME NEW m \in net, NEW answer, NEW token, NEW lost \in BOOLEAN, NEW cleared,
               NEW answers, answer \in answers,
               Answer(m, answer, token, lost, cleared), Keeps(m.from), UNCHANGED parked
        PROVE  Answered(m, lost, answers)
    <2>1. /\ net' = net \ {m}
          /\ lost => (Errs /\ m.live)
          /\ \A s \in Side : StillProbes(s)
      BY <1>a, SpendCounts DEF Answer, StillProbes
    <2>2. \A x \in Side :
            hs'[x] = IF x = m.from /\ m.live /\ ~lost
                     THEN [hs[x] EXCEPT !.at = answer, !.token = token]
                     ELSE IF x \in cleared THEN [hs[x] EXCEPT !.req = FALSE]
                     ELSE hs[x]
      BY <1>a DEF Answer
    <2>3. Other(m.from) \in Side /\ Other(m.from) # m.from
      BY <1>t, OtherSide
    <2>4. Stays(Other(m.from))
      BY <1>h, <2>2, <2>3 DEF Stays, Exchange
    <2>5. IF m.live /\ ~lost
          THEN /\ hs'[m.from].at \in answers /\ hs'[m.from].secret = hs[m.from].secret
               /\ hs'[m.from].probe = hs[m.from].probe
          ELSE Stays(m.from)
      <3>1. m.from \in Side /\ hs[m.from] \in Exchange
        BY <1>h, <1>t
      <3>2. CASE m.live /\ ~lost
        <4>1. hs'[m.from] = [hs[m.from] EXCEPT !.at = answer, !.token = token]
          BY <2>2, <3>1, <3>2
        <4> QED BY <1>a, <3>1, <3>2, <4>1 DEF Exchange
      <3>3. CASE ~(m.live /\ ~lost)
        <4>1. hs'[m.from] = [hs[m.from] EXCEPT !.req = FALSE] \/ hs'[m.from] = hs[m.from]
          BY <2>2, <3>1, <3>3
        <4> QED BY <3>1, <3>3, <4>1 DEF Stays, Exchange
      <3> QED BY <3>2, <3>3
    <2> QED BY <1>a, <2>1, <2>4, <2>5 DEF Answered
  <1>1. ASSUME NEW m \in net, NEW lost \in BOOLEAN, AcceptHandshake(m, lost) PROVE Kinds
    <2> DEFINE s == Other(m.from)
    <2>o. s \in Side /\ Other(s) = m.from /\ m.from \in Side
      BY <1>t, OtherSide
    <2>t. peer[s] \in PeerRows
      BY <2>o DEF TypeOK, RowsOK
    <2>1. PICK row, cleared :
            /\ WritePeer(s, row) /\ Answer(m, "accepted", 0, lost, cleared)
            /\ row = IF peer[s].status = "none"
                     THEN NewRow("active", "null", m.secret, "remote", m.epoch)
                     ELSE Activated(peer[s], m.secret, m.epoch)
            /\ Decision(s, m) \in {"create", "activate"} /\ UNCHANGED parked
      BY <1>1 DEF AcceptHandshake
    <2>2. peer'[s] = row /\ Keeps(m.from)
      BY <2>o, <2>1, WriteKeeps
    <2>3. Answered(m, lost, {"accepted"})
      BY <1>a, <2>1, <2>2
    <2>4. /\ peer'[s].status = "active" /\ peer'[s].secret = m.secret
          /\ peer'[s].epoch = m.epoch
          /\ peer[s].status # "none" => peer'[s].id = peer[s].id
      BY <2>1, <2>2, <2>t, Edits, Fields
    <2>5. Accepted(m, lost)
      BY <2>1, <2>3, <2>4 DEF Accepted
    <2> QED BY <2>5 DEF Kinds
  <1>2. ASSUME NEW m \in net, NEW lost \in BOOLEAN,
               QueueHandshake(m, lost) \/ RefuseHandshake(m, lost)
        PROVE  Kinds
    <2> DEFINE s == Other(m.from)
               answers == {"exists", "queued", "denied", "revoked", "in_progress"}
    <2>o. s \in Side /\ Other(s) = m.from /\ m.from \in Side
      BY <1>t, OtherSide
    <2>t. peer[s] \in PeerRows
      BY <2>o DEF TypeOK, RowsOK
    <2>1. PICK answer, token, cleared :
            answer \in answers /\ Answer(m, answer, token, lost, cleared)
      BY <1>2 DEF QueueHandshake, RefuseHandshake
    <2>2. /\ UNCHANGED parked
          /\ \/ UNCHANGED peer
             \/ /\ Decision(s, m) = "refuse_exists" /\ m.epoch # peer[s].epoch
                /\ WritePeer(s, Move(peer[s], "needs_attention", "peer_reset_detected"))
      BY <1>2 DEF QueueHandshake, RefuseHandshake, rows, work
    <2>3. CASE UNCHANGED peer
      <3>1. Keeps(s) /\ Keeps(m.from)
        BY <2>3 DEF Keeps
      <3>2. Answered(m, lost, answers)
        BY <1>a, <2>1, <2>2, <3>1
      <3>3. Declined(m, lost)
        BY <3>1, <3>2 DEF Declined
      <3> QED BY <3>3 DEF Kinds
    <2>4. CASE /\ Decision(s, m) = "refuse_exists" /\ m.epoch # peer[s].epoch
               /\ WritePeer(s, Move(peer[s], "needs_attention", "peer_reset_detected"))
      <3>1. /\ peer'[s] = Move(peer[s], "needs_attention", "peer_reset_detected")
            /\ Keeps(m.from)
        BY <2>4, <2>o, WriteKeeps
      <3>2. SameSecret(s) /\ peer'[s].status = "needs_attention"
        BY <2>t, <3>1, Edits DEF SameSecret
      <3>3. Answered(m, lost, answers)
        BY <1>a, <2>1, <2>2, <3>1
      <3>4. peer[s].status \in Established
        BY <2>4 DEF Decision, DecideInbound, AcceptUncompleted, Established,
           RemoteRejectedReasons
      <3>5. Declined(m, lost)
        BY <2>4, <3>2, <3>3, <3>4 DEF Declined
      <3> QED BY <3>5 DEF Kinds
    <2> QED BY <2>2, <2>3, <2>4
  <1>3. ASSUME NEW m \in net, LoseRequest(m) PROVE Kinds
    <2>1. /\ UNCHANGED <<peer, hs, parked>> /\ net' \subseteq net
      BY <1>3 DEF LoseRequest, rows, work
    <2> QED BY <2>1 DEF Untouched, Keeps, Stays, StillProbes, Kinds
  <1> QED BY <1>1, <1>2, <1>3 DEF Transit

\* Every step but a reinstallation is of one of the kinds.
LEMMA StepKinds ==
  ASSUME TypeOK, IdsInv, Next, \A s \in Side : ~Wipe(s)
  PROVE  Kinds
  <1>1. ASSUME NEW s \in Side, Settle(s) PROVE Kinds
    BY <1>1, SettleKinds DEF Kinds
  <1> QED BY <1>1, LocalKinds, ApprovalsKinds, UpkeepKinds, TransitKinds DEF Next

\* The rest of such a step.
LEMMA StepContext ==
  ASSUME TypeOK, TypeOK', Next, \A s \in Side : ~Wipe(s)
  PROVE  Context
  <1>f. UNCHANGED epoch /\ fresh \in Nat /\ fresh' \in Nat /\ fresh <= fresh'
    BY StepSettings
  <1>s. \A s \in Side : StoredFrom(s)
    BY StepStored
  <1>c. /\ spent.faults \in Nat /\ spent'.faults \in Nat
        /\ spent.decisions \in Nat /\ spent'.decisions \in Nat
        /\ spent.outages \in Nat /\ spent'.outages \in Nat
    BY DEF TypeOK, CountersOK
  <1> DEFINE Spends == UNCHANGED spent \/ \E kind : Spend(kind)
             Kept == \A s \in Side :
                       /\ autoAccept'[s] = autoAccept[s]
                       /\ deny'[s].kind = "denied" => deny[s].kind = "denied"
             Goal == /\ Spends
                     /\ \A s \in Side :
                          /\ autoAccept'[s] = autoAccept[s] \/ Decides
                          /\ deny'[s].kind = "denied" => deny[s].kind = "denied" \/ Decides
  <1>d. deny \in [Side -> Denials]
    BY DEF TypeOK, WorkOK
  <1>k. ASSUME Spends, UNCHANGED <<autoAccept, deny>> PROVE Goal
    BY <1>k
  <1>q. ASSUME Spends, UNCHANGED autoAccept, NEW x \in Side,
               deny' = [deny EXCEPT ![x].req = FALSE] \/ deny' = [deny EXCEPT ![x] = NoDenial]
                 \/ deny' = deny
        PROVE  Goal
    <2>1. \A s \in Side : deny'[s].kind = "denied" => deny[s].kind = "denied"
      BY <1>d, <1>q DEF Denials, NoDenial
    <2> QED BY <1>q, <2>1
  <1>1. ASSUME NEW s \in Side, Local(s) PROVE Goal
    <2>1. ASSUME ~ApproveEstablished(s)
          PROVE  Spends /\ UNCHANGED <<autoAccept, deny>>
      BY <1>1, <2>1 DEF Local, QueueEvent, EmptyQueue, OutboundGate, EnsurePeered,
         ResolvePendingPeer, AdminHandshake, work, settings
    <2>2. ASSUME ApproveEstablished(s) PROVE Goal
      <3>1. Spends /\ UNCHANGED autoAccept /\ deny' = [deny EXCEPT ![s].req = FALSE]
        BY <2>2 DEF ApproveEstablished, settings
      <3> QED BY <1>q, <3>1
    <2> QED BY <1>k, <2>1, <2>2
  <1>2. ASSUME NEW s \in Side, Settle(s) PROVE Goal
    <2>1. CASE Verify(s)
      BY <1>k, <2>1 DEF Verify, work, settings
    <2>2. ASSUME NEW row, Finish(s, row), Spends PROVE Goal
      BY <1>q, <2>2 DEF Finish, settings
    <2> QED BY <1>2, <2>1, <2>2 DEF Settle, SettleQueued, SettleRefused, SettleInProgress,
               GiveUp, SettleExists, SettleAccepted
  <1>3. ASSUME NEW s \in Side, Approvals(s) PROVE Goal
    <2>1. ASSUME NEW kind \in {"denied", "expired"}, NEW lost \in BOOLEAN,
                 DenyInbound(s, kind, lost)
          PROVE  Goal
      <3>1. Spends /\ UNCHANGED autoAccept
        BY <2>1 DEF DenyInbound, settings
      <3>2. CASE lost
        <4>1. deny' = deny
          BY <2>1, <3>2 DEF DenyInbound
        <4> QED BY <1>k, <3>1, <4>1
      <3>3. CASE ~lost
        <4>1. /\ deny' = [deny EXCEPT ![s] = [kind |-> kind, secret |-> inReq[s].secret,
                                              req |-> TRUE]]
              /\ kind = "denied" => Decides
          BY <2>1, <3>3, SpendCounts DEF DenyInbound
        <4>2. \A x \in Side : deny'[x].kind = "denied" => deny[x].kind = "denied" \/ Decides
          BY <1>d, <4>1
        <4> QED BY <3>1, <4>2
      <3> QED BY <3>2, <3>3
    <2>2. CASE SettleDenial(s)
      BY <1>q, <2>2 DEF SettleDenial, settings
    <2>3. ASSUME NEW kind, DropOutbound(s, kind) PROVE Goal
      BY <1>k, <2>3 DEF DropOutbound, work, settings
    <2> QED BY <1>3, <2>1, <2>2, <2>3 DEF Approvals
  <1>4. ASSUME NEW s \in Side, Upkeep(s) PROVE Goal
    <2>1. CASE ToggleAutoAccept(s)
      <3>1. Spends /\ Decides /\ UNCHANGED deny
        BY <2>1, SpendCounts DEF ToggleAutoAccept, work
      <3> QED BY <3>1
    <2>2. CASE Crash(s)
      BY <1>q, <2>2 DEF Crash, settings
    <2>3. CASE ~ToggleAutoAccept(s) /\ ~Crash(s)
      <3>1. Spends /\ UNCHANGED <<autoAccept, deny>>
        BY <1>4, <2>3 DEF Upkeep, ProbeParked, SettleParked, Revoke, ResetPeer,
           DeletePermanently, Decide, AuthRefusal, MarkUnreachable, Recover, DetectReset,
           CleanupUnusedPending, FanOut, work, settings
      <3> QED BY <1>k, <3>1
    <2> QED BY <2>1, <2>2, <2>3
  <1>5. ASSUME Transit PROVE Goal
    <2>1. ASSUME NEW m \in net, NEW lost \in BOOLEAN, AcceptHandshake(m, lost) PROVE Goal
      <3>1. Spends /\ UNCHANGED autoAccept
        BY <2>1 DEF AcceptHandshake, Answer, settings
      <3>2. PICK cleared : deny' = [x \in Side |-> IF x \in cleared
                                     THEN [deny[x] EXCEPT !.req = FALSE] ELSE deny[x]]
        BY <2>1 DEF AcceptHandshake
      <3>3. \A s \in Side : deny'[s].kind = "denied" => deny[s].kind = "denied"
        BY <1>d, <3>2 DEF Denials
      <3> QED BY <3>1, <3>3
    <2>2. ASSUME NEW m \in net, NEW lost \in BOOLEAN,
                 QueueHandshake(m, lost) \/ RefuseHandshake(m, lost)
          PROVE  Goal
      BY <1>k, <2>2 DEF QueueHandshake, RefuseHandshake, Answer, work, settings
    <2>3. ASSUME NEW m \in net, LoseRequest(m) PROVE Goal
      BY <1>k, <2>3 DEF LoseRequest, work, settings
    <2> QED BY <1>5, <2>1, <2>2, <2>3 DEF Transit
  <1>6. Goal
    BY <1>1, <1>2, <1>3, <1>4, <1>5 DEF Next
  <1>7. /\ spent.faults <= spent'.faults /\ spent.decisions <= spent'.decisions
        /\ spent.outages <= spent'.outages
    BY <1>6, <1>c, SpendCounts
  <1> QED BY <1>f, <1>s, <1>c, <1>6, <1>7 DEF Context

-----------------------------------------------------------------------------
(* The theorem *)

\* All of it is kept by a step that is no reinstallation, and by no step at all.
LEMMA TogetherStep ==
  ASSUME SurvivalInv, TypeOK', Few', Kinds, Context
  PROVE  Together'
  <1>1. Surviving
    BY DEF Surviving
  <1> QED BY <1>1, OwnersStep, IdsStep, AskedStep, CountsStep, InFlightStep, VerifiedStep,
             ParkedStep, TakenStep, TroubledStep, SplitStep, LateLowerStep, LateHigherStep
          DEF Together

\* A reinstallation comes when nothing is in flight, and leaves no two rows.
LEMMA WipeTogether ==
  ASSUME TypeOK, TypeOK', Together, NEW y \in Side, Wipe(y)
  PROVE  Together'
  <1>1. /\ net' = {} /\ UNCHANGED <<hs, parked, deny, fresh>>
        /\ \A s \in Side : Idle(s) /\ deny[s] = NoDenial /\ parked[s] = NoProbe
    BY DEF Wipe, Quiet, work
  <1>2. /\ peer'[y] = NoRow /\ autoAccept'[y] = TRUE /\ inReq'[y] = NoRequest
        /\ \A s \in Side \ {y} : /\ peer'[s] = peer[s] /\ autoAccept'[s] = autoAccept[s]
                                 /\ inReq'[s] = inReq[s]
    BY DEF Wipe, TypeOK, RowsOK, SettingsOK, RequestsOK
  <1>3. /\ spent'.faults = spent.faults /\ spent'.decisions = spent.decisions
        /\ spent'.outages = spent.outages
    BY DEF Wipe, Spend, TypeOK, CountersOK
  <1>4. /\ \A s \in Side : Idle(s)' /\ ~(deny'[s] # NoDenial) /\ parked'[s] = NoProbe
        /\ peer'[y].status = "none" /\ ~inReq'[y].open
    BY <1>1, <1>2 DEF Idle, NoRow, NoRequest
  <1>5. \A s \in Side : peer'[s].status # "none" => s # y /\ peer'[Other(s)].status = "none"
    BY <1>4, TwoSides, OtherSide
  <1>6. \A s \in Side, secret \in Nat : Owns(s, secret)' => s # y /\ Owns(s, secret)
    BY <1>1, <1>2, <1>4, OtherSide
       DEF Owns, Waiting, Denied, ExchangeHas, NetHas, Probing
  <1>7. OwnersInv'
    <2> SUFFICES ASSUME NEW s \in Side, NEW secret \in Nat, Owns(s, secret)'
                 PROVE  /\ secret <= fresh' /\ ~Owns(Other(s), secret)'
                        /\ ~QueueHas(s, secret)' /\ ~DenialHas(s, secret)'
      BY DEF OwnersInv
    <2>1. s # y /\ Owns(s, secret) /\ Other(s) \in Side /\ Other(s) = y
      BY <1>6, TwoSides, OtherSide
    <2>2. ~Owns(Other(s), secret)'
      BY <1>6, <2>1
    <2> QED BY <1>1, <1>2, <1>4, <2>1, <2>2 DEF Together, OwnersInv, QueueHas, DenialHas
  <1>8. IdsInv' /\ AskedInv'
    BY <1>1, <1>2, <1>4, <1>5 DEF Together, IdsInv, AskedInv, Probing, Waiting, Idle
  <1>9. CountsInv'
    BY <1>1, <1>2, <1>3, <1>4 DEF Together, CountsInv, LocallyRefused
  <1>10. InFlightInv' /\ VerifiedInv' /\ ParkedInv'
    BY <1>4 DEF InFlightInv, VerifiedInv, ParkedInv, NoProbe
  <1>11. TakenInv' /\ TroubledInv'
    BY <1>4, <1>5 DEF TakenInv, TroubledInv, Bids, StaleParked, ExchangeHas, Working
  <1>12. SplitInv' /\ LateLowerInv' /\ LateHigherInv'
    BY <1>1, <1>4 DEF SplitInv, LateLowerInv, LateHigherInv, Working
  <1> QED BY <1>7, <1>8, <1>9, <1>10, <1>11, <1>12 DEF Together

\* One step of whatever kind.
LEMMA SurvivalStep ==
  ASSUME SurvivalInv, [Next]_vars, TypeOK', Few'
  PROVE  Together'
  <1>t. TypeOK
    BY DEF SurvivalInv, BaselineInv
  <1>f. ASSUME Context PROVE Few
    BY <1>f DEF Context, Few
  <1>1. CASE UNCHANGED vars
    <2>1. UNCHANGED <<peer, hs, net, parked, autoAccept, deny, inReq, epoch, fresh, spent>>
      BY <1>1 DEF vars, rows, requests, work, settings
    <2>2. \A s \in Side : StoredFrom(s)
      BY <1>t, <2>1, StoredKept
    <2>3. Kinds
      BY <2>1 DEF Untouched, Keeps, Stays, StillProbes, Kinds
    <2>4. Context
      BY <1>t, <2>1, <2>2 DEF Context, TypeOK, CountersOK
    <2> QED BY <2>3, <2>4, TogetherStep
  <1>2. CASE Next /\ \A s \in Side : ~Wipe(s)
    <2>1. Context
      BY <1>t, <1>2, StepContext
    <2>2. IdsInv
      BY <1>f, <2>1 DEF SurvivalInv, Together
    <2>3. Kinds
      BY <1>t, <1>2, <2>2, StepKinds
    <2> QED BY <2>1, <2>3, TogetherStep
  <1>3. ASSUME NEW y \in Side, Wipe(y) PROVE Together'
    <2>1. Few
      BY <1>t, <1>3 DEF Wipe, Spend, TypeOK, CountersOK, Few
    <2> QED BY <1>t, <1>3, <2>1, WipeTogether DEF SurvivalInv
  <1> QED BY <1>1, <1>2, <1>3

\* Two sides that are active at rest hold one secret, however their handshakes
\* interleaved, if at most one message, answer or process was lost, or one outage
\* suffered, and an admin acted at most once.
THEOREM OneSecretCorrect == Spec => []OneSecretSurvives
  <1>1. Init => SurvivalInv
    <2> SUFFICES ASSUME Init PROVE SurvivalInv
      OBVIOUS
    <2>1. \A s \in Side : /\ peer[s].status = "none" /\ Idle(s)
                          /\ parked[s] = NoProbe /\ deny[s] = NoDenial
      BY DEF Init, NoRow, NoExchange, Idle
    <2>2. net = {} /\ \A s \in Side : s \notin Gated => autoAccept[s]
      BY DEF Init
    <2>3. \A s \in Side, secret \in Nat : ~Owns(s, secret)
      BY <2>1, <2>2, OtherSide DEF Owns, Waiting, ExchangeHas, NetHas, Probing
    <2>4. \A s \in Side : deny[s].kind = "none" /\ parked[s].probe = "none"
      BY <2>1 DEF NoDenial, NoProbe
    <2>5. Together
      <3>1. OwnersInv
        BY <2>3 DEF OwnersInv
      <3>2. CountsInv
        BY <2>1, <2>2, <2>4 DEF CountsInv, LocallyRefused
      <3>3. IdsInv /\ AskedInv /\ InFlightInv /\ VerifiedInv /\ ParkedInv
        BY <2>1, <2>2, <2>4 DEF IdsInv, AskedInv, InFlightInv, VerifiedInv, ParkedInv, Waiting, Idle
      <3>4. TakenInv /\ TroubledInv /\ SplitInv /\ LateLowerInv /\ LateHigherInv
        BY <2>1, OtherSide DEF TakenInv, TroubledInv, SplitInv, LateLowerInv, LateHigherInv,
           Working, Lower, Higher, Side
      <3> QED BY <3>1, <3>2, <3>3, <3>4 DEF Together
    <2>6. GatedByAdmin
      BY <2>1, GatedAssumption DEF GatedByAdmin
    <2> QED BY <2>5, <2>6, BaselineInit DEF SurvivalInv
  <1>2. SurvivalInv /\ [Next]_vars /\ BaselineInv' /\ GatedByAdmin' => SurvivalInv'
    BY SurvivalStep DEF SurvivalInv, BaselineInv
  <1>3. SurvivalInv => OneSecretSurvives
    BY DEF SurvivalInv, OneSecretSurvives, Few, Together, SplitInv, Awaits, Idle, Working,
           Lower, Higher, Side
  <1> QED BY <1>1, <1>2, <1>3, BaselineHolds, GatedCorrect, PTL DEF Spec
=============================================================================
