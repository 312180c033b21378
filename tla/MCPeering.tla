----------------------------- MODULE MCPeering -----------------------------
(***************************************************************************)
(* Peering for TLC: behaviours in which either something fails or a side is  *)
(* reinstalled, and a state constraint for a scenario too long for the whole  *)
(* state space.                                                              *)
(***************************************************************************)
EXTENDS Peering

Unspent == [kind \in {"faults", "decisions", "outages", "wipes"} |-> 0]
Fresh == INSTANCE Peering WITH spent <- Unspent

\* The bound on faults or the one on reinstallations is used up from the start.
EitherInit ==
  /\ Fresh!Init
  /\ \E other \in {"faults", "wipes"} : spent = [Unspent EXCEPT ![other] = Limit(other)]

EitherSpec == EitherInit /\ [][Next]_vars /\ Fairness

\* No mail, and only "lower" changes its auto-accept setting.
RefusalFocus ==
  /\ \A s \in Side : ~peer[s].queued
  /\ autoAccept["higher"]
=============================================================================
