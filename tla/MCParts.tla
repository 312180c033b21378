------------------------------- MODULE MCParts -------------------------------
(***************************************************************************)
(* Six components that share no state, checked side by side: a behaviour is  *)
(* one of the component `part' names, while the others rest in an initial     *)
(* state.                                                                    *)
(***************************************************************************)
EXTENDS FriendPair, GroupMember, SecretRotation, DmCall, ResetHeal, FileQueue

VARIABLE part

Part == {"friends", "group", "rotation", "call", "reset", "file"}

\* A component that rests does so in one initial state.
PartsInit ==
  /\ part \in Part
  /\ PairInit /\ GroupInit /\ RotationInit /\ CallInit /\ ResetInit /\ FileInit
  /\ part # "rotation" => untilTick = [p \in Peer |-> Period]
  /\ part # "call" => group
  /\ part # "file" => claimed = "fits" /\ actual = "fits"

PartsNext ==
  /\ UNCHANGED part
  /\ \/ /\ part = "friends" /\ PairNext
        /\ UNCHANGED <<groupVars, rotationVars, callVars, resetVars, fileVars>>
     \/ /\ part = "group" /\ GroupNext
        /\ UNCHANGED <<pairVars, rotationVars, callVars, resetVars, fileVars>>
     \/ /\ part = "rotation" /\ RotationNext
        /\ UNCHANGED <<pairVars, groupVars, callVars, resetVars, fileVars>>
     \/ /\ part = "call" /\ CallNext
        /\ UNCHANGED <<pairVars, groupVars, rotationVars, resetVars, fileVars>>
     \/ /\ part = "reset" /\ ResetNext
        /\ UNCHANGED <<pairVars, groupVars, rotationVars, callVars, fileVars>>
     \/ /\ part = "file" /\ FileNext
        /\ UNCHANGED <<pairVars, groupVars, rotationVars, callVars, resetVars>>

\* The fairness of the components.  A call or a download at rest has nothing enabled
\* to be fair to; a rotation's clock runs only in its own behaviours.
PartsFairness ==
  /\ CallFairness
  /\ FileFairness
  /\ WF_rotationVars(part = "rotation" /\ TimePasses)
  /\ \A p \in Peer : WF_rotationVars(TakeRotation(p)) /\ WF_rotationVars(SettleRotation(p))
                     /\ WF_rotationVars(part = "rotation" /\ HealthTick(p))

partsVars == <<part, pairVars, groupVars, rotationVars, callVars, resetVars, fileVars>>

PartsSpec == PartsInit /\ [][PartsNext]_partsVars /\ PartsFairness
=============================================================================
