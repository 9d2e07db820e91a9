---------------------------- MODULE BridgeFaults ----------------------------
(***************************************************************************)
(* The bridge when not everything goes right on the way to Solayer: some   *)
(* guardians sign calls nobody made (they misread a transaction, or it was *)
(* rolled back after they had signed), or sign nothing, and the manager of *)
(* Solayer stops and restarts the bridge while calls are on their way.     *)
(* The way back runs the same code.                                        *)
(***************************************************************************)
EXTENDS Bridge

CONSTANTS
    Faulty,             \* guardians who may sign anything, or nothing
    GuardianThreshold   \* the threshold both managers have set

\* No call gets its signatures from faulty guardians alone.
ASSUME FaultAssumption ==
    /\ Faulty \subseteq Guardian /\ Cardinality(Faulty) < GuardianThreshold
    /\ GuardianThreshold \in 1..Cardinality(Guardian)

Honest == Guardian \ Faulty

FaultsInit ==
    /\ Solana!ProgramInit
    /\ Solayer!ProgramInit
    /\ \E list \in SetToSeqs(Guardian) : GuardedBy(list, GuardianThreshold)

\* External: a guardian signs for a recipient or an amount nobody named.
Misread ==
    \E g \in Faulty, p \in Calls(sol_requests) :
        /\ Solayer!Attest(g, Solayer!MessageHash(p))
        /\ UNCHANGED <<solanaVars, solayerProgram>>

PauseSolayer == Solayer!PauseBridge(lay_handler.manager) /\ UNCHANGED solanaVars
UnpauseSolayer == Solayer!UnpauseBridge(lay_handler.manager) /\ UNCHANGED solanaVars

FaultsNext == BridgeNext \/ Misread \/ PauseSolayer \/ UnpauseSolayer

FaultsSpec == FaultsInit /\ [][FaultsNext]_bridgeVars

\* The honest guardians and the relayer keep working, no pause is for ever,
\* and the operator, who retries, is not shut out by pauses each time.
FaultsFairSpec ==
    /\ FaultsSpec
    /\ \A g \in Honest : WF_bridgeVars(SignForSolayerBy(g))
    /\ WF_bridgeVars(RelayToSolayer)
    /\ WF_bridgeVars(RegisterOnSolayer)
    /\ WF_bridgeVars(UnpauseSolayer)
    /\ SF_bridgeVars(PayOnSolayer)

=============================================================================
