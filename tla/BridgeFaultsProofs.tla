-------------------------- MODULE BridgeFaultsProofs --------------------------
(***************************************************************************)
(* What faulty guardians, fewer of them than the threshold, and pauses of  *)
(* Solayer cannot do.  Every step of BridgeFaults is a BridgeStep(Faulty), *)
(* so that the invariant BInv(Faulty) and what follows from it hold.       *)
(***************************************************************************)
EXTENDS BridgeFaults, TransferProofs

\* There are finitely many guardians, so the faulty ones can be counted.
LEMMA FaultyIsFinite == IsFiniteSet(Faulty)
<1>1. IsFiniteSet(Guardian)
  BY DeploymentAssumption DEF Solana!KeyAssumption, Solana!IsFiniteSet, IsFiniteSet
<1>2. QED
  BY <1>1, FaultAssumption, FS_Subset

\* A faulty guardian may sign for any call: that binds no other guardian.
LEMMA MisreadStep == ASSUME BInv(Faulty), Misread PROVE BridgeStep(Faulty)
<1>1. PICK g \in Faulty, p \in Calls(sol_requests) :
          /\ Solayer!Attest(g, Solayer!MessageHash(p))
          /\ UNCHANGED <<solanaVars, solayerProgram>>
  BY DEF Misread
<1>2. g \in Guardian
  BY FaultAssumption
<1>3. p \in AnyCall
  BY LogTypes, OperatorsCalls DEF BInv
<1>4. QED
  BY <1>1, <1>2, <1>3, AttestStep DEF Solayer!Attest, solanaVars

\* The manager of Solayer writes the pause flag and nothing else.
LEMMA PauseStep == ASSUME BInv(Faulty), PauseSolayer \/ UnpauseSolayer PROVE BridgeStep(Faulty)
<1>1. /\ UNCHANGED solanaVars
      /\ \/ Solayer!PauseBridge(lay_handler.manager)
         \/ Solayer!UnpauseBridge(lay_handler.manager)
  BY DEF PauseSolayer, UnpauseSolayer
<1>2. LP!PauseBridge(lay_handler.manager) \/ LP!UnpauseBridge(lay_handler.manager)
  BY <1>1 DEF Solayer!PauseBridge, Solayer!UnpauseBridge, Solayer!UpdateHandler,
              Solayer!guardianVars, LP!PauseBridge, LP!UnpauseBridge, LP!UpdateHandler,
              LP!guardianVars
<1>3. lay_handler.manager \in Authority
  BY DEF BInv, LP!DInv, LP!ProgramTypeOK, LP!HandlerTypeOK, LP!BridgeHandler
<1>4. LP!Next
  BY <1>2, <1>3 DEF LP!Managing, LP!Next
<1>5. UNCHANGED <<lay_threshold, attested>>
  BY <1>2 DEF LP!PauseBridge, LP!UnpauseBridge, LP!UpdateHandler, LP!guardianVars
<1>6. QED
  BY <1>1, <1>4, <1>5, SolanaStands, NoneSigned DEF BridgeStep

\* Every step of BridgeFaults is a step of the bridge in terms of the deployments.
LEMMA FaultsStep ==
    ASSUME BInv(Faulty), [FaultsNext]_bridgeVars PROVE BridgeStep(Faulty)
  BY NextIsBridgeStep, MisreadStep, PauseStep DEF FaultsNext

\* The invariant of the bridge survives the faults.
LEMMA FaultsInvariance == FaultsSpec => []BInv(Faulty)
<1>1. FaultsInit => BInv(Faulty)
  BY FaultAssumption, InitBridgeInvariant DEF FaultsInit
<1>2. BInv(Faulty) /\ [FaultsNext]_bridgeVars => BInv(Faulty)'
  BY FaultyIsFinite, FaultsStep, BridgeInvariant
<1>3. QED
  BY <1>1, <1>2, PTL DEF FaultsSpec

\* Even then a chain on which every record paid on was undisturbed has paid
\* calls that were made, whatever the faulty guardians signed; and no call is
\* paid twice on one chain.
THEOREM FaultsPayOnlyRequested == FaultsSpec => []OnlyRequested
<1>1. BInv(Faulty) => OnlyRequested
  BY PaysOnlyRequested
<1>2. QED
  BY <1>1, FaultsInvariance, PTL

\* Even then everything wrapped, or on its way, is held on the other chain, as
\* long as the bridge is trusted.
THEOREM FaultsKeepBacked == FaultsSpec => []BackedWhileTrusted
<1>1. FaultsInit => BackedWhileTrusted
  BY InitBacked DEF FaultsInit, BackedWhileTrusted
<1>2. BInv(Faulty) /\ BackedWhileTrusted /\ [FaultsNext]_bridgeVars => BackedWhileTrusted'
  BY FaultyIsFinite, FaultsStep, TrustedStep, BackedStep DEF BackedWhileTrusted
<1>3. QED
  BY <1>1, <1>2, FaultsInvariance, PTL DEF FaultsSpec

\* Even then the bridge moves assets as BridgeTransfer promises, as long as it
\* is trusted.
THEOREM FaultsImplementTransfer == FaultsSpec => ImplementsTransferWhileTrusted
<1>1. FaultsInit => Promise!TransferInit
  BY TransferInit DEF FaultsInit
<1>2. BInv(Faulty) /\ [FaultsNext]_bridgeVars =>
          (Trusted' => [Promise!TransferNext]_<<Holding, Transit>>)
  BY FaultyIsFinite, FaultsStep, TrustedStep, TransferStep
<1>3. QED
  BY <1>1, <1>2, FaultsInvariance, PTL DEF FaultsSpec, ImplementsTransferWhileTrusted

=============================================================================
