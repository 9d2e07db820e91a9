# Verification of the bridge program

TLA+ models of the Solana/Solayer bridge in this repository: the on-chain
program under `programs/bridge`, which runs once on Solana and once on Solayer,
and the guardians, the relayer and the operator that connect the two. The
models are translated from the Rust source and the scripts. TLC checks small instances. For every
value of the constants, TLAPS proves every safety property the passing runs check: of the guardians
and the way signatures take to them, of one deployment, and of the two deployments together, with
faulty guardians and driven by the scripts.

Two things the program leaves to those who use it are conditions of these results, and are stated in the
properties rather than assumed away. What a record proves of its guardians holds while every batch in it came with
an Ed25519 instruction that points at its own bytes and no removal has shifted it (`disturbed`). And the two
chains balance while each call is paid on the other chain only, which the signed hash does not say (`Routed`).

## 1. The system

### Components

| Component | Source | State it keeps | Operations |
|---|---|---|---|
| Guardians and signature records | `contexts/add_guardian.rs`, `remove_guardian.rs`, `update_guardian_threshold.rs`, `verify_signature.rs` | `GuardianInfo.guardians` (a list of at most 15 keys), `BridgeHandler.guardian_threshold`, one `VerifiedSignatures` account per message hash (at most 10 guardian indexes, `created_at`) | add, remove, set threshold, append a batch of verified indexes; a payout counts the record and closes it |
| Ed25519 check | `utils/verify_ed25519.rs`, written by `scripts/utils.ts` | none | reads the data of the precompile instruction before the current one: offsets, keys, signatures, messages; decodes its instruction indexes and compares them with nothing |
| Source chain | `contexts/bridge_asset_source_chain.rs`, `..._sol.rs` | handler nonce, `BridgeProofSourceChain` accounts, vaults, wrapped supply, lamports, fee vault | bridge a token (with gas), bridge SOL |
| Target chain | `contexts/bridge_asset_target_chain.rs`, `..._sol.rs` | `BridgeProof` accounts, vaults, wrapped supply, lamports | pay a token (with gas), pay SOL |
| Instant cap | `constants.rs`, both target-chain handlers, `update_instant_bridge_cap.rs` | remaining dollars and the epoch they belong to | charged by payouts, reset lazily, set by the manager |
| Token registry | `add_token.rs`, first source-chain call of a mint, `pause_token.rs` | `TokenInfo` accounts | register from either side, pause, unpause |
| Administration | `initialize.rs`, `pause_bridge.rs`, `update_*.rs` | manager, operator, fee vault, fees, pause flag | one setter each |
| Guardian and relayer services | described in the repository's `README.md` only | queues, signatures collected | sign, submit, pay, retry |
| Scripts | `scripts/` | key files; the constants the operator edits | each builds one transaction of one or more instructions and sends it; some wait for it, most of those for Solayer do not |

### Interaction

A user calls a source-chain handler. It takes the fee, the gas and the tokens
(locks a native mint in its vault, burns a wrapped one; keeps SOL on Solana,
burns it on Solayer), creates a proof account and counts the nonce up. Guardians
see the transaction and the proof account and sign the hash of the call. Anyone
brings signatures to the other chain with `verify_signature`, in batches, which
appends guardian *indexes* to the record of the hash. The hash names neither chain nor handler, and
`scripts/constants.ts:16-17` gives both deployments the same program id and handler nonce, so a signature is good on both. The operator calls a
target-chain handler; it recomputes the hash from its arguments, counts the
record against the threshold, closes it, creates the proof of execution, which
exists once per source transaction, charges the cap, and transfers or mints. The
only state the two chains share is what these messages carry. The manager may
change guardians, threshold, operator, fees and caps at any moment in between.

### What is hard here

* Records name guardians by position in a list that other instructions edit.
* Batches of signatures come from several submitters, overlap, come again after
  the record was closed, and one repeated index fails the whole batch.
* The operator passes the hash and the arguments separately.
* The proof of execution, the nonce and the source proof account are three
  different ways of saying "this call", with three different seeds.
* The cap is reset by the first payout of an epoch rather than by the epoch.
* A token is registered by whoever comes first, the user or the operator.
* Two chains run the same code with opposite treatment of SOL and of each mint.
* A transaction carries signer indexes that were right when it was sent; it is executed later,
  after others, or never, and the list may have changed by then.
* The precompile checks the bytes its instruction indexes lead to, the program reads its own instruction's bytes;
  anybody may submit a batch.
* A signature for one chain is accepted on the other.
* Offsets in the Ed25519 data exceed one byte from the third signature on and move with the size of the batch.
* Scripts are run again and again by hand without knowing what became of the last run.
* Guardians may sign what nobody asked for, and the bridge may be stopped while calls are on their way.

`PROJECT.json` lists each hazard at its line with the properties that cover it.

### What makes each component correct

* Guardians: the threshold stays within the list (whether one record can hold it is another matter, see the end of Findings); an undisturbed
  record counts guardians, each once; a payout of it is backed by a threshold of them; signatures that can be
  collected are collected, over a network that loses and reorders them; signatures
  count for the guardian who made them and for nobody else.
* Scripts: however often they are run, lists are never half-written, no fee goes astray, and the flow they drive pays.
* Source chain: what users hand in is what accounts gain; calls are told apart.
* Target chain: on undisturbed records only signed calls are paid; on any record, once per source
  transaction, and never beyond the allowance without waiting.
* Registry: a mint's origin is right, registered once and for good.
* Together, on undisturbed records and with each call paid on the other chain: value on one chain is backed on
  the other; users get exactly what they sent, once, and in the end.

## 2. Modules

| Module | Models |
|---|---|
| `Guardians` | guardian list, threshold, records; a specification of its own |
| `GuardiansProofs` | its theorems |
| `Deployment` | one deployment: EXTENDS `Guardians` with every other instruction |
| `DeploymentProofs` | its theorems; uses those of `GuardiansProofs` |
| `Bridge` | two instances of `Deployment`, guardians, relayer and operators between them |
| `BridgeTransfer` | what users are promised: abstract specification of `Bridge` |
| `Ed25519` | the bytes of an Ed25519 instruction: what the scripts write, what the program reads |
| `Relay` | EXTENDS `Guardians` and `Ed25519`: signatures in transactions under way |
| `RelayProofs` | its theorems: `Relay` implements `Guardians`, what the scripts write is read back |
| `BridgeFaults` | EXTENDS `Bridge`: faulty guardians, and pauses while calls are on their way |
| `Scripts` | EXTENDS `Bridge`: the scripts of `scripts/devnet` in place of free actors |
| `SumProofs` | what adding up a function over a finite set gives, for the proofs about balances |
| `BridgeProofs` | only requests are paid and value is backed, under the conditions named in section 1; uses `DeploymentProofs` once for each chain |
| `TransferProofs` | `Bridge` implements `BridgeTransfer` while it is `Trusted` |
| `BridgeFaultsProofs`, `ScriptsProofs` | the same for `BridgeFaults` and `Scripts`, and what the scripts promise |
| `MCGuardians`, `MCDeployment`, `MCBridge`, `MCRelay`, `MCBridgeFaults`, `MCScripts` | small instances for TLC |

Composition: `Bridge` instantiates `Deployment` twice and uses its actions, so a
handler is written once. Refinement: `Deployment` implements `Guardians!GuardiansSpec`
(the same variables, so the property is `GuardiansSpec` itself), `Bridge`
implements `BridgeTransfer` under a mapping as long as it is `Trusted`, `Relay` implements `GuardiansSpec` by the
variables of the same names, `Scripts` implements `BridgeTransfer` without that condition.

### Guardians

`guardians`, `threshold` and `verified` are the accounts. `verified` maps a
message to its record and has no entry for an account that does not exist.
`attested` is what guardians have signed off chain; `now` the clock. `disturbed`
is a history variable: the messages with an open record in which a removal has
moved an index, or to which a batch was added whose Ed25519 data pointed elsewhere. Each instruction is one action with the handler's `require!`s
as guards; an instruction that fails changes nothing and is no step.
`ConsumeSignatures` is the part of the target-chain handlers that counts and
closes a record.

The third argument of `VerifySignature` says where the instruction indexes of the Ed25519 data point: `"this"`, the
instruction itself, or `"other"`, anywhere else. Clients may do what the constant `InstructionIndex` allows.
`verify_ed25519.rs:50-57` decodes these indexes and never looks at them, so both kinds of batch are recorded.
In either, the indexes must name registered guardians (`NamesGuardians`); only of a batch that points at itself does it
follow, from the precompile, that each of them signed this hash (`VerifyEd25519`). A batch that points elsewhere
disturbs its record: nothing is claimed of who signed. `Relay` reads the bytes and shows that these two cases are
what they give. `RecordSignatures` is the rest of `verify_signature`.

### Deployment

`handler` is the `BridgeHandler` account without the threshold; `token_info`,
`source_proofs` and `target_proofs` are account sets as functions from their
seeds; `tokens` and `lamports` are balances. `requests` and `payouts` are logs,
`audit` holds history: mints the manager's last word has paused, dollars paid out without
waiting in this epoch, the allowance they are measured against as the code grants it (`cap_granted`),
the allowance the manager last set in this epoch (`cap_set`), and whether every record paid on so far was
undisturbed (`vouched`).

Both target handlers share `AcceptPayout` (operator, pause, cap, quorum, hash,
proof of execution) and differ in how they pay. `chain` selects what the
`solana`/`solayer` build features select in the code. `SourceTx` lets a call be
in a new transaction or in that of the call before it, up to `MaxInstructions`.
`SetTokenPause` writes nothing: `PauseToken.token_info` is not `mut`, so Anchor
does not store the flag the handler sets.

### Bridge

`SignForX` is a guardian that has seen the call and its proof account on the
other chain and signs it. There is one `attested` for both chains, as nothing in the hash tells them apart.
`RelayToX` is the relayer, who submits one signature of a call of the other chain, in data that points at itself.
`StrayBatchOnX` is anybody else: a batch for a message of either chain, with data that points anywhere
`InstructionIndex` allows, while no more than `MaxStray` records are open. `PayOnX` is an
operator who combines *any* open record with any call of either chain, any recipient and any amount; it is the
program that must reject the wrong ones. `RegisterOnX` is `add_token`.
`BridgeInit` is the state after the scripts' set-up (guardians added, threshold set).

Two predicates name what the program leaves to its users. `Vouched`: every record paid on was undisturbed.
`Routed`: every payout is of a call of the other chain. `Trusted` is both. `OnlyRequested` needs
the first only, chain by chain: a payout answers a call somebody made, on whichever chain, and no call is
paid twice on one chain, the latter without any condition. `BackedWhileTrusted`,
`ImplementsTransferWhileTrusted` and `EveryRequestPaid` need both. The unconditional `Backed` and
`ImplementsTransfer` are kept for `Scripts`, where the scripts route by direction and point at their own data.

Mapping to `BridgeTransfer`: a token and its wrapped mint are one asset; a call
whose answer is not in the other chain's payouts is in transit.

### Ed25519 and Relay

`MakeEd25519InstDataPacked` (what the verify scripts send) and `MakeEd25519InstData` write
a sequence of bytes: the count, padding, seven little-endian u16's per signature, then message,
keys and signatures. A computed byte is a number; a byte of a key, signature or message
is known by whose it is and which one. `Loadable` and `LoadSignatures` are
`load_signatures`, `VerifyEd25519Ix` is `verify_ed25519_ix`. The Ed25519 program of the
cluster is external: of every signature whose three instruction indexes name the instruction itself (`PointsHere`)
it passes only what its guardian has made; of the others it checks bytes the program never sees,
and the model takes anything to have passed. `InstructionAt` is where the data point.

`sent` holds the transactions a relayer has sent. `Submit` is a run of a verify script
with any batch of signatures in any order, `Land` executes the Ed25519 program and
`verify_signature` against the list *as it is then*, `Drop` is a transaction lost,
expired or failed. `LandFromClient` is the transaction of any other client, with any data out of the constant
`ClientData`, which the proofs leave open, and any indexes. Everything else of `Guardians` goes on in between.

### BridgeFaults

`Misread` is a guardian out of `Faulty` who signs for any recipient or amount, or for
a call whose proof account will never be seen by the others (a rollback); such guardians may also sign nothing.
The manager of Solayer stops and restarts the bridge at any moment. The direction is from
Solana to Solayer; the way back runs the same code. Guardians exchanged under open records are
the subject of `Guardians` and `Relay`, and proved about there.

### Scripts

A run of a script is a transaction in `sent`, named by the script and by what it is
about. `Execute` gives what the transaction does, with the instructions of one transaction
done together: `AddAll` and `RemoveAll` are one `add_guardian` or `remove_guardian` per key,
all or none (`RemovingEach` takes the keys away one after the other); `SolanaUpdateFeeVault` goes to the vault for deletion and back. Scripts in
`Awaited` wait (`sendAndConfirmTransaction`, `confirmTransaction`), so the person who runs one runs nothing
else meanwhile; the others return at once and their transaction may be overtaken. A script
whose transaction fails, in preflight or on chain, changes nothing: that is `Drop`.

The verify_signature and target-chain scripts hold a call in constants (`NONCE`, `SOURCE_TX_ID`,
amount, recipient); the repository's README tells the operator to copy them from the source call, and so
`CallToSolayer(n)` is the n-th call. They sign with the guardians' key files before
they send (`Sign`) and pass literal indexes (`SignerIndexLiterals`). The hashes they sign are
`GetMessageHash` and `GetMessageHashForBridgeAssetTargetChainSol`, as the scripts compute
them, not as the program does.

In the repository the key lists are constants to be edited: as committed, guardian 1 is added,
guardians 6 to 8 are removed, the threshold is 1. The configurations add three
guardians, remove the third, set the threshold to 2 and sign with the first two, so that lists and
batches have more than one member. `BRIDGE_AMOUNT` holds the constant of that name of each source-chain script.

### Assumptions and abstractions

* SHA-256 is injective, so a message stands for its hash. Token and SOL messages
  have different lengths.
* Ed25519 signatures, keys and message hashes of different owners differ, and a signature exists only
  if its guardian made it (`Ed25519Program`). This speaks of the bytes the precompile has checked, which are those
  the program reads only when the instruction indexes name the instruction itself. An index that spells out this
  instruction's own position instead of `u16::MAX` counts as pointing elsewhere: less is promised of it.
* The transactions of the relayer are built by the scripts' `makeEd25519InstDataPacked`; those of other clients are not.
* `InstructionIndex` contains `"this"` (`InstructionIndexAssumption`); in `Relay` both cases are possible (`ClientAssumption`).
* The deployed build's feature matches its chain; clock and epoch do not go back.
* Keys of users, of authorities and of vaults are different; rent and network fees are
  left out, so `lamports` counts what is above them.
* Dollar values are computed in whole cents and cut to whole dollars; `f64`
  rounding is ignored.
* In `Bridge` guardians sign real calls only, are all honest and are not changed, the cap is high
  and the bridge is not paused (`BridgeFaults`, `MCDeploymentCap`, `MCDeployment` and `MCGuardians` vary
  those); all SOL on Solayer came over the bridge; the relayer, but not others who submit and not the operator, routes by direction.
* Calls of one transaction are adjacent in the log.
* An address the program derives for a wrapped mint is nobody else's mint (`MintAssumption`, `TokenAssumption`).
* A token is at home on one chain: `TokenAssumption` excludes a mint address that exists on both, so the tokens the
  repository's README lists with one mint on both chains are outside of `Bridge`.
* Mints take no transfer fee: for a Token-2022 mint that takes one, a vault gains less than the amount a call logs.
* There are finitely many keys, and users, vaults and the handler have different ones (`KeyAssumption`);
  all guardians fit into the list (`GuardianAssumption`).
* Fewer guardians are faulty than the threshold asks for (`FaultAssumption`).
* The key lists of the scripts name each guardian once, `SOLANA_MINT` is at home on Solana, and the account
  `update_fee_vault` is run to delete is not the fee vault (`ScriptAssumption`).
* Token-2022 extensions (transfer fees, transfer hooks), names, symbols and metadata accounts are left out.

## 3. Runs

All bounds are constants named in the configuration files.

| Run | Instance | Shows |
|---|---|---|
| `guardians` | 3 guardians, 2 messages, list of 3, records of 2, clock 0..1, batches that point at themselves and elsewhere | types; threshold within the list; undisturbed records count guardians who signed, and their payouts have a quorum; a majority is lost by adding only; restarts of the waiting time bring a new guardian |
| `guardians_removal` | records of 3 | violation: after a removal, one guardian counts twice |
| `deployment_cap` | Solana; 4 possible payouts, cap 2 dollars, 2 epochs, clock 0..2 | types; balances on Solana, payouts included; cap, single payment, every payout of an undisturbed record signed |
| `deployment` | Solayer; every instruction from `initialize` on, 2 managers, 2 fee vaults, a fee set from 0 to 1, 2 calls, a payout with gas; symmetric in guardians, authorities and vaults | types; balances agree with the logs; calls distinct; registry right and final; a deployment behaves as `Guardians` says |
| `deployment_pause` | Solana; two calls for one token | violation: a paused token is bridged |
| `deployment_setcap` | as `deployment_cap` | violation: more is paid without waiting than the manager allowed |
| `bridge` | 1 user with SOL on Solana and a token at home on Solayer, 1 call on each chain; batches nobody relayed, for any call and amount, on either chain, pointing anywhere, as long as no other record is open there; the operator tries every call | undisturbed records pay only what was called for, never twice on a chain; until a disturbed record or the wrong chain is paid on, backing, `BridgeTransfer` implemented, and every call is paid in the end |
| `bridge_batch` | two calls in one transaction | violation: the second is never paid |
| `bridge_faults` | 3 guardians, 1 of them faulty, threshold 2, 2 users, a token and SOL, pauses | undisturbed records pay nothing that nobody called for; every call is paid in the end |
| `relay` | 2 guardians, 2 transactions under way; keys of 100, signatures of 200 and messages of 100 bytes; clients with data that points at itself or at instruction 0 | types; both layouts are read back, out of the bytes checked; `Guardians` implemented; no stale index is recorded; signatures are collected over a network that loses and reorders |
| `scripts` | all 22 scripts from `initialize` on, 3 guardians less one, a token on either chain, 2 transactions under way, 1 call on each chain | lists are as scripted; backing, fees, `BridgeTransfer` implemented; a call for SOL is paid by the scripts |
| `scripts_token` | the setup scripts and those for a token | violation: a call for a token is not paid |

Why these bounds are enough to be of interest: three guardians are the fewest for
which a removal moves an index and a majority threshold (2) is below the
number; a record of two with a list of three reaches the record's own limit
before the list's. The cap run has two payouts that together exceed the cap, two messages of one
source transaction, one message nobody signed, an epoch change, and enough clock
for the waiting time. `deployment` has tokens for two calls, a reused `bridge_proof_nonce` and
fees changed between calls; the Solana side of the balances is checked in `deployment_cap`, and end to end by `BackedWhileTrusted`.
In `bridge` both directions are under way at once, a wrong amount is always on offer, and a call back may spend
only what a call there made available. The run reaches states that are not `Trusted`, in both ways, so its
conditions are not vacuous. Tokens of Solana are bridged in `bridge_faults`, which also puts a wrong recipient on offer, and in
`scripts`; several calls on one chain are the subject of the `deployment` runs, `bridge_batch` and the proofs.

`bridge_faults` and the `deployment` and `scripts` runs have `InstructionIndex = {"this"}` and, where there are two
chains, `MaxStray = 0`: what the other batches can do is the subject of `guardians`, `relay` and `bridge`, and the
proofs of `Deployment`, `Bridge`, `BridgeFaults` and `Scripts` are for every `InstructionIndex` and `MaxStray`.

For `relay`, two transactions are what it takes for one to overtake another and for
the list to change while one is under way, and two guardians to swap their places in it. With the code's
sizes an offset exceeds 255 from the third signature on (2 + 3 * 14 + 32 + 2 * 96 = 268); longer keys and
signatures bring that down to the second, so that some offsets of a batch take one byte and some two. `scripts` has
two transactions under way, so every script that waits for nothing is overtaken by every other.
`bridge_faults` needs two honest guardians and a faulty one for a threshold the honest can
meet and the faulty cannot, and two users for a wrong recipient.

Deadlock is checked for `Guardians` and `Relay`. The other configurations bound nonces, the clock and
the log, so they may stop, and say `CHECK_DEADLOCK FALSE`.

### Fairness

`RelayFairSpec` is about one message at a time. Weak fairness of `Drop` says that a transaction does not stay under
way for ever, as its blockhash expires. Strong fairness of `SubmitMissing` and `LandOneOf`
says that a relayer who keeps sending what is missing gets a turn although the
bound `MaxSent` may be used up by others, and that not every copy is lost when one
after the other could be executed. The relayer of the repository's README caches signatures and
"keeps scanning the database and redrive[s] failed transactions"; no one else, the manager
included, is assumed to act or to stop acting, which is why the property gives
up when guardians or threshold change. Larger batches of other submitters may race with it.

`BridgeFairSpec` asks weak fairness of guardians, relayer, registration and
payout in each direction, justified by the guardian workflow (a loop over a
queue to which undecided transactions return) and the relayer's redrive. Users
are not fair. Fairness is of the whole activity of a chain, not of each message.

`FaultsFairSpec` asks weak fairness of every honest guardian and of nothing a faulty one does; a pause
does not last for ever; and strong fairness of payouts, since the operator retries and
pauses come and go.

`ScriptsFairSpec`: transactions expire, in particular the one an operator waits for; and the scripts in `Repeated`
(those that sign and pay a call for SOL, or a call for a token) are run until they have worked, with
strong fairness of running them and of executing them. Nothing is asked of the setup scripts: the flow must
end once the bridge is set up (`SetUp`), whatever else is run meanwhile.

### Findings

1. `remove_guardian` moves the guardians behind the removed one down while open
   records go on naming indexes. The guardian that moved can sign again under
   its new index, and a payout passes with fewer signers than the threshold
   (`guardians_removal`). This is why several properties speak of undisturbed records.
2. `pause_token` and `unpause_token` write to an account the instruction does
   not declare `mut`; the flag is lost (`deployment_pause`).
3. The proof of execution is seeded by the source transaction only, so of
   several calls in one transaction one is paid. The repository's README seeds it by
   the call's own fields (`bridge_batch`).
4. An allowance set before the first capped payout of an epoch is overwritten by that payout's
   reset (`deployment_setcap`).
5. The scripts hash a token call without its source mint, the program with it, so the test flow of
   the repository's README does not get a token paid (`scripts_token`). With the source mint hashed in its
   place the same run finds no violation.

Three more observations are conditions of the properties rather than runs:

* The threshold may be set to 11 to 15 (`update_guardian_threshold.rs:29`), a record holds 10 indexes
  (`verify_signature.rs:71`) and the payout wants the threshold in one record: no message is executed any more.
  `ThresholdWithinList` does not exclude this, and `Collectable` asks for a threshold that fits a record.
* The program does not compare the instruction indexes of the Ed25519 data (`verify_ed25519.rs:50-57`), so what a
  record proves depends on how its batches were built (`disturbed`).
* The signed hash names neither chain nor handler (`bridge_asset_target_chain_sol.rs:115`), so it is the operator
  who decides on which chain a call is paid (`Routed`).

## 4. Proofs

`GuardiansProofs` proves, for any sets of guardians and messages and any limits
allowed by `CountAssumption` and `TimeAssumption` (list length 1..254, record
length positive, natural clock bound):

* `TypeCorrect`: `GuardiansSpec => []TypeOK`
* `ThresholdStaysWithinList`: `GuardiansSpec => []ThresholdWithinList`
* `RecordsAlwaysNameSigners`: `GuardiansSpec => []RecordsNameSigners`
* `PayoutHasQuorum`: `GuardiansSpec => QuorumBacksPayout`
* `MajorityStays`: `GuardiansSpec => MajorityLostByAddingOnly`
* `RestartsAreBounded`: `GuardiansSpec => RestartsBringNewSigner`

The inductive invariant is `IInv == TypeOK /\ ThresholdWithinList /\ RecordsNameSigners`.
`TypeOK` alone is inductive except for the injectivity of the list, which
`add_guardian`'s search keeps and a removal preserves (a lemma about `RemoveAt`).
`ThresholdWithinList` needs the type of the threshold, since 255 stands for "not
set". `RecordsNameSigners` needs both: a removal leaves a record's claims true only
if every index in it is below the removed position, and a batch keeps them only if its data pointed at itself; what the
actions do not put into `disturbed` is just that. `QuorumBacksPayout` then follows in one step
from `IInv`: the indexes of the closed record map injectively to registered
signers, because the record and the guardian list are both injective, so there
are at least as many signers as indexes.

`RestartsAreBounded` uses the same two injections: the indexes a batch adds are not in the record, and
distinct indexes name distinct guardians. `MajorityStays` is arithmetic on the length of the list.

`RelayProofs` proves, for keys, signatures and messages of 1 to 255 bytes (`SizeAssumption`), as long as a signature of every
guardian fits into what two bytes can point to (`DataAssumption`: 2132 bytes in the code), and any bound on the transactions under way:

* `RelayTypeCorrect`: `RelaySpec => []SentTypeOK`
* `RelayImplementsGuardians`: `RelaySpec => GuardiansSpec`
* `RelayedPayoutHasQuorum`: `RelaySpec => QuorumBacksPayout`
* `BatchesAreReadBack`: `RelaySpec => []SignaturesReadBack`
* `BatchesNameTheirSigners`: `RelaySpec => IndexesNameTheSigners`

The step that matters for safety is `Execute`: what `VerifyEd25519Ix` reads are the keys of the
guardians the indexes name *now* and the hash of the message. If every signature points at the instruction itself, the
Ed25519 program has passed these very bytes, as signatures somebody made; keys and hashes are injective in their
owners, so each of those guardians has signed this message, which is the guard `VerifyEd25519` of `Guardians`. If one
points elsewhere, nothing of the kind follows, and the step is a `VerifySignature` at `"other"`, which disturbs the
record. That part does not look at how the data was laid out, and holds of the relayer's transactions and of every client's;
what it gives for a client whose data point elsewhere is only that.

The last two theorems look at the layout. `Holds(data, at, s)` says that the bytes of `s` are in the data from place `at`
on, and `Spells` that pairs of bytes hold given numbers, the smaller byte first. The proof follows each key, signature and message through
the concatenations of `MakeEd25519InstDataPacked` and of `MakeEd25519InstData` to its place, shows that the offset written for
it is that place (`EncodedOffsets`, `BatchFits`: no offset exceeds two bytes), and that `LoadSignatures` cuts out
just those bytes (`SliceHeld`, `SignatureHeld`), and that every instruction index is `u16::MAX`, so that a batch of the
scripts never disturbs a record. What flattening a sequence of blocks gives is an
induction over the number of blocks (`FlattenBlocks`). `SentAsPacked` is the invariant: every
transaction under way is one the packed layout gives for some batch.

`DeploymentProofs` proves of one deployment, on either chain, for any sets of users,
authorities, mints, amounts, fees and payouts and any prices and limits:

* `ImplementsGuardians`: `Spec => GuardiansSpec`. Payouts are `ConsumeSignatures` of
  the message they close, guardian instructions and batches are themselves, and everything else
  leaves the guardian variables alone. It carries `IInv`, and with it the four
  theorems above, over to the whole program (`GuardiansInvariance`).
* `ProgramTypeCorrect`: `Spec => []ProgramTypeOK`
* `PaidOnce`: `Spec => []PaidOncePerTransaction`
* `CallsStayDistinct`: `Spec => []RequestsDistinct`
* `CapIsKept`: `Spec => []InstantWithinCap`
* `RegistryIsRight`: `Spec => []RegistryFollowsOrigin`
* `RegistrationStays`: `Spec => RegistrationIsFinal`
* `PayoutsCarrySignatures`: `Spec => PayoutsAreSigned`
* `LedgerStaysBalanced`: `Spec => []LedgerBalanced`

The assumptions are those named in `Deployment`: the chain is one of the two
(`ChainAssumption`), amounts, fees and caps are natural numbers (`AmountAssumption`),
prices too and their units positive (`PriceAssumption`), payouts name users and
natural amounts (`PayoutAssumption`), and `MintAssumption` and `KeyAssumption` above.

The inductive invariant is `DInv`, a conjunction of named parts:

* `PayoutsTypeOK`, a part of `ProgramTypeOK`, says that proofs of execution are exactly the
  transactions in the log of payouts. Without it the guard "no proof of
  execution yet" would say nothing of the log, and `PaidOncePerTransaction` would not be inductive.
* `NoncesCount`: the handler's nonce is the number of calls, the i-th call has nonce i - 1 and its
  proof account is still there. The next call's nonce is then new, and
  so is its pair of sender and proof nonce; `RequestsDistinct` follows.
* `CapCurrent` adds to `InstantWithinCap` that the stamp is not ahead of the epoch: a
  payout in a new epoch resets the allowance and the sum starts afresh.
* `RegistryFollowsOrigin` is inductive with the types, by `MintAssumption`.
* `PayoutsAreSigned` needs `IInv` (an undisturbed record names signers, each once) and the type of the log.
  `PayoutVouches` and `VouchedBefore` say what `vouched` remembers of it.

`LedgerBalanced` speaks of sums over logs and over holders. `SumProofs` defines the sum of a function on a
finite set by partial sums over all its subsets and proves what the balances need: a new member adds
its value (`SumExtend`), a changed one the difference (`SumChange`). Its inductions are over sets, of naturals or
of subsets, rather than over a predicate (`NaturalInduction`, `SubsetInduction`), which no installed prover could instantiate.
`DeploymentProofs` then gives every action one of three effects on the books:
`Called(r, fee)`, `Paid(r)` or `Idle`; each keeps the balance. A registration is idle, and so is every setter.

### The bridge

`BridgeProofs` uses `DeploymentProofs` twice, as `SP` for Solana and `LP` for Solayer, with any call of the right
type for a payout and its hash for a message. It proves:

* `PayoutsAreRequested`: `BridgeSpec => []OnlyRequested`
* `AllBacked`: `BridgeSpec => []BackedWhileTrusted`

The inductive invariant is `BInv(F)`, where `F` are the faulty guardians, none in `Bridge` itself. It holds always,
whatever batches are submitted and wherever calls are paid:

* `DInv` and `IInv` of both deployments, and thresholds above the number of the faulty.
* `SignedFor`: a message that someone outside `F` has attested is the hash of a call that was made, on either chain.
  Signatures are irrevocable and calls are never taken back, so this holds as the logs grow.
* `PaysOnly`, for each chain while its payouts are `vouched`: whatever it has paid is the answer to a call of one of
  the two logs (`Asked`).

A payout of an undisturbed record closes one that names as many different signers as the threshold asks for; `F` is smaller
than that, so one of them is honest, the message is the hash of a call made, and the hash tells calls apart
(`HashIsInjective`, `PayoutAnswers`); the proof of execution makes it the first payout of that call on this chain. A payout
of a disturbed record ends `vouched`, and with it the claim.

What the balances need is `Programs`: `DInv` of both deployments, and `PaidFor` in both directions, whatever has been
paid answers a call logged on the *other* chain. That follows from `BInv(F)` while the bridge is `Trusted`
(`TrustedPrograms`): a call carries its chain in its transaction, so a routed payout answers one of the other log.
`Trusted` is never regained once it is lost (`TrustedBefore`), so a step that ends in a trusted state began in
one. `TrustedStep` puts this together: `Programs` before, `Programs` after, and one of the `Moves`.

Every step of the bridge into a trusted state is one of five `Moves`: a call or a payout on either side, or
both programs idle. `Backed` is proved from that: a call moves its amount from `SolanaSide` or
`SolayerSide` of a mint into what is in transit, a payout from there to the other side (`CallMoves`, `PayoutMoves`),
and the two changes cancel. It needs `PaidFor` and `PaidOncePerTransaction` once more: a payout of nothing
that is in transit, or of a call paid before, would not take its amount from there.

`TransferProofs` proves `BridgeImplementsTransfer`: `BridgeSpec => ImplementsTransferWhileTrusted`, the refinement of
`BridgeTransfer` under the mapping of `Bridge` (what users hold on either chain, and the calls whose answer is not yet logged). A call maps to `Send`, a payout to `Deliver`, and both idle to a stutter.
Its invariant is `BInv({})`, and every step into a trusted state is a step of the transfer. That the transfer sent is new is `NoncesCount`, which tells calls of one chain apart by their nonce.

`BridgeFaultsProofs` proves the three again for `FaultsSpec`, with `F = Faulty`, any set of guardians smaller than
the threshold: `FaultsPayOnlyRequested` (`[]OnlyRequested`), `FaultsKeepBacked` (`[]BackedWhileTrusted`) and
`FaultsImplementTransfer` (`ImplementsTransferWhileTrusted`), under the same conditions. `Misread` keeps
`SignedFor`, which is about the others and asks nothing of what the faulty sign, and a pause moves nothing.

### The scripts

`ScriptsProofs` proves, for any keys, amounts and fees and any number of transactions under way:

* `ScriptsKeepLists`: `ScriptsSpec => []ListsAsScripted`
* `ScriptsPayFeesToVault`: `ScriptsSpec => []FeesReachVault`
* `ScriptsPayOnlyRequested`: `ScriptsSpec => []OnlyRequested`
* `ScriptsKeepBacked`: `ScriptsSpec => []Backed`
* `ScriptsImplementTransfer`: `ScriptsSpec => ImplementsTransfer`

Executing a transaction is one of 22 steps (`ExecutesStep`), and each of these leaves both programs alone (`Quiet`, the guardian
scripts), or is a step of one deployment that pays nothing or answers a call that was made (`SolanaActs`,
`SolayerActs`). The scripts name the calls they answer out of the log of the other chain, so `PaidFor` holds whoever has
signed and wherever the records come from; the conditions of `Bridge` are not needed, and the invariant `ScriptsInv` has no part about signatures:

* `Programs`, as above, without the quorum argument;
* `Lists`: a guardian list is empty, the key list, or the key list less the removed keys. That
  removing key after key gives the last of these is `RemovedAreGone`, an induction over the number of keys;
* the fee vault in the handler of Solana is `FEE_VAULT` between transactions, although `update_fee_vault` leaves it for a moment;
* what is under way is one of the scripts' transactions (`Transactions`).

Along the way the lemma `TokenAnswerFails` proves why finding 5 is not a matter of bounds: the payout script for a token never
succeeds, whatever has been signed, because the hash it passes has one field less than the one the program computes.

### Model-checked only

`CollectableReachesQuorum`, `EveryRequestPaid` and `SolFlowPaid`: liveness under fairness, which is out of the prover's reach.
The properties of the runs that expect a violation are false and have no theorem.

## 5. Not modelled

* Message bridging, cross-chain calls and the largest handled nonce, which the
  repository's README describes and the program does not contain. The fees for
  them are stored and read by nobody.
* Error codes, events, logs, names and metadata of tokens.
* The guardian and relayer programs beyond what the README says of them.
* `solayer/fetch_guardian.ts`, which only reads; `solana/add_token.ts`, whose handler (nonce 66666) no other
  script uses; the helpers below `main` of `solayer/add_token.ts`, which nothing calls; the hashes for messages and calls in `utils.ts`.
* `f64` rounding of prices: `InstantWithinCap` sums dollars as the code cuts them, and nothing in the
  repository bounds what the cutting loses.

## 6. Plan

Done, in order of importance: `Guardians`, `Deployment`, `Bridge` with `BridgeTransfer`, `Relay` over
`Ed25519`, `Scripts` and `BridgeFaults`, each with proofs of its safety properties. Left:

1. Transfer fees of Token-2022 mints, and tokens with one mint on both chains.
2. A balance for each holder, beside the totals of `LedgerBalanced`: what a user of one deployment holds is what
   the logs say of that user. `BridgeImplementsTransfer` says it of the bridge as a whole.
3. A bound on what cutting dollar values loses in an epoch.
4. Guardians exchanged in `BridgeFaults` while calls are on their way, with what it does to undisturbed records.
