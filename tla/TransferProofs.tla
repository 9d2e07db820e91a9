--------------------------- MODULE TransferProofs ---------------------------
(***************************************************************************)
(* The bridge implements BridgeTransfer, under the refinement mapping      *)
(* given in Bridge.  A call is a Send, the payout of it the Deliver, and   *)
(* every other step changes no balance of a user.                          *)
(***************************************************************************)
EXTENDS BridgeProofs

Currency == Asset \cup {SOL}
SolanaFor(a) == IF a \in SolanaMint THEN a ELSE MintThere(a)
SolayerFor(a) == IF a \in SolayerMint THEN a ELSE MintThere(a)

\* What a call, or a payout, moves of an asset on either chain.
SolanaPart(x, a) == IF a = SOL THEN SP!SolOf(x) ELSE SP!TokensOf(x, SolanaFor(a))
SolayerPart(x, a) == IF a = SOL THEN LP!SolOf(x) ELSE LP!TokensOf(x, SolayerFor(a))

\* Every asset has one mint on either chain.
LEMMA AssetMints ==
    \A a \in Asset : /\ a # SOL /\ SolanaFor(a) \in SP!Mint /\ SolayerFor(a) \in LP!Mint
                     /\ SolayerFor(a) = MintThere(SolanaFor(a))
                     /\ SolanaFor(a) = MintThere(SolayerFor(a))
                     /\ SolanaFor(a) # SOL /\ SolayerFor(a) # SOL
<1>1. \A m \in Token : m # SOL
  BY MintFacts
<1>2. Asset = SolanaMint \cup SolayerMint /\ SolanaMint \cap SolayerMint = {}
  BY MintFacts
<1>3. \A a \in Asset : MintThere(a) \in Token /\ MintThere(MintThere(a)) = a /\ a \in Token
  BY MintFacts
<1>4. QED
  BY <1>1, <1>2, <1>3, MintSides DEF SolanaFor, SolayerFor

\* The balances of users on Solana, by asset.
LEMMA SolanaHeld ==
    ASSUME NEW tokens, NEW lamports, DOMAIN tokens = SP!Mint
    PROVE  \A u \in User, a \in Currency :
               HeldOn(tokens, lamports)[u][a] = IF a = SOL THEN lamports[u]
                                                ELSE tokens[SolanaFor(a)][u]
<1>1. \A a \in Asset : a # SOL /\ (a \in SP!Mint <=> a \in SolanaMint)
  BY AssetMints, MintSides, MintFacts
<1>2. ASSUME NEW u \in User, NEW a \in Currency
      PROVE  HeldOn(tokens, lamports)[u][a] = IF a = SOL THEN lamports[u]
                                              ELSE tokens[SolanaFor(a)][u]
  <2>1. HeldOn(tokens, lamports)[u][a] = HeldIn(tokens, lamports, u, a)
    BY DEF HeldOn, Currency
  <2>2. CASE a = SOL
    <3>1. SOL \notin DOMAIN tokens
      BY MintSides, MintFacts
    <3>2. QED
      BY <2>1, <2>2, <3>1 DEF HeldIn
  <2>3. CASE a \in Asset
    <3>1. HeldIn(tokens, lamports, u, a) = IF a \in DOMAIN tokens THEN tokens[a][u]
                                           ELSE tokens[MintThere(a)][u]
      BY <1>1, <2>3 DEF HeldIn
    <3>2. QED
      BY <1>1, <2>1, <2>3, <3>1 DEF SolanaFor
  <2>4. QED
    BY <2>2, <2>3 DEF Currency
<1>3. QED
  BY <1>2

\* A call on Solana and its payout on Solayer as a transfer.
LEMMA SolanaTransfer ==
    ASSUME NEW r \in SP!Request
    PROVE  /\ AsTransfer(r) \in Promise!Transfer
           /\ AsTransfer(r).from = "Solana" /\ AsTransfer(r).id = r.nonce
           /\ AsTransfer(r).sender = r.sender /\ AsTransfer(r).recipient = r.recipient
           /\ r.sender \in User /\ r.recipient \in User
           /\ \A a \in Currency :
                  /\ Promise!Value(AsTransfer(r))[a] = SolanaPart(r, a)
                  /\ Promise!Value(AsTransfer(r))[a] = SolayerPart(PayoutOf(r), a)
                  /\ Promise!Value(AsTransfer(r))[a] \in Nat
<1> DEFINE t == AsTransfer(r)
<1>1. r \in LoggedCall /\ r.tx[1] = "Solana" /\ r.mint \in SP!Mint \cup {SOL}
  BY RequestTypes
<1>2. /\ r.sender \in User /\ r.recipient \in User /\ r.amount \in Nat /\ r.gas \in Nat
      /\ r.nonce \in Nat
      /\ \/ r.kind = "token" /\ r.mint \in Token
         \/ r.kind = "sol" /\ r.mint = SOL /\ r.gas = 0
  BY <1>1 DEF LoggedCall
<1>3. /\ Home(SOL) = SOL
      /\ \A m \in SP!Mint : /\ Home(m) \in Asset /\ m # SOL
                            /\ \A a \in Asset : Home(m) = a <=> m = SolanaFor(a)
  <2>1. Home(SOL) = SOL
    BY DEF Home
  <2>2. ASSUME NEW m \in SP!Mint
        PROVE  Home(m) \in Asset /\ m # SOL /\ \A a \in Asset : Home(m) = a <=> m = SolanaFor(a)
    <3>1. m \in Token /\ m # SOL
      BY MintSides, MintFacts
    <3>2. CASE m \in Asset
      <4>1. m \in SolanaMint /\ Home(m) = m
        BY <3>2, MintSides DEF Home
      <4>2. \A a \in Asset : a \notin SolanaMint => MintThere(a) \notin Asset
        BY MintFacts
      <4>3. QED
        BY <3>1, <3>2, <4>1, <4>2 DEF SolanaFor
    <3>3. CASE m \notin Asset
      <4>1. Home(m) = MintThere(m) /\ MintThere(m) \in Asset /\ MintThere(MintThere(m)) = m
        BY <3>1, <3>3, MintFacts DEF Home
      <4>2. \A a \in Asset : MintThere(a) = m <=> a = MintThere(m)
        BY <4>1, MintFacts
      <4>3. MintThere(m) \notin SolanaMint
        <5>1. m # MintThere(MintThere(m)) \/ MintThere(m) \notin SolanaMint
          BY <3>1, <3>3, MintSides, MintsMatch, MintFacts
        <5>2. QED
          BY <4>1, <5>1
      <4>4. SolanaMint \subseteq Asset
        BY MintFacts
      <4>5. QED
        BY <3>1, <3>3, <4>1, <4>2, <4>3, <4>4 DEF SolanaFor
    <3>4. QED
      BY <3>2, <3>3
  <2>3. QED
    BY <2>1, <2>2
<1>4. /\ t.from = "Solana" /\ t.id = r.nonce /\ t.sender = r.sender /\ t.recipient = r.recipient
      /\ t.asset = Home(r.mint) /\ t.amount = r.amount /\ t.gas = r.gas
      /\ t = [from |-> "Solana", id |-> r.nonce, sender |-> r.sender, recipient |-> r.recipient,
              asset |-> Home(r.mint), amount |-> r.amount, gas |-> r.gas]
  BY <1>1 DEF AsTransfer
<1>5. t \in Promise!Transfer
  BY <1>1, <1>2, <1>3, <1>4 DEF Promise!Transfer, Promise!Chain, Promise!Currency
<1> HIDE DEF t
<1>6. ASSUME NEW a \in Currency
      PROVE  /\ Promise!Value(t)[a] = SolanaPart(r, a) /\ Promise!Value(t)[a] \in Nat
             /\ SolayerPart(PayoutOf(r), a) = SolanaPart(r, a)
  <2>1. Promise!Value(t)[a] = (IF a = Home(r.mint) THEN r.amount ELSE 0)
                                  + (IF a = SOL THEN r.gas ELSE 0)
    BY <1>4 DEF Promise!Value, Promise!Currency, Currency
  <2>2. CASE a = SOL
    <3>1. SolanaPart(r, a) = SP!SolOf(r) /\ SolayerPart(PayoutOf(r), a) = SP!SolOf(r)
      BY <2>2 DEF SolanaPart, SolayerPart, PayoutOf, SP!SolOf, LP!SolOf
    <3>2. CASE r.kind = "sol"
      <4>1. SP!SolOf(r) = r.amount /\ Home(r.mint) = SOL /\ r.gas = 0
        BY <1>2, <1>3, <3>2 DEF SP!SolOf
      <4>2. QED
        BY <1>2, <2>1, <2>2, <3>1, <4>1
    <3>3. CASE r.kind = "token"
      <4>1. SP!SolOf(r) = r.gas /\ Home(r.mint) # SOL
        <5>1. r.mint # SOL
          BY <1>2, <3>3, MintFacts
        <5>2. Home(r.mint) \in Asset
          BY <1>1, <1>3, <5>1
        <5>3. QED
          BY <3>3, <5>2, AssetMints DEF SP!SolOf
      <4>2. QED
        BY <1>2, <2>1, <2>2, <3>1, <4>1
    <3>4. QED
      BY <1>2, <3>2, <3>3
  <2>3. CASE a \in Asset
    <3>1. a # SOL /\ SolanaFor(a) # SOL /\ SolayerFor(a) = MintThere(SolanaFor(a))
      BY <2>3, AssetMints
    <3>2. a = Home(r.mint) <=> r.mint = SolanaFor(a)
      BY <1>1, <1>3, <2>3, <3>1
    <3>3. MintThere(r.mint) = SolayerFor(a) <=> r.mint = SolanaFor(a)
      <4>1. MintThere(MintThere(r.mint)) = r.mint
        BY <1>2, MintFacts
      <4>2. SolanaFor(a) \in Token
        BY <2>3, AssetMints, MintSides
      <4>3. QED
        BY <3>1, <4>1, <4>2, MintFacts
    <3>4. /\ SolanaPart(r, a) = IF r.mint = SolanaFor(a) THEN r.amount ELSE 0
          /\ SolayerPart(PayoutOf(r), a) = IF MintThere(r.mint) = SolayerFor(a) THEN r.amount ELSE 0
      BY <3>1 DEF SolanaPart, SolayerPart, PayoutOf, SP!TokensOf, LP!TokensOf
    <3>5. Promise!Value(t)[a] = IF a = Home(r.mint) THEN r.amount ELSE 0
      BY <1>2, <2>1, <3>1
    <3>6. QED
      BY <1>2, <3>2, <3>3, <3>4, <3>5
  <2>4. QED
    BY <2>2, <2>3 DEF Currency
<1>7. QED
  BY <1>2, <1>4, <1>5, <1>6 DEF t

\* The balances of users on Solayer, by asset.
LEMMA SolayerHeld ==
    ASSUME NEW tokens, NEW lamports, DOMAIN tokens = LP!Mint
    PROVE  \A u \in User, a \in Currency :
               HeldOn(tokens, lamports)[u][a] = IF a = SOL THEN lamports[u]
                                                ELSE tokens[SolayerFor(a)][u]
<1>1. \A a \in Asset : a # SOL /\ (a \in LP!Mint <=> a \in SolayerMint)
  BY AssetMints, MintSides, MintFacts
<1>2. ASSUME NEW u \in User, NEW a \in Currency
      PROVE  HeldOn(tokens, lamports)[u][a] = IF a = SOL THEN lamports[u]
                                              ELSE tokens[SolayerFor(a)][u]
  <2>1. HeldOn(tokens, lamports)[u][a] = HeldIn(tokens, lamports, u, a)
    BY DEF HeldOn, Currency
  <2>2. CASE a = SOL
    <3>1. SOL \notin DOMAIN tokens
      BY MintSides, MintFacts
    <3>2. QED
      BY <2>1, <2>2, <3>1 DEF HeldIn
  <2>3. CASE a \in Asset
    <3>1. HeldIn(tokens, lamports, u, a) = IF a \in DOMAIN tokens THEN tokens[a][u]
                                           ELSE tokens[MintThere(a)][u]
      BY <1>1, <2>3 DEF HeldIn
    <3>2. QED
      BY <1>1, <2>1, <2>3, <3>1 DEF SolayerFor
  <2>4. QED
    BY <2>2, <2>3 DEF Currency
<1>3. QED
  BY <1>2

\* A call on Solayer and its payout on Solana as a transfer.
LEMMA SolayerTransfer ==
    ASSUME NEW r \in LP!Request
    PROVE  /\ AsTransfer(r) \in Promise!Transfer
           /\ AsTransfer(r).from = "Solayer" /\ AsTransfer(r).id = r.nonce
           /\ AsTransfer(r).sender = r.sender /\ AsTransfer(r).recipient = r.recipient
           /\ r.sender \in User /\ r.recipient \in User
           /\ \A a \in Currency :
                  /\ Promise!Value(AsTransfer(r))[a] = SolayerPart(r, a)
                  /\ Promise!Value(AsTransfer(r))[a] = SolanaPart(PayoutOf(r), a)
                  /\ Promise!Value(AsTransfer(r))[a] \in Nat
<1> DEFINE t == AsTransfer(r)
<1>1. r \in LoggedCall /\ r.tx[1] = "Solayer" /\ r.mint \in LP!Mint \cup {SOL}
  BY RequestTypes
<1>2. /\ r.sender \in User /\ r.recipient \in User /\ r.amount \in Nat /\ r.gas \in Nat
      /\ r.nonce \in Nat
      /\ \/ r.kind = "token" /\ r.mint \in Token
         \/ r.kind = "sol" /\ r.mint = SOL /\ r.gas = 0
  BY <1>1 DEF LoggedCall
<1>3. /\ Home(SOL) = SOL
      /\ \A m \in LP!Mint : /\ Home(m) \in Asset /\ m # SOL
                            /\ \A a \in Asset : Home(m) = a <=> m = SolayerFor(a)
  <2>1. Home(SOL) = SOL
    BY DEF Home
  <2>2. ASSUME NEW m \in LP!Mint
        PROVE  Home(m) \in Asset /\ m # SOL /\ \A a \in Asset : Home(m) = a <=> m = SolayerFor(a)
    <3>1. m \in Token /\ m # SOL
      BY MintSides, MintFacts
    <3>2. CASE m \in Asset
      <4>1. m \in SolayerMint /\ Home(m) = m
        BY <3>2, MintSides DEF Home
      <4>2. \A a \in Asset : a \notin SolayerMint => MintThere(a) \notin Asset
        BY MintFacts
      <4>3. QED
        BY <3>1, <3>2, <4>1, <4>2 DEF SolayerFor
    <3>3. CASE m \notin Asset
      <4>1. Home(m) = MintThere(m) /\ MintThere(m) \in Asset /\ MintThere(MintThere(m)) = m
        BY <3>1, <3>3, MintFacts DEF Home
      <4>2. \A a \in Asset : MintThere(a) = m <=> a = MintThere(m)
        BY <4>1, MintFacts
      <4>3. MintThere(m) \notin SolayerMint
        <5>1. m # MintThere(MintThere(m)) \/ MintThere(m) \notin SolayerMint
          BY <3>1, <3>3, MintSides, MintsMatch, MintFacts
        <5>2. QED
          BY <4>1, <5>1
      <4>4. SolayerMint \subseteq Asset
        BY MintFacts
      <4>5. QED
        BY <3>1, <3>3, <4>1, <4>2, <4>3, <4>4 DEF SolayerFor
    <3>4. QED
      BY <3>2, <3>3
  <2>3. QED
    BY <2>1, <2>2
<1>4. /\ t.from = "Solayer" /\ t.id = r.nonce /\ t.sender = r.sender /\ t.recipient = r.recipient
      /\ t.asset = Home(r.mint) /\ t.amount = r.amount /\ t.gas = r.gas
      /\ t = [from |-> "Solayer", id |-> r.nonce, sender |-> r.sender, recipient |-> r.recipient,
              asset |-> Home(r.mint), amount |-> r.amount, gas |-> r.gas]
  BY <1>1 DEF AsTransfer
<1>5. t \in Promise!Transfer
  BY <1>1, <1>2, <1>3, <1>4 DEF Promise!Transfer, Promise!Chain, Promise!Currency
<1> HIDE DEF t
<1>6. ASSUME NEW a \in Currency
      PROVE  /\ Promise!Value(t)[a] = SolayerPart(r, a) /\ Promise!Value(t)[a] \in Nat
             /\ SolanaPart(PayoutOf(r), a) = SolayerPart(r, a)
  <2>1. Promise!Value(t)[a] = (IF a = Home(r.mint) THEN r.amount ELSE 0)
                                  + (IF a = SOL THEN r.gas ELSE 0)
    BY <1>4 DEF Promise!Value, Promise!Currency, Currency
  <2>2. CASE a = SOL
    <3>1. SolayerPart(r, a) = LP!SolOf(r) /\ SolanaPart(PayoutOf(r), a) = LP!SolOf(r)
      BY <2>2 DEF SolayerPart, SolanaPart, PayoutOf, SP!SolOf, LP!SolOf
    <3>2. CASE r.kind = "sol"
      <4>1. LP!SolOf(r) = r.amount /\ Home(r.mint) = SOL /\ r.gas = 0
        BY <1>2, <1>3, <3>2 DEF LP!SolOf
      <4>2. QED
        BY <1>2, <2>1, <2>2, <3>1, <4>1
    <3>3. CASE r.kind = "token"
      <4>1. LP!SolOf(r) = r.gas /\ Home(r.mint) # SOL
        <5>1. r.mint # SOL
          BY <1>2, <3>3, MintFacts
        <5>2. Home(r.mint) \in Asset
          BY <1>1, <1>3, <5>1
        <5>3. QED
          BY <3>3, <5>2, AssetMints DEF LP!SolOf
      <4>2. QED
        BY <1>2, <2>1, <2>2, <3>1, <4>1
    <3>4. QED
      BY <1>2, <3>2, <3>3
  <2>3. CASE a \in Asset
    <3>1. a # SOL /\ SolayerFor(a) # SOL /\ SolanaFor(a) = MintThere(SolayerFor(a))
      BY <2>3, AssetMints
    <3>2. a = Home(r.mint) <=> r.mint = SolayerFor(a)
      BY <1>1, <1>3, <2>3, <3>1
    <3>3. MintThere(r.mint) = SolanaFor(a) <=> r.mint = SolayerFor(a)
      <4>1. MintThere(MintThere(r.mint)) = r.mint
        BY <1>2, MintFacts
      <4>2. SolayerFor(a) \in Token
        BY <2>3, AssetMints, MintSides
      <4>3. QED
        BY <3>1, <4>1, <4>2, MintFacts
    <3>4. /\ SolayerPart(r, a) = IF r.mint = SolayerFor(a) THEN r.amount ELSE 0
          /\ SolanaPart(PayoutOf(r), a) = IF MintThere(r.mint) = SolanaFor(a) THEN r.amount ELSE 0
      BY <3>1 DEF SolayerPart, SolanaPart, PayoutOf, SP!TokensOf, LP!TokensOf
    <3>5. Promise!Value(t)[a] = IF a = Home(r.mint) THEN r.amount ELSE 0
      BY <1>2, <2>1, <3>1
    <3>6. QED
      BY <1>2, <3>2, <3>3, <3>4, <3>5
  <2>4. QED
    BY <2>2, <2>3 DEF Currency
<1>7. QED
  BY <1>2, <1>4, <1>5, <1>6 DEF t

\* Chains a transfer is from, and the balances as they are mapped.
Chains == {"Solana", "Solayer"}
Other(c) == IF c = "Solana" THEN "Solayer" ELSE "Solana"

HoldingOf(sol_held, sol_sol, lay_held, lay_sol) ==
    [c \in {"Solana", "Solayer"} |-> IF c = "Solana" THEN HeldOn(sol_held, sol_sol)
                                                     ELSE HeldOn(lay_held, lay_sol)]
\* H maps the balances of both chains.
Maps(H, sol_held, sol_sol, lay_held, lay_sol) ==
    /\ H \in [Chains -> [User -> [Currency -> Nat]]]
    /\ \A u \in User :
           /\ \A a \in Asset : /\ H["Solana"][u][a] = sol_held[SolanaFor(a)][u]
                               /\ H["Solayer"][u][a] = lay_held[SolayerFor(a)][u]
           /\ H["Solana"][u][SOL] = sol_sol[u]
           /\ H["Solayer"][u][SOL] = lay_sol[u]

\* The refinement mapping, balance by balance.
LEMMA HoldingMaps ==
    ASSUME NEW A, NEW B, NEW V,
           NEW sol_held \in [SP!Mint -> [User \cup V -> Nat]],
           NEW sol_sol \in [User \cup A -> Nat],
           NEW lay_held \in [LP!Mint -> [User \cup V -> Nat]],
           NEW lay_sol \in [User \cup B -> Nat]
    PROVE  Maps(HoldingOf(sol_held, sol_sol, lay_held, lay_sol),
                sol_held, sol_sol, lay_held, lay_sol)
<1> DEFINE H == HoldingOf(sol_held, sol_sol, lay_held, lay_sol)
<1>1. /\ H["Solana"] = HeldOn(sol_held, sol_sol)
      /\ H["Solayer"] = HeldOn(lay_held, lay_sol)
      /\ H = [c \in Chains |-> H[c]]
  BY DEF HoldingOf, Chains
<1>2. \A tokens, lamports :
          HeldOn(tokens, lamports) = [u \in User |-> [a \in Currency |->
                                          HeldOn(tokens, lamports)[u][a]]]
  BY DEF HeldOn, Currency
<1>3. /\ DOMAIN sol_held = SP!Mint /\ DOMAIN lay_held = LP!Mint
      /\ \A m \in SP!Mint, u \in User : sol_held[m][u] \in Nat
      /\ \A m \in LP!Mint, u \in User : lay_held[m][u] \in Nat
      /\ \A u \in User : sol_sol[u] \in Nat /\ lay_sol[u] \in Nat
  OBVIOUS
<1>4. \A u \in User, a \in Currency :
          /\ H["Solana"][u][a] = IF a = SOL THEN sol_sol[u] ELSE sol_held[SolanaFor(a)][u]
          /\ H["Solayer"][u][a] = IF a = SOL THEN lay_sol[u] ELSE lay_held[SolayerFor(a)][u]
  BY <1>1, <1>3, SolanaHeld, SolayerHeld
<1>5. \A u \in User, a \in Currency : H["Solana"][u][a] \in Nat /\ H["Solayer"][u][a] \in Nat
  BY <1>3, <1>4, AssetMints DEF Currency
<1>6. /\ H["Solana"] \in [User -> [Currency -> Nat]]
      /\ H["Solayer"] \in [User -> [Currency -> Nat]]
  BY <1>1, <1>2, <1>5
<1>7. H \in [Chains -> [User -> [Currency -> Nat]]]
  BY <1>1, <1>6 DEF Chains
<1>8. \A a \in Asset : a \in Currency /\ a # SOL
  BY AssetMints DEF Currency
<1>9. SOL \in Currency
  BY DEF Currency
<1> HIDE DEF H
<1>10. Maps(H, sol_held, sol_sol, lay_held, lay_sol)
  BY <1>4, <1>7, <1>8, <1>9 DEF Maps
<1>11. QED
  BY <1>10 DEF H

\* The refinement mapping is defined wherever the invariant holds, before and after.
LEMMA HoldingType ==
    /\ Programs => Maps(Holding, sol_tokens, sol_lamports, lay_tokens, lay_lamports)
    /\ Programs' => Maps(Holding', sol_tokens', sol_lamports', lay_tokens', lay_lamports')
<1>1. /\ Holding = HoldingOf(sol_tokens, sol_lamports, lay_tokens, lay_lamports)
      /\ Holding' = HoldingOf(sol_tokens', sol_lamports', lay_tokens', lay_lamports')
  BY DEF Holding, HoldingOf, HeldOn, HeldIn
<1> DEFINE A == FeeVault \cup {SP!HANDLER}
           B == FeeVault \cup {LP!HANDLER}
           V == {SP!VAULT}
<1>2. LP!VAULT = SP!VAULT
  BY DEF LP!VAULT, SP!VAULT
<1>3. ASSUME Programs
      PROVE  /\ sol_tokens \in [SP!Mint -> [User \cup V -> Nat]]
             /\ sol_lamports \in [User \cup A -> Nat]
             /\ lay_tokens \in [LP!Mint -> [User \cup V -> Nat]]
             /\ lay_lamports \in [User \cup B -> Nat]
  <2>1. User \cup FeeVault \cup {SP!HANDLER} = User \cup A
        /\ User \cup FeeVault \cup {LP!HANDLER} = User \cup B
    OBVIOUS
  <2>2. QED
    BY <1>2, <1>3, <2>1 DEF Programs, SP!DInv, SP!ProgramTypeOK, SP!BalancesTypeOK,
                            LP!DInv, LP!ProgramTypeOK, LP!BalancesTypeOK
<1>4. ASSUME Programs'
      PROVE  /\ sol_tokens' \in [SP!Mint -> [User \cup V -> Nat]]
             /\ sol_lamports' \in [User \cup A -> Nat]
             /\ lay_tokens' \in [LP!Mint -> [User \cup V -> Nat]]
             /\ lay_lamports' \in [User \cup B -> Nat]
  <2>1. User \cup FeeVault \cup {SP!HANDLER} = User \cup A
        /\ User \cup FeeVault \cup {LP!HANDLER} = User \cup B
    OBVIOUS
  <2>2. QED
    BY <1>2, <1>4, <2>1 DEF Programs, SP!DInv, SP!ProgramTypeOK, SP!BalancesTypeOK,
                            LP!DInv, LP!ProgramTypeOK, LP!BalancesTypeOK
<1> HIDE DEF A, B, V
<1>5. QED
  BY <1>1, <1>3, <1>4, HoldingMaps

\* One balance sheet of one user on one chain is exchanged for another.
LEMMA OneHolderChanges ==
    ASSUME NEW f \in Chains, NEW s \in User, NEW C, NEW N,
           NEW H \in [Chains -> [User -> [C -> N]]], NEW K \in [Chains -> [User -> [C -> N]]],
           NEW new, new = [a \in C |-> new[a]],
           \A c \in Chains, u \in User, a \in C :
               K[c][u][a] = IF c = f /\ u = s THEN new[a] ELSE H[c][u][a]
    PROVE  K = [H EXCEPT ![f][s] = new]
<1>1. \A c \in Chains, u \in User : K[c][u] = IF c = f /\ u = s THEN new ELSE H[c][u]
  <2>1. SUFFICES ASSUME NEW c \in Chains, NEW u \in User
                 PROVE  K[c][u] = IF c = f /\ u = s THEN new ELSE H[c][u]
    OBVIOUS
  <2>2. K[c][u] = [a \in C |-> K[c][u][a]] /\ H[c][u] = [a \in C |-> H[c][u][a]]
    OBVIOUS
  <2>3. CASE c = f /\ u = s
    <3>1. K[c][u] = [a \in C |-> new[a]]
      BY <2>2, <2>3
    <3>2. QED
      BY <2>3, <3>1
  <2>4. CASE ~ (c = f /\ u = s)
    <3>1. K[c][u] = [a \in C |-> H[c][u][a]]
      BY <2>2, <2>4
    <3>2. QED
      BY <2>2, <2>4, <3>1
  <2>5. QED
    BY <2>3, <2>4
<1>2. K[f] = [H[f] EXCEPT ![s] = new]
  BY <1>1
<1>3. \A c \in Chains : K[c] = IF c = f THEN [H[f] EXCEPT ![s] = new] ELSE H[c]
  <2>1. SUFFICES ASSUME NEW c \in Chains, c # f PROVE K[c] = H[c]
    BY <1>2
  <2>2. QED
    BY <1>1, <2>1
<1>4. QED
  BY <1>3

\* Transfers under way are told apart by chain and nonce.
LEMMA TransfersDistinct ==
    ASSUME Programs
    PROVE  /\ \A x, y \in InTransit :
                  AsTransfer(x).from = AsTransfer(y).from /\ AsTransfer(x).id = AsTransfer(y).id
                      => x = y
           /\ \A x \in InTransit :
                  /\ AsTransfer(x).from = "Solana" => AsTransfer(x).id < Len(sol_requests)
                  /\ AsTransfer(x).from = "Solayer" => AsTransfer(x).id < Len(lay_requests)
<1>1. \A r : AsTransfer(r).from = r.tx[1] /\ AsTransfer(r).id = r.nonce
  BY DEF AsTransfer
<1>2. /\ \A r \in ToSolayer : r \in ToSet(sol_requests) /\ r.tx[1] = "Solana"
      /\ \A r \in ToSolana : r \in ToSet(lay_requests) /\ r.tx[1] = "Solayer"
  <2>1. ToSolayer \subseteq ToSet(sol_requests) /\ ToSolana \subseteq ToSet(lay_requests)
    BY UndeliveredMembers DEF ToSolayer, ToSolana
  <2>2. QED
    BY <2>1, TransitType, RequestTypes
<1>3. /\ \A x, y \in ToSet(sol_requests) : x.nonce = y.nonce => x = y
      /\ \A x, y \in ToSet(lay_requests) : x.nonce = y.nonce => x = y
  BY LogsNumbered DEF Numbered, ToSet
<1>4. /\ \A x \in ToSet(sol_requests) : x.nonce < Len(sol_requests)
      /\ \A x \in ToSet(lay_requests) : x.nonce < Len(lay_requests)
  BY LogsNumbered DEF Numbered, ToSet
<1>5. QED
  BY <1>1, <1>2, <1>3, <1>4 DEF InTransit

\* What a call on Solana takes from a user: its value, and the fee.
LEMMA SolanaSend ==
    ASSUME Programs, Programs', NEW r, NEW fee, SolanaCalled(r, fee)
    PROVE  \E t \in Transit' \ Transit :
               \E n \in 0..Holding[t.from][t.sender][SOL] : Promise!Send(t, n)
<1> DEFINE t == AsTransfer(r)
           old == Holding["Solana"][r.sender]
           rest == [a \in Currency |->
                       old[a] - Promise!Value(t)[a] - Promise!Fee(fee)[a]]
<1>1. /\ r \in SP!Request /\ fee \in Nat /\ SP!Called(r, fee)
      /\ UNCHANGED <<lay_tokens, lay_lamports>>
  BY DEF SolanaCalled, SP!Called, LP!Idle
<1>2. /\ t \in Promise!Transfer /\ t.from = "Solana" /\ t.sender = r.sender /\ r.sender \in User
      /\ \A a \in Currency : Promise!Value(t)[a] = SolanaPart(r, a) /\ Promise!Value(t)[a] \in Nat
  BY <1>1, SolanaTransfer
<1>3. InTransit' = InTransit \cup {r} /\ r \notin InTransit
  BY SolanaCallInTransit
<1>4. /\ \A s \in Transit : s.from = t.from => s.id # t.id
      /\ Transit' = Transit \cup {t}
  <2>1. t.id = r.nonce /\ r.nonce = sol_handler.nonce
    BY <1>1, SolanaTransfer DEF SP!Called
  <2>2. \A x \in InTransit : AsTransfer(x).from = t.from => AsTransfer(x).id # t.id
    <3>1. sol_handler.nonce = Len(sol_requests) /\ Len(sol_requests) \in Nat
      BY LogTypes DEF Programs, SP!DInv, SP!NoncesCount
    <3>2. QED
      BY <1>2, <2>1, <3>1, TransfersDistinct
  <2>3. Transit = {AsTransfer(x) : x \in InTransit} /\ Transit' = {AsTransfer(x) : x \in InTransit'}
    BY DEF Transit, InTransit
  <2>4. QED
    BY <1>3, <2>2, <2>3
<1>5. t \in Transit' \ Transit
  BY <1>4
<1>6. /\ Holding \in [Chains -> [User -> [Currency -> Nat]]]
      /\ Holding' \in [Chains -> [User -> [Currency -> Nat]]]
      /\ \A u \in User :
             /\ \A a \in Asset :
                    /\ Holding["Solana"][u][a] = sol_tokens[SolanaFor(a)][u]
                    /\ Holding["Solayer"][u][a] = lay_tokens[SolayerFor(a)][u]
                    /\ Holding'["Solana"][u][a] = sol_tokens'[SolanaFor(a)][u]
                    /\ Holding'["Solayer"][u][a] = lay_tokens'[SolayerFor(a)][u]
             /\ Holding["Solana"][u][SOL] = sol_lamports[u]
             /\ Holding["Solayer"][u][SOL] = lay_lamports[u]
             /\ Holding'["Solana"][u][SOL] = sol_lamports'[u]
             /\ Holding'["Solayer"][u][SOL] = lay_lamports'[u]
  <2>1. /\ Maps(Holding, sol_tokens, sol_lamports, lay_tokens, lay_lamports)
        /\ Maps(Holding', sol_tokens', sol_lamports', lay_tokens', lay_lamports')
    BY HoldingType
  <2>2. QED
    BY <2>1 DEF Maps
<1>7. /\ sol_handler.fee_vault \in FeeVault
      /\ User \cap FeeVault = {} /\ SP!VAULT \notin User /\ SP!HANDLER \notin User
  BY SolanaAssumptions DEF Programs, SP!DInv, SP!ProgramTypeOK, SP!HandlerTypeOK, SP!BridgeHandler,
                        SP!KeyAssumption
<1>8. /\ \A a \in Currency : Promise!Value(t)[a] = SolanaPart(r, a) /\ SolanaPart(r, a) \in Nat
      /\ \A a \in Currency : Promise!Fee(fee)[a] = IF a = SOL THEN fee ELSE 0
      /\ SOL \in Currency /\ Asset \subseteq Currency
  BY <1>2 DEF Promise!Fee, Promise!Currency, Currency
<1>9. \A a \in Currency :
          /\ old[a] \in Nat
          /\ old[a] >= SolanaPart(r, a) + (IF a = SOL THEN fee ELSE 0)
  <2>1. sol_lamports[r.sender] >= fee + SolanaPart(r, SOL)
    BY <1>1 DEF SP!Called, SolanaPart
  <2>2. \A a \in Asset : sol_tokens[SolanaFor(a)][r.sender] >= SolanaPart(r, a)
    BY <1>1, AssetMints DEF SP!Called, SolanaPart
  <2>3. /\ old[SOL] >= fee + SolanaPart(r, SOL)
        /\ \A a \in Asset : old[a] >= SolanaPart(r, a) /\ a # SOL
    BY <1>2, <1>6, <2>1, <2>2, AssetMints
  <2>4. \A a \in Currency : old[a] \in Nat
    BY <1>2, <1>6 DEF Chains
  <2>5. SUFFICES ASSUME NEW a \in Currency
                 PROVE  old[a] >= SolanaPart(r, a) + (IF a = SOL THEN fee ELSE 0)
    BY <2>4
  <2>6. CASE a = SOL
    BY <1>1, <1>8, <2>3, <2>4, <2>6
  <2>7. CASE a \in Asset
    BY <1>8, <2>3, <2>4, <2>7
  <2>8. QED
    BY <2>6, <2>7 DEF Currency
<1>10. ASSUME NEW u \in User, NEW a \in Currency
       PROVE  /\ Holding'["Solana"][u][a] =
                     IF u = r.sender
                     THEN old[a] - Promise!Value(t)[a] - Promise!Fee(fee)[a]
                     ELSE Holding["Solana"][u][a]
              /\ Holding'["Solayer"][u][a] = Holding["Solayer"][u][a]
  <2>1. Holding'["Solayer"][u][a] = Holding["Solayer"][u][a]
    BY <1>1, <1>6 DEF Currency
  <2>2. u # sol_handler.fee_vault /\ u # SP!HANDLER /\ u # SP!VAULT
    BY <1>7
  <2>3. CASE a = SOL
    <3>1. sol_lamports'[u] =
              sol_lamports[u] - (IF u = r.sender THEN fee + SolanaPart(r, SOL) ELSE 0)
                                 + 0 + 0
      BY <1>1, <2>2 DEF SP!Called, SP!SolHolder, SolanaPart
    <3>2. sol_lamports[u] \in Nat /\ Holding["Solana"][u][a] = sol_lamports[u]
          /\ Holding'["Solana"][u][a] = sol_lamports'[u]
      BY <1>6, <2>3 DEF Chains
    <3>3. /\ Promise!Value(t)[a] = SolanaPart(r, SOL) /\ SolanaPart(r, SOL) \in Nat
          /\ Promise!Fee(fee)[a] = fee
      BY <1>8, <2>3
    <3>4. Holding'["Solana"][u][a] = IF u = r.sender
              THEN Holding["Solana"][u][a] - SolanaPart(r, SOL) - fee
              ELSE Holding["Solana"][u][a]
      BY <1>1, <3>1, <3>2, <3>3
    <3>5. QED
      BY <2>1, <3>3, <3>4
  <2>4. CASE a \in Asset
    <3>1. sol_tokens'[SolanaFor(a)][u] =
              sol_tokens[SolanaFor(a)][u] - (IF u = r.sender THEN SolanaPart(r, a) ELSE 0) + 0
      BY <1>1, <2>2, <2>4, AssetMints DEF SP!Called, SP!TokenHolder, SolanaPart
    <3>2. /\ sol_tokens[SolanaFor(a)][u] \in Nat
          /\ Holding["Solana"][u][a] = sol_tokens[SolanaFor(a)][u]
          /\ Holding'["Solana"][u][a] = sol_tokens'[SolanaFor(a)][u]
      BY <1>6, <2>4 DEF Chains
    <3>3. /\ Promise!Value(t)[a] = SolanaPart(r, a) /\ SolanaPart(r, a) \in Nat
          /\ Promise!Fee(fee)[a] = 0
      BY <1>8, <2>4, AssetMints
    <3>4. Holding'["Solana"][u][a] = IF u = r.sender
              THEN Holding["Solana"][u][a] - SolanaPart(r, a) - 0 ELSE Holding["Solana"][u][a]
      BY <3>1, <3>2, <3>3
    <3>5. QED
      BY <2>1, <3>3, <3>4
  <2>5. QED
    BY <2>3, <2>4 DEF Currency
<1> HIDE DEF t
<1>11. \A a \in Currency : rest[a] >= 0
  <2>1. SUFFICES ASSUME NEW a \in Currency
                 PROVE  old[a] - Promise!Value(t)[a] - Promise!Fee(fee)[a] >= 0
    OBVIOUS
  <2> HIDE DEF old
  <2>2. QED
    BY <1>1, <1>8, <1>9
<1>12. Holding' = [Holding EXCEPT !["Solana"][r.sender] = rest]
  <2>1. \A c \in Chains, u \in User, a \in Currency :
            Holding'[c][u][a] = IF c = "Solana" /\ u = r.sender THEN rest[a] ELSE Holding[c][u][a]
    BY <1>10 DEF Chains
  <2>2. rest = [a \in Currency |-> rest[a]]
    OBVIOUS
  <2> HIDE DEF rest
  <2>3. "Solana" \in Chains
    BY DEF Chains
  <2>4. QED
    BY <1>2, <1>6, <2>1, <2>2, <2>3, OneHolderChanges
<1>13. fee \in 0..Holding[t.from][t.sender][SOL]
  <2>1. old[SOL] \in Nat /\ old[SOL] >= SolanaPart(r, SOL) + fee /\ SolanaPart(r, SOL) \in Nat
    BY <1>8, <1>9
  <2>2. Holding[t.from][t.sender] = old
    BY <1>2
  <2> HIDE DEF old
  <2>3. QED
    BY <1>1, <2>1, <2>2
<1>14. Promise!Send(t, fee)
  <2>1. rest = [a \in Promise!Currency |->
                    Holding[t.from][t.sender][a] - Promise!Value(t)[a] - Promise!Fee(fee)[a]]
    BY <1>2 DEF Currency, Promise!Currency
  <2> HIDE DEF rest
  <2>2. QED
    BY <1>2, <1>4, <1>11, <1>12, <2>1 DEF Promise!Send, Currency, Promise!Currency
<1>15. QED
  BY <1>5, <1>13, <1>14

\* What a payout on Solana gives a user: the value of the call on Solayer.
LEMMA SolanaDeliver ==
    ASSUME Programs, Programs', NEW r, SolanaPaid(r)
    PROVE  \E t \in Transit : Promise!Deliver(t)
<1> DEFINE t == AsTransfer(r)
           old == Holding["Solana"][r.recipient]
           gained == [a \in Currency |-> old[a] + Promise!Value(t)[a]]
<1>1. SP!Paid(PayoutOf(r)) /\ UNCHANGED <<lay_tokens, lay_lamports>>
  BY DEF SolanaPaid, LP!Idle
<1>2. r \in LP!Request /\ InTransit' = InTransit \ {r} /\ r \in InTransit
  BY SolanaPayoutInTransit
<1>3. /\ t \in Promise!Transfer /\ t.from = "Solayer" /\ t.recipient = r.recipient
      /\ r.recipient \in User
      /\ \A a \in Currency : /\ Promise!Value(t)[a] = SolanaPart(PayoutOf(r), a)
                             /\ Promise!Value(t)[a] \in Nat
  BY <1>2, SolayerTransfer
<1>4. t \in Transit /\ Transit' = Transit \ {t}
  <2>1. \A x \in InTransit : AsTransfer(x) = t => x = r
    BY <1>2, TransfersDistinct
  <2>2. Transit = {AsTransfer(x) : x \in InTransit} /\ Transit' = {AsTransfer(x) : x \in InTransit'}
    BY DEF Transit, InTransit
  <2>3. QED
    BY <1>2, <2>1, <2>2
<1>5. /\ Holding \in [Chains -> [User -> [Currency -> Nat]]]
      /\ Holding' \in [Chains -> [User -> [Currency -> Nat]]]
      /\ \A u \in User :
             /\ \A a \in Asset :
                    /\ Holding["Solana"][u][a] = sol_tokens[SolanaFor(a)][u]
                    /\ Holding["Solayer"][u][a] = lay_tokens[SolayerFor(a)][u]
                    /\ Holding'["Solana"][u][a] = sol_tokens'[SolanaFor(a)][u]
                    /\ Holding'["Solayer"][u][a] = lay_tokens'[SolayerFor(a)][u]
             /\ Holding["Solana"][u][SOL] = sol_lamports[u]
             /\ Holding["Solayer"][u][SOL] = lay_lamports[u]
             /\ Holding'["Solana"][u][SOL] = sol_lamports'[u]
             /\ Holding'["Solayer"][u][SOL] = lay_lamports'[u]
  <2>1. /\ Maps(Holding, sol_tokens, sol_lamports, lay_tokens, lay_lamports)
        /\ Maps(Holding', sol_tokens', sol_lamports', lay_tokens', lay_lamports')
    BY HoldingType
  <2>2. QED
    BY <2>1 DEF Maps
<1>6. SP!VAULT \notin User /\ SP!HANDLER \notin User /\ PayoutOf(r).recipient = r.recipient
  BY SolanaAssumptions DEF SP!KeyAssumption, PayoutOf
<1>7. ASSUME NEW u \in User, NEW a \in Currency
      PROVE  /\ Holding'["Solana"][u][a] = IF u = r.recipient THEN old[a] + Promise!Value(t)[a]
                                                           ELSE Holding["Solana"][u][a]
             /\ Holding'["Solayer"][u][a] = Holding["Solayer"][u][a]
  <2>1. Holding'["Solayer"][u][a] = Holding["Solayer"][u][a]
    BY <1>1, <1>5 DEF Currency
  <2>2. u # SP!HANDLER /\ u # SP!VAULT
    BY <1>6
  <2>3. Promise!Value(t)[a] = SolanaPart(PayoutOf(r), a) /\ SolanaPart(PayoutOf(r), a) \in Nat
    BY <1>3
  <2>4. CASE a = SOL
    <3>1. sol_lamports'[u] = sol_lamports[u]
              + (IF u = r.recipient THEN SolanaPart(PayoutOf(r), SOL) ELSE 0) - 0
      BY <1>1, <1>6, <2>2 DEF SP!Paid, SP!SolHolder, SolanaPart
    <3>2. sol_lamports[u] \in Nat /\ Holding["Solana"][u][a] = sol_lamports[u]
          /\ Holding'["Solana"][u][a] = sol_lamports'[u]
      BY <1>5, <2>4 DEF Chains
    <3>3. Holding'["Solana"][u][a] = IF u = r.recipient
              THEN Holding["Solana"][u][a] + SolanaPart(PayoutOf(r), SOL)
              ELSE Holding["Solana"][u][a]
      BY <2>3, <2>4, <3>1, <3>2
    <3>4. QED
      BY <2>1, <2>3, <2>4, <3>3
  <2>5. CASE a \in Asset
    <3>1. sol_tokens'[SolanaFor(a)][u] = sol_tokens[SolanaFor(a)][u]
              + (IF u = r.recipient THEN SolanaPart(PayoutOf(r), a) ELSE 0) - 0
      BY <1>1, <1>6, <2>2, <2>5, AssetMints DEF SP!Paid, SP!TokenHolder, SolanaPart
    <3>2. /\ sol_tokens[SolanaFor(a)][u] \in Nat
          /\ Holding["Solana"][u][a] = sol_tokens[SolanaFor(a)][u]
          /\ Holding'["Solana"][u][a] = sol_tokens'[SolanaFor(a)][u]
      BY <1>5, <2>5 DEF Chains
    <3>3. Holding'["Solana"][u][a] = IF u = r.recipient
              THEN Holding["Solana"][u][a] + SolanaPart(PayoutOf(r), a)
              ELSE Holding["Solana"][u][a]
      BY <2>3, <3>1, <3>2
    <3>4. QED
      BY <2>1, <2>3, <3>3
  <2>6. QED
    BY <2>4, <2>5 DEF Currency
<1> HIDE DEF t
<1>8. Holding' = [Holding EXCEPT !["Solana"][r.recipient] = gained]
  <2>1. \A c \in Chains, u \in User, a \in Currency :
            Holding'[c][u][a] = IF c = "Solana" /\ u = r.recipient THEN gained[a]
                                ELSE Holding[c][u][a]
    BY <1>7 DEF Chains
  <2>2. gained = [a \in Currency |-> gained[a]]
    OBVIOUS
  <2> HIDE DEF gained
  <2>3. "Solana" \in Chains
    BY DEF Chains
  <2>4. QED
    BY <1>3, <1>5, <2>1, <2>2, <2>3, OneHolderChanges
<1>9. Holding' = [Holding EXCEPT ![Promise!Opposite(t.from)][t.recipient] =
                     [a \in Promise!Currency |-> @[a] + Promise!Value(t)[a]]]
  <2>1. Promise!Opposite(t.from) = "Solana" /\ t.recipient = r.recipient
    BY <1>3 DEF Promise!Opposite
  <2>2. /\ "Solana" \in Chains /\ DOMAIN Holding = Chains /\ DOMAIN Holding["Solana"] = User
        /\ r.recipient \in User
    BY <1>3, <1>5 DEF Chains
  <2>3. gained = [a \in Promise!Currency |->
                      Holding["Solana"][r.recipient][a] + Promise!Value(t)[a]]
    BY DEF Currency, Promise!Currency
  <2> HIDE DEF gained
  <2>4. QED
    BY <1>8, <2>1, <2>2, <2>3
<1>10. QED
  BY <1>4, <1>9 DEF Promise!Deliver

\* What a call on Solayer takes from a user: its value, and the fee.
LEMMA SolayerSend ==
    ASSUME Programs, Programs', NEW r, NEW fee, SolayerCalled(r, fee)
    PROVE  \E t \in Transit' \ Transit :
               \E n \in 0..Holding[t.from][t.sender][SOL] : Promise!Send(t, n)
<1> DEFINE t == AsTransfer(r)
           old == Holding["Solayer"][r.sender]
           rest == [a \in Currency |->
                       old[a] - Promise!Value(t)[a] - Promise!Fee(fee)[a]]
<1>1. /\ r \in LP!Request /\ fee \in Nat /\ LP!Called(r, fee)
      /\ UNCHANGED <<sol_tokens, sol_lamports>>
  BY DEF SolayerCalled, LP!Called, SP!Idle
<1>2. /\ t \in Promise!Transfer /\ t.from = "Solayer" /\ t.sender = r.sender /\ r.sender \in User
      /\ \A a \in Currency : Promise!Value(t)[a] = SolayerPart(r, a) /\ Promise!Value(t)[a] \in Nat
  BY <1>1, SolayerTransfer
<1>3. InTransit' = InTransit \cup {r} /\ r \notin InTransit
  BY SolayerCallInTransit
<1>4. /\ \A s \in Transit : s.from = t.from => s.id # t.id
      /\ Transit' = Transit \cup {t}
  <2>1. t.id = r.nonce /\ r.nonce = lay_handler.nonce
    BY <1>1, SolayerTransfer DEF LP!Called
  <2>2. \A x \in InTransit : AsTransfer(x).from = t.from => AsTransfer(x).id # t.id
    <3>1. lay_handler.nonce = Len(lay_requests) /\ Len(lay_requests) \in Nat
      BY LogTypes DEF Programs, LP!DInv, LP!NoncesCount
    <3>2. QED
      BY <1>2, <2>1, <3>1, TransfersDistinct
  <2>3. Transit = {AsTransfer(x) : x \in InTransit} /\ Transit' = {AsTransfer(x) : x \in InTransit'}
    BY DEF Transit, InTransit
  <2>4. QED
    BY <1>3, <2>2, <2>3
<1>5. t \in Transit' \ Transit
  BY <1>4
<1>6. /\ Holding \in [Chains -> [User -> [Currency -> Nat]]]
      /\ Holding' \in [Chains -> [User -> [Currency -> Nat]]]
      /\ \A u \in User :
             /\ \A a \in Asset :
                    /\ Holding["Solayer"][u][a] = lay_tokens[SolayerFor(a)][u]
                    /\ Holding["Solana"][u][a] = sol_tokens[SolanaFor(a)][u]
                    /\ Holding'["Solayer"][u][a] = lay_tokens'[SolayerFor(a)][u]
                    /\ Holding'["Solana"][u][a] = sol_tokens'[SolanaFor(a)][u]
             /\ Holding["Solayer"][u][SOL] = lay_lamports[u]
             /\ Holding["Solana"][u][SOL] = sol_lamports[u]
             /\ Holding'["Solayer"][u][SOL] = lay_lamports'[u]
             /\ Holding'["Solana"][u][SOL] = sol_lamports'[u]
  <2>1. /\ Maps(Holding, sol_tokens, sol_lamports, lay_tokens, lay_lamports)
        /\ Maps(Holding', sol_tokens', sol_lamports', lay_tokens', lay_lamports')
    BY HoldingType
  <2>2. QED
    BY <2>1 DEF Maps
<1>7. /\ lay_handler.fee_vault \in FeeVault
      /\ User \cap FeeVault = {} /\ LP!VAULT \notin User /\ LP!HANDLER \notin User
  BY SolayerAssumptions DEF Programs, LP!DInv, LP!ProgramTypeOK, LP!HandlerTypeOK, LP!BridgeHandler,
                        LP!KeyAssumption
<1>8. /\ \A a \in Currency : Promise!Value(t)[a] = SolayerPart(r, a) /\ SolayerPart(r, a) \in Nat
      /\ \A a \in Currency : Promise!Fee(fee)[a] = IF a = SOL THEN fee ELSE 0
      /\ SOL \in Currency /\ Asset \subseteq Currency
  BY <1>2 DEF Promise!Fee, Promise!Currency, Currency
<1>9. \A a \in Currency :
          /\ old[a] \in Nat
          /\ old[a] >= SolayerPart(r, a) + (IF a = SOL THEN fee ELSE 0)
  <2>1. lay_lamports[r.sender] >= fee + SolayerPart(r, SOL)
    BY <1>1 DEF LP!Called, SolayerPart
  <2>2. \A a \in Asset : lay_tokens[SolayerFor(a)][r.sender] >= SolayerPart(r, a)
    BY <1>1, AssetMints DEF LP!Called, SolayerPart
  <2>3. /\ old[SOL] >= fee + SolayerPart(r, SOL)
        /\ \A a \in Asset : old[a] >= SolayerPart(r, a) /\ a # SOL
    BY <1>2, <1>6, <2>1, <2>2, AssetMints
  <2>4. \A a \in Currency : old[a] \in Nat
    BY <1>2, <1>6 DEF Chains
  <2>5. SUFFICES ASSUME NEW a \in Currency
                 PROVE  old[a] >= SolayerPart(r, a) + (IF a = SOL THEN fee ELSE 0)
    BY <2>4
  <2>6. CASE a = SOL
    BY <1>1, <1>8, <2>3, <2>4, <2>6
  <2>7. CASE a \in Asset
    BY <1>8, <2>3, <2>4, <2>7
  <2>8. QED
    BY <2>6, <2>7 DEF Currency
<1>10. ASSUME NEW u \in User, NEW a \in Currency
       PROVE  /\ Holding'["Solayer"][u][a] =
                     IF u = r.sender
                     THEN old[a] - Promise!Value(t)[a] - Promise!Fee(fee)[a]
                     ELSE Holding["Solayer"][u][a]
              /\ Holding'["Solana"][u][a] = Holding["Solana"][u][a]
  <2>1. Holding'["Solana"][u][a] = Holding["Solana"][u][a]
    BY <1>1, <1>6 DEF Currency
  <2>2. u # lay_handler.fee_vault /\ u # LP!HANDLER /\ u # LP!VAULT
    BY <1>7
  <2>3. CASE a = SOL
    <3>1. lay_lamports'[u] =
              lay_lamports[u] - (IF u = r.sender THEN fee + SolayerPart(r, SOL) ELSE 0)
                                 + 0 + 0
      BY <1>1, <2>2 DEF LP!Called, LP!SolHolder, SolayerPart
    <3>2. lay_lamports[u] \in Nat /\ Holding["Solayer"][u][a] = lay_lamports[u]
          /\ Holding'["Solayer"][u][a] = lay_lamports'[u]
      BY <1>6, <2>3 DEF Chains
    <3>3. /\ Promise!Value(t)[a] = SolayerPart(r, SOL) /\ SolayerPart(r, SOL) \in Nat
          /\ Promise!Fee(fee)[a] = fee
      BY <1>8, <2>3
    <3>4. Holding'["Solayer"][u][a] = IF u = r.sender
              THEN Holding["Solayer"][u][a] - SolayerPart(r, SOL) - fee
              ELSE Holding["Solayer"][u][a]
      BY <1>1, <3>1, <3>2, <3>3
    <3>5. QED
      BY <2>1, <3>3, <3>4
  <2>4. CASE a \in Asset
    <3>1. lay_tokens'[SolayerFor(a)][u] =
              lay_tokens[SolayerFor(a)][u] - (IF u = r.sender THEN SolayerPart(r, a) ELSE 0) + 0
      BY <1>1, <2>2, <2>4, AssetMints DEF LP!Called, LP!TokenHolder, SolayerPart
    <3>2. /\ lay_tokens[SolayerFor(a)][u] \in Nat
          /\ Holding["Solayer"][u][a] = lay_tokens[SolayerFor(a)][u]
          /\ Holding'["Solayer"][u][a] = lay_tokens'[SolayerFor(a)][u]
      BY <1>6, <2>4 DEF Chains
    <3>3. /\ Promise!Value(t)[a] = SolayerPart(r, a) /\ SolayerPart(r, a) \in Nat
          /\ Promise!Fee(fee)[a] = 0
      BY <1>8, <2>4, AssetMints
    <3>4. Holding'["Solayer"][u][a] = IF u = r.sender
              THEN Holding["Solayer"][u][a] - SolayerPart(r, a) - 0
              ELSE Holding["Solayer"][u][a]
      BY <3>1, <3>2, <3>3
    <3>5. QED
      BY <2>1, <3>3, <3>4
  <2>5. QED
    BY <2>3, <2>4 DEF Currency
<1> HIDE DEF t
<1>11. \A a \in Currency : rest[a] >= 0
  <2>1. SUFFICES ASSUME NEW a \in Currency
                 PROVE  old[a] - Promise!Value(t)[a] - Promise!Fee(fee)[a] >= 0
    OBVIOUS
  <2> HIDE DEF old
  <2>2. QED
    BY <1>1, <1>8, <1>9
<1>12. Holding' = [Holding EXCEPT !["Solayer"][r.sender] = rest]
  <2>1. \A c \in Chains, u \in User, a \in Currency :
            Holding'[c][u][a] = IF c = "Solayer" /\ u = r.sender THEN rest[a] ELSE Holding[c][u][a]
    BY <1>10 DEF Chains
  <2>2. rest = [a \in Currency |-> rest[a]]
    OBVIOUS
  <2> HIDE DEF rest
  <2>3. "Solayer" \in Chains
    BY DEF Chains
  <2>4. QED
    BY <1>2, <1>6, <2>1, <2>2, <2>3, OneHolderChanges
<1>13. fee \in 0..Holding[t.from][t.sender][SOL]
  <2>1. old[SOL] \in Nat /\ old[SOL] >= SolayerPart(r, SOL) + fee /\ SolayerPart(r, SOL) \in Nat
    BY <1>8, <1>9
  <2>2. Holding[t.from][t.sender] = old
    BY <1>2
  <2> HIDE DEF old
  <2>3. QED
    BY <1>1, <2>1, <2>2
<1>14. Promise!Send(t, fee)
  <2>1. rest = [a \in Promise!Currency |->
                    Holding[t.from][t.sender][a] - Promise!Value(t)[a] - Promise!Fee(fee)[a]]
    BY <1>2 DEF Currency, Promise!Currency
  <2> HIDE DEF rest
  <2>2. QED
    BY <1>2, <1>4, <1>11, <1>12, <2>1 DEF Promise!Send, Currency, Promise!Currency
<1>15. QED
  BY <1>5, <1>13, <1>14

\* What a payout on Solayer gives a user: the value of the call on Solana.
LEMMA SolayerDeliver ==
    ASSUME Programs, Programs', NEW r, SolayerPaid(r)
    PROVE  \E t \in Transit : Promise!Deliver(t)
<1> DEFINE t == AsTransfer(r)
           old == Holding["Solayer"][r.recipient]
           gained == [a \in Currency |-> old[a] + Promise!Value(t)[a]]
<1>1. LP!Paid(PayoutOf(r)) /\ UNCHANGED <<sol_tokens, sol_lamports>>
  BY DEF SolayerPaid, SP!Idle
<1>2. r \in SP!Request /\ InTransit' = InTransit \ {r} /\ r \in InTransit
  BY SolayerPayoutInTransit
<1>3. /\ t \in Promise!Transfer /\ t.from = "Solana" /\ t.recipient = r.recipient
      /\ r.recipient \in User
      /\ \A a \in Currency : /\ Promise!Value(t)[a] = SolayerPart(PayoutOf(r), a)
                             /\ Promise!Value(t)[a] \in Nat
  BY <1>2, SolanaTransfer
<1>4. t \in Transit /\ Transit' = Transit \ {t}
  <2>1. \A x \in InTransit : AsTransfer(x) = t => x = r
    BY <1>2, TransfersDistinct
  <2>2. Transit = {AsTransfer(x) : x \in InTransit} /\ Transit' = {AsTransfer(x) : x \in InTransit'}
    BY DEF Transit, InTransit
  <2>3. QED
    BY <1>2, <2>1, <2>2
<1>5. /\ Holding \in [Chains -> [User -> [Currency -> Nat]]]
      /\ Holding' \in [Chains -> [User -> [Currency -> Nat]]]
      /\ \A u \in User :
             /\ \A a \in Asset :
                    /\ Holding["Solayer"][u][a] = lay_tokens[SolayerFor(a)][u]
                    /\ Holding["Solana"][u][a] = sol_tokens[SolanaFor(a)][u]
                    /\ Holding'["Solayer"][u][a] = lay_tokens'[SolayerFor(a)][u]
                    /\ Holding'["Solana"][u][a] = sol_tokens'[SolanaFor(a)][u]
             /\ Holding["Solayer"][u][SOL] = lay_lamports[u]
             /\ Holding["Solana"][u][SOL] = sol_lamports[u]
             /\ Holding'["Solayer"][u][SOL] = lay_lamports'[u]
             /\ Holding'["Solana"][u][SOL] = sol_lamports'[u]
  <2>1. /\ Maps(Holding, sol_tokens, sol_lamports, lay_tokens, lay_lamports)
        /\ Maps(Holding', sol_tokens', sol_lamports', lay_tokens', lay_lamports')
    BY HoldingType
  <2>2. QED
    BY <2>1 DEF Maps
<1>6. LP!VAULT \notin User /\ LP!HANDLER \notin User /\ PayoutOf(r).recipient = r.recipient
  BY SolayerAssumptions DEF LP!KeyAssumption, PayoutOf
<1>7. ASSUME NEW u \in User, NEW a \in Currency
      PROVE  /\ Holding'["Solayer"][u][a] = IF u = r.recipient THEN old[a] + Promise!Value(t)[a]
                                                           ELSE Holding["Solayer"][u][a]
             /\ Holding'["Solana"][u][a] = Holding["Solana"][u][a]
  <2>1. Holding'["Solana"][u][a] = Holding["Solana"][u][a]
    BY <1>1, <1>5 DEF Currency
  <2>2. u # LP!HANDLER /\ u # LP!VAULT
    BY <1>6
  <2>3. Promise!Value(t)[a] = SolayerPart(PayoutOf(r), a) /\ SolayerPart(PayoutOf(r), a) \in Nat
    BY <1>3
  <2>4. CASE a = SOL
    <3>1. lay_lamports'[u] = lay_lamports[u]
              + (IF u = r.recipient THEN SolayerPart(PayoutOf(r), SOL) ELSE 0) - 0
      BY <1>1, <1>6, <2>2 DEF LP!Paid, LP!SolHolder, SolayerPart
    <3>2. lay_lamports[u] \in Nat /\ Holding["Solayer"][u][a] = lay_lamports[u]
          /\ Holding'["Solayer"][u][a] = lay_lamports'[u]
      BY <1>5, <2>4 DEF Chains
    <3>3. Holding'["Solayer"][u][a] = IF u = r.recipient
              THEN Holding["Solayer"][u][a] + SolayerPart(PayoutOf(r), SOL)
              ELSE Holding["Solayer"][u][a]
      BY <2>3, <2>4, <3>1, <3>2
    <3>4. QED
      BY <2>1, <2>3, <2>4, <3>3
  <2>5. CASE a \in Asset
    <3>1. lay_tokens'[SolayerFor(a)][u] = lay_tokens[SolayerFor(a)][u]
              + (IF u = r.recipient THEN SolayerPart(PayoutOf(r), a) ELSE 0) - 0
      BY <1>1, <1>6, <2>2, <2>5, AssetMints DEF LP!Paid, LP!TokenHolder, SolayerPart
    <3>2. /\ lay_tokens[SolayerFor(a)][u] \in Nat
          /\ Holding["Solayer"][u][a] = lay_tokens[SolayerFor(a)][u]
          /\ Holding'["Solayer"][u][a] = lay_tokens'[SolayerFor(a)][u]
      BY <1>5, <2>5 DEF Chains
    <3>3. Holding'["Solayer"][u][a] = IF u = r.recipient
              THEN Holding["Solayer"][u][a] + SolayerPart(PayoutOf(r), a)
              ELSE Holding["Solayer"][u][a]
      BY <2>3, <3>1, <3>2
    <3>4. QED
      BY <2>1, <2>3, <3>3
  <2>6. QED
    BY <2>4, <2>5 DEF Currency
<1> HIDE DEF t
<1>8. Holding' = [Holding EXCEPT !["Solayer"][r.recipient] = gained]
  <2>1. \A c \in Chains, u \in User, a \in Currency :
            Holding'[c][u][a] = IF c = "Solayer" /\ u = r.recipient THEN gained[a]
                                ELSE Holding[c][u][a]
    BY <1>7 DEF Chains
  <2>2. gained = [a \in Currency |-> gained[a]]
    OBVIOUS
  <2> HIDE DEF gained
  <2>3. "Solayer" \in Chains
    BY DEF Chains
  <2>4. QED
    BY <1>3, <1>5, <2>1, <2>2, <2>3, OneHolderChanges
<1>9. Holding' = [Holding EXCEPT ![Promise!Opposite(t.from)][t.recipient] =
                     [a \in Promise!Currency |-> @[a] + Promise!Value(t)[a]]]
  <2>1. Promise!Opposite(t.from) = "Solayer" /\ t.recipient = r.recipient
    BY <1>3 DEF Promise!Opposite
  <2>2. /\ "Solayer" \in Chains /\ DOMAIN Holding = Chains /\ DOMAIN Holding["Solayer"] = User
        /\ r.recipient \in User
    BY <1>3, <1>5 DEF Chains
  <2>3. gained = [a \in Promise!Currency |->
                      Holding["Solayer"][r.recipient][a] + Promise!Value(t)[a]]
    BY DEF Currency, Promise!Currency
  <2> HIDE DEF gained
  <2>4. QED
    BY <1>8, <2>1, <2>2, <2>3
<1>10. QED
  BY <1>4, <1>9 DEF Promise!Deliver

\* The bridge starts as BridgeTransfer starts.
LEMMA TransferInit ==
    ASSUME Solana!ProgramInit, Solayer!ProgramInit
    PROVE  Promise!TransferInit
<1>1. Transit = {}
  <2>1. sol_requests = <<>> /\ lay_requests = <<>>
    BY SolanaInit, SolayerInit DEF SP!ProgramInit, LP!ProgramInit
  <2>2. QED
    BY <2>1 DEF Transit, ToSolayer, ToSolana, Undelivered, Answered
<1>2. Holding \in [Chains -> [User -> [Currency -> Nat]]]
  BY InitPrograms, HoldingType DEF Maps
<1>3. QED
  BY <1>1, <1>2 DEF Promise!TransferInit, Promise!Chain, Promise!Currency, Chains, Currency

\* Every step of the bridge is a Send, a Deliver, or a stutter.
LEMMA TransferStep ==
    ASSUME Programs, Programs', Moves
    PROVE  Promise!TransferNext \/ UNCHANGED <<Holding, Transit>>
<1>1. Programs /\ Programs'
  OBVIOUS
<1>2. CASE \E r, fee : SolanaCalled(r, fee)
  BY <1>1, <1>2, SolanaSend DEF Promise!TransferNext
<1>3. CASE \E r, fee : SolayerCalled(r, fee)
  BY <1>1, <1>3, SolayerSend DEF Promise!TransferNext
<1>4. CASE \E r : SolanaPaid(r)
  BY <1>1, <1>4, SolanaDeliver DEF Promise!TransferNext
<1>5. CASE \E r : SolayerPaid(r)
  BY <1>1, <1>5, SolayerDeliver DEF Promise!TransferNext
<1>6. CASE BothIdle
  <2>1. InTransit' = InTransit
    BY <1>6, IdleInTransit
  <2>2. UNCHANGED <<sol_tokens, lay_tokens, sol_lamports, lay_lamports>>
    BY <1>6 DEF BothIdle, SP!Idle, LP!Idle
  <2>3. Holding' = Holding
    BY <2>2 DEF Holding
  <2>4. Transit' = Transit
    BY <2>1 DEF Transit, InTransit
  <2>5. QED
    BY <2>3, <2>4
<1>7. QED
  BY <1>2, <1>3, <1>4, <1>5, <1>6 DEF Moves

\* The bridge keeps the promise of BridgeTransfer as long as the records paid on
\* are undisturbed and each call is paid on the other chain only.
THEOREM BridgeImplementsTransfer == BridgeSpec => ImplementsTransferWhileTrusted
<1>1. IsFiniteSet({})
  BY FS_EmptySet
<1>2. BridgeInit => Promise!TransferInit
  BY TransferInit DEF BridgeInit
<1>3. BInv({}) /\ [BridgeNext]_bridgeVars =>
          (Trusted' => [Promise!TransferNext]_<<Holding, Transit>>)
  BY <1>1, NextIsBridgeStep, TrustedStep, TransferStep
<1>4. QED
  BY <1>2, <1>3, BridgeInvariance, PTL DEF BridgeSpec, ImplementsTransferWhileTrusted

=============================================================================
