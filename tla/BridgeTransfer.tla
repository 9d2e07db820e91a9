--------------------------- MODULE BridgeTransfer ---------------------------
(***************************************************************************)
(* What the bridge promises its users: value sent on one chain is credited *)
(* at most once, in full and to the named recipient, on the other chain,   *)
(* and nothing else the bridge does changes what a user holds.             *)
(***************************************************************************)
EXTENDS Integers

CONSTANTS
    User,   \* keys, the same on both chains
    Asset,  \* bridged tokens, a token and its wrapped mint being one asset
    SOL     \* the asset fees and gas are paid in

VARIABLES
    holding,    \* holding[chain][user][asset]
    transit     \* transfers sent and not delivered

Chain == {"Solana", "Solayer"}
Currency == Asset \cup {SOL}
Opposite(c) == IF c = "Solana" THEN "Solayer" ELSE "Solana"

Transfer == [from : Chain, id : Nat, sender : User, recipient : User,
             asset : Currency, amount : Nat, gas : Nat]

\* What a transfer moves, by asset: the amount, and gas in SOL beside it.
Value(t) == [a \in Currency |-> (IF a = t.asset THEN t.amount ELSE 0)
                                    + (IF a = SOL THEN t.gas ELSE 0)]
Fee(n) == [a \in Currency |-> IF a = SOL THEN n ELSE 0]

TransferInit ==
    /\ holding \in [Chain -> [User -> [Currency -> Nat]]]
    /\ transit = {}

\* The sender parts with the value and a fee it can afford.
Send(t, fee) ==
    LET rest == [a \in Currency |-> holding[t.from][t.sender][a] - Value(t)[a] - Fee(fee)[a]]
    IN /\ t \in Transfer
       /\ \A s \in transit : s.from = t.from => s.id # t.id
       /\ \A a \in Currency : rest[a] >= 0
       /\ holding' = [holding EXCEPT ![t.from][t.sender] = rest]
       /\ transit' = transit \cup {t}

\* The recipient gets the value on the other chain.
Deliver(t) ==
    /\ t \in transit
    /\ holding' = [holding EXCEPT ![Opposite(t.from)][t.recipient] =
                       [a \in Currency |-> @[a] + Value(t)[a]]]
    /\ transit' = transit \ {t}

\* The transfer a step sends is the one that is new, its fee what is missing.
TransferNext ==
    \/ \E t \in transit' \ transit :
           \E fee \in 0..holding[t.from][t.sender][SOL] : Send(t, fee)
    \/ \E t \in transit : Deliver(t)

TransferSpec == TransferInit /\ [][TransferNext]_<<holding, transit>>

=============================================================================
