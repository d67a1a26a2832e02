------------------------------- MODULE Ledger -------------------------------
(***************************************************************************)
(* Where one user's USDC can be, and what the contracts do to it: the two  *)
(* smart accounts, the Gateway wallet they deposit into, the attested and  *)
(* the sent mints, the AAVE position.  The contracts are not part of this  *)
(* repository; they are modelled from how the code calls them              *)
(* (src/contracts, src/gateway, src/aave).                                 *)
(*                                                                         *)
(* An account is a double-entry book: every operation moves an amount from *)
(* one location to another.                                                *)
(***************************************************************************)
EXTENDS Policy

Location ==
  { ArcIdle, ArbIdle, ArbAave,       \* what the position fetcher reads
    "arc_escrow", "arb_escrow",      \* deposited in the Gateway wallet
    "arc_attested", "arb_attested",  \* burnt, attested for a mint on the chain
    "arc_minting", "arb_minting",    \* gatewayMint sent, not yet included
    "fees",                          \* kept by the Gateway
    "wallet" }                       \* the owner's own address

EscrowOn(c)    == IF c = "arc" THEN "arc_escrow"   ELSE "arb_escrow"
AttestedFor(c) == IF c = "arc" THEN "arc_attested" ELSE "arb_attested"
MintingOn(c)   == IF c = "arc" THEN "arc_minting"  ELSE "arb_minting"

Account == [Location -> Nat]

Move(a, from, to, n) == [ a EXCEPT ![from] = @ - n, ![to] = @ + n ]

(* depositToGateway(amount): reverts unless the account holds the amount.  *)
CanDeposit(a, c, n) == a[IdleOn(c)] >= n
Deposit(a, c, n)    == Move(a, IdleOn(c), EscrowOn(c), n)

(* POST /v1/transfer: the Gateway wants the amount and its fee on deposit. *)
CanAttest(a, src, n, fee)   == a[EscrowOn(src)] >= n + fee
Attest(a, src, dst, n, fee) ==
  Move(Move(a, EscrowOn(src), AttestedFor(dst), n), EscrowOn(src), "fees", fee)

(* gatewayMint(attestation, signature), which spends an attestation, and   *)
(* its inclusion in a block.                                               *)
CanMint(a, dst, n)  == a[AttestedFor(dst)] >= n
SendMint(a, dst, n) == Move(a, AttestedFor(dst), MintingOn(dst), n)
LandMint(a, dst, n) == Move(a, MintingOn(dst), IdleOn(dst), n)
DropMint(a, dst, n) == Move(a, MintingOn(dst), AttestedFor(dst), n)

(* supplyAave(MAX) supplies all the account holds; nothing held reverts.   *)
(* withdrawAave(n) brings n back.  AAVE is deployed on Arbitrum alone.      *)
CanSupply(a, c)       == c = "arb" /\ a[ArbIdle] > 0
SupplyAll(a)          == Move(a, ArbIdle, ArbAave, a[ArbIdle])
CanWithdraw(a, c, n)  == c = "arb" /\ a[ArbAave] >= n
Withdraw(a, n)        == Move(a, ArbAave, ArbIdle, n)
=============================================================================
