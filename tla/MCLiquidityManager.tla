------------------------- MODULE MCLiquidityManager -------------------------
(* Instances of LiquidityManager: tokens of one chain and of another, with *)
(* the same thresholds in small units.                                     *)
EXTENDS LiquidityManager

CONSTANTS a, b, c, d

FourTokens == {a, b, c, d}
OneChain == {a, b}
Chains == [t \in Tokens |-> IF t \in OneChain THEN "one" ELSE "other"]

Targets == [t \in Tokens |-> 4]
Minimums == [t \in Tokens |-> 3]
Maximums == [t \in Tokens |-> 5]
Enoughs == [t \in Tokens |-> 4]

(* Deficits and surpluses, with balances in range and without.              *)
AnyBalances == [Tokens -> {0, 2, 4, 6, 8}]
Balance(wa, wb, wc, wd) ==
  [t \in Tokens |-> CASE t = a -> wa [] t = b -> wb [] t = c -> wc [] t = d -> wd]

(* Deficits made good on their chain, one that needs the tokens of both,    *)
(* and two of one chain, with much or with little surplus on the other.     *)
FewBalances == {Balance(0, 8, 0, 8), Balance(0, 6, 4, 8),
                Balance(0, 2, 8, 8), Balance(0, 2, 8, 6)}

NoFaults == {}
AllFaults == FaultKinds
=============================================================================
