------------------------------ MODULE MCQuoting ------------------------------
(* Two chains with solvers, and routes from and to chains without one; a   *)
(* source with two tokens to fund, one it merely accepts and one with      *)
(* another precision.                                                      *)
EXTENDS Quoting

CONSTANTS a, b, x, w, u, m, s, base, op, main, sepolia, side, hyper, storage, other

MCChains == {base, op, main, sepolia, side}
MCTokens == {a, b, x, w, u, m, s}
MCChainOf == [t \in MCTokens |->
                CASE t = u -> op [] t = m -> main [] t = s -> side [] OTHER -> base]
MCSupportedProvers == [c \in {base, main, side} |-> {hyper, storage}]
MCProofDuration == [p \in {hyper, storage, other} |-> IF p = hyper THEN 0 ELSE 1]
MCMinBalance == [t \in MCTokens |-> IF t \in {a, b} THEN 2 ELSE 0]
MCFee == [c \in {base, op} |-> 1]

MCBalances == {[t \in MCTokens |-> CASE t = a -> n [] t = b -> k [] t = u -> l
                                     [] OTHER -> 9] :
                n \in {0, 1, 3}, k \in {0, 3}, l \in {2, 4}}

(* The same amount of some tokens.                                         *)
Of(names, n) == [t \in MCTokens |-> IF t \in names THEN n ELSE Unnamed]

Transfer == [target |-> u, data |-> "transfer", amount |-> 3]
Good == [source |-> base, destination |-> op, calls |-> <<Transfer>>, prover |-> hyper,
         deadline |-> 2, reward |-> Of({a, b}, 4)]

(* Good requests with rewards of several shapes, and requests each with    *)
(* one thing wrong.                                                        *)
MCRequests ==
  {Good,
   [Good EXCEPT !.reward = Of({a, b, x}, 2)],
   [Good EXCEPT !.reward = [Of({a, b}, 2) EXCEPT ![a] = 3], !.prover = storage],
   [Good EXCEPT !.reward = [Of({a, b, u}, 4) EXCEPT ![a] = 1]],
   [Good EXCEPT !.reward = Of({a, b}, 2)],
   [Good EXCEPT !.reward = Of({u}, 9)],
   [Good EXCEPT !.reward = Of({a, w}, 9)],
   [Good EXCEPT !.deadline = 1],
   [Good EXCEPT !.prover = other],
   [Good EXCEPT !.calls = <<Transfer, Transfer>>],
   [Good EXCEPT !.calls = <<[Transfer EXCEPT !.data = "permitted"]>>],
   [Good EXCEPT !.calls = <<[Transfer EXCEPT !.data = "unlisted"]>>],
   [Good EXCEPT !.calls = <<[Transfer EXCEPT !.data = "garbled"]>>],
   [Good EXCEPT !.calls = <<[Transfer EXCEPT !.target = x]>>],
   [Good EXCEPT !.destination = main],
   [Good EXCEPT !.destination = base],
   [Good EXCEPT !.source = side, !.reward = Of({s}, 5)],
   [Good EXCEPT !.source = main, !.reward = Of({m}, 5)]}
==============================================================================
