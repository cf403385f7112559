------------------------------ MODULE Pricing -------------------------------
(***************************************************************************)
(* What the solver makes of a route and its reward: the validations, the   *)
(* feasibility and the ask.  A quote request and an intent are judged by   *)
(* the same operators.                                                     *)
(*                                                                         *)
(* Amounts are in units of the base precision.  Balances of tokens with    *)
(* another precision cannot be read, so what normalises an amount leaves   *)
(* it as it is; only the minimum balances, configured in whole tokens, are *)
(* scaled.                                                                 *)
(***************************************************************************)
EXTENDS Integers, Sequences, FiniteSets, FiniteSetsExt

CONSTANTS Chains,            \* the chains routes name
          Mainnet, Sepolia,  \* a route from or to them has their fees
          Tokens,            \* the contracts calls and rewards name
          ChainOf,           \* ChainOf[t]: the chain of t
          Solvers,           \* the chains with a solver configured
          Linear,            \* those of them with the linear fee algorithm
          Targets,           \* the targets configured for the solvers
          Sources,           \* the chains with an intent source configured
          Accepted,          \* the reward tokens configured for these
          SixDecimals,       \* the tokens with the base precision
          Provers,           \* the provers an intent may name
          SupportedProvers,  \* SupportedProvers[c]: those of the source on c
          ProofDuration,     \* ProofDuration[p]: the time a proof by p takes
          MinBalance,        \* MinBalance[t]: in whole tokens
          Unit,              \* the units of a whole token
          BaseFee,           \* BaseFee[c]: of the solver on c
          Per100UnitFee,     \* Per100UnitFee[c]: for every full hundred
          Hundred            \* the units of a hundred tokens

(* A deployment does not start unless its targets are erc20 contracts and  *)
(* their balances can be read: see BalanceService.onApplicationBootstrap.  *)
ASSUME PricingAssumption ==
  /\ Solvers \subseteq Chains /\ Sources \subseteq Chains /\ Linear \subseteq Solvers
  /\ IsFiniteSet(Tokens) /\ ChainOf \in [Tokens -> Chains]
  /\ SixDecimals \subseteq Tokens /\ Targets \subseteq SixDecimals
  /\ Accepted \subseteq Tokens
  /\ SupportedProvers \in [Sources -> SUBSET Provers]
  /\ ProofDuration \in [Provers -> Nat]
  /\ MinBalance \in [Tokens -> Nat]
  /\ BaseFee \in [Linear -> Nat] /\ Per100UnitFee \in [Linear -> Nat]
  /\ Unit \in Nat \ {0} /\ Hundred \in Nat \ {0}

-----------------------------------------------------------------------------
(* What is judged: a route and a reward.  The data of a call is a transfer *)
(* of an amount, another selector its target permits, one it does not, or  *)
(* nothing the ABI decodes; a transfer of nothing is left out.  A reward   *)
(* has the first amount it names for a token, the one that is counted.     *)

CallData == {"transfer", "permitted", "unlisted", "garbled"}
Call == [target : Tokens, data : CallData, amount : Nat \ {0}]
Unnamed == -1
Reward == [Tokens -> Nat \cup {Unnamed}]
Intent == [source : Chains, destination : Chains, calls : Seq(Call) \ {<<>>},
           prover : Provers, deadline : Nat, reward : Reward]

(* What is configured for a chain: the solver's targets, and the tokens of  *)
(* the intent source, its rewards.                                         *)
SolverTargets(c) == {t \in Targets : ChainOf[t] = c}
SourceTokens(c) == {t \in Accepted : ChainOf[t] = c}

(* getTransactionTargetData: what it makes of a call.                      *)
TargetData(i, call) ==
  IF call.target \notin SolverTargets(i.destination) \/ call.data = "garbled"
  THEN "throws"
  ELSE IF call.data = "unlisted" THEN "null" ELSE call.data

-----------------------------------------------------------------------------
(* ValidationService.assertValidations.                                    *)

SupportedProver(i) ==
  i.source \in Sources /\ i.prover \in SupportedProvers[i.source]

SupportedTargets(i) ==
  /\ i.calls # <<>>
  /\ \A n \in DOMAIN i.calls : i.calls[n].target \in SolverTargets(i.destination)

SupportedSelectors(i) ==
  /\ i.calls # <<>>
  /\ \A n \in DOMAIN i.calls : TargetData(i, i.calls[n]) # "null"

(* The search for a call without supported data ends with the first one,   *)
(* unless it has thrown before.                                            *)
ValidationThrows(i) ==
  \E n \in DOMAIN i.calls :
    /\ TargetData(i, i.calls[n]) = "throws"
    /\ \A m \in 1..(n - 1) : TargetData(i, i.calls[m]) # "null"

ValidExpirationTime(i, now) == i.deadline > now + ProofDuration[i.prover]

ValidDestination(i) == i.destination \in Solvers

FulfillOnDifferentChain(i) == i.destination # i.source

ValidationsSucceeded(i, now) ==
  /\ SupportedProver(i) /\ SupportedTargets(i) /\ SupportedSelectors(i)
  /\ ValidExpirationTime(i, now)
  /\ ValidDestination(i) /\ FulfillOnDifferentChain(i)

-----------------------------------------------------------------------------
(* FeeService.                                                             *)

(* The chain whose solver's fees are asked.                                *)
FeeChain(i) ==
  IF Mainnet \in {i.source, i.destination} THEN Mainnet
  ELSE IF Sepolia \in {i.source, i.destination} THEN Sepolia
  ELSE i.destination

(* getAsk, which throws unless the fees are linear.                        *)
AskThrows(i) == FeeChain(i) \notin Linear
Ask(i, fill) ==
  fill + (BaseFee[FeeChain(i)] + (fill \div Hundred) * Per100UnitFee[FeeChain(i)])

(* getCallsNormalized for a route of one call, given the balances read.    *)
CallError(i, balances) ==
  IF TargetData(i, i.calls[1]) # "transfer" THEN "target"
  ELSE IF i.calls[1].amount > balances[i.calls[1].target] THEN "liquidity"
  ELSE "none"

(* getTotalFill.                                                           *)
TotalFill(i) == i.calls[1].amount

(* getRewardsNormalized: the tokens of the reward the source accepts.      *)
AcceptedTokens(i) == {t \in SourceTokens(i.source) : i.reward[t] # Unnamed}

(* getTotalRewards.                                                        *)
TotalRewards(i) == MapThenSumSet(LAMBDA t : i.reward[t], AcceptedTokens(i))

(* Broken: a reward of what is spent is enough, whatever the fee.          *)
CoversFill(i) == TotalRewards(i) >= TotalFill(i)

Profitable(i) == TotalRewards(i) >= Ask(i, TotalFill(i))

(* isRouteFeasible: the first error it meets, or that it throws.           *)
Feasibility(i, balances) ==
  IF Len(i.calls) # 1 THEN "multi"
  ELSE IF CallError(i, balances) # "none" THEN CallError(i, balances)
  ELSE IF AcceptedTokens(i) = {} THEN "rewards"
  ELSE IF ~(AcceptedTokens(i) \subseteq SixDecimals) \/ AskThrows(i) THEN "throws"
  ELSE IF Profitable(i) THEN "feasible" ELSE "reward"

(* normalizeBalance, from whole tokens.                                    *)
Normalized(n) == n * Unit

(* calculateDelta.                                                         *)
Delta(t, balances) == balances[t] - Normalized(MinBalance[t])

(* calculateTokens: the tokens a quote may ask for, and when there is none *)
(* of them, without which their balances cannot be read.                   *)
Fundable(i) == SolverTargets(i.source) \cap SourceTokens(i.source)
CalculateThrows(i) == SolverTargets(i.source) = {}
=============================================================================
