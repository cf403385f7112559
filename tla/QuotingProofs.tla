---------------------------- MODULE QuotingProofs ----------------------------
(***************************************************************************)
(* Type correctness of Quoting, that the solver never fulfills at a loss,  *)
(* and that a quote asks for what the solver lacks first.                  *)
(***************************************************************************)
EXTENDS Quoting, Sums, TLAPS

-----------------------------------------------------------------------------
(* What the operators of Pricing and Quoting return.                       *)

LEMMA AskIsAmount ==
  ASSUME NEW i \in Intent, ~AskThrows(i), NEW fill \in Nat
  PROVE  Ask(i, fill) \in Nat
<1>. DEFINE c == FeeChain(i)
            hundreds == fill \div Hundred
<1>1. c \in Linear
  BY DEF AskThrows
<1>2. BaseFee[c] \in Nat /\ Per100UnitFee[c] \in Nat
  BY <1>1, PricingAssumption
<1>3. hundreds \in Nat
  BY PricingAssumption
<1>. HIDE DEF c, hundreds
<1>4. hundreds * Per100UnitFee[c] \in Nat
  BY <1>2, <1>3
<1>. QED
  BY <1>2, <1>4 DEF Ask, c, hundreds

LEMMA FirstCall ==
  ASSUME NEW i \in Intent
  PROVE  /\ i.calls[1] \in Call
         /\ i.calls[1].target \in Tokens /\ i.calls[1].amount \in Nat \ {0}
         /\ TotalFill(i) \in Nat \ {0}
<1>1. i.calls \in Seq(Call) /\ i.calls # <<>>
  BY DEF Intent
<1>2. i.calls[1] \in Call
  BY <1>1
<1>. QED
  BY <1>2 DEF Call, TotalFill

LEMMA FeasibleIsProfitable ==
  ASSUME NEW i, NEW balances, Feasibility(i, balances) = "feasible"
  PROVE  Profitable(i) /\ ~AskThrows(i)
BY DEF Feasibility, CallError

LEMMA FeasibilityTyped ==
  ASSUME NEW i, NEW balances
  PROVE  Feasibility(i, balances) \in Verdicts
BY DEF Feasibility, CallError, Verdicts

LEMMA ReadTyped ==
  ASSUME TypeOK, NEW k \in Reads
  PROVE  Read(k) \in [Tokens -> Nat]
BY DEF Read, TypeOK

LEMMA CacheTyped ==
  ASSUME TypeOK, UNCHANGED cache \/ \E k \in Reads : Cached(k)
  PROVE  cache' \in [Reads -> [Tokens -> Nat] \cup {NoData}]
<1>1. ASSUME NEW k \in Reads, Cached(k)
      PROVE  cache' \in [Reads -> [Tokens -> Nat] \cup {NoData}]
  <2>1. Read(k) \in [Tokens -> Nat]
    BY ReadTyped
  <2>. QED
    BY <1>1, <2>1 DEF Cached, TypeOK
<1>. QED
  BY <1>1 DEF TypeOK

LEMMA OfferedTyped ==
  ASSUME NEW i \in Intent, NEW t \in AcceptedTokens(i)
  PROVE  t \in Tokens /\ i.reward[t] \in Nat
<1>1. t \in Tokens /\ i.reward[t] # Unnamed
  BY PricingAssumption DEF AcceptedTokens, SourceTokens
<1>2. i.reward \in [Tokens -> Nat \cup {Unnamed}]
  BY DEF Intent, Reward
<1>. QED
  BY <1>1, <1>2

-----------------------------------------------------------------------------
(* Where a request and then its intent are, and what is settled there: a   *)
(* quote is generated, and transactions sent, only of what was profitable; *)
(* what is spent is the amount of the one call.                            *)
Underway ==
  /\ pc # "idle" => request \in Requests
  /\ pc = "generate" => ~AskThrows(request)
  /\ pc \in {"published", "judge", "prepare", "final", "execute"} => intent \in Intent
  /\ pc = "execute" => Profitable(intent)
  /\ pc \notin {"prepare", "final", "execute", "ended"} => spent = 0
  /\ spent > 0 => Profitable(intent) /\ spent = TotalFill(intent)

Typed == TypeOK /\ Underway

(* The steps before there is a quote leave its variables alone.            *)
LEMMA EarlyTyped ==
  ASSUME Typed, Store \/ Validate \/ CheckFeasible \/ UpdateQuoteDb \/ EndDeficits \/ EndRest
  PROVE  Typed'
<1>1. UNCHANGED <<env, request, life, ask, delta, left, quoted, filled>>
  BY DEF Store, Validate, CheckFeasible, UpdateQuoteDb, EndDeficits, EndRest, quote
<1>2. cache' \in [Reads -> [Tokens -> Nat] \cup {NoData}]
  BY CacheTyped DEF Typed, Store, Validate, CheckFeasible, UpdateQuoteDb, EndDeficits,
     EndRest, Interrupted, Reads
<1>3. pc' \in {"store", "validate", "feasible", "generate", "rest", "record", "answered"}
  BY DEF Store, Validate, CheckFeasible, UpdateQuoteDb, EndDeficits, EndRest, Answer, Record
<1>4. receipt' \in Responses /\ response' \in Responses
  BY DEF Typed, TypeOK, Store, Validate, CheckFeasible, UpdateQuoteDb, EndDeficits,
     EndRest, Answer, Record, Responses, record
<1>5. todo' \subseteq Tokens
  <2>1. Fundable(request) \subseteq Tokens
    BY PricingAssumption DEF Fundable, SourceTokens
  <2>. QED
    BY <2>1 DEF Typed, TypeOK, Store, Validate, CheckFeasible, UpdateQuoteDb,
       EndDeficits, EndRest, quote
<1>6. TypeOK'
  BY <1>1, <1>2, <1>3, <1>4, <1>5 DEF Typed, TypeOK, env, life, Points
<1>7. pc' = "generate" => ~AskThrows(request)
  BY FeasibleIsProfitable DEF Store, Validate, CheckFeasible, UpdateQuoteDb, EndDeficits,
     EndRest, Answer, Record
<1>8. pc \notin {"idle", "prepare", "final", "execute", "ended"}
  BY DEF Store, Validate, CheckFeasible, UpdateQuoteDb, EndDeficits, EndRest
<1>9. Underway'
  BY <1>1, <1>3, <1>7, <1>8 DEF Typed, Underway, life, AskThrows, FeeChain, Profitable,
     TotalFill
<1>. QED
  BY <1>6, <1>9 DEF Typed

LEMMA GenerateTyped ==
  ASSUME Typed, Generate
  PROVE  Typed'
<1>1. UNCHANGED <<env, request, life>> /\ pc = "generate"
  BY DEF Generate
<1>2. pc' \in {"deficits", "record"} /\ receipt' \in Responses /\ response' \in Responses
  BY DEF Generate, Record, Typed, TypeOK, Responses, record
<1>3. request \in Intent /\ ~AskThrows(request)
  BY <1>1, QuotingAssumption DEF Typed, Underway
<1>4. cache' \in [Reads -> [Tokens -> Nat] \cup {NoData}]
  <2>1. \A k \in Reads : Read(k) \in [Tokens -> Nat]
    BY ReadTyped DEF Typed
  <2>2. CASE cache' = [k \in Reads |-> Read(k)]
    BY <2>1, <2>2
  <2>3. CASE UNCHANGED cache \/ Cached("tokens")
    BY <2>3, CacheTyped DEF Typed, Reads
  <2>. QED
    BY <2>2, <2>3 DEF Generate
<1>5. /\ ask' \in Nat /\ filled' \in Nat
      /\ delta' \in [Tokens -> Int]
      /\ left' \in [Tokens -> Nat] /\ quoted' \in [Tokens -> Nat]
      /\ todo' \subseteq Tokens
  <2>1. CASE UNCHANGED quote
    BY <2>1 DEF quote, Typed, TypeOK
  <2>2. CASE /\ ask' = Ask(request, TotalFill(request))
             /\ delta' = [t \in Tokens |->
                  IF t \in Fundable(request) THEN Delta(t, Read("tokens")) ELSE 0]
             /\ left' = [t \in Tokens |->
                  IF t \in AcceptedTokens(request) THEN request.reward[t] ELSE 0]
             /\ todo' = Fundable(request)
             /\ UNCHANGED <<quoted, filled>>
    <3>1. ask' \in Nat
      BY <1>3, <2>2, AskIsAmount, FirstCall
    <3>2. ASSUME NEW t \in Tokens
          PROVE  Delta(t, Read("tokens")) \in Int
      <4>1. Read("tokens")[t] \in Nat
        BY ReadTyped DEF Typed, Reads
      <4>2. MinBalance[t] \in Nat /\ Unit \in Nat
        BY PricingAssumption
      <4>3. MinBalance[t] * Unit \in Int
        BY <4>2
      <4>. QED
        BY <4>1, <4>3 DEF Delta, Normalized
    <3>3. delta' \in [Tokens -> Int]
      BY <2>2, <3>2
    <3>4. left' \in [Tokens -> Nat]
      BY <1>3, <2>2, OfferedTyped
    <3>5. todo' \subseteq Tokens
      BY <2>2, PricingAssumption DEF Fundable, SourceTokens
    <3>. QED
      BY <2>2, <3>1, <3>3, <3>4, <3>5 DEF Typed, TypeOK
  <2>. QED
    BY <2>1, <2>2 DEF Generate
<1>6. TypeOK'
  BY <1>1, <1>2, <1>4, <1>5 DEF Typed, TypeOK, env, life, Points
<1>7. Underway'
  BY <1>1, <1>2 DEF Typed, Underway, life, Profitable, TotalFill
<1>. QED
  BY <1>6, <1>7 DEF Typed

(* What a pass asks of a token is within what is left of it.               *)
LEMMA AmountFits ==
  ASSUME TypeOK, NEW t \in Tokens, filled < ask
  PROVE  /\ DeficitAmount(t) \in 0..left[t] /\ DeficitAmount(t) <= ask - filled
         /\ RestAmount(t) \in 0..left[t] /\ RestAmount(t) <= ask - filled
<1>1. /\ delta[t] \in Int /\ left[t] \in Nat /\ ask \in Nat /\ filled \in Nat
  BY DEF TypeOK
<1>. QED
  BY <1>1 DEF DeficitAmount, RestAmount, Min2

LEMMA FillTyped ==
  ASSUME Typed, NEW t \in Tokens, FillDeficit(t) \/ FillRest(t)
  PROVE  Typed'
<1>1. /\ UNCHANGED <<env, cache, request, pc, record, ask, life>>
      /\ todo' = todo \ {t}
  BY DEF FillDeficit, FillRest
<1>2. PICK amount \in 0..left[t] : Fill(t, amount)
  BY AmountFits DEF FillDeficit, FillRest, Typed
<1>3. /\ delta[t] + amount \in Int
      /\ left[t] - amount \in Nat
      /\ quoted[t] + amount \in Nat
      /\ filled + amount \in Nat
  BY DEF Typed, TypeOK
<1>4. /\ delta' \in [Tokens -> Int]
      /\ left' \in [Tokens -> Nat] /\ quoted' \in [Tokens -> Nat]
      /\ filled' \in Nat
  BY <1>2, <1>3 DEF Fill, Typed, TypeOK
<1>5. TypeOK'
  BY <1>1, <1>4 DEF Typed, TypeOK, env, record, life
<1>6. Underway'
  BY <1>1 DEF Typed, Underway, life, AskThrows, FeeChain, Profitable, TotalFill
<1>. QED
  BY <1>5, <1>6 DEF Typed

LEMMA AroundTyped ==
  ASSUME Typed,
         \/ Tick \/ (\E t \in Tokens : Change(t)) \/ (\E k \in Reads : Expire(k))
         \/ UNCHANGED vars
  PROVE  Typed'
<1>1. UNCHANGED <<request, pc, record, quote, life>>
  BY DEF Tick, Change, Expire, vars
<1>2. clock' \in 0..MaxTime
  BY QuotingAssumption DEF Tick, Change, Expire, vars, env, Typed, TypeOK
<1>3. balance' \in [Tokens -> Nat]
  BY QuotingAssumption DEF Tick, Change, Expire, vars, env, Typed, TypeOK
<1>4. changes' \in 0..MaxChanges
  BY QuotingAssumption DEF Tick, Change, Expire, vars, env, Typed, TypeOK
<1>5. cache' \in [Reads -> [Tokens -> Nat] \cup {NoData}]
  BY DEF Tick, Change, Expire, vars, env, Typed, TypeOK
<1>6. TypeOK'
  BY <1>1, <1>2, <1>3, <1>4, <1>5 DEF Typed, TypeOK, record, quote, life
<1>7. Underway'
  BY <1>1 DEF Typed, Underway, life, AskThrows, FeeChain, Profitable, TotalFill
<1>. QED
  BY <1>6, <1>7 DEF Typed

LEMMA RequestTyped ==
  ASSUME Typed, NEW i \in Requests, Request(i)
  PROVE  Typed'
<1>1. /\ pc = "idle" /\ request' = i
      /\ UNCHANGED <<env, cache, record, quote, verdict, spent>>
      /\ pc' \in {"store", "published"}
      /\ pc' = "store" => UNCHANGED life
      /\ pc' = "published" => intent' = i /\ status' = "PENDING"
  BY DEF Request, life
<1>2. i \in Intent
  BY QuotingAssumption
<1>3. intent' \in Intent \cup {NoIntent} /\ status' \in Statuses
  BY <1>1, <1>2 DEF Typed, TypeOK, life, Statuses
<1>4. TypeOK'
  BY <1>1, <1>3 DEF Typed, TypeOK, env, record, quote, Points
<1>5. Underway'
  BY <1>1, <1>2 DEF Typed, Underway, TypeOK
<1>. QED
  BY <1>4, <1>5 DEF Typed

LEMMA PublishTyped ==
  ASSUME Typed, Publish
  PROVE  Typed'
<1>1. request \in Intent
  BY QuotingAssumption DEF Publish, Typed, Underway
<1>2. [t \in Tokens |-> IF quoted[t] > 0 THEN quoted[t] ELSE Unnamed] \in Reward
  BY DEF Typed, TypeOK, Reward
<1>3. intent' \in Intent
  <2>. DEFINE reward == [t \in Tokens |-> IF quoted[t] > 0 THEN quoted[t] ELSE Unnamed]
  <2>1. reward \in Reward
    BY <1>2
  <2>. HIDE DEF reward
  <2>2. [request EXCEPT !.reward = reward] \in Intent
    BY <1>1, <2>1 DEF Intent
  <2>. QED
    BY <2>2 DEF Publish, reward
<1>4. /\ UNCHANGED <<env, cache, request, record, quote, verdict, spent>>
      /\ pc = "answered" /\ pc' = "published" /\ status' = "PENDING"
  BY DEF Publish
<1>5. TypeOK'
  BY <1>3, <1>4 DEF Typed, TypeOK, env, record, quote, Points, Statuses
<1>6. Underway'
  BY <1>3, <1>4 DEF Typed, Underway, TypeOK
<1>. QED
  BY <1>5, <1>6 DEF Typed

(* The checks of an intent spend nothing.                                  *)
LEMMA ChecksTyped ==
  ASSUME Typed, ValidateIntent \/ FeasableIntent \/ Prepare \/ FinalFeasibilityCheck
  PROVE  Typed'
<1>1. UNCHANGED <<env, request, record, quote, intent, spent>>
  BY DEF ValidateIntent, FeasableIntent, Prepare, FinalFeasibilityCheck
<1>2. cache' \in [Reads -> [Tokens -> Nat] \cup {NoData}]
  BY CacheTyped DEF Typed, ValidateIntent, FeasableIntent, Prepare, FinalFeasibilityCheck,
     Interrupted, Reads
<1>3. /\ pc \in {"published", "judge", "prepare", "final"}
      /\ pc' \in {"judge", "prepare", "final", "execute", "ended"}
      /\ spent > 0 => pc' \in {"prepare", "final", "execute", "ended"}
  BY DEF Typed, Underway, ValidateIntent, FeasableIntent, Prepare, FinalFeasibilityCheck,
     Throws, Fails
<1>4. status' \in Statuses
  BY DEF Typed, TypeOK, ValidateIntent, FeasableIntent, Prepare, FinalFeasibilityCheck,
     Throws, Fails, Statuses
<1>5. verdict' \in Verdicts
  BY FeasibilityTyped DEF Typed, TypeOK, ValidateIntent, FeasableIntent, Prepare,
     FinalFeasibilityCheck, Throws
<1>6. TypeOK'
  BY <1>1, <1>2, <1>3, <1>4, <1>5 DEF Typed, TypeOK, env, record, quote, Points
<1>7. pc' = "execute" => Profitable(intent)
  BY FeasibleIsProfitable DEF ValidateIntent, FeasableIntent, Prepare,
     FinalFeasibilityCheck, Throws, Fails
<1>8. spent = 0 \/ spent > 0
  BY DEF Typed, TypeOK
<1>9. Underway'
  BY <1>1, <1>3, <1>7, <1>8 DEF Typed, Underway, Profitable, TotalFill
<1>. QED
  BY <1>6, <1>9 DEF Typed

LEMMA ExecuteTyped ==
  ASSUME Typed, Execute
  PROVE  Typed'
<1>1. /\ UNCHANGED <<clock, changes, cache, request, record, quote, intent, verdict>>
      /\ pc = "execute"
  BY DEF Execute
<1>2. intent \in Intent /\ Profitable(intent)
  BY <1>1 DEF Typed, Underway
<1>3. /\ intent.calls[1].target \in Tokens /\ intent.calls[1].amount \in Nat
      /\ TotalFill(intent) = intent.calls[1].amount
  BY <1>2, FirstCall DEF TotalFill
<1>4. pc' \in {"prepare", "ended"} /\ status' \in Statuses
  BY DEF Execute, Fails, Statuses
<1>5. /\ balance' \in [Tokens -> Nat]
      /\ spent' \in {spent, TotalFill(intent)} /\ spent' \in Nat
  <2>1. CASE UNCHANGED <<balance, spent>>
    BY <2>1 DEF Typed, TypeOK
  <2>2. CASE LET transfer == intent.calls[1]
             IN /\ transfer.amount <= balance[transfer.target]
                /\ balance' = [balance EXCEPT ![transfer.target] = @ - transfer.amount]
                /\ spent' = transfer.amount
    <3>. DEFINE u == intent.calls[1].target
                n == intent.calls[1].amount
    <3>1. balance[u] - n \in Nat
      BY <1>3, <2>2 DEF Typed, TypeOK
    <3>2. balance' \in [Tokens -> Nat]
      BY <1>3, <2>2, <3>1 DEF Typed, TypeOK
    <3>. QED
      BY <1>3, <2>2, <3>2
  <2>. QED
    BY <2>1, <2>2 DEF Execute
<1>6. TypeOK'
  BY <1>1, <1>4, <1>5 DEF Typed, TypeOK, record, quote, Points
<1>7. Underway'
  BY <1>1, <1>2, <1>4, <1>5 DEF Typed, Underway, Profitable, TotalFill
<1>. QED
  BY <1>6, <1>7 DEF Typed

LEMMA NextTyped == Typed /\ [Next]_vars => Typed'
BY EarlyTyped, GenerateTyped, FillTyped, AroundTyped, RequestTyped, PublishTyped,
   ChecksTyped, ExecuteTyped DEF Next, QuoteStep, IntentStep

LEMMA TypedAlways == Spec => []Typed
<1>1. Init => Typed
  BY QuotingAssumption DEF Init, Typed, TypeOK, Underway, NoData, Nothing, Reads, Points,
     Responses, Statuses, Verdicts
<1>. QED
  BY <1>1, NextTyped, PTL DEF Spec

(* Every reachable state is well typed: in particular no token's share of  *)
(* the reward, nor a balance, ever goes below zero (generateQuote,         *)
(* executeFulfillIntent).                                                  *)
THEOREM TypeCorrect == Spec => []TypeOK
<1>1. Typed => TypeOK
  BY DEF Typed
<1>. QED
  BY <1>1, TypedAlways, PTL

(* The solver never fulfills at a loss, for every configuration of         *)
(* chains, tokens and fees, whatever balances, cached or not, the checks   *)
(* see (isRouteFeasible, finalFeasibilityCheck).                           *)
THEOREM NeverAtLoss == Spec => []NoLoss
<1>1. Typed => NoLoss
  BY DEF Typed, Underway, NoLoss, Profitable
<1>. QED
  BY <1>1, TypedAlways, PTL

-----------------------------------------------------------------------------
(* The passes over the reward.  What a token's deficit is does not change  *)
(* while they fill it: Deficit takes off what is quoted.                   *)
Whole(t) == Min2(Deficit(t), Offered(t))
Books == filled <= ask /\ \A t \in Tokens : quoted[t] + left[t] = Offered(t)

(* The first pass fills whole deficits until the ask is covered, ...       *)
FirstPass ==
  /\ todo \subseteq Fundable(request)
  /\ \A t \in Tokens : quoted[t] <= Deficit(t) /\ (t \in todo => quoted[t] = 0)
  /\ filled = ask \/ \A t \in Fundable(request) \ todo : quoted[t] >= Whole(t)

(* ... and unless it has, the second begins with all of them filled.       *)
SecondPass ==
  \/ \A t \in Fundable(request) : quoted[t] >= Whole(t)
  \/ filled = ask /\ \A t \in Fundable(request) : quoted[t] <= Deficit(t)

Early == {"idle", "store", "validate", "feasible", "generate"}
Passes ==
  /\ pc \in Early => response = "none" /\ filled = 0 /\ quoted = Nothing
  /\ pc = "deficits" => response = "none" /\ Books /\ FirstPass
  /\ pc = "rest" => response = "none" /\ Books /\ SecondPass
  /\ response = "quote" => SecondPass

LEMMA FundableTokens == Fundable(request) \subseteq Tokens
BY PricingAssumption DEF Fundable, SourceTokens

LEMMA AmountsTyped ==
  ASSUME Typed, pc # "idle", NEW t \in Tokens
  PROVE  /\ delta[t] \in Int /\ left[t] \in Nat /\ quoted[t] \in Nat
         /\ ask \in Nat /\ filled \in Nat
         /\ Offered(t) \in Nat /\ Deficit(t) \in Nat /\ Whole(t) \in Nat
<1>1. /\ delta[t] \in Int /\ left[t] \in Nat /\ quoted[t] \in Nat
      /\ ask \in Nat /\ filled \in Nat
  BY DEF Typed, TypeOK
<1>2. request \in Intent
  BY QuotingAssumption DEF Typed, Underway
<1>3. Offered(t) \in Nat
  BY <1>2, OfferedTyped DEF Offered
<1>4. Deficit(t) \in Nat
  BY <1>1 DEF Deficit
<1>. QED
  BY <1>1, <1>3, <1>4 DEF Whole, Min2

(* What a step of a pass does to the tokens.                               *)
LEMMA FillStep ==
  ASSUME Typed, NEW t \in Tokens, NEW amount \in 0..left[t], Fill(t, amount),
         UNCHANGED request, Books, pc # "idle", amount <= ask - filled
  PROVE  /\ quoted'[t] = quoted[t] + amount /\ filled' = filled + amount
         /\ \A u \in Tokens : u # t => quoted'[u] = quoted[u]
         /\ \A u \in Tokens : quoted'[u] + left'[u] = Offered(u)
         /\ \A u \in Tokens : Offered(u)' = Offered(u) /\ Deficit(u)' = Deficit(u)
         /\ \A u \in Tokens : Whole(u)' = Whole(u)
<1>1. /\ delta \in [Tokens -> Int] /\ left \in [Tokens -> Nat]
      /\ quoted \in [Tokens -> Nat] /\ filled \in Nat
  BY DEF Typed, TypeOK
<1>2. /\ delta'[t] = delta[t] + amount /\ left'[t] = left[t] - amount
      /\ quoted'[t] = quoted[t] + amount /\ filled' = filled + amount
      /\ \A u \in Tokens : u # t =>
           delta'[u] = delta[u] /\ left'[u] = left[u] /\ quoted'[u] = quoted[u]
  BY <1>1 DEF Fill
<1>3. \A u \in Tokens : Offered(u)' = Offered(u)
  BY DEF Offered, AcceptedTokens
<1>4. ASSUME NEW u \in Tokens
      PROVE  Deficit(u)' = Deficit(u)
  <2>1. CASE u = t
    BY <1>1, <1>2, <2>1 DEF Deficit
  <2>2. CASE u # t
    BY <1>2, <2>2 DEF Deficit
  <2>. QED
    BY <2>1, <2>2
<1>5. ASSUME NEW u \in Tokens
      PROVE  quoted'[u] + left'[u] = Offered(u)
  <2>1. quoted[u] + left[u] = Offered(u)
    BY DEF Books
  <2>2. CASE u = t
    BY <1>1, <1>2, <2>1, <2>2
  <2>3. CASE u # t
    BY <1>2, <2>1, <2>3
  <2>. QED
    BY <2>2, <2>3
<1>. QED
  BY <1>2, <1>3, <1>4, <1>5 DEF Whole, Min2

LEMMA FillDeficitKeeps ==
  ASSUME Typed, Passes, NEW t \in Tokens, FillDeficit(t)
  PROVE  Passes'
<1>. DEFINE amount == DeficitAmount(t)
<1>1. /\ pc = "deficits" /\ pc' = pc /\ UNCHANGED <<request, response, ask>>
      /\ filled < ask /\ t \in todo /\ todo' = todo \ {t}
      /\ Fill(t, amount)
  BY DEF FillDeficit, record
<1>2. Books /\ FirstPass /\ response = "none"
  BY <1>1 DEF Passes
<1>3. amount \in 0..left[t] /\ amount <= ask - filled
  BY <1>1, AmountFits DEF Typed
<1>4. /\ delta[t] \in Int /\ left[t] \in Nat /\ ask \in Nat /\ filled \in Nat
      /\ quoted[t] = 0 /\ quoted[t] + left[t] = Offered(t)
  BY <1>1, <1>2, AmountsTyped DEF FirstPass, Books
<1>5. /\ amount = Whole(t) \/ amount = ask - filled
      /\ amount <= Deficit(t)
  BY <1>4 DEF DeficitAmount, Whole, Deficit, Min2
<1>. HIDE DEF amount
<1>6. /\ quoted'[t] = quoted[t] + amount /\ filled' = filled + amount
      /\ \A u \in Tokens : u # t => quoted'[u] = quoted[u]
      /\ \A u \in Tokens : quoted'[u] + left'[u] = Offered(u)
      /\ \A u \in Tokens : Offered(u)' = Offered(u) /\ Deficit(u)' = Deficit(u)
      /\ \A u \in Tokens : Whole(u)' = Whole(u)
  BY <1>1, <1>2, <1>3, FillStep
<1>7. Books'
  BY <1>1, <1>3, <1>4, <1>6 DEF Books
<1>8. ASSUME NEW u \in Tokens
      PROVE  quoted'[u] <= Deficit(u) /\ (u \in todo' => quoted'[u] = 0)
  <2>1. CASE u = t
    BY <1>1, <1>3, <1>4, <1>5, <1>6, <2>1
  <2>2. CASE u # t
    BY <1>1, <1>2, <1>6, <2>2 DEF FirstPass
  <2>. QED
    BY <2>1, <2>2
<1>9. filled' = ask \/ \A u \in Fundable(request) \ todo' : quoted'[u] >= Whole(u)
  <2>1. CASE amount = ask - filled
    BY <1>4, <1>6, <2>1
  <2>2. CASE amount = Whole(t)
    <3>1. ASSUME NEW u \in Fundable(request) \ todo'
          PROVE  quoted'[u] >= Whole(u)
      <4>1. CASE u = t
        BY <1>3, <1>4, <1>6, <2>2, <4>1
      <4>2. CASE u # t
        <5>1. u \in Tokens /\ u \in Fundable(request) \ todo
          BY <1>1, <3>1, <4>2, FundableTokens
        <5>2. quoted[u] >= Whole(u)
          BY <1>1, <1>2, <1>4, <5>1 DEF FirstPass
        <5>. QED
          BY <1>6, <4>2, <5>1, <5>2
      <4>. QED
        BY <4>1, <4>2
    <3>. QED
      BY <3>1
  <2>. QED
    BY <1>5, <2>1, <2>2
<1>10. Fundable(request)' = Fundable(request)
  BY <1>1 DEF Fundable
<1>11. FirstPass'
  BY <1>1, <1>2, <1>6, <1>8, <1>9, <1>10, FundableTokens DEF FirstPass
<1>. QED
  BY <1>1, <1>2, <1>7, <1>11 DEF Passes, Early

LEMMA FillRestKeeps ==
  ASSUME Typed, Passes, NEW t \in Tokens, FillRest(t)
  PROVE  Passes'
<1>. DEFINE amount == RestAmount(t)
<1>1. /\ pc = "rest" /\ pc' = pc /\ UNCHANGED <<request, response, ask>>
      /\ filled < ask /\ Fill(t, amount)
  BY DEF FillRest, record
<1>2. Books /\ SecondPass /\ response = "none"
  BY <1>1 DEF Passes
<1>3. amount \in 0..left[t] /\ amount <= ask - filled
  BY <1>1, AmountFits DEF Typed
<1>4. left[t] \in Nat /\ ask \in Nat /\ filled \in Nat /\ quoted[t] \in Nat
  BY <1>1, AmountsTyped
<1>. HIDE DEF amount
<1>5. /\ quoted'[t] = quoted[t] + amount /\ filled' = filled + amount
      /\ \A u \in Tokens : u # t => quoted'[u] = quoted[u]
      /\ \A u \in Tokens : quoted'[u] + left'[u] = Offered(u)
      /\ \A u \in Tokens : Offered(u)' = Offered(u) /\ Deficit(u)' = Deficit(u)
      /\ \A u \in Tokens : Whole(u)' = Whole(u)
  BY <1>1, <1>2, <1>3, FillStep
<1>6. Books'
  BY <1>1, <1>3, <1>4, <1>5 DEF Books
<1>7. ASSUME NEW u \in Fundable(request)
      PROVE  quoted'[u] >= Whole(u)'
  <2>1. u \in Tokens /\ quoted[u] >= Whole(u)
    BY <1>1, <1>2, <1>4, FundableTokens DEF SecondPass
  <2>2. quoted[u] \in Nat /\ Whole(u) \in Nat
    BY <1>1, <2>1, AmountsTyped
  <2>3. quoted'[u] >= quoted[u] /\ quoted'[u] \in Nat
    BY <1>3, <1>4, <1>5, <2>1, <2>2
  <2>. QED
    BY <1>5, <2>1, <2>2, <2>3
<1>8. Fundable(request)' = Fundable(request)
  BY <1>1 DEF Fundable
<1>9. SecondPass'
  BY <1>7, <1>8 DEF SecondPass
<1>. QED
  BY <1>1, <1>2, <1>6, <1>9 DEF Passes, Early

(* Between the passes, and when a quote has been made, nothing is filled.  *)
LEMMA NotFilled ==
  ASSUME UNCHANGED <<request, ask, delta, left, quoted, filled>>
  PROVE  /\ Books => Books'
         /\ SecondPass => SecondPass'
BY DEF Books, SecondPass, Whole, Deficit, Offered, Fundable, AcceptedTokens, Min2

LEMMA EndDeficitsKeeps ==
  ASSUME Typed, Passes, EndDeficits
  PROVE  Passes'
<1>1. /\ pc = "deficits" /\ pc' = "rest" /\ (todo = {} \/ filled >= ask)
      /\ UNCHANGED <<request, response, ask, delta, left, quoted, filled>>
  BY DEF EndDeficits, record
<1>2. Books /\ FirstPass /\ response = "none"
  BY <1>1 DEF Passes
<1>3. ask \in Nat /\ filled \in Nat /\ filled <= ask
  BY <1>2 DEF Typed, TypeOK, Books
<1>4. CASE filled = ask
  <2>1. SecondPass
    BY <1>2, <1>4, FundableTokens DEF FirstPass, SecondPass
  <2>. QED
    BY <1>1, <1>2, <2>1, NotFilled DEF Passes, Early
<1>5. CASE todo = {} /\ filled # ask
  <2>1. SecondPass
    BY <1>2, <1>5 DEF FirstPass, SecondPass
  <2>. QED
    BY <1>1, <1>2, <2>1, NotFilled DEF Passes, Early
<1>. QED
  BY <1>1, <1>3, <1>4, <1>5

LEMMA GenerateKeeps ==
  ASSUME Typed, Passes, Generate
  PROVE  Passes'
<1>1. pc = "generate" /\ UNCHANGED request /\ response = "none"
  BY DEF Generate, Passes, Early
<1>2. CASE pc' = "record"
  BY <1>1, <1>2 DEF Generate, Record, Passes, Early
<1>3. CASE pc' # "record"
  <2>1. /\ pc' = "deficits" /\ UNCHANGED <<response, quoted, filled>>
        /\ filled' = 0 /\ quoted' = Nothing
        /\ ask' \in Nat /\ todo' = Fundable(request)
        /\ left' = [t \in Tokens |->
                      IF t \in AcceptedTokens(request) THEN request.reward[t] ELSE 0]
    <3>1. /\ pc' = "deficits" /\ UNCHANGED <<response, quoted, filled>>
          /\ todo' = Fundable(request)
          /\ left' = [t \in Tokens |->
                        IF t \in AcceptedTokens(request) THEN request.reward[t] ELSE 0]
      BY <1>3 DEF Generate, Record, record
    <3>2. filled = 0 /\ quoted = Nothing
      BY <1>1 DEF Passes, Early
    <3>3. ask' \in Nat
      BY GenerateTyped DEF Typed, TypeOK
    <3>. QED
      BY <3>1, <3>2, <3>3
  <2>2. Typed' /\ pc' # "idle"
    BY <2>1, GenerateTyped
  <2>3. Books'
    <3>1. ASSUME NEW t \in Tokens
          PROVE  quoted'[t] + left'[t] = Offered(t)'
      <4>1. left'[t] = Offered(t)'
        BY <1>1, <2>1 DEF Offered, AcceptedTokens
      <4>2. quoted'[t] = 0 /\ left'[t] \in Nat
        BY <2>1, <2>2 DEF Nothing, Typed, TypeOK
      <4>. QED
        BY <4>1, <4>2
    <3>. QED
      BY <2>1, <3>1 DEF Books
  <2>4. FirstPass'
    <3>1. Fundable(request)' = Fundable(request)
      BY <1>1 DEF Fundable
    <3>2. ASSUME NEW t \in Tokens
          PROVE  quoted'[t] = 0 /\ quoted'[t] <= Deficit(t)'
      <4>1. quoted'[t] = 0 /\ delta'[t] \in Int
        BY <2>1, <2>2 DEF Nothing, Typed, TypeOK
      <4>. QED
        BY <4>1 DEF Deficit
    <3>. QED
      BY <2>1, <3>1, <3>2 DEF FirstPass
  <2>. QED
    BY <1>1, <2>1, <2>3, <2>4 DEF Passes, Early
<1>. QED
  BY <1>2, <1>3

LEMMA NextPasses == Typed /\ Passes /\ [Next]_vars => Passes'
<1>. SUFFICES ASSUME Typed, Passes, [Next]_vars
              PROVE  Passes'
  OBVIOUS
<1>1. CASE Store \/ Validate \/ CheckFeasible
  <2>1. /\ pc \in Early /\ UNCHANGED <<request, ask, delta, left, quoted, filled>>
        /\ \/ pc' \in Early /\ UNCHANGED response
           \/ pc' \in {"record", "answered"} /\ response' # "quote"
    BY <1>1 DEF Store, Validate, CheckFeasible, Answer, Record, Early, quote, record
  <2>. QED
    BY <2>1 DEF Passes, Early
<1>2. ASSUME NEW i \in Requests, Request(i)
      PROVE  Passes'
  <2>1. /\ pc = "idle" /\ pc' \in {"store", "published"}
        /\ UNCHANGED <<response, ask, delta, left, quoted, filled>>
    BY <1>2 DEF Request, quote, record
  <2>. QED
    BY <2>1 DEF Passes, Early
<1>3. CASE EndRest
  <2>1. /\ pc = "rest" /\ pc' = "record"
        /\ UNCHANGED <<request, ask, delta, left, quoted, filled>>
    BY <1>3 DEF EndRest, Record, quote
  <2>2. SecondPass'
    BY <2>1, NotFilled DEF Passes
  <2>. QED
    BY <2>1, <2>2 DEF Passes, Early
<1>4. CASE UpdateQuoteDb \/ Publish \/ IntentStep
  <2>1. /\ UNCHANGED <<request, response, ask, delta, left, quoted, filled>>
        /\ pc' \in Points \ (Early \cup {"deficits", "rest"})
    BY <1>4 DEF UpdateQuoteDb, Publish, IntentStep, ValidateIntent, FeasableIntent, Prepare,
       FinalFeasibilityCheck, Execute, Throws, Fails, quote, record, Points, Early
  <2>. QED
    BY <2>1, NotFilled DEF Passes, Early
<1>5. CASE UNCHANGED <<request, pc, record, quote>>
  <2>1. UNCHANGED <<request, pc, response, ask, delta, left, quoted, filled, todo>>
    BY <1>5 DEF quote, record
  <2>2. FirstPass => FirstPass'
    BY <2>1 DEF FirstPass, Whole, Deficit, Offered, Fundable, AcceptedTokens, Min2
  <2>. QED
    BY <2>1, <2>2, NotFilled DEF Passes
<1>6. CASE Tick \/ (\E t \in Tokens : Change(t)) \/ (\E k \in Reads : Expire(k))
  BY <1>5, <1>6 DEF Tick, Change, Expire
<1>7. CASE UNCHANGED vars
  BY <1>5, <1>7 DEF vars
<1>. QED
  BY <1>1, <1>2, <1>3, <1>4, <1>6, <1>7, GenerateKeeps, FillDeficitKeeps, FillRestKeeps,
     EndDeficitsKeeps DEF Next, QuoteStep

LEMMA PassesAlways == Spec => []Passes
<1>1. Init => Passes
  BY DEF Init, Passes, Early
<1>. QED
  BY <1>1, NextPasses, TypedAlways, PTL DEF Spec

(* A quote asks a token for more than its deficit only when all deficits   *)
(* are filled as far as the reward offers, for any number of tokens and    *)
(* whatever their balances (generateQuote).                                *)
THEOREM FillsDeficitsFirst == Spec => []DeficitsFirst
<1>1. ASSUME Typed, Passes
      PROVE  DeficitsFirst
  <2>. SUFFICES ASSUME response = "quote", NEW t \in Fundable(request),
                       NEW d \in Fundable(request), quoted[t] > Deficit(t)
                PROVE  quoted[d] >= Min2(Deficit(d), Offered(d))
    BY DEF DeficitsFirst
  <2>1. SecondPass /\ pc # "idle"
    BY <1>1 DEF Passes, Early
  <2>2. quoted[t] \in Nat /\ Deficit(t) \in Nat
    BY <1>1, <2>1, AmountsTyped, FundableTokens
  <2>. QED
    BY <2>1, <2>2 DEF SecondPass, Whole
<1>. QED
  BY <1>1, PassesAlways, TypedAlways, PTL

-----------------------------------------------------------------------------
(* The books.                                                              *)

QuotedSum == SumOver(quoted, Tokens)
SumKept == QuotedSum = filled

LEMMA TokensFinite == IsFiniteSet(Tokens)
BY PricingAssumption

LEMMA FillKeepsSum ==
  ASSUME TypeOK, SumKept, NEW t \in Tokens, NEW amount \in Int, Fill(t, amount)
  PROVE  SumKept'
<1>1. quoted \in [Tokens -> Nat] /\ filled \in Nat
  BY DEF TypeOK
<1>2. /\ quoted'[t] = quoted[t] + amount /\ filled' = filled + amount
      /\ \A u \in Tokens \ {t} : quoted'[u] = quoted[u]
  BY <1>1 DEF Fill
<1>3. SumOver(quoted', Tokens) = SumOver(quoted, Tokens) + amount
  BY <1>1, <1>2, TokensFinite, SumChanged
<1>. QED
  BY <1>2, <1>3 DEF SumKept, QuotedSum

LEMMA InitSum == Init => SumKept
<1>. SUFFICES ASSUME Init PROVE SumKept
  OBVIOUS
<1>1. \A t \in Tokens : quoted[t] = 0
  BY DEF Init, Nothing
<1>2. SumOver(quoted, Tokens) = SumOver(quoted, {})
  BY <1>1, TokensFinite, SumWithZeros
<1>. QED
  BY <1>2, SumEmpty DEF Init, SumKept, QuotedSum

LEMMA NextSum == Typed /\ SumKept /\ [Next]_vars => SumKept'
<1>. SUFFICES ASSUME Typed, SumKept, [Next]_vars
              PROVE  SumKept'
  OBVIOUS
<1>1. ASSUME NEW t \in Tokens, FillDeficit(t)
      PROVE  SumKept'
  <2>1. DeficitAmount(t) \in Int
    BY <1>1, AmountFits DEF Typed, FillDeficit, TypeOK
  <2>. QED
    BY <1>1, <2>1, FillKeepsSum DEF FillDeficit, Typed
<1>2. ASSUME NEW t \in Tokens, FillRest(t)
      PROVE  SumKept'
  <2>1. RestAmount(t) \in Int
    BY <1>2, AmountFits DEF Typed, FillRest, TypeOK
  <2>. QED
    BY <1>2, <2>1, FillKeepsSum DEF FillRest, Typed
<1>3. CASE UNCHANGED <<quoted, filled>>
  BY <1>3 DEF SumKept, QuotedSum
<1>. QED
  BY <1>1, <1>2, <1>3 DEF Next, QuoteStep, IntentStep, Tick, Change, Expire, Request, Store,
     Validate, CheckFeasible, Generate, EndDeficits, EndRest, UpdateQuoteDb, Publish,
     ValidateIntent, FeasableIntent, Prepare, FinalFeasibilityCheck, Execute, quote, vars

LEMMA SumAlways == Spec => []SumKept
BY InitSum, NextSum, TypedAlways, PTL DEF Spec

(* While the reward is filled, what is asked of each token and what is     *)
(* left of it make up what was offered of it, and all that is asked, added *)
(* up over any number of tokens, is what is covered of the ask and no more *)
(* (generateQuote).                                                        *)
THEOREM Balanced == Spec => []BooksOK
<1>1. ASSUME Typed, Passes, SumKept
      PROVE  BooksOK
  <2>. SUFFICES ASSUME pc \in {"deficits", "rest"}
                PROVE  /\ \A t \in Tokens : quoted[t] + left[t] = Offered(t)
                       /\ MapThenSumSet(LAMBDA t : quoted[t], Tokens) = filled
                       /\ filled <= ask
    BY DEF BooksOK
  <2>1. Books
    BY <1>1 DEF Passes
  <2>2. MapThenSumSet(LAMBDA t : quoted[t], Tokens) = filled
    BY <1>1 DEF SumKept, QuotedSum, SumOver
  <2>. QED
    BY <2>1, <2>2 DEF Books
<1>. QED
  BY <1>1, PassesAlways, SumAlways, TypedAlways, PTL

-----------------------------------------------------------------------------
(* What a quote is worth once it is published.                             *)

FundedFully == AcceptedTokens(request) \subseteq Fundable(request)
Asked == ask = Ask(request, TotalFill(request)) /\ Profitable(request)

(* The second pass leaves nothing behind it, unless the ask is covered.    *)
Emptied == filled = ask \/ \A t \in Fundable(request) \ todo : left[t] = 0

(* A quote asks no token for what is not offered of it, and covers the     *)
(* ask; the intent published is the request with the reward quoted.        *)
Covers ==
  /\ ask = Ask(request, TotalFill(request))
  /\ \A t \in Tokens : quoted[t] <= Offered(t)
  /\ FundedFully => filled = ask
QuotedIntent ==
  [request EXCEPT !.reward = [t \in Tokens |-> IF quoted[t] > 0 THEN quoted[t] ELSE Unnamed]]

Honours ==
  /\ pc \in Early \cup {"deficits", "rest"} => verdict = "none"
  /\ pc \in {"deficits", "rest"} => Asked
  /\ pc = "rest" => Emptied
  /\ response = "quote" =>
       /\ Covers
       /\ pc \in {"published", "judge", "prepare", "final", "execute"} => intent = QuotedIntent
       /\ FundedFully => verdict # "reward"

(* All that is offered of tokens the quote may ask for is what the request *)
(* was found profitable with, so emptying them covers the ask.             *)
LEMMA EmptiedCovers ==
  ASSUME Typed, pc = "rest", Books, SumKept, Asked, FundedFully,
         \A t \in Fundable(request) : left[t] = 0
  PROVE  filled = ask
<1>. DEFINE A == AcceptedTokens(request)
<1>1. request \in Intent
  BY QuotingAssumption DEF Typed, Underway
<1>2. A \in SUBSET Tokens /\ IsFiniteSet(A)
  BY <1>1, OfferedTyped, TokensFinite, FS_Subset
<1>3. /\ quoted \in [Tokens -> Nat] /\ left \in [Tokens -> Nat]
      /\ ask \in Nat /\ filled \in Nat
  BY DEF Typed, TypeOK
<1>4. ASSUME NEW t \in A
      PROVE  quoted[t] = request.reward[t]
  <2>1. quoted[t] + left[t] = request.reward[t] /\ left[t] = 0
    BY <1>2, <1>4 DEF Books, Offered, FundedFully
  <2>. QED
    BY <1>2, <1>3, <1>4, <2>1
<1>5. ASSUME NEW t \in Tokens \ A
      PROVE  quoted[t] = 0
  <2>1. quoted[t] + left[t] = 0
    BY <1>5 DEF Books, Offered
  <2>. QED
    BY <1>3, <1>5, <2>1
<1>6. SumOver(quoted, Tokens) = SumOver(quoted, A)
  BY <1>2, <1>3, <1>5, TokensFinite, SumWithZeros
<1>7. SumOver(quoted, A) = SumOver(request.reward, A)
  BY <1>2, <1>4, SumSame
<1>8. TotalRewards(request) = SumOver(request.reward, A)
  BY DEF TotalRewards, SumOver
<1>9. filled >= ask
  BY <1>6, <1>7, <1>8 DEF SumKept, QuotedSum, Asked, Profitable
<1>. QED
  BY <1>3, <1>9 DEF Books

(* The rewards of the intent published are all that was quoted.            *)
LEMMA QuotedIsProfitable ==
  ASSUME Typed, pc # "idle", SumKept, Covers, FundedFully
  PROVE  Profitable(QuotedIntent)
<1>. DEFINE i == QuotedIntent
            A == AcceptedTokens(i)
<1>1. request \in Intent
  BY QuotingAssumption DEF Typed, Underway
<1>2. /\ i.source = request.source /\ i.destination = request.destination
      /\ i.calls = request.calls
      /\ i.reward = [t \in Tokens |-> IF quoted[t] > 0 THEN quoted[t] ELSE Unnamed]
  BY <1>1 DEF QuotedIntent, Intent
<1>3. quoted \in [Tokens -> Nat]
  BY DEF Typed, TypeOK
<1>. HIDE DEF i
<1>4. A = {t \in SourceTokens(request.source) : i.reward[t] # Unnamed}
  BY <1>2 DEF AcceptedTokens
<1>5. SourceTokens(request.source) \subseteq Tokens
  BY PricingAssumption DEF SourceTokens
<1>6. A = {t \in SourceTokens(request.source) : quoted[t] > 0}
  BY <1>2, <1>3, <1>4, <1>5 DEF Unnamed
<1>. HIDE DEF A
<1>7. A \in SUBSET Tokens /\ IsFiniteSet(A)
  BY <1>5, <1>6, TokensFinite, FS_Subset
<1>8. ASSUME NEW t \in Tokens \ A
      PROVE  quoted[t] = 0
  <2>1. CASE t \in SourceTokens(request.source)
    BY <1>3, <1>6, <1>8, <2>1
  <2>2. CASE t \notin SourceTokens(request.source)
    <3>1. quoted[t] <= 0
      BY <1>8, <2>2 DEF Covers, Offered, AcceptedTokens
    <3>. QED
      BY <1>3, <1>8, <3>1
  <2>. QED
    BY <2>1, <2>2
<1>9. SumOver(quoted, Tokens) = SumOver(quoted, A)
  BY <1>3, <1>7, <1>8, TokensFinite, SumWithZeros
<1>10. \A t \in A : i.reward[t] = quoted[t]
  BY <1>2, <1>6, <1>7
<1>11. SumOver(i.reward, A) = SumOver(quoted, A)
  BY <1>7, <1>10, SumSame
<1>12. TotalRewards(i) = SumOver(i.reward, A)
  BY DEF TotalRewards, SumOver, A
<1>13. Ask(i, TotalFill(i)) = Ask(request, TotalFill(request))
  BY <1>2 DEF Ask, TotalFill, FeeChain
<1>14. TotalRewards(i) = ask
  BY <1>9, <1>11, <1>12 DEF SumKept, QuotedSum, Covers
<1>15. ask \in Nat
  BY DEF Typed, TypeOK
<1>16. Profitable(i)
  BY <1>13, <1>14, <1>15 DEF Profitable, Covers
<1>. QED
  BY <1>16 DEF i

LEMMA QuotedIsNotRefused ==
  ASSUME Typed, SumKept, Honours, response = "quote", FundedFully, NEW balances,
         pc \in {"judge", "final"}
  PROVE  Feasibility(intent, balances) # "reward"
<1>1. Profitable(intent)
  BY QuotedIsProfitable DEF Honours
<1>. QED
  BY <1>1 DEF Feasibility, CallError

LEMMA AskedKept ==
  ASSUME UNCHANGED <<request, ask>>
  PROVE  Asked => Asked'
BY DEF Asked, Ask, TotalFill, FeeChain, Profitable

LEMMA CoversKept ==
  ASSUME UNCHANGED <<request, ask, quoted, filled>>
  PROVE  Covers => Covers'
BY DEF Covers, FundedFully, Fundable, AcceptedTokens, Offered, Ask, TotalFill, FeeChain

LEMMA RequestKept ==
  ASSUME UNCHANGED <<request, quoted>>
  PROVE  QuotedIntent' = QuotedIntent /\ (FundedFully' => FundedFully)
BY DEF FundedFully, Fundable, AcceptedTokens, QuotedIntent

LEMMA NextHonours ==
  ASSUME Typed, Passes, SumKept, Honours, [Next]_vars
  PROVE  Honours'
<1>1. CASE Store \/ Validate \/ CheckFeasible
  <2>1. /\ pc \in Early /\ pc' \in Early \cup {"record", "answered"}
        /\ UNCHANGED verdict
        /\ UNCHANGED response \/ response' # "quote"
    BY <1>1 DEF Store, Validate, CheckFeasible, Answer, Record, Early, life, record
  <2>. QED
    BY <2>1 DEF Passes, Honours, Early
<1>2. ASSUME NEW i \in Requests, Request(i)
      PROVE  Honours'
  <2>1. pc = "idle" /\ pc' \in {"store", "published"} /\ UNCHANGED <<verdict, response>>
    BY <1>2 DEF Request, record, life
  <2>. QED
    BY <2>1 DEF Passes, Honours, Early
<1>3. CASE Generate
  <2>1. /\ pc = "generate" /\ pc' \in {"deficits", "record"} /\ UNCHANGED <<request, verdict>>
        /\ UNCHANGED response \/ response' # "quote"
        /\ pc' = "deficits" => ask' = Ask(request, TotalFill(request)) /\ Profitable(request)
    BY <1>3 DEF Generate, Record, life, record
  <2>2. pc' = "deficits" => Asked'
    BY <2>1 DEF Asked, Ask, TotalFill, FeeChain, Profitable
  <2>. QED
    BY <2>1, <2>2 DEF Passes, Honours, Early
<1>4. ASSUME NEW t \in Tokens, FillDeficit(t)
      PROVE  Honours'
  <2>1. pc = "deficits" /\ pc' = pc /\ UNCHANGED <<request, response, verdict, ask>>
    BY <1>4 DEF FillDeficit, life, record
  <2>2. Asked'
    BY <2>1, AskedKept DEF Honours
  <2>. QED
    BY <2>1, <2>2 DEF Passes, Honours
<1>5. CASE EndDeficits
  <2>1. /\ pc = "deficits" /\ pc' = "rest" /\ todo' = Fundable(request)
        /\ UNCHANGED <<request, response, verdict, ask, quoted, filled>>
    BY <1>5 DEF EndDeficits, life, record
  <2>2. Asked' /\ Emptied'
    BY <2>1, AskedKept DEF Honours, Emptied, Fundable
  <2>. QED
    BY <2>1, <2>2 DEF Passes, Honours
<1>6. ASSUME NEW t \in Tokens, FillRest(t)
      PROVE  Honours'
  <2>1. /\ pc = "rest" /\ pc' = pc /\ UNCHANGED <<request, response, verdict, ask>>
        /\ todo' = todo \ {t} /\ Fill(t, RestAmount(t))
    BY <1>6 DEF FillRest, life, record
  <2>2. Asked'
    BY <2>1, AskedKept DEF Honours
  <2>3. /\ left \in [Tokens -> Nat] /\ ask \in Nat /\ filled \in Nat
    BY DEF Typed, TypeOK
  <2>4. filled' = ask' \/ left'[t] = 0
    BY <2>1, <2>3 DEF Fill, RestAmount, Min2
  <2>5. \A u \in Tokens : u # t => left'[u] = left[u]
    BY <2>1, <2>3 DEF Fill
  <2>6. Emptied'
    <3>1. Emptied /\ filled < ask /\ Fundable(request)' = Fundable(request)
      BY <1>6, <2>1 DEF Honours, FillRest, Fundable
    <3>2. \A u \in Fundable(request) \ todo : left[u] = 0
      BY <2>3, <3>1 DEF Emptied
    <3>. QED
      BY <2>1, <2>4, <2>5, <3>1, <3>2, FundableTokens DEF Emptied
  <2>. QED
    BY <2>1, <2>2, <2>6 DEF Passes, Honours
<1>7. CASE EndRest
  <2>1. /\ pc = "rest" /\ pc' = "record" /\ (todo = {} \/ filled >= ask)
        /\ UNCHANGED <<request, verdict, ask, quoted, filled>>
    BY <1>7 DEF EndRest, Record, life, quote
  <2>2. Books /\ Asked /\ Emptied /\ verdict = "none"
    BY <2>1 DEF Passes, Honours
  <2>3. ask \in Nat /\ filled \in Nat /\ quoted \in [Tokens -> Nat] /\ left \in [Tokens -> Nat]
    BY DEF Typed, TypeOK
  <2>4. FundedFully => filled = ask
    <3>1. filled = ask \/ \A t \in Fundable(request) : left[t] = 0
      BY <2>1, <2>2, <2>3 DEF Emptied, Books
    <3>. QED
      BY <2>1, <2>2, <3>1, EmptiedCovers
  <2>5. \A t \in Tokens : quoted[t] <= Offered(t)
    <3>. SUFFICES ASSUME NEW t \in Tokens PROVE quoted[t] <= Offered(t)
      OBVIOUS
    <3>1. quoted[t] \in Nat /\ left[t] \in Nat /\ quoted[t] + left[t] = Offered(t)
      BY <2>2, <2>3 DEF Books
    <3>. QED
      BY <3>1
  <2>6. Covers'
    <3>1. Covers
      BY <2>2, <2>4, <2>5 DEF Covers, Asked
    <3>. QED
      BY <2>1, <3>1, CoversKept, RequestKept
  <2>. QED
    BY <2>1, <2>2, <2>6 DEF Honours, Early
<1>8. CASE UpdateQuoteDb
  <2>1. /\ pc = "record" /\ pc' = "answered"
        /\ UNCHANGED <<request, response, verdict, ask, quoted, filled>>
    BY <1>8 DEF UpdateQuoteDb, life, quote
  <2>. QED
    BY <2>1, CoversKept, RequestKept DEF Honours, Early
<1>9. CASE Publish
  <2>1. /\ pc' = "published" /\ response = "quote" /\ intent' = QuotedIntent
        /\ UNCHANGED <<request, response, verdict, ask, quoted, filled>>
    BY <1>9 DEF Publish, record, quote, QuotedIntent
  <2>. QED
    BY <2>1, CoversKept, RequestKept DEF Honours, Early
<1>10. CASE IntentStep
  <2>1. /\ UNCHANGED <<request, response, intent, ask, quoted, filled>>
        /\ pc \in {"published", "judge", "prepare", "final", "execute"}
        /\ pc' \in {"judge", "prepare", "final", "execute", "ended"}
    BY <1>10 DEF IntentStep, ValidateIntent, FeasableIntent, Prepare, FinalFeasibilityCheck,
       Execute, Throws, Fails, record, quote
  <2>2. \/ UNCHANGED verdict
        \/ pc \in {"judge", "final"} /\ verdict' = Feasibility(intent, Read("calls"))
    BY <1>10 DEF IntentStep, ValidateIntent, FeasableIntent, Prepare, FinalFeasibilityCheck,
       Execute, Throws, Fails
  <2>3. response = "quote" /\ FundedFully => verdict' # "reward"
    BY <2>2, QuotedIsNotRefused DEF Honours
  <2>. QED
    BY <2>1, <2>3, CoversKept, RequestKept DEF Honours, Early
<1>11. CASE UNCHANGED <<request, pc, record, quote, life>>
  <2>1. UNCHANGED <<request, pc, response, ask, quoted, filled, left, todo, intent, verdict>>
    BY <1>11 DEF quote, record, life
  <2>2. Emptied => Emptied'
    BY <2>1 DEF Emptied, Fundable
  <2>. QED
    BY <2>1, <2>2, AskedKept, CoversKept, RequestKept DEF Honours
<1>12. CASE Tick \/ (\E t \in Tokens : Change(t)) \/ (\E k \in Reads : Expire(k))
  BY <1>11, <1>12 DEF Tick, Change, Expire
<1>13. CASE UNCHANGED vars
  BY <1>11, <1>13 DEF vars
<1>. QED
  BY <1>1, <1>2, <1>3, <1>4, <1>5, <1>6, <1>7, <1>8, <1>9, <1>10, <1>12, <1>13
     DEF Next, QuoteStep

(* The intent published with the reward of a quote is never judged         *)
(* unprofitable, whatever has happened since, if the quote may ask for all *)
(* the tokens offered: it covers the ask of the same calls (generateQuote, *)
(* then isRouteFeasible by the feasable job and the last check).           *)
THEOREM HonoursQuotes == Spec => []QuoteHonoured
<1>1. Init => Honours
  BY DEF Init, Honours, Early
<1>2. Typed /\ Passes /\ SumKept /\ Honours /\ [Next]_vars => Honours'
  BY NextHonours
<1>3. Honours => QuoteHonoured
  BY DEF Honours, QuoteHonoured, FundedFully
<1>. QED
  BY <1>1, <1>2, <1>3, PassesAlways, SumAlways, TypedAlways, PTL DEF Spec
=============================================================================
