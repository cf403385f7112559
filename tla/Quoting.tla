------------------------------- MODULE Quoting ------------------------------
(***************************************************************************)
(* A quote, and the intent published with it: the request that is stored,  *)
(* validated, judged feasible and quoted; then the same checks of the      *)
(* intent, with the time that has passed and the balances that have moved, *)
(* and the transactions that fulfill it.                                   *)
(***************************************************************************)
EXTENDS Pricing

CONSTANTS Requests,   \* the requests a client may send
          Hyperlane,  \* the provers whose proof type is hyperlane
          Batch,      \* whether fulfilments are proved in batches
          Balances,   \* the balances the solver may start with
          Faults,     \* what may fail: a subset of {"rpc", "db"}
          MaxTime,    \* bound on the clock
          MaxChanges  \* bound on the changes of balances from outside

ASSUME QuotingAssumption ==
  /\ Requests \subseteq Intent
  /\ Balances \subseteq [Tokens -> Nat]
  /\ Hyperlane \subseteq Provers /\ Batch \in BOOLEAN
  /\ MaxTime \in Nat /\ MaxChanges \in Nat

VARIABLES clock,     \* the time
          balance,   \* the solver's balances on the chains
          cache,     \* those cached for calls and for the tokens of a quote
          request,   \* the request
          pc,        \* the point it, or then its intent, is at
          receipt,   \* the receipt of the quote's record
          response,  \* what the client is answered
          ask,       \* what the quote has to cover
          delta,     \* delta[t]: the deltas of the tokens it may ask for
          left,      \* left[t]: what is left of the reward offered in t
          quoted,    \* quoted[t]: what the quote asks in t
          filled,    \* how much of the ask that covers
          todo,      \* the tokens the pass has yet to look at
          intent,    \* the intent published
          status,    \* the status of its record
          verdict,   \* the last verdict on its feasibility
          spent,     \* what its fulfilment has transferred
          changes

env == <<clock, balance, changes>>
quote == <<ask, delta, left, quoted, filled, todo>>
record == <<receipt, response>>
life == <<intent, status, verdict, spent>>
vars == <<env, cache, request, pc, record, quote, life>>

NoData == [t \in Tokens |-> -1]
NoIntent == [source |-> "none"]
Nothing == [t \in Tokens |-> 0]

Reads == {"calls", "tokens"}
Points == {"idle", "store", "validate", "feasible", "generate", "deficits", "rest",
           "record", "answered", "published", "judge", "prepare", "final", "execute",
           "ended"}
Responses == {"none", "save", "rejected", "unsupported", "invalid", "infeasible",
              "insufficient", "internal", "quote"}
Statuses == {"ABSENT", "PENDING", "INVALID", "INFEASABLE", "FAILED", "SOLVED"}
Verdicts == {"none", "multi", "target", "liquidity", "rewards", "throws", "reward",
             "feasible"}

TypeOK ==
  /\ clock \in 0..MaxTime /\ changes \in 0..MaxChanges
  /\ balance \in [Tokens -> Nat]
  /\ cache \in [Reads -> [Tokens -> Nat] \cup {NoData}]
  /\ request \in Requests \cup {NoIntent}
  /\ pc \in Points
  /\ receipt \in Responses /\ response \in Responses
  /\ ask \in Nat /\ filled \in Nat
  /\ delta \in [Tokens -> Int]
  /\ left \in [Tokens -> Nat] /\ quoted \in [Tokens -> Nat]
  /\ todo \subseteq Tokens
  /\ intent \in Intent \cup {NoIntent}
  /\ status \in Statuses /\ verdict \in Verdicts
  /\ spent \in Nat

Init ==
  /\ clock = 0 /\ changes = 0
  /\ balance \in Balances
  /\ cache = [k \in Reads |-> NoData]
  /\ request = NoIntent /\ pc = "idle"
  /\ receipt = "none" /\ response = "none"
  /\ ask = 0 /\ filled = 0 /\ todo = {}
  /\ delta = Nothing /\ left = Nothing /\ quoted = Nothing
  /\ intent = NoIntent /\ status = "ABSENT" /\ verdict = "none" /\ spent = 0

-----------------------------------------------------------------------------
(* Around a request.                                                       *)

Tick ==
  /\ clock < MaxTime
  /\ clock' = clock + 1
  /\ UNCHANGED <<balance, changes, cache, request, pc, record, quote, life>>

(* Other fulfilments spend a token, rewards and rebalances bring some.     *)
Change(t) ==
  /\ changes < MaxChanges
  /\ changes' = changes + 1
  /\ \E other \in Balances : balance' = [balance EXCEPT ![t] = other[t]]
  /\ UNCHANGED <<clock, cache, request, pc, record, quote, life>>

Expire(k) ==
  /\ cache[k] # NoData
  /\ cache' = [cache EXCEPT ![k] = NoData]
  /\ UNCHANGED <<env, request, pc, record, quote, life>>

(* The balances a read answers, which it caches.                           *)
Read(k) == IF cache[k] = NoData THEN balance ELSE cache[k]
Cached(k) == cache' = [cache EXCEPT ![k] = Read(k)]

-----------------------------------------------------------------------------
(* QuoteService.getQuote.                                                  *)

(* The client asks for a quote, or publishes an intent without one.        *)
Request(i) ==
  /\ pc = "idle"
  /\ request' = i
  /\ \/ pc' = "store" /\ UNCHANGED life
     \/ pc' = "published" /\ intent' = i /\ status' = "PENDING"
        /\ UNCHANGED <<verdict, spent>>
  /\ UNCHANGED <<env, cache, record, quote>>

(* The answer without a change of the record, or with one.                 *)
Answer(r) == response' = r /\ pc' = "answered" /\ UNCHANGED receipt
Record(r) == response' = r /\ pc' = "record" /\ UNCHANGED receipt

(* storeQuoteIntentData.                                                   *)
Store ==
  /\ pc = "store"
  /\ \/ pc' = "validate" /\ UNCHANGED record
     \/ "db" \in Faults /\ Answer("save")
  /\ UNCHANGED <<env, cache, request, quote, life>>

(* validateQuoteIntentData, up to its check of the feasibility.            *)
Validate ==
  /\ pc = "validate"
  /\ IF request.destination \notin Solvers THEN Record("unsupported")
     ELSE IF ValidationThrows(request) THEN Answer("rejected")
     ELSE IF ~ValidationsSucceeded(request, clock) THEN Record("invalid")
     ELSE pc' = "feasible" /\ UNCHANGED record
  /\ UNCHANGED <<env, cache, request, quote, life>>

(* A read of balances fails: of those of the calls, or of the reward's,    *)
(* which come next.                                                        *)
Interrupted == "rpc" \in Faults /\ (UNCHANGED cache \/ Cached("calls"))

CheckFeasible ==
  /\ pc = "feasible"
  /\ \/ /\ Cached("calls")
        /\ LET v == Feasibility(request, Read("calls"))
           IN IF v = "feasible" THEN pc' = "generate" /\ UNCHANGED record
              ELSE IF v = "throws" THEN Answer("rejected")
              ELSE Record("infeasible")
     \/ Interrupted /\ Answer("rejected")
  /\ UNCHANGED <<env, request, quote, life>>

(* generateQuote: what is asked, and what there is to cover it.            *)
Generate ==
  /\ pc = "generate"
  /\ \/ /\ ~CalculateThrows(request) /\ CallError(request, Read("calls")) = "none"
        /\ cache' = [k \in Reads |-> Read(k)]
        /\ ask' = Ask(request, TotalFill(request))
        /\ delta' = [t \in Tokens |->
                       IF t \in Fundable(request) THEN Delta(t, Read("tokens")) ELSE 0]
        /\ left' = [t \in Tokens |->
                      IF t \in AcceptedTokens(request) THEN request.reward[t] ELSE 0]
        /\ todo' = Fundable(request)
        /\ IF Profitable(request) THEN pc' = "deficits" /\ UNCHANGED record
           ELSE Record("insufficient")
        /\ UNCHANGED <<quoted, filled>>
     \/ /\ \/ (CalculateThrows(request) \/ "rpc" \in Faults) /\ UNCHANGED cache
           \/ ~CalculateThrows(request) /\ "rpc" \in Faults /\ Cached("tokens")
           \/ /\ ~CalculateThrows(request) /\ CallError(request, Read("calls")) # "none"
              /\ cache' = [k \in Reads |-> Read(k)]
        /\ Record("internal")
        /\ UNCHANGED quote
  /\ UNCHANGED <<env, request, life>>

Min2(a, b) == IF a < b THEN a ELSE b

(* Broken: a deficit is filled with all that is offered.                   *)
AllOffered(t) == Min2(left[t], ask - filled)

(* Broken: a deficit is filled whatever is offered.                        *)
WholeDeficit(t) == IF delta[t] < 0 THEN Min2(-delta[t], ask - filled) ELSE 0

(* Broken: what is left of the ask is asked of the tokens in deficit only. *)
DeficitsOnly(t) == IF delta[t] < 0 THEN Min2(ask - filled, left[t]) ELSE 0

(* What each pass asks of a token: the first no more than the deficit.     *)
DeficitAmount(t) ==
  IF delta[t] < 0 THEN Min2(Min2(-delta[t], left[t]), ask - filled) ELSE 0
RestAmount(t) == Min2(ask - filled, left[t])

(* Broken: what was asked before is not taken off the reward.              *)
Reuse(t, amount) ==
  /\ delta' = [delta EXCEPT ![t] = @ + amount]
  /\ quoted' = [quoted EXCEPT ![t] = @ + amount]
  /\ filled' = filled + amount
  /\ UNCHANGED left

Fill(t, amount) ==
  /\ delta' = [delta EXCEPT ![t] = @ + amount]
  /\ left' = [left EXCEPT ![t] = @ - amount]
  /\ quoted' = [quoted EXCEPT ![t] = @ + amount]
  /\ filled' = filled + amount

(* The pass over the deficits, the largest delta first.                    *)
FillDeficit(t) ==
  /\ pc = "deficits" /\ filled < ask
  /\ t \in todo /\ \A u \in todo : delta[u] <= delta[t]
  /\ Fill(t, DeficitAmount(t))
  /\ todo' = todo \ {t}
  /\ UNCHANGED <<env, cache, request, pc, record, ask, life>>

EndDeficits ==
  /\ pc = "deficits"
  /\ todo = {} \/ filled >= ask
  /\ pc' = "rest" /\ todo' = Fundable(request)
  /\ UNCHANGED <<env, cache, request, record, ask, delta, left, quoted, filled, life>>

(* The pass over all of them, the smallest delta first.                    *)
FillRest(t) ==
  /\ pc = "rest" /\ filled < ask
  /\ t \in todo /\ \A u \in todo : delta[t] <= delta[u]
  /\ Fill(t, RestAmount(t))
  /\ todo' = todo \ {t}
  /\ UNCHANGED <<env, cache, request, pc, record, ask, life>>

EndRest ==
  /\ pc = "rest"
  /\ todo = {} \/ filled >= ask
  /\ Record("quote")
  /\ UNCHANGED <<env, cache, request, quote, life>>

(* updateQuoteDb, whose failure nobody notices.                            *)
UpdateQuoteDb ==
  /\ pc = "record"
  /\ pc' = "answered"
  /\ \/ receipt' = response
     \/ "db" \in Faults /\ UNCHANGED receipt
  /\ UNCHANGED <<env, cache, request, response, quote, life>>

-----------------------------------------------------------------------------
(* The intent.                                                             *)

(* The client publishes its route with the reward quoted.                  *)
Publish ==
  /\ pc = "answered" /\ response = "quote"
  /\ pc' = "published"
  /\ intent' = [request EXCEPT !.reward =
                  [t \in Tokens |-> IF quoted[t] > 0 THEN quoted[t] ELSE Unnamed]]
  /\ status' = "PENDING"
  /\ UNCHANGED <<env, cache, request, record, quote, verdict, spent>>

(* A job that throws has changed nothing when it is tried again; then it   *)
(* has failed.                                                             *)
Throws == pc' = "ended" /\ UNCHANGED <<status, verdict>>

(* ValidateIntentService.validateIntent.                                   *)
ValidateIntent ==
  /\ pc = "published"
  /\ IF intent.destination \notin Solvers \/ ValidationThrows(intent) THEN Throws
     ELSE IF ValidationsSucceeded(intent, clock)
     THEN pc' = "judge" /\ UNCHANGED <<status, verdict>>
     ELSE pc' = "ended" /\ status' = "INVALID" /\ UNCHANGED verdict
  /\ UNCHANGED <<env, cache, request, record, quote, intent, spent>>

(* FeasableIntentService.feasableIntent.                                   *)
FeasableIntent ==
  /\ pc = "judge"
  /\ \/ /\ Cached("calls")
        /\ verdict' = Feasibility(intent, Read("calls"))
        /\ pc' = IF verdict' = "feasible" THEN "prepare" ELSE "ended"
        /\ status' = IF verdict' \in {"feasible", "throws"} THEN status ELSE "INFEASABLE"
     \/ Interrupted /\ Throws
  /\ UNCHANGED <<env, request, record, quote, intent, spent>>

(* getFulfillment, and getFulfillIntentTx, which asks the inbox for the    *)
(* fee of the message it sends unless proofs are batched.                  *)
Fulfillment == IF Batch THEN "fulfillHyperBatched" ELSE "fulfillHyperInstantWithRelayer"
IsHyperlaneProver == intent.prover \in Hyperlane
FetchesFee == IsHyperlaneProver /\ Fulfillment = "fulfillHyperInstantWithRelayer"
HyperlaneFeeFails == "rpc" \in Faults /\ FetchesFee

(* getTransactionsForTargets: whether the inbox is approved for the amount *)
(* of the call.                                                            *)
Approved(i) == TargetData(i, i.calls[1]) = "transfer"

(* FulfillIntentService.executeFulfillIntent, up to its transactions.      *)
Prepare ==
  /\ pc = "prepare"
  /\ \/ pc' = "final" /\ UNCHANGED <<status, verdict>>
     \/ HyperlaneFeeFails /\ Throws
  /\ UNCHANGED <<env, cache, request, record, quote, intent, spent>>

(* What fails after that is recorded, and tried again or not.              *)
Fails == status' = "FAILED" /\ pc' \in {"prepare", "ended"}

FinalFeasibilityCheck ==
  /\ pc = "final"
  /\ \/ /\ Cached("calls")
        /\ verdict' = Feasibility(intent, Read("calls"))
        /\ IF verdict' = "feasible" THEN pc' = "execute" /\ UNCHANGED status ELSE Fails
     \/ Interrupted /\ Fails /\ UNCHANGED verdict
  /\ UNCHANGED <<env, request, record, quote, intent, spent>>

(* The batch of approvals and fulfill, mined or reverted.                  *)
Execute ==
  /\ pc = "execute"
  /\ LET transfer == intent.calls[1]
     IN \/ /\ Approved(intent) /\ spent = 0
           /\ transfer.amount <= balance[transfer.target]
           /\ balance' = [balance EXCEPT ![transfer.target] = @ - transfer.amount]
           /\ spent' = transfer.amount
           /\ \/ status' = "SOLVED" /\ pc' = "ended"
              \/ "rpc" \in Faults /\ Fails
        \/ /\ \/ ~Approved(intent) \/ spent > 0
              \/ transfer.amount > balance[transfer.target] \/ "rpc" \in Faults
           /\ Fails
           /\ UNCHANGED <<balance, spent>>
  /\ UNCHANGED <<clock, changes, cache, request, record, quote, intent, verdict>>

-----------------------------------------------------------------------------
QuoteStep ==
  \/ Store \/ Validate \/ CheckFeasible \/ Generate
  \/ \E t \in Tokens : FillDeficit(t) \/ FillRest(t)
  \/ EndDeficits \/ EndRest \/ UpdateQuoteDb

IntentStep ==
  \/ ValidateIntent \/ FeasableIntent \/ Prepare \/ FinalFeasibilityCheck \/ Execute

Next ==
  \/ Tick \/ \E t \in Tokens : Change(t)
  \/ \E k \in Reads : Expire(k)
  \/ \E i \in Requests : Request(i)
  \/ QuoteStep \/ Publish \/ IntentStep

Spec == Init /\ [][Next]_vars

-----------------------------------------------------------------------------
(* Properties.                                                             *)

Offered(t) == IF t \in AcceptedTokens(request) THEN request.reward[t] ELSE 0

(* The books of the two passes over the reward agree: what is asked of a   *)
(* token and what is left of it are what was offered of it, nothing is     *)
(* asked twice, and the whole is never more than the ask.                  *)
BooksOK ==
  pc \in {"deficits", "rest"} =>
    /\ \A t \in Tokens : quoted[t] + left[t] = Offered(t)
    /\ MapThenSumSet(LAMBDA t : quoted[t], Tokens) = filled
    /\ filled <= ask

(* What a quote is for: the tokens the solver lacks.  It asks a token for  *)
(* more than its deficit only if it asks every other token it may for the  *)
(* whole of its deficit, or for all that is offered of it.                 *)
Deficit(t) == IF delta[t] < quoted[t] THEN quoted[t] - delta[t] ELSE 0
DeficitsFirst ==
  response = "quote" =>
    \A t, d \in Fundable(request) :
      quoted[t] > Deficit(t) => quoted[d] >= Min2(Deficit(d), Offered(d))

(* A quote is worth publishing: the intent with the reward it asks is      *)
(* never judged unprofitable, whatever time has passed and whichever       *)
(* balances have moved, if the quote may ask for all the tokens offered.   *)
QuoteHonoured ==
  response = "quote" /\ AcceptedTokens(request) \subseteq Fundable(request) =>
    verdict # "reward"

(* The solver never fulfills at a loss: what its transactions spend, with  *)
(* the fee on it, is within the rewards the source pays in tokens it       *)
(* accepts.                                                                *)
NoLoss == spent > 0 => TotalRewards(intent) >= Ask(intent, spent)
=============================================================================
