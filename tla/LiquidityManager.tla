-------------------------- MODULE LiquidityManager --------------------------
(***************************************************************************)
(* The liquidity manager: the check of the token balances that falls due   *)
(* at intervals, the rebalances it plans from tokens in surplus to tokens  *)
(* in deficit, and the jobs that execute them, all run one at a time by    *)
(* the worker of one queue.                                                *)
(*                                                                         *)
(* Amounts are in units of the tokens' common precision (six decimals), in *)
(* which the code's floating point differences are exact.                  *)
(***************************************************************************)
EXTENDS Integers, Sequences, FiniteSets, FiniteSetsExt

CONSTANTS Tokens,    \* the tokens, each on its chain
          ChainOf,   \* ChainOf[t]: the chain of t
          Target,    \* Target[t]: its target balance
          Minimum,   \* Minimum[t]: below it t is in deficit
          Maximum,   \* Maximum[t]: above it t is in surplus
          Enough,    \* Enough[t]: targetSlippage.min, where the planning for t stops
          Balances,  \* the balances the solver may start with
          Faults,    \* what may fail: a subset of FaultKinds
          MaxLoss,   \* bound on what a quote gives less than it takes
          MaxChecks, \* bound on the checks
          MaxSpends, \* bound on the changes of balances from outside
          MaxStalls, \* deaths of its worker a job survives
          MaxDeaths  \* bound on the deaths of the worker

FaultKinds == {"rpc", "db", "queue"}

ASSUME LiquidityAssumption ==
  /\ IsFiniteSet(Tokens)
  /\ Target \in [Tokens -> Nat] /\ Minimum \in [Tokens -> Nat]
  /\ Maximum \in [Tokens -> Nat] /\ Enough \in [Tokens -> Nat]
  /\ \A t \in Tokens : Minimum[t] <= Target[t] /\ Target[t] <= Maximum[t]
  /\ \A t \in Tokens : Enough[t] <= Target[t]
  /\ Balances \subseteq [Tokens -> Nat]
  /\ Faults \subseteq FaultKinds
  /\ MaxLoss \in Nat /\ MaxChecks \in Nat /\ MaxSpends \in Nat
  /\ MaxStalls \in Nat /\ MaxDeaths \in Nat

VARIABLES balance,  \* the balances on the chains
          cache,    \* those cached by getAllTokenData, or NoData
          queue,    \* the jobs waiting, in order
          job,      \* the job the worker runs, or NoJob
          pc,       \* the point its handler is at
          seen,     \* the balances the check has analysed
          working,  \* the same, less what it has planned to take
          surplus,  \* the tokens it found in surplus
          deficits, \* those it found in deficit and has yet to plan for
          deficit,  \* the one it plans for
          todo,     \* the tokens it may yet ask a quote from
          current,  \* the balance of that one with the quotes obtained
          quotes,   \* those quotes
          plan,     \* the rebalances planned
          drawn,    \* what all quotes of the check take of each token (auxiliary)
          index,    \* the quote a rebalance executes
          checks, spends, deaths  \* what the bounds count

data == <<balance, cache>>
analysis == <<seen, working, surplus, deficits>>
quoting == <<deficit, todo, current, quotes, drawn>>
check == <<analysis, quoting, plan>>
bounds == <<checks, spends, deaths>>
vars == <<data, queue, job, pc, check, index, bounds>>

-----------------------------------------------------------------------------
(* Data.                                                                   *)

Quote == [in : Tokens, amount : Nat, gives : Nat]
Rebalance == [token : Tokens, quotes : Seq(Quote)]
NoRebalance == [token |-> "none", quotes |-> <<>>]

(* A job, and (auxiliary) how often each of its quotes was executed.       *)
CheckJob == [kind : {"check"}, stalls : 0..MaxStalls]
RebalanceJob == [kind : {"rebalance"}, stalls : 0..MaxStalls, rebalance : Rebalance,
                 paid : Seq(Nat)]
Job == CheckJob \cup RebalanceJob
NoJob == [kind |-> "none"]

Zero == [t \in Tokens |-> 0]
NoData == [t \in Tokens |-> -1]
NoToken == "none"

Points == {"idle", "analyze", "next", "quote", "store", "start", "execute"}

(* analyzeToken.                                                           *)
InSurplus(bal, t) == bal[t] > Maximum[t]
InDeficit(bal, t) == bal[t] < Minimum[t]
Diff(bal, t) == IF bal[t] < Target[t] THEN Target[t] - bal[t] ELSE bal[t] - Target[t]

(* getGroupTotal, and those that come first when S is sorted downwards.    *)
Total(S) == MapThenSumSet(LAMBDA t : Diff(working, t), S)
Largest(S) == {t \in S : \A u \in S : Diff(working, u) <= Diff(working, t)}

SameChain(d) == {t \in surplus : ChainOf[t] = ChainOf[d]}

(* Broken: the surplus of the same chain if there is any.                  *)
AnyOfSameChain(d) ==
  IF SameChain(d) # {} THEN SameChain(d)
  ELSE IF Diff(working, d) <= Total(surplus) THEN surplus
  ELSE {}

(* getOptimizedRebalancing: the surplus of the same chain if it is enough, *)
(* else all of it if that is, else nothing.                                *)
Pool(d) ==
  IF Diff(working, d) <= Total(SameChain(d)) THEN SameChain(d)
  ELSE IF Diff(working, d) <= Total(surplus) THEN surplus
  ELSE {}

TypeOK ==
  /\ balance \in [Tokens -> Nat]
  /\ cache \in [Tokens -> Nat] \cup {NoData}
  /\ queue \in Seq(Job)
  /\ job \in Job \cup {NoJob}
  /\ pc \in Points
  /\ seen \in [Tokens -> Nat] \cup {NoData}
  /\ working \in [Tokens -> Nat] \cup {NoData}
  /\ surplus \subseteq Tokens /\ deficits \subseteq Tokens /\ todo \subseteq Tokens
  /\ deficit \in Tokens \cup {NoToken}
  /\ current \in Nat
  /\ quotes \in Seq(Quote)
  /\ plan \in Seq(Rebalance)
  /\ drawn \in [Tokens -> Nat]
  /\ index \in Nat \ {0}
  /\ checks \in 0..MaxChecks /\ spends \in 0..MaxSpends /\ deaths \in 0..MaxDeaths

Init ==
  /\ balance \in Balances
  /\ cache = NoData
  /\ queue = <<>> /\ job = NoJob /\ pc = "idle"
  /\ seen = NoData /\ working = NoData /\ surplus = {} /\ deficits = {}
  /\ deficit = NoToken /\ todo = {} /\ current = 0 /\ quotes = <<>>
  /\ plan = <<>> /\ drawn = Zero
  /\ index = 1
  /\ checks = 0 /\ spends = 0 /\ deaths = 0

-----------------------------------------------------------------------------
(* The queue and its worker.  A job that throws is not tried again.        *)

(* The scheduler adds a check.                                             *)
Due ==
  /\ checks < MaxChecks
  /\ checks' = checks + 1
  /\ queue' = Append(queue, [kind |-> "check", stalls |-> 0])
  /\ UNCHANGED <<data, job, pc, check, index, spends, deaths>>

Take ==
  /\ job = NoJob /\ queue # <<>>
  /\ job' = Head(queue)
  /\ queue' = Tail(queue)
  /\ pc' = IF Head(queue).kind = "check" THEN "analyze" ELSE "execute"
  /\ UNCHANGED <<data, check, index, bounds>>

(* The handler has returned or thrown: the job is removed, and what it     *)
(* held is gone.                                                           *)
Done ==
  /\ job' = NoJob /\ pc' = "idle"
  /\ seen' = NoData /\ working' = NoData /\ surplus' = {} /\ deficits' = {}
  /\ deficit' = NoToken /\ todo' = {} /\ current' = 0 /\ quotes' = <<>>
  /\ plan' = <<>> /\ drawn' = Zero
  /\ index' = 1

(* The worker dies and another comes up: a job it ran goes to the head of  *)
(* the queue, unless it has stalled too often.                             *)
Die ==
  /\ deaths < MaxDeaths
  /\ deaths' = deaths + 1
  /\ queue' = IF job # NoJob /\ job.stalls < MaxStalls
              THEN <<[job EXCEPT !.stalls = @ + 1]>> \o queue
              ELSE queue
  /\ cache' = NoData
  /\ Done
  /\ UNCHANGED <<balance, checks, spends>>

-----------------------------------------------------------------------------
(* Around the liquidity manager.                                           *)

(* Fulfilments spend a token, withdrawn rewards add to it.                 *)
Spend(t) ==
  /\ spends < MaxSpends
  /\ spends' = spends + 1
  /\ \E b \in {0, Target[t]} : balance' = [balance EXCEPT ![t] = b]
  /\ UNCHANGED <<cache, queue, job, pc, check, index, checks, deaths>>

(* Another caller of the balances has them cached.                         *)
Warm ==
  /\ cache = NoData
  /\ cache' = balance
  /\ UNCHANGED <<balance, queue, job, pc, check, index, bounds>>

Expire ==
  /\ cache # NoData
  /\ cache' = NoData
  /\ UNCHANGED <<balance, queue, job, pc, check, index, bounds>>

-----------------------------------------------------------------------------
(* CheckBalancesCronJobManager.process.                                    *)

(* analyzeTokens, of the balances cached or else of those on the chains.   *)
Analyze ==
  /\ pc = "analyze"
  /\ \/ /\ cache' = IF cache = NoData THEN balance ELSE cache
        /\ seen' = cache' /\ working' = cache'
        /\ surplus' = {t \in Tokens : InSurplus(cache', t)}
        /\ deficits' = {t \in Tokens : InDeficit(cache', t)}
        /\ pc' = "next"
        /\ UNCHANGED <<job, quoting, plan, index>>
     \/ "rpc" \in Faults /\ cache = NoData /\ Done /\ UNCHANGED cache
  /\ UNCHANGED <<balance, queue, bounds>>

(* The next deficit token, the largest deficit first, and the tokens to    *)
(* ask for it.                                                             *)
NextDeficit(d) ==
  /\ pc = "next"
  /\ d \in Largest(deficits)
  /\ deficits' = deficits \ {d}
  /\ deficit' = d
  /\ todo' = Pool(d)
  /\ current' = working[d]
  /\ quotes' = <<>>
  /\ pc' = IF Pool(d) = {} THEN "store" ELSE "quote"
  /\ UNCHANGED <<data, queue, job, seen, working, surplus, plan, drawn, index, bounds>>

(* A check that found no deficit ends here, any other starts its plan.     *)
NoMoreDeficits ==
  /\ pc = "next" /\ deficits = {}
  /\ IF plan = <<>> THEN Done
     ELSE pc' = "start" /\ UNCHANGED <<job, check, index>>
  /\ UNCHANGED <<data, queue, bounds>>

Least(a, b) == IF a < b THEN a ELSE b

(* What the quotes take of t: each asks another token.                     *)
Taken(qs, t) ==
  IF \E n \in DOMAIN qs : qs[n].in = t
  THEN qs[CHOOSE n \in DOMAIN qs : qs[n].in = t].amount
  ELSE 0

(* Broken: the balances are left as they were.                             *)
LeaveGroupBalances(qs) == working

(* What the next deficit is planned with.                                  *)
UpdateGroupBalances(qs) == [t \in Tokens |-> working[t] - Taken(qs, t)]

(* Broken: a token is asked for all the deficit, whatever it can give.     *)
SwapAll(s) == Diff(working, deficit)

(* What a surplus token is asked for.                                      *)
SwapAmount(s) == Least(Diff(working, deficit), Diff(working, s))

(* Broken: the rest of the tokens is asked although there is enough.       *)
NeverCovered(cur) == FALSE

(* Broken: one quote is taken for enough.                                  *)
CoveredAtOnce(cur) == TRUE

(* The quotes obtained are enough.                                         *)
Covered(cur) == cur >= Enough[deficit]

(* getRebalancingQuotes: one round of its loop.  The provider may have no  *)
(* route, and has none for an amount of nothing.                           *)
GetQuote(s) ==
  /\ pc = "quote"
  /\ s \in Largest(todo)
  /\ \/ \E gives \in (SwapAmount(s) - Least(MaxLoss, SwapAmount(s)))..SwapAmount(s) :
          LET q == [in |-> s, amount |-> SwapAmount(s), gives |-> gives]
              last == Covered(current + gives) \/ todo = {s}
          IN /\ SwapAmount(s) > 0
             /\ quotes' = Append(quotes, q)
             /\ current' = current + gives
             /\ todo' = todo \ {s}
             /\ drawn' = [drawn EXCEPT ![s] = @ + SwapAmount(s)]
             /\ working' = IF last THEN UpdateGroupBalances(quotes') ELSE working
             /\ pc' = IF last THEN "store" ELSE "quote"
             /\ UNCHANGED <<job, seen, surplus, deficits, deficit, plan, index>>
     \/ ("rpc" \in Faults \/ SwapAmount(s) = 0) /\ Done
  /\ UNCHANGED <<data, queue, bounds>>

(* storeRebalancing, whose documents nothing reads again, and the plan.    *)
Store ==
  /\ pc = "store"
  /\ \/ /\ plan' = Append(plan, [token |-> deficit, quotes |-> quotes])
        /\ pc' = "next"
        /\ UNCHANGED <<job, analysis, quoting, index>>
     \/ "db" \in Faults /\ quotes # <<>> /\ Done
  /\ UNCHANGED <<data, queue, bounds>>

(* startRebalancing: one job per rebalance.                                *)
StartRebalancing ==
  /\ pc = "start"
  /\ \/ queue' = queue \o [n \in DOMAIN plan |->
                     [kind |-> "rebalance", stalls |-> 0, rebalance |-> plan[n],
                      paid |-> [m \in DOMAIN plan[n].quotes |-> 0]]]
     \/ "queue" \in Faults /\ UNCHANGED queue
  /\ Done
  /\ UNCHANGED <<data, bounds>>

-----------------------------------------------------------------------------
(* RebalanceJobManager.process: executeRebalancing, quote by quote.        *)

ToExecute == job.rebalance.quotes[index]

(* The quote's tokens have moved.                                          *)
Move ==
  /\ balance[ToExecute.in] >= ToExecute.amount
  /\ balance' = [t \in Tokens |->
                   balance[t] - (IF t = ToExecute.in THEN ToExecute.amount ELSE 0)
                     + (IF t = job.rebalance.token THEN ToExecute.gives ELSE 0)]

(* Broken: a job that fails is tried again.                                *)
ExecuteAgain ==
  /\ pc = "execute"
  /\ index <= Len(job.rebalance.quotes)
  /\ \/ /\ Move
        /\ job' = [job EXCEPT !.paid[index] = @ + 1]
        /\ index' = index + 1
        /\ UNCHANGED <<queue, pc, check>>
     \/ /\ \/ "rpc" \in Faults
           \/ balance[ToExecute.in] < ToExecute.amount
        /\ queue' = Append(queue, job)
        /\ Done
        /\ UNCHANGED balance
  /\ UNCHANGED <<cache, bounds>>

(* execute may fail before the tokens have moved or after, and fails when  *)
(* there are not enough: the other quotes of the job are not executed.     *)
Execute ==
  /\ pc = "execute"
  /\ index <= Len(job.rebalance.quotes)
  /\ \/ /\ Move
        /\ job' = [job EXCEPT !.paid[index] = @ + 1]
        /\ index' = index + 1
        /\ UNCHANGED <<pc, check>>
     \/ /\ "rpc" \in Faults
        /\ Move
        /\ Done
     \/ /\ "rpc" \in Faults \/ balance[ToExecute.in] < ToExecute.amount
        /\ Done
        /\ UNCHANGED balance
  /\ UNCHANGED <<cache, queue, bounds>>

Executed ==
  /\ pc = "execute"
  /\ index > Len(job.rebalance.quotes)
  /\ Done
  /\ UNCHANGED <<data, queue, bounds>>

-----------------------------------------------------------------------------
CheckStep ==
  \/ Analyze
  \/ \E d \in Tokens : NextDeficit(d)
  \/ NoMoreDeficits
  \/ \E s \in Tokens : GetQuote(s)
  \/ Store
  \/ StartRebalancing

Next ==
  \/ Due \/ Take \/ Die
  \/ \E t \in Tokens : Spend(t)
  \/ Warm \/ Expire
  \/ CheckStep
  \/ Execute \/ Executed

(* The scheduler goes on, the worker takes jobs and finishes their awaits. *)
Fairness == WF_vars(Due) /\ WF_vars(Take) /\ WF_vars(CheckStep \/ Execute \/ Executed)

Spec == Init /\ [][Next]_vars
FairSpec == Spec /\ Fairness

-----------------------------------------------------------------------------
(* Properties.                                                             *)

(* However many deficits one check plans for, all its quotes together take *)
(* no more of a token than it had above its target when the check looked.  *)
PlanWithinSurplus ==
  \A t \in Tokens : drawn[t] > 0 => t \in surplus /\ drawn[t] <= seen[t] - Target[t]

(* The quotes of a rebalance bring less than twice what the token lacks,   *)
(* although each is asked for all of the deficit and not for what is left. *)
LessThanTwice ==
  pc = "store" /\ quotes # <<>> =>
    current - seen[deficit] < 2 * (Target[deficit] - seen[deficit])

(* And they bring it as far as its planning aims, but for what each of     *)
(* them loses: the tokens asked had enough between them, and asking ends   *)
(* early only with enough (getSwapQuotes, getRebalancingQuotes).           *)
BringsEnough ==
  pc = "store" /\ quotes # <<>> =>
    current + Len(quotes) * MaxLoss >= Enough[deficit]

(* Whatever fails, a quote is executed at most once for each life of the   *)
(* worker that its job has seen.                                           *)
RebalanceJobs ==
  {j \in {queue[n] : n \in DOMAIN queue} \cup {job} : j.kind = "rebalance"}
PaidOncePerLife ==
  \A j \in RebalanceJobs : \A n \in DOMAIN j.paid : j.paid[n] <= 1 + j.stalls

(* The inductive invariant behind the three.  A job counts as executed     *)
(* what the lives of the worker before this one, and this one, executed.   *)
PaidSoFar(j, next) ==
  /\ DOMAIN j.paid = DOMAIN j.rebalance.quotes
  /\ \A n \in DOMAIN j.paid : j.paid[n] <= j.stalls + (IF n < next THEN 1 ELSE 0)
JobsOK ==
  /\ pc = "idle" => job = NoJob
  /\ pc # "execute" => index = 1
  /\ pc = "execute" => job \in RebalanceJob
  /\ pc \notin {"idle", "execute"} => job \in CheckJob
  /\ job \in RebalanceJob => pc = "execute" /\ PaidSoFar(job, index)
  /\ \A n \in DOMAIN queue : queue[n] \in RebalanceJob => PaidSoFar(queue[n], 1)

(* The check's books: what it has yet to take off the balances it works    *)
(* with is what the quotes at hand take.                                   *)
Planning == pc \in {"next", "quote", "store", "start"}
BooksOK ==
  /\ ~Planning => drawn = Zero
  /\ Planning =>
       /\ seen \in [Tokens -> Nat] /\ working \in [Tokens -> Nat]
       /\ surplus = {t \in Tokens : InSurplus(seen, t)}
       /\ deficits \subseteq {t \in Tokens : InDeficit(seen, t)}
       /\ \A t \in Tokens :
            /\ drawn[t] > 0 => t \in surplus /\ drawn[t] <= seen[t] - Target[t]
            /\ working[t] - (IF pc = "quote" THEN Taken(quotes, t) ELSE 0)
                 = seen[t] - drawn[t]

(* The deficit token still lacks something, and each quote asks another    *)
(* token, none that is left to ask.                                        *)
QuotingOK ==
  /\ pc \in {"quote", "store"} => deficit \in Tokens /\ InDeficit(seen, deficit)
  /\ pc = "quote" =>
       /\ todo \subseteq surplus
       /\ current < Target[deficit]
       /\ \A n \in DOMAIN quotes : quotes[n].in \in surplus \ todo
       /\ \A m, n \in DOMAIN quotes : quotes[m].in = quotes[n].in => m = n

IndInv == TypeOK /\ JobsOK /\ BooksOK /\ QuotingOK /\ LessThanTwice

(* As long as nothing but the rebalances of one check has moved tokens and *)
(* no worker has died, no execution takes a token below its target,        *)
(* whatever calls fail.  (With a second check that runs before the         *)
(* rebalances of the first, or sees the balances cached before them, two   *)
(* checks give one surplus away.)                                          *)
NeverDrained ==
  [][\A t \in Tokens :
       /\ checks <= 1 /\ spends' = 0 /\ deaths = 0
       /\ pc = "execute" /\ balance'[t] < balance[t]
       => balance'[t] >= Target[t]]_vars

(* Without faults and losses, a deficit that a check asks quotes for is    *)
(* made good, whichever tokens it was asked from.                          *)
DeficitRestored ==
  \A t \in Tokens : pc = "quote" /\ deficit = t ~> balance[t] >= Enough[t]
=============================================================================
