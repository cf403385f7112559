# Eco Solver: TLA+ specifications, model checks and proofs

The solver of this repository watches intents on source chains, decides which of them are worth fulfilling, pays for
them on the destination chain, and keeps its token balances in shape while it does. It is a NestJS service: its state
is in MongoDB (one record per intent), in Redis (BullMQ queues) and on the chains; its logic is in queue handlers that
await these between every two steps. What is hard about it is what happens between the awaits. That is what is
specified here.

Paths are relative to `src/src` unless they begin with another directory of the repository.

## 1. Inventory

| Component (source) | State | Operations | Interacts with | What is hard | What makes it correct |
|---|---|---|---|---|---|
| Intent pipeline (`intent/*-intent.service.ts`) | the intent's record: status and receipt | create, validate, feasable, fulfill, updateOnFulfillment | BullMQ, MongoDB, both chains | writes of a document that was read before an await; swallowed errors; retries; dead workers, lost replies and replaced transactions; the fulfilment event on another queue | the record never claims more than the chain; bounded payments; no intent skips a check; jobs end |
| Queue workers (`bullmq/processors`) | jobs per kind and intent | dispatch, retry, stall | the services | a job that has ended keeps its id: adding it again does nothing | every job ends, at most MaxAttempts + MaxStalls runs |
| Watchers (`watch/intent`) | subscriptions | subscribe, addJob, onError | chain client, BullMQ | logs between two subscriptions; the table of unsubscribe functions is keyed by chain | a log seen gets a job |
| Chain sync (`chain-monitor/chain-sync.service.ts`) | none of its own | getLastRecordedTx, getMissingTxs, syncTxs | MongoDB, chain, addJob | runs while the watcher and the workers run | what was missed is found |
| Liquidity manager (`liquidity-manager`) | the queue's jobs, cached balances | check, plan, store, start, execute | LiFi, balances, BullMQ | one surplus for several deficits; stale balances; half-executed rebalances; a worker that dies in the middle | a plan gives no surplus away twice and brings no deficit far beyond its target; no quote is paid twice |
| Balances and `Cacheable` (`balance`, `decorators`) | cached balances | read, expire | chains, quotes, feasibility, liquidity | what is cached is stale when it is used | no decision made on a stale balance loses money |
| Nonces (`sign/atomic.nonce.service.ts`, `sign/nonce.service.ts`) | one document per chain, the sync's jobs | getIncNonce (`$inc`), syncQueue, syncNonces (`$set`) | chains, MongoDB, BullMQ | several processes; the sync overwrites what was handed out since it read; the job is named after a time | between syncs no nonce twice; what is too old is renewed |
| Clients, kernel accounts and signer (`transaction`, `sign`, `kms`) | cached clients per chain, the smart account, the signer's nonce | getClient, deployKernelAccount, execute | chains, key service | check, await, set, by hooks and jobs of several processes that share one signer without a nonce manager; deploys nobody waits for | nothing executes on an account without code; a refused transaction is not sent twice |
| Validation, proofs, fees (`intent/validation.sevice.ts`, `prover`, `fee`) | none | pure decisions | configuration, balances | the order of the checks; a check that throws | every check is made; a route that is feasible pays |
| Quotes (`quote`, `api/quote.controller.ts`) | the record of the request | getQuote | fees, balances, MongoDB | two passes over a reward, sorted and changed in place; the intent is judged again later | the books balance; deficits first; the quote is honoured |
| Retry of infeasible intents (`intervals`) | a job scheduler | query, add jobs | pipeline | the record's paths; ids of ended jobs | a retried intent is really judged again |
| Redlock, feature flags, configuration, health, other HTTP, contracts, logging | mostly none | wrappers | | | |

`PROJECT.json` lists every component with its files and status, and every hazard with its line.

## 2. The modules

| Module | What it is |
|---|---|
| `IntentLifecycle` | what the solver promises of one intent, without queues, handlers or failures: recorded once, stages in order, sends bounded, a status that claims no more than the stage and the chain allow |
| `IntentPipeline` | the handlers as they are, split at their awaits; declares that it implements `IntentLifecycle` through a refinement mapping |
| `IntentPipelineProofs`, `IntentPipelineSteps` | type correctness, the inductive invariant and the safety theorems; what a step may never do, that none forgets an intent, and the refinement theorem |
| `IntentCapture`, `IntentCaptureProofs` | the watcher, the sync, addJob and the create handler of one source chain, with a service that dies and restarts; its theorems |
| `LiquidityManager`, `LiquidityManagerProofs` | the check, the plan and the rebalance jobs; its inductive invariant and theorems |
| `Pricing` | the validations, the feasibility and the ask as operators on a route and its reward |
| `Quoting`, `QuotingProofs` | a quote request and the intent published with it, to its fulfilment; its theorems |
| `Accounts`, `AccountsProofs` | the smart account, its clients in several processes, and the signing account all of them share; its theorems |
| `Nonces`, `NoncesProofs` | the nonces handed out to several processes, against the sync; its theorems |
| `Sums` | lemmas about the sum of a function over a finite set, proved from the community modules' definition of the fold; `QuotingProofs` and `LiquidityManagerProofs` rest on it |
| `MCIntentPipeline`, `MCIntentCapture`, `MCLiquidityManager`, `MCQuoting`, `MCAccounts`, `MCNonces` | the instances that TLC checks |

Operators whose comment begins with *Broken* are not part of the system: each is a plausible bug of the operator
after it, and documents what a property would catch.

### IntentPipeline and the code

`at[i][k]` is both where BullMQ has job `k` of intent `i` and the point its handler is at. Every await of a handler is
a boundary between two actions, and the actions carry the handler's name: `ValidateRead`, `ValidateDecide`,
`ValidateWrite`, `ValidateEnqueue` and so on. `model[i][k]` is the document that handler has in its hands: it was read
at its first await and is written back with all its fields (`updateOne(..., model)`, a `$set` of those it has, so that a
document without a receipt leaves a stored one: `Save`), which is where stale writes come from. `db[i]`
is the record, reduced to its status and to what its receipt says. `dest` and `txs` are the destination's Inbox and the
transactions the kernel account sent.

The verdicts that are computed elsewhere (validations, fees, feasibility on chain, the wallet check, whether the receipt
is a success) are nondeterministic choices at the step that obtains them, so every combination is explored. Some intents have
none: the check of the selectors throws whenever it is made at a target the solver does not have or at data that does
not decode (such an intent is not in `Checkable`), and the feasibility throws where no ask can be computed, for the
decimals of a token or a chain without a solver or a linear fee (not in `Priceable`). Errors are
where the code has them: createIntent swallows all that follow the decoding, getIntentProcessData turns a failing query
into nothing (validate then throws, feasable and fulfill return), fulfil records FAILED and rethrows.

External, and modelled by how this code uses it: BullMQ keeps ended jobs (`removeOnComplete: false`,
`src/config/default.ts:40`), ignores an add whose id is taken, reruns a throwing job up to `attempts` times, and puts a
stalled job back, or fails it when it has stalled more than its limit; the kernel account executes its batch atomically; the
Inbox accepts one fulfilment per intent hash.

A call that fails does nothing and throws. It may also take effect and throw, as its reply is lost: the next job is added
(`AddReplyLost`) or the document written (`WriteReplyLost`), and the handler is run again all the same. (For the send this is
`FulfillSend`; in create, which catches the error, it is no different from a call that succeeded or one that ends the handler.) That is as good as a
worker that dies between its last call and its report, and both are counted by `losses`. A transaction of the
account may be mined under the nonce of the intent's own; `waitForTransactionReceipt` then answers with the receipt of
that one (`TxLands`, third outcome; fault "replace"), and `FulfillReceipt` takes it for its own, as the code does.

### IntentCapture and the code

`logs` is the source chain, with several intents per block and per transaction. `watch.next` is the filter's next block.
`hand[c]` is what the loops of addJob called by `c` (watcher or sync) have yet to add, as positions in `logs`; the watcher does not
wait for one loop before it starts the next, so they overlap and any log in hand may be the next one added. `jobs` and `recorded` are the queue and
the collection, which outlive the service. The sync's three steps are its awaits: the query for the last
record, the logs after it, the adds. Nest runs the watcher's bootstrap hook before the sync's, and addJob's unhandled
rejections end the process, so `Die` stands for failing adds too.

### LiquidityManager and the code

One worker runs the jobs of one queue one at a time. `pc` is the point its handler has reached: analyze, next
deficit, quote, store and start are the awaits of `CheckBalancesCronJobManager.process`, execute those of
`executeRebalancing`. `seen` is what the check analysed and `working` the same objects, from which
`updateGroupBalances` takes what is planned. Thresholds are constants with the order the configuration gives them. Quotes
may lose up to `MaxLoss`; whether an execution moves the tokens and then fails is a choice. `drawn` and `paid` are
auxiliary: they count and decide nothing. `storeRebalancing`'s documents are never read again, so storing is a step
that can fail and nothing else. Amounts are integers, as floating point differences of the code's normalised units are
exact up to 2^53; the reads of several chains' balances are one step.

### Pricing, Quoting and the code

`Pricing` has no state: `Feasibility` is `isRouteFeasible` with its errors in the order it meets them, `Ask` is
`getAsk` with the linear algorithm, `ValidationsSucceeded` and `ValidationThrows` are `assertValidations` and the way
one of its checks fails. A quote request and an intent go through the same operators, as the code does with
`ValidationIntentInterface` and `QuoteIntentDataInterface`. Amounts are in the base precision: balances
of tokens with another cannot be read (`fetchTokenBalances` refuses them), so normalising leaves an amount as it is. The conversion of
`minBalance`, in whole tokens, is kept (`Normalized`).

In `Quoting`, `pc` follows `QuoteService.getQuote` from one await to the next and then the handlers of the intent that was published
with the quote's reward, or without a quote. `delta`, `left` and `quoted` are the objects that `generateQuote` changes in
place; each pass takes the tokens in the order it has sorted them, and tokens with equal deltas in any order, as the order
the configuration lists them is not modelled. `cache` holds what `Cacheable` keeps of the balances: those read for a call and those
read for all tokens have different keys. The Inbox and the kernel account are `Execute`: the batch takes the amount of the call, or
reverts.

### Accounts and the code

A task is a bootstrap hook or a job that needs the client of the chain; `pc[t]` is the await it is at, from `getClient`
through `deployKernelAccount` to the receipt. `sent` is the sequence of transactions the chain has accepted from the
signing account, so a transaction's place is its nonce; a sender reads `Len(sent)` (viem asks for the count with pending
transactions) and is refused when another was faster. `mined` counts those in blocks, and a deploy takes effect when it
is mined. A hook that throws ends its process, as Nest does; a job that throws is tried again: also when its transaction reverted
(`Reverted`), when no receipt comes, and when what came of it cannot be stored (fault "store": the finally block of the fulfill job). `unsure[j]` counts the attempts of
`j` that sent their transaction and failed for another reason than its revert. `KernelAccountClientService`
deploys; `KernelAccountClientV2Service`, which LiFi's provider uses, only computes the address.

### Nonces and the code

`NonceService.syncQueue` runs when a process starts, unawaited; its job's id is made of the time of the last sync it saw. `seen`, `read`
and `toSet` are the local variables of a process between its awaits, and are reset when it is done with them. `syncNonces` reads all
counts side by side and then writes all nonces side by side, and logs whatever fails (`failed`, auxiliary). When one write fails the code
ends the job while the other writes are still under way; here the job ends with the last of them, and is failed in either case. `getIncNonce` is what the service promises its
callers; at present it has none (the clients read their nonce from the chain, see `Accounts`).

## 3. The runs

| Run | Instance and bounds | What it checks |
|---|---|---|
| `pipeline_faults` | one intent, every call may fail, transactions may be replaced, two handlers of a queue at once, two attempts, one loss (a death that the job survives, or a lost reply) or replaced transactions, not both (`OneMishap`) | type and safety invariants, the inductive invariant, three action properties, and the refinement of `IntentLifecycle` |
| `pipeline_settles` | one intent, every call to the database and the queues may fail, fairness, two attempts, one loss: a death that the job survives, or a lost reply | every job ends |
| `pipeline_progress` | two intents, one at which the validations throw whenever they are made; no faults, three attempts, fairness | an intent that waits for its verdict has a job that will decide, or one that failed, a recorded intent gets a verdict, a fulfilled one ends up SOLVED, SOLVED is not taken back |
| `capture` | three intents (one for an unsupported destination), two blocks, one death, one error of the subscription, failing database | the sync's promise that does hold, and the watcher's |
| `liquidity` | four tokens on two chains, four mixes of deficits and surpluses, two checks, losses of one unit, one change from outside, one death, every call failing | the plan's and the executions' invariants, how far a plan brings a deficit, and that one check's rebalances drain nothing |
| `liquidity_restored` | every mix of five balances for four tokens, no faults and no losses, fairness | a deficit that quotes are asked for is made good |
| `quoting` | eighteen requests (four rewards of different shapes, and one request for each thing that can be wrong), twelve states of the balances, one change of them, every read and write failing | the books of a quote, what it asks first, that it is honoured, and that nothing is fulfilled at a loss |
| `accounts` | two processes started up to three times, a hook and a job on the first service, a job on the second, two attempts, any one fault of eight kinds | what a job sends twice, and that the first service executes on a deployed account |
| `nonces` | two processes, three starts, two chains, a clock of three times, every read and write failing, one death that a job survives, fairness | no nonce handed out twice between syncs; a sync that ended has renewed every chain unless it failed; what is found too old is renewed |
| `pipeline_enqueued`, `capture_gaps`, `capture_transaction` | the smallest instance that shows it | what the code's own documentation says and the code does not do (section 6) |

Why the bounds are enough. Intents share nothing but the workers' slots, so one intent shows every interleaving of its own five
handlers; the second intent in `pipeline_progress` competes for the only slot. Two attempts and one loss
allow every job to run again after a throw, after a stall, and after a reply it did not get, and the proofs remove the bound for
the invariants. In `capture` a gap needs two recorded blocks and one missed log, and a refused record two logs of one
transaction: three intents in two blocks have both. In `liquidity` two surpluses for two deficits on two chains are what it takes
for one plan to draw on another's tokens; its invariants are proved for any number of tokens, and the second
check lets rebalances of the first wait in the queue behind it.

In `quoting` two fundable tokens, each in deficit, in range or in surplus, are what it takes for one pass to leave something to the other, and a token that is only
accepted tells what is offered from what can be asked. In `accounts` two senders of one nonce need two processes or a hook beside a job, and both are there; one fault at a time, because
what a second one adds is excluded by the properties (`Disturbed`, `unsure`), and the theorem has no such bound. In `nonces` a sync can be
overtaken by another only if a second process starts while the first one's job runs: two processes and three starts.

`CHECK_DEADLOCK FALSE` is set everywhere: each system is quiet once all jobs have ended and the bounds are used up.

Fairness. Workers of BullMQ take waiting jobs, awaits settle, and the loops of the watcher, the sync and the liquidity check go
on: weak fairness of those actions. Nothing is assumed of what the environment may do or not do: an intent need not be
mined, another solver need not fulfil it, a worker need not die, no reply need be lost, and no particular outcome of a call is ever
assumed. `pipeline_progress` and `liquidity_restored` have no faults because with them the claims are false: a failing query
does leave an intent PENDING, a failing quote does end a check. `pipeline_settles` leaves the calls to
the node out: every handler throws without them, and fulfill by a revert. That a behaviour of `pipeline_faults` has a loss or a replaced transaction and not both is a bound
on the search (a state with both is checked, and not searched further); the theorems have no such bound. In `nonces` a process that ended is started again as long as starts
are left, which is what its supervisor does, goes on with what it has begun, and its worker takes the jobs there are; that
the account sends, that anyone asks for a nonce and that the clock advances is not assumed.

## 4. What is proved

All proofs are checked by TLAPS; there are no assumptions but the named ASSUMEs on the constants
(`ConstantsAssumption`, `CaptureAssumption`, `LiquidityAssumption`, `PricingAssumption`, `QuotingAssumption`, `AccountsAssumption`, `NoncesAssumption`), which every run evaluates.

*IntentPipeline*, for every set of intents, any faults, attempts, stalls, losses and handlers per queue:

- `TypeCorrect`. The counters are bounded only because of the queue: `BudgetOK` ties `attempts` and `stalls` to where the
  job is.
- `Inductive` proves `IndInv`, from which `Truthful`, `Caused`, `Refused` and `Bounded` follow. None of these is inductive
  alone. That a record tells the truth, unless a transaction was replaced, needs it of every document any handler *holds* (`DocsSound`), since any of them may be
  written at any time, and of the handlers that are about to write (`HeldToWrite`); that a refused wallet is never
  queued needs the stages to be in order (`InOrder`), because a stale document can only be one of a stage reached; the bound on the
  payments needs each transaction accounted to a run of the fulfill job that threw, stalled or is the last
  (`SendsCounted`); that a held receipt is true needs `ChainFacts`.
- `RejectedNotSent`, `PaidNotSent` and `PaidStaysSolved` rest on `Steps`, proved on top of `IndInv`. As long as nothing was lost
  (`Undisturbed`), a handler that has added the next job (`HandedOn`), rejected the intent (`Rejected`) or stored a successful receipt (`Closed`) is done,
  as nothing after its last call can throw: whichever calls fail, no verdict is given anew. A single loss makes one job run
  again. `PaidOnce` says which places the fulfill job can be in then, once a successful receipt is stored, or is in the document
  the event is about to write: it has ended, or it is the one that runs again and will read SOLVED (`Harmless`).
- `SolveSticks` assumes `Faults = {}`. Its invariant `Won` says that no transaction is pending but the one the
  fulfill job waits for, and that once one has fulfilled the intent the job waits for its receipt, is about to write SOLVED, or is done.
- `NoneForgotten` is `NotForgotten`, for any faults but the database's. `Carried` says of each stage that a job of it that
  has ended has given its verdict or added the next job. It is the half of `VerdictReached` that does not need fairness: what may still keep an
  intent PENDING is a job that is slow or one that failed in all its attempts, never a handler that returned too early. TLC checks it in
  `pipeline_progress`, the run without faults; the theorem covers the other calls that fail, losses and retries.
- `Refines`: every step is a step of `IntentLifecycle` or a stutter. Each handler's step is classified by what it shows
  (a stage passed, a status judged, a send); the queue's and the event's own steps are hidden.

*IntentCapture*, for any intents, blocks, logs per block, deaths, errors and database faults:

- `TypeCorrect`, with `JobsOfLogs`: only a log has a job, so only a log becomes a record.
- `SyncMissesNothingLater` is `TailCovered`. The sync's own step is not enough for it: the chain grows and the watcher records intents
  between its query and its adds. `StartsAfterKnown` says that nothing later than the records *it knew of* is before the block it starts
  from, which needs that an intent's block never changes (`BlocksStay`); `Covered` says that each log it owes has its job or is still in its hand.

*LiquidityManager*, for any tokens, chains, thresholds in order, losses, checks and deaths:

- `Inductive` proves `IndInv`. Its books (`BooksOK`) say that what the check works with is what it saw less all it has drawn,
  apart from the quotes at hand, which are taken off only when their deficit is covered; `QuotingOK` says that those ask
  pairwise different tokens of the surplus, none of which is left to ask, so that nothing is lost between the quotes and the balances; `JobsOK` ties what
  a job has executed to the lives of the worker it has seen.
- `PlansWithinSurplus`, `BringsLessThanTwice`, `PaysOncePerLife` and `TypeCorrect` follow. The second is the price of asking each token for the whole
  deficit: never as much as twice what is lacking, because asking stops at the target's slippage.
- `BringsAsPlanned` is `BringsEnough`, the other side of it. At every quote the balance reached, what has been lost on the way and all that the
  tokens still to ask have to give make up the target (`EnoughLeft`): `Pool` chose them by that very sum, and a token asked for less than its surplus is asked for
  all that is lacking.
- `NothingDrained` is `NeverDrained`. What a token still has to give is spread over the quotes at hand, the plan and every job in the
  queue. An *account* follows its balance through the queue, job by job, as if each were executed in turn: the invariant `Reserved` says that, as long as
  one check has run, no one else has moved a token and no worker has died, such an account never goes below the target, or below the balance itself
  where that is less, for any number of jobs with any number of quotes. That a job's quotes ask pairwise different tokens (`DistinctOK`) makes
  what a job takes of a token a single amount. A failed or skipped execution only leaves more.

*Quoting*, for any chains, tokens, prices, provers, requests and balances:

- `TypeCorrect` and `NeverAtLoss` rest on `Underway`: where the request and the intent are says what has been decided
  about them. Transactions are reached only through the final check, and what has been spent is the amount of the one call, once. What a
  reward is worth (a sum over a set) stays unexpanded there: these proofs only need that every place compares the same sum.
- `FillsDeficitsFirst` is the invariant `Passes` of the two loops. A token's deficit is constant while it is filled (`Deficit` takes
  off what is quoted); the first pass leaves behind it only tokens filled whole, unless it has covered the ask (`FirstPass`),
  which makes every later amount harmless (`SecondPass`).
- `Balanced` is `BooksOK`: the passes change what is asked of one token at a time, and the sum of all grows by that amount (`SumKept`, with `SumChanged`). It is why
  `PricingAssumption` says that the tokens are finitely many, as a configuration lists them.
- `HonoursQuotes` is `QuoteHonoured`, across the request and the intent published with its reward. If every token accepted can be asked for, a
  second pass that ends without covering the ask has emptied the whole reward (`EmptiedCovers`), whose sum was found to be at least the ask;
  so a quote's sum is the ask in either case. The intent is then judged on the same route with the same fee, whatever balances have changed (`Honours`, `QuotedIsProfitable`).

*Accounts*, for any processes, hooks, jobs and faults: `TypeCorrect`, `Deployed` and `Once`. The invariant `DeployedFirst` says that as long as
no deploy has reverted and none was replaced, whoever holds a client of the first service, caches one or has executed with one is
*covered*: the account is deployed, or a deploy with a smaller nonce is still to be mined. `Once` is `OncePerJob`; its invariant `Accounted` bounds the
executions that have not reverted by what a job may have sent at the place it is at: one less before a send than after it. While it waits, its own transaction counts
(`Open`) until it is seen to have reverted, so that an attempt that fails on a revert leaves nothing behind.

*Nonces*, for any processes, chains and times: `TypeCorrect`, and `NeverTwice`, because what has been handed out since a nonce was
set is in order and never beyond the nonce kept (`InOrder`). `EndedRenews` is `EndedIsRenewed`, the half of `DueIsSynced` that does not need fairness. Its invariant
`Renewing` follows a job through the workers that run it: every chain that a worker need not set any more has been set later than the job's time (`SetsAll`), which holds
again from nothing when the worker dies and another takes the job; a job's time is over before it is queued (`AddsOld`); and the time a nonce was touched only moves on
(`Onward`), whichever of two syncs or a sender touches it last.

*Sums*. The value of a fold is an induction over data, and the library's induction theorems take operators that no installed prover can
instantiate. Over finite sets the induction can be done by hand: a set of counterexamples that is not empty has a smallest one (`SmallestSubset`, from the
library's well-founded orderings), and a smallest one does not exist. So `FoldExists` shows that the function the fold chooses exists, `SumRemove` that any
element may be taken off a sum first, and from these come what the proofs cite: `SumSame`, `SumChanged`, `SumNat`, `SumWithZeros`.

Every invariant and action property that a passing run checks has its theorem. Only model-checked are the liveness properties `JobsSettle`, `VerdictReached`,
`FulfilledIsSolved`, `WatchedIsQueued`, `DeficitRestored` and `DueIsSynced`, as liveness under fairness is out of the prover's reach, and the three violations of section 6, which are
counterexamples.

## 5. Where properties carry conditions

These are results, not conveniences: without the condition TLC finds a counterexample.

- `SolvedIsTruthful` leaves out intents with a replaced transaction. `executeFulfillIntent` takes whatever receipt it is given for that of its own
  transaction, so such a record may say SOLVED of an intent nobody has fulfilled. It is the only way to one.
- `NoSendAfterOwnReceipt` holds with one loss (a dead worker, or a reply that did not arrive) and fails with two: a feasable job run again overwrites the
  record with INFEASABLE, and a fulfill job run again then does not find SOLVED.
- `NoSendOnceRejected` and `OwnReceiptSticks` fail with one loss: validate or feasable dies after its add took
  effect, or gets no reply from the queue, runs again next to the job it added, and judges anew.
- `VerdictReached` leaves out the intents that are not in `Checkable` and `Priceable`: the checks throw at them in all attempts, no verdict is ever
  stored, and they stay PENDING. The comment at `intent/utils.ts:22` calls a missing target impossible, as the targets are checked before; they are, but
  `assertValidations` looks at no answer before all checks were made, and the next of them throws at that target.
- That a successful receipt stays in the record fails even without faults: updateOnFulfillment writes back the document it
  read before the fulfill handler stored the receipt, and if an earlier attempt had FAILED, that document has the receipt of the failure. Only
  the status is claimed to stay (`OwnSolveSticks`).
- `NeverDrained` is claimed for one check. A second check that runs before the rebalances of the first, or sees balances
  cached before them, gives the same surplus away again, and a worker that dies in the middle of a rebalance executes its quotes
  again.
- A watcher that meets an error loses the logs mined before its new subscription (`WatchedIsQueued` excludes it).
- A deficit whose tokens give nothing more (a difference of zero) and which losses keep uncovered asks for a quote of
  nothing: the check fails (`DeficitRestored` excludes losses; `BringsEnough` counts them, and speaks of the rebalances that are stored).
- `ExecutesDeployed` excludes deploys that revert or are replaced: no caller looks at the receipt of a deploy.
- `OncePerJob` counts executions that have not reverted, and allows one more for each attempt that sent its transaction and failed for another reason than a revert: a lost
  answer, a timeout, a dead process, or an outcome that could not be stored.
- `QuoteHonoured` is claimed for rewards of tokens the solver may ask for. Tokens that the source accepts and the solver has no target for
  count when a request is judged but cannot be asked for, so such a quote may ask for less than its price.
- `HandedOnce` is claimed between two syncs: a sync sets the nonce to the count it read before, and hands out again what was handed out
  since. The nonce is set to the next one to use and the first caller gets the one after it.
- `NotForgotten` needs a database that answers: getIntentProcessData turns a failing query into nothing, feasable and fulfill then return, and their
  ended jobs keep their ids.
- `DueIsSynced` and `EndedIsRenewed` except jobs in which something failed: they are kept under an id that later starts find taken as long as no nonce has been touched.
- What a failed check stored as rebalances is never started; a check with nothing to offer starts an empty rebalance,
  because `!rebalancingQuotes` is false of an empty array (`check-balances-cron.job.ts:91`).

## 6. Where code and documentation disagree

- `pipeline_enqueued`: createIntent is documented to enqueue what it records; an add that fails leaves a PENDING record
  without a job, and a later run of a create job finds the record and returns.
- `capture_gaps`: the sync is documented to fill any gap; it begins after the highest block recorded, which the watcher may
  move past the gap before the sync asks.
- `capture_transaction`: several intents in one transaction are meant to be told apart; the unique index on the
  transaction hash refuses the second record.

## 7. Not modelled

Cryptography, contract encodings, logging, dependency injection, health probes, the reading HTTP endpoints, feature flags and
third-party set-up have no protocol state. Of what has some:

- *Retry of infeasible intents.* Its query asks for `intent.expiration` and `intent.prover`, paths that no record has
  (`retry-infeasable-intents.service.ts:79`), so it finds nothing and the job changes no state. Were it to find an intent, the
  feasibility job would meet the id of the first pass's.
- *The mirror of balances* that `updateBalance` keeps from transfer events: nothing reads it.
- *Unsubscribing*: the table keyed by chain matters only with two sources on one chain, which no configuration has.
- *Redlock*, `GroupedJobsProcessor`, `SimpleAccountClientService`, `AtomicSignerService`: no other part of the program uses them.
- *The wallet filter and the checks on chain* are choices, in the pipeline, between every outcome they may have.
- *Fees other than linear*, which `getAsk` refuses; precision of floating point in the liquidity manager.

Left to do: `Quoting` as the verdicts of `IntentPipeline`, whose composition is too large for one run; the retry of
infeasible intents and the mirror of balances, should either come to have an effect.
