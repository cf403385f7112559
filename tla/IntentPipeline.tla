--------------------------- MODULE IntentPipeline ---------------------------
(***************************************************************************)
(* The four handlers an intent passes (create, validate, feasable,         *)
(* fulfill) and the handler of fulfilment events, run by BullMQ workers    *)
(* against one MongoDB record and one destination chain.                   *)
(*                                                                         *)
(* A job is identified by its kind and its intent, as its job id is by the *)
(* service name and the intent hash.  The place a job is at and the        *)
(* control point of the handler that runs it are one value, at[i][k]: one  *)
(* handler runs a job at a time.  An await in the code separates two       *)
(* actions.                                                                *)
(***************************************************************************)
EXTENDS Naturals, Sequences, FiniteSets

CONSTANTS Intents,     \* the intents, one per intent hash
          Decodable,   \* those whose log decodes to an intent with calls and tokens
          Supported,   \* those whose destination chain has a solver configured
          Checkable,   \* those whose every call can be looked up and decoded
          Priceable,   \* those on whose tokens and chains an ask can be computed
          Faults,      \* what may fail: a subset of FaultKinds
          MaxAttempts, \* runs that may throw before a job is failed
          MaxStalls,   \* deaths of its worker a job survives
          MaxLosses,   \* bound on the losses of a behaviour
          Workers      \* handlers of one queue that may run at once

FaultKinds == {"db", "queue", "rpc", "crash", "replace"}

ASSUME ConstantsAssumption ==
  /\ Decodable \subseteq Intents
  /\ Supported \subseteq Intents
  /\ Checkable \subseteq Intents
  /\ Priceable \subseteq Intents
  /\ Faults \subseteq FaultKinds
  /\ MaxAttempts \in Nat \ {0}
  /\ MaxStalls \in Nat
  /\ MaxLosses \in Nat
  /\ Workers \in Nat \ {0}

VARIABLES at,       \* at[i][k]: where job k of intent i is
          attempts, \* attempts[i][k]: the runs of it that threw
          stalls,   \* stalls[i][k]: the runs of it that died with their worker
          losses,   \* the workers that died and the replies that were lost
          model,    \* model[i][k]: the document its handler has read
          db,       \* db[i]: the document of the intent
          dest,     \* dest[i]: who fulfilled the intent on the destination
          txs       \* txs[i]: the fulfilment transactions this solver sent

queueVars == <<at, attempts, stalls, losses>>
chainVars == <<dest, txs>>
vars == <<at, attempts, stalls, losses, model, db, dest, txs>>

-----------------------------------------------------------------------------
(* State.                                                                  *)

Statuses == {"ABSENT", "PENDING", "NON-BEND-WALLET", "INVALID", "INFEASABLE",
             "FAILED", "SOLVED"}
Receipts == {"none", "invalid", "infeasable", "error", "mined"}
Doc == [status : Statuses, receipt : Receipts]
NoDoc == [status |-> "ABSENT", receipt |-> "none"]

SourceKinds == {"create", "validate", "feasable", "fulfill"}
Kinds == SourceKinds \cup {"fulfillment"}

Points == {"read", "decide", "enqueue", "write", "prepare", "check", "send", "receipt",
           "returned", "thrown"}
Settled == {"completed", "failed"}
Places == {"absent", "waiting"} \cup Points \cup Settled

Fulfillers == {"open", "ours", "other"}
Successful == {"mined", "replaced"}
TxStates == {"pending", "mined", "reverted", "replaced"}

TypeOK ==
  /\ at \in [Intents -> [Kinds -> Places]]
  /\ attempts \in [Intents -> [Kinds -> 0..MaxAttempts]]
  /\ stalls \in [Intents -> [Kinds -> 0..(MaxStalls + 1)]]
  /\ losses \in 0..MaxLosses
  /\ model \in [Intents -> [Kinds -> Doc]]
  /\ db \in [Intents -> Doc]
  /\ dest \in [Intents -> Fulfillers]
  /\ txs \in [Intents -> Seq(TxStates)]

Init ==
  /\ at = [i \in Intents |-> [k \in Kinds |-> "absent"]]
  /\ attempts = [i \in Intents |-> [k \in Kinds |-> 0]]
  /\ stalls = [i \in Intents |-> [k \in Kinds |-> 0]]
  /\ losses = 0
  /\ model = [i \in Intents |-> [k \in Kinds |-> NoDoc]]
  /\ db = [i \in Intents |-> NoDoc]
  /\ dest = [i \in Intents |-> "open"]
  /\ txs = [i \in Intents |-> <<>>]

-----------------------------------------------------------------------------
(* The queue.  Jobs are kept when they complete and when they fail, and an *)
(* add whose id is taken is ignored, so a job runs for its id once.        *)

Queue(k) == IF k \in SourceKinds THEN SourceKinds ELSE {k}
Running(k) == {j \in Intents \X Queue(k) : at[j[1]][j[2]] \in Points}

(* The queue's places once job k of i has moved to p.                      *)
Moved(i, k, p) == [at EXCEPT ![i][k] = p]

(* Broken: a job that has ended does not keep its id.                      *)
AddedAgain(i, k, p, next) ==
  [at EXCEPT ![i][k] = p,
             ![i][next] = IF @ \in {"absent", "completed", "failed"} THEN "waiting" ELSE @]

(* ... once, besides, a job of kind next has been added for i.             *)
Added(i, k, p, next) ==
  [at EXCEPT ![i][k] = p,
             ![i][next] = IF @ = "absent" THEN "waiting" ELSE @]

Goto(i, k, p) == at' = Moved(i, k, p) /\ UNCHANGED <<attempts, stalls, losses>>

(* The handler ends, by returning or by throwing.                          *)
End(i, k, how) ==
  /\ Goto(i, k, how)
  /\ model' = [model EXCEPT ![i][k] = NoDoc]

Return(i, k) == End(i, k, "returned")
Throw(i, k) == End(i, k, "thrown")

(* The handler adds the next job and returns.                              *)
EnqueueAndReturn(i, k, next) ==
  /\ at' = Added(i, k, "returned", next)
  /\ model' = [model EXCEPT ![i][k] = NoDoc]
  /\ UNCHANGED <<attempts, stalls, losses>>

(* Broken: one run more than the job's attempts allow.                     *)
ReportOnceMore(i, k) ==
  /\ \/ at[i][k] = "returned" /\ Goto(i, k, "completed")
     \/ /\ at[i][k] = "thrown"
        /\ attempts' = [attempts EXCEPT ![i][k] = @ + 1]
        /\ at' = Moved(i, k, IF attempts[i][k] < MaxAttempts THEN "waiting" ELSE "failed")
        /\ UNCHANGED <<stalls, losses>>
  /\ UNCHANGED <<model, db, chainVars>>

(* Broken: a run that throws is not counted.                               *)
ReportUncounted(i, k) ==
  /\ \/ at[i][k] = "returned" /\ Goto(i, k, "completed")
     \/ at[i][k] = "thrown" /\ Goto(i, k, "waiting")
  /\ UNCHANGED <<model, db, chainVars>>

(* The worker reports the end of the handler: the job is completed, or it  *)
(* is retried while attempts are left.                                     *)
Report(i, k) ==
  /\ \/ at[i][k] = "returned" /\ Goto(i, k, "completed")
     \/ /\ at[i][k] = "thrown"
        /\ attempts' = [attempts EXCEPT ![i][k] = @ + 1]
        /\ at' = Moved(i, k, IF attempts[i][k] + 1 < MaxAttempts THEN "waiting" ELSE "failed")
        /\ UNCHANGED <<stalls, losses>>
  /\ UNCHANGED <<model, db, chainVars>>

(* A free worker takes a waiting job.                                      *)
Start(i, k) ==
  /\ at[i][k] = "waiting"
  /\ Cardinality(Running(k)) < Workers
  /\ Goto(i, k, "read")
  /\ UNCHANGED <<model, db, chainVars>>

Loss == losses < MaxLosses /\ losses' = losses + 1

(* The worker dies in mid-handler, or after it and before its report: the  *)
(* stalled job is run again, or failed when it has stalled too often.      *)
Crash(i, k) ==
  /\ "crash" \in Faults
  /\ at[i][k] \in Points
  /\ Loss
  /\ stalls' = [stalls EXCEPT ![i][k] = @ + 1]
  /\ at' = Moved(i, k, IF stalls[i][k] < MaxStalls THEN "waiting" ELSE "failed")
  /\ model' = [model EXCEPT ![i][k] = NoDoc]
  /\ UNCHANGED <<attempts, db, chainVars>>

-----------------------------------------------------------------------------
(* Shared steps of the handlers.                                           *)

(* The document found is kept while the handler works on.                  *)
Load(i, k, next) ==
  /\ model' = [model EXCEPT ![i][k] = db[i]]
  /\ Goto(i, k, next)

(* Broken: the cause of the verdict is not stored with it.                 *)
MarkStatusOnly(i, k, status, receipt) ==
  /\ model' = [model EXCEPT ![i][k].status = status]
  /\ Goto(i, k, "write")

(* The handler sets status and receipt of the document it holds.           *)
Mark(i, k, status, receipt) ==
  /\ model' = [model EXCEPT ![i][k] = [status |-> status, receipt |-> receipt]]
  /\ Goto(i, k, "write")

(* updateIntentModel: every field of the document held is set, which a     *)
(* document without a receipt leaves as it is stored.                      *)
Save(i, k) ==
  LET held == model[i][k]
      receipt == IF held.receipt = "none" THEN db[i].receipt ELSE held.receipt
  IN db' = [db EXCEPT ![i] = [status |-> held.status, receipt |-> receipt]]

(* A call that fails does nothing and throws.  If only its reply is lost,  *)
(* it throws as well, but what it was to do is done: the next job has been *)
(* added ...                                                               *)
Follower == [validate |-> "feasable", feasable |-> "fulfill"]

AddReplyLost(i, k) ==
  /\ "queue" \in Faults /\ Loss
  /\ k \in DOMAIN Follower /\ at[i][k] = "enqueue"
  /\ at' = Added(i, k, "thrown", Follower[k])
  /\ model' = [model EXCEPT ![i][k] = NoDoc]
  /\ UNCHANGED <<attempts, stalls, db, chainVars>>

(* ... or the document is written.                                         *)
WriteReplyLost(i, k) ==
  /\ "db" \in Faults /\ Loss
  /\ at[i][k] = "write"
  /\ Save(i, k)
  /\ at' = Moved(i, k, "thrown")
  /\ model' = [model EXCEPT ![i][k] = NoDoc]
  /\ UNCHANGED <<attempts, stalls, chainVars>>

(* getIntentProcessData yields nothing: the query failed and the error was *)
(* swallowed, or no solver serves the destination.                         *)
ProcessDataMissing(i) == "db" \in Faults \/ i \notin Supported

-----------------------------------------------------------------------------
(* create_intent: CreateIntentService.createIntent.  Once the log has been *)
(* decoded, whatever fails is caught and logged, and the job completes.    *)

(* A watcher or the chain sync reports the IntentCreated log.              *)
IntentLog(i) ==
  /\ at[i]["create"] = "absent"
  /\ Goto(i, "create", "waiting")
  /\ UNCHANGED <<model, db, chainVars>>

CreateRead(i) ==
  /\ at[i]["create"] = "read"
  /\ \/ i \notin Decodable /\ Throw(i, "create")
     \/ /\ i \in Decodable
        /\ db[i].status = "ABSENT"
        /\ Goto(i, "create", "decide")
        /\ UNCHANGED model
     \/ /\ i \in Decodable
        /\ db[i].status # "ABSENT" \/ "db" \in Faults
        /\ Return(i, "create")
  /\ UNCHANGED <<db, chainVars>>

(* Broken: the intent of a refused wallet is enqueued all the same.        *)
CreateRecordQueuesAll(i) ==
  /\ at[i]["create"] = "decide"
  /\ \E s \in {"PENDING", "NON-BEND-WALLET"} :
       db' = [db EXCEPT ![i] = [status |-> s, receipt |-> "none"]]
  /\ Goto(i, "create", "enqueue")
  /\ UNCHANGED <<model, chainVars>>

(* validateSmartWallet: the wallet is not one of the factory's, or its     *)
(* deployment cannot be read.                                              *)
RefuseWallet(i) ==
  /\ db' = [db EXCEPT ![i] = [status |-> "NON-BEND-WALLET", receipt |-> "none"]]
  /\ Return(i, "create")

(* The wallet is checked and the record created with the verdict.  When    *)
(* that fails, with or without effect, the error is caught.                *)
CreateRecord(i) ==
  /\ at[i]["create"] = "decide"
  /\ \/ /\ db' = [db EXCEPT ![i] = [status |-> "PENDING", receipt |-> "none"]]
        /\ Goto(i, "create", "enqueue")
        /\ UNCHANGED model
     \/ RefuseWallet(i)
     \/ /\ "db" \in Faults
        /\ db' = [db EXCEPT ![i] = [status |-> "PENDING", receipt |-> "none"]]
        /\ Return(i, "create")
     \/ /\ Faults \cap {"db", "rpc"} # {}
        /\ Return(i, "create")
        /\ UNCHANGED db
  /\ UNCHANGED chainVars

(* Broken: the handler ends without adding the next job.                   *)
CreateForgetsJob(i) ==
  /\ at[i]["create"] = "enqueue"
  /\ Return(i, "create")
  /\ UNCHANGED <<db, chainVars>>

CreateEnqueue(i) ==
  /\ at[i]["create"] = "enqueue"
  /\ \/ EnqueueAndReturn(i, "create", "validate")
     \/ "queue" \in Faults /\ Return(i, "create")
  /\ UNCHANGED <<db, chainVars>>

-----------------------------------------------------------------------------
(* validate_intent: ValidateIntentService.validateIntent.                  *)

ValidateRead(i) ==
  /\ at[i]["validate"] = "read"
  /\ \/ i \in Supported /\ Load(i, "validate", "decide")
     \/ ProcessDataMissing(i) /\ Throw(i, "validate")
  /\ UNCHANGED <<db, chainVars>>

(* All checks are made, on what is in memory.  The one of the selectors    *)
(* throws at a target that the solver does not have and at data that does  *)
(* not decode, whatever the others have found.                             *)
ValidateDecide(i) ==
  /\ at[i]["validate"] = "decide"
  /\ \/ i \in Checkable /\ Goto(i, "validate", "enqueue") /\ UNCHANGED model
     \/ i \in Checkable /\ Mark(i, "validate", "INVALID", "invalid")
     \/ i \notin Checkable /\ Throw(i, "validate")
  /\ UNCHANGED <<db, chainVars>>

ValidateWrite(i) ==
  /\ at[i]["validate"] = "write"
  /\ \/ Save(i, "validate") /\ Return(i, "validate")
     \/ "db" \in Faults /\ Throw(i, "validate") /\ UNCHANGED db
  /\ UNCHANGED chainVars

(* Broken: the feasibility stage is skipped.                               *)
ValidateSkipsStage(i) ==
  /\ at[i]["validate"] = "enqueue"
  /\ EnqueueAndReturn(i, "validate", "fulfill")
  /\ UNCHANGED <<db, chainVars>>

(* Broken: a write follows the add of the next job, and may throw.         *)
ValidateThrowsAfterAdd(i) ==
  /\ at[i]["validate"] = "enqueue"
  /\ \/ EnqueueAndReturn(i, "validate", "feasable")
     \/ /\ "db" \in Faults
        /\ at' = Added(i, "validate", "thrown", "feasable")
        /\ model' = [model EXCEPT ![i]["validate"] = NoDoc]
        /\ UNCHANGED <<attempts, stalls, losses>>
  /\ UNCHANGED <<db, chainVars>>

ValidateEnqueue(i) ==
  /\ at[i]["validate"] = "enqueue"
  /\ \/ EnqueueAndReturn(i, "validate", "feasable")
     \/ "queue" \in Faults /\ Throw(i, "validate")
  /\ UNCHANGED <<db, chainVars>>

-----------------------------------------------------------------------------
(* feasable_intent: FeasableIntentService.feasableIntent.                  *)

FeasableRead(i) ==
  /\ at[i]["feasable"] = "read"
  /\ \/ i \in Supported /\ Load(i, "feasable", "decide")
     \/ ProcessDataMissing(i) /\ Return(i, "feasable")
  /\ UNCHANGED <<db, chainVars>>

(* isRouteFeasible throws where it has no ask to compare: a token has not  *)
(* 6 decimals, the chain whose fee applies no solver or no known fee.      *)
FeasableDecide(i) ==
  /\ at[i]["feasable"] = "decide"
  /\ \/ i \in Priceable /\ Goto(i, "feasable", "enqueue") /\ UNCHANGED model
     \/ Mark(i, "feasable", "INFEASABLE", "infeasable")
     \/ (i \notin Priceable \/ "rpc" \in Faults) /\ Throw(i, "feasable")
  /\ UNCHANGED <<db, chainVars>>

(* Broken: the infeasible verdict is stored, and the intent goes on.       *)
FeasableGoesOn(i) ==
  /\ at[i]["feasable"] = "write"
  /\ Save(i, "feasable")
  /\ EnqueueAndReturn(i, "feasable", "fulfill")
  /\ UNCHANGED chainVars

FeasableWrite(i) ==
  /\ at[i]["feasable"] = "write"
  /\ \/ Save(i, "feasable") /\ Return(i, "feasable")
     \/ "db" \in Faults /\ Throw(i, "feasable") /\ UNCHANGED db
  /\ UNCHANGED chainVars

(* Broken: the handler ends without adding the next job.                   *)
FeasableForgetsJob(i) ==
  /\ at[i]["feasable"] = "enqueue"
  /\ Return(i, "feasable")
  /\ UNCHANGED <<db, chainVars>>

FeasableEnqueue(i) ==
  /\ at[i]["feasable"] = "enqueue"
  /\ \/ EnqueueAndReturn(i, "feasable", "fulfill")
     \/ "queue" \in Faults /\ Throw(i, "feasable")
  /\ UNCHANGED <<db, chainVars>>

-----------------------------------------------------------------------------
(* fulfill_intent: FulfillIntentService.executeFulfillIntent.              *)

(* Broken: an intent that is already solved is fulfilled once more.        *)
FulfillReadUnguarded(i) ==
  /\ at[i]["fulfill"] = "read"
  /\ Load(i, "fulfill", "prepare")
  /\ UNCHANGED <<db, chainVars>>

FulfillRead(i) ==
  /\ at[i]["fulfill"] = "read"
  /\ \/ /\ i \in Supported
        /\ db[i].status # "SOLVED"
        /\ Load(i, "fulfill", "prepare")
     \/ /\ db[i].status = "SOLVED" \/ ProcessDataMissing(i)
        /\ Return(i, "fulfill")
  /\ UNCHANGED <<db, chainVars>>

(* The client and the transactions, with the Hyperlane fee, are obtained.  *)
FulfillPrepare(i) ==
  /\ at[i]["fulfill"] = "prepare"
  /\ \/ Goto(i, "fulfill", "check") /\ UNCHANGED model
     \/ "rpc" \in Faults /\ Throw(i, "fulfill")
  /\ UNCHANGED <<db, chainVars>>

(* finalFeasibilityCheck.                                                  *)
FulfillCheck(i) ==
  /\ at[i]["fulfill"] = "check"
  /\ \/ Goto(i, "fulfill", "send") /\ UNCHANGED model
     \/ Mark(i, "fulfill", "FAILED", "error")
  /\ UNCHANGED <<db, chainVars>>

(* kernelAccountClient.execute may fail before the transaction has left or *)
(* after it.                                                               *)
FulfillSend(i) ==
  /\ at[i]["fulfill"] = "send"
  /\ \/ /\ txs' = [txs EXCEPT ![i] = Append(@, "pending")]
        /\ \/ Goto(i, "fulfill", "receipt") /\ UNCHANGED model
           \/ "rpc" \in Faults /\ Mark(i, "fulfill", "FAILED", "error")
     \/ /\ "rpc" \in Faults
        /\ Mark(i, "fulfill", "FAILED", "error")
        /\ UNCHANGED txs
  /\ UNCHANGED <<db, dest>>

(* Broken: the status of the receipt is not looked at.                     *)
FulfillTrustsReceipt(i) ==
  /\ at[i]["fulfill"] = "receipt"
  /\ txs[i][Len(txs[i])] # "pending"
  /\ Mark(i, "fulfill", "SOLVED", "mined")
  /\ UNCHANGED <<db, chainVars>>

(* Broken: the receipt is stored and the status left as it was read.       *)
FulfillForgetsStatus(i) ==
  /\ at[i]["fulfill"] = "receipt"
  /\ \/ /\ txs[i][Len(txs[i])] \in Successful
        /\ Mark(i, "fulfill", model[i]["fulfill"].status, "mined")
     \/ txs[i][Len(txs[i])] = "reverted" /\ Mark(i, "fulfill", "FAILED", "error")
     \/ "rpc" \in Faults /\ Mark(i, "fulfill", "FAILED", "error")
  /\ UNCHANGED <<db, chainVars>>

(* Broken: with no receipt in time, the transaction is sent once more.     *)
FulfillResends(i) ==
  /\ at[i]["fulfill"] = "receipt"
  /\ \/ /\ txs[i][Len(txs[i])] \in Successful
        /\ Mark(i, "fulfill", "SOLVED", "mined")
        /\ UNCHANGED txs
     \/ /\ txs[i][Len(txs[i])] = "reverted"
        /\ Mark(i, "fulfill", "FAILED", "error")
        /\ UNCHANGED txs
     \/ /\ "rpc" \in Faults
        /\ txs' = [txs EXCEPT ![i] = Append(@, "pending")]
        /\ UNCHANGED <<queueVars, model>>
  /\ UNCHANGED <<db, dest>>

(* waitForTransactionReceipt, for the transaction sent last.  When another *)
(* has taken its nonce, the receipt is that of the other.                  *)
FulfillReceipt(i) ==
  /\ at[i]["fulfill"] = "receipt"
  /\ \/ txs[i][Len(txs[i])] \in Successful /\ Mark(i, "fulfill", "SOLVED", "mined")
     \/ txs[i][Len(txs[i])] = "reverted" /\ Mark(i, "fulfill", "FAILED", "error")
     \/ "rpc" \in Faults /\ Mark(i, "fulfill", "FAILED", "error")
  /\ UNCHANGED <<db, chainVars>>

(* The finally block; the error caught before it is thrown on.             *)
FulfillWrite(i) ==
  /\ at[i]["fulfill"] = "write"
  /\ \/ /\ Save(i, "fulfill")
        /\ \/ model[i]["fulfill"].status # "FAILED" /\ Return(i, "fulfill")
           \/ model[i]["fulfill"].status = "FAILED" /\ Throw(i, "fulfill")
     \/ "db" \in Faults /\ Throw(i, "fulfill") /\ UNCHANGED db
  /\ UNCHANGED chainVars

-----------------------------------------------------------------------------
(* fulfillment, on the inbox queue: UtilsIntentService.updateOnFulfillment *)

(* The watcher of the inbox contract reports the Fulfillment log.          *)
FulfillmentLog(i) ==
  /\ dest[i] # "open"
  /\ at[i]["fulfillment"] = "absent"
  /\ Goto(i, "fulfillment", "waiting")
  /\ UNCHANGED <<model, db, chainVars>>

InboxRead(i) ==
  /\ at[i]["fulfillment"] = "read"
  /\ \/ /\ db[i].status # "ABSENT"
        /\ model' = [model EXCEPT ![i]["fulfillment"] = [db[i] EXCEPT !.status = "SOLVED"]]
        /\ Goto(i, "fulfillment", "write")
     \/ db[i].status = "ABSENT" /\ Return(i, "fulfillment")
     \/ "db" \in Faults /\ Throw(i, "fulfillment")
  /\ UNCHANGED <<db, chainVars>>

InboxWrite(i) ==
  /\ at[i]["fulfillment"] = "write"
  /\ \/ Save(i, "fulfillment") /\ Return(i, "fulfillment")
     \/ "db" \in Faults /\ Throw(i, "fulfillment") /\ UNCHANGED db
  /\ UNCHANGED chainVars

-----------------------------------------------------------------------------
(* The destination chain: an intent is fulfilled once, and a transaction   *)
(* for one that is fulfilled reverts.  Another transaction of the same     *)
(* account may be mined in its place, and succeed for another intent.      *)

TxLands(i, n) ==
  /\ n \in DOMAIN txs[i]
  /\ txs[i][n] = "pending"
  /\ \/ /\ dest[i] = "open"
        /\ dest' = [dest EXCEPT ![i] = "ours"]
        /\ txs' = [txs EXCEPT ![i][n] = "mined"]
     \/ /\ txs' = [txs EXCEPT ![i][n] = "reverted"]
        /\ UNCHANGED dest
     \/ /\ "replace" \in Faults
        /\ txs' = [txs EXCEPT ![i][n] = "replaced"]
        /\ UNCHANGED dest
  /\ UNCHANGED <<queueVars, model, db>>

OtherSolver(i) ==
  /\ dest[i] = "open"
  /\ dest' = [dest EXCEPT ![i] = "other"]
  /\ UNCHANGED <<queueVars, model, db, txs>>

-----------------------------------------------------------------------------
Handler(i) ==
  \/ CreateRead(i) \/ CreateRecord(i) \/ CreateEnqueue(i)
  \/ ValidateRead(i) \/ ValidateDecide(i) \/ ValidateWrite(i) \/ ValidateEnqueue(i)
  \/ FeasableRead(i) \/ FeasableDecide(i) \/ FeasableWrite(i) \/ FeasableEnqueue(i)
  \/ FulfillRead(i) \/ FulfillPrepare(i) \/ FulfillCheck(i) \/ FulfillSend(i)
  \/ FulfillReceipt(i) \/ FulfillWrite(i)
  \/ InboxRead(i) \/ InboxWrite(i)

Chain(i) ==
  \/ \E n \in 1..Len(txs[i]) : TxLands(i, n)
  \/ OtherSolver(i)

Logs(i) == IntentLog(i) \/ FulfillmentLog(i)

Next ==
  \E i \in Intents :
    \/ \E k \in Kinds : Start(i, k) \/ Report(i, k) \/ Crash(i, k)
    \/ \E k \in Kinds : AddReplyLost(i, k) \/ WriteReplyLost(i, k)
    \/ Handler(i)
    \/ Chain(i)
    \/ Logs(i)

(* Workers poll their queue and handlers end every await, by an answer or  *)
(* by a timeout; a transaction sent is included.  Nothing obliges a rival  *)
(* to act, a worker to die, a reply to be lost or a log to be seen.        *)
Fairness ==
  /\ WF_vars(\E i \in Intents, k \in Kinds : Start(i, k))
  /\ \A i \in Intents : WF_vars(Handler(i) \/ \E k \in Kinds : Report(i, k))
  /\ \A i \in Intents : WF_vars(\E n \in 1..Len(txs[i]) : TxLands(i, n))

Spec == Init /\ [][Next]_vars
FairSpec == Spec /\ Fairness

-----------------------------------------------------------------------------
(* Properties.                                                             *)

(* A transaction sent for the intent was replaced by another.              *)
Replaced(i) == \E n \in 1..Len(txs[i]) : txs[i][n] = "replaced"

(* A record says SOLVED only of an intent that is fulfilled on its         *)
(* destination chain, and holds a successful receipt only if a transaction *)
(* of this solver fulfilled it, whatever stale document a handler writes   *)
(* back.  The one way to invent a fulfilment is another transaction that   *)
(* takes the nonce of the intent's own: executeFulfillIntent takes the     *)
(* receipt of the other for its own.                                       *)
SolvedIsTruthful ==
  \A i \in Intents : ~Replaced(i) =>
    /\ db[i].status = "SOLVED" => dest[i] # "open"
    /\ db[i].receipt = "mined" => dest[i] = "ours"

(* Status and receipt are written together from one document, so a record  *)
(* refused, infeasible or failed always carries the cause of that verdict, *)
(* however the writes of several handlers and of the fulfilment event      *)
(* overtake one another.                                                   *)
CauseRecorded ==
  \A i \in Intents :
    /\ db[i].status = "INVALID" => db[i].receipt = "invalid"
    /\ db[i].status = "INFEASABLE" => db[i].receipt = "infeasable"
    /\ db[i].status = "FAILED" => db[i].receipt = "error"

(* An intent whose creator is not a Bend wallet is recorded but not queued *)
(* for any later stage, in any run of its create job.                      *)
RefusedNeverQueued ==
  \A i \in Intents : db[i].status = "NON-BEND-WALLET" => at[i]["validate"] = "absent"

(* However often the logs are reported, jobs retried and workers lost, the *)
(* solver pays for a bounded number of transactions per intent: one for    *)
(* each run of the only fulfill job its retained job id admits.            *)
MaxSends == MaxAttempts + MaxStalls
SendsBounded == \A i \in Intents : Len(txs[i]) <= MaxSends

(* The inductive invariant behind the properties above.  BudgetOK: a job   *)
(* that has used up its attempts or its stalls is failed.                  *)
BudgetOK ==
  \A i \in Intents, k \in Kinds :
    at[i][k] # "failed" => attempts[i][k] < MaxAttempts /\ stalls[i][k] <= MaxStalls

(* Each stage is entered from the one before, on a record that exists and  *)
(* was not refused, and no handler re-creates a record.                    *)
InOrder(i) ==
  /\ at[i]["create"] = "decide" => db[i].status = "ABSENT"
  /\ at[i]["create"] = "enqueue" \/ at[i]["validate"] # "absent"
       => db[i].status \notin {"ABSENT", "NON-BEND-WALLET"}
  /\ at[i]["feasable"] # "absent" => at[i]["validate"] # "absent"
  /\ at[i]["fulfill"] # "absent" => at[i]["feasable"] # "absent"
  /\ at[i]["fulfillment"] = "write" => db[i].status # "ABSENT"

(* What a handler about to write has in hand.  (The create handler writes  *)
(* when it decides.)                                                       *)
HeldToWrite(i) ==
  /\ at[i]["create"] # "write"
  /\ at[i]["validate"] = "write" => model[i]["validate"].status = "INVALID"
  /\ at[i]["feasable"] = "write" => model[i]["feasable"].status = "INFEASABLE"
  /\ at[i]["fulfill"] = "write" => model[i]["fulfill"].status \in {"SOLVED", "FAILED"}
  /\ at[i]["fulfillment"] = "write" => model[i]["fulfillment"].status = "SOLVED"

(* A document, stored or held, is true of the chain, unless a transaction  *)
(* was replaced, and carries its cause.                                    *)
Sound(d, i) ==
  /\ d.status = "SOLVED" => dest[i] # "open" \/ Replaced(i)
  /\ d.receipt = "mined" => dest[i] = "ours" \/ Replaced(i)
  /\ d.status = "INVALID" => d.receipt = "invalid"
  /\ d.status = "INFEASABLE" => d.receipt = "infeasable"
  /\ d.status = "FAILED" => d.receipt = "error"
DocsSound(i) == Sound(db[i], i) /\ \A k \in Kinds : Sound(model[i][k], i)

(* What the handlers learn from the chain is true for ever.                *)
ChainFacts(i) ==
  /\ at[i]["fulfillment"] # "absent" => dest[i] # "open"
  /\ \A n \in 1..Len(txs[i]) : txs[i][n] = "mined" => dest[i] = "ours"
  /\ at[i]["fulfill"] = "receipt" => Len(txs[i]) > 0

(* Every transaction belongs to a run of the fulfill job: one that threw,  *)
(* one that died, or the last.                                             *)
SentInThisRun(p) ==
  IF p \in {"receipt", "write", "returned", "thrown", "completed"} THEN 1 ELSE 0
SendsCounted(i) ==
  LET runs == attempts[i]["fulfill"] + stalls[i]["fulfill"]
      p == at[i]["fulfill"]
  IN /\ Len(txs[i]) <= runs + SentInThisRun(p)
     /\ p = "failed" => runs <= MaxSends

IndInv ==
  /\ TypeOK
  /\ BudgetOK
  /\ \A i \in Intents :
       InOrder(i) /\ HeldToWrite(i) /\ DocsSound(i) /\ ChainFacts(i) /\ SendsCounted(i)

(* Retries, and a worker that dies or a reply that is lost, never make the *)
(* solver pay again for an intent whose record holds a successful receipt. *)
(* (Two losses can: a feasable job run again overwrites the record, and    *)
(* the fulfill job, run again because its worker died before reporting,    *)
(* then reads INFEASABLE.)                                                 *)
NoSendAfterOwnReceipt ==
  [][\A i \in Intents : losses <= 1 /\ Len(txs'[i]) > Len(txs[i])
                        => db[i].receipt # "mined"]_vars

(* While no worker has died and no reply was lost, whichever calls fail,   *)
(* no transaction is sent for an intent whose record says it is invalid or *)
(* infeasible.                                                             *)
NoSendOnceRejected ==
  [][\A i \in Intents : losses = 0 /\ Len(txs'[i]) > Len(txs[i])
                        => db[i].status \notin {"INVALID", "INFEASABLE"}]_vars

(* While no worker has died and no reply was lost, a record that holds a   *)
(* successful receipt stays SOLVED: no handler with an older document      *)
(* undoes it.                                                              *)
OwnReceiptSticks ==
  [][\A i \in Intents : losses = 0 /\ db[i].receipt = "mined"
                        => db'[i].status = "SOLVED"]_vars

(* Without faults, a record that says SOLVED of an intent this solver      *)
(* fulfilled says so for ever: neither the handlers that still hold an     *)
(* older document nor the fulfilment event take the status back.           *)
OwnSolveSticks ==
  [][\A i \in Intents :
       db[i].status = "SOLVED" /\ dest[i] = "ours" => db'[i].status = "SOLVED"]_vars

(* Every job that is queued ends, completed or failed, whatever fails.     *)
JobsSettle ==
  \A i \in Intents, k \in Kinds : at[i][k] = "waiting" ~> at[i][k] \in Settled

(* As long as the database answers, whatever else fails and whichever      *)
(* workers die, an intent PENDING whose validate job was queued has a job  *)
(* at hand that will decide about it, or one that failed: no handler ends  *)
(* quietly without a verdict or a next job (validateIntent,                *)
(* feasableIntent, executeFulfillIntent).                                  *)
NotForgotten ==
  \A i \in Supported :
    db[i].status = "PENDING" /\ at[i]["validate"] # "absent" =>
      \E k \in {"validate", "feasable", "fulfill"} :
        at[i][k] \notin {"absent", "returned", "completed"}

(* Without faults, every intent recorded for a supported destination       *)
(* leaves PENDING, unless the checks throw at it whenever they are made.   *)
VerdictReached ==
  \A i \in Supported \cap Checkable \cap Priceable :
    db[i].status = "PENDING" ~> db[i].status # "PENDING"

(* Without faults, an intent this solver fulfils ends up SOLVED.           *)
FulfilledIsSolved ==
  \A i \in Intents : dest[i] = "ours" ~> db[i].status = "SOLVED"

(* The create handler's documentation: once it has created the record of   *)
(* an accepted intent it enqueues the intent for validation.               *)
RecordedIsEnqueued ==
  \A i \in Intents :
    at[i]["create"] \in Settled /\ db[i].status = "PENDING" => at[i]["validate"] # "absent"

(* How far an intent has come, told by the jobs that exist for it: the     *)
(* pipeline implements IntentLifecycle.                                    *)
Stage(i) ==
  IF at[i]["fulfill"] # "absent" THEN "cleared"
  ELSE IF at[i]["feasable"] # "absent" THEN "validated"
  ELSE IF at[i]["validate"] # "absent" THEN "queued"
  ELSE IF db[i].status # "ABSENT" THEN "recorded"
  ELSE "unseen"

Lifecycle == INSTANCE IntentLifecycle WITH
  stage <- [i \in Intents |-> Stage(i)],
  status <- [i \in Intents |-> db[i].status],
  sends <- [i \in Intents |-> Len(txs[i])],
  replaced <- [i \in Intents |-> Replaced(i)]

ImplementsLifecycle == Lifecycle!Spec
=============================================================================
