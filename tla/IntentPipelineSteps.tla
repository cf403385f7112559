------------------------- MODULE IntentPipelineSteps -------------------------
(***************************************************************************)
(* Theorems about the steps of IntentPipeline: what they may never do,     *)
(* from a second invariant, Steps; that none forgets an intent as long as  *)
(* the database answers; and that they implement IntentLifecycle.          *)
(***************************************************************************)
EXTENDS IntentPipelineProofs

-----------------------------------------------------------------------------
(* What a step may never do.                                               *)

(* A handler that has added the next job is done, ...                      *)
Ended == {"returned", "completed"}
HandedOn(i) ==
  /\ at[i]["feasable"] # "absent" => at[i]["validate"] \in Ended
  /\ at[i]["fulfill"] # "absent" => at[i]["feasable"] \in Ended

(* ... so is one that has rejected the intent, and the next job is not     *)
(* added, ...                                                              *)
Rejected(i) ==
  /\ db[i].status = "INVALID" => at[i]["validate"] \in Ended /\ at[i]["feasable"] = "absent"
  /\ db[i].status = "INFEASABLE" => at[i]["feasable"] \in Ended /\ at[i]["fulfill"] = "absent"

(* ... and so is the fulfill job, once the solver's own successful receipt *)
(* is stored, or about to be stored again by the fulfilment event: as long *)
(* as nothing was lost.                                                    *)
Paid(i) ==
  \/ db[i].receipt = "mined"
  \/ at[i]["fulfillment"] = "write" /\ model[i]["fulfillment"].receipt = "mined"
Closed(i) == Paid(i) => db[i].status = "SOLVED" /\ at[i]["fulfill"] \in Ended
Undisturbed(i) == losses = 0 => HandedOn(i) /\ Rejected(i) /\ Closed(i)

(* A loss lets one job run once more.  If it is the fulfill job, then no   *)
(* other does, the record still says SOLVED, and the job will read that.   *)
RunAgain == {"waiting", "read", "thrown", "failed"}
Harmless(i) ==
  \/ at[i]["fulfill"] \in Ended
  \/ HandedOn(i) /\ db[i].status = "SOLVED" /\ at[i]["fulfill"] \in RunAgain
PaidOnce(i) == Paid(i) => Harmless(i)

Steps(i) == Undisturbed(i) /\ (losses <= 1 => PaidOnce(i))

LEMMA HandlerHandedOn ==
  ASSUME NEW i \in Intents, AtOK, ModelOK, DbOK, TxsOK, InOrder(i), HandedOn(i), Handler(i)
  PROVE  HandedOn(i)'
<1>. USE KindNames, GotoMoves, EndMoves, EnqueueMoves, MarkMoves, LoadMoves, SaveWrites
     DEF Return, Throw, InOrder, HandedOn, Ended
<1>1. CASE CreateRead(i) BY <1>1 DEF CreateRead
<1>2. CASE CreateRecord(i) BY <1>2, RecordWrites DEF CreateRecord, RefuseWallet
<1>3. CASE CreateEnqueue(i) BY <1>3 DEF CreateEnqueue
<1>4. CASE ValidateRead(i) BY <1>4 DEF ValidateRead
<1>5. CASE ValidateDecide(i) BY <1>5 DEF ValidateDecide
<1>6. CASE ValidateWrite(i) BY <1>6 DEF ValidateWrite
<1>7. CASE ValidateEnqueue(i) BY <1>7 DEF ValidateEnqueue
<1>8. CASE FeasableRead(i) BY <1>8 DEF FeasableRead
<1>9. CASE FeasableDecide(i) BY <1>9 DEF FeasableDecide
<1>10. CASE FeasableWrite(i) BY <1>10 DEF FeasableWrite
<1>11. CASE FeasableEnqueue(i) BY <1>11 DEF FeasableEnqueue
<1>12. CASE FulfillRead(i) BY <1>12 DEF FulfillRead
<1>13. CASE FulfillPrepare(i) BY <1>13 DEF FulfillPrepare
<1>14. CASE FulfillCheck(i) BY <1>14 DEF FulfillCheck
<1>15. CASE FulfillSend(i) BY <1>15 DEF FulfillSend
<1>16. CASE FulfillReceipt(i) BY <1>16 DEF FulfillReceipt
<1>17. CASE FulfillWrite(i) BY <1>17 DEF FulfillWrite
<1>18. CASE InboxRead(i) BY <1>18, EventLoads DEF InboxRead
<1>19. CASE InboxWrite(i) BY <1>19 DEF InboxWrite
<1>. QED
  BY <1>1, <1>2, <1>3, <1>4, <1>5, <1>6, <1>7, <1>8, <1>9, <1>10, <1>11, <1>12,
     <1>13, <1>14, <1>15, <1>16, <1>17, <1>18, <1>19 DEF Handler

LEMMA HandlerRejected ==
  ASSUME NEW i \in Intents, AtOK, ModelOK, DbOK, TxsOK, InOrder(i), HeldToWrite(i), HandedOn(i),
         Rejected(i), Handler(i)
  PROVE  Rejected(i)'
<1>. USE KindNames, GotoMoves, EndMoves, EnqueueMoves, MarkMoves, LoadMoves, SaveWrites
     DEF Return, Throw, InOrder, HeldToWrite, HandedOn, Rejected, Ended
<1>1. CASE CreateRead(i) BY <1>1 DEF CreateRead
<1>2. CASE CreateRecord(i) BY <1>2, RecordWrites DEF CreateRecord, RefuseWallet
<1>3. CASE CreateEnqueue(i) BY <1>3 DEF CreateEnqueue
<1>4. CASE ValidateRead(i) BY <1>4 DEF ValidateRead
<1>5. CASE ValidateDecide(i) BY <1>5 DEF ValidateDecide
<1>6. CASE ValidateWrite(i) BY <1>6 DEF ValidateWrite
<1>7. CASE ValidateEnqueue(i) BY <1>7 DEF ValidateEnqueue
<1>8. CASE FeasableRead(i) BY <1>8 DEF FeasableRead
<1>9. CASE FeasableDecide(i) BY <1>9 DEF FeasableDecide
<1>10. CASE FeasableWrite(i) BY <1>10 DEF FeasableWrite
<1>11. CASE FeasableEnqueue(i) BY <1>11 DEF FeasableEnqueue
<1>12. CASE FulfillRead(i) BY <1>12 DEF FulfillRead
<1>13. CASE FulfillPrepare(i) BY <1>13 DEF FulfillPrepare
<1>14. CASE FulfillCheck(i) BY <1>14 DEF FulfillCheck
<1>15. CASE FulfillSend(i) BY <1>15 DEF FulfillSend
<1>16. CASE FulfillReceipt(i) BY <1>16 DEF FulfillReceipt
<1>17. CASE FulfillWrite(i) BY <1>17 DEF FulfillWrite
<1>18. CASE InboxRead(i) BY <1>18, EventLoads DEF InboxRead
<1>19. CASE InboxWrite(i) BY <1>19 DEF InboxWrite
<1>. QED
  BY <1>1, <1>2, <1>3, <1>4, <1>5, <1>6, <1>7, <1>8, <1>9, <1>10, <1>11, <1>12,
     <1>13, <1>14, <1>15, <1>16, <1>17, <1>18, <1>19 DEF Handler

LEMMA HandlerClosed ==
  ASSUME NEW i \in Intents, AtOK, ModelOK, DbOK, TxsOK, InOrder(i), HeldToWrite(i), DocsSound(i),
         HandedOn(i), Closed(i), Handler(i)
  PROVE  Closed(i)' /\ (db[i].receipt = "mined" => db'[i].status = "SOLVED")
<1>. USE KindNames, GotoMoves, EndMoves, EnqueueMoves, MarkMoves, LoadMoves, SaveWrites
     DEF Return, Throw, InOrder, HeldToWrite, HandedOn, Paid, Closed, Ended, chainVars
<1>1. CASE CreateRead(i) BY <1>1 DEF CreateRead
<1>2. CASE CreateRecord(i) BY <1>2, RecordWrites DEF CreateRecord, RefuseWallet
<1>3. CASE CreateEnqueue(i) BY <1>3 DEF CreateEnqueue
<1>4. CASE ValidateRead(i) BY <1>4 DEF ValidateRead
<1>5. CASE ValidateDecide(i) BY <1>5 DEF ValidateDecide
<1>6. CASE ValidateWrite(i) BY <1>6 DEF ValidateWrite, DocsSound, Sound
<1>7. CASE ValidateEnqueue(i) BY <1>7 DEF ValidateEnqueue
<1>8. CASE FeasableRead(i) BY <1>8 DEF FeasableRead
<1>9. CASE FeasableDecide(i) BY <1>9 DEF FeasableDecide
<1>10. CASE FeasableWrite(i) BY <1>10 DEF FeasableWrite, DocsSound, Sound
<1>11. CASE FeasableEnqueue(i) BY <1>11 DEF FeasableEnqueue
<1>12. CASE FulfillRead(i) BY <1>12 DEF FulfillRead
<1>13. CASE FulfillPrepare(i) BY <1>13 DEF FulfillPrepare
<1>14. CASE FulfillCheck(i) BY <1>14 DEF FulfillCheck
<1>15. CASE FulfillSend(i) BY <1>15 DEF FulfillSend
<1>16. CASE FulfillReceipt(i) BY <1>16 DEF FulfillReceipt
<1>17. CASE FulfillWrite(i) BY <1>17 DEF FulfillWrite, DocsSound, Sound
<1>18. CASE InboxRead(i) BY <1>18, EventLoads DEF InboxRead
<1>19. CASE InboxWrite(i) BY <1>19 DEF InboxWrite
<1>. QED
  BY <1>1, <1>2, <1>3, <1>4, <1>5, <1>6, <1>7, <1>8, <1>9, <1>10, <1>11, <1>12,
     <1>13, <1>14, <1>15, <1>16, <1>17, <1>18, <1>19 DEF Handler

LEMMA HandlerPaidOnce ==
  ASSUME NEW i \in Intents, AtOK, ModelOK, DbOK, TxsOK, InOrder(i), HeldToWrite(i), DocsSound(i),
         PaidOnce(i), Handler(i)
  PROVE  PaidOnce(i)'
<1>0. /\ HandedOn(i) => HandedOn(i)'
      /\ HandedOn(i) /\ at[i]["fulfill"] # "absent" =>
           at[i]["validate"] \in Ended /\ at[i]["feasable"] \in Ended
  BY HandlerHandedOn DEF InOrder, HandedOn
<1>. USE KindNames, GotoMoves, EndMoves, EnqueueMoves, MarkMoves, LoadMoves, SaveWrites, <1>0
     DEF Return, Throw, InOrder, HeldToWrite, Paid, PaidOnce, Harmless, RunAgain, Ended, chainVars
<1>1. CASE CreateRead(i) BY <1>1 DEF CreateRead
<1>2. CASE CreateRecord(i) BY <1>2, RecordWrites DEF CreateRecord, RefuseWallet
<1>3. CASE CreateEnqueue(i) BY <1>3 DEF CreateEnqueue
<1>4. CASE ValidateRead(i) BY <1>4 DEF ValidateRead
<1>5. CASE ValidateDecide(i) BY <1>5 DEF ValidateDecide
<1>6. CASE ValidateWrite(i) BY <1>6 DEF ValidateWrite, DocsSound, Sound
<1>7. CASE ValidateEnqueue(i) BY <1>7 DEF ValidateEnqueue
<1>8. CASE FeasableRead(i) BY <1>8 DEF FeasableRead
<1>9. CASE FeasableDecide(i) BY <1>9 DEF FeasableDecide
<1>10. CASE FeasableWrite(i) BY <1>10 DEF FeasableWrite, DocsSound, Sound
<1>11. CASE FeasableEnqueue(i) BY <1>11 DEF FeasableEnqueue
<1>12. CASE FulfillRead(i) BY <1>12 DEF FulfillRead
<1>13. CASE FulfillPrepare(i) BY <1>13 DEF FulfillPrepare
<1>14. CASE FulfillCheck(i) BY <1>14 DEF FulfillCheck
<1>15. CASE FulfillSend(i) BY <1>15 DEF FulfillSend
<1>16. CASE FulfillReceipt(i) BY <1>16 DEF FulfillReceipt
<1>17. CASE FulfillWrite(i) BY <1>17 DEF FulfillWrite, DocsSound, Sound
<1>18. CASE InboxRead(i) BY <1>18, EventLoads DEF InboxRead
<1>19. CASE InboxWrite(i) BY <1>19 DEF InboxWrite
<1>. QED
  BY <1>1, <1>2, <1>3, <1>4, <1>5, <1>6, <1>7, <1>8, <1>9, <1>10, <1>11, <1>12,
     <1>13, <1>14, <1>15, <1>16, <1>17, <1>18, <1>19 DEF Handler

LEMMA LossesAreNat ==
  ASSUME Typed
  PROVE  losses \in Nat
  BY TypedGives, ConstantsAssumption DEF QueueInv

(* Taking a job, reporting it and losing its worker leave the record, and  *)
(* the places of the other jobs.                                           *)
LEMMA QueueStep ==
  ASSUME NEW i \in Intents, NEW k \in Kinds, Typed,
         Start(i, k) \/ Report(i, k) \/ Crash(i, k)
  PROVE  /\ UNCHANGED <<db, dest, txs>>
         /\ \A m \in Kinds \ {k} : at'[i][m] = at[i][m]
         /\ at[i][k] \notin {"absent", "completed", "failed"} /\ at'[i][k] # "absent"
         /\ model'[i]["fulfillment"] = model[i]["fulfillment"] \/ at'[i]["fulfillment"] # "write"
         /\ at'[i][k] \in {"waiting", "read", "completed", "failed"}
         /\ \/ losses' = losses /\ (at[i][k] \in Ended => at'[i][k] \in Ended)
            \/ losses' = losses + 1 /\ at'[i][k] \in {"waiting", "failed"}
<1>. USE TypedGives, KindNames
<1>1. CASE Start(i, k)
  <2>1. at[i][k] = "waiting" /\ at' = [at EXCEPT ![i][k] = "read"]
        /\ UNCHANGED <<db, dest, txs, model, losses>>
    BY <1>1 DEF Start, Goto, Moved, chainVars
  <2>. QED
    BY <2>1 DEF AtOK, Ended
<1>2. CASE Report(i, k)
  <2>1. /\ UNCHANGED <<db, dest, txs, model, losses>>
        /\ \/ at[i][k] = "returned" /\ at' = [at EXCEPT ![i][k] = "completed"]
           \/ at[i][k] = "thrown" /\ at' = [at EXCEPT ![i][k] = "waiting"]
           \/ at[i][k] = "thrown" /\ at' = [at EXCEPT ![i][k] = "failed"]
    BY <1>2 DEF Report, Goto, Moved, chainVars
  <2>. QED
    BY <2>1 DEF AtOK, Ended
<1>3. CASE Crash(i, k)
  <2>1. /\ at' = [at EXCEPT ![i][k] = "waiting"] \/ at' = [at EXCEPT ![i][k] = "failed"]
        /\ losses' = losses + 1 /\ model' = [model EXCEPT ![i][k] = NoDoc]
        /\ UNCHANGED <<db, dest, txs>>
        /\ at[i][k] \in Points
    BY <1>3 DEF Crash, Loss, Moved, chainVars
  <2>2. /\ at'[i][k] \in {"waiting", "failed"}
        /\ \A m \in Kinds \ {k} : at'[i][m] = at[i][m]
    BY <2>1 DEF AtOK
  <2>3. at[i][k] \notin {"absent", "completed", "failed"}
    BY <2>1 DEF Points
  <2>4. model'[i]["fulfillment"] = model[i]["fulfillment"] \/ at'[i]["fulfillment"] # "write"
    BY <2>1, <2>2 DEF ModelOK
  <2>. QED
    BY <2>1, <2>2, <2>3, <2>4
<1>. QED
  BY <1>1, <1>2, <1>3

LEMMA QueueKeepsSteps ==
  ASSUME NEW i \in Intents, NEW k \in Kinds, Typed, Steps(i),
         Start(i, k) \/ Report(i, k) \/ Crash(i, k)
  PROVE  Steps(i)'
<1>. USE QueueStep, LossesAreNat, KindNames DEF Steps
<1>1. Paid(i)' => Paid(i)
  BY DEF Paid
<1>2. \A m \in Kinds : at'[i][m] = "absent" <=> at[i][m] = "absent"
  OBVIOUS
<1>3. CASE losses' = losses /\ (at[i][k] \in Ended => at'[i][k] \in Ended)
  <2>1. \A m \in Kinds : at[i][m] \in Ended => at'[i][m] \in Ended
    BY <1>3
  <2>2. HandedOn(i) => HandedOn(i)'
    BY <1>2, <2>1 DEF HandedOn
  <2>3. Undisturbed(i)'
    BY <1>1, <1>2, <1>3, <2>1, <2>2 DEF Undisturbed, Rejected, Closed
  <2>4. at[i]["fulfill"] \in RunAgain => at'[i]["fulfill"] \in RunAgain \cup Ended
    BY DEF RunAgain, Ended
  <2>5. PaidOnce(i) => PaidOnce(i)'
    BY <1>1, <2>1, <2>2, <2>4 DEF PaidOnce, Harmless
  <2>. QED
    BY <1>3, <2>3, <2>5
<1>4. CASE losses' = losses + 1 /\ at'[i][k] \in {"waiting", "failed"}
  <2>1. Undisturbed(i)'
    BY <1>4 DEF Undisturbed
  <2>2. ASSUME losses' <= 1, Paid(i)'
        PROVE  Harmless(i)'
    <3>1. HandedOn(i) /\ Closed(i)
      BY <1>4, <2>2 DEF Undisturbed
    <3>2. CASE k = "fulfill"
      <4>1. HandedOn(i)'
        BY <1>2, <3>1, <3>2 DEF HandedOn
      <4>. QED
        BY <1>1, <1>4, <2>2, <3>1, <3>2, <4>1 DEF Closed, Harmless, RunAgain
    <3>3. CASE k # "fulfill"
      BY <1>1, <2>2, <3>1, <3>3 DEF Closed, Harmless
    <3>. QED
      BY <3>2, <3>3
  <2>. QED
    BY <2>1, <2>2 DEF PaidOnce
<1>. QED
  BY <1>3, <1>4

(* A reply that is lost is a loss: before the first, nothing was disturbed *)
(* and the jobs before the one that has been paid for have ended.          *)
LEMMA LostKeepsSteps ==
  ASSUME NEW i \in Intents, NEW k \in Kinds, Typed, Parts(i), Steps(i),
         AddReplyLost(i, k) \/ WriteReplyLost(i, k)
  PROVE  Steps(i)'
<1>. USE TypedGives, LossesAreNat, KindNames DEF Steps
<1>1. losses' = losses + 1
  BY AddLostMoves, WriteLostMoves
<1>2. Undisturbed(i)'
  BY <1>1 DEF Undisturbed
<1>3. ASSUME losses' <= 1, Paid(i)'
      PROVE  Harmless(i)'
  <2>1. HandedOn(i) /\ Closed(i)
    BY <1>1, <1>3 DEF Undisturbed
  <2>2. CASE AddReplyLost(i, k)
    <3>1. at[i]["fulfill"] \notin Ended
      BY <2>1, <2>2, AddLostMoves DEF HandedOn, Ended, Parts, InOrder
    <3>2. Paid(i)
      BY <1>3, <2>2, AddLostMoves DEF Paid
    <3>. QED
      BY <2>1, <3>1, <3>2 DEF Closed
  <2>3. CASE WriteReplyLost(i, k)
    <3>1. /\ at[i][k] = "write" /\ at'[i][k] = "thrown"
          /\ \A m \in Kinds \ {k} : at'[i][m] = at[i][m] /\ model'[i][m] = model[i][m]
          /\ db'[i].status = model[i][k].status
          /\ db'[i].receipt = IF model[i][k].receipt = "none" THEN db[i].receipt
                              ELSE model[i][k].receipt
      BY <2>3, WriteLostMoves
    <3>2. CASE Paid(i)
      <4>1. k \notin {"fulfill", "validate", "feasable"}
        BY <2>1, <3>1, <3>2 DEF Closed, HandedOn, Ended, Parts, InOrder
      <4>. QED
        BY <2>1, <3>1, <3>2, <4>1 DEF Closed, Harmless
    <3>3. CASE ~Paid(i)
      <4>1. k = "fulfill" /\ model[i][k].status = "SOLVED"
        BY <1>3, <3>1, <3>3
        DEF Paid, Parts, HeldToWrite, DocsSound, Sound, Kinds, SourceKinds
      <4>2. HandedOn(i)'
        BY <2>1, <3>1, <4>1 DEF HandedOn
      <4>. QED
        BY <3>1, <4>1, <4>2 DEF Harmless, RunAgain
    <3>. QED
      BY <3>2, <3>3
  <2>. QED
    BY <2>2, <2>3
<1>. QED
  BY <1>2, <1>3 DEF PaidOnce

LEMMA LogsKeepSteps ==
  ASSUME NEW i \in Intents, Typed, Steps(i), Logs(i)
  PROVE  Steps(i)'
<1>. USE TypedGives, KindNames
<1>1. UNCHANGED <<model, db, losses>>
  BY DEF Logs, IntentLog, FulfillmentLog, Goto, chainVars
<1>2. \A m \in Kinds \ {"create", "fulfillment"} : at'[i][m] = at[i][m]
  BY GotoMoves DEF Logs, IntentLog, FulfillmentLog
<1>3. at'[i]["fulfillment"] \in {at[i]["fulfillment"], "waiting"}
  BY GotoMoves DEF Logs, IntentLog, FulfillmentLog
<1>. QED
  BY <1>1, <1>2, <1>3
  DEF Steps, Undisturbed, HandedOn, Rejected, Closed, PaidOnce, Harmless, Paid

LEMMA NothingLost ==
  ASSUME NEW i \in Intents, Handler(i)
  PROVE  losses' = losses
  BY DEF Handler, CreateRead, CreateRecord, RefuseWallet, CreateEnqueue, ValidateRead,
     ValidateDecide, ValidateWrite, ValidateEnqueue, FeasableRead, FeasableDecide, FeasableWrite,
     FeasableEnqueue, FulfillRead, FulfillPrepare, FulfillCheck, FulfillSend, FulfillReceipt,
     FulfillWrite, InboxRead, InboxWrite, Return, Throw, End, Load, Mark, EnqueueAndReturn, Goto

LEMMA HandlerKeepsSteps ==
  ASSUME NEW i \in Intents, Typed, Parts(i), Steps(i), Handler(i)
  PROVE  Steps(i)'
<1>. USE TypedGives, NothingLost DEF Parts, Steps
<1>1. Undisturbed(i)'
  BY HandlerHandedOn, HandlerRejected, HandlerClosed DEF Undisturbed
<1>2. PaidOnce(i) => PaidOnce(i)'
  BY HandlerPaidOnce
<1>. QED
  BY <1>1, <1>2

LEMMA ChainKeepsSteps ==
  ASSUME NEW i \in Intents, Steps(i), Chain(i)
  PROVE  Steps(i)'
<1>1. UNCHANGED <<at, losses, model, db>>
  BY DEF Chain, TxLands, OtherSolver, queueVars
<1>. QED
  BY <1>1 DEF Steps, Undisturbed, HandedOn, Rejected, Closed, PaidOnce, Harmless, Paid

LEMMA LossesGrow ==
  ASSUME NEW i \in Intents, Typed, Turn(i)
  PROVE  losses' \in {losses, losses + 1} /\ losses \in Nat
<1>. USE TypedGives, LossesAreNat
<1>1. CASE \E k \in Kinds : Start(i, k) \/ Report(i, k) \/ Crash(i, k)
  BY <1>1, QueueStep
<1>2. CASE \E k \in Kinds : AddReplyLost(i, k) \/ WriteReplyLost(i, k)
  BY <1>2, AddLostMoves, WriteLostMoves
<1>3. CASE Handler(i) \/ Chain(i) \/ Logs(i)
  BY <1>3, NothingLost DEF Chain, TxLands, OtherSolver, queueVars, Logs, IntentLog,
     FulfillmentLog, Goto
<1>. QED
  BY <1>1, <1>2, <1>3 DEF Turn

LEMMA FrameSteps ==
  ASSUME NEW j \in Intents, Typed, Steps(j), losses' \in {losses, losses + 1},
         at'[j] = at[j], model'[j] = model[j], db'[j] = db[j]
  PROVE  Steps(j)'
<1>1. losses \in Nat /\ (losses' = 0 => losses = 0) /\ (losses' <= 1 => losses <= 1)
  BY LossesAreNat
<1>2. /\ HandedOn(j)' <=> HandedOn(j)
      /\ Rejected(j)' <=> Rejected(j)
      /\ Paid(j)' <=> Paid(j)
  BY DEF HandedOn, Rejected, Paid
<1>. QED
  BY <1>1, <1>2 DEF Steps, Undisturbed, Closed, PaidOnce, Harmless

LEMMA InitSteps == Init => \A i \in Intents : Steps(i)
<1>. SUFFICES ASSUME Init, NEW i \in Intents PROVE Steps(i)
  OBVIOUS
<1>1. /\ \A k \in Kinds : at[i][k] = "absent"
      /\ db[i].status = "ABSENT" /\ db[i].receipt = "none"
  BY NoDocFields DEF Init
<1>. QED
  BY <1>1, KindNames DEF Steps, Undisturbed, HandedOn, Rejected, Closed, PaidOnce, Paid

LEMMA NextSteps ==
  ASSUME Typed, \A i \in Intents : Parts(i) /\ Steps(i), [Next]_vars
  PROVE  \A i \in Intents : Steps(i)'
<1>1. ASSUME NEW i \in Intents, Turn(i)
      PROVE  \A j \in Intents : Steps(j)'
  <2>1. Steps(i)'
    BY <1>1, QueueKeepsSteps, LostKeepsSteps, HandlerKeepsSteps, ChainKeepsSteps, LogsKeepSteps
    DEF Turn
  <2>2. ASSUME NEW j \in Intents \ {i} PROVE Steps(j)'
    BY <1>1, Elsewhere, LossesGrow, FrameSteps
  <2>. QED
    BY <2>1, <2>2
<1>2. CASE UNCHANGED vars
  BY <1>2, FrameSteps DEF vars
<1>. QED
  BY <1>1, <1>2, NextIsTurn

StepInv == IndInv /\ \A i \in Intents : Steps(i)

LEMMA StepInvariant == Spec => []StepInv
<1>1. Init /\ IndInv => StepInv
  BY InitSteps DEF StepInv
<1>2. StepInv /\ IndInv' /\ [Next]_vars => StepInv'
  BY NextSteps, IndInvIsParts, TypeInvIsTyped DEF StepInv
<1>. QED
  BY <1>1, <1>2, Inductive, PTL DEF Spec

(* Only the handler about to send makes a transaction more.                *)
LEMMA OnlySendSends ==
  ASSUME Typed, [Next]_vars, NEW i \in Intents, Len(txs'[i]) > Len(txs[i])
  PROVE  at[i]["fulfill"] = "send"
<1>. USE TypedGives
<1>0. Len(txs[i]) \in Nat
  BY CountsAreNat
<1>1. ASSUME NEW j \in Intents, Turn(j)
      PROVE  at[i]["fulfill"] = "send"
  <2>1. j = i
    BY <1>0, <1>1, Elsewhere
  <2>2. CASE \E k \in Kinds : Start(i, k) \/ Report(i, k) \/ Crash(i, k)
    BY <1>0, <2>2, QueueStep
  <2>3. CASE Handler(i)
    BY <1>0, <2>3 DEF Handler, CreateRead, CreateRecord, CreateEnqueue, ValidateRead,
       ValidateDecide, ValidateWrite, ValidateEnqueue, FeasableRead, FeasableDecide, FeasableWrite,
       FeasableEnqueue, FulfillRead, FulfillPrepare, FulfillCheck, FulfillSend, FulfillReceipt,
       FulfillWrite, InboxRead, InboxWrite, chainVars
  <2>4. CASE Chain(i)
    <3>1. ASSUME NEW n \in 1..Len(txs[i]), TxLands(i, n)
          PROVE  Len(txs'[i]) = Len(txs[i])
      BY <3>1 DEF TxLands, TxsOK
    <3>. QED
      BY <1>0, <2>4, <3>1 DEF Chain, OtherSolver
  <2>5. CASE Logs(i)
    BY <1>0, <2>5 DEF Logs, IntentLog, FulfillmentLog, chainVars
  <2>6. CASE \E k \in Kinds : AddReplyLost(i, k) \/ WriteReplyLost(i, k)
    BY <1>0, <2>6, AddLostMoves, WriteLostMoves
  <2>. QED
    BY <1>1, <2>1, <2>2, <2>3, <2>4, <2>5, <2>6 DEF Turn
<1>2. CASE UNCHANGED vars
  BY <1>0, <1>2 DEF vars
<1>. QED
  BY <1>1, <1>2, NextIsTurn

LEMMA StepInvGives ==
  ASSUME StepInv, NEW i \in Intents
  PROVE  Typed /\ Parts(i) /\ Steps(i)
  BY IndInvIsParts, TypeInvIsTyped DEF StepInv

(* Whichever calls fail, no transaction is sent for an intent whose record *)
(* says that it was rejected, as long as no worker has died and no reply   *)
(* was lost (validateIntent, feasableIntent, executeFulfillIntent).        *)
THEOREM RejectedNotSent == Spec => NoSendOnceRejected
<1>1. ASSUME StepInv, [Next]_vars, NEW i \in Intents,
             losses = 0, Len(txs'[i]) > Len(txs[i])
      PROVE  db[i].status \notin {"INVALID", "INFEASABLE"}
  <2>1. at[i]["fulfill"] = "send" /\ Parts(i) /\ Steps(i)
    BY <1>1, StepInvGives, OnlySendSends
  <2>. QED
    BY <1>1, <2>1 DEF Steps, Undisturbed, Rejected, Parts, InOrder
<1>2. StepInv /\ [Next]_vars =>
        [\A i \in Intents : losses = 0 /\ Len(txs'[i]) > Len(txs[i])
                          => db[i].status \notin {"INVALID", "INFEASABLE"}]_vars
  BY <1>1
<1>. QED
  BY <1>2, StepInvariant, PTL DEF Spec, NoSendOnceRejected

(* An intent whose record holds the receipt of this solver's fulfilment is *)
(* not paid for again, as long as at most one worker has died or one reply *)
(* was lost (executeFulfillIntent, retried or run again by the queue).     *)
THEOREM PaidNotSent == Spec => NoSendAfterOwnReceipt
<1>1. ASSUME StepInv, [Next]_vars, NEW i \in Intents,
             losses <= 1, Len(txs'[i]) > Len(txs[i])
      PROVE  db[i].receipt # "mined"
  <2>1. at[i]["fulfill"] = "send" /\ Steps(i)
    BY <1>1, StepInvGives, OnlySendSends
  <2>. QED
    BY <1>1, <2>1 DEF Steps, PaidOnce, Paid, Harmless, RunAgain, Ended
<1>2. StepInv /\ [Next]_vars =>
        [\A i \in Intents : losses <= 1 /\ Len(txs'[i]) > Len(txs[i])
                          => db[i].receipt # "mined"]_vars
  BY <1>1
<1>. QED
  BY <1>2, StepInvariant, PTL DEF Spec, NoSendAfterOwnReceipt

(* A record with that receipt stays SOLVED, as long as no worker has died  *)
(* and no reply was lost: no step undoes it, not even the first loss.      *)
THEOREM PaidStaysSolved == Spec => OwnReceiptSticks
<1>1. ASSUME StepInv, [Next]_vars, NEW i \in Intents,
             losses = 0, db[i].receipt = "mined"
      PROVE  db'[i].status = "SOLVED"
  <2>. USE StepInvGives, TypedGives
  <2>1. HandedOn(i) /\ Closed(i) /\ Parts(i)
    BY <1>1 DEF Steps, Undisturbed
  <2>2. db[i].status = "SOLVED" /\ at[i]["fulfill"] \in Ended
    BY <1>1, <2>1 DEF Closed, Paid
  <2>3. CASE Turn(i)
    <3>1. CASE Handler(i)
      BY <1>1, <2>1, <3>1, HandlerClosed DEF Parts
    <3>2. CASE \E k \in Kinds : Start(i, k) \/ Report(i, k) \/ Crash(i, k)
      BY <1>1, <2>2, <3>2, QueueStep
    <3>3. ASSUME NEW k \in Kinds, AddReplyLost(i, k)
          PROVE  db' = db
      BY <1>1, <3>3, AddLostMoves
    <3>4. ASSUME NEW k \in Kinds, WriteReplyLost(i, k)
          PROVE  db'[i].status = "SOLVED"
      <4>1. at[i][k] = "write" /\ db'[i].status = model[i][k].status
        BY <1>1, <3>4, WriteLostMoves
      <4>2. k = "fulfillment"
        BY <2>1, <2>2, <4>1, KindNames
        DEF HandedOn, Ended, Parts, InOrder, HeldToWrite, Kinds, SourceKinds
      <4>. QED
        BY <2>1, <4>1, <4>2 DEF Parts, HeldToWrite
    <3>5. CASE Chain(i) \/ Logs(i)
      BY <2>2, <3>5 DEF Chain, TxLands, OtherSolver, Logs, IntentLog, FulfillmentLog
    <3>. QED
      BY <2>2, <2>3, <3>1, <3>2, <3>3, <3>4, <3>5 DEF Turn
  <2>4. ASSUME NEW j \in Intents \ {i}, Turn(j)
        PROVE  db'[i] = db[i]
    BY <1>1, <2>4, Elsewhere
  <2>. QED
    BY <1>1, <2>2, <2>3, <2>4, NextIsTurn DEF vars
<1>2. StepInv /\ [Next]_vars =>
        [\A i \in Intents : losses = 0 /\ db[i].receipt = "mined"
                          => db'[i].status = "SOLVED"]_vars
  BY <1>1
<1>. QED
  BY <1>2, StepInvariant, PTL DEF Spec, OwnReceiptSticks

-----------------------------------------------------------------------------
(* What SOLVED is worth without faults.                                    *)

(* Without faults: the only transaction pending is the one the fulfill job *)
(* waits for, and once one has fulfilled the intent the job has nothing    *)
(* but SOLVED left to write.                                               *)
OnlyLastPending(i) ==
  \A n \in 1..Len(txs[i]) :
    txs[i][n] = "pending" => n = Len(txs[i]) /\ at[i]["fulfill"] = "receipt"
OursKnown(i) ==
  dest[i] = "ours" =>
    \/ at[i]["fulfill"] = "receipt" /\ txs[i][Len(txs[i])] = "mined"
    \/ at[i]["fulfill"] = "write" /\ model[i]["fulfill"].status = "SOLVED"
    \/ at[i]["fulfill"] \in Ended
Won(i) == OnlyLastPending(i) /\ OursKnown(i)

LEMMA HandlerKeepsWon ==
  ASSUME Faults = {}, NEW i \in Intents, AtOK, ModelOK, DbOK, TxsOK, QueueInv, ChainFacts(i), Won(i),
         Handler(i)
  PROVE  Won(i)'
<1>. USE KindNames, GotoMoves, EndMoves, EnqueueMoves, MarkMoves, LoadMoves, SaveWrites
     DEF Return, Throw, Won, OnlyLastPending, OursKnown, Ended, ProcessDataMissing, chainVars
<1>1. CASE CreateRead(i) BY <1>1 DEF CreateRead
<1>2. CASE CreateRecord(i) BY <1>2, RecordWrites DEF CreateRecord, RefuseWallet
<1>3. CASE CreateEnqueue(i) BY <1>3 DEF CreateEnqueue
<1>4. CASE ValidateRead(i) BY <1>4 DEF ValidateRead
<1>5. CASE ValidateDecide(i) BY <1>5 DEF ValidateDecide
<1>6. CASE ValidateWrite(i) BY <1>6 DEF ValidateWrite
<1>7. CASE ValidateEnqueue(i) BY <1>7 DEF ValidateEnqueue
<1>8. CASE FeasableRead(i) BY <1>8 DEF FeasableRead
<1>9. CASE FeasableDecide(i) BY <1>9 DEF FeasableDecide
<1>10. CASE FeasableWrite(i) BY <1>10 DEF FeasableWrite
<1>11. CASE FeasableEnqueue(i) BY <1>11 DEF FeasableEnqueue
<1>12. CASE FulfillRead(i) BY <1>12 DEF FulfillRead
<1>13. CASE FulfillPrepare(i) BY <1>13 DEF FulfillPrepare
<1>14. CASE FulfillCheck(i) BY <1>14 DEF FulfillCheck
<1>15. CASE FulfillSend(i)
  <2>1. /\ at[i]["fulfill"] = "send" /\ dest' = dest
        /\ dest[i] # "ours"
        /\ at'[i]["fulfill"] = "receipt"
        /\ txs' = [txs EXCEPT ![i] = Append(txs[i], "pending")]
    BY <1>15 DEF FulfillSend
  <2>2. Len(txs'[i]) = Len(txs[i]) + 1 /\ Len(txs[i]) \in Nat
    BY <2>1 DEF TxsOK
  <2>3. \A n \in 1..Len(txs[i]) : txs'[i][n] = txs[i][n] /\ txs[i][n] # "pending"
    BY <2>1 DEF TxsOK
  <2>. QED
    BY <2>1, <2>2, <2>3
<1>16. CASE FulfillReceipt(i)
  <2>1. /\ at[i]["fulfill"] = "receipt" /\ dest' = dest /\ txs' = txs
        /\ at'[i]["fulfill"] = "write"
        /\ Len(txs[i]) \in 1..Len(txs[i])
        /\ \/ /\ txs[i][Len(txs[i])] \in Successful
              /\ model'[i]["fulfill"].status = "SOLVED"
           \/ txs[i][Len(txs[i])] = "reverted"
    BY <1>16, CountsAreNat DEF FulfillReceipt, ChainFacts
  <2>2. \A n \in 1..Len(txs[i]) : txs[i][n] # "pending"
    BY <2>1 DEF Successful
  <2>. QED
    BY <2>1, <2>2
<1>17. CASE FulfillWrite(i) BY <1>17 DEF FulfillWrite
<1>18. CASE InboxRead(i) BY <1>18, EventLoads DEF InboxRead
<1>19. CASE InboxWrite(i) BY <1>19 DEF InboxWrite
<1>. QED
  BY <1>1, <1>2, <1>3, <1>4, <1>5, <1>6, <1>7, <1>8, <1>9, <1>10, <1>11, <1>12,
     <1>13, <1>14, <1>15, <1>16, <1>17, <1>18, <1>19 DEF Handler

LEMMA ChainKeepsWon ==
  ASSUME NEW i \in Intents, Typed, Won(i), Chain(i)
  PROVE  Won(i)'
<1>. USE TypedGives, CountsAreNat
<1>1. CASE OtherSolver(i)
  BY <1>1 DEF OtherSolver, queueVars, Won, OnlyLastPending, OursKnown, DestOK
<1>2. ASSUME NEW n \in 1..Len(txs[i]), TxLands(i, n)
      PROVE  Won(i)'
  <2>1. /\ n = Len(txs[i]) /\ at[i]["fulfill"] = "receipt" /\ txs[i][n] = "pending"
        /\ UNCHANGED <<at, model>>
    BY <1>2 DEF TxLands, Won, OnlyLastPending, queueVars
  <2>2. dest[i] # "ours"
    BY <2>1 DEF Won, OursKnown, Ended
  <2>3. \/ txs' = [txs EXCEPT ![i][n] = "mined"]
        \/ txs' = [txs EXCEPT ![i][n] = "reverted"] /\ dest' = dest
        \/ txs' = [txs EXCEPT ![i][n] = "replaced"] /\ dest' = dest
    BY <1>2 DEF TxLands
  <2>4. /\ Len(txs'[i]) = Len(txs[i])
        /\ \A m \in 1..Len(txs[i]) : txs'[i][m] = "pending" => txs[i][m] = "pending" /\ m # n
        /\ txs'[i][n] = "mined" \/ dest' = dest
    BY <2>3 DEF TxsOK
  <2>5. OnlyLastPending(i)'
    BY <2>1, <2>4 DEF Won, OnlyLastPending
  <2>6. OursKnown(i)'
    BY <2>1, <2>2, <2>4 DEF OursKnown
  <2>. QED
    BY <2>5, <2>6 DEF Won
<1>. QED
  BY <1>1, <1>2 DEF Chain

LEMMA QueueKeepsWon ==
  ASSUME Faults = {}, NEW i \in Intents, NEW k \in Kinds, Typed, Won(i),
         Start(i, k) \/ Report(i, k) \/ Crash(i, k)
  PROVE  Won(i)' /\ losses' = losses
<1>. USE TypedGives, KindNames
<1>1. UNCHANGED <<model, txs, dest, losses>>
  BY DEF Start, Report, Crash, Goto, chainVars
<1>2. \/ at'[i]["fulfill"] = at[i]["fulfill"]
      \/ at[i]["fulfill"] = "returned" /\ at'[i]["fulfill"] = "completed"
      \/ at[i]["fulfill"] \in {"waiting", "thrown"}
  BY DEF Start, Report, Crash, Goto, Moved, AtOK
<1>. QED
  BY <1>1, <1>2 DEF Won, OnlyLastPending, OursKnown, Ended

LEMMA LogsKeepWon ==
  ASSUME NEW i \in Intents, Typed, Won(i), Logs(i)
  PROVE  Won(i)' /\ losses' = losses
<1>. USE TypedGives, KindNames
<1>1. UNCHANGED <<model, dest, txs, losses>>
  BY DEF Logs, IntentLog, FulfillmentLog, Goto, chainVars
<1>2. at'[i]["fulfill"] = at[i]["fulfill"]
  BY GotoMoves DEF Logs, IntentLog, FulfillmentLog
<1>. QED
  BY <1>1, <1>2 DEF Won, OnlyLastPending, OursKnown

WonInv == losses = 0 /\ \A i \in Intents : Won(i)

LEMMA InitWon == Init => WonInv
<1>. SUFFICES ASSUME Init, NEW i \in Intents PROVE Won(i)
  BY DEF WonInv, Init
<1>1. txs[i] = <<>> /\ dest[i] = "open" /\ Len(txs[i]) = 0
  BY DEF Init
<1>. QED
  BY <1>1 DEF Won, OnlyLastPending, OursKnown

LEMMA NextWon ==
  ASSUME Faults = {}, Typed, \A i \in Intents : Parts(i), WonInv, [Next]_vars
  PROVE  WonInv'
<1>. USE TypedGives
<1>1. ASSUME NEW i \in Intents, Turn(i)
      PROVE  WonInv'
  <2>0. \A k \in Kinds : ~AddReplyLost(i, k) /\ ~WriteReplyLost(i, k)
    BY DEF AddReplyLost, WriteReplyLost
  <2>1. losses' = 0
    BY <1>1, <2>0, QueueKeepsWon, LogsKeepWon, NothingLost
    DEF WonInv, Turn, Chain, TxLands, OtherSolver, queueVars
  <2>2. Won(i)'
    BY <1>1, <2>0, QueueKeepsWon, LogsKeepWon, HandlerKeepsWon, ChainKeepsWon
    DEF WonInv, Turn, Parts
  <2>3. ASSUME NEW j \in Intents \ {i} PROVE Won(j)'
    BY <1>1, Elsewhere DEF WonInv, Won, OnlyLastPending, OursKnown
  <2>. QED
    BY <2>1, <2>2, <2>3 DEF WonInv
<1>2. CASE UNCHANGED vars
  BY <1>2 DEF vars, WonInv, Won, OnlyLastPending, OursKnown
<1>. QED
  BY <1>1, <1>2, NextIsTurn

(* Only a handler about to write changes a record that exists.             *)
LEMMA WonStaysSolved ==
  ASSUME NEW i \in Intents, Typed, Parts(i), Steps(i), Won(i), losses = 0, Handler(i),
         db[i].status = "SOLVED", dest[i] = "ours"
  PROVE  db'[i].status = "SOLVED"
<1>. USE TypedGives, KindNames
<1>1. HandedOn(i)
  BY DEF Steps, Undisturbed
<1>2. /\ at[i]["validate"] # "write" /\ at[i]["feasable"] # "write" /\ at[i]["create"] # "decide"
      /\ at[i]["fulfill"] = "write" => model[i]["fulfill"].status = "SOLVED"
      /\ at[i]["fulfillment"] = "write" => model[i]["fulfillment"].status = "SOLVED"
  BY <1>1 DEF HandedOn, Ended, Won, OursKnown, Parts, InOrder, HeldToWrite
<1>3. CASE CreateRecord(i)
  BY <1>2, <1>3 DEF CreateRecord
<1>4. CASE ValidateWrite(i) \/ FeasableWrite(i) \/ FulfillWrite(i) \/ InboxWrite(i)
  BY <1>2, <1>4, SaveWrites DEF ValidateWrite, FeasableWrite, FulfillWrite, InboxWrite
<1>5. CASE db' = db
  BY <1>5
<1>. QED
  BY <1>3, <1>4, <1>5 DEF Handler, CreateRead, CreateEnqueue, ValidateRead, ValidateDecide,
     ValidateEnqueue, FeasableRead, FeasableDecide, FeasableEnqueue, FulfillRead, FulfillPrepare,
     FulfillCheck, FulfillSend, FulfillReceipt, InboxRead

(* Without faults, SOLVED of an intent this solver fulfilled is not taken  *)
(* back.                                                                   *)
THEOREM SolveSticks ==
  ASSUME Faults = {}
  PROVE  Spec => OwnSolveSticks
<1>1. WonInv /\ StepInv /\ [Next]_vars => WonInv'
  BY NextWon, IndInvIsParts, TypeInvIsTyped DEF StepInv
<1>2. ASSUME WonInv, StepInv, [Next]_vars, NEW i \in Intents,
             db[i].status = "SOLVED", dest[i] = "ours"
      PROVE  db'[i].status = "SOLVED"
  <2>. USE StepInvGives, TypedGives
  <2>1. CASE Handler(i)
    BY <1>2, <2>1, WonStaysSolved DEF WonInv
  <2>2. CASE Turn(i) /\ ~Handler(i)
    <3>1. \A k \in Kinds : ~AddReplyLost(i, k) /\ ~WriteReplyLost(i, k)
      BY DEF AddReplyLost, WriteReplyLost
    <3>2. ASSUME NEW k \in Kinds, Start(i, k) \/ Report(i, k) \/ Crash(i, k)
          PROVE  db' = db
      BY <1>2, <3>2, QueueStep
    <3>3. CASE Chain(i) \/ Logs(i)
      BY <1>2, <3>3 DEF Chain, TxLands, OtherSolver, Logs, IntentLog, FulfillmentLog
    <3>. QED
      BY <1>2, <2>2, <3>1, <3>2, <3>3 DEF Turn
  <2>3. ASSUME NEW j \in Intents \ {i}, Turn(j)
        PROVE  db'[i] = db[i]
    BY <1>2, <2>3, Elsewhere
  <2>. QED
    BY <1>2, <2>1, <2>2, <2>3, NextIsTurn DEF vars
<1>3. WonInv /\ StepInv /\ [Next]_vars =>
        [\A i \in Intents :
           db[i].status = "SOLVED" /\ dest[i] = "ours" => db'[i].status = "SOLVED"]_vars
  BY <1>2
<1>. QED
  BY <1>1, <1>3, InitWon, StepInvariant, PTL DEF Spec, OwnSolveSticks

-----------------------------------------------------------------------------
(* As long as the database answers.                                        *)

(* A handler that has ended has given its verdict or added the next job.   *)
Carried(i) ==
  i \in Supported =>
    /\ at[i]["validate"] \in Ended => db[i].status # "PENDING" \/ at[i]["feasable"] # "absent"
    /\ at[i]["feasable"] \in Ended => db[i].status # "PENDING" \/ at[i]["fulfill"] # "absent"
    /\ at[i]["fulfill"] \in Ended => db[i].status # "PENDING"

LEMMA HandlerKeepsCarried ==
  ASSUME "db" \notin Faults, NEW i \in Intents, Typed, InOrder(i), HeldToWrite(i), Carried(i),
         Handler(i)
  PROVE  Carried(i)'
<1>. USE TypedGives, KindNames, GotoMoves, EndMoves, EnqueueMoves, MarkMoves, LoadMoves, SaveWrites
     DEF Return, Throw, InOrder, HeldToWrite, Carried, Ended
<1>1. CASE CreateRead(i) BY <1>1 DEF CreateRead
<1>2. CASE CreateRecord(i) BY <1>2, RecordWrites DEF CreateRecord, RefuseWallet
<1>3. CASE CreateEnqueue(i) BY <1>3 DEF CreateEnqueue
<1>4. CASE ValidateRead(i) BY <1>4 DEF ValidateRead, ProcessDataMissing
<1>5. CASE ValidateDecide(i) BY <1>5 DEF ValidateDecide
<1>6. CASE ValidateWrite(i) BY <1>6 DEF ValidateWrite
<1>7. CASE ValidateEnqueue(i) BY <1>7 DEF ValidateEnqueue
<1>8. CASE FeasableRead(i) BY <1>8 DEF FeasableRead, ProcessDataMissing
<1>9. CASE FeasableDecide(i) BY <1>9 DEF FeasableDecide
<1>10. CASE FeasableWrite(i) BY <1>10 DEF FeasableWrite
<1>11. CASE FeasableEnqueue(i) BY <1>11 DEF FeasableEnqueue
<1>12. CASE FulfillRead(i) BY <1>12 DEF FulfillRead, ProcessDataMissing
<1>13. CASE FulfillPrepare(i) BY <1>13 DEF FulfillPrepare
<1>14. CASE FulfillCheck(i) BY <1>14 DEF FulfillCheck
<1>15. CASE FulfillSend(i) BY <1>15 DEF FulfillSend
<1>16. CASE FulfillReceipt(i) BY <1>16 DEF FulfillReceipt
<1>17. CASE FulfillWrite(i) BY <1>17 DEF FulfillWrite
<1>18. CASE InboxRead(i) BY <1>18, EventLoads DEF InboxRead
<1>19. CASE InboxWrite(i) BY <1>19 DEF InboxWrite
<1>. QED
  BY <1>1, <1>2, <1>3, <1>4, <1>5, <1>6, <1>7, <1>8, <1>9, <1>10, <1>11, <1>12,
     <1>13, <1>14, <1>15, <1>16, <1>17, <1>18, <1>19 DEF Handler

LEMMA QueueKeepsCarried ==
  ASSUME NEW i \in Intents, NEW k \in Kinds, Typed, Carried(i),
         Start(i, k) \/ Report(i, k) \/ Crash(i, k)
  PROVE  Carried(i)'
<1>1. \A m \in Kinds : /\ at'[i][m] \in Ended => at[i][m] \in Ended
                       /\ at[i][m] # "absent" => at'[i][m] # "absent"
  <2>1. \A m \in Kinds \ {k} : at'[i][m] = at[i][m]
    BY QueueStep
  <2>2. at'[i][k] # "absent"
    BY QueueStep
  <2>3. at'[i][k] \in Ended => at[i][k] \in Ended
    BY TypedGives DEF Start, Report, Crash, Goto, Moved, AtOK, Ended
  <2>. QED
    BY <2>1, <2>2, <2>3
<1>. QED
  BY <1>1, QueueStep, KindNames DEF Carried

(* A reply to an add that is lost leaves the job to be run again.          *)
LEMMA LostKeepsCarried ==
  ASSUME "db" \notin Faults, NEW i \in Intents, NEW k \in Kinds, Typed, Carried(i),
         AddReplyLost(i, k) \/ WriteReplyLost(i, k)
  PROVE  Carried(i)'
<1>1. AddReplyLost(i, k)
  BY DEF WriteReplyLost
<1>. QED
  BY <1>1, AddLostMoves, TypedGives, KindNames DEF Carried, Ended

LEMMA LogsKeepCarried ==
  ASSUME NEW i \in Intents, Typed, Carried(i), Logs(i)
  PROVE  Carried(i)'
<1>. USE TypedGives, KindNames
<1>1. UNCHANGED db
  BY DEF Logs, IntentLog, FulfillmentLog
<1>2. \A m \in Kinds \ {"create", "fulfillment"} : at'[i][m] = at[i][m]
  BY GotoMoves DEF Logs, IntentLog, FulfillmentLog
<1>. QED
  BY <1>1, <1>2 DEF Carried

LEMMA NextCarried ==
  ASSUME "db" \notin Faults, Typed, \A i \in Intents : Parts(i) /\ Carried(i), [Next]_vars
  PROVE  \A i \in Intents : Carried(i)'
<1>1. ASSUME NEW i \in Intents, Turn(i)
      PROVE  \A j \in Intents : Carried(j)'
  <2>1. Chain(i) => UNCHANGED <<at, db>>
    BY DEF Chain, TxLands, OtherSolver, queueVars
  <2>2. Carried(i)'
    BY <1>1, <2>1, QueueKeepsCarried, LostKeepsCarried, HandlerKeepsCarried, LogsKeepCarried
    DEF Turn, Parts, Carried
  <2>3. ASSUME NEW j \in Intents \ {i} PROVE Carried(j)'
    BY <1>1, Elsewhere DEF Carried
  <2>. QED
    BY <2>2, <2>3
<1>2. CASE UNCHANGED vars
  BY <1>2 DEF vars, Carried
<1>. QED
  BY <1>1, <1>2, NextIsTurn

CarriedInv == IndInv /\ \A i \in Intents : Carried(i)

(* As long as the database answers, an intent PENDING that was queued for  *)
(* validation is in the hands of a job, or of one that failed in all its   *)
(* attempts: neither other calls that fail nor workers that die make a     *)
(* handler end quietly with nothing decided and nothing queued             *)
(* (getIntentProcessData, validateIntent, feasableIntent,                  *)
(* executeFulfillIntent).                                                  *)
THEOREM NoneForgotten ==
  ASSUME "db" \notin Faults
  PROVE  Spec => []NotForgotten
<1>1. Init /\ IndInv => CarriedInv
  <2>. SUFFICES ASSUME Init, NEW i \in Intents PROVE Carried(i)
    BY DEF CarriedInv
  <2>. QED
    BY KindNames DEF Init, Carried, Ended
<1>2. CarriedInv /\ IndInv' /\ [Next]_vars => CarriedInv'
  BY NextCarried, IndInvIsParts, TypeInvIsTyped DEF CarriedInv
<1>3. CarriedInv => NotForgotten
  BY ConstantsAssumption DEF CarriedInv, NotForgotten, Carried, Ended
<1>. QED
  BY <1>1, <1>2, <1>3, Inductive, PTL DEF Spec

-----------------------------------------------------------------------------
(* The refinement: the initial states of IntentPipeline are initial states *)
(* of the lifecycle, and each step of a handler, of the queue or of the    *)
(* chain is a step of the lifecycle or leaves it as it is.                 *)

(* What a step does to one intent, as the lifecycle sees it.               *)

SameStage(i) == Stage(i)' = Stage(i)
SameStatus(i) == db'[i].status = db[i].status
SameSends(i) == Len(txs'[i]) = Len(txs[i])
SameDest(i) == dest'[i] = dest[i]
SameReplaced(i) == Replaced(i)' = Replaced(i)
SameChain(i) == SameSends(i) /\ SameDest(i) /\ SameReplaced(i)

Hidden(i) == SameStage(i) /\ SameStatus(i) /\ SameChain(i)

Recorded(i) ==
  /\ Stage(i) = "unseen" /\ Stage(i)' = "recorded"
  /\ db'[i].status \in {"PENDING", "NON-BEND-WALLET"}
  /\ SameChain(i)

Passed(i, from, to) ==
  /\ Stage(i) = from /\ Stage(i)' = to
  /\ SameStatus(i) /\ SameChain(i)

Judged(i) ==
  /\ SameStage(i) /\ SameChain(i)
  /\ \/ db'[i].status = "INVALID" /\ Stage(i) \in {"queued", "validated", "cleared"}
     \/ db'[i].status = "INFEASABLE" /\ Stage(i) \in {"validated", "cleared"}
     \/ db'[i].status = "FAILED" /\ Stage(i) = "cleared"
     \/ /\ db'[i].status = "SOLVED" /\ Stage(i) # "unseen"
        /\ dest[i] # "open" \/ Replaced(i)

Sent(i) ==
  /\ Stage(i) = "cleared" /\ SameStage(i) /\ SameStatus(i) /\ SameDest(i) /\ SameReplaced(i)
  /\ Len(txs[i]) < MaxSends /\ Len(txs'[i]) = Len(txs[i]) + 1

Landed(i) ==
  /\ SameStage(i) /\ SameStatus(i) /\ SameSends(i) /\ SameReplaced(i)
  /\ dest[i] = "open"
  /\ \/ dest'[i] = "ours" /\ Len(txs[i]) > 0
     \/ dest'[i] = "other"

TakenOver(i) ==
  /\ SameStage(i) /\ SameStatus(i) /\ SameSends(i) /\ SameDest(i)
  /\ Len(txs[i]) > 0 /\ Replaced(i)'

Seen(i) ==
  \/ Hidden(i) \/ Recorded(i) \/ Judged(i) \/ Sent(i) \/ Landed(i) \/ TakenOver(i)
  \/ Passed(i, "recorded", "queued")
  \/ Passed(i, "queued", "validated")
  \/ Passed(i, "validated", "cleared")

-----------------------------------------------------------------------------
(* Each step is seen so.                                                   *)

LEMMA HandlerSameReplaced ==
  ASSUME NEW i \in Intents, Typed, Handler(i)
  PROVE  SameReplaced(i)
<1>. USE TypedGives
<1>1. CASE FulfillSend(i)
  <2>1. CASE txs' = txs
    BY <2>1 DEF SameReplaced, Replaced
  <2>2. CASE txs' = [txs EXCEPT ![i] = Append(txs[i], "pending")]
    <3>1. /\ Len(txs[i]) \in Nat /\ Len(txs'[i]) = Len(txs[i]) + 1
          /\ txs'[i][Len(txs[i]) + 1] = "pending"
          /\ \A n \in 1..Len(txs[i]) : txs'[i][n] = txs[i][n]
      BY <2>2 DEF TxsOK
    <3>2. Replaced(i)' => Replaced(i)
      BY <3>1 DEF Replaced
    <3>. QED
      BY <3>2, HandlerKeepsReplaced DEF SameReplaced, Replaced
  <2>. QED
    BY <1>1, <2>1, <2>2 DEF FulfillSend
<1>2. CASE txs' = txs
  BY <1>2 DEF SameReplaced, Replaced
<1>. QED
  BY <1>1, <1>2 DEF Handler, CreateRead, CreateRecord, CreateEnqueue, ValidateRead,
     ValidateDecide, ValidateWrite, ValidateEnqueue, FeasableRead, FeasableDecide, FeasableWrite,
     FeasableEnqueue, FulfillRead, FulfillPrepare, FulfillCheck, FulfillReceipt, FulfillWrite,
     InboxRead, InboxWrite, chainVars

LEMMA HandlerIsSeen ==
  ASSUME NEW i \in Intents, Typed, Parts(i), Handler(i)
  PROVE  Seen(i)
<1>0. SameReplaced(i)
  BY HandlerSameReplaced
<1>. USE KindNames, GotoMoves, EndMoves, EnqueueMoves, MarkMoves, LoadMoves, SaveWrites, TypedGives,
         <1>0
     DEF Return, Throw, Parts, InOrder, HeldToWrite, Stage, Seen, Hidden,
         SameStage, SameStatus, SameSends, SameDest, SameChain, chainVars
<1>1. CASE CreateRead(i) BY <1>1 DEF CreateRead
<1>2. CASE CreateRecord(i) BY <1>2, RecordWrites DEF CreateRecord, RefuseWallet, Recorded
<1>3. CASE CreateEnqueue(i) BY <1>3 DEF CreateEnqueue, Passed
<1>4. CASE ValidateRead(i) BY <1>4 DEF ValidateRead
<1>5. CASE ValidateDecide(i) BY <1>5 DEF ValidateDecide
<1>6. CASE ValidateWrite(i) BY <1>6 DEF ValidateWrite, Judged, DocsSound, Sound
<1>7. CASE ValidateEnqueue(i) BY <1>7 DEF ValidateEnqueue, Passed
<1>8. CASE FeasableRead(i) BY <1>8 DEF FeasableRead
<1>9. CASE FeasableDecide(i) BY <1>9 DEF FeasableDecide
<1>10. CASE FeasableWrite(i) BY <1>10 DEF FeasableWrite, Judged, DocsSound, Sound
<1>11. CASE FeasableEnqueue(i) BY <1>11 DEF FeasableEnqueue, Passed
<1>12. CASE FulfillRead(i) BY <1>12 DEF FulfillRead
<1>13. CASE FulfillPrepare(i) BY <1>13 DEF FulfillPrepare
<1>14. CASE FulfillCheck(i) BY <1>14 DEF FulfillCheck
<1>15. CASE FulfillSend(i) BY <1>15, SendRoom, SendAppends DEF FulfillSend, Sent
<1>16. CASE FulfillReceipt(i) BY <1>16 DEF FulfillReceipt
<1>17. CASE FulfillWrite(i) BY <1>17 DEF FulfillWrite, Judged, DocsSound, Sound
<1>18. CASE InboxRead(i) BY <1>18, EventLoads DEF InboxRead
<1>19. CASE InboxWrite(i) BY <1>19 DEF InboxWrite, Judged, DocsSound, Sound
<1>. QED
  BY <1>1, <1>2, <1>3, <1>4, <1>5, <1>6, <1>7, <1>8, <1>9, <1>10, <1>11, <1>12,
     <1>13, <1>14, <1>15, <1>16, <1>17, <1>18, <1>19 DEF Handler

(* The queue's own steps show nothing.                                     *)
LEMMA QueueIsHidden ==
  ASSUME NEW i \in Intents, NEW k \in Kinds, Typed,
         Start(i, k) \/ Report(i, k) \/ Crash(i, k)
  PROVE  Seen(i)
<1>1. \E p \in Places \ {"absent"} : at' = [at EXCEPT ![i][k] = p]
  BY DEF Start, Report, Crash, Goto, Moved, Places, Points, Settled
<1>2. at[i][k] # "absent" /\ UNCHANGED <<db, dest, txs>>
  BY DEF Start, Report, Crash, Points, chainVars
<1>3. \A m \in Kinds : at'[i][m] = "absent" <=> at[i][m] = "absent"
  BY <1>1, <1>2, TypedGives DEF AtOK
<1>. QED
  BY <1>2, <1>3, KindNames
  DEF Seen, Hidden, SameStage, Stage, SameStatus, SameSends, SameDest, SameReplaced, SameChain,
      Replaced

(* A reply that is lost shows what the call has done.                      *)
LEMMA LostIsSeen ==
  ASSUME NEW i \in Intents, NEW k \in Kinds, Typed, Parts(i),
         AddReplyLost(i, k) \/ WriteReplyLost(i, k)
  PROVE  Seen(i)
<1>. USE TypedGives, KindNames
<1>1. SameChain(i)
  BY AddLostMoves, WriteLostMoves DEF SameChain, SameSends, SameDest, SameReplaced, Replaced
<1>2. CASE AddReplyLost(i, k)
  BY <1>1, <1>2, AddLostMoves DEF Parts, InOrder, Stage, Seen, Hidden, Passed, SameStage, SameStatus
<1>3. CASE WriteReplyLost(i, k)
  <2>1. /\ at[i][k] = "write" /\ at'[i][k] = "thrown"
        /\ \A m \in Kinds \ {k} : at'[i][m] = at[i][m]
        /\ db'[i].status = model[i][k].status
    BY <1>3, WriteLostMoves
  <2>2. db[i].status # "ABSENT"
    BY <2>1 DEF Parts, InOrder, HeldToWrite, Kinds, SourceKinds
  <2>3. db'[i].status # "ABSENT"
    BY <2>1 DEF Parts, HeldToWrite, Kinds, SourceKinds
  <2>4. \A m \in Kinds : at'[i][m] = "absent" <=> at[i][m] = "absent"
    BY <2>1
  <2>5. SameStage(i)
    BY <2>2, <2>3, <2>4 DEF SameStage, Stage
  <2>6. db'[i].status = "SOLVED" => dest[i] # "open" \/ Replaced(i)
    BY <2>1 DEF Parts, DocsSound, Sound
  <2>7. \/ k = "validate" /\ db'[i].status = "INVALID"
        \/ k = "feasable" /\ db'[i].status = "INFEASABLE"
        \/ k = "fulfill" /\ db'[i].status \in {"SOLVED", "FAILED"}
        \/ k = "fulfillment" /\ db'[i].status = "SOLVED"
    BY <2>1 DEF Parts, HeldToWrite, Kinds, SourceKinds
  <2>. QED
    BY <1>1, <2>1, <2>2, <2>5, <2>6, <2>7 DEF Parts, InOrder, Stage, Seen, Judged
<1>. QED
  BY <1>2, <1>3

LEMMA ChainIsSeen ==
  ASSUME NEW i \in Intents, Typed, Chain(i)
  PROVE  Seen(i)
<1>1. CASE OtherSolver(i)
  BY <1>1, TypedGives
  DEF OtherSolver, queueVars, DestOK, Seen, Landed, SameStage, Stage, SameStatus, SameSends,
      SameReplaced, Replaced
<1>2. ASSUME NEW n \in 1..Len(txs[i]), TxLands(i, n)
      PROVE  Seen(i)
  <2>1. at' = at /\ db' = db
    BY <1>2 DEF TxLands, queueVars
  <2>2. Len(txs[i]) \in Nat /\ Len(txs[i]) > 0
    BY CountsAreNat, TypedGives
  <2>3. Len(txs'[i]) = Len(txs[i])
    BY <1>2, TypedGives DEF TxLands, TxsOK
  <2>4. SameStage(i) /\ SameStatus(i) /\ SameSends(i)
    BY <2>1, <2>3 DEF SameStage, Stage, SameStatus, SameSends
  <2>5. ASSUME NEW t \in {"mined", "reverted"}, txs' = [txs EXCEPT ![i][n] = t]
        PROVE  SameReplaced(i)
    <3>1. \A m \in 1..Len(txs[i]) : txs'[i][m] = "replaced" <=> txs[i][m] = "replaced"
      BY <1>2, <2>5, TypedGives DEF TxLands, TxsOK
    <3>. QED
      BY <2>3, <3>1 DEF SameReplaced, Replaced
  <2>6. CASE /\ dest[i] = "open" /\ dest' = [dest EXCEPT ![i] = "ours"]
             /\ txs' = [txs EXCEPT ![i][n] = "mined"]
    BY <2>2, <2>4, <2>5, <2>6, TypedGives DEF DestOK, Seen, Landed
  <2>7. CASE txs' = [txs EXCEPT ![i][n] = "reverted"] /\ dest' = dest
    BY <2>4, <2>5, <2>7 DEF Seen, Hidden, SameChain, SameDest
  <2>8. CASE txs' = [txs EXCEPT ![i][n] = "replaced"] /\ dest' = dest
    <3>1. n \in 1..Len(txs'[i]) /\ txs'[i][n] = "replaced"
      BY <2>3, <2>8, TypedGives DEF TxsOK
    <3>2. Replaced(i)'
      BY <3>1 DEF Replaced
    <3>. QED
      BY <2>2, <2>4, <2>8, <3>2 DEF Seen, TakenOver, SameDest
  <2>. QED
    BY <1>2, <2>6, <2>7, <2>8 DEF TxLands
<1>. QED
  BY <1>1, <1>2 DEF Chain

LEMMA LogsAreHidden ==
  ASSUME NEW i \in Intents, Typed, Logs(i)
  PROVE  Seen(i)
<1>. USE KindNames, GotoMoves, TypedGives
     DEF Seen, Hidden, SameStage, Stage, SameStatus, SameSends, SameDest, SameReplaced, SameChain,
         Replaced, chainVars
<1>1. CASE IntentLog(i) BY <1>1 DEF IntentLog
<1>2. CASE FulfillmentLog(i) BY <1>2 DEF FulfillmentLog
<1>. QED
  BY <1>1, <1>2 DEF Logs

-----------------------------------------------------------------------------
(* The steps seen are steps of the lifecycle.                              *)

StageOf == [i \in Intents |-> Stage(i)]
StatusOf == [i \in Intents |-> db[i].status]
SendsOf == [i \in Intents |-> Len(txs[i])]
ReplacedOf == [i \in Intents |-> Replaced(i)]

LEMMA SeenIsStep ==
  ASSUME NEW i \in Intents, Typed, Seen(i),
         \A j \in Intents \ {i} : at'[j] = at[j] /\ db'[j] = db[j] /\ dest'[j] = dest[j]
                                 /\ txs'[j] = txs[j],
         DestOK'
  PROVE  [Lifecycle!Next]_(Lifecycle!vars)
<1>1. \A j \in Intents \ {i} : Stage(j)' = Stage(j) /\ Replaced(j)' = Replaced(j)
  BY DEF Stage, Replaced
<1>2. /\ StageOf' = [StageOf EXCEPT ![i] = Stage(i)']
      /\ StatusOf' = [StatusOf EXCEPT ![i] = db'[i].status]
      /\ SendsOf' = [SendsOf EXCEPT ![i] = Len(txs'[i])]
      /\ ReplacedOf' = [ReplacedOf EXCEPT ![i] = Replaced(i)']
      /\ dest' = [dest EXCEPT ![i] = dest'[i]]
  BY <1>1, TypedGives DEF StageOf, StatusOf, SendsOf, ReplacedOf, DestOK
<1>3. /\ StageOf[i] = Stage(i) /\ StatusOf[i] = db[i].status /\ SendsOf[i] = Len(txs[i])
      /\ StageOf = [StageOf EXCEPT ![i] = StageOf[i]]
      /\ StatusOf = [StatusOf EXCEPT ![i] = StatusOf[i]]
      /\ SendsOf = [SendsOf EXCEPT ![i] = SendsOf[i]]
      /\ ReplacedOf[i] = Replaced(i)
      /\ ReplacedOf = [ReplacedOf EXCEPT ![i] = ReplacedOf[i]]
      /\ dest = [dest EXCEPT ![i] = dest[i]]
  BY TypedGives DEF StageOf, StatusOf, SendsOf, ReplacedOf, DestOK
<1>. USE <1>2, <1>3 DEF SameStage, SameStatus, SameSends, SameDest, SameReplaced, SameChain
<1>4. CASE Hidden(i)
  BY <1>4 DEF Hidden, Lifecycle!vars, StageOf, StatusOf, SendsOf, ReplacedOf
<1>5. CASE Recorded(i)
  <2>1. Lifecycle!Record(i)
    BY <1>5 DEF Recorded, Lifecycle!Record, StageOf, StatusOf, SendsOf, ReplacedOf
  <2>. QED
    BY <2>1 DEF Lifecycle!Next
<1>6. ASSUME NEW from, NEW to, Passed(i, from, to) PROVE Lifecycle!Pass(i, from, to)
  BY <1>6 DEF Passed, Lifecycle!Pass, StageOf, StatusOf, SendsOf, ReplacedOf
<1>7. CASE Judged(i)
  <2>1. Lifecycle!Judge(i)
    BY <1>7 DEF Judged, Lifecycle!Judge, Lifecycle!Verdicts, StageOf, StatusOf, SendsOf, ReplacedOf
  <2>. QED
    BY <2>1 DEF Lifecycle!Next
<1>8. CASE Sent(i)
  <2>1. Lifecycle!Send(i)
    BY <1>8 DEF Sent, Lifecycle!Send, StageOf, StatusOf, SendsOf, ReplacedOf
  <2>. QED
    BY <2>1 DEF Lifecycle!Next
<1>9. CASE Landed(i)
  <2>1. Lifecycle!Land(i)
    BY <1>9 DEF Landed, Lifecycle!Land, StageOf, StatusOf, SendsOf, ReplacedOf
  <2>. QED
    BY <2>1 DEF Lifecycle!Next
<1>10. CASE TakenOver(i)
  <2>1. Lifecycle!Replace(i)
    BY <1>10 DEF TakenOver, Lifecycle!Replace, StageOf, StatusOf, SendsOf, ReplacedOf
  <2>. QED
    BY <2>1 DEF Lifecycle!Next
<1>. QED
  BY <1>4, <1>5, <1>6, <1>7, <1>8, <1>9, <1>10 DEF Seen, Lifecycle!Next

LEMMA InitIsInit == Init => Lifecycle!Init
  BY NoDocFields, KindNames DEF Init, Lifecycle!Init, Stage, Replaced

LEMMA NextIsNext ==
  ASSUME TypeInv, TypeInv', \A i \in Intents : Parts(i), [Next]_vars
  PROVE  [Lifecycle!Next]_(Lifecycle!vars)
<1>. USE TypeInvIsTyped, TypedGives
<1>1. DestOK'
  BY DEF TypeInv, TypeOK, DestOK
<1>2. ASSUME NEW i \in Intents, Turn(i)
      PROVE  [Lifecycle!Next]_(Lifecycle!vars)
  <2>1. Seen(i)
    BY <1>2, QueueIsHidden, LostIsSeen, HandlerIsSeen, ChainIsSeen, LogsAreHidden DEF Turn
  <2>2. \A j \in Intents \ {i} : at'[j] = at[j] /\ db'[j] = db[j] /\ dest'[j] = dest[j]
                                /\ txs'[j] = txs[j]
    BY <1>2, Elsewhere
  <2>. QED
    BY <1>1, <2>1, <2>2, SeenIsStep
<1>3. CASE UNCHANGED vars
  BY <1>3 DEF vars, Lifecycle!vars, Stage, Replaced
<1>. QED
  BY <1>2, <1>3, NextIsTurn

(* Whatever the faults, the retries and the interleaving, an intent goes   *)
(* through the lifecycle and no other way.                                 *)
THEOREM Refines == Spec => ImplementsLifecycle
<1>1. Init => Lifecycle!Init
  BY InitIsInit
<1>2. IndInv /\ IndInv' /\ [Next]_vars => [Lifecycle!Next]_(Lifecycle!vars)
  BY NextIsNext, IndInvIsParts DEF IndInv, TypeInv
<1>. QED
  BY <1>1, <1>2, Inductive, PTL DEF Spec, ImplementsLifecycle, Lifecycle!Spec
=============================================================================
