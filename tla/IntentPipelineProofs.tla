------------------------ MODULE IntentPipelineProofs ------------------------
(***************************************************************************)
(* Theorems about the states of IntentPipeline, for every set of intents,  *)
(* every choice of faults and every bound: their types, the inductive      *)
(* invariant and the safety invariants that follow from it.                *)
(***************************************************************************)
EXTENDS IntentPipeline, TLAPS

-----------------------------------------------------------------------------
(* Type correctness.  Attempts and stalls stay in range because a job that *)
(* has used them up is failed, and a failed job is never run.              *)

TypeInv == TypeOK /\ BudgetOK

LEMMA KindNames ==
  /\ "create" \in Kinds /\ "validate" \in Kinds /\ "feasable" \in Kinds
  /\ "fulfill" \in Kinds /\ "fulfillment" \in Kinds
  BY DEF Kinds, SourceKinds

(* Moving a job to a place other than "failed" preserves the invariant of  *)
(* the queue.                                                              *)
QueueInv ==
  /\ at \in [Intents -> [Kinds -> Places]]
  /\ attempts \in [Intents -> [Kinds -> 0..MaxAttempts]]
  /\ stalls \in [Intents -> [Kinds -> 0..(MaxStalls + 1)]]
  /\ losses \in 0..MaxLosses
  /\ BudgetOK

LEMMA GotoKeepsQueue ==
  ASSUME NEW i \in Intents, NEW k \in Kinds, NEW p \in Places \ {"failed"},
         QueueInv, at[i][k] # "failed", Goto(i, k, p)
  PROVE  QueueInv'
  BY DEF QueueInv, BudgetOK, Goto, Moved

LEMMA EnqueueKeepsQueue ==
  ASSUME NEW i \in Intents, NEW k \in Kinds, NEW next \in Kinds,
         QueueInv, at[i][k] # "failed", EnqueueAndReturn(i, k, next)
  PROVE  QueueInv'
  BY DEF QueueInv, BudgetOK, EnqueueAndReturn, Added, Places, Points, Settled

LEMMA ReportKeepsQueue ==
  ASSUME NEW i \in Intents, NEW k \in Kinds, QueueInv, Report(i, k)
  PROVE  QueueInv'
<1>1. CASE at[i][k] = "returned"
  <2>1. Goto(i, k, "completed")
    BY <1>1 DEF Report
  <2>. QED
    BY <1>1, <2>1, GotoKeepsQueue DEF Places, Settled
<1>2. CASE at[i][k] = "thrown"
  <2>. DEFINE next == IF attempts[i][k] + 1 < MaxAttempts THEN "waiting" ELSE "failed"
  <2>1. at' = [at EXCEPT ![i][k] = next]
    BY <1>2 DEF Report, Moved
  <2>2. attempts' = [attempts EXCEPT ![i][k] = attempts[i][k] + 1]
    BY <1>2 DEF Report
  <2>3. stalls' = stalls /\ losses' = losses
    BY <1>2 DEF Report
  <2>4. attempts[i][k] \in Nat /\ attempts[i][k] < MaxAttempts
    BY <1>2 DEF QueueInv, BudgetOK
  <2>5. next \in Places /\ (next # "failed" => attempts[i][k] + 1 < MaxAttempts)
    BY DEF Places, Settled
  <2>6. attempts[i][k] + 1 \in 0..MaxAttempts
    BY <2>4, ConstantsAssumption
  <2>. HIDE DEF next
  <2>. QED
    BY <1>2, <2>1, <2>2, <2>3, <2>5, <2>6 DEF QueueInv, BudgetOK
<1>. QED
  BY <1>1, <1>2 DEF Report

LEMMA CrashKeepsQueue ==
  ASSUME NEW i \in Intents, NEW k \in Kinds, QueueInv, Crash(i, k)
  PROVE  QueueInv'
<1>. DEFINE next == IF stalls[i][k] < MaxStalls THEN "waiting" ELSE "failed"
<1>1. /\ at' = [at EXCEPT ![i][k] = next]
      /\ stalls' = [stalls EXCEPT ![i][k] = stalls[i][k] + 1]
      /\ attempts' = attempts
      /\ at[i][k] # "failed"
  BY DEF Crash, Moved, Points
<1>2. stalls[i][k] \in Nat /\ stalls[i][k] <= MaxStalls
  BY <1>1 DEF QueueInv, BudgetOK
<1>3. next \in Places /\ (next # "failed" => stalls[i][k] + 1 <= MaxStalls)
  BY <1>2, ConstantsAssumption DEF Places, Settled
<1>4. stalls[i][k] + 1 \in 0..(MaxStalls + 1)
  BY <1>2, ConstantsAssumption
<1>5. losses' \in 0..MaxLosses
  BY ConstantsAssumption DEF Crash, Loss, QueueInv
<1>. HIDE DEF next
<1>. QED
  BY <1>1, <1>3, <1>4, <1>5 DEF QueueInv, BudgetOK

LEMMA FollowerNames ==
  ASSUME NEW k \in DOMAIN Follower
  PROVE  \/ k = "validate" /\ Follower[k] = "feasable"
         \/ k = "feasable" /\ Follower[k] = "fulfill"
  BY DEF Follower

(* A reply that is lost moves a job that had not failed to "thrown".       *)
LEMMA LostKeepsQueue ==
  ASSUME NEW i \in Intents, NEW k \in Kinds, QueueInv,
         AddReplyLost(i, k) \/ WriteReplyLost(i, k)
  PROVE  QueueInv'
<1>1. losses' \in 0..MaxLosses /\ attempts' = attempts /\ stalls' = stalls
  BY ConstantsAssumption DEF AddReplyLost, WriteReplyLost, Loss, QueueInv
<1>2. CASE AddReplyLost(i, k)
  <2>1. PICK next \in Kinds :
          at' = [at EXCEPT ![i][k] = "thrown",
                          ![i][next] = IF @ = "absent" THEN "waiting" ELSE @]
    BY <1>2, FollowerNames, KindNames DEF AddReplyLost, Added
  <2>2. at[i][k] # "failed"
    BY <1>2 DEF AddReplyLost
  <2>. QED
    BY <1>1, <2>1, <2>2 DEF QueueInv, BudgetOK, Places, Points, Settled
<1>3. CASE WriteReplyLost(i, k)
  BY <1>1, <1>3 DEF WriteReplyLost, Moved, QueueInv, BudgetOK, Places, Points
<1>. QED
  BY <1>2, <1>3

(* Every handler step moves its job, or moves it and adds the next one.    *)
LEMMA HandlerKeepsQueue ==
  ASSUME NEW i \in Intents, QueueInv, Handler(i)
  PROVE  QueueInv'
<1>. USE KindNames, GotoKeepsQueue, EnqueueKeepsQueue
     DEF Places, Points, Settled, Return, Throw, End, Load, Mark
<1>1. CASE CreateRead(i) BY <1>1 DEF CreateRead
<1>2. CASE CreateRecord(i) BY <1>2 DEF CreateRecord, RefuseWallet
<1>3. CASE CreateEnqueue(i) BY <1>3 DEF CreateEnqueue
<1>4. CASE ValidateRead(i) BY <1>4 DEF ValidateRead
<1>5. CASE ValidateDecide(i) BY <1>5 DEF ValidateDecide
<1>6. CASE ValidateWrite(i) BY <1>6 DEF ValidateWrite
<1>7. CASE ValidateEnqueue(i) BY <1>7 DEF ValidateEnqueue
<1>8. CASE FeasableRead(i) BY <1>8 DEF FeasableRead
<1>9. CASE FeasableDecide(i) BY <1>9 DEF FeasableDecide
<1>10. CASE FeasableWrite(i) BY <1>10 DEF FeasableWrite
<1>11. CASE FeasableEnqueue(i) BY <1>11 DEF FeasableEnqueue
<1>12. CASE FulfillRead(i) BY <1>12 DEF FulfillRead
<1>13. CASE FulfillPrepare(i) BY <1>13 DEF FulfillPrepare
<1>14. CASE FulfillCheck(i) BY <1>14 DEF FulfillCheck
<1>15. CASE FulfillSend(i) BY <1>15 DEF FulfillSend
<1>16. CASE FulfillReceipt(i) BY <1>16 DEF FulfillReceipt
<1>17. CASE FulfillWrite(i) BY <1>17 DEF FulfillWrite
<1>18. CASE InboxRead(i) BY <1>18 DEF InboxRead
<1>19. CASE InboxWrite(i) BY <1>19 DEF InboxWrite
<1>. QED
  BY <1>1, <1>2, <1>3, <1>4, <1>5, <1>6, <1>7, <1>8, <1>9, <1>10, <1>11, <1>12,
     <1>13, <1>14, <1>15, <1>16, <1>17, <1>18, <1>19 DEF Handler

(* The documents held and stored.                                          *)
ModelOK == model \in [Intents -> [Kinds -> Doc]]
DbOK == db \in [Intents -> Doc]
DestOK == dest \in [Intents -> Fulfillers]
TxsOK == txs \in [Intents -> Seq(TxStates)]
DataOK == ModelOK /\ DbOK /\ DestOK /\ TxsOK

LEMMA NoDocIsDoc == NoDoc \in Doc
  BY DEF NoDoc, Doc, Statuses, Receipts

LEMMA MarkKeepsModel ==
  ASSUME NEW i \in Intents, NEW k \in Kinds, NEW s \in Statuses, NEW r \in Receipts,
         ModelOK, Mark(i, k, s, r)
  PROVE  ModelOK'
<1>1. [status |-> s, receipt |-> r] \in Doc
  BY DEF Doc
<1>. DEFINE d == [status |-> s, receipt |-> r]
<1>2. model' = [model EXCEPT ![i][k] = d]
  BY DEF Mark
<1>. HIDE DEF d
<1>. QED
  BY <1>1, <1>2 DEF ModelOK, d

LEMMA EndKeepsModel ==
  ASSUME NEW i \in Intents, NEW k \in Kinds, NEW how, ModelOK, End(i, k, how)
  PROVE  ModelOK'
  BY NoDocIsDoc DEF End, ModelOK

LEMMA EnqueueKeepsModel ==
  ASSUME NEW i \in Intents, NEW k \in Kinds, NEW next, ModelOK, EnqueueAndReturn(i, k, next)
  PROVE  ModelOK'
  BY NoDocIsDoc DEF EnqueueAndReturn, ModelOK

LEMMA LoadKeepsModel ==
  ASSUME NEW i \in Intents, NEW k \in Kinds, NEW next, ModelOK, DbOK, Load(i, k, next)
  PROVE  ModelOK'
  BY DEF Load, ModelOK, DbOK

LEMMA SaveKeepsDb ==
  ASSUME NEW i \in Intents, NEW k \in Kinds, ModelOK, DbOK, Save(i, k)
  PROVE  DbOK'
<1>. DEFINE d == [status |-> model[i][k].status,
                  receipt |-> IF model[i][k].receipt = "none" THEN db[i].receipt
                              ELSE model[i][k].receipt]
<1>1. d \in Doc
  BY DEF ModelOK, DbOK, Doc
<1>2. db' = [db EXCEPT ![i] = d]
  BY DEF Save
<1>. HIDE DEF d
<1>. QED
  BY <1>1, <1>2 DEF DbOK

LEMMA RecordKeepsDb ==
  ASSUME NEW i \in Intents, DbOK, CreateRecord(i)
  PROVE  DbOK'
<1>1. \A s \in Statuses : [status |-> s, receipt |-> "none"] \in Doc
  BY DEF Doc, Receipts
<1>2. \/ db' = db
      \/ \E s \in Statuses : db' = [db EXCEPT ![i] = [status |-> s, receipt |-> "none"]]
  BY DEF CreateRecord, RefuseWallet, Statuses
<1>. QED
  BY <1>1, <1>2 DEF DbOK

LEMMA InboxReadKeepsModel ==
  ASSUME NEW i \in Intents, ModelOK, DbOK, InboxRead(i)
  PROVE  ModelOK'
<1>. DEFINE d == [db[i] EXCEPT !.status = "SOLVED"]
<1>1. d \in Doc
  BY DEF DbOK, Doc, Statuses
<1>2. \/ model' = [model EXCEPT ![i]["fulfillment"] = d]
      \/ End(i, "fulfillment", "returned") \/ End(i, "fulfillment", "thrown")
  BY DEF InboxRead, Return, Throw
<1>. HIDE DEF d
<1>. QED
  BY <1>1, <1>2, EndKeepsModel, KindNames DEF ModelOK

LEMMA SendKeepsTxs ==
  ASSUME NEW i \in Intents, TxsOK, FulfillSend(i)
  PROVE  TxsOK'
<1>1. txs' = txs \/ txs' = [txs EXCEPT ![i] = Append(txs[i], "pending")]
  BY DEF FulfillSend
<1>2. Append(txs[i], "pending") \in Seq(TxStates)
  BY DEF TxsOK, TxStates
<1>. QED
  BY <1>1, <1>2 DEF TxsOK

LEMMA HandlerKeepsModel ==
  ASSUME NEW i \in Intents, ModelOK, DbOK, Handler(i)
  PROVE  ModelOK'
<1>. USE KindNames, MarkKeepsModel, EndKeepsModel, EnqueueKeepsModel, LoadKeepsModel
     DEF Return, Throw, Statuses, Receipts
<1>0. UNCHANGED model => ModelOK'
  BY DEF ModelOK
<1>1. CASE CreateRead(i) BY <1>0, <1>1 DEF CreateRead
<1>2. CASE CreateRecord(i) BY <1>0, <1>2 DEF CreateRecord, RefuseWallet
<1>3. CASE CreateEnqueue(i) BY <1>0, <1>3 DEF CreateEnqueue
<1>4. CASE ValidateRead(i) BY <1>0, <1>4 DEF ValidateRead
<1>5. CASE ValidateDecide(i) BY <1>0, <1>5 DEF ValidateDecide
<1>6. CASE ValidateWrite(i) BY <1>0, <1>6 DEF ValidateWrite
<1>7. CASE ValidateEnqueue(i) BY <1>0, <1>7 DEF ValidateEnqueue
<1>8. CASE FeasableRead(i) BY <1>0, <1>8 DEF FeasableRead
<1>9. CASE FeasableDecide(i) BY <1>0, <1>9 DEF FeasableDecide
<1>10. CASE FeasableWrite(i) BY <1>0, <1>10 DEF FeasableWrite
<1>11. CASE FeasableEnqueue(i) BY <1>0, <1>11 DEF FeasableEnqueue
<1>12. CASE FulfillRead(i) BY <1>0, <1>12 DEF FulfillRead
<1>13. CASE FulfillPrepare(i) BY <1>0, <1>13 DEF FulfillPrepare
<1>14. CASE FulfillCheck(i) BY <1>0, <1>14 DEF FulfillCheck
<1>15. CASE FulfillSend(i) BY <1>0, <1>15 DEF FulfillSend
<1>16. CASE FulfillReceipt(i) BY <1>0, <1>16 DEF FulfillReceipt
<1>17. CASE FulfillWrite(i) BY <1>0, <1>17 DEF FulfillWrite
<1>18. CASE InboxRead(i) BY <1>0, <1>18, InboxReadKeepsModel
<1>19. CASE InboxWrite(i) BY <1>0, <1>19 DEF InboxWrite
<1>. QED
  BY <1>1, <1>2, <1>3, <1>4, <1>5, <1>6, <1>7, <1>8, <1>9, <1>10, <1>11, <1>12,
     <1>13, <1>14, <1>15, <1>16, <1>17, <1>18, <1>19 DEF Handler

LEMMA HandlerKeepsDb ==
  ASSUME NEW i \in Intents, ModelOK, DbOK, Handler(i)
  PROVE  DbOK'
<1>0. UNCHANGED db => DbOK'
  BY DEF DbOK
<1>. USE KindNames, SaveKeepsDb, <1>0
<1>1. CASE CreateRead(i) BY <1>1 DEF CreateRead
<1>2. CASE CreateRecord(i) BY <1>2, RecordKeepsDb
<1>3. CASE CreateEnqueue(i) BY <1>3 DEF CreateEnqueue
<1>4. CASE ValidateRead(i) BY <1>4 DEF ValidateRead
<1>5. CASE ValidateDecide(i) BY <1>5 DEF ValidateDecide
<1>6. CASE ValidateWrite(i) BY <1>6 DEF ValidateWrite
<1>7. CASE ValidateEnqueue(i) BY <1>7 DEF ValidateEnqueue
<1>8. CASE FeasableRead(i) BY <1>8 DEF FeasableRead
<1>9. CASE FeasableDecide(i) BY <1>9 DEF FeasableDecide
<1>10. CASE FeasableWrite(i) BY <1>10 DEF FeasableWrite
<1>11. CASE FeasableEnqueue(i) BY <1>11 DEF FeasableEnqueue
<1>12. CASE FulfillRead(i) BY <1>12 DEF FulfillRead
<1>13. CASE FulfillPrepare(i) BY <1>13 DEF FulfillPrepare
<1>14. CASE FulfillCheck(i) BY <1>14 DEF FulfillCheck
<1>15. CASE FulfillSend(i) BY <1>15 DEF FulfillSend
<1>16. CASE FulfillReceipt(i) BY <1>16 DEF FulfillReceipt
<1>17. CASE FulfillWrite(i) BY <1>17 DEF FulfillWrite
<1>18. CASE InboxRead(i) BY <1>18 DEF InboxRead
<1>19. CASE InboxWrite(i) BY <1>19 DEF InboxWrite
<1>. QED
  BY <1>1, <1>2, <1>3, <1>4, <1>5, <1>6, <1>7, <1>8, <1>9, <1>10, <1>11, <1>12,
     <1>13, <1>14, <1>15, <1>16, <1>17, <1>18, <1>19 DEF Handler

LEMMA HandlerKeepsChain ==
  ASSUME NEW i \in Intents, DestOK, TxsOK, Handler(i)
  PROVE  DestOK' /\ TxsOK'
<1>0. (UNCHANGED dest => DestOK') /\ (UNCHANGED txs => TxsOK')
  BY DEF DestOK, TxsOK
<1>. USE <1>0 DEF chainVars
<1>1. CASE CreateRead(i) BY <1>1 DEF CreateRead
<1>2. CASE CreateRecord(i) BY <1>2 DEF CreateRecord, RefuseWallet
<1>3. CASE CreateEnqueue(i) BY <1>3 DEF CreateEnqueue
<1>4. CASE ValidateRead(i) BY <1>4 DEF ValidateRead
<1>5. CASE ValidateDecide(i) BY <1>5 DEF ValidateDecide
<1>6. CASE ValidateWrite(i) BY <1>6 DEF ValidateWrite
<1>7. CASE ValidateEnqueue(i) BY <1>7 DEF ValidateEnqueue
<1>8. CASE FeasableRead(i) BY <1>8 DEF FeasableRead
<1>9. CASE FeasableDecide(i) BY <1>9 DEF FeasableDecide
<1>10. CASE FeasableWrite(i) BY <1>10 DEF FeasableWrite
<1>11. CASE FeasableEnqueue(i) BY <1>11 DEF FeasableEnqueue
<1>12. CASE FulfillRead(i) BY <1>12 DEF FulfillRead
<1>13. CASE FulfillPrepare(i) BY <1>13 DEF FulfillPrepare
<1>14. CASE FulfillCheck(i) BY <1>14 DEF FulfillCheck
<1>15. CASE FulfillSend(i) BY <1>15, SendKeepsTxs DEF FulfillSend
<1>16. CASE FulfillReceipt(i) BY <1>16 DEF FulfillReceipt
<1>17. CASE FulfillWrite(i) BY <1>17 DEF FulfillWrite
<1>18. CASE InboxRead(i) BY <1>18 DEF InboxRead
<1>19. CASE InboxWrite(i) BY <1>19 DEF InboxWrite
<1>. QED
  BY <1>1, <1>2, <1>3, <1>4, <1>5, <1>6, <1>7, <1>8, <1>9, <1>10, <1>11, <1>12,
     <1>13, <1>14, <1>15, <1>16, <1>17, <1>18, <1>19 DEF Handler

LEMMA ChainKeepsData ==
  ASSUME NEW i \in Intents, DataOK, Chain(i)
  PROVE  DataOK'
<1>1. CASE OtherSolver(i)
  BY <1>1 DEF OtherSolver, DataOK, ModelOK, DbOK, DestOK, TxsOK, Fulfillers
<1>2. ASSUME NEW n \in 1..Len(txs[i]), TxLands(i, n)
      PROVE  DataOK'
  <2>1. ModelOK' /\ DbOK' /\ DestOK'
    BY <1>2 DEF TxLands, DataOK, ModelOK, DbOK, DestOK, Fulfillers
  <2>2. \E t \in TxStates : txs' = [txs EXCEPT ![i][n] = t]
    BY <1>2 DEF TxLands, TxStates
  <2>3. TxsOK'
    BY <2>2 DEF DataOK, TxsOK
  <2>. QED
    BY <2>1, <2>3 DEF DataOK
<1>. QED
  BY <1>1, <1>2 DEF Chain

LEMMA TypeInvIsParts == TypeInv <=> QueueInv /\ DataOK
  BY DEF TypeInv, TypeOK, QueueInv, DataOK, ModelOK, DbOK, DestOK, TxsOK

LEMMA InitTypeInv == Init => TypeInv
  BY NoDocIsDoc, ConstantsAssumption
  DEF Init, TypeInv, TypeOK, BudgetOK, Places, Fulfillers

LEMMA NextTypeInv == TypeInv /\ [Next]_vars => TypeInv'
<1>. SUFFICES ASSUME QueueInv, DataOK, [Next]_vars
              PROVE  QueueInv' /\ DataOK'
  BY TypeInvIsParts
  DEF TypeInv, TypeOK, QueueInv, BudgetOK, DataOK, ModelOK, DbOK, DestOK, TxsOK
<1>0. /\ UNCHANGED <<model, db, dest, txs>> => DataOK'
      /\ UNCHANGED queueVars => QueueInv'
  BY DEF DataOK, ModelOK, DbOK, DestOK, TxsOK, queueVars, QueueInv, BudgetOK
<1>1. ASSUME NEW i \in Intents, NEW k \in Kinds, Start(i, k)
      PROVE  QueueInv' /\ DataOK'
  BY <1>0, <1>1, GotoKeepsQueue DEF Start, Places, Points, Settled, chainVars
<1>2. ASSUME NEW i \in Intents, NEW k \in Kinds, Report(i, k)
      PROVE  QueueInv' /\ DataOK'
  BY <1>0, <1>2, ReportKeepsQueue DEF Report, chainVars
<1>3. ASSUME NEW i \in Intents, NEW k \in Kinds, Crash(i, k)
      PROVE  QueueInv' /\ DataOK'
  <2>1. DataOK'
    BY <1>3, NoDocIsDoc DEF Crash, DataOK, ModelOK, DbOK, DestOK, TxsOK, chainVars
  <2>. QED
    BY <1>3, <2>1, CrashKeepsQueue
<1>8. ASSUME NEW i \in Intents, NEW k \in Kinds, AddReplyLost(i, k) \/ WriteReplyLost(i, k)
      PROVE  QueueInv' /\ DataOK'
  <2>1. model' = [model EXCEPT ![i][k] = NoDoc] /\ UNCHANGED <<dest, txs>>
    BY <1>8 DEF AddReplyLost, WriteReplyLost, chainVars
  <2>3. ModelOK' /\ DestOK' /\ TxsOK'
    BY <2>1, NoDocIsDoc DEF DataOK, ModelOK, DestOK, TxsOK
  <2>2. DbOK'
    BY <1>8, SaveKeepsDb DEF AddReplyLost, WriteReplyLost, DataOK, DbOK
  <2>. QED
    BY <1>8, <2>2, <2>3, LostKeepsQueue DEF DataOK
<1>4. ASSUME NEW i \in Intents, Handler(i)
      PROVE  QueueInv' /\ DataOK'
  BY <1>4, HandlerKeepsQueue, HandlerKeepsModel, HandlerKeepsDb, HandlerKeepsChain DEF DataOK
<1>5. ASSUME NEW i \in Intents, Chain(i)
      PROVE  QueueInv' /\ DataOK'
  BY <1>0, <1>5, ChainKeepsData DEF Chain, TxLands, OtherSolver
<1>6. ASSUME NEW i \in Intents, Logs(i)
      PROVE  QueueInv' /\ DataOK'
  BY <1>0, <1>6, GotoKeepsQueue, KindNames
  DEF Logs, IntentLog, FulfillmentLog, Places, Points, Settled, chainVars
<1>7. CASE UNCHANGED vars
  BY <1>0, <1>7 DEF vars, queueVars
<1>. QED
  BY <1>1, <1>2, <1>3, <1>4, <1>5, <1>6, <1>7, <1>8 DEF Next

(* TypeOK holds in every reachable state.                                  *)
THEOREM TypeCorrect == Spec => []TypeOK
<1>1. Spec => []TypeInv
  BY InitTypeInv, NextTypeInv, PTL DEF Spec
<1>. QED
  BY <1>1, PTL DEF TypeInv

-----------------------------------------------------------------------------
(* What the steps shared by the handlers change, point by point.           *)

AtOK == at \in [Intents -> [Kinds -> Places]]

LEMMA GotoMoves ==
  ASSUME NEW i \in Intents, NEW k \in Kinds, NEW p, AtOK, Goto(i, k, p)
  PROVE  /\ at'[i][k] = p
         /\ \A m \in Kinds \ {k} : at'[i][m] = at[i][m]
         /\ \A j \in Intents \ {i} : at'[j] = at[j]
         /\ attempts' = attempts /\ stalls' = stalls
  BY DEF AtOK, Goto, Moved

LEMMA EnqueueMoves ==
  ASSUME NEW i \in Intents, NEW k \in Kinds, NEW next \in Kinds \ {k},
         AtOK, ModelOK, EnqueueAndReturn(i, k, next)
  PROVE  /\ at'[i][k] = "returned"
         /\ at'[i][next] = IF at[i][next] = "absent" THEN "waiting" ELSE at[i][next]
         /\ \A m \in Kinds \ {k, next} : at'[i][m] = at[i][m]
         /\ \A j \in Intents \ {i} : at'[j] = at[j]
         /\ attempts' = attempts /\ stalls' = stalls
         /\ model'[i][k] = NoDoc
         /\ \A m \in Kinds \ {k} : model'[i][m] = model[i][m]
         /\ \A j \in Intents \ {i} : model'[j] = model[j]
<1>1. /\ at' = [at EXCEPT ![i][k] = "returned",
                         ![i][next] = IF at[i][next] = "absent" THEN "waiting" ELSE at[i][next]]
      /\ attempts' = attempts /\ stalls' = stalls
      /\ model' = [model EXCEPT ![i][k] = NoDoc]
  BY DEF EnqueueAndReturn, Added
<1>2. /\ at'[i][k] = "returned"
      /\ at'[i][next] = IF at[i][next] = "absent" THEN "waiting" ELSE at[i][next]
      /\ \A m \in Kinds \ {k, next} : at'[i][m] = at[i][m]
      /\ \A j \in Intents \ {i} : at'[j] = at[j]
  BY <1>1 DEF AtOK
<1>. QED
  BY <1>1, <1>2 DEF ModelOK

LEMMA EndMoves ==
  ASSUME NEW i \in Intents, NEW k \in Kinds, NEW how, AtOK, ModelOK, End(i, k, how)
  PROVE  /\ at'[i][k] = how
         /\ \A m \in Kinds \ {k} : at'[i][m] = at[i][m]
         /\ \A j \in Intents \ {i} : at'[j] = at[j]
         /\ attempts' = attempts /\ stalls' = stalls
         /\ model'[i][k] = NoDoc
         /\ \A m \in Kinds \ {k} : model'[i][m] = model[i][m]
         /\ \A j \in Intents \ {i} : model'[j] = model[j]
  BY GotoMoves DEF End, ModelOK

LEMMA MarkMoves ==
  ASSUME NEW i \in Intents, NEW k \in Kinds, NEW s, NEW r, AtOK, ModelOK, Mark(i, k, s, r)
  PROVE  /\ at'[i][k] = "write"
         /\ \A m \in Kinds \ {k} : at'[i][m] = at[i][m]
         /\ \A j \in Intents \ {i} : at'[j] = at[j]
         /\ attempts' = attempts /\ stalls' = stalls
         /\ model'[i][k].status = s
         /\ model'[i][k].receipt = r
         /\ \A m \in Kinds \ {k} : model'[i][m] = model[i][m]
         /\ \A j \in Intents \ {i} : model'[j] = model[j]
<1>. DEFINE d == [status |-> s, receipt |-> r]
<1>1. model' = [model EXCEPT ![i][k] = d] /\ Goto(i, k, "write")
  BY DEF Mark
<1>2. d.status = s /\ d.receipt = r
  OBVIOUS
<1>. HIDE DEF d
<1>. QED
  BY <1>1, <1>2, GotoMoves DEF ModelOK

LEMMA LoadMoves ==
  ASSUME NEW i \in Intents, NEW k \in Kinds, NEW p, AtOK, ModelOK, Load(i, k, p)
  PROVE  /\ at'[i][k] = p
         /\ \A m \in Kinds \ {k} : at'[i][m] = at[i][m]
         /\ \A j \in Intents \ {i} : at'[j] = at[j]
         /\ attempts' = attempts /\ stalls' = stalls
         /\ model'[i][k] = db[i]
         /\ \A m \in Kinds \ {k} : model'[i][m] = model[i][m]
         /\ \A j \in Intents \ {i} : model'[j] = model[j]
  BY GotoMoves DEF Load, ModelOK

LEMMA SaveWrites ==
  ASSUME NEW i \in Intents, NEW k \in Kinds, DbOK, Save(i, k)
  PROVE  /\ db'[i].status = model[i][k].status
         /\ db'[i].receipt = IF model[i][k].receipt = "none" THEN db[i].receipt
                             ELSE model[i][k].receipt
         /\ \A j \in Intents \ {i} : db'[j] = db[j]
  BY DEF Save, DbOK

LEMMA NoDocFields == NoDoc.status = "ABSENT" /\ NoDoc.receipt = "none"
  BY DEF NoDoc

LEMMA RecordWrites ==
  ASSUME NEW i \in Intents, DbOK, CreateRecord(i)
  PROVE  /\ \/ /\ db'[i].status = "PENDING" /\ db'[i].receipt = "none"
               /\ \/ Goto(i, "create", "enqueue") /\ UNCHANGED model
                  \/ End(i, "create", "returned")
            \/ /\ db'[i].status = "NON-BEND-WALLET" /\ db'[i].receipt = "none"
               /\ End(i, "create", "returned")
            \/ db'[i] = db[i] /\ End(i, "create", "returned")
         /\ \A j \in Intents \ {i} : db'[j] = db[j]
  BY DEF CreateRecord, RefuseWallet, Return, DbOK

LEMMA EventLoads ==
  ASSUME NEW i \in Intents, AtOK, ModelOK, DbOK, InboxRead(i)
  PROVE  \/ /\ db[i].status # "ABSENT"
            /\ at'[i]["fulfillment"] = "write"
            /\ \A m \in Kinds \ {"fulfillment"} : at'[i][m] = at[i][m]
            /\ \A j \in Intents \ {i} : at'[j] = at[j]
            /\ attempts' = attempts /\ stalls' = stalls
            /\ model'[i]["fulfillment"].status = "SOLVED"
            /\ model'[i]["fulfillment"].receipt = db[i].receipt
            /\ \A m \in Kinds \ {"fulfillment"} : model'[i][m] = model[i][m]
            /\ \A j \in Intents \ {i} : model'[j] = model[j]
         \/ End(i, "fulfillment", "returned")
         \/ End(i, "fulfillment", "thrown")
<1>. DEFINE d == [db[i] EXCEPT !.status = "SOLVED"]
<1>1. d.status = "SOLVED" /\ d.receipt = db[i].receipt
  BY DEF DbOK, Doc
<1>2. \/ /\ db[i].status # "ABSENT"
         /\ model' = [model EXCEPT ![i]["fulfillment"] = d]
         /\ Goto(i, "fulfillment", "write")
      \/ End(i, "fulfillment", "returned")
      \/ End(i, "fulfillment", "thrown")
  BY DEF InboxRead, Return, Throw
<1>. HIDE DEF d
<1>. QED
  BY <1>1, <1>2, GotoMoves, KindNames DEF ModelOK

(* What happens when the reply to an add is lost, ...                      *)
LEMMA AddLostMoves ==
  ASSUME NEW i \in Intents, NEW k \in Kinds, AtOK, ModelOK, AddReplyLost(i, k)
  PROVE  /\ at[i][k] = "enqueue" /\ at'[i][k] = "thrown"
         /\ \E next \in Kinds :
              /\ \/ k = "validate" /\ next = "feasable"
                 \/ k = "feasable" /\ next = "fulfill"
              /\ at'[i][next] = IF at[i][next] = "absent" THEN "waiting" ELSE at[i][next]
              /\ \A m \in Kinds \ {k, next} : at'[i][m] = at[i][m]
         /\ \A m \in Kinds \ {k} : model'[i][m] = model[i][m]
         /\ model'[i][k] = NoDoc
         /\ \A j \in Intents \ {i} : at'[j] = at[j] /\ model'[j] = model[j]
         /\ UNCHANGED <<attempts, stalls, db, dest, txs>> /\ losses' = losses + 1
<1>1. PICK next \in Kinds :
        /\ \/ k = "validate" /\ next = "feasable"
           \/ k = "feasable" /\ next = "fulfill"
        /\ at' = [at EXCEPT ![i][k] = "thrown",
                            ![i][next] = IF @ = "absent" THEN "waiting" ELSE @]
  BY FollowerNames, KindNames DEF AddReplyLost, Added
<1>2. /\ at'[i][k] = "thrown"
      /\ at'[i][next] = IF at[i][next] = "absent" THEN "waiting" ELSE at[i][next]
      /\ \A m \in Kinds \ {k, next} : at'[i][m] = at[i][m]
      /\ \A j \in Intents \ {i} : at'[j] = at[j]
  BY <1>1 DEF AtOK
<1>3. /\ \A m \in Kinds \ {k} : model'[i][m] = model[i][m]
      /\ model'[i][k] = NoDoc
      /\ \A j \in Intents \ {i} : model'[j] = model[j]
  BY DEF AddReplyLost, ModelOK
<1>. QED
  BY <1>1, <1>2, <1>3 DEF AddReplyLost, Loss, chainVars

(* ... or that to a write.                                                 *)
LEMMA WriteLostMoves ==
  ASSUME NEW i \in Intents, NEW k \in Kinds, AtOK, ModelOK, DbOK, WriteReplyLost(i, k)
  PROVE  /\ at[i][k] = "write" /\ at'[i][k] = "thrown"
         /\ \A m \in Kinds \ {k} : at'[i][m] = at[i][m] /\ model'[i][m] = model[i][m]
         /\ model'[i][k] = NoDoc
         /\ db'[i].status = model[i][k].status
         /\ db'[i].receipt = IF model[i][k].receipt = "none" THEN db[i].receipt
                             ELSE model[i][k].receipt
         /\ \A j \in Intents \ {i} : at'[j] = at[j] /\ model'[j] = model[j] /\ db'[j] = db[j]
         /\ UNCHANGED <<attempts, stalls, dest, txs>> /\ losses' = losses + 1
<1>1. at' = [at EXCEPT ![i][k] = "thrown"] /\ model' = [model EXCEPT ![i][k] = NoDoc]
  BY DEF WriteReplyLost, Moved
<1>2. /\ at'[i][k] = "thrown" /\ model'[i][k] = NoDoc
      /\ \A m \in Kinds \ {k} : at'[i][m] = at[i][m] /\ model'[i][m] = model[i][m]
      /\ \A j \in Intents \ {i} : at'[j] = at[j] /\ model'[j] = model[j]
  BY <1>1 DEF AtOK, ModelOK
<1>. QED
  BY <1>2, SaveWrites DEF WriteReplyLost, Loss, chainVars

(* A step of a handler of i leaves the other intents alone.                *)
LEMMA HandlerFrame ==
  ASSUME NEW i \in Intents, AtOK, ModelOK, DbOK, TxsOK, Handler(i)
  PROVE  /\ attempts' = attempts /\ stalls' = stalls /\ dest' = dest
         /\ \A j \in Intents \ {i} :
              at'[j] = at[j] /\ model'[j] = model[j] /\ db'[j] = db[j] /\ txs'[j] = txs[j]
<1>. USE KindNames, GotoMoves, EndMoves, EnqueueMoves, MarkMoves, LoadMoves, SaveWrites
     DEF Return, Throw, chainVars
<1>1. CASE CreateRead(i) BY <1>1 DEF CreateRead
<1>2. CASE CreateRecord(i) BY <1>2, RecordWrites DEF CreateRecord, RefuseWallet
<1>3. CASE CreateEnqueue(i) BY <1>3 DEF CreateEnqueue
<1>4. CASE ValidateRead(i) BY <1>4 DEF ValidateRead
<1>5. CASE ValidateDecide(i) BY <1>5 DEF ValidateDecide
<1>6. CASE ValidateWrite(i) BY <1>6 DEF ValidateWrite
<1>7. CASE ValidateEnqueue(i) BY <1>7 DEF ValidateEnqueue
<1>8. CASE FeasableRead(i) BY <1>8 DEF FeasableRead
<1>9. CASE FeasableDecide(i) BY <1>9 DEF FeasableDecide
<1>10. CASE FeasableWrite(i) BY <1>10 DEF FeasableWrite
<1>11. CASE FeasableEnqueue(i) BY <1>11 DEF FeasableEnqueue
<1>12. CASE FulfillRead(i) BY <1>12 DEF FulfillRead
<1>13. CASE FulfillPrepare(i) BY <1>13 DEF FulfillPrepare
<1>14. CASE FulfillCheck(i) BY <1>14 DEF FulfillCheck
<1>15. CASE FulfillSend(i) BY <1>15 DEF FulfillSend, TxsOK
<1>16. CASE FulfillReceipt(i) BY <1>16 DEF FulfillReceipt
<1>17. CASE FulfillWrite(i) BY <1>17 DEF FulfillWrite
<1>18. CASE InboxRead(i) BY <1>18, EventLoads DEF InboxRead
<1>19. CASE InboxWrite(i) BY <1>19 DEF InboxWrite
<1>. QED
  BY <1>1, <1>2, <1>3, <1>4, <1>5, <1>6, <1>7, <1>8, <1>9, <1>10, <1>11, <1>12,
     <1>13, <1>14, <1>15, <1>16, <1>17, <1>18, <1>19 DEF Handler

(* The stages stay in order.                                              *)
LEMMA HandlerInOrder ==
  ASSUME NEW i \in Intents, AtOK, ModelOK, DbOK, TxsOK, InOrder(i), HeldToWrite(i), Handler(i)
  PROVE  InOrder(i)'
<1>. USE KindNames, GotoMoves, EndMoves, EnqueueMoves, MarkMoves, LoadMoves, SaveWrites
     DEF Return, Throw, InOrder, HeldToWrite
<1>1. CASE CreateRead(i) BY <1>1 DEF CreateRead
<1>2. CASE CreateRecord(i) BY <1>2, RecordWrites DEF CreateRecord, RefuseWallet
<1>3. CASE CreateEnqueue(i) BY <1>3 DEF CreateEnqueue
<1>4. CASE ValidateRead(i) BY <1>4 DEF ValidateRead
<1>5. CASE ValidateDecide(i) BY <1>5 DEF ValidateDecide
<1>6. CASE ValidateWrite(i) BY <1>6 DEF ValidateWrite
<1>7. CASE ValidateEnqueue(i) BY <1>7 DEF ValidateEnqueue
<1>8. CASE FeasableRead(i) BY <1>8 DEF FeasableRead
<1>9. CASE FeasableDecide(i) BY <1>9 DEF FeasableDecide
<1>10. CASE FeasableWrite(i) BY <1>10 DEF FeasableWrite
<1>11. CASE FeasableEnqueue(i) BY <1>11 DEF FeasableEnqueue
<1>12. CASE FulfillRead(i) BY <1>12 DEF FulfillRead
<1>13. CASE FulfillPrepare(i) BY <1>13 DEF FulfillPrepare
<1>14. CASE FulfillCheck(i) BY <1>14 DEF FulfillCheck
<1>15. CASE FulfillSend(i) BY <1>15 DEF FulfillSend
<1>16. CASE FulfillReceipt(i) BY <1>16 DEF FulfillReceipt
<1>17. CASE FulfillWrite(i) BY <1>17 DEF FulfillWrite
<1>18. CASE InboxRead(i) BY <1>18, EventLoads DEF InboxRead
<1>19. CASE InboxWrite(i) BY <1>19 DEF InboxWrite
<1>. QED
  BY <1>1, <1>2, <1>3, <1>4, <1>5, <1>6, <1>7, <1>8, <1>9, <1>10, <1>11, <1>12,
     <1>13, <1>14, <1>15, <1>16, <1>17, <1>18, <1>19 DEF Handler

(* A handler that comes to write holds its own verdict.                   *)
LEMMA HandlerHeld ==
  ASSUME NEW i \in Intents, AtOK, ModelOK, DbOK, TxsOK, HeldToWrite(i), Handler(i)
  PROVE  HeldToWrite(i)'
<1>. USE KindNames, GotoMoves, EndMoves, EnqueueMoves, MarkMoves, LoadMoves, SaveWrites
     DEF Return, Throw, HeldToWrite
<1>1. CASE CreateRead(i) BY <1>1 DEF CreateRead
<1>2. CASE CreateRecord(i) BY <1>2, RecordWrites DEF CreateRecord, RefuseWallet
<1>3. CASE CreateEnqueue(i) BY <1>3 DEF CreateEnqueue
<1>4. CASE ValidateRead(i) BY <1>4 DEF ValidateRead
<1>5. CASE ValidateDecide(i) BY <1>5 DEF ValidateDecide
<1>6. CASE ValidateWrite(i) BY <1>6 DEF ValidateWrite
<1>7. CASE ValidateEnqueue(i) BY <1>7 DEF ValidateEnqueue
<1>8. CASE FeasableRead(i) BY <1>8 DEF FeasableRead
<1>9. CASE FeasableDecide(i) BY <1>9 DEF FeasableDecide
<1>10. CASE FeasableWrite(i) BY <1>10 DEF FeasableWrite
<1>11. CASE FeasableEnqueue(i) BY <1>11 DEF FeasableEnqueue
<1>12. CASE FulfillRead(i) BY <1>12 DEF FulfillRead
<1>13. CASE FulfillPrepare(i) BY <1>13 DEF FulfillPrepare
<1>14. CASE FulfillCheck(i) BY <1>14 DEF FulfillCheck
<1>15. CASE FulfillSend(i) BY <1>15 DEF FulfillSend
<1>16. CASE FulfillReceipt(i) BY <1>16 DEF FulfillReceipt
<1>17. CASE FulfillWrite(i) BY <1>17 DEF FulfillWrite
<1>18. CASE InboxRead(i) BY <1>18, EventLoads DEF InboxRead
<1>19. CASE InboxWrite(i) BY <1>19 DEF InboxWrite
<1>. QED
  BY <1>1, <1>2, <1>3, <1>4, <1>5, <1>6, <1>7, <1>8, <1>9, <1>10, <1>11, <1>12,
     <1>13, <1>14, <1>15, <1>16, <1>17, <1>18, <1>19 DEF Handler

LEMMA SendAppends ==
  ASSUME NEW i \in Intents, TxsOK, FulfillSend(i)
  PROVE  \/ /\ Len(txs'[i]) = Len(txs[i]) + 1
            /\ \A n \in 1..Len(txs'[i]) : txs'[i][n] = "mined" => n \in 1..Len(txs[i])
            /\ \A n \in 1..Len(txs[i]) : n \in 1..Len(txs'[i]) /\ txs'[i][n] = txs[i][n]
            /\ Goto(i, "fulfill", "receipt") \/ Mark(i, "fulfill", "FAILED", "error")
         \/ txs' = txs /\ Mark(i, "fulfill", "FAILED", "error")
<1>1. CASE txs' = [txs EXCEPT ![i] = Append(txs[i], "pending")]
  <2>1. /\ Len(txs'[i]) = Len(txs[i]) + 1
        /\ \A n \in 1..Len(txs[i]) : txs'[i][n] = txs[i][n]
        /\ txs'[i][Len(txs[i]) + 1] = "pending"
        /\ Len(txs[i]) \in Nat
    BY <1>1 DEF TxsOK
  <2>2. /\ \A n \in 1..Len(txs'[i]) : txs'[i][n] = "mined" => n \in 1..Len(txs[i])
        /\ \A n \in 1..Len(txs[i]) : n \in 1..Len(txs'[i])
    BY <2>1
  <2>. QED
    BY <2>1, <2>2 DEF FulfillSend
<1>. QED
  BY <1>1 DEF FulfillSend

LEMMA CountsAreNat ==
  ASSUME NEW i \in Intents, QueueInv, TxsOK
  PROVE  /\ attempts[i]["fulfill"] \in Nat
         /\ stalls[i]["fulfill"] \in Nat
         /\ Len(txs[i]) \in Nat
  BY KindNames DEF QueueInv, TxsOK

(* A transaction that was replaced remains so.                             *)
LEMMA HandlerKeepsReplaced ==
  ASSUME NEW i \in Intents, TxsOK, Replaced(i), Handler(i)
  PROVE  Replaced(i)'
<1>1. CASE FulfillSend(i)
  BY <1>1, SendAppends DEF Replaced
<1>2. CASE txs' = txs
  BY <1>2 DEF Replaced
<1>. QED
  BY <1>1, <1>2 DEF Handler, CreateRead, CreateRecord, CreateEnqueue, ValidateRead,
     ValidateDecide, ValidateWrite, ValidateEnqueue, FeasableRead, FeasableDecide, FeasableWrite,
     FeasableEnqueue, FulfillRead, FulfillPrepare, FulfillCheck, FulfillReceipt, FulfillWrite,
     InboxRead, InboxWrite, chainVars

(* Documents are copied, judged truthfully, or emptied.                    *)
LEMMA HandlerSound ==
  ASSUME NEW i \in Intents, AtOK, ModelOK, DbOK, TxsOK, QueueInv, DocsSound(i), ChainFacts(i),
         Handler(i)
  PROVE  DocsSound(i)'
<1>0. /\ Replaced(i) => Replaced(i)'
      /\ dest'[i] = dest[i]
  BY HandlerKeepsReplaced, HandlerFrame
<1>. USE KindNames, GotoMoves, EndMoves, EnqueueMoves, MarkMoves, LoadMoves, SaveWrites, NoDocFields,
         <1>0
     DEF Return, Throw, DocsSound, Sound, ChainFacts
<1>1. CASE CreateRead(i) BY <1>1 DEF CreateRead
<1>2. CASE CreateRecord(i) BY <1>2, RecordWrites DEF CreateRecord, RefuseWallet
<1>3. CASE CreateEnqueue(i) BY <1>3 DEF CreateEnqueue
<1>4. CASE ValidateRead(i) BY <1>4 DEF ValidateRead
<1>5. CASE ValidateDecide(i) BY <1>5 DEF ValidateDecide
<1>6. CASE ValidateWrite(i) BY <1>6 DEF ValidateWrite
<1>7. CASE ValidateEnqueue(i) BY <1>7 DEF ValidateEnqueue
<1>8. CASE FeasableRead(i) BY <1>8 DEF FeasableRead
<1>9. CASE FeasableDecide(i) BY <1>9 DEF FeasableDecide
<1>10. CASE FeasableWrite(i) BY <1>10 DEF FeasableWrite
<1>11. CASE FeasableEnqueue(i) BY <1>11 DEF FeasableEnqueue
<1>12. CASE FulfillRead(i) BY <1>12 DEF FulfillRead
<1>13. CASE FulfillPrepare(i) BY <1>13 DEF FulfillPrepare
<1>14. CASE FulfillCheck(i) BY <1>14 DEF FulfillCheck
<1>15. CASE FulfillSend(i) BY <1>15 DEF FulfillSend
<1>16. CASE FulfillReceipt(i)
  <2>1. Len(txs[i]) \in 1..Len(txs[i]) /\ UNCHANGED db
    BY <1>16, CountsAreNat DEF FulfillReceipt
  <2>2. \/ Mark(i, "fulfill", "SOLVED", "mined") /\ (dest[i] = "ours" \/ Replaced(i))
        \/ Mark(i, "fulfill", "FAILED", "error")
    BY <1>16, <2>1 DEF FulfillReceipt, Successful, Replaced
  <2>3. dest[i] = "ours" => dest[i] # "open"
    OBVIOUS
  <2>. QED
    BY <2>1, <2>2, <2>3
<1>17. CASE FulfillWrite(i) BY <1>17 DEF FulfillWrite
<1>18. CASE InboxRead(i) BY <1>18, EventLoads DEF InboxRead
<1>19. CASE InboxWrite(i) BY <1>19 DEF InboxWrite
<1>. QED
  BY <1>1, <1>2, <1>3, <1>4, <1>5, <1>6, <1>7, <1>8, <1>9, <1>10, <1>11, <1>12,
     <1>13, <1>14, <1>15, <1>16, <1>17, <1>18, <1>19 DEF Handler

(* Nothing learnt from the chain is forgotten.                             *)
LEMMA HandlerChainFacts ==
  ASSUME NEW i \in Intents, AtOK, ModelOK, DbOK, TxsOK, QueueInv, ChainFacts(i), Handler(i)
  PROVE  ChainFacts(i)'
<1>. USE KindNames, GotoMoves, EndMoves, EnqueueMoves, MarkMoves, LoadMoves, SaveWrites
     DEF Return, Throw, ChainFacts, chainVars
<1>1. CASE CreateRead(i) BY <1>1 DEF CreateRead
<1>2. CASE CreateRecord(i) BY <1>2, RecordWrites DEF CreateRecord, RefuseWallet
<1>3. CASE CreateEnqueue(i) BY <1>3 DEF CreateEnqueue
<1>4. CASE ValidateRead(i) BY <1>4 DEF ValidateRead
<1>5. CASE ValidateDecide(i) BY <1>5 DEF ValidateDecide
<1>6. CASE ValidateWrite(i) BY <1>6 DEF ValidateWrite
<1>7. CASE ValidateEnqueue(i) BY <1>7 DEF ValidateEnqueue
<1>8. CASE FeasableRead(i) BY <1>8 DEF FeasableRead
<1>9. CASE FeasableDecide(i) BY <1>9 DEF FeasableDecide
<1>10. CASE FeasableWrite(i) BY <1>10 DEF FeasableWrite
<1>11. CASE FeasableEnqueue(i) BY <1>11 DEF FeasableEnqueue
<1>12. CASE FulfillRead(i) BY <1>12 DEF FulfillRead
<1>13. CASE FulfillPrepare(i) BY <1>13 DEF FulfillPrepare
<1>14. CASE FulfillCheck(i) BY <1>14 DEF FulfillCheck
<1>15. CASE FulfillSend(i) BY <1>15, SendAppends, CountsAreNat DEF FulfillSend
<1>16. CASE FulfillReceipt(i) BY <1>16 DEF FulfillReceipt
<1>17. CASE FulfillWrite(i) BY <1>17 DEF FulfillWrite
<1>18. CASE InboxRead(i) BY <1>18, EventLoads DEF InboxRead
<1>19. CASE InboxWrite(i) BY <1>19 DEF InboxWrite
<1>. QED
  BY <1>1, <1>2, <1>3, <1>4, <1>5, <1>6, <1>7, <1>8, <1>9, <1>10, <1>11, <1>12,
     <1>13, <1>14, <1>15, <1>16, <1>17, <1>18, <1>19 DEF Handler

(* A run of the fulfill job sends at most one transaction.                 *)
LEMMA HandlerCounts ==
  ASSUME NEW i \in Intents, AtOK, ModelOK, DbOK, TxsOK, QueueInv, SendsCounted(i), Handler(i)
  PROVE  SendsCounted(i)'
<1>. USE KindNames, GotoMoves, EndMoves, EnqueueMoves, MarkMoves, LoadMoves, SaveWrites, CountsAreNat
     DEF Return, Throw, SendsCounted, SentInThisRun, chainVars
<1>1. CASE CreateRead(i) BY <1>1 DEF CreateRead
<1>2. CASE CreateRecord(i) BY <1>2, RecordWrites DEF CreateRecord, RefuseWallet
<1>3. CASE CreateEnqueue(i)
  <2>1. at'[i]["fulfill"] = at[i]["fulfill"] /\ txs' = txs
    BY <1>3 DEF CreateEnqueue
  <2>2. attempts' = attempts /\ stalls' = stalls
    BY <1>3 DEF CreateEnqueue
  <2>. QED
    BY <2>1, <2>2 DEF SendsCounted
<1>4. CASE ValidateRead(i)
  <2>1. at'[i]["fulfill"] = at[i]["fulfill"] /\ txs' = txs
    BY <1>4 DEF ValidateRead
  <2>2. attempts' = attempts /\ stalls' = stalls
    BY <1>4 DEF ValidateRead
  <2>. QED
    BY <2>1, <2>2 DEF SendsCounted
<1>5. CASE ValidateDecide(i)
  <2>1. at'[i]["fulfill"] = at[i]["fulfill"] /\ txs' = txs
    BY <1>5 DEF ValidateDecide
  <2>2. attempts' = attempts /\ stalls' = stalls
    BY <1>5 DEF ValidateDecide
  <2>. QED
    BY <2>1, <2>2 DEF SendsCounted
<1>6. CASE ValidateWrite(i) BY <1>6 DEF ValidateWrite
<1>7. CASE ValidateEnqueue(i)
  <2>1. at'[i]["fulfill"] = at[i]["fulfill"] /\ txs' = txs
    BY <1>7 DEF ValidateEnqueue
  <2>2. attempts' = attempts /\ stalls' = stalls
    BY <1>7 DEF ValidateEnqueue
  <2>. QED
    BY <2>1, <2>2 DEF SendsCounted
<1>8. CASE FeasableRead(i)
  <2>1. at'[i]["fulfill"] = at[i]["fulfill"] /\ txs' = txs
    BY <1>8 DEF FeasableRead
  <2>2. attempts' = attempts /\ stalls' = stalls
    BY <1>8 DEF FeasableRead
  <2>. QED
    BY <2>1, <2>2 DEF SendsCounted
<1>9. CASE FeasableDecide(i)
  <2>1. at'[i]["fulfill"] = at[i]["fulfill"] /\ txs' = txs
    BY <1>9 DEF FeasableDecide
  <2>2. attempts' = attempts /\ stalls' = stalls
    BY <1>9 DEF FeasableDecide
  <2>. QED
    BY <2>1, <2>2 DEF SendsCounted
<1>10. CASE FeasableWrite(i) BY <1>10 DEF FeasableWrite
<1>11. CASE FeasableEnqueue(i) BY <1>11 DEF FeasableEnqueue
<1>12. CASE FulfillRead(i) BY <1>12 DEF FulfillRead
<1>13. CASE FulfillPrepare(i) BY <1>13 DEF FulfillPrepare
<1>14. CASE FulfillCheck(i) BY <1>14 DEF FulfillCheck
<1>15. CASE FulfillSend(i)
  <2>1. /\ at[i]["fulfill"] = "send" /\ at'[i]["fulfill"] \in {"receipt", "write"}
        /\ UNCHANGED <<attempts, stalls>>
    BY <1>15 DEF FulfillSend
  <2>2. Len(txs'[i]) = Len(txs[i]) + 1 \/ txs' = txs
    BY <1>15, SendAppends
  <2>3. SentInThisRun("send") = 0 /\ SentInThisRun("receipt") = 1 /\ SentInThisRun("write") = 1
    OBVIOUS
  <2>. QED
    BY <2>1, <2>2, <2>3 DEF SendsCounted
<1>16. CASE FulfillReceipt(i) BY <1>16 DEF FulfillReceipt
<1>17. CASE FulfillWrite(i) BY <1>17 DEF FulfillWrite
<1>18. CASE InboxRead(i) BY <1>18, EventLoads DEF InboxRead
<1>19. CASE InboxWrite(i) BY <1>19 DEF InboxWrite
<1>. QED
  BY <1>1, <1>2, <1>3, <1>4, <1>5, <1>6, <1>7, <1>8, <1>9, <1>10, <1>11, <1>12,
     <1>13, <1>14, <1>15, <1>16, <1>17, <1>18, <1>19 DEF Handler

-----------------------------------------------------------------------------
(* The inductive invariant.                                                *)

Parts(i) ==
  InOrder(i) /\ HeldToWrite(i) /\ DocsSound(i) /\ ChainFacts(i) /\ SendsCounted(i)

Typed == QueueInv /\ DataOK

LEMMA TypedGives ==
  ASSUME Typed
  PROVE  AtOK /\ ModelOK /\ DbOK /\ DestOK /\ TxsOK /\ QueueInv
  BY DEF Typed, DataOK, QueueInv, AtOK

(* An intent nothing has happened to keeps its part.                       *)
LEMMA Frame ==
  ASSUME NEW j \in Intents, Parts(j),
         at'[j] = at[j], model'[j] = model[j], db'[j] = db[j], dest'[j] = dest[j],
         txs'[j] = txs[j], attempts'[j] = attempts[j], stalls'[j] = stalls[j]
  PROVE  Parts(j)'
  BY DEF Parts, InOrder, HeldToWrite, DocsSound, Sound, Replaced, ChainFacts, SendsCounted

(* Taking a job, reporting it and losing its worker change its place among *)
(* those where no handler is at work.                                      *)
Quiet == {"waiting", "read", "completed", "failed"}

LEMMA QuietMove ==
  ASSUME NEW i \in Intents, NEW k \in Kinds, NEW p \in Quiet, Typed, Parts(i),
         at[i][k] # "absent",
         at' = [at EXCEPT ![i][k] = p],
         model' = model \/ model' = [model EXCEPT ![i][k] = NoDoc],
         UNCHANGED <<db, dest, txs>>
  PROVE  InOrder(i)' /\ HeldToWrite(i)' /\ DocsSound(i)' /\ ChainFacts(i)'
<1>. USE TypedGives, KindNames DEF Quiet
<1>1. at'[i][k] = p /\ \A m \in Kinds \ {k} : at'[i][m] = at[i][m]
  BY DEF AtOK
<1>2. \A m \in Kinds : model'[i][m] = model[i][m] \/ (m = k /\ model'[i][m] = NoDoc)
  BY DEF ModelOK
<1>3. InOrder(i)'
  BY <1>1 DEF Parts, InOrder
<1>4. HeldToWrite(i)'
  BY <1>1, <1>2 DEF Parts, HeldToWrite
<1>5. DocsSound(i)'
  BY <1>2, NoDocFields DEF Parts, DocsSound, Sound, Replaced
<1>6. ChainFacts(i)'
  BY <1>1 DEF Parts, ChainFacts
<1>. QED
  BY <1>3, <1>4, <1>5, <1>6

LEMMA StartKeepsParts ==
  ASSUME NEW i \in Intents, NEW k \in Kinds, Typed, Parts(i), Start(i, k)
  PROVE  Parts(i)'
<1>1. at[i][k] = "waiting" /\ at' = [at EXCEPT ![i][k] = "read"]
  BY DEF Start, Goto, Moved
<1>2. UNCHANGED <<model, db, dest, txs, attempts, stalls>>
  BY DEF Start, Goto, chainVars
<1>3. SendsCounted(i)'
  <2>1. at'[i]["fulfill"] = at[i]["fulfill"]
        \/ (at[i]["fulfill"] = "waiting" /\ at'[i]["fulfill"] = "read")
    BY <1>1, TypedGives, KindNames DEF AtOK
  <2>. QED
    BY <1>2, <2>1 DEF Parts, SendsCounted, SentInThisRun
<1>. QED
  BY <1>1, <1>2, <1>3, QuietMove DEF Parts, Quiet

LEMMA BudgetOfFulfill ==
  ASSUME NEW i \in Intents, Typed, at[i]["fulfill"] # "failed"
  PROVE  /\ attempts[i]["fulfill"] < MaxAttempts
         /\ stalls[i]["fulfill"] <= MaxStalls
  BY TypedGives, KindNames DEF QueueInv, BudgetOK

LEMMA ReportKeepsParts ==
  ASSUME NEW i \in Intents, NEW k \in Kinds, Typed, Parts(i), Report(i, k)
  PROVE  Parts(i)'
<1>. USE TypedGives, KindNames
<1>1. UNCHANGED <<model, db, dest, txs, stalls>>
  BY DEF Report, Goto, chainVars
<1>2. CASE at[i][k] = "returned"
  <2>1. at' = [at EXCEPT ![i][k] = "completed"] /\ attempts' = attempts
    BY <1>2 DEF Report, Goto, Moved
  <2>2. at'[i]["fulfill"] = at[i]["fulfill"]
        \/ (at[i]["fulfill"] = "returned" /\ at'[i]["fulfill"] = "completed")
    BY <1>2, <2>1 DEF AtOK
  <2>3. SendsCounted(i)'
    BY <1>1, <2>1, <2>2 DEF Parts, SendsCounted, SentInThisRun
  <2>. QED
    BY <1>1, <1>2, <2>1, <2>3, QuietMove DEF Parts, Quiet
<1>3. CASE at[i][k] = "thrown"
  <2>. DEFINE next == IF attempts[i][k] + 1 < MaxAttempts THEN "waiting" ELSE "failed"
  <2>1. /\ at' = [at EXCEPT ![i][k] = next]
        /\ attempts' = [attempts EXCEPT ![i][k] = attempts[i][k] + 1]
    BY <1>3 DEF Report, Moved
  <2>2. next \in {"waiting", "failed"}
    OBVIOUS
  <2>. HIDE DEF next
  <2>3. CASE k = "fulfill"
    <3>1. at[i]["fulfill"] = "thrown" /\ at'[i]["fulfill"] \in {"waiting", "failed"}
      BY <1>3, <2>1, <2>2, <2>3 DEF AtOK
    <3>2. attempts'[i]["fulfill"] = attempts[i]["fulfill"] + 1
      BY <2>1, <2>3 DEF QueueInv
    <3>4. /\ Len(txs'[i]) = Len(txs[i]) /\ stalls'[i]["fulfill"] = stalls[i]["fulfill"]
          /\ SentInThisRun("thrown") = 1
      BY <1>1 DEF SentInThisRun
    <3>5. /\ attempts[i]["fulfill"] + 1 + stalls[i]["fulfill"] <= MaxSends
          /\ Len(txs[i]) <= attempts[i]["fulfill"] + 1 + stalls[i]["fulfill"]
      BY <3>1, <3>4, CountsAreNat, BudgetOfFulfill, ConstantsAssumption
      DEF Parts, SendsCounted, MaxSends
    <3>3. SendsCounted(i)'
      BY <3>1, <3>2, <3>4, <3>5, CountsAreNat DEF SendsCounted, SentInThisRun
    <3>. QED
      BY <1>1, <1>3, <2>1, <2>2, <3>3, QuietMove DEF Parts, Quiet
  <2>4. CASE k # "fulfill"
    <3>1. /\ at'[i]["fulfill"] = at[i]["fulfill"]
          /\ attempts'[i]["fulfill"] = attempts[i]["fulfill"]
      BY <2>1, <2>4 DEF AtOK, QueueInv
    <3>2. SendsCounted(i)'
      BY <1>1, <3>1 DEF Parts, SendsCounted
    <3>. QED
      BY <1>1, <1>3, <2>1, <2>2, <3>2, QuietMove DEF Parts, Quiet
  <2>. QED
    BY <2>3, <2>4
<1>. QED
  BY <1>2, <1>3 DEF Report

LEMMA CrashKeepsParts ==
  ASSUME NEW i \in Intents, NEW k \in Kinds, Typed, Parts(i), Crash(i, k)
  PROVE  Parts(i)'
<1>. USE TypedGives, KindNames
<1>. DEFINE next == IF stalls[i][k] < MaxStalls THEN "waiting" ELSE "failed"
<1>1. /\ at' = [at EXCEPT ![i][k] = next]
      /\ stalls' = [stalls EXCEPT ![i][k] = stalls[i][k] + 1]
      /\ model' = [model EXCEPT ![i][k] = NoDoc]
      /\ UNCHANGED <<db, dest, txs, attempts>>
      /\ at[i][k] \in Points
  BY DEF Crash, Moved, chainVars
<1>2. next \in {"waiting", "failed"} /\ at[i][k] \notin {"absent", "failed", "completed"}
  BY <1>1 DEF Points
<1>. HIDE DEF next
<1>3. SendsCounted(i)'
  <2>1. CASE k = "fulfill"
    <3>1. /\ at'[i]["fulfill"] \in {"waiting", "failed"}
          /\ at[i]["fulfill"] # "failed"
      BY <1>1, <1>2, <2>1 DEF AtOK
    <3>2. stalls'[i]["fulfill"] = stalls[i]["fulfill"] + 1
      BY <1>1, <2>1 DEF QueueInv
    <3>. QED
      BY <1>1, <3>1, <3>2, CountsAreNat, BudgetOfFulfill, ConstantsAssumption
      DEF Parts, SendsCounted, SentInThisRun, MaxSends
  <2>2. CASE k # "fulfill"
    <3>1. /\ at'[i]["fulfill"] = at[i]["fulfill"]
          /\ stalls'[i]["fulfill"] = stalls[i]["fulfill"]
      BY <1>1, <2>2 DEF AtOK, QueueInv
    <3>. QED
      BY <1>1, <3>1 DEF Parts, SendsCounted
  <2>. QED
    BY <2>1, <2>2
<1>. QED
  BY <1>1, <1>2, <1>3, QuietMove DEF Parts, Quiet

LEMMA LogsKeepParts ==
  ASSUME NEW i \in Intents, Typed, Parts(i), Logs(i)
  PROVE  Parts(i)'
<1>. USE TypedGives, KindNames
<1>1. UNCHANGED <<model, db, dest, txs, attempts, stalls>>
  BY DEF Logs, IntentLog, FulfillmentLog, Goto, chainVars
<1>2. \A m \in Kinds \ {"create", "fulfillment"} : at'[i][m] = at[i][m]
  BY GotoMoves DEF Logs, IntentLog, FulfillmentLog
<1>3. at'[i]["create"] \in {at[i]["create"], "waiting"}
  BY GotoMoves DEF Logs, IntentLog, FulfillmentLog
<1>4. /\ at'[i]["fulfillment"] \in {at[i]["fulfillment"], "waiting"}
      /\ at'[i]["fulfillment"] # at[i]["fulfillment"] => dest[i] # "open"
  BY GotoMoves DEF Logs, IntentLog, FulfillmentLog
<1>. QED
  BY <1>1, <1>2, <1>3, <1>4
  DEF Parts, InOrder, HeldToWrite, DocsSound, Sound, Replaced, ChainFacts, SendsCounted,
      SentInThisRun

LEMMA LostKeepsParts ==
  ASSUME NEW i \in Intents, NEW k \in Kinds, Typed, Parts(i),
         AddReplyLost(i, k) \/ WriteReplyLost(i, k)
  PROVE  Parts(i)'
<1>. USE TypedGives, KindNames, NoDocFields
<1>0. /\ (Replaced(i) => Replaced(i)')
      /\ UNCHANGED <<dest, txs, attempts, stalls>>
  BY AddLostMoves, WriteLostMoves DEF Replaced
<1>1. CASE AddReplyLost(i, k)
  BY <1>0, <1>1, AddLostMoves
  DEF Parts, InOrder, HeldToWrite, DocsSound, Sound, ChainFacts, SendsCounted, SentInThisRun
<1>2. CASE WriteReplyLost(i, k)
  <2>1. /\ at[i][k] = "write" /\ at'[i][k] = "thrown"
        /\ \A m \in Kinds \ {k} : at'[i][m] = at[i][m] /\ model'[i][m] = model[i][m]
        /\ db'[i].status = model[i][k].status
    BY <1>2, WriteLostMoves
  <2>5. HeldToWrite(i)'
    BY <2>1 DEF Parts, HeldToWrite
  <2>6. model[i][k].status \in {"INVALID", "INFEASABLE", "SOLVED", "FAILED"}
    BY <2>1 DEF Parts, HeldToWrite, Kinds, SourceKinds
  <2>11. \A m \in Kinds : at'[i][m] = at[i][m] \/ (m = k /\ at'[i][m] = "thrown")
    BY <2>1
  <2>12. at[i][k] = "write" /\ k # "create"
    BY <2>1 DEF Parts, HeldToWrite
  <2>13. at[i]["create"] # "decide"
    BY <2>12 DEF Parts, InOrder, Kinds, SourceKinds
  <2>14. InOrder(i)'
    BY <2>1, <2>6, <2>11, <2>12, <2>13 DEF Parts, InOrder
  <2>2. InOrder(i)' /\ HeldToWrite(i)'
    BY <2>5, <2>14
  <2>7. /\ db'[i].receipt = IF model[i][k].receipt = "none" THEN db[i].receipt
                            ELSE model[i][k].receipt
        /\ model'[i][k] = NoDoc
    BY <1>2, WriteLostMoves
  <2>8. Sound(db[i], i) /\ \A m \in Kinds : Sound(model[i][m], i)
    BY DEF Parts, DocsSound
  <2>9. Sound(db[i], i)'
    BY <1>0, <2>1, <2>7, <2>8 DEF Sound
  <2>10. ASSUME NEW m \in Kinds PROVE Sound(model[i][m], i)'
    BY <1>0, <2>1, <2>7, <2>8 DEF Sound
  <2>3. DocsSound(i)'
    BY <2>9, <2>10 DEF DocsSound
  <2>4. ChainFacts(i)' /\ SendsCounted(i)'
    BY <1>0, <1>2, WriteLostMoves DEF Parts, ChainFacts, SendsCounted, SentInThisRun
  <2>. QED
    BY <2>2, <2>3, <2>4 DEF Parts
<1>. QED
  BY <1>1, <1>2

LEMMA ChainKeepsParts ==
  ASSUME NEW i \in Intents, Typed, Parts(i), Chain(i)
  PROVE  Parts(i)'
<1>. USE TypedGives
<1>1. UNCHANGED <<at, attempts, stalls, model, db>>
  BY DEF Chain, TxLands, OtherSolver, queueVars
<1>2. dest[i] = "open" \/ dest'[i] = dest[i]
  BY DEF Chain, TxLands, OtherSolver
<1>3. dest'[i] \in {dest[i], "ours", "other"}
  BY DEF Chain, TxLands, OtherSolver, DestOK
<1>4. /\ Len(txs'[i]) = Len(txs[i])
      /\ \A n \in 1..Len(txs[i]) :
           /\ txs'[i][n] = "mined" => txs[i][n] = "mined" \/ dest'[i] = "ours"
           /\ txs[i][n] = "replaced" => txs'[i][n] = "replaced"
  <2>1. ASSUME NEW n \in 1..Len(txs[i]), TxLands(i, n)
        PROVE  /\ \/ txs' = [txs EXCEPT ![i][n] = "mined"] /\ dest'[i] = "ours"
                  \/ txs' = [txs EXCEPT ![i][n] = "reverted"]
                  \/ txs' = [txs EXCEPT ![i][n] = "replaced"]
               /\ txs[i][n] = "pending"
    BY <2>1 DEF TxLands, DestOK
  <2>2. CASE OtherSolver(i)
    BY <2>2 DEF OtherSolver
  <2>. QED
    BY <2>1, <2>2 DEF Chain, TxsOK
<1>5. InOrder(i)' /\ HeldToWrite(i)' /\ SendsCounted(i)'
  BY <1>1, <1>4 DEF Parts, InOrder, HeldToWrite, SendsCounted
<1>8. Replaced(i) => Replaced(i)'
  BY <1>4 DEF Replaced
<1>6. DocsSound(i)'
  BY <1>1, <1>2, <1>3, <1>8 DEF Parts, DocsSound, Sound
<1>7. ChainFacts(i)'
  BY <1>1, <1>2, <1>3, <1>4 DEF Parts, ChainFacts
<1>. QED
  BY <1>5, <1>6, <1>7 DEF Parts

LEMMA HandlerKeepsParts ==
  ASSUME NEW i \in Intents, Typed, Parts(i), Handler(i)
  PROVE  Parts(i)'
  BY TypedGives, HandlerInOrder, HandlerHeld, HandlerSound, HandlerChainFacts, HandlerCounts
  DEF Parts

(* A step about one intent ...                                             *)
Turn(i) ==
  \/ \E k \in Kinds : Start(i, k) \/ Report(i, k) \/ Crash(i, k)
  \/ \E k \in Kinds : AddReplyLost(i, k) \/ WriteReplyLost(i, k)
  \/ Handler(i) \/ Chain(i) \/ Logs(i)

LEMMA NextIsTurn == [Next]_vars => (\E i \in Intents : Turn(i)) \/ UNCHANGED vars
  BY DEF Next, Turn

(* ... leaves every other alone.                                           *)
LEMMA Elsewhere ==
  ASSUME NEW i \in Intents, NEW j \in Intents \ {i}, Typed, Turn(i)
  PROVE  /\ at'[j] = at[j] /\ model'[j] = model[j] /\ db'[j] = db[j] /\ dest'[j] = dest[j]
         /\ txs'[j] = txs[j] /\ attempts'[j] = attempts[j] /\ stalls'[j] = stalls[j]
<1>. USE TypedGives
<1>1. CASE \E k \in Kinds : Start(i, k) \/ Report(i, k) \/ Crash(i, k)
  BY <1>1 DEF Start, Report, Crash, Goto, Moved, chainVars, AtOK, ModelOK, QueueInv
<1>2. CASE Handler(i)
  BY <1>2, HandlerFrame
<1>3. CASE Chain(i)
  BY <1>3 DEF Chain, TxLands, OtherSolver, queueVars, DestOK, TxsOK
<1>4. CASE Logs(i)
  BY <1>4, GotoMoves, KindNames DEF Logs, IntentLog, FulfillmentLog, chainVars
<1>5. CASE \E k \in Kinds : AddReplyLost(i, k) \/ WriteReplyLost(i, k)
  BY <1>5, AddLostMoves, WriteLostMoves
<1>. QED
  BY <1>1, <1>2, <1>3, <1>4, <1>5 DEF Turn

LEMMA IndInvIsParts == IndInv <=> TypeInv /\ \A i \in Intents : Parts(i)
  BY DEF IndInv, TypeInv, Parts

LEMMA TypeInvIsTyped == TypeInv <=> Typed
  BY TypeInvIsParts DEF Typed

LEMMA InitParts == Init => \A i \in Intents : Parts(i)
<1>. SUFFICES ASSUME Init, NEW i \in Intents PROVE Parts(i)
  OBVIOUS
<1>1. /\ \A k \in Kinds : at[i][k] = "absent" /\ attempts[i][k] = 0 /\ stalls[i][k] = 0
      /\ db[i].status = "ABSENT" /\ db[i].receipt = "none"
      /\ \A k \in Kinds : model[i][k] = NoDoc
      /\ Len(txs[i]) = 0
  BY NoDocFields DEF Init
<1>. QED
  BY <1>1, KindNames, NoDocFields
  DEF Parts, InOrder, HeldToWrite, DocsSound, Sound, ChainFacts, SendsCounted, SentInThisRun

LEMMA NextParts ==
  ASSUME Typed, \A i \in Intents : Parts(i), [Next]_vars
  PROVE  \A i \in Intents : Parts(i)'
<1>1. ASSUME NEW i \in Intents, Turn(i)
      PROVE  \A j \in Intents : Parts(j)'
  <2>1. Parts(i)'
    BY <1>1, StartKeepsParts, ReportKeepsParts, CrashKeepsParts, LostKeepsParts,
       HandlerKeepsParts, ChainKeepsParts, LogsKeepParts DEF Turn
  <2>2. ASSUME NEW j \in Intents \ {i} PROVE Parts(j)'
    BY <1>1, Elsewhere, Frame
  <2>. QED
    BY <2>1, <2>2
<1>2. CASE UNCHANGED vars
  BY <1>2, Frame DEF vars
<1>. QED
  BY <1>1, <1>2, NextIsTurn

(* IndInv holds in every reachable state.                                  *)
THEOREM Inductive == Spec => []IndInv
<1>1. Init => IndInv
  BY InitTypeInv, InitParts, IndInvIsParts
<1>2. IndInv /\ [Next]_vars => IndInv'
  <2>. SUFFICES ASSUME TypeInv, \A i \in Intents : Parts(i), [Next]_vars
                PROVE  TypeInv' /\ \A i \in Intents : Parts(i)'
    BY IndInvIsParts DEF IndInv, TypeInv, Parts
  <2>. QED
    BY NextTypeInv, NextParts, TypeInvIsTyped
<1>. QED
  BY <1>1, <1>2, PTL DEF Spec

(* Unless one of its transactions was replaced, the record of an intent    *)
(* never claims a fulfilment that did not happen, nor a receipt that is    *)
(* not this solver's (executeFulfillIntent, updateOnFulfillment).          *)
THEOREM Truthful == Spec => []SolvedIsTruthful
<1>1. IndInv => SolvedIsTruthful
  BY DEF IndInv, DocsSound, Sound, SolvedIsTruthful
<1>. QED
  BY <1>1, Inductive, PTL

(* A verdict is stored with its cause, however the writes interleave.      *)
THEOREM Caused == Spec => []CauseRecorded
<1>1. IndInv => CauseRecorded
  BY DEF IndInv, DocsSound, Sound, CauseRecorded
<1>. QED
  BY <1>1, Inductive, PTL

(* The intent of a refused wallet is never queued for validation.          *)
THEOREM Refused == Spec => []RefusedNeverQueued
<1>1. IndInv => RefusedNeverQueued
  BY DEF IndInv, InOrder, RefusedNeverQueued
<1>. QED
  BY <1>1, Inductive, PTL

LEMMA SendRoom ==
  ASSUME NEW i \in Intents, Typed, SendsCounted(i)
  PROVE  /\ Len(txs[i]) <= MaxSends
         /\ at[i]["fulfill"] = "send" => Len(txs[i]) < MaxSends
<1>. USE TypedGives, CountsAreNat, ConstantsAssumption DEF MaxSends
<1>1. CASE at[i]["fulfill"] = "failed"
  BY <1>1 DEF SendsCounted, SentInThisRun
<1>2. CASE at[i]["fulfill"] # "failed"
  <2>1. /\ attempts[i]["fulfill"] < MaxAttempts
        /\ stalls[i]["fulfill"] <= MaxStalls
    BY <1>2, BudgetOfFulfill
  <2>2. SentInThisRun(at[i]["fulfill"]) \in 0..1
    BY DEF SentInThisRun
  <2>3. Len(txs[i]) <= attempts[i]["fulfill"] + stalls[i]["fulfill"]
                       + SentInThisRun(at[i]["fulfill"])
    BY DEF SendsCounted
  <2>4. at[i]["fulfill"] = "send" => SentInThisRun(at[i]["fulfill"]) = 0
    BY DEF SentInThisRun
  <2>. QED
    BY <2>1, <2>2, <2>3, <2>4
<1>. QED
  BY <1>1, <1>2

(* At most MaxAttempts + MaxStalls transactions are sent for an intent.    *)
THEOREM Bounded == Spec => []SendsBounded
<1>1. IndInv => SendsBounded
  BY IndInvIsParts, TypeInvIsTyped, SendRoom DEF Parts, SendsBounded
<1>. QED
  BY <1>1, Inductive, PTL
=============================================================================
