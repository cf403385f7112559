----------------------- MODULE LiquidityManagerProofs -----------------------
(***************************************************************************)
(* The inductive invariant of LiquidityManager; that no plan takes a token *)
(* below its target, nor brings a deficit twice what it lacks, nor less    *)
(* than planning aims at; and that no rebalance drains a token.            *)
(***************************************************************************)
EXTENDS LiquidityManager, Sums, TLAPS

-----------------------------------------------------------------------------
(* Jobs.                                                                   *)

(* Kinds tell the jobs apart.                                              *)
LEMMA Kinds ==
  /\ \A j \in CheckJob : j.kind = "check" /\ j \notin RebalanceJob
  /\ \A j \in RebalanceJob : j.kind = "rebalance" /\ j \notin CheckJob
  /\ NoJob \notin Job
<1>1. \A j \in CheckJob : j.kind = "check"
  BY DEF CheckJob
<1>2. \A j \in RebalanceJob : j.kind = "rebalance"
  BY DEF RebalanceJob
<1>3. NoJob.kind = "none"
  BY DEF NoJob
<1>. QED
  BY <1>1, <1>2, <1>3 DEF Job

(* The queue, and with it the variables that the handlers' steps share.    *)
QueueOK ==
  /\ queue \in Seq(Job)
  /\ \A n \in DOMAIN queue : queue[n] \in RebalanceJob => PaidSoFar(queue[n], 1)
AroundOK ==
  /\ QueueOK
  /\ balance \in [Tokens -> Nat]
  /\ cache \in [Tokens -> Nat] \cup {NoData}
  /\ checks \in 0..MaxChecks /\ spends \in 0..MaxSpends /\ deaths \in 0..MaxDeaths

LEMMA IndInvIsAround == IndInv => AroundOK
  BY DEF IndInv, TypeOK, JobsOK, AroundOK, QueueOK

(* A step that leaves the handler alone.                                   *)
LEMMA HandlerAlone ==
  ASSUME IndInv, AroundOK', UNCHANGED <<job, pc, check, index>>
  PROVE  IndInv'
<1>1. TypeOK'
  BY DEF IndInv, TypeOK, AroundOK, QueueOK, check, analysis, quoting
<1>2. JobsOK'
  BY DEF IndInv, JobsOK, AroundOK, QueueOK
<1>3. BooksOK'
  BY DEF IndInv, BooksOK, Planning, InSurplus, InDeficit, Taken, check, analysis, quoting
<1>4. QuotingOK' /\ LessThanTwice'
  BY DEF IndInv, QuotingOK, LessThanTwice, InDeficit, check, analysis, quoting
<1>. QED
  BY <1>1, <1>2, <1>3, <1>4 DEF IndInv

(* The end of a handler.                                                   *)
LEMMA HandlerDone ==
  ASSUME AroundOK', Done
  PROVE  IndInv'
<1>1. Zero \in [Tokens -> Nat]
  BY DEF Zero
<1>2. TypeOK'
  BY <1>1 DEF TypeOK, AroundOK, QueueOK, Done, Points
<1>3. JobsOK'
  BY Kinds DEF JobsOK, AroundOK, QueueOK, Done, Job
<1>4. BooksOK' /\ QuotingOK' /\ LessThanTwice'
  BY DEF Done, BooksOK, QuotingOK, LessThanTwice, Planning
<1>. QED
  BY <1>2, <1>3, <1>4 DEF IndInv

LEMMA InitOK == Init => IndInv
<1>. SUFFICES ASSUME Init PROVE IndInv
  OBVIOUS
<1>. USE LiquidityAssumption
<1>1. Zero \in [Tokens -> Nat]
  BY DEF Zero
<1>2. TypeOK
  BY <1>1 DEF Init, TypeOK, Points
<1>3. JobsOK
  BY Kinds DEF Init, JobsOK, Job
<1>4. BooksOK /\ QuotingOK /\ LessThanTwice
  BY DEF Init, BooksOK, QuotingOK, LessThanTwice, Planning
<1>. QED
  BY <1>2, <1>3, <1>4 DEF IndInv

-----------------------------------------------------------------------------
(* The queue and what goes on around the liquidity manager.                *)

LEMMA DueKeeps == ASSUME IndInv, Due PROVE IndInv'
<1>. DEFINE j == [kind |-> "check", stalls |-> 0]
<1>1. j \in CheckJob
  BY LiquidityAssumption DEF CheckJob
<1>2. queue' = Append(queue, j) /\ UNCHANGED <<data, job, pc, check, index, spends, deaths>>
      /\ checks' = checks + 1 /\ checks < MaxChecks
  BY DEF Due
<1>. HIDE DEF j
<1>3. AroundOK
  BY IndInvIsAround
<1>4. QueueOK'
  BY <1>1, <1>2, <1>3, Kinds DEF AroundOK, QueueOK, Job
<1>6. AroundOK'
  BY <1>2, <1>3, <1>4, LiquidityAssumption DEF AroundOK, data
<1>. QED
  BY <1>2, <1>6, HandlerAlone

LEMMA AroundKeeps ==
  ASSUME IndInv, (\E t \in Tokens : Spend(t)) \/ Warm \/ Expire
  PROVE  IndInv'
<1>1. AroundOK
  BY IndInvIsAround
<1>2. AroundOK' /\ UNCHANGED <<job, pc, check, index>>
  <2>1. ASSUME NEW t \in Tokens, Spend(t)
        PROVE  AroundOK' /\ UNCHANGED <<job, pc, check, index>>
    <3>1. QueueOK'
      BY <1>1, <2>1 DEF AroundOK, QueueOK, Spend
    <3>2. balance' \in [Tokens -> Nat]
      <4>1. PICK b \in {0, Target[t]} : balance' = [balance EXCEPT ![t] = b]
        BY <2>1 DEF Spend
      <4>2. b \in Nat
        BY LiquidityAssumption
      <4>. QED
        BY <1>1, <4>1, <4>2 DEF AroundOK
    <3>3. spends' \in 0..MaxSpends /\ UNCHANGED <<cache, queue, job, pc, check, index,
                                                  checks, deaths>>
      BY <1>1, <2>1, LiquidityAssumption DEF AroundOK, Spend
    <3>. QED
      BY <1>1, <3>1, <3>2, <3>3 DEF AroundOK
  <2>2. CASE Warm
    <3>1. QueueOK'
      BY <1>1, <2>2 DEF AroundOK, QueueOK, Warm
    <3>. QED
      BY <1>1, <2>2, <3>1 DEF AroundOK, Warm, bounds
  <2>3. CASE Expire
    <3>1. QueueOK'
      BY <1>1, <2>3 DEF AroundOK, QueueOK, Expire
    <3>. QED
      BY <1>1, <2>3, <3>1 DEF AroundOK, Expire, bounds
  <2>. QED
    BY <2>1, <2>2, <2>3
<1>. QED
  BY <1>2, HandlerAlone

LEMMA TakeKeeps == ASSUME IndInv, Take PROVE IndInv'
<1>. DEFINE j == Head(queue)
<1>1. AroundOK
  BY IndInvIsAround
<1>2. pc = "idle" /\ index = 1 /\ drawn = Zero
  BY Kinds DEF IndInv, TypeOK, JobsOK, BooksOK, Planning, Take, Points, Job
<1>3. j \in Job /\ (j \in RebalanceJob => PaidSoFar(j, 1))
  BY <1>1 DEF AroundOK, QueueOK, Take
<1>4. /\ job' = j /\ queue' = Tail(queue) /\ queue # <<>>
      /\ pc' = IF j.kind = "check" THEN "analyze" ELSE "execute"
      /\ UNCHANGED <<data, check, index, bounds>>
  BY DEF Take
<1>. HIDE DEF j
<1>9. QueueOK'
  BY <1>1, <1>4 DEF AroundOK, QueueOK
<1>5. AroundOK'
  BY <1>1, <1>4, <1>9 DEF AroundOK, data, bounds
<1>6. TypeOK'
  BY <1>3, <1>4, <1>5
  DEF IndInv, TypeOK, AroundOK, QueueOK, check, analysis, quoting, Points
<1>7. JobsOK'
  BY <1>2, <1>3, <1>4, <1>9, Kinds DEF JobsOK, QueueOK, Job
<1>8. BooksOK' /\ QuotingOK' /\ LessThanTwice'
  BY <1>2, <1>4 DEF BooksOK, QuotingOK, LessThanTwice, Planning, check, quoting
<1>. QED
  BY <1>6, <1>7, <1>8 DEF IndInv

(* A stalled job keeps its count of executions within its lives.           *)
LEMMA StalledJob ==
  ASSUME IndInv, job # NoJob, job.stalls < MaxStalls,
         NEW j, j = [job EXCEPT !.stalls = @ + 1]
  PROVE  j \in Job /\ (j \in RebalanceJob => PaidSoFar(j, 1))
<1>. USE LiquidityAssumption
<1>1. CASE job \in CheckJob
  <2>1. j \in CheckJob
    BY <1>1 DEF CheckJob
  <2>. QED
    BY <2>1, Kinds DEF Job
<1>2. CASE job \in RebalanceJob
  <2>0. /\ job.kind = "rebalance" /\ job.stalls \in Nat /\ job.rebalance \in Rebalance
        /\ job.paid \in Seq(Nat)
    BY <1>2 DEF RebalanceJob
  <2>2. j = [kind |-> "rebalance", stalls |-> job.stalls + 1,
             rebalance |-> job.rebalance, paid |-> job.paid]
    BY <1>2, <2>0 DEF RebalanceJob
  <2>8. job.stalls + 1 \in 0..MaxStalls
    BY <2>0
  <2>1. j \in RebalanceJob
    BY <2>0, <2>2, <2>8 DEF RebalanceJob
  <2>3. PaidSoFar(job, index) /\ index \in Nat
    BY <1>2 DEF IndInv, JobsOK, TypeOK
  <2>4. \A n \in DOMAIN job.paid : n \in Nat /\ job.paid[n] \in Nat
    BY <2>0
  <2>5. j.paid = job.paid /\ j.rebalance = job.rebalance /\ j.stalls = job.stalls + 1
    BY <2>2
  <2>6. ASSUME NEW n \in DOMAIN job.paid
        PROVE  job.paid[n] <= job.stalls + 1 + (IF n < 1 THEN 1 ELSE 0)
    <3>1. job.paid[n] <= job.stalls + (IF n < index THEN 1 ELSE 0)
      BY <2>3 DEF PaidSoFar
    <3>. QED
      BY <2>0, <2>4, <3>1
  <2>7. PaidSoFar(j, 1)
    BY <2>3, <2>5, <2>6 DEF PaidSoFar
  <2>. QED
    BY <2>1, <2>7 DEF Job
<1>. QED
  BY <1>1, <1>2 DEF IndInv, TypeOK, Job

LEMMA DieKeeps == ASSUME IndInv, Die PROVE IndInv'
<1>1. AroundOK
  BY IndInvIsAround
<1>2. QueueOK'
  <2>1. CASE job # NoJob /\ job.stalls < MaxStalls
    <3>. DEFINE j == [job EXCEPT !.stalls = @ + 1]
    <3>1. j \in Job /\ (j \in RebalanceJob => PaidSoFar(j, 1))
      BY <2>1, StalledJob
    <3>2. queue' = <<j>> \o queue
      BY <2>1 DEF Die
    <3>. HIDE DEF j
    <3>. QED
      BY <1>1, <3>1, <3>2 DEF AroundOK, QueueOK
  <2>2. CASE ~(job # NoJob /\ job.stalls < MaxStalls)
    BY <1>1, <2>2 DEF AroundOK, QueueOK, Die
  <2>. QED
    BY <2>1, <2>2
<1>3. AroundOK'
  BY <1>1, <1>2, LiquidityAssumption DEF AroundOK, Die
<1>. QED
  BY <1>3, HandlerDone DEF Die

-----------------------------------------------------------------------------
(* The handler of a check.                                                 *)

LEMMA AroundAlone ==
  ASSUME AroundOK, UNCHANGED <<balance, cache, queue, bounds>>
  PROVE  AroundOK'
<1>1. QueueOK'
  BY DEF AroundOK, QueueOK
<1>. QED
  BY <1>1 DEF AroundOK, bounds

LEMMA AnalyzeKeeps == ASSUME IndInv, Analyze PROVE IndInv'
<1>1. AroundOK /\ (cache # NoData => cache \in [Tokens -> Nat])
  BY IndInvIsAround DEF AroundOK
<1>2. CASE Done /\ UNCHANGED cache
  <2>1. AroundOK'
    BY <1>1, <1>2, AroundAlone DEF Analyze
  <2>. QED
    BY <1>2, <2>1, HandlerDone
<1>3. CASE /\ cache' = IF cache = NoData THEN balance ELSE cache
           /\ seen' = cache' /\ working' = cache'
           /\ surplus' = {t \in Tokens : InSurplus(cache', t)}
           /\ deficits' = {t \in Tokens : InDeficit(cache', t)}
           /\ pc' = "next"
           /\ UNCHANGED <<job, quoting, plan, index>>
  <2>1. cache' \in [Tokens -> Nat]
    BY <1>1, <1>3 DEF AroundOK
  <2>2. QueueOK'
    BY <1>1 DEF AroundOK, QueueOK, Analyze
  <2>3. AroundOK'
    BY <1>1, <2>1, <2>2 DEF AroundOK, Analyze, bounds
  <2>4. pc = "analyze" /\ drawn = Zero /\ job \in CheckJob /\ index = 1
    BY DEF IndInv, BooksOK, JobsOK, Planning, Analyze
  <2>5. TypeOK'
    BY <1>3, <2>1, <2>3 DEF IndInv, TypeOK, AroundOK, QueueOK, quoting, Points
  <2>6. JobsOK'
    BY <1>3, <2>2, <2>4, Kinds DEF JobsOK, QueueOK
  <2>7. BooksOK'
    BY <1>3, <2>1, <2>4 DEF BooksOK, Planning, InSurplus, InDeficit, quoting, Zero
  <2>8. QuotingOK' /\ LessThanTwice'
    BY <1>3 DEF QuotingOK, LessThanTwice
  <2>. QED
    BY <2>5, <2>6, <2>7, <2>8 DEF IndInv
<1>. QED
  BY <1>2, <1>3 DEF Analyze

(* What is left of a token in deficit is what the check saw.               *)
LEMMA NotDrawn ==
  ASSUME IndInv, Planning, NEW t \in Tokens, InDeficit(seen, t)
  PROVE  t \notin surplus /\ drawn[t] = 0
<1>1. t \notin surplus
  BY LiquidityAssumption DEF IndInv, BooksOK, InSurplus, InDeficit
<1>. QED
  BY <1>1 DEF IndInv, BooksOK, TypeOK

LEMMA NextDeficitKeeps ==
  ASSUME IndInv, NEW d \in Tokens, NextDeficit(d)
  PROVE  IndInv'
<1>1. AroundOK' /\ QueueOK'
  <2>1. AroundOK'
    BY IndInvIsAround, AroundAlone DEF NextDeficit, data
  <2>. QED
    BY <2>1 DEF AroundOK
<1>2. /\ pc = "next" /\ Planning /\ pc' \in {"quote", "store"}
      /\ deficits' \subseteq deficits /\ deficit' = d /\ d \in deficits
      /\ todo' \subseteq surplus /\ todo' \subseteq Tokens
      /\ current' = working[d] /\ quotes' = <<>>
      /\ UNCHANGED <<job, seen, working, surplus, plan, drawn, index>>
  BY DEF IndInv, TypeOK, NextDeficit, Planning, Largest, Pool, SameChain
<1>3. InDeficit(seen, d)
  BY <1>2 DEF IndInv, BooksOK
<1>4. working[d] = seen[d] /\ seen[d] \in Nat
  <2>1. drawn[d] = 0
    BY <1>2, <1>3, NotDrawn
  <2>. QED
    BY <1>2, <2>1 DEF IndInv, BooksOK
<1>5. TypeOK'
  <2>1. current' \in Nat /\ quotes' \in Seq(Quote) /\ deficit' \in Tokens
    BY <1>2, <1>4
  <2>2. pc' \in Points /\ deficits' \subseteq Tokens
    BY <1>2 DEF IndInv, TypeOK, Points
  <2>. QED
    BY <1>1, <1>2, <2>1, <2>2 DEF IndInv, TypeOK, AroundOK, QueueOK
<1>6. JobsOK'
  BY <1>1, <1>2, Kinds DEF IndInv, JobsOK, QueueOK
<1>7. BooksOK'
  BY <1>2 DEF IndInv, BooksOK, Planning, Taken, InSurplus, InDeficit
<1>8. QuotingOK' /\ LessThanTwice'
  BY <1>2, <1>3, <1>4, LiquidityAssumption DEF QuotingOK, LessThanTwice, InDeficit
<1>. QED
  BY <1>5, <1>6, <1>7, <1>8 DEF IndInv

LEMMA NoMoreDeficitsKeeps == ASSUME IndInv, NoMoreDeficits PROVE IndInv'
<1>1. AroundOK'
  BY IndInvIsAround, AroundAlone DEF NoMoreDeficits, data
<1>2. CASE Done
  BY <1>1, <1>2, HandlerDone
<1>3. CASE pc' = "start" /\ UNCHANGED <<job, check, index>>
  <2>1. pc = "next"
    BY DEF NoMoreDeficits
  <2>2. TypeOK'
    BY <1>1, <1>3 DEF IndInv, TypeOK, AroundOK, QueueOK, check, analysis, quoting, Points
  <2>3. JobsOK'
    BY <1>1, <1>3, <2>1, Kinds DEF IndInv, JobsOK, AroundOK, QueueOK
  <2>4. BooksOK'
    BY <1>3, <2>1
    DEF IndInv, BooksOK, Planning, InSurplus, InDeficit, check, analysis, quoting
  <2>5. QuotingOK' /\ LessThanTwice'
    BY <1>3 DEF QuotingOK, LessThanTwice
  <2>. QED
    BY <2>2, <2>3, <2>4, <2>5 DEF IndInv
<1>. QED
  BY <1>2, <1>3 DEF NoMoreDeficits

(* A quote from a token not yet asked takes the amount it takes.           *)
LEMMA TakenAppend ==
  ASSUME NEW qs \in Seq(Quote), NEW q \in Quote,
         \A n \in DOMAIN qs : qs[n].in # q.in,
         \A m, n \in DOMAIN qs : qs[m].in = qs[n].in => m = n
  PROVE  /\ \A t \in Tokens : Taken(Append(qs, q), t) =
                             IF t = q.in THEN q.amount ELSE Taken(qs, t)
         /\ Taken(qs, q.in) = 0
<1>. DEFINE ps == Append(qs, q)
<1>1. /\ ps \in Seq(Quote) /\ DOMAIN ps = DOMAIN qs \cup {Len(qs) + 1}
      /\ \A n \in DOMAIN qs : ps[n] = qs[n] /\ n # Len(qs) + 1
      /\ ps[Len(qs) + 1] = q
  OBVIOUS
<1>. HIDE DEF ps
<1>2. Taken(qs, q.in) = 0
  BY DEF Taken
<1>3. ASSUME NEW t \in Tokens
      PROVE  Taken(ps, t) = IF t = q.in THEN q.amount ELSE Taken(qs, t)
  <2>1. CASE t = q.in
    <3>1. \A n \in DOMAIN ps : ps[n].in = t <=> n = Len(qs) + 1
      BY <1>1, <2>1
    <3>2. (CHOOSE n \in DOMAIN ps : ps[n].in = t) = Len(qs) + 1
      BY <1>1, <3>1
    <3>. QED
      BY <1>1, <2>1, <3>1, <3>2 DEF Taken
  <2>2. CASE t # q.in /\ \E n \in DOMAIN qs : qs[n].in = t
    <3>1. PICK k \in DOMAIN qs : qs[k].in = t
      BY <2>2
    <3>2. \A n \in DOMAIN ps : ps[n].in = t <=> n = k
      BY <1>1, <2>2, <3>1
    <3>3. \A n \in DOMAIN qs : qs[n].in = t <=> n = k
      BY <3>1
    <3>4. (CHOOSE n \in DOMAIN ps : ps[n].in = t) = k
      BY <1>1, <3>1, <3>2
    <3>5. (CHOOSE n \in DOMAIN qs : qs[n].in = t) = k
      BY <3>1, <3>3
    <3>6. Taken(ps, t) = ps[k].amount
      BY <1>1, <3>1, <3>2, <3>4 DEF Taken
    <3>7. Taken(qs, t) = qs[k].amount
      BY <3>1, <3>5 DEF Taken
    <3>. QED
      BY <1>1, <2>2, <3>6, <3>7
  <2>3. CASE t # q.in /\ ~\E n \in DOMAIN qs : qs[n].in = t
    BY <1>1, <2>3 DEF Taken
  <2>. QED
    BY <2>1, <2>2, <2>3
<1>. QED
  BY <1>2, <1>3 DEF ps

(* What may still be asked of a token.                                     *)
LEMMA WhatIsLeft ==
  ASSUME IndInv, pc = "quote", NEW s \in todo
  PROVE  /\ s \in Tokens /\ deficit \in Tokens /\ s # deficit /\ s \in surplus
         /\ seen \in [Tokens -> Nat] /\ working \in [Tokens -> Nat]
         /\ drawn \in [Tokens -> Nat]
         /\ Taken(quotes, s) = 0 /\ Taken(quotes, deficit) = 0
         /\ drawn[deficit] = 0
         /\ Diff(working, s) = seen[s] - drawn[s] - Target[s]
         /\ Diff(working, deficit) = Target[deficit] - seen[deficit]
         /\ Diff(working, deficit) \in Nat /\ Diff(working, s) \in Nat
<1>1. /\ s \in Tokens /\ s \in surplus /\ deficit \in Tokens /\ InDeficit(seen, deficit)
      /\ seen \in [Tokens -> Nat] /\ working \in [Tokens -> Nat] /\ drawn \in [Tokens -> Nat]
      /\ InSurplus(seen, s)
  BY DEF IndInv, TypeOK, BooksOK, QuotingOK, Planning
<1>2. deficit \notin surplus /\ drawn[deficit] = 0
  BY <1>1, NotDrawn DEF Planning
<1>3. Taken(quotes, s) = 0 /\ Taken(quotes, deficit) = 0
  BY <1>1, <1>2 DEF IndInv, QuotingOK, Taken
<1>4. working[s] = seen[s] - drawn[s] /\ working[deficit] = seen[deficit]
  BY <1>1, <1>2, <1>3 DEF IndInv, BooksOK, Planning
<1>5. drawn[s] > 0 => drawn[s] <= seen[s] - Target[s]
  BY <1>1 DEF IndInv, BooksOK, Planning
<1>6. working[s] >= Target[s]
  BY <1>1, <1>4, <1>5, LiquidityAssumption DEF InSurplus
<1>7. Diff(working, s) = seen[s] - drawn[s] - Target[s] /\ Diff(working, s) \in Nat
  BY <1>1, <1>4, <1>6, LiquidityAssumption DEF Diff
<1>8. Diff(working, deficit) = Target[deficit] - seen[deficit] /\ Diff(working, deficit) \in Nat
  BY <1>1, <1>4, LiquidityAssumption DEF Diff, InDeficit
<1>. QED
  BY <1>1, <1>2, <1>3, <1>7, <1>8

LEMMA GetQuoteKeeps ==
  ASSUME IndInv, NEW s \in Tokens, GetQuote(s)
  PROVE  IndInv'
<1>1. AroundOK' /\ QueueOK'
  <2>1. AroundOK'
    BY IndInvIsAround, AroundAlone DEF GetQuote, data
  <2>. QED
    BY <2>1 DEF AroundOK
<1>2. CASE Done
  BY <1>1, <1>2, HandlerDone
<1>3. ASSUME NEW gives \in
               (SwapAmount(s) - Least(MaxLoss, SwapAmount(s)))..SwapAmount(s),
             NEW q, q = [in |-> s, amount |-> SwapAmount(s), gives |-> gives],
             NEW last \in BOOLEAN, last = (Covered(current + gives) \/ todo = {s}),
             quotes' = Append(quotes, q),
             current' = current + gives,
             todo' = todo \ {s},
             drawn' = [drawn EXCEPT ![s] = @ + SwapAmount(s)],
             working' = IF last THEN UpdateGroupBalances(quotes') ELSE working,
             pc' = IF last THEN "store" ELSE "quote",
             UNCHANGED <<job, seen, surplus, deficits, deficit, plan, index>>
      PROVE  IndInv'
  <2>. DEFINE amount == SwapAmount(s)
  <2>1. pc = "quote" /\ s \in todo /\ Planning
    BY DEF GetQuote, Largest, Planning
  <2>2. /\ s \in surplus /\ deficit \in Tokens /\ s # deficit
        /\ seen \in [Tokens -> Nat] /\ working \in [Tokens -> Nat]
        /\ drawn \in [Tokens -> Nat]
        /\ Taken(quotes, deficit) = 0 /\ Taken(quotes, s) = 0 /\ drawn[deficit] = 0
        /\ Diff(working, s) = seen[s] - drawn[s] - Target[s] /\ Diff(working, s) \in Nat
        /\ Diff(working, deficit) = Target[deficit] - seen[deficit]
        /\ Diff(working, deficit) \in Nat
    BY <2>1, WhatIsLeft
  <2>3. /\ amount \in Nat /\ amount <= seen[s] - drawn[s] - Target[s]
        /\ amount <= Target[deficit] - seen[deficit]
    BY <2>2 DEF SwapAmount, Least
  <2>4. gives \in Nat /\ gives <= amount
    BY <2>3, <1>3, LiquidityAssumption DEF Least
  <2>. HIDE DEF amount
  <2>5. q \in Quote /\ q.in = s /\ q.amount = amount
    BY <1>3, <2>3, <2>4 DEF Quote, amount
  <2>6. /\ quotes \in Seq(Quote) /\ current \in Nat /\ current < Target[deficit]
        /\ todo \subseteq surplus /\ todo \subseteq Tokens /\ surplus \subseteq Tokens
        /\ \A n \in DOMAIN quotes : quotes[n].in \in surplus \ todo
        /\ \A m, n \in DOMAIN quotes : quotes[m].in = quotes[n].in => m = n
        /\ InDeficit(seen, deficit)
    BY <2>1 DEF IndInv, TypeOK, QuotingOK
  <2>7. \A t \in Tokens : Taken(quotes', t) = IF t = s THEN amount ELSE Taken(quotes, t)
    BY <1>3, <2>1, <2>5, <2>6, TakenAppend
  <2>8. drawn' \in [Tokens -> Nat]
        /\ \A t \in Tokens : drawn'[t] = IF t = s THEN drawn[s] + amount ELSE drawn[t]
    BY <1>3, <2>2, <2>3 DEF amount
  <2>9. \A t \in Tokens : working[t] - Taken(quotes, t) = seen[t] - drawn[t]
    BY <2>1 DEF IndInv, BooksOK
  <2>10. \A t \in Tokens : Taken(quotes, t) \in Nat
    <3>1. ASSUME NEW t \in Tokens, NEW k \in DOMAIN quotes, quotes[k].in = t
          PROVE  Taken(quotes, t) \in Nat
      <4>. DEFINE c == CHOOSE n \in DOMAIN quotes : quotes[n].in = t
      <4>1. c \in DOMAIN quotes
        BY <3>1
      <4>. HIDE DEF c
      <4>2. quotes[c].amount \in Nat
        <5>1. quotes[c] \in Quote
          BY <2>6, <4>1
        <5>. QED
          BY <5>1 DEF Quote
      <4>. QED
        BY <3>1, <4>2 DEF Taken, c
    <3>. QED
      BY <3>1 DEF Taken
  <2>11. \A t \in Tokens : drawn'[t] > 0 => t \in surplus /\ drawn'[t] <= seen[t] - Target[t]
    <3>1. \A t \in Tokens : drawn[t] > 0 => t \in surplus /\ drawn[t] <= seen[t] - Target[t]
      BY <2>1 DEF IndInv, BooksOK
    <3>2. Target[s] \in Nat
      BY LiquidityAssumption
    <3>. QED
      BY <2>2, <2>3, <2>8, <3>1, <3>2
  <2>12. /\ working' \in [Tokens -> Nat]
         /\ \A t \in Tokens :
              working'[t] - (IF pc' = "quote" THEN Taken(quotes', t) ELSE 0)
                = seen[t] - drawn'[t]
    <3>1. ASSUME NEW t \in Tokens
          PROVE  working[t] - Taken(quotes', t) = seen[t] - drawn'[t]
      <4>1. working[t] \in Nat /\ seen[t] \in Nat /\ drawn[t] \in Nat /\ amount \in Nat
            /\ Taken(quotes, t) \in Nat
        BY <2>2, <2>3, <2>10
      <4>2. working[t] - Taken(quotes, t) = seen[t] - drawn[t]
        BY <2>9
      <4>3. CASE t = s
        BY <2>2, <2>7, <2>8, <4>1, <4>2, <4>3
      <4>4. CASE t # s
        BY <2>7, <2>8, <4>1, <4>2, <4>4
      <4>. QED
        BY <4>3, <4>4
    <3>2. ASSUME NEW t \in Tokens
          PROVE  seen[t] - drawn'[t] \in Nat
      <4>1. seen[t] \in Nat /\ drawn'[t] \in Nat /\ Target[t] \in Nat
        BY <2>2, <2>8, LiquidityAssumption
      <4>2. drawn'[t] > 0 => drawn'[t] <= seen[t] - Target[t]
        BY <2>11
      <4>. QED
        BY <4>1, <4>2
    <3>3. CASE last
      BY <1>3, <3>1, <3>2, <3>3 DEF UpdateGroupBalances
    <3>4. CASE ~last
      BY <1>3, <2>2, <3>1, <3>4
    <3>. QED
      BY <3>3, <3>4
  <2>13. TypeOK'
    <3>1. quotes' \in Seq(Quote) /\ current' \in Nat /\ todo' \subseteq Tokens
          /\ pc' \in Points
      BY <1>3, <2>4, <2>5, <2>6 DEF Points
    <3>. QED
      BY <1>1, <1>3, <2>8, <2>12, <3>1 DEF IndInv, TypeOK, AroundOK, QueueOK
  <2>14. JobsOK'
    BY <1>1, <1>3, <2>1, Kinds DEF IndInv, JobsOK, QueueOK
  <2>15. BooksOK'
    BY <1>3, <2>1, <2>2, <2>11, <2>12 DEF IndInv, BooksOK, Planning, InSurplus, InDeficit
  <2>16. QuotingOK'
    <3>1. deficit' \in Tokens /\ InDeficit(seen, deficit)'
      BY <1>3, <2>2, <2>6 DEF InDeficit
    <3>2. todo' \subseteq surplus'
      BY <1>3, <2>6
    <3>3. ASSUME ~last PROVE current' < Target[deficit']
      <4>1. current' = current + gives /\ deficit' = deficit /\ ~Covered(current + gives)
        BY <1>3, <3>3
      <4>2. current + gives \in Nat /\ Enough[deficit] \in Nat /\ Target[deficit] \in Nat
            /\ Enough[deficit] <= Target[deficit]
        BY <2>2, <2>4, <2>6, LiquidityAssumption
      <4>. QED
        BY <4>1, <4>2 DEF Covered
    <3>4. /\ DOMAIN quotes' = DOMAIN quotes \cup {Len(quotes) + 1}
          /\ \A n \in DOMAIN quotes : quotes'[n] = quotes[n]
          /\ quotes'[Len(quotes) + 1] = q
      BY <1>3, <2>5, <2>6
    <3>5. \A n \in DOMAIN quotes' : quotes'[n].in \in surplus' \ todo'
      BY <1>3, <2>1, <2>2, <2>5, <2>6, <3>4
    <3>6. \A m, n \in DOMAIN quotes' : quotes'[m].in = quotes'[n].in => m = n
      BY <2>1, <2>5, <2>6, <3>4
    <3>. QED
      BY <1>3, <3>1, <3>2, <3>3, <3>5, <3>6 DEF QuotingOK
  <2>17. LessThanTwice'
    <3>1. seen[deficit] \in Nat /\ Target[deficit] \in Nat
      BY <2>2, LiquidityAssumption
    <3>2. (current + gives) - seen[deficit] < 2 * (Target[deficit] - seen[deficit])
      BY <2>3, <2>4, <2>6, <3>1
    <3>3. current' = current + gives /\ deficit' = deficit /\ seen' = seen
      BY <1>3
    <3>4. current' - seen'[deficit'] < 2 * (Target[deficit'] - seen'[deficit'])
      BY <3>2, <3>3
    <3>. QED
      BY <3>4 DEF LessThanTwice
  <2>. QED
    BY <2>13, <2>14, <2>15, <2>16, <2>17 DEF IndInv
<1>. QED
  <2>1. CASE Done
    BY <1>2, <2>1
  <2>2. CASE ~Done
    <3>1. PICK gives \in (SwapAmount(s) - Least(MaxLoss, SwapAmount(s)))..SwapAmount(s) :
            LET q == [in |-> s, amount |-> SwapAmount(s), gives |-> gives]
                last == Covered(current + gives) \/ todo = {s}
            IN /\ SwapAmount(s) > 0
               /\ quotes' = Append(quotes, q)
               /\ current' = current + gives
               /\ todo' = todo \ {s}
               /\ drawn' = [drawn EXCEPT ![s] = @ + SwapAmount(s)]
               /\ working' = IF last THEN UpdateGroupBalances(quotes') ELSE working
               /\ pc' = IF last THEN "store" ELSE "quote"
               /\ UNCHANGED <<job, seen, surplus, deficits, deficit, plan, index>>
      BY <2>2 DEF GetQuote
    <3>. QED
      BY <1>3, <3>1
  <2>. QED
    BY <2>1, <2>2

LEMMA StoreKeeps == ASSUME IndInv, Store PROVE IndInv'
<1>1. AroundOK' /\ QueueOK'
  <2>1. AroundOK'
    BY IndInvIsAround, AroundAlone DEF Store, data
  <2>. QED
    BY <2>1 DEF AroundOK
<1>2. CASE Done
  BY <1>1, <1>2, HandlerDone
<1>3. CASE /\ plan' = Append(plan, [token |-> deficit, quotes |-> quotes])
           /\ pc' = "next"
           /\ UNCHANGED <<job, analysis, quoting, index>>
  <2>1. pc = "store" /\ deficit \in Tokens
    BY DEF Store, IndInv, QuotingOK
  <2>2. TypeOK'
    <3>1. plan' \in Seq(Rebalance)
      BY <1>3, <2>1 DEF IndInv, TypeOK, Rebalance
    <3>. QED
      BY <1>1, <1>3, <3>1 DEF IndInv, TypeOK, AroundOK, QueueOK, analysis, quoting, Points
  <2>3. JobsOK'
    BY <1>1, <1>3, <2>1, Kinds DEF IndInv, JobsOK, QueueOK
  <2>4. BooksOK'
    BY <1>3, <2>1
    DEF IndInv, BooksOK, Planning, InSurplus, InDeficit, analysis, quoting
  <2>5. QuotingOK' /\ LessThanTwice'
    BY <1>3 DEF QuotingOK, LessThanTwice
  <2>. QED
    BY <2>2, <2>3, <2>4, <2>5 DEF IndInv
<1>. QED
  BY <1>2, <1>3 DEF Store

LEMMA StartRebalancingKeeps == ASSUME IndInv, StartRebalancing PROVE IndInv'
<1>1. AroundOK
  BY IndInvIsAround
<1>2. QueueOK'
  <2>1. CASE UNCHANGED queue
    BY <1>1, <2>1 DEF AroundOK, QueueOK
  <2>2. CASE queue' = queue \o [n \in DOMAIN plan |->
                       [kind |-> "rebalance", stalls |-> 0, rebalance |-> plan[n],
                        paid |-> [m \in DOMAIN plan[n].quotes |-> 0]]]
    <3>. DEFINE new(n) == [kind |-> "rebalance", stalls |-> 0, rebalance |-> plan[n],
                           paid |-> [m \in DOMAIN plan[n].quotes |-> 0]]
                jobs == [n \in DOMAIN plan |-> new(n)]
    <3>1. ASSUME NEW n \in DOMAIN plan
          PROVE  new(n) \in RebalanceJob /\ PaidSoFar(new(n), 1)
      <4>1. plan[n] \in Rebalance
        BY DEF IndInv, TypeOK
      <4>2. plan[n].quotes \in Seq(Quote)
        BY <4>1 DEF Rebalance
      <4>3. [m \in DOMAIN plan[n].quotes |-> 0] \in Seq(Nat)
        <5>1. DOMAIN plan[n].quotes = 1..Len(plan[n].quotes) /\ Len(plan[n].quotes) \in Nat
          BY <4>2
        <5>. QED
          BY <5>1
      <4>4. new(n) \in RebalanceJob
        BY <4>1, <4>3, LiquidityAssumption DEF RebalanceJob
      <4>5. PaidSoFar(new(n), 1)
        BY DEF PaidSoFar
      <4>. QED
        BY <4>4, <4>5
    <3>2. queue' = queue \o jobs
      BY <2>2
    <3>. HIDE DEF new
    <3>3. plan \in Seq(Rebalance)
      BY DEF IndInv, TypeOK
    <3>4. /\ jobs \in Seq(Job) /\ DOMAIN jobs = DOMAIN plan
          /\ \A n \in DOMAIN jobs : PaidSoFar(jobs[n], 1)
      BY <3>1, <3>3 DEF Job
    <3>. HIDE DEF jobs
    <3>. QED
      BY <1>1, <3>2, <3>4 DEF AroundOK, QueueOK
  <2>. QED
    BY <2>1, <2>2 DEF StartRebalancing
<1>3. AroundOK'
  BY <1>1, <1>2 DEF AroundOK, StartRebalancing, data, bounds
<1>. QED
  BY <1>3, HandlerDone DEF StartRebalancing

-----------------------------------------------------------------------------
(* The handler of a rebalance.                                             *)

(* Tokens that moved leave no balance below nothing.                       *)
LEMMA MoveKeeps ==
  ASSUME AroundOK, job \in RebalanceJob, index \in Nat,
         index \in DOMAIN job.rebalance.quotes, Move
  PROVE  balance' \in [Tokens -> Nat]
<1>1. ToExecute \in Quote /\ job.rebalance.token \in Tokens
  BY DEF RebalanceJob, Rebalance, ToExecute
<1>2. ToExecute.in \in Tokens /\ ToExecute.amount \in Nat /\ ToExecute.gives \in Nat
  BY <1>1 DEF Quote
<1>3. balance \in [Tokens -> Nat]
  BY DEF AroundOK
<1>4. balance[ToExecute.in] >= ToExecute.amount
  BY DEF Move
<1>5. ASSUME NEW t \in Tokens
      PROVE  balance[t] - (IF t = ToExecute.in THEN ToExecute.amount ELSE 0)
               + (IF t = job.rebalance.token THEN ToExecute.gives ELSE 0) \in Nat
  <2>1. balance[t] - (IF t = ToExecute.in THEN ToExecute.amount ELSE 0) \in Nat
    BY <1>2, <1>3, <1>4
  <2>. QED
    BY <1>2, <2>1
<1>. QED
  BY <1>5 DEF Move

LEMMA ExecuteKeeps == ASSUME IndInv, Execute PROVE IndInv'
<1>1. AroundOK
  BY IndInvIsAround
<1>2. QueueOK'
  BY <1>1 DEF AroundOK, QueueOK, Execute
<1>3. /\ pc = "execute" /\ job \in RebalanceJob /\ PaidSoFar(job, index) /\ index \in Nat \ {0}
      /\ index <= Len(job.rebalance.quotes) /\ drawn = Zero
      /\ UNCHANGED <<cache, queue, bounds>>
  BY DEF IndInv, TypeOK, JobsOK, BooksOK, Planning, Execute
<1>4. job.kind = "rebalance" /\ job.rebalance.quotes \in Seq(Quote) /\ job.paid \in Seq(Nat)
      /\ job.rebalance \in Rebalance /\ job.stalls \in 0..MaxStalls
  BY <1>3 DEF RebalanceJob, Rebalance
<1>5. CASE Done /\ UNCHANGED balance
  <2>1. AroundOK'
    BY <1>1, <1>2, <1>3, <1>5 DEF AroundOK, bounds
  <2>. QED
    BY <1>5, <2>1, HandlerDone
<1>6. index \in DOMAIN job.rebalance.quotes /\ index \in DOMAIN job.paid
  BY <1>3, <1>4 DEF PaidSoFar
<1>7. CASE Move /\ Done
  <2>1. balance' \in [Tokens -> Nat]
    BY <1>1, <1>3, <1>6, <1>7, MoveKeeps
  <2>2. AroundOK'
    BY <1>1, <1>2, <1>3, <2>1 DEF AroundOK, bounds
  <2>. QED
    BY <1>7, <2>2, HandlerDone
<1>8. CASE /\ Move
           /\ job' = [job EXCEPT !.paid[index] = @ + 1]
           /\ index' = index + 1
           /\ UNCHANGED <<pc, check>>
  <2>1. balance' \in [Tokens -> Nat]
    BY <1>1, <1>3, <1>6, <1>8, MoveKeeps
  <2>2. AroundOK'
    BY <1>1, <1>2, <1>3, <2>1 DEF AroundOK, bounds
  <2>3. job' = [job EXCEPT !.paid = [job.paid EXCEPT ![index] = @ + 1]]
    BY <1>8
  <2>. DEFINE paid == [job.paid EXCEPT ![index] = @ + 1]
  <2>4. /\ paid \in Seq(Nat) /\ DOMAIN paid = DOMAIN job.paid
        /\ paid[index] = job.paid[index] + 1
        /\ \A n \in DOMAIN paid : n # index => paid[n] = job.paid[n]
    BY <1>4, <1>6
  <2>. HIDE DEF paid
  <2>5. job' = [kind |-> "rebalance", stalls |-> job.stalls,
                rebalance |-> job.rebalance, paid |-> paid]
    BY <1>3, <1>4, <2>3 DEF RebalanceJob, paid
  <2>6. job' \in RebalanceJob
    BY <1>4, <2>4, <2>5 DEF RebalanceJob
  <2>7. PaidSoFar(job, index)'
    <3>1. ASSUME NEW n \in DOMAIN paid
          PROVE  paid[n] <= job.stalls + (IF n < index + 1 THEN 1 ELSE 0)
      <4>1. /\ n \in Nat /\ n \in DOMAIN job.paid /\ job.paid[n] \in Nat
            /\ job.stalls \in Nat /\ index \in Nat
        <5>1. n \in DOMAIN job.paid
          BY <2>4
        <5>2. n \in 1..Len(job.paid) /\ job.paid[n] \in Nat
          BY <1>4, <5>1
        <5>. QED
          BY <1>3, <1>4, <5>1, <5>2
      <4>2. job.paid[n] <= job.stalls + (IF n < index THEN 1 ELSE 0)
        BY <1>3, <4>1 DEF PaidSoFar
      <4>3. CASE n = index
        BY <2>4, <4>1, <4>2, <4>3
      <4>4. CASE n # index
        BY <2>4, <4>1, <4>2, <4>4
      <4>. QED
        BY <4>3, <4>4
    <3>2. DOMAIN paid = DOMAIN job.rebalance.quotes
      BY <1>3, <2>4 DEF PaidSoFar
    <3>3. job'.paid = paid /\ job'.rebalance = job.rebalance /\ job'.stalls = job.stalls
      BY <2>5
    <3>4. index' = index + 1
      BY <1>8
    <3>. QED
      BY <3>1, <3>2, <3>3, <3>4 DEF PaidSoFar
  <2>8. TypeOK'
    <3>1. index' \in Nat \ {0}
      BY <1>3, <1>8
    <3>. QED
      BY <1>8, <2>2, <2>6, <3>1
      DEF IndInv, TypeOK, AroundOK, QueueOK, check, analysis, quoting, Job
  <2>9. JobsOK'
    BY <1>2, <1>3, <1>8, <2>6, <2>7, Kinds DEF JobsOK, QueueOK
  <2>10. BooksOK' /\ QuotingOK' /\ LessThanTwice'
    BY <1>3, <1>8 DEF BooksOK, QuotingOK, LessThanTwice, Planning, check, quoting
  <2>. QED
    BY <2>8, <2>9, <2>10 DEF IndInv
<1>. QED
  BY <1>5, <1>7, <1>8 DEF Execute

LEMMA ExecutedKeeps == ASSUME IndInv, Executed PROVE IndInv'
<1>1. AroundOK'
  BY IndInvIsAround, AroundAlone DEF Executed, data
<1>. QED
  BY <1>1, HandlerDone DEF Executed

-----------------------------------------------------------------------------
(* The theorems.                                                           *)

LEMMA StepOK == IndInv /\ [Next]_vars => IndInv'
<1>. SUFFICES ASSUME IndInv, [Next]_vars PROVE IndInv'
  OBVIOUS
<1>1. CASE Due
  BY <1>1, DueKeeps
<1>2. CASE Take
  BY <1>2, TakeKeeps
<1>3. CASE Die
  BY <1>3, DieKeeps
<1>4. CASE (\E t \in Tokens : Spend(t)) \/ Warm \/ Expire
  BY <1>4, AroundKeeps
<1>5. CASE CheckStep
  BY <1>5, AnalyzeKeeps, NextDeficitKeeps, NoMoreDeficitsKeeps, GetQuoteKeeps,
     StoreKeeps, StartRebalancingKeeps DEF CheckStep
<1>6. CASE Execute \/ Executed
  BY <1>6, ExecuteKeeps, ExecutedKeeps
<1>7. CASE UNCHANGED vars
  <2>1. AroundOK'
    BY <1>7, IndInvIsAround, AroundAlone DEF vars, data
  <2>. QED
    BY <1>7, <2>1, HandlerAlone DEF vars
<1>. QED
  BY <1>1, <1>2, <1>3, <1>4, <1>5, <1>6, <1>7 DEF Next

(* The inductive invariant holds throughout, whatever fails and however    *)
(* checks, rebalances and deaths of the worker interleave.                 *)
THEOREM Inductive == Spec => []IndInv
  BY InitOK, StepOK, PTL DEF Spec

(* The variables keep their types.                                         *)
THEOREM TypeCorrect == Spec => []TypeOK
<1>1. IndInv => TypeOK
  BY DEF IndInv
<1>. QED
  BY <1>1, Inductive, PTL

(* All the quotes of a check together leave each token it saw in surplus   *)
(* at or above its target.                                                 *)
THEOREM PlansWithinSurplus == Spec => []PlanWithinSurplus
<1>1. IndInv => PlanWithinSurplus
  <2>. SUFFICES ASSUME IndInv PROVE PlanWithinSurplus
    OBVIOUS
  <2>1. CASE Planning
    BY <2>1 DEF IndInv, BooksOK, PlanWithinSurplus
  <2>2. CASE ~Planning
    BY <2>2 DEF IndInv, BooksOK, PlanWithinSurplus, Zero
  <2>. QED
    BY <2>1, <2>2
<1>. QED
  BY <1>1, Inductive, PTL

(* The quotes of a rebalance bring less than twice what its token lacked.  *)
THEOREM BringsLessThanTwice == Spec => []LessThanTwice
<1>1. IndInv => LessThanTwice
  BY DEF IndInv
<1>. QED
  BY <1>1, Inductive, PTL

(* A quote is executed at most once in each life of the worker.            *)
THEOREM PaysOncePerLife == Spec => []PaidOncePerLife
<1>1. IndInv => PaidOncePerLife
  <2>. SUFFICES ASSUME IndInv, NEW j \in RebalanceJobs, NEW n \in DOMAIN j.paid
                PROVE  j.paid[n] <= 1 + j.stalls
    BY DEF PaidOncePerLife
  <2>1. j \in RebalanceJob
    BY Kinds DEF RebalanceJobs, IndInv, TypeOK, Job, NoJob
  <2>2. PaidSoFar(j, index) \/ PaidSoFar(j, 1)
    BY <2>1, Kinds DEF RebalanceJobs, IndInv, JobsOK
  <2>3. j.stalls \in Nat /\ n \in Nat /\ j.paid[n] \in Nat /\ index \in Nat
    BY <2>1 DEF RebalanceJob, IndInv, TypeOK
  <2>4. PICK next \in Nat : j.paid[n] <= j.stalls + (IF n < next THEN 1 ELSE 0)
    BY <2>2, <2>3 DEF PaidSoFar
  <2>. QED
    BY <2>3, <2>4
<1>. QED
  BY <1>1, Inductive, PTL

-----------------------------------------------------------------------------
(* What a queue of rebalances does to a balance: an account says what is   *)
(* left before each of them, and that it is never below a floor.           *)
Account(h, from, takes, n, floor) ==
  /\ h \in [0..n -> Int] /\ h[0] = from
  /\ \A k \in 1..n : h[k] = h[k - 1] - takes[k]
  /\ \A k \in 0..n : h[k] >= floor

LEMMA NewAccount ==
  ASSUME NEW from \in Int, NEW floor \in Int, from >= floor, NEW takes
  PROVE  \E h : Account(h, from, takes, 0, floor) /\ h[0] = from
<1>. DEFINE h == [k \in 0..0 |-> from]
<1>1. Account(h, from, takes, 0, floor) /\ h[0] = from
  BY DEF Account
<1>. QED
  BY <1>1

LEMMA LongerAccount ==
  ASSUME NEW n \in Nat, NEW from, NEW floor \in Int, NEW takes, NEW more, NEW h,
         Account(h, from, takes, n, floor), \A k \in 1..n : more[k] = takes[k],
         more[n + 1] \in Int, h[n] - more[n + 1] >= floor
  PROVE  \E g : Account(g, from, more, n + 1, floor) /\ g[n + 1] = h[n] - more[n + 1]
<1>. DEFINE g == [k \in 0..(n + 1) |-> IF k \in 0..n THEN h[k] ELSE h[n] - more[n + 1]]
<1>1. h[n] \in Int
  BY DEF Account
<1>2. g \in [0..(n + 1) -> Int] /\ g[0] = from /\ g[n + 1] = h[n] - more[n + 1]
  BY <1>1 DEF Account
<1>3. ASSUME NEW k \in 1..(n + 1)
      PROVE  g[k] = g[k - 1] - more[k]
  <2>1. CASE k = n + 1
    BY <2>1
  <2>2. CASE k # n + 1
    <3>1. k \in 1..n /\ k - 1 \in 0..n
      BY <2>2
    <3>. QED
      BY <3>1 DEF Account
  <2>. QED
    BY <2>1, <2>2
<1>4. \A k \in 0..(n + 1) : g[k] >= floor
  BY DEF Account
<1>. QED
  BY <1>2, <1>3, <1>4 DEF Account

LEMMA RestOfAccount ==
  ASSUME NEW n \in Nat, NEW from, NEW floor \in Int, NEW takes, NEW rest, NEW h,
         Account(h, from, takes, n + 1, floor), \A k \in 1..n : rest[k] = takes[k + 1]
  PROVE  \E g : Account(g, from - takes[1], rest, n, floor)
<1>. DEFINE g == [k \in 0..n |-> h[k + 1]]
<1>1. g \in [0..n -> Int]
  BY DEF Account
<1>2. g[0] = from - takes[1]
  <2>1. 1 \in 1..(n + 1)
    OBVIOUS
  <2>. QED
    BY <2>1 DEF Account
<1>3. ASSUME NEW k \in 1..n
      PROVE  g[k] = g[k - 1] - rest[k]
  <2>1. k + 1 \in 1..(n + 1) /\ (k + 1) - 1 = k /\ k - 1 \in 0..n /\ (k - 1) + 1 = k
    OBVIOUS
  <2>. QED
    BY <2>1 DEF Account
<1>4. \A k \in 0..n : g[k] >= floor
  BY DEF Account
<1>. QED
  BY <1>1, <1>2, <1>3, <1>4 DEF Account

LEMMA RaisedAccount ==
  ASSUME NEW n \in Nat, NEW from \in Int, NEW floor \in Int, NEW takes, NEW h,
         Account(h, from, takes, n, floor),
         \A k \in 1..n : takes[k] \in Int,
         NEW c \in Int, NEW low \in Int, low <= floor + c
  PROVE  \E g : Account(g, from + c, takes, n, low)
<1>. DEFINE g == [k \in 0..n |-> h[k] + c]
<1>1. g \in [0..n -> Int] /\ g[0] = from + c
  BY DEF Account
<1>2. ASSUME NEW k \in 1..n
      PROVE  g[k] = g[k - 1] - takes[k]
  <2>1. k - 1 \in 0..n /\ k \in 0..n
    OBVIOUS
  <2>2. h[k] = h[k - 1] - takes[k] /\ h[k - 1] \in Int
    BY <2>1 DEF Account
  <2>. QED
    BY <2>1, <2>2
<1>3. ASSUME NEW k \in 0..n
      PROVE  g[k] >= low
  <2>1. h[k] \in Int /\ h[k] >= floor
    BY DEF Account
  <2>. QED
    BY <2>1
<1>. QED
  BY <1>1, <1>2, <1>3 DEF Account

-----------------------------------------------------------------------------
(* Nothing has moved tokens but the rebalances of one check, and no worker *)
(* has died.                                                               *)
Undisturbed == checks <= 1 /\ spends = 0 /\ deaths = 0

(* The quotes of a rebalance each take another token.                      *)
Distinct(qs) == \A m, n \in DOMAIN qs : qs[m].in = qs[n].in => m = n
DistinctOK ==
  /\ pc = "store" => Distinct(quotes)
  /\ \A n \in DOMAIN plan : Distinct(plan[n].quotes)
  /\ \A n \in DOMAIN queue : queue[n] \in RebalanceJob => Distinct(queue[n].rebalance.quotes)
  /\ job \in RebalanceJob => Distinct(job.rebalance.quotes)

(* Until the one check has ended nothing has been executed: what it sees,  *)
(* cached or not, is what there is.                                        *)
CheckAbout == checks = 0 \/ job \in CheckJob \/ \E n \in DOMAIN queue : queue[n] \in CheckJob
OneCheck ==
  /\ checks = 0 => queue = <<>> /\ job = NoJob
  /\ job \in CheckJob => queue = <<>>
  /\ \A n \in DOMAIN queue : queue[n] \in CheckJob => Len(queue) = 1 /\ job = NoJob
  /\ CheckAbout => cache \in {NoData, balance} /\ (Planning => seen = balance)

(* What the rebalances planned and those waiting take of t, and what the   *)
(* one that runs has yet to take.                                          *)
PlanTakes(t) == [n \in DOMAIN plan |-> Taken(plan[n].quotes, t)]
JobTakes(j, t) == IF j \in RebalanceJob THEN Taken(j.rebalance.quotes, t) ELSE 0
QueueTakes(t) == [n \in DOMAIN queue |-> JobTakes(queue[n], t)]
ToCome(t) == \E n \in DOMAIN job.rebalance.quotes : n >= index /\ job.rebalance.quotes[n].in = t
Owed(t) ==
  IF pc = "execute" /\ ToCome(t) THEN Taken(job.rebalance.quotes, t) ELSE 0

(* A token that has its target keeps it, and one that has not loses        *)
(* nothing.                                                                *)
Floor(t) == Least(balance[t], Target[t])
InHand(t) == working[t] + (IF pc = "store" THEN Taken(quotes, t) ELSE 0)
PlanReserved ==
  /\ ~Planning => plan = <<>>
  /\ Planning =>
       \A t \in Tokens :
         \E h : /\ Account(h, seen[t], PlanTakes(t), Len(plan), Floor(t))
               /\ h[Len(plan)] = InHand(t)
QueueReserved ==
  \A t \in Tokens :
    \E h : Account(h, balance[t] - Owed(t), QueueTakes(t), Len(queue), Floor(t))

Reserved == DistinctOK /\ OneCheck /\ PlanReserved /\ QueueReserved

LEMMA TakenNat ==
  ASSUME NEW qs \in Seq(Quote), NEW t
  PROVE  Taken(qs, t) \in Nat
<1>1. CASE \E n \in DOMAIN qs : qs[n].in = t
  <2>. DEFINE c == CHOOSE n \in DOMAIN qs : qs[n].in = t
  <2>1. c \in DOMAIN qs
    BY <1>1
  <2>. HIDE DEF c
  <2>2. qs[c] \in Quote
    BY <2>1
  <2>3. qs[c].amount \in Nat
    BY <2>2 DEF Quote
  <2>. QED
    BY <1>1, <2>3 DEF Taken, c
<1>. QED
  BY <1>1 DEF Taken

LEMMA TakenAt ==
  ASSUME NEW qs, Distinct(qs), NEW k \in DOMAIN qs
  PROVE  Taken(qs, qs[k].in) = qs[k].amount
<1>1. \A n \in DOMAIN qs : qs[n].in = qs[k].in <=> n = k
  BY DEF Distinct
<1>2. (CHOOSE n \in DOMAIN qs : qs[n].in = qs[k].in) = k
  BY <1>1
<1>. QED
  BY <1>1, <1>2 DEF Taken

LEMMA JobTakesNat ==
  ASSUME NEW j, NEW t
  PROVE  JobTakes(j, t) \in Nat
<1>1. CASE j \in RebalanceJob
  <2>1. j.rebalance.quotes \in Seq(Quote)
    BY <1>1 DEF RebalanceJob, Rebalance
  <2>. QED
    BY <1>1, <2>1, TakenNat DEF JobTakes
<1>. QED
  BY <1>1 DEF JobTakes

LEMMA OwedNat ==
  ASSUME JobsOK, NEW t
  PROVE  Owed(t) \in Nat
<1>1. CASE pc = "execute"
  <2>1. job.rebalance.quotes \in Seq(Quote)
    BY <1>1 DEF JobsOK, RebalanceJob, Rebalance
  <2>. QED
    BY <2>1, TakenNat DEF Owed
<1>. QED
  BY <1>1 DEF Owed

LEMMA OwedNatNext ==
  ASSUME JobsOK', NEW t
  PROVE  Owed(t)' \in Nat
<1>1. CASE pc' = "execute"
  <2>1. job'.rebalance.quotes \in Seq(Quote)
    BY <1>1 DEF JobsOK, RebalanceJob, Rebalance
  <2>. QED
    BY <2>1, TakenNat DEF Owed
<1>. QED
  BY <1>1 DEF Owed

(* Steps that leave the queue alone, and owe less as they leave less.      *)
LEMMA QueueStaysReserved ==
  ASSUME IndInv, IndInv', QueueReserved, queue' = queue,
         \A t \in Tokens : Owed(t)' <= Owed(t)
                           /\ balance'[t] - Owed(t)' >= balance[t] - Owed(t)
  PROVE  QueueReserved'
<1>. SUFFICES ASSUME NEW t \in Tokens
              PROVE  \E h : Account(h, balance'[t] - Owed(t)', QueueTakes(t), Len(queue),
                                   Least(balance'[t], Target[t]))
  BY DEF QueueReserved, QueueTakes, Floor
<1>. DEFINE n == Len(queue)
            from == balance[t] - Owed(t)
            c == (balance'[t] - Owed(t)') - (balance[t] - Owed(t))
            low == Least(balance'[t], Target[t])
            floor == Least(balance[t], Target[t])
            takes == QueueTakes(t)
<1>1. PICK h : Account(h, from, takes, n, floor)
  BY DEF QueueReserved, Floor
<1>2. /\ balance[t] \in Nat /\ balance'[t] \in Nat /\ Target[t] \in Nat
      /\ Owed(t) \in Nat /\ Owed(t)' \in Nat
  BY OwedNat, OwedNatNext, LiquidityAssumption DEF IndInv, TypeOK
<1>3. n \in Nat /\ \A k \in 1..n : takes[k] \in Int
  <2>1. queue \in Seq(Job)
    BY DEF IndInv, TypeOK
  <2>2. n \in Nat /\ DOMAIN queue = 1..n
    BY <2>1
  <2>3. \A k \in 1..n : takes[k] = JobTakes(queue[k], t)
    BY <2>2 DEF QueueTakes
  <2>. QED
    BY <2>2, <2>3, JobTakesNat
<1>4. from \in Int /\ c \in Int /\ low \in Int /\ floor \in Int /\ low <= floor + c
  BY <1>2 DEF Least
<1>5. from + c = balance'[t] - Owed(t)'
  BY <1>2
<1>. HIDE DEF n, from, c, low, floor, takes
<1>6. \E g : Account(g, from + c, takes, n, low)
  BY <1>1, <1>3, <1>4, RaisedAccount
<1>. QED
  BY <1>5, <1>6 DEF n, low, takes

(* The end of a handler.                                                   *)
LEMMA DoneReserves ==
  ASSUME IndInv, IndInv', Reserved, job # NoJob, Done, UNCHANGED <<queue, checks>>,
         \A t \in Tokens : balance'[t] >= balance[t] - Owed(t)
  PROVE  Reserved'
<1>1. DistinctOK'
  BY Kinds DEF Reserved, DistinctOK, Done, Job
<1>2. OneCheck'
  BY Kinds DEF Reserved, OneCheck, CheckAbout, Done, Job
<1>3. PlanReserved'
  BY DEF PlanReserved, Planning, Done
<1>4. QueueReserved'
  <2>1. ASSUME NEW t \in Tokens
        PROVE  Owed(t)' <= Owed(t) /\ balance'[t] - Owed(t)' >= balance[t] - Owed(t)
    <3>1. Owed(t)' = 0 /\ Owed(t) \in Nat
      BY OwedNat DEF Owed, Done, IndInv
    <3>2. balance[t] \in Nat /\ balance'[t] \in Nat
      BY DEF IndInv, TypeOK
    <3>. QED
      BY <3>1, <3>2
  <2>. QED
    BY <2>1, QueueStaysReserved DEF Reserved
<1>. QED
  BY <1>1, <1>2, <1>3, <1>4 DEF Reserved

(* A check that ends without a plan or fails.                              *)
LEMMA CheckEndReserves ==
  ASSUME IndInv, IndInv', Reserved, pc \notin {"idle", "execute"}, Done,
         UNCHANGED <<balance, queue, checks>>
  PROVE  Reserved'
<1>1. job # NoJob
  BY Kinds DEF IndInv, JobsOK, Job
<1>2. ASSUME NEW t \in Tokens
      PROVE  balance'[t] >= balance[t] - Owed(t)
  <2>1. balance[t] \in Nat /\ Owed(t) \in Nat
    BY OwedNat DEF IndInv, TypeOK
  <2>. QED
    BY <2>1
<1>. QED
  BY <1>1, <1>2, DoneReserves

(* The other steps of a check have no one else's to account for.           *)
LEMMA CheckGoesOn ==
  ASSUME IndInv, IndInv', Reserved, pc \notin {"idle", "execute"},
         pc' \notin {"idle", "execute"},
         UNCHANGED <<balance, queue, job, checks>>,
         cache' \in {NoData, balance}, Planning' => seen' = balance,
         DistinctOK', PlanReserved'
  PROVE  Reserved'
<1>1. job \in CheckJob
  BY DEF IndInv, JobsOK
<1>2. OneCheck'
  BY <1>1, Kinds DEF Reserved, OneCheck, CheckAbout, Job
<1>3. QueueReserved'
  <2>1. ASSUME NEW t \in Tokens
        PROVE  Owed(t)' <= Owed(t) /\ balance'[t] - Owed(t)' >= balance[t] - Owed(t)
    <3>1. Owed(t)' = 0 /\ Owed(t) = 0
      BY DEF Owed
    <3>2. balance[t] \in Nat /\ balance' = balance
      BY DEF IndInv, TypeOK
    <3>. QED
      BY <3>1, <3>2
  <2>. QED
    BY <2>1, QueueStaysReserved DEF Reserved
<1>. QED
  BY <1>2, <1>3 DEF Reserved

LEMMA AnalyzeReserves ==
  ASSUME IndInv, IndInv', Reserved, Analyze
  PROVE  Reserved'
<1>1. pc = "analyze" /\ UNCHANGED <<balance, queue, checks>>
  BY DEF Analyze, bounds
<1>2. CASE Done
  BY <1>1, <1>2, CheckEndReserves
<1>3. CASE ~Done
  <2>1. /\ cache' = IF cache = NoData THEN balance ELSE cache
        /\ seen' = cache' /\ working' = cache' /\ pc' = "next"
        /\ UNCHANGED <<job, quoting, plan, index>>
    BY <1>3 DEF Analyze
  <2>2. job \in CheckJob
    BY <1>1 DEF IndInv, JobsOK
  <2>3. cache' = balance /\ seen' = balance /\ working' = balance
    BY <2>1, <2>2 DEF Reserved, OneCheck, CheckAbout
  <2>4. DistinctOK'
    BY <1>1, <2>1 DEF Reserved, DistinctOK, quoting
  <2>5. PlanReserved'
    <3>1. plan = <<>>
      BY <1>1 DEF Reserved, PlanReserved, Planning
    <3>2. ASSUME NEW t \in Tokens
          PROVE  \E h : Account(h, seen'[t], PlanTakes(t)', Len(plan'), Floor(t)')
                        /\ h[Len(plan')] = InHand(t)'
      <4>. DEFINE from == seen'[t]
                  floor == Floor(t)'
                  takes == PlanTakes(t)'
      <4>1. from \in Int /\ floor \in Int /\ from >= floor
        <5>1. balance[t] \in Nat /\ Target[t] \in Nat
          BY LiquidityAssumption DEF IndInv, TypeOK
        <5>2. from = balance[t] /\ floor = Least(balance[t], Target[t])
          BY <1>1, <2>3 DEF Floor
        <5>. QED
          BY <5>1, <5>2 DEF Least
      <4>2. Len(plan') = 0 /\ InHand(t)' = from
        BY <2>1, <2>3, <3>1, <4>1 DEF InHand
      <4>. HIDE DEF from, floor, takes
      <4>3. \E h : Account(h, from, takes, 0, floor) /\ h[0] = from
        BY <4>1, NewAccount
      <4>. QED
        BY <4>2, <4>3 DEF from, floor, takes
    <3>. QED
      BY <2>1, <3>2 DEF PlanReserved, Planning
  <2>. QED
    BY <1>1, <2>1, <2>3, <2>4, <2>5, CheckGoesOn
<1>. QED
  BY <1>2, <1>3

(* Steps that leave the plan as it is, and with it what is in hand.        *)
LEMMA PlanStaysReserved ==
  ASSUME Reserved, Planning, Planning', UNCHANGED <<plan, seen, balance>>,
         \A t \in Tokens : InHand(t)' = InHand(t)
  PROVE  PlanReserved'
<1>1. ASSUME NEW t \in Tokens
      PROVE  \E h : Account(h, seen'[t], PlanTakes(t)', Len(plan'), Floor(t)')
                    /\ h[Len(plan')] = InHand(t)'
  <2>1. \E h : Account(h, seen[t], PlanTakes(t), Len(plan), Floor(t))
               /\ h[Len(plan)] = InHand(t)
    BY DEF Reserved, PlanReserved
  <2>2. PlanTakes(t)' = PlanTakes(t) /\ Floor(t)' = Floor(t) /\ InHand(t)' = InHand(t)
    BY DEF PlanTakes, Floor
  <2>. QED
    BY <2>1, <2>2
<1>. QED
  BY <1>1 DEF PlanReserved

LEMMA NextDeficitReserves ==
  ASSUME IndInv, IndInv', Reserved, NEW d \in Tokens, NextDeficit(d)
  PROVE  Reserved'
<1>1. /\ pc = "next" /\ pc' \in {"quote", "store"} /\ quotes' = <<>>
      /\ UNCHANGED <<data, queue, job, seen, working, plan, checks>>
  BY DEF NextDeficit, bounds
<1>2. Planning /\ Planning' /\ job \in CheckJob
  BY <1>1 DEF Planning, IndInv, JobsOK
<1>3. cache \in {NoData, balance} /\ seen = balance
  BY <1>2 DEF Reserved, OneCheck, CheckAbout
<1>4. DistinctOK'
  BY <1>1 DEF Reserved, DistinctOK, Distinct
<1>5. ASSUME NEW t \in Tokens
      PROVE  InHand(t)' = InHand(t)
  <2>1. working[t] \in Nat
    BY <1>2 DEF IndInv, BooksOK
  <2>2. Taken(quotes', t) = 0
    BY <1>1 DEF Taken
  <2>. QED
    BY <1>1, <2>1, <2>2 DEF InHand
<1>6. PlanReserved'
  BY <1>1, <1>2, <1>5, PlanStaysReserved DEF data
<1>. QED
  BY <1>1, <1>3, <1>4, <1>6, CheckGoesOn DEF data

LEMMA NoMoreDeficitsReserves ==
  ASSUME IndInv, IndInv', Reserved, NoMoreDeficits
  PROVE  Reserved'
<1>1. pc = "next" /\ UNCHANGED <<data, queue, checks>>
  BY DEF NoMoreDeficits, bounds
<1>2. CASE Done
  BY <1>1, <1>2, CheckEndReserves DEF data
<1>3. CASE pc' = "start" /\ UNCHANGED <<job, check, index>>
  <2>1. Planning /\ Planning' /\ job \in CheckJob
    BY <1>1, <1>3 DEF Planning, IndInv, JobsOK
  <2>2. cache \in {NoData, balance} /\ seen = balance
    BY <2>1 DEF Reserved, OneCheck, CheckAbout
  <2>3. UNCHANGED <<seen, working, quotes, plan>>
    BY <1>3 DEF check, analysis, quoting
  <2>4. DistinctOK'
    BY <1>1, <1>3, <2>3 DEF Reserved, DistinctOK
  <2>5. \A t \in Tokens : InHand(t)' = InHand(t)
    BY <1>1, <1>3, <2>3 DEF InHand
  <2>6. PlanReserved'
    BY <1>1, <2>1, <2>3, <2>5, PlanStaysReserved DEF data
  <2>. QED
    BY <1>1, <1>3, <2>2, <2>3, <2>4, <2>6, CheckGoesOn DEF data
<1>. QED
  BY <1>2, <1>3 DEF NoMoreDeficits

LEMMA GetQuoteReserves ==
  ASSUME IndInv, IndInv', Reserved, NEW s \in Tokens, GetQuote(s)
  PROVE  Reserved'
<1>1. pc = "quote" /\ s \in todo /\ Planning /\ UNCHANGED <<data, queue, checks>>
  BY DEF GetQuote, Largest, Planning, bounds
<1>2. CASE Done
  BY <1>1, <1>2, CheckEndReserves DEF data
<1>3. ASSUME NEW gives, NEW q, q = [in |-> s, amount |-> SwapAmount(s), gives |-> gives],
             NEW last \in BOOLEAN, last = (Covered(current + gives) \/ todo = {s}),
             quotes' = Append(quotes, q),
             working' = IF last THEN UpdateGroupBalances(quotes') ELSE working,
             pc' = IF last THEN "store" ELSE "quote",
             UNCHANGED <<job, seen, plan>>
      PROVE  Reserved'
  <2>1. job \in CheckJob /\ Planning'
    BY <1>1, <1>3 DEF Planning, IndInv, JobsOK
  <2>2. cache \in {NoData, balance} /\ seen = balance
    BY <1>1, <2>1 DEF Reserved, OneCheck, CheckAbout
  <2>3. quotes \in Seq(Quote) /\ quotes' \in Seq(Quote)
    BY DEF IndInv, TypeOK
  <2>4. Distinct(quotes')
    <3>1. /\ \A n \in DOMAIN quotes : quotes[n].in # s
          /\ \A m, n \in DOMAIN quotes : quotes[m].in = quotes[n].in => m = n
      BY <1>1 DEF IndInv, QuotingOK
    <3>2. q.in = s
      BY <1>3
    <3>3. /\ DOMAIN quotes' = DOMAIN quotes \cup {Len(quotes) + 1}
          /\ \A n \in DOMAIN quotes : quotes'[n] = quotes[n]
          /\ quotes'[Len(quotes) + 1] = q
      BY <1>3, <2>3
    <3>. QED
      BY <3>1, <3>2, <3>3 DEF Distinct
  <2>5. DistinctOK'
    BY <1>1, <1>3, <2>4 DEF Reserved, DistinctOK
  <2>6. ASSUME NEW t \in Tokens
        PROVE  InHand(t)' = InHand(t)
    <3>1. working[t] \in Nat /\ Taken(quotes', t) \in Nat
      BY <1>1, <2>3, TakenNat DEF IndInv, BooksOK
    <3>2. InHand(t) = working[t]
      BY <1>1, <3>1 DEF InHand
    <3>3. CASE last
      <4>1. working'[t] = working[t] - Taken(quotes', t)
        BY <1>3, <3>3 DEF UpdateGroupBalances
      <4>2. InHand(t)' = working'[t] + Taken(quotes', t)
        BY <1>3, <3>3 DEF InHand
      <4>. QED
        BY <3>1, <3>2, <4>1, <4>2
    <3>4. CASE ~last
      BY <1>3, <3>1, <3>2, <3>4 DEF InHand
    <3>. QED
      BY <3>3, <3>4
  <2>7. PlanReserved'
    BY <1>1, <1>3, <2>1, <2>6, PlanStaysReserved DEF data
  <2>8. pc' \notin {"idle", "execute"}
    BY <1>3
  <2>. QED
    BY <1>1, <1>3, <2>2, <2>5, <2>7, <2>8, CheckGoesOn DEF data
<1>. QED
  <2>1. CASE ~Done
    <3>1. PICK gives \in (SwapAmount(s) - Least(MaxLoss, SwapAmount(s)))..SwapAmount(s) :
            LET q == [in |-> s, amount |-> SwapAmount(s), gives |-> gives]
                last == Covered(current + gives) \/ todo = {s}
            IN /\ quotes' = Append(quotes, q)
               /\ working' = IF last THEN UpdateGroupBalances(quotes') ELSE working
               /\ pc' = IF last THEN "store" ELSE "quote"
               /\ UNCHANGED <<job, seen, plan>>
      BY <2>1 DEF GetQuote
    <3>. QED
      BY <1>3, <3>1
  <2>. QED
    BY <1>2, <2>1

LEMMA StoreReserves ==
  ASSUME IndInv, IndInv', Reserved, Store
  PROVE  Reserved'
<1>1. pc = "store" /\ Planning /\ UNCHANGED <<data, queue, checks>>
  BY DEF Store, Planning, bounds
<1>2. CASE Done
  BY <1>1, <1>2, CheckEndReserves DEF data
<1>3. CASE ~Done
  <2>. DEFINE r == [token |-> deficit, quotes |-> quotes]
              n == Len(plan)
  <2>1. /\ plan' = Append(plan, r) /\ pc' = "next"
        /\ UNCHANGED <<job, seen, working, drawn, quotes>>
    BY <1>3 DEF Store, analysis, quoting
  <2>2. job \in CheckJob /\ Planning'
    BY <1>1, <2>1 DEF Planning, IndInv, JobsOK
  <2>3. cache \in {NoData, balance} /\ seen = balance
    BY <1>1, <2>2 DEF Reserved, OneCheck, CheckAbout
  <2>4. plan \in Seq(Rebalance) /\ quotes \in Seq(Quote) /\ r.quotes = quotes
    BY DEF IndInv, TypeOK
  <2>. HIDE DEF r
  <2>5. /\ n \in Nat /\ DOMAIN plan = 1..n /\ DOMAIN plan' = 1..(n + 1) /\ Len(plan') = n + 1
        /\ \A k \in 1..n : plan'[k] = plan[k]
        /\ plan'[n + 1] = r
    BY <2>1, <2>4
  <2>6. DistinctOK'
    <3>1. \A k \in DOMAIN plan' : Distinct(plan'[k].quotes)
      BY <1>1, <2>4, <2>5 DEF Reserved, DistinctOK
    <3>. QED
      BY <1>1, <2>1, <3>1 DEF Reserved, DistinctOK
  <2>7. ASSUME NEW t \in Tokens
        PROVE  \E h : Account(h, seen'[t], PlanTakes(t)', Len(plan'), Floor(t)')
                      /\ h[Len(plan')] = InHand(t)'
    <3>. DEFINE takes == PlanTakes(t)
                more == PlanTakes(t)'
                floor == Floor(t)
    <3>1. PICK h : Account(h, seen[t], takes, n, floor) /\ h[n] = InHand(t)
      BY <1>1 DEF Reserved, PlanReserved
    <3>2. working[t] \in Nat /\ Taken(quotes, t) \in Nat /\ drawn[t] \in Nat /\ seen[t] \in Nat
          /\ Target[t] \in Nat
      BY <1>1, <2>4, TakenNat, LiquidityAssumption DEF IndInv, TypeOK, BooksOK
    <3>3. /\ \A k \in 1..n : more[k] = takes[k]
          /\ more[n + 1] = Taken(quotes, t)
      BY <2>4, <2>5 DEF PlanTakes
    <3>4. h[n] - more[n + 1] = working[t]
      <4>1. h[n] = working[t] + Taken(quotes, t)
        BY <1>1, <3>1 DEF InHand
      <4>. QED
        BY <3>2, <3>3, <4>1
    <3>5. floor \in Int /\ working[t] >= floor
      <4>1. working[t] = seen[t] - drawn[t]
        <5>1. working[t] - 0 = seen[t] - drawn[t]
          BY <1>1 DEF IndInv, BooksOK
        <5>. QED
          BY <3>2, <5>1
      <4>2. drawn[t] > 0 => drawn[t] <= seen[t] - Target[t]
        BY <1>1 DEF IndInv, BooksOK
      <4>. QED
        BY <2>3, <3>2, <4>1, <4>2 DEF Floor, Least
    <3>6. InHand(t)' = working[t]
      BY <2>1, <3>2 DEF InHand
    <3>7. Floor(t)' = floor /\ seen' = seen
      BY <1>1, <2>1 DEF Floor, data
    <3>. HIDE DEF takes, more, floor
    <3>8. \E g : Account(g, seen[t], more, n + 1, floor) /\ g[n + 1] = h[n] - more[n + 1]
      BY <2>5, <3>1, <3>2, <3>3, <3>4, <3>5, LongerAccount
    <3>. QED
      BY <2>5, <3>4, <3>6, <3>7, <3>8 DEF more
  <2>8. PlanReserved'
    BY <2>2, <2>7 DEF PlanReserved
  <2>. QED
    BY <1>1, <2>1, <2>3, <2>6, <2>8, CheckGoesOn DEF data
<1>. QED
  BY <1>2, <1>3

LEMMA DueReserves ==
  ASSUME IndInv, IndInv', Reserved, checks' <= 1, Due
  PROVE  Reserved'
<1>. DEFINE j == [kind |-> "check", stalls |-> 0]
<1>1. j \in CheckJob
  BY LiquidityAssumption DEF CheckJob
<1>2. /\ checks' = checks + 1 /\ queue' = Append(queue, j)
      /\ UNCHANGED <<data, job, pc, check, index>>
  BY DEF Due
<1>. HIDE DEF j
<1>3. checks = 0 /\ checks' = 1 /\ queue = <<>> /\ job = NoJob
  <2>1. checks \in Nat
    BY DEF IndInv, TypeOK
  <2>2. checks = 0
    BY <1>2, <2>1
  <2>. QED
    BY <1>2, <2>2 DEF Reserved, OneCheck
<1>4. pc = "idle"
  BY <1>3, Kinds DEF IndInv, JobsOK, Job
<1>5. queue' = <<j>> /\ Len(queue') = 1 /\ DOMAIN queue' = 1..1 /\ queue'[1] = j
  BY <1>2, <1>3
<1>6. DistinctOK'
  BY <1>1, <1>2, <1>3, <1>4, <1>5, Kinds DEF Reserved, DistinctOK, check, Job
<1>7. OneCheck'
  <2>1. cache' \in {NoData, balance'}
    BY <1>2, <1>3 DEF Reserved, OneCheck, CheckAbout, data
  <2>2. ~Planning'
    BY <1>2, <1>4 DEF Planning
  <2>. QED
    BY <1>2, <1>3, <1>5, <2>1, <2>2, Kinds DEF OneCheck, Job
<1>8. PlanReserved'
  BY <1>2, <1>4 DEF Reserved, PlanReserved, Planning, check
<1>9. QueueReserved'
  <2>. SUFFICES ASSUME NEW t \in Tokens
                PROVE  \E g : Account(g, balance'[t] - Owed(t)', QueueTakes(t)', Len(queue'), Floor(t)')
    BY DEF QueueReserved
  <2>. DEFINE from == balance[t] - Owed(t)
              floor == Floor(t)
              takes == QueueTakes(t)
              more == QueueTakes(t)'
  <2>1. PICK h : Account(h, from, takes, 0, floor)
    BY <1>3 DEF Reserved, QueueReserved
  <2>2. balance'[t] - Owed(t)' = from /\ Floor(t)' = floor
    BY <1>2, <1>4 DEF Floor, Owed, data
  <2>3. more[1] = 0
    BY <1>1, <1>5, Kinds DEF QueueTakes, JobTakes
  <2>4. floor \in Int
    BY LiquidityAssumption DEF IndInv, TypeOK, Floor, Least
  <2>. HIDE DEF from, floor, takes, more
  <2>5. h[0] - more[0 + 1] >= floor
    <3>1. h[0] \in Int /\ h[0] >= floor
      BY <2>1 DEF Account
    <3>. QED
      BY <2>3, <3>1
  <2>6. \E g : Account(g, from, more, 0 + 1, floor) /\ g[0 + 1] = h[0] - more[0 + 1]
    BY <2>1, <2>3, <2>4, <2>5, LongerAccount
  <2>. QED
    BY <1>5, <2>2, <2>6 DEF more
<1>. QED
  BY <1>6, <1>7, <1>8, <1>9 DEF Reserved

LEMMA TakeReserves ==
  ASSUME IndInv, IndInv', Reserved, Take
  PROVE  Reserved'
<1>. DEFINE j == Head(queue)
            n == Len(queue) - 1
<1>1. /\ job = NoJob /\ queue # <<>> /\ job' = j /\ queue' = Tail(queue)
      /\ pc' = IF j.kind = "check" THEN "analyze" ELSE "execute"
      /\ UNCHANGED <<data, check, index, checks>>
  BY DEF Take, bounds
<1>2. queue \in Seq(Job)
  BY DEF IndInv, TypeOK
<1>3. /\ j = queue[1] /\ j \in Job /\ n \in Nat /\ Len(queue) = n + 1
      /\ DOMAIN queue = 1..(n + 1) /\ Len(queue') = n /\ DOMAIN queue' = 1..n
      /\ \A k \in 1..n : queue'[k] = queue[k + 1] /\ k + 1 \in 1..(n + 1)
  BY <1>1, <1>2
<1>. HIDE DEF j, n
<1>4. pc = "idle" /\ index = 1
  BY <1>1, Kinds DEF IndInv, JobsOK, Job
<1>5. checks # 0
  BY <1>1 DEF Reserved, OneCheck
<1>6. 1 \in DOMAIN queue
  BY <1>3
<1>7. DistinctOK'
  <2>1. \A k \in DOMAIN queue' : queue'[k] \in RebalanceJob => Distinct(queue'[k].rebalance.quotes)
    BY <1>3 DEF Reserved, DistinctOK
  <2>2. j \in RebalanceJob => Distinct(j.rebalance.quotes)
    BY <1>3, <1>6 DEF Reserved, DistinctOK
  <2>. QED
    BY <1>1, <1>4, <2>1, <2>2 DEF Reserved, DistinctOK, check
<1>8. OneCheck'
  <2>1. CASE j \in CheckJob
    <3>1. Len(queue) = 1
      BY <1>3, <1>6, <2>1 DEF Reserved, OneCheck
    <3>2. n = 0 /\ queue' = <<>>
      BY <1>1, <1>2, <1>3, <3>1
    <3>3. cache \in {NoData, balance}
      BY <1>3, <1>6, <2>1 DEF Reserved, OneCheck, CheckAbout
    <3>4. ~Planning'
      BY <1>1 DEF Planning
    <3>. QED
      BY <1>1, <1>5, <3>2, <3>3, <3>4 DEF OneCheck, data
  <2>2. CASE j \notin CheckJob
    <3>1. ASSUME NEW k \in DOMAIN queue'
          PROVE  queue'[k] \notin CheckJob
      <4>1. k \in 1..n /\ k + 1 \in DOMAIN queue /\ queue'[k] = queue[k + 1]
        BY <1>3
      <4>2. ASSUME queue[k + 1] \in CheckJob PROVE FALSE
        <5>1. Len(queue) = 1
          BY <4>1, <4>2 DEF Reserved, OneCheck
        <5>. QED
          BY <1>3, <4>1, <5>1
      <4>. QED
        BY <4>1, <4>2
    <3>. QED
      BY <1>1, <1>5, <2>2, <3>1 DEF OneCheck, CheckAbout
  <2>. QED
    BY <2>1, <2>2
<1>9. PlanReserved'
  BY <1>1, <1>4 DEF Reserved, PlanReserved, Planning, check
<1>10. QueueReserved'
  <2>. SUFFICES ASSUME NEW t \in Tokens
                PROVE  \E g : Account(g, balance'[t] - Owed(t)', QueueTakes(t)', Len(queue'), Floor(t)')
    BY DEF QueueReserved
  <2>. DEFINE from == balance[t] - Owed(t)
              floor == Floor(t)
              takes == QueueTakes(t)
              rest == QueueTakes(t)'
  <2>1. PICK h : Account(h, from, takes, n + 1, floor)
    BY <1>3 DEF Reserved, QueueReserved
  <2>2. from = balance[t] /\ balance[t] \in Nat /\ balance' = balance /\ Floor(t)' = floor
    BY <1>1, <1>4 DEF Floor, Owed, data, IndInv, TypeOK
  <2>3. takes[1] = JobTakes(j, t) /\ \A k \in 1..n : rest[k] = takes[k + 1]
    BY <1>3, <1>6 DEF QueueTakes
  <2>4. Owed(t)' = JobTakes(j, t)
    <3>1. CASE j \in CheckJob
      BY <1>1, <3>1, Kinds DEF Owed, JobTakes
    <3>2. CASE j \in RebalanceJob
      <4>1. pc' = "execute" /\ index' = 1 /\ job' = j
        BY <1>1, <1>4, <3>2, Kinds
      <4>2. j.rebalance.quotes \in Seq(Quote)
        BY <3>2 DEF RebalanceJob, Rebalance
      <4>3. ToCome(t)' <=> \E k \in DOMAIN j.rebalance.quotes : j.rebalance.quotes[k].in = t
        BY <4>1, <4>2 DEF ToCome
      <4>. QED
        BY <3>2, <4>1, <4>3 DEF Owed, JobTakes, Taken
    <3>. QED
      BY <1>3, <3>1, <3>2 DEF Job
  <2>5. floor \in Int
    BY LiquidityAssumption DEF IndInv, TypeOK, Floor, Least
  <2>. HIDE DEF from, floor, takes, rest
  <2>6. \E g : Account(g, from - takes[1], rest, n, floor)
    BY <1>3, <2>1, <2>3, <2>5, RestOfAccount
  <2>. QED
    BY <1>3, <2>2, <2>3, <2>4, <2>6 DEF rest
<1>. QED
  BY <1>7, <1>8, <1>9, <1>10 DEF Reserved

LEMMA StartRebalancingReserves ==
  ASSUME IndInv, IndInv', Reserved, StartRebalancing
  PROVE  Reserved'
<1>1. pc = "start" /\ Planning /\ Done /\ UNCHANGED <<data, checks>>
  BY DEF StartRebalancing, Planning, bounds
<1>2. CASE UNCHANGED queue
  BY <1>1, <1>2, CheckEndReserves DEF data
<1>3. CASE ~UNCHANGED queue
  <2>. DEFINE new(n) == [kind |-> "rebalance", stalls |-> 0, rebalance |-> plan[n],
                         paid |-> [m \in DOMAIN plan[n].quotes |-> 0]]
              jobs == [n \in DOMAIN plan |-> new(n)]
  <2>1. queue' = queue \o jobs
    BY <1>3 DEF StartRebalancing
  <2>2. job \in CheckJob
    BY <1>1 DEF IndInv, JobsOK
  <2>3. queue = <<>> /\ seen = balance /\ checks # 0
    BY <1>1, <2>2, Kinds DEF Reserved, OneCheck, CheckAbout, Job
  <2>4. plan \in Seq(Rebalance)
    BY DEF IndInv, TypeOK
  <2>5. \A n \in DOMAIN plan : new(n).kind = "rebalance" /\ new(n).rebalance = plan[n]
    OBVIOUS
  <2>. HIDE DEF new
  <2>6. jobs \in Seq({new(n) : n \in DOMAIN plan}) /\ Len(jobs) = Len(plan)
    BY <2>4
  <2>7. /\ queue' = jobs /\ Len(queue') = Len(plan) /\ DOMAIN queue' = DOMAIN plan
        /\ \A n \in DOMAIN queue' : queue'[n].kind = "rebalance" /\ queue'[n].rebalance = plan[n]
    BY <2>1, <2>3, <2>4, <2>5, <2>6
  <2>8. \A n \in DOMAIN queue' : queue'[n] \in RebalanceJob
    <3>1. \A n \in DOMAIN queue' : queue'[n] \in Job
      BY DEF IndInv, TypeOK
    <3>. QED
      BY <2>7, <3>1, Kinds DEF Job
  <2>9. /\ pc' = "idle" /\ job' = NoJob /\ plan' = <<>>
    BY <1>1 DEF Done
  <2>. HIDE DEF jobs
  <2>10. DistinctOK'
    BY <2>7, <2>9, Kinds DEF Reserved, DistinctOK, Job
  <2>11. OneCheck'
    BY <1>1, <2>3, <2>8, <2>9, Kinds DEF OneCheck, CheckAbout, Job
  <2>12. PlanReserved'
    BY <2>9 DEF PlanReserved, Planning
  <2>13. QueueReserved'
    <3>. SUFFICES ASSUME NEW t \in Tokens
                  PROVE  \E g : Account(g, balance'[t] - Owed(t)', QueueTakes(t)', Len(queue'), Floor(t)')
      BY DEF QueueReserved
    <3>1. PICK h : Account(h, seen[t], PlanTakes(t), Len(plan), Floor(t))
      BY <1>1 DEF Reserved, PlanReserved
    <3>2. QueueTakes(t)' = PlanTakes(t)
      BY <2>7, <2>8 DEF QueueTakes, PlanTakes, JobTakes
    <3>3. balance'[t] - Owed(t)' = seen[t] /\ Floor(t)' = Floor(t)
      <4>1. balance[t] \in Nat
        BY DEF IndInv, TypeOK
      <4>. QED
        BY <1>1, <2>3, <2>9, <4>1 DEF Floor, Owed, data
    <3>. QED
      BY <2>7, <3>1, <3>2, <3>3
  <2>. QED
    BY <2>10, <2>11, <2>12, <2>13 DEF Reserved
<1>. QED
  BY <1>2, <1>3

(* A quote's tokens that move are those owed, and whoever gets tokens owes *)
(* no more for that.                                                       *)
LEMMA MoveLeavesReserves ==
  ASSUME IndInv, Reserved, pc = "execute", index <= Len(job.rebalance.quotes), Move,
         NEW t \in Tokens
  PROVE  /\ balance'[t] >= balance[t] - (IF t = ToExecute.in THEN Owed(t) ELSE 0)
         /\ Owed(ToExecute.in) = ToExecute.amount
<1>1. /\ job \in RebalanceJob /\ job.rebalance.quotes \in Seq(Quote) /\ index \in Nat \ {0}
  BY DEF IndInv, JobsOK, TypeOK, RebalanceJob, Rebalance
<1>2. index \in DOMAIN job.rebalance.quotes
  BY <1>1
<1>3. ToExecute \in Quote
  BY <1>1, <1>2 DEF ToExecute
<1>4. ToExecute.in \in Tokens /\ ToExecute.amount \in Nat /\ ToExecute.gives \in Nat
  BY <1>3 DEF Quote
<1>5. Owed(ToExecute.in) = ToExecute.amount
  <2>1. Distinct(job.rebalance.quotes)
    BY <1>1 DEF Reserved, DistinctOK
  <2>2. Taken(job.rebalance.quotes, ToExecute.in) = ToExecute.amount
    BY <1>2, <2>1, TakenAt DEF ToExecute
  <2>3. ToCome(ToExecute.in)
    BY <1>1, <1>2 DEF ToCome, ToExecute
  <2>. QED
    BY <2>2, <2>3 DEF Owed
<1>6. balance[t] \in Nat
  BY DEF IndInv, TypeOK
<1>7. balance'[t] = balance[t] - (IF t = ToExecute.in THEN ToExecute.amount ELSE 0)
                      + (IF t = job.rebalance.token THEN ToExecute.gives ELSE 0)
  BY DEF Move
<1>. QED
  BY <1>4, <1>5, <1>6, <1>7

LEMMA ExecuteReserves ==
  ASSUME IndInv, IndInv', Reserved, Execute
  PROVE  Reserved'
<1>1. /\ pc = "execute" /\ job \in RebalanceJob /\ index \in Nat \ {0}
      /\ job.rebalance.quotes \in Seq(Quote)
      /\ index <= Len(job.rebalance.quotes)
      /\ UNCHANGED <<cache, queue, checks>>
  BY DEF IndInv, JobsOK, TypeOK, Execute, bounds, RebalanceJob, Rebalance
<1>2. job # NoJob /\ job \notin CheckJob
  BY <1>1, Kinds DEF Job
<1>3. CASE Done
  <2>1. ASSUME NEW t \in Tokens
        PROVE  balance'[t] >= balance[t] - Owed(t)
    <3>1. balance[t] \in Nat /\ Owed(t) \in Nat
      BY OwedNat DEF IndInv, TypeOK
    <3>2. CASE Move
      <4>1. balance'[t] >= balance[t] - (IF t = ToExecute.in THEN Owed(t) ELSE 0)
        BY <1>1, <3>2, MoveLeavesReserves
      <4>2. balance'[t] \in Nat
        BY DEF IndInv, TypeOK
      <4>. QED
        BY <3>1, <4>1, <4>2
    <3>3. CASE UNCHANGED balance
      BY <3>1, <3>3
    <3>. QED
      BY <3>2, <3>3 DEF Execute
  <2>. QED
    BY <1>1, <1>2, <1>3, <2>1, DoneReserves
<1>4. CASE ~Done
  <2>1. /\ Move /\ job' = [job EXCEPT !.paid[index] = @ + 1] /\ index' = index + 1
        /\ UNCHANGED <<pc, check>>
    BY <1>4 DEF Execute
  <2>2. job' \in RebalanceJob /\ job'.rebalance = job.rebalance
    <3>1. job' \in RebalanceJob
      BY <1>1, <2>1 DEF IndInv, JobsOK
    <3>2. job'.rebalance = job.rebalance
      BY <1>1, <2>1 DEF RebalanceJob
    <3>. QED
      BY <3>1, <3>2
  <2>3. job' # NoJob /\ job' \notin CheckJob
    BY <2>2, Kinds DEF Job
  <2>4. DistinctOK'
    BY <1>1, <2>1, <2>2 DEF Reserved, DistinctOK, check, quoting
  <2>5. OneCheck'
    BY <1>1, <1>2, <2>3 DEF Reserved, OneCheck, CheckAbout
  <2>6. PlanReserved'
    BY <1>1, <2>1 DEF Reserved, PlanReserved, Planning, check
  <2>7. ASSUME NEW t \in Tokens
        PROVE  Owed(t)' <= Owed(t) /\ balance'[t] - Owed(t)' >= balance[t] - Owed(t)
    <3>. DEFINE qs == job.rebalance.quotes
    <3>1. Distinct(qs) /\ index \in DOMAIN qs
      BY <1>1 DEF Reserved, DistinctOK
    <3>2. ToCome(t)' <=> \E n \in DOMAIN qs : n >= index + 1 /\ qs[n].in = t
      BY <2>1, <2>2 DEF ToCome
    <3>3. ToCome(t) <=> \E n \in DOMAIN qs : n >= index /\ qs[n].in = t
      BY DEF ToCome
    <3>4. Owed(t)' = IF ToCome(t)' THEN Taken(qs, t) ELSE 0
      BY <1>1, <2>1, <2>2 DEF Owed
    <3>5. Owed(t) = IF ToCome(t) THEN Taken(qs, t) ELSE 0
      BY <1>1 DEF Owed
    <3>6. /\ balance'[t] >= balance[t] - (IF t = ToExecute.in THEN Owed(t) ELSE 0)
          /\ balance[t] \in Nat /\ balance'[t] \in Nat /\ Owed(t) \in Nat
      BY <1>1, <2>1, MoveLeavesReserves, OwedNat DEF IndInv, TypeOK
    <3>7. CASE t = ToExecute.in
      <4>1. \A n \in DOMAIN qs : qs[n].in = t => n = index
        BY <3>1, <3>7 DEF Distinct, ToExecute
      <4>2. Owed(t)' = 0
        BY <1>1, <3>2, <3>4, <4>1
      <4>. QED
        BY <3>6, <3>7, <4>2
    <3>8. CASE t # ToExecute.in
      <4>1. qs[index].in # t /\ \A n \in DOMAIN qs : n \in Nat
        BY <1>1, <3>8 DEF ToExecute
      <4>2. \A n \in DOMAIN qs : n >= index /\ qs[n].in = t <=> n >= index + 1 /\ qs[n].in = t
        BY <1>1, <4>1
      <4>3. Owed(t)' = Owed(t)
        BY <3>2, <3>3, <3>4, <3>5, <4>2
      <4>. QED
        BY <3>6, <3>8, <4>3
    <3>. QED
      BY <3>7, <3>8
  <2>8. QueueReserved'
    BY <1>1, <2>7, QueueStaysReserved DEF Reserved
  <2>. QED
    BY <2>4, <2>5, <2>6, <2>8 DEF Reserved
<1>. QED
  BY <1>3, <1>4

LEMMA ExecutedReserves ==
  ASSUME IndInv, IndInv', Reserved, Executed
  PROVE  Reserved'
<1>1. Done /\ UNCHANGED <<balance, queue, checks>> /\ job # NoJob
  BY Kinds DEF Executed, data, bounds, IndInv, JobsOK, Job
<1>2. ASSUME NEW t \in Tokens
      PROVE  balance'[t] >= balance[t] - Owed(t)
  <2>1. balance[t] \in Nat /\ Owed(t) \in Nat
    BY OwedNat DEF IndInv, TypeOK
  <2>. QED
    BY <1>1, <2>1
<1>. QED
  BY <1>1, <1>2, DoneReserves

LEMMA CacheReserves ==
  ASSUME IndInv, IndInv', Reserved, UNCHANGED <<balance, queue, job, pc, check, index, checks>>,
         cache' \in {NoData, balance, cache}
  PROVE  Reserved'
<1>1. DistinctOK'
  BY DEF Reserved, DistinctOK, check, quoting
<1>2. OneCheck'
  BY DEF Reserved, OneCheck, CheckAbout, Planning, check, analysis
<1>3. PlanReserved'
  <2>1. CASE Planning
    <3>1. UNCHANGED <<plan, seen, working, quotes>> /\ Planning'
      BY <2>1 DEF check, analysis, quoting, Planning
    <3>2. \A t \in Tokens : InHand(t)' = InHand(t)
      BY <3>1 DEF InHand
    <3>. QED
      BY <2>1, <3>1, <3>2, PlanStaysReserved
  <2>2. CASE ~Planning
    BY <2>2 DEF Reserved, PlanReserved, Planning, check
  <2>. QED
    BY <2>1, <2>2
<1>4. QueueReserved'
  <2>1. ASSUME NEW t \in Tokens
        PROVE  Owed(t)' <= Owed(t) /\ balance'[t] - Owed(t)' >= balance[t] - Owed(t)
    <3>1. balance[t] \in Nat /\ Owed(t) \in Nat
      BY OwedNat DEF IndInv, TypeOK
    <3>2. Owed(t)' = Owed(t)
      BY DEF Owed, ToCome
    <3>. QED
      BY <3>1, <3>2
  <2>. QED
    BY <2>1, QueueStaysReserved DEF Reserved
<1>. QED
  BY <1>1, <1>2, <1>3, <1>4 DEF Reserved

ReservedInv == IndInv /\ (Undisturbed => Reserved)

LEMMA InitReserves == Init => ReservedInv
<1>. SUFFICES ASSUME Init PROVE ReservedInv
  OBVIOUS
<1>1. IndInv
  BY InitOK
<1>2. DistinctOK
  BY Kinds DEF Init, DistinctOK, Job
<1>3. OneCheck
  BY Kinds DEF Init, OneCheck, Planning, Job
<1>4. PlanReserved
  BY DEF Init, PlanReserved, Planning
<1>5. QueueReserved
  <2>. SUFFICES ASSUME NEW t \in Tokens
                PROVE  \E h : Account(h, balance[t] - Owed(t), QueueTakes(t), Len(queue), Floor(t))
    BY DEF QueueReserved
  <2>. DEFINE from == balance[t]
              floor == Floor(t)
              takes == QueueTakes(t)
  <2>1. from \in Int /\ floor \in Int /\ from >= floor
    BY <1>1, LiquidityAssumption DEF IndInv, TypeOK, Floor, Least
  <2>2. balance[t] - Owed(t) = from /\ Len(queue) = 0
    BY <2>1 DEF Init, Owed
  <2>. HIDE DEF from, floor, takes
  <2>3. \E h : Account(h, from, takes, 0, floor)
    BY <2>1, NewAccount
  <2>. QED
    BY <2>2, <2>3 DEF floor, takes
<1>. QED
  BY <1>1, <1>2, <1>3, <1>4, <1>5 DEF ReservedInv, Reserved

LEMMA StepReserves == ReservedInv /\ [Next]_vars => ReservedInv'
<1>. SUFFICES ASSUME ReservedInv, [Next]_vars PROVE ReservedInv'
  OBVIOUS
<1>1. IndInv /\ IndInv'
  BY StepOK DEF ReservedInv
<1>. SUFFICES ASSUME Undisturbed' PROVE Reserved'
  BY <1>1 DEF ReservedInv
<1>2. checks \in Nat /\ spends \in Nat /\ deaths \in Nat
  BY <1>1 DEF IndInv, TypeOK
<1>3. ~Die /\ \A t \in Tokens : ~Spend(t)
  BY <1>2 DEF Undisturbed, Die, Spend
<1>4. checks' = checks \/ Due
  BY DEF Next, vars, bounds, Take, Die, Spend, Warm, Expire, CheckStep, Analyze, NextDeficit,
         NoMoreDeficits, GetQuote, Store, StartRebalancing, Execute, Executed
<1>5. Undisturbed
  <2>1. checks' = checks \/ checks' = checks + 1
    BY <1>4 DEF Due
  <2>2. UNCHANGED <<spends, deaths>>
    BY <1>3 DEF Next, vars, bounds, Due, Take, Warm, Expire, CheckStep, Analyze, NextDeficit,
           NoMoreDeficits, GetQuote, Store, StartRebalancing, Execute, Executed
  <2>. QED
    BY <1>2, <2>1, <2>2 DEF Undisturbed
<1>6. Reserved
  BY <1>5 DEF ReservedInv
<1>7. CASE Due
  BY <1>1, <1>6, <1>7, DueReserves DEF Undisturbed
<1>8. CASE Take
  BY <1>1, <1>6, <1>8, TakeReserves
<1>9. CASE Warm \/ Expire \/ UNCHANGED vars
  BY <1>1, <1>6, <1>9, CacheReserves DEF Warm, Expire, vars, bounds, data
<1>10. CASE CheckStep
  BY <1>1, <1>6, <1>10, AnalyzeReserves, NextDeficitReserves, NoMoreDeficitsReserves,
     GetQuoteReserves, StoreReserves, StartRebalancingReserves DEF CheckStep
<1>11. CASE Execute \/ Executed
  BY <1>1, <1>6, <1>11, ExecuteReserves, ExecutedReserves
<1>. QED
  BY <1>3, <1>7, <1>8, <1>9, <1>10, <1>11 DEF Next

(* What a rebalance executes is what the check's reserves allow: as long   *)
(* as nothing else has moved tokens, no worker has died and only one check *)
(* has run, no execution takes a token below its target.                   *)
THEOREM NothingDrained == Spec => NeverDrained
<1>1. ReservedInv /\ [Next]_vars =>
        [\A t \in Tokens :
           /\ checks <= 1 /\ spends' = 0 /\ deaths = 0
           /\ pc = "execute" /\ balance'[t] < balance[t]
           => balance'[t] >= Target[t]]_vars
  <2>. SUFFICES ASSUME ReservedInv, [Next]_vars, NEW t \in Tokens,
                       checks <= 1, spends' = 0, deaths = 0,
                       pc = "execute", balance'[t] < balance[t]
                PROVE  balance'[t] >= Target[t]
    OBVIOUS
  <2>1. IndInv /\ IndInv'
    BY StepOK DEF ReservedInv
  <2>2. balance[t] \in Nat /\ balance'[t] \in Nat /\ Target[t] \in Nat /\ spends \in Nat
    BY <2>1, LiquidityAssumption DEF IndInv, TypeOK
  <2>3. Execute /\ Move
    <3>1. balance' # balance
      BY <2>2
    <3>2. \A u \in Tokens : ~Spend(u)
      BY <2>2 DEF Spend
    <3>. QED
      BY <3>1, <3>2 DEF Next, vars, data, Due, Take, Die, Warm, Expire, CheckStep, Analyze,
         NextDeficit, NoMoreDeficits, GetQuote, Store, StartRebalancing, Execute, Executed
  <2>4. spends = 0
    BY <2>3 DEF Execute, bounds
  <2>5. Reserved
    BY <2>4 DEF ReservedInv, Undisturbed
  <2>6. /\ balance'[t] >= balance[t] - (IF t = ToExecute.in THEN Owed(t) ELSE 0)
        /\ Owed(t) \in Nat
    BY <2>1, <2>3, <2>5, MoveLeavesReserves, OwedNat DEF Execute, IndInv
  <2>7. t = ToExecute.in /\ Owed(t) > 0
    BY <2>2, <2>6
  <2>8. balance[t] - Owed(t) >= Floor(t)
    <3>1. PICK h : Account(h, balance[t] - Owed(t), QueueTakes(t), Len(queue), Floor(t))
      BY <2>5 DEF Reserved, QueueReserved
    <3>2. 0 \in 0..Len(queue)
      BY <2>1 DEF IndInv, TypeOK
    <3>. QED
      BY <3>1, <3>2 DEF Account
  <2>. QED
    BY <2>2, <2>6, <2>7, <2>8 DEF Floor, Least
<1>. QED
  BY <1>1, InitReserves, StepReserves, PTL DEF Spec, NeverDrained
-----------------------------------------------------------------------------
(* What the tokens still to ask can give.                                  *)
Diffs == [t \in Tokens |-> Diff(working, t)]

(* At work on a deficit, the quotes at hand and the tokens still to ask    *)
(* have its target between them, but for what the quotes lose.             *)
EnoughLeft ==
  pc = "quote" =>
    /\ current >= working[deficit]
    /\ (current + Len(quotes) * MaxLoss) + SumOver(Diffs, todo) >= Target[deficit]

(* Each further quote loses as much as any.                                *)
LEMMA OneMore ==
  ASSUME NEW n \in Nat, NEW k \in Nat
  PROVE  n * k \in Nat /\ (n + 1) * k = n * k + k
  OBVIOUS

(* The total that the plan compares is a sum.                              *)
LEMMA TotalIsSum ==
  ASSUME NEW S \in SUBSET Tokens
  PROVE  Total(S) = SumOver(Diffs, S)
<1>. DEFINE G(h) == [s \in SUBSET S |-> IF s = {} THEN 0
                                        ELSE Diff(working, First(s)) + h[s \ {First(s)}]]
            F(h) == [s \in SUBSET S |-> IF s = {} THEN 0
                                        ELSE Diffs[First(s)] + h[s \ {First(s)}]]
            h == CHOOSE h : h = G(h)
<1>1. IsFiniteSet(S)
  BY LiquidityAssumption, FS_Subset
<1>2. Total(S) = h[S]
  BY DEF Total, MapThenSumSet, MapThenFoldSet, First
<1>3. ASSUME NEW g, NEW s \in SUBSET S
      PROVE  F(g)[s] = G(g)[s]
  BY FirstIsElement DEF Diffs
<1>4. \A g : F(g) = G(g)
  BY <1>3
<1>5. \E g : g = F(g)
  <2>1. PICK g : Folded(g, Diffs, S)
    BY <1>1, FoldExists
  <2>2. g = F(g)
    BY <2>1 DEF Folded
  <2>. QED
    BY <2>2
<1>. HIDE DEF F, G
<1>6. h = F(h)
  BY <1>4, <1>5
<1>. HIDE DEF h
<1>7. Folded(h, Diffs, S)
  BY <1>6 DEF F, Folded
<1>8. PICK g : Folded(g, Diffs, S) /\ SumOver(Diffs, S) = g[S]
  BY <1>1, SumByFold
<1>. QED
  BY <1>1, <1>2, <1>7, <1>8, FoldsAgree

(* What a token lacks, or has to give, is an amount.                       *)
LEMMA DiffsTyped ==
  ASSUME IndInv, Planning
  PROVE  Diffs \in [Tokens -> Nat]
<1>1. ASSUME NEW t \in Tokens
      PROVE  Diff(working, t) \in Nat
  <2>1. working[t] \in Nat /\ Target[t] \in Nat
    BY LiquidityAssumption DEF IndInv, BooksOK
  <2>. QED
    BY <2>1 DEF Diff
<1>. QED
  BY <1>1 DEF Diffs

LEMMA NextDeficitBrings ==
  ASSUME IndInv, NEW d \in Tokens, NextDeficit(d)
  PROVE  EnoughLeft' /\ BringsEnough'
<1>1. /\ quotes' = <<>> /\ current' = working[d] /\ working' = working
      /\ deficit' = d /\ todo' = Pool(d)
      /\ pc' = IF Pool(d) = {} THEN "store" ELSE "quote"
  BY DEF NextDeficit
<1>2. BringsEnough'
  BY <1>1 DEF BringsEnough
<1>3. CASE Pool(d) # {}
  <2>1. Planning /\ surplus \subseteq Tokens
    BY DEF NextDeficit, Planning, IndInv, TypeOK
  <2>2. Pool(d) \in SUBSET Tokens /\ Diff(working, d) <= Total(Pool(d))
    BY <1>3, <2>1 DEF Pool, SameChain
  <2>3. Diff(working, d) <= SumOver(Diffs, Pool(d))
    BY <2>2, TotalIsSum
  <2>. DEFINE r == SumOver(Diffs, Pool(d))
  <2>4. r \in Int
    BY <2>1, <2>2, DiffsTyped, LiquidityAssumption, FS_Subset, SumTyped
  <2>5. working[d] \in Nat /\ Target[d] \in Nat /\ MaxLoss \in Nat
    BY <2>1, LiquidityAssumption DEF IndInv, BooksOK
  <2>6. Len(<<>>) * MaxLoss = 0
    BY <2>5
  <2>7. SumOver(Diffs, todo)' = r
    BY <1>1 DEF Diffs
  <2>. HIDE DEF r
  <2>8. (working[d] + 0) + r >= Target[d]
    BY <2>3, <2>4, <2>5 DEF Diff, r
  <2>. QED
    BY <1>1, <1>2, <2>5, <2>6, <2>7, <2>8 DEF EnoughLeft
<1>4. CASE Pool(d) = {}
  BY <1>1, <1>2, <1>4 DEF EnoughLeft
<1>. QED
  BY <1>3, <1>4

LEMMA GetQuoteBrings ==
  ASSUME IndInv, EnoughLeft, NEW s \in Tokens, GetQuote(s)
  PROVE  EnoughLeft' /\ BringsEnough'
<1>1. /\ pc = "quote" /\ s \in todo /\ Planning /\ todo \subseteq Tokens
      /\ current \in Nat /\ quotes \in Seq(Quote) /\ deficit \in Tokens
  BY DEF GetQuote, Largest, Planning, IndInv, TypeOK, QuotingOK
<1>2. CASE Done
  BY <1>2 DEF Done, EnoughLeft, BringsEnough
<1>3. ASSUME NEW gives \in (SwapAmount(s) - Least(MaxLoss, SwapAmount(s)))..SwapAmount(s),
             NEW q, NEW last \in BOOLEAN, last = (Covered(current + gives) \/ todo = {s}),
             quotes' = Append(quotes, q), current' = current + gives,
             todo' = todo \ {s}, UNCHANGED deficit,
             ~last => UNCHANGED working,
             pc' = IF last THEN "store" ELSE "quote"
      PROVE  EnoughLeft' /\ BringsEnough'
  <2>. DEFINE n == Len(quotes)
              r == SumOver(Diffs, todo \ {s})
              m == Diff(working, deficit)
  <2>1. n \in Nat /\ Len(quotes') = n + 1
    BY <1>1, <1>3
  <2>2. /\ MaxLoss \in Nat /\ Target[deficit] \in Nat
        /\ Enough[deficit] \in Nat /\ Enough[deficit] <= Target[deficit]
    BY <1>1, LiquidityAssumption
  <2>3. n * MaxLoss \in Nat /\ (n + 1) * MaxLoss = n * MaxLoss + MaxLoss
    BY <2>1, <2>2, OneMore
  <2>4. Diffs \in [Tokens -> Nat] /\ IsFiniteSet(todo) /\ IsFiniteSet(todo \ {s})
    BY <1>1, DiffsTyped, LiquidityAssumption, FS_Subset
  <2>5. /\ SumOver(Diffs, todo) = Diffs[s] + r /\ r \in Nat
        /\ todo = {s} => r = 0
    <3>1. \A t \in todo : Diffs[t] \in Nat /\ Diffs[t] \in Int
      BY <1>1, <2>4
    <3>2. SumOver(Diffs, todo) = Diffs[s] + r
      BY <1>1, <2>4, <3>1, SumRemove
    <3>3. r \in Nat
      BY <2>4, <3>1, SumNat
    <3>. QED
      BY <3>2, <3>3, SumEmpty
  <2>6. working[deficit] \in Nat /\ m \in Nat /\ working[deficit] + m >= Target[deficit]
    BY <1>1, <2>2 DEF IndInv, BooksOK, Diff
  <2>7. Diffs[s] \in Nat /\ Diffs[s] = Diff(working, s)
    BY <2>4 DEF Diffs
  <2>8. /\ gives \in Nat
        /\ gives + MaxLoss >= m \/ gives + MaxLoss >= Diffs[s]
    <3>1. SwapAmount(s) = m \/ SwapAmount(s) = Diffs[s]
      BY <2>7 DEF SwapAmount, Least
    <3>2. SwapAmount(s) \in Nat
      BY <2>6, <2>7, <3>1
    <3>. HIDE DEF m
    <3>3. gives \in Nat /\ gives + MaxLoss >= SwapAmount(s)
      BY <2>2, <3>2 DEF Least
    <3>. QED
      BY <3>1, <3>3
  <2>9. /\ current >= working[deficit]
        /\ (current + n * MaxLoss) + (Diffs[s] + r) >= Target[deficit]
    BY <1>1, <2>5 DEF EnoughLeft
  <2>. DEFINE l == n * MaxLoss
  <2>10. l \in Nat /\ (n + 1) * MaxLoss = l + MaxLoss
    BY <2>3
  <2>11. (current + l) + (Diffs[s] + r) >= Target[deficit]
    BY <2>9
  <2>. HIDE DEF n, m, r, l
  <2>12. ((current + gives) + (l + MaxLoss)) + r >= Target[deficit]
    BY <1>1, <2>2, <2>5, <2>6, <2>7, <2>8, <2>9, <2>10, <2>11
  <2>13. CASE last
    <3>1. current' + Len(quotes') * MaxLoss = (current + gives) + (l + MaxLoss)
      BY <1>3, <2>1, <2>10
    <3>2. CASE Covered(current + gives)
      BY <1>1, <1>3, <2>2, <2>8, <2>10, <2>13, <3>1, <3>2 DEF Covered, BringsEnough, EnoughLeft
    <3>3. CASE todo = {s}
      BY <1>1, <1>3, <2>2, <2>5, <2>8, <2>10, <2>12, <2>13, <3>1, <3>3 DEF BringsEnough, EnoughLeft
    <3>. QED
      BY <1>3, <2>13, <3>2, <3>3
  <2>14. CASE ~last
    <3>1. SumOver(Diffs, todo)' = r
      BY <1>3, <2>14 DEF Diffs, r
    <3>2. current' + Len(quotes') * MaxLoss = (current + gives) + (l + MaxLoss)
      BY <1>3, <2>1, <2>10
    <3>3. current' >= working'[deficit']
      BY <1>1, <1>3, <2>6, <2>8, <2>9, <2>14
    <3>4. (current' + Len(quotes') * MaxLoss) + SumOver(Diffs, todo)' >= Target[deficit']
      BY <1>3, <2>12, <3>1, <3>2
    <3>. QED
      BY <1>3, <2>14, <3>3, <3>4 DEF EnoughLeft, BringsEnough
  <2>. QED
    BY <2>13, <2>14
<1>. QED
  <2>1. CASE ~Done
    <3>1. PICK gives \in (SwapAmount(s) - Least(MaxLoss, SwapAmount(s)))..SwapAmount(s) :
            LET q == [in |-> s, amount |-> SwapAmount(s), gives |-> gives]
                last == Covered(current + gives) \/ todo = {s}
            IN /\ quotes' = Append(quotes, q) /\ current' = current + gives
               /\ todo' = todo \ {s} /\ UNCHANGED deficit
               /\ working' = IF last THEN UpdateGroupBalances(quotes') ELSE working
               /\ pc' = IF last THEN "store" ELSE "quote"
      BY <2>1 DEF GetQuote
    <3>. QED
      BY <1>3, <3>1
  <2>. QED
    BY <1>2, <2>1

BringingInv == IndInv /\ EnoughLeft /\ BringsEnough

LEMMA StepBrings == BringingInv /\ [Next]_vars => BringingInv'
<1>. SUFFICES ASSUME BringingInv, [Next]_vars PROVE BringingInv'
  OBVIOUS
<1>1. IndInv /\ IndInv'
  BY StepOK DEF BringingInv
<1>2. CASE UNCHANGED <<pc, check>>
  <2>1. UNCHANGED <<pc, working, quotes, current, deficit, todo>>
    BY <1>2 DEF check, analysis, quoting
  <2>2. SumOver(Diffs, todo)' = SumOver(Diffs, todo)
    BY <2>1 DEF Diffs, Diff
  <2>. QED
    BY <1>1, <2>1, <2>2 DEF BringingInv, EnoughLeft, BringsEnough
<1>3. CASE pc' \notin {"quote", "store"}
  BY <1>1, <1>3 DEF BringingInv, EnoughLeft, BringsEnough
<1>4. ASSUME NEW d \in Tokens, NextDeficit(d)
      PROVE  BringingInv'
  BY <1>1, <1>4, NextDeficitBrings DEF BringingInv
<1>5. ASSUME NEW s \in Tokens, GetQuote(s)
      PROVE  BringingInv'
  BY <1>1, <1>5, GetQuoteBrings DEF BringingInv
<1>6. CASE Due \/ Take \/ Die \/ (\E t \in Tokens : Spend(t)) \/ Warm \/ Expire
           \/ UNCHANGED vars
  BY <1>2, <1>3, <1>6 DEF Due, Take, Die, Done, Spend, Warm, Expire, vars
<1>7. CASE Analyze \/ NoMoreDeficits \/ Store \/ StartRebalancing
  BY <1>3, <1>7 DEF Analyze, NoMoreDeficits, Store, StartRebalancing, Done
<1>8. CASE Execute \/ Executed
  BY <1>2, <1>3, <1>8 DEF Execute, Executed, Done
<1>. QED
  BY <1>4, <1>5, <1>6, <1>7, <1>8 DEF Next, CheckStep

(* A rebalance that has quotes at all brings its token as far as the       *)
(* planning aims, but for what each of its quotes loses: whichever tokens  *)
(* are asked, of one chain or of all, they had enough between them, and    *)
(* asking ends early only with enough (getOptimizedRebalancing,            *)
(* getRebalancingQuotes).                                                  *)
THEOREM BringsAsPlanned == Spec => []BringsEnough
<1>1. Init => BringingInv
  BY InitOK DEF BringingInv, EnoughLeft, BringsEnough, Init
<1>2. BringingInv => BringsEnough
  BY DEF BringingInv
<1>. QED
  BY <1>1, <1>2, StepBrings, PTL DEF Spec
=============================================================================
