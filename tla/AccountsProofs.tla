--------------------------- MODULE AccountsProofs ----------------------------
(***************************************************************************)
(* Type correctness of Accounts, that what the first service executes runs *)
(* on a deployed account, and how often a job's transaction is sent.       *)
(***************************************************************************)
EXTENDS Accounts, SequenceTheorems, FiniteSetTheorems, TLAPS

LEMMA SentBySomeTask ==
  ASSUME TypeOK, NEW t \in Tasks
  PROVE  Transaction(t) \in Transactions
BY DEF Transaction, Transactions, Kind

LEMMA FaultTyped ==
  ASSUME TypeOK, NEW kind, Fault(kind)
  PROVE  faults' \in Seq(Kinds)
<1>1. kind \in Kinds
  BY AccountsAssumption DEF Fault
<1>. QED
  BY <1>1 DEF Fault, TypeOK

LEMMA GotoTyped ==
  ASSUME TypeOK, NEW t \in Tasks, NEW point \in Points, Goto(t, point)
  PROVE  pc' \in [Tasks -> Points]
BY DEF Goto, TypeOK

(* A process that ends, and a task that fails, leave what they change well *)
(* typed.                                                                  *)
Touched ==
  /\ up' \subseteq Pods /\ instances' \subseteq Pods \X Services
  /\ pc' \in [Tasks -> Points]
  /\ unsure' \in [Jobs -> Nat]

LEMMA ExitTyped ==
  ASSUME TypeOK, NEW p \in Pods, Exit(p)
  PROVE  Touched
<1>1. "idle" \in Points
  BY DEF Points
<1>2. up' \subseteq Pods /\ instances' \subseteq Pods \X Services
  BY DEF Exit, TypeOK
<1>3. pc' \in [Tasks -> Points]
  BY <1>1 DEF Exit, TypeOK
<1>4. \A j \in Jobs : unsure[j] \in Nat /\ unsure[j] + 1 \in Nat
  BY DEF TypeOK
<1>5. unsure' \in [Jobs -> Nat]
  BY <1>4 DEF Exit
<1>. QED
  BY <1>2, <1>3, <1>5 DEF Touched

LEMMA FailsTyped ==
  ASSUME TypeOK, NEW t \in Tasks, NEW executed \in BOOLEAN, Fails(t, executed)
  PROVE  Touched
<1>1. CASE t \in Hooks /\ Exit(PodOf[t])
  <2>1. PodOf[t] \in Pods
    BY AccountsAssumption
  <2>. QED
    BY <1>1, <2>1, ExitTyped
<1>2. CASE /\ t \in Jobs /\ Goto(t, "idle")
           /\ unsure' = [unsure EXCEPT ![t] = IF executed THEN @ + 1 ELSE @]
           /\ UNCHANGED <<up, instances>>
  <2>1. "idle" \in Points
    BY DEF Points
  <2>2. pc' \in [Tasks -> Points]
    BY <1>2, <2>1, GotoTyped
  <2>3. unsure[t] \in Nat /\ unsure[t] + 1 \in Nat
    BY <1>2 DEF TypeOK
  <2>4. unsure' \in [Jobs -> Nat]
    BY <1>2, <2>3 DEF TypeOK
  <2>. QED
    BY <1>2, <2>2, <2>4 DEF Touched, TypeOK
<1>. QED
  BY <1>1, <1>2 DEF Fails

LEMMA BootTyped ==
  ASSUME TypeOK, NEW p \in Pods, Boot(p)
  PROVE  TypeOK'
<1>1. starts[p] \in 0..MaxStarts /\ starts[p] < MaxStarts /\ MaxStarts \in Nat
  BY AccountsAssumption DEF Boot, TypeOK
<1>2. starts' \in [Pods -> 0..MaxStarts]
  BY <1>1 DEF Boot, TypeOK
<1>3. faults' \in Seq(Kinds)
  BY FaultTyped DEF Boot, TypeOK
<1>4. up' \subseteq Pods
  BY DEF Boot, TypeOK
<1>. QED
  BY <1>2, <1>3, <1>4 DEF Boot, TypeOK, chain

LEMMA GetClientTyped ==
  ASSUME TypeOK, NEW t \in Tasks, GetClient(t)
  PROVE  TypeOK'
<1>1. pc' \in [Tasks -> Points]
  BY GotoTyped DEF GetClient, HasClient, Points
<1>2. \A j \in Jobs : attempts[j] \in 0..MaxAttempts /\ MaxAttempts \in Nat
  BY AccountsAssumption DEF TypeOK
<1>3. ASSUME NEW j \in Jobs, j = t
      PROVE  attempts[j] + 1 \in 0..MaxAttempts
  BY <1>2, <1>3 DEF GetClient
<1>4. attempts' \in [Jobs -> 0..MaxAttempts]
  BY <1>2, <1>3 DEF GetClient
<1>. QED
  BY <1>1, <1>4 DEF GetClient, TypeOK, chain, processes

LEMMA AcceptedTyped ==
  ASSUME TypeOK, NEW t \in Tasks, Accepted(t)
  PROVE  TypeOK'
<1>1. sent' \in Seq(Transactions) /\ Len(sent') = Len(sent) + 1
  BY SentBySomeTask DEF Accepted, TypeOK
<1>2. mined' \in 0..Len(sent') /\ reverted' \subseteq 1..mined'
  BY <1>1 DEF Accepted, TypeOK
<1>3. CASE Goto(t, Sent(t)) /\ UNCHANGED <<up, instances, unsure, faults>>
  <2>1. pc' \in [Tasks -> Points]
    BY <1>3, GotoTyped DEF Sent, Points
  <2>. QED
    BY <1>1, <1>2, <1>3, <2>1 DEF Accepted, TypeOK
<1>4. CASE Fault("lost") /\ Fails(t, Kind(t) = "execute")
  <2>1. Touched
    BY <1>4, FailsTyped
  <2>2. faults' \in Seq(Kinds)
    BY <1>4, FaultTyped
  <2>. QED
    BY <1>1, <1>2, <2>1, <2>2 DEF Accepted, TypeOK, Touched
<1>. QED
  BY <1>3, <1>4 DEF Accepted

LEMMA ReplacesTyped ==
  ASSUME TypeOK, NEW t \in Tasks, Replaces(t)
  PROVE  TypeOK'
<1>1. nonce[t] + 1 \in 1..Len(sent)
  BY DEF Replaces, TypeOK
<1>2. sent' \in Seq(Transactions) /\ Len(sent') = Len(sent)
  BY <1>1, SentBySomeTask, ExceptSeq DEF Replaces, TypeOK
<1>3. pc' \in [Tasks -> Points]
  BY GotoTyped DEF Replaces, Sent, Points
<1>4. faults' \in Seq(Kinds)
  BY FaultTyped DEF Replaces
<1>. QED
  BY <1>2, <1>3, <1>4 DEF Replaces, TypeOK, processes

LEMMA StepTyped ==
  ASSUME TypeOK, NEW t \in Tasks, Step(t)
  PROVE  TypeOK'
<1>1. CASE CreateV1(t)
  <2>1. pc' \in [Tasks -> Points]
    BY <1>1, GotoTyped DEF CreateV1, DeployKernelAccount, Points
  <2>2. faults' \in Seq(Kinds)
    BY <1>1, FaultTyped DEF CreateV1, DeployKernelAccount, TypeOK
  <2>. QED
    BY <1>1, <2>1, <2>2 DEF CreateV1, TypeOK, chain, processes
<1>2. CASE CreateV2(t)
  <2>1. pc' \in [Tasks -> Points]
    BY <1>2, GotoTyped DEF CreateV2, Points
  <2>. QED
    BY <1>2, <2>1 DEF CreateV2, TypeOK, chain, processes
<1>3. CASE Store(t)
  <2>1. pc' \in [Tasks -> Points]
    BY <1>3, GotoTyped DEF Store, HasClient, Points
  <2>2. Client(t) \in Pods \X Services
    BY AccountsAssumption DEF Client, Service, Services
  <2>. QED
    BY <1>3, <2>1, <2>2 DEF Store, TypeOK, chain, processes
<1>4. CASE GetTransactionCount(t)
  <2>1. pc' \in [Tasks -> Points]
    BY <1>4, GotoTyped DEF GetTransactionCount, Points
  <2>2. nonce' \in [Tasks -> Nat]
    BY <1>4 DEF GetTransactionCount, TypeOK
  <2>. QED
    BY <1>4, <2>1, <2>2 DEF GetTransactionCount, TypeOK, chain, processes
<1>5. CASE Refused(t)
  <2>1. Touched
    BY <1>5, FailsTyped DEF Refused
  <2>. QED
    BY <1>5, <2>1 DEF Refused, TypeOK, Touched, chain
<1>6. CASE WaitForReceipt(t)
  <2>1. Touched
    <3>1. CASE Goto(t, "done") /\ UNCHANGED <<up, instances, unsure>>
      <4>1. "done" \in Points
        BY DEF Points
      <4>2. pc' \in [Tasks -> Points]
        BY <3>1, <4>1, GotoTyped
      <4>. QED
        BY <3>1, <4>2 DEF Touched, TypeOK
    <3>2. CASE \E executed \in BOOLEAN : Fails(t, executed)
      BY <3>2, FailsTyped
    <3>. QED
      BY <1>6, <3>1, <3>2 DEF WaitForReceipt
  <2>2. faults' \in Seq(Kinds)
    BY <1>6, FaultTyped DEF WaitForReceipt, TypeOK
  <2>. QED
    BY <1>6, <2>1, <2>2 DEF WaitForReceipt, TypeOK, Touched, chain
<1>7. CASE ReadFails(t)
  <2>1. Touched
    BY <1>7, FailsTyped DEF ReadFails
  <2>2. faults' \in Seq(Kinds)
    BY <1>7, FaultTyped DEF ReadFails
  <2>. QED
    BY <1>7, <2>1, <2>2 DEF ReadFails, TypeOK, Touched, chain
<1>. QED
  BY <1>1, <1>2, <1>3, <1>4, <1>5, <1>6, <1>7, GetClientTyped, AcceptedTyped,
     ReplacesTyped DEF Step

LEMMA NextTyped == TypeOK /\ [Next]_vars => TypeOK'
<1>. SUFFICES ASSUME TypeOK, [Next]_vars
              PROVE  TypeOK'
  OBVIOUS
<1>1. ASSUME NEW p \in Pods, Crash(p)
      PROVE  TypeOK'
  <2>1. Touched
    BY <1>1, ExitTyped DEF Crash
  <2>2. faults' \in Seq(Kinds)
    BY <1>1, FaultTyped DEF Crash
  <2>. QED
    BY <1>1, <2>1, <2>2 DEF Crash, TypeOK, Touched, chain
<1>2. CASE Mine
  <2>1. mined' \in 0..Len(sent') /\ reverted' \subseteq 1..mined' /\ deployed' \in BOOLEAN
    <3>1. mined' \in 0..Len(sent') /\ reverted' \subseteq 1..mined'
      <4>1. mined \in Nat /\ Len(sent) \in Nat /\ reverted \subseteq 1..mined
        BY DEF TypeOK
      <4>2. mined' = mined + 1 /\ mined < Len(sent) /\ sent' = sent
            /\ reverted' \subseteq reverted \cup {mined + 1}
        BY <1>2 DEF Mine
      <4>. QED
        BY <4>1, <4>2
    <3>2. deployed' \in BOOLEAN
      BY <1>2 DEF Mine, TypeOK
    <3>. QED
      BY <3>1, <3>2
  <2>2. faults' \in Seq(Kinds)
    BY <1>2, FaultTyped DEF Mine, TypeOK
  <2>. QED
    BY <1>2, <2>1, <2>2 DEF Mine, TypeOK, processes
<1>3. CASE UNCHANGED vars
  BY <1>3 DEF vars, chain, processes, TypeOK
<1>. QED
  BY <1>1, <1>2, <1>3, BootTyped, StepTyped DEF Next

(* Every reachable state is well typed: in particular no nonce is mined    *)
(* that was not sent, and no job has more attempts than it is given.       *)
THEOREM TypeCorrect == Spec => []TypeOK
<1>1. Init => TypeOK
  BY AccountsAssumption DEF Init, TypeOK, Points
<1>. QED
  BY <1>1, NextTyped, PTL DEF Spec

-----------------------------------------------------------------------------
(* The account has code, or will before anything sent from the n-th nonce  *)
(* on is mined.                                                            *)
Covered(n) == deployed \/ \E m \in (mined + 1)..n : sent[m].kind = "deploy"

(* Undisturbed, whoever has a client of the first service is covered, and  *)
(* so is everything it has executed.                                       *)
Past == {"store", "execute", "sendExecute"}
Prepared == \A t \in Tasks \ V2 : pc[t] \in Past => Covered(Len(sent))
CachedCovered == \A i \in instances : i[2] = "v1" => Covered(Len(sent))
SentCovered ==
  \A n \in (mined + 1)..Len(sent) :
    sent[n].kind = "execute" /\ sent[n].task \notin V2 => Covered(n - 1)

DeployedFirst == ~Disturbed => Prepared /\ CachedCovered /\ SentCovered

LEMMA FaultHappened ==
  ASSUME TypeOK, NEW kind \in Kinds, Fault(kind)
  PROVE  Happened(kind)' /\ \A k : Happened(k) => Happened(k)'
<1>1. faults' = Append(faults, kind) /\ faults \in Seq(Kinds)
  BY DEF Fault, TypeOK
<1>2. Len(faults) + 1 \in DOMAIN faults' /\ faults'[Len(faults) + 1] = kind
  BY <1>1
<1>3. Happened(kind)'
  BY <1>2 DEF Happened
<1>4. ASSUME NEW k, Happened(k)
      PROVE  Happened(k)'
  <2>1. PICK n \in DOMAIN faults : faults[n] = k
    BY <1>4 DEF Happened
  <2>2. n \in DOMAIN faults' /\ faults'[n] = k
    BY <1>1, <2>1
  <2>. QED
    BY <2>2 DEF Happened
<1>. QED
  BY <1>3, <1>4

(* Nothing that has been disturbed is mended.                              *)
LEMMA DisturbedStays ==
  ASSUME TypeOK, \/ UNCHANGED faults
                 \/ \E kind \in Kinds : Fault(kind),
         \A n \in reverted : n \in reverted' /\ sent'[n] = sent[n]
  PROVE  Disturbed => Disturbed'
<1>1. CASE UNCHANGED faults
  BY <1>1 DEF Disturbed, Happened
<1>2. CASE \E kind \in Kinds : Fault(kind)
  BY <1>2, FaultHappened DEF Disturbed
<1>. QED
  BY <1>1, <1>2

(* A step that leaves the chain alone keeps the invariant if whoever gets  *)
(* a client is covered.                                                    *)
LEMMA ChainKept ==
  ASSUME DeployedFirst, UNCHANGED chain, Disturbed => Disturbed',
         ~Disturbed => \A t \in Tasks \ V2 : pc'[t] \in Past => Covered(Len(sent)),
         ~Disturbed => \A i \in instances' : i[2] = "v1" => Covered(Len(sent))
  PROVE  DeployedFirst'
<1>. SUFFICES ASSUME ~Disturbed'
              PROVE  (Prepared /\ CachedCovered /\ SentCovered)'
  BY DEF DeployedFirst
<1>1. ~Disturbed /\ SentCovered
  BY DEF DeployedFirst
<1>2. \A n : Covered(n)' <=> Covered(n)
  BY DEF Covered, chain
<1>3. sent' = sent /\ mined' = mined
  BY DEF chain
<1>. QED
  BY <1>1, <1>2, <1>3 DEF Prepared, CachedCovered, SentCovered

(* What ends or fails gets no client.                                      *)
Loses ==
  /\ instances' \subseteq instances
  /\ \A t \in Tasks : pc'[t] \in {pc[t], "idle"}

LEMMA ExitLoses ==
  ASSUME TypeOK, NEW p, Exit(p)
  PROVE  Loses
BY DEF Exit, Loses, TypeOK

LEMMA FailsLoses ==
  ASSUME TypeOK, NEW t \in Tasks, NEW executed, Fails(t, executed)
  PROVE  Loses
BY ExitLoses DEF Fails, Goto, Loses, TypeOK

LEMMA LosesKeeps ==
  ASSUME DeployedFirst, UNCHANGED chain, Disturbed => Disturbed', Loses
  PROVE  DeployedFirst'
<1>1. "idle" \notin Past
  BY DEF Past
<1>2. ~Disturbed => \A t \in Tasks \ V2 : pc'[t] \in Past => Covered(Len(sent))
  BY <1>1 DEF DeployedFirst, Prepared, Loses
<1>3. ~Disturbed => \A i \in instances' : i[2] = "v1" => Covered(Len(sent))
  BY DEF DeployedFirst, CachedCovered, Loses
<1>. QED
  BY <1>2, <1>3, ChainKept

LEMMA ClientsKeep ==
  ASSUME TypeOK, DeployedFirst, NEW t \in Tasks,
         GetClient(t) \/ CreateV1(t) \/ CreateV2(t) \/ Store(t) \/ GetTransactionCount(t)
  PROVE  DeployedFirst'
<1>1. UNCHANGED chain
  BY DEF GetClient, CreateV1, CreateV2, Store, GetTransactionCount
<1>2. Disturbed => Disturbed'
  BY DisturbedStays DEF GetClient, CreateV1, CreateV2, Store, GetTransactionCount,
     DeployKernelAccount, Kinds, chain
<1>3. ASSUME ~Disturbed, NEW u \in Tasks \ V2, pc'[u] \in Past, pc[u] \notin Past
      PROVE  Covered(Len(sent))
  <2>1. u = t
    BY <1>3 DEF GetClient, CreateV1, CreateV2, Store, GetTransactionCount,
       DeployKernelAccount, Goto, TypeOK
  <2>2. Service(t) = "v1" /\ Client(t)[2] = "v1"
    BY <2>1 DEF Service, Client
  <2>3. CASE GetClient(t)
    <3>1. pc'[t] = IF Client(t) \in instances THEN HasClient(t) ELSE "create"
      BY <2>3 DEF GetClient, Goto, TypeOK
    <3>2. Client(t) \in instances
      BY <1>3, <2>1, <3>1 DEF Past
    <3>. QED
      BY <1>3, <2>2, <3>2 DEF DeployedFirst, CachedCovered
  <2>4. CASE CreateV1(t)
    <3>1. pc'[t] = "deploy" \/ deployed
      BY <2>4 DEF CreateV1, DeployKernelAccount, Goto, TypeOK
    <3>. QED
      BY <1>3, <2>1, <3>1 DEF Past, Covered
  <2>5. CASE CreateV2(t)
    BY <2>2, <2>5 DEF CreateV2
  <2>6. CASE Store(t)
    BY <1>3, <2>1, <2>6 DEF Store, Past
  <2>7. CASE GetTransactionCount(t)
    <3>1. pc[t] = "deploy" /\ pc'[t] = "sendDeploy"
      BY <1>3, <2>1, <2>7 DEF GetTransactionCount, Goto, Past, TypeOK
    <3>. QED
      BY <1>3, <2>1, <3>1 DEF Past
  <2>. QED
    BY <2>3, <2>4, <2>5, <2>6, <2>7
<1>4. ASSUME ~Disturbed, NEW i \in instances', i[2] = "v1", i \notin instances
      PROVE  Covered(Len(sent))
  <2>1. Store(t) /\ i = Client(t)
    BY <1>4 DEF GetClient, CreateV1, CreateV2, Store, GetTransactionCount, processes
  <2>2. t \notin V2 /\ pc[t] \in Past
    BY <1>4, <2>1 DEF Store, Client, Service, Past
  <2>. QED
    BY <1>4, <2>2 DEF DeployedFirst, Prepared
<1>5. ~Disturbed => \A u \in Tasks \ V2 : pc'[u] \in Past => Covered(Len(sent))
  BY <1>3 DEF DeployedFirst, Prepared
<1>6. ~Disturbed => \A i \in instances' : i[2] = "v1" => Covered(Len(sent))
  BY <1>4 DEF DeployedFirst, CachedCovered
<1>. QED
  BY <1>1, <1>2, <1>5, <1>6, ChainKept

(* What is accepted is covered, or covers itself.                          *)
LEMMA AcceptedKeeps ==
  ASSUME TypeOK, DeployedFirst, NEW t \in Tasks, Accepted(t)
  PROVE  DeployedFirst'
<1>. DEFINE l == Len(sent)
<1>1. /\ sent' = Append(sent, Transaction(t)) /\ sent \in Seq(Transactions)
      /\ UNCHANGED <<mined, deployed>>
  BY DEF Accepted, TypeOK
<1>2. /\ Len(sent') = l + 1 /\ sent'[l + 1] = Transaction(t)
      /\ \A n \in 1..l : sent'[n] = sent[n]
  BY <1>1, SentBySomeTask
<1>3. l \in Nat /\ mined \in 0..l
  BY <1>1 DEF TypeOK
<1>. HIDE DEF l
<1>4. Disturbed => Disturbed'
  <2>1. \A n \in reverted : n \in reverted' /\ sent'[n] = sent[n]
    BY <1>2, <1>3 DEF Accepted, TypeOK, l
  <2>. QED
    BY <2>1, DisturbedStays DEF Accepted, Kinds
<1>5. ASSUME NEW n \in 0..l, Covered(n), NEW k \in Int, k >= n
      PROVE  deployed' \/ \E m \in (mined + 1)..k : sent'[m].kind = "deploy"
  BY <1>1, <1>2, <1>3, <1>5 DEF Covered
<1>. SUFFICES ASSUME ~Disturbed'
              PROVE  (Prepared /\ CachedCovered /\ SentCovered)'
  BY DEF DeployedFirst
<1>6. Prepared /\ CachedCovered /\ SentCovered
  BY <1>4 DEF DeployedFirst
<1>7. Covered(l) => Covered(Len(sent))'
  BY <1>1, <1>2, <1>3, <1>5 DEF Covered
<1>8. instances' \subseteq instances
  BY FailsLoses DEF Accepted, Loses
<1>9. CachedCovered'
  BY <1>6, <1>7, <1>8 DEF CachedCovered, l
<1>10. ASSUME NEW u \in Tasks \ V2, pc'[u] \in Past
       PROVE  Covered(Len(sent))'
  <2>1. CASE pc'[u] = pc[u]
    BY <1>6, <1>7, <1>10, <2>1 DEF Prepared, l
  <2>2. CASE pc'[u] # pc[u]
    <3>1. u = t /\ pc'[u] = Sent(t)
      BY <1>10, <2>2, FailsLoses DEF Accepted, Goto, Loses, Past, TypeOK
    <3>2. Transaction(t).kind = "deploy"
      BY <1>10, <3>1 DEF Past, Sent, Transaction, Kind
    <3>3. l + 1 \in (mined + 1)..Len(sent')
      BY <1>2, <1>3
    <3>. QED
      BY <1>1, <1>2, <3>2, <3>3 DEF Covered
  <2>. QED
    BY <2>1, <2>2
<1>11. Prepared'
  BY <1>10 DEF Prepared
<1>12. ASSUME NEW n \in (mined' + 1)..Len(sent'), sent'[n].kind = "execute",
              sent'[n].task \notin V2
       PROVE  Covered(n - 1)'
  <2>1. CASE n \in (mined + 1)..l
    <3>1. Covered(n - 1) /\ n - 1 \in 0..l
      BY <1>2, <1>3, <1>6, <1>12, <2>1 DEF SentCovered, l
    <3>2. deployed' \/ \E m \in (mined + 1)..(n - 1) : sent'[m].kind = "deploy"
      BY <1>3, <1>5, <3>1
    <3>. QED
      BY <1>1, <3>2 DEF Covered
  <2>2. CASE n = l + 1
    <3>1. t \notin V2 /\ pc[t] \in Past
      BY <1>2, <1>12, <2>2 DEF Accepted, Sends, Transaction, Kind, Past
    <3>2. Covered(l)
      BY <1>6, <3>1 DEF Prepared, l
    <3>3. n - 1 = l /\ l \in 0..l /\ l \in Int /\ l >= l
      BY <1>3, <2>2
    <3>4. deployed' \/ \E m \in (mined + 1)..l : sent'[m].kind = "deploy"
      BY <1>3, <1>5, <3>2, <3>3
    <3>. QED
      BY <1>1, <3>3, <3>4 DEF Covered
  <2>. QED
    BY <1>1, <1>2, <1>3, <1>12, <2>1, <2>2
<1>13. SentCovered'
  BY <1>12 DEF SentCovered
<1>. QED
  BY <1>9, <1>11, <1>13

(* A deploy that is mined takes effect, or disturbs.                       *)
LEMMA MineKeeps ==
  ASSUME TypeOK, DeployedFirst, Mine
  PROVE  DeployedFirst'
<1>1. /\ mined' = mined + 1 /\ UNCHANGED <<sent, instances, pc>>
      /\ mined \in Nat /\ Len(sent) \in Nat
  BY DEF Mine, TypeOK
<1>2. Disturbed => Disturbed'
  BY DisturbedStays DEF Mine, Kinds
<1>. SUFFICES ASSUME ~Disturbed'
              PROVE  (Prepared /\ CachedCovered /\ SentCovered)'
  BY DEF DeployedFirst
<1>3. Prepared /\ CachedCovered /\ SentCovered
  BY <1>2 DEF DeployedFirst
<1>4. deployed' = (deployed \/ sent[mined + 1].kind = "deploy")
  <2>1. CASE reverted' = reverted \cup {mined + 1} /\ UNCHANGED deployed
    <3>1. sent[mined + 1].kind # "deploy"
      BY <1>1, <2>1 DEF Disturbed
    <3>. QED
      BY <2>1, <3>1 DEF TypeOK
  <2>. QED
    BY <2>1 DEF Mine
<1>5. ASSUME NEW n \in Int, Covered(n)
      PROVE  Covered(n)'
  <2>1. CASE deployed
    BY <1>4, <2>1 DEF Covered
  <2>2. ASSUME NEW m \in (mined + 1)..n, sent[m].kind = "deploy"
        PROVE  Covered(n)'
    <3>1. CASE m = mined + 1
      BY <1>4, <2>2, <3>1 DEF Covered
    <3>2. CASE m # mined + 1
      <4>1. m \in (mined' + 1)..n
        BY <1>1, <3>2
      <4>. QED
        BY <1>1, <2>2, <4>1 DEF Covered
    <3>. QED
      BY <3>1, <3>2
  <2>. QED
    BY <1>5, <2>1, <2>2 DEF Covered
<1>6. Covered(Len(sent)) => Covered(Len(sent))'
  BY <1>1, <1>5 DEF Covered
<1>7. Prepared' /\ CachedCovered'
  BY <1>1, <1>3, <1>6 DEF Prepared, CachedCovered
<1>8. ASSUME NEW n \in (mined' + 1)..Len(sent'), sent'[n].kind = "execute",
             sent'[n].task \notin V2
      PROVE  Covered(n - 1)'
  <2>1. n \in (mined + 1)..Len(sent) /\ n - 1 \in Int
    BY <1>1
  <2>2. Covered(n - 1)
    BY <1>1, <1>3, <1>8, <2>1 DEF SentCovered
  <2>. QED
    BY <1>1, <1>5, <2>1, <2>2 DEF Covered
<1>. QED
  BY <1>7, <1>8 DEF SentCovered

LEMMA NextDeployedFirst == TypeOK /\ DeployedFirst /\ [Next]_vars => DeployedFirst'
<1>. SUFFICES ASSUME TypeOK, DeployedFirst, [Next]_vars
              PROVE  DeployedFirst'
  OBVIOUS
<1>1. ASSUME NEW p \in Pods, Boot(p)
      PROVE  DeployedFirst'
  <2>1. UNCHANGED chain /\ Loses
    BY <1>1 DEF Boot, Loses
  <2>2. Disturbed => Disturbed'
    BY <1>1, DisturbedStays DEF Boot, Kinds, chain
  <2>. QED
    BY <2>1, <2>2, LosesKeeps
<1>2. ASSUME NEW p \in Pods, Crash(p)
      PROVE  DeployedFirst'
  <2>1. UNCHANGED chain /\ Loses
    BY <1>2, ExitLoses DEF Crash
  <2>2. Disturbed => Disturbed'
    BY <1>2, DisturbedStays DEF Crash, Kinds, chain
  <2>. QED
    BY <2>1, <2>2, LosesKeeps
<1>3. ASSUME NEW t \in Tasks, Refused(t) \/ ReadFails(t)
      PROVE  DeployedFirst'
  <2>1. UNCHANGED chain /\ Loses
    BY <1>3, FailsLoses DEF Refused, ReadFails
  <2>2. Disturbed => Disturbed'
    BY <1>3, DisturbedStays DEF Refused, ReadFails, Kinds, chain
  <2>. QED
    BY <2>1, <2>2, LosesKeeps
<1>4. ASSUME NEW t \in Tasks, WaitForReceipt(t)
      PROVE  DeployedFirst'
  <2>1. UNCHANGED chain
    BY <1>4 DEF WaitForReceipt
  <2>2. Disturbed => Disturbed'
    BY <1>4, DisturbedStays DEF WaitForReceipt, Kinds, chain
  <2>3. CASE \E executed : Fails(t, executed)
    BY <2>1, <2>2, <2>3, FailsLoses, LosesKeeps
  <2>4. CASE Goto(t, "done") /\ UNCHANGED instances
    <3>1. \A u \in Tasks : pc'[u] \in Past => pc[u] \in Past
      BY <2>4 DEF Goto, Past, TypeOK
    <3>. QED
      BY <2>1, <2>2, <2>4, <3>1, ChainKept DEF DeployedFirst, Prepared, CachedCovered
  <2>. QED
    BY <1>4, <2>3, <2>4 DEF WaitForReceipt
<1>5. ASSUME NEW t \in Tasks, Replaces(t)
      PROVE  DeployedFirst'
  <2>1. Disturbed'
    BY <1>5, FaultHappened DEF Replaces, Disturbed, Kinds
  <2>. QED
    BY <2>1 DEF DeployedFirst
<1>6. ASSUME NEW t \in Tasks, Step(t)
      PROVE  DeployedFirst'
  BY <1>3, <1>4, <1>5, <1>6, ClientsKeep, AcceptedKeeps DEF Step
<1>7. CASE UNCHANGED vars
  BY <1>7, LosesKeeps DEF vars, chain, Loses, Disturbed, Happened
<1>. QED
  BY <1>1, <1>2, <1>6, <1>7, MineKeeps DEF Next

(* Unless a deploy reverts or is replaced, what the first service executes *)
(* is mined on an account with code, for any number of processes, hooks    *)
(* and jobs and whatever crashes, is lost or times out                     *)
(* (deployKernelAccount, executeTransaction).                              *)
THEOREM Deployed == Spec => ExecutesDeployed
<1>1. Init => DeployedFirst
  BY DEF Init, DeployedFirst, Prepared, CachedCovered, SentCovered, Past
<1>2. ASSUME TypeOK, DeployedFirst, [Next]_vars, mined' # mined, ~Disturbed
      PROVE  LET s == sent[mined'] IN s.kind = "execute" /\ s.task \notin V2 => deployed
  <2>1. Mine
    BY <1>2 DEF Next, Boot, Crash, Step, GetClient, CreateV1, CreateV2, Store,
       GetTransactionCount, Refused, Accepted, Replaces, WaitForReceipt, ReadFails,
       vars, chain
  <2>2. /\ mined' = mined + 1 /\ mined' \in (mined + 1)..Len(sent)
        /\ mined \in Nat
    <3>1. Len(sent) \in Nat /\ mined \in Nat
      BY <1>2 DEF TypeOK
    <3>2. mined < Len(sent) /\ mined' = mined + 1
      BY <2>1 DEF Mine
    <3>. QED
      BY <3>1, <3>2
  <2>3. Covered(mined) => deployed
    BY <2>2 DEF Covered
  <2>4. mined' - 1 = mined
    BY <2>2
  <2>. QED
    BY <1>2, <2>2, <2>3, <2>4 DEF DeployedFirst, SentCovered
<1>3. TypeOK /\ DeployedFirst /\ [Next]_vars =>
        [mined' # mined /\ ~Disturbed =>
           LET s == sent[mined'] IN s.kind = "execute" /\ s.task \notin V2 => deployed]_vars
  BY <1>2
<1>. QED
  BY <1>1, <1>3, NextDeployedFirst, TypeCorrect, PTL DEF Spec, ExecutesDeployed

-----------------------------------------------------------------------------
(* The executions of a job that may take effect, without the one it waits  *)
(* for, which may still revert, are accounted for: at most one for each    *)
(* attempt that failed with it sent, and one that a job that is done has   *)
(* seen succeed.                                                           *)
Awaited(j) == IF pc[j] = "wait" THEN {nonce[j] + 1} ELSE {}
Open(j) == Executions(j) \ Awaited(j)
Allowed(j) == unsure[j] + (IF pc[j] = "done" THEN 1 ELSE 0)
Accounted(j) == Cardinality(Open(j)) <= Allowed(j)

LEMMA ExecutionsFinite ==
  ASSUME TypeOK, NEW j \in Jobs
  PROVE  IsFiniteSet(Executions(j))
<1>1. IsFiniteSet(1..Len(sent))
  BY FS_Interval DEF TypeOK
<1>2. Executions(j) \in SUBSET (1..Len(sent))
  BY DEF Executions, TypeOK
<1>. QED
  BY <1>1, <1>2, FS_Subset

(* A job stays accounted for when it has no more executions than before,   *)
(* or one more and one more that is allowed.                               *)
LEMMA CountKept ==
  ASSUME TypeOK, TypeOK', NEW j \in Jobs, Accounted(j),
         \/ Open(j)' \subseteq Open(j) /\ Allowed(j)' >= Allowed(j)
         \/ \E n : Open(j)' \subseteq Open(j) \cup {n} /\ Allowed(j)' >= Allowed(j) + 1
  PROVE  Accounted(j)'
<1>1. IsFiniteSet(Open(j)) /\ Cardinality(Open(j)) \in Nat
  BY ExecutionsFinite, FS_Subset, FS_CardinalityType DEF Open
<1>2. Allowed(j) \in Nat /\ Allowed(j)' \in Nat
  BY DEF TypeOK, Allowed
<1>3. ASSUME NEW n, Open(j)' \subseteq Open(j) \cup {n}
      PROVE  Cardinality(Open(j)') \in Nat /\ Cardinality(Open(j)') <= Cardinality(Open(j)) + 1
  <2>1. /\ IsFiniteSet(Open(j) \cup {n})
        /\ Cardinality(Open(j) \cup {n}) \in {Cardinality(Open(j)), Cardinality(Open(j)) + 1}
    BY <1>1, FS_AddElement
  <2>2. Open(j)' \in SUBSET (Open(j) \cup {n})
    BY <1>3
  <2>3. IsFiniteSet(Open(j)') /\ Cardinality(Open(j)') <= Cardinality(Open(j) \cup {n})
    BY <2>1, <2>2, FS_Subset
  <2>. QED
    BY <1>1, <2>1, <2>3, FS_CardinalityType
<1>4. ASSUME Open(j)' \subseteq Open(j)
      PROVE  Cardinality(Open(j)') \in Nat /\ Cardinality(Open(j)') <= Cardinality(Open(j))
  <2>1. Open(j)' \in SUBSET Open(j)
    BY <1>4
  <2>. QED
    BY <1>1, <2>1, FS_Subset, FS_CardinalityType
<1>. QED
  BY <1>1, <1>2, <1>3, <1>4 DEF Accounted

(* A process that ends counts what its jobs wait for.                      *)
LEMMA ExitAccounts ==
  ASSUME TypeOK, TypeOK', NEW p \in Pods, Exit(p), UNCHANGED nonce,
         NEW j \in Jobs, Accounted(j), Executions(j)' \subseteq Executions(j)
  PROVE  Accounted(j)'
<1>1. unsure[j] \in Nat /\ j \in Tasks
  BY DEF TypeOK, Tasks
<1>2. CASE PodOf[j] = p /\ pc[j] # "done"
  <2>1. pc'[j] = "idle" /\ unsure'[j] = IF pc[j] = "wait" THEN unsure[j] + 1 ELSE unsure[j]
    BY <1>1, <1>2 DEF Exit
  <2>2. CASE pc[j] = "wait"
    <3>1. Open(j)' \subseteq Open(j) \cup {nonce[j] + 1}
      BY <2>2 DEF Open, Awaited
    <3>. QED
      BY <1>1, <2>1, <2>2, <3>1, CountKept DEF Allowed
  <2>3. CASE pc[j] # "wait"
    BY <1>1, <1>2, <2>1, <2>3, CountKept DEF Allowed, Open, Awaited
  <2>. QED
    BY <2>2, <2>3
<1>3. CASE ~(PodOf[j] = p /\ pc[j] # "done")
  <2>1. pc'[j] = pc[j] /\ unsure'[j] = unsure[j]
    BY <1>1, <1>3 DEF Exit
  <2>. QED
    BY <1>1, <2>1, CountKept DEF Allowed, Open, Awaited
<1>. QED
  BY <1>2, <1>3

(* A task that fails is unsure, or has nothing on the chain.               *)
LEMMA FailsAccounts ==
  ASSUME TypeOK, TypeOK', NEW t \in Tasks, NEW executed \in BOOLEAN, Fails(t, executed),
         UNCHANGED nonce, pc[t] # "done",
         NEW j \in Jobs, Accounted(j),
         Executions(j)' \subseteq
           Executions(j) \cup (IF j = t /\ executed THEN {nonce[t] + 1} ELSE {}),
         j = t /\ pc[t] = "wait" /\ ~executed => nonce[t] + 1 \notin Executions(j)'
  PROVE  Accounted(j)'
<1>1. unsure[j] \in Nat /\ j \in Tasks /\ pc \in [Tasks -> Points]
  BY DEF TypeOK, Tasks
<1>2. CASE t \in Hooks /\ Exit(PodOf[t])
  <2>1. PodOf[t] \in Pods /\ j # t
    BY <1>2, AccountsAssumption
  <2>. QED
    BY <1>2, <2>1, ExitAccounts
<1>3. CASE /\ t \in Jobs /\ Goto(t, "idle")
           /\ unsure' = [unsure EXCEPT ![t] = IF executed THEN @ + 1 ELSE @]
  <2>1. CASE j = t
    <3>1. pc'[j] = "idle"
      BY <1>1, <1>3, <2>1 DEF Goto
    <3>2. unsure'[j] = IF executed THEN unsure[j] + 1 ELSE unsure[j]
      BY <1>3, <2>1 DEF TypeOK
    <3>3. CASE executed
      <4>1. Open(j)' \subseteq Open(j) \cup {nonce[j] + 1}
        BY <2>1 DEF Open, Awaited
      <4>. QED
        BY <1>1, <2>1, <3>1, <3>2, <3>3, <4>1, CountKept DEF Allowed
    <3>4. CASE ~executed
      <4>1. Open(j)' \subseteq Open(j)
        BY <2>1, <3>1, <3>4 DEF Open, Awaited
      <4>. QED
        BY <1>1, <2>1, <3>1, <3>2, <3>4, <4>1, CountKept DEF Allowed
    <3>. QED
      BY <3>3, <3>4
  <2>2. CASE j # t
    <3>1. pc'[j] = pc[j] /\ unsure'[j] = unsure[j]
      BY <1>1, <1>3, <2>2 DEF Goto, TypeOK
    <3>. QED
      BY <1>1, <2>2, <3>1, CountKept DEF Allowed, Open, Awaited
  <2>. QED
    BY <2>1, <2>2
<1>. QED
  BY <1>2, <1>3 DEF Fails

(* A task that goes on waits for what it has just sent, or has seen what   *)
(* it waited for succeed.                                                  *)
LEMMA GotoAccounts ==
  ASSUME TypeOK, TypeOK', NEW t \in Tasks, NEW point, Goto(t, point), UNCHANGED unsure,
         \A u \in Tasks \ {t} : nonce'[u] = nonce[u],
         pc[t] \notin {"wait", "done"} \/ (pc[t] = "wait" /\ point = "done"),
         NEW j \in Jobs, Accounted(j),
         Executions(j)' \subseteq
           Executions(j) \cup (IF j = t /\ point = "wait" THEN {nonce'[t] + 1} ELSE {})
  PROVE  Accounted(j)'
<1>1. unsure[j] \in Nat /\ j \in Tasks /\ pc \in [Tasks -> Points]
  BY DEF TypeOK, Tasks
<1>2. pc'[j] = IF j = t THEN point ELSE pc[j]
  BY <1>1 DEF Goto
<1>3. CASE j = t /\ pc[t] = "wait"
  <2>1. Open(j)' \subseteq Open(j) \cup {nonce[j] + 1}
    BY <1>2, <1>3 DEF Open, Awaited
  <2>2. pc[j] = "wait" /\ pc'[j] = "done" /\ unsure'[j] = unsure[j]
    BY <1>2, <1>3
  <2>3. Allowed(j)' = Allowed(j) + 1
    BY <1>1, <2>2 DEF Allowed
  <2>4. Allowed(j)' >= Allowed(j) + 1
    BY <1>1, <2>3 DEF Allowed
  <2>. QED
    BY <2>1, <2>4, CountKept
<1>4. CASE j = t /\ pc[t] # "wait"
  <2>1. Open(j)' \subseteq Open(j)
    BY <1>2, <1>4 DEF Open, Awaited
  <2>. QED
    BY <1>1, <1>2, <1>4, <2>1, CountKept DEF Allowed
<1>5. CASE j # t
  <2>1. nonce'[j] = nonce[j] /\ pc'[j] = pc[j]
    BY <1>1, <1>2, <1>5
  <2>. QED
    BY <1>1, <1>5, <2>1, CountKept DEF Allowed, Open, Awaited
<1>. QED
  BY <1>3, <1>4, <1>5

(* What is sent for another task, or is no execution, is none of the job.  *)
LEMMA SentOne ==
  ASSUME TypeOK, NEW t \in Tasks, NEW j \in Jobs, NEW n \in DOMAIN sent', UNCHANGED reverted,
         \A m \in DOMAIN sent' \ {n} : m \in DOMAIN sent /\ sent'[m] = sent[m],
         sent'[n] = Transaction(t)
  PROVE  Executions(j)' \subseteq
           Executions(j) \cup (IF j = t /\ Kind(t) = "execute" THEN {n} ELSE {})
<1>1. sent'[n] = [kind |-> "execute", task |-> j] => j = t /\ Kind(t) = "execute"
  BY DEF Transaction
<1>. QED
  BY <1>1 DEF Executions

(* Each transaction sent is accounted for.                                 *)
LEMMA AcceptedAccounts ==
  ASSUME TypeOK, TypeOK', NEW t \in Tasks, NEW j \in Jobs, Accounted(j), Accepted(t)
  PROVE  Accounted(j)'
<1>1. /\ sent' = Append(sent, Transaction(t)) /\ pc[t] \in {"sendDeploy", "sendExecute"}
      /\ sent \in Seq(Transactions) /\ UNCHANGED <<reverted, nonce>> /\ nonce[t] = Len(sent)
  BY DEF Accepted, Sends, TypeOK
<1>2. /\ Len(sent) + 1 \in DOMAIN sent' /\ sent'[Len(sent) + 1] = Transaction(t)
      /\ \A m \in DOMAIN sent' \ {Len(sent) + 1} : m \in DOMAIN sent /\ sent'[m] = sent[m]
  BY <1>1, AppendProperties, SentBySomeTask
<1>3. Executions(j)' \subseteq
        Executions(j) \cup (IF j = t /\ Kind(t) = "execute" THEN {nonce[t] + 1} ELSE {})
  BY <1>1, <1>2, SentOne
<1>4. CASE Goto(t, Sent(t)) /\ UNCHANGED unsure
  <2>1. Kind(t) = "execute" <=> Sent(t) = "wait"
    BY <1>1 DEF Kind, Sent
  <2>. QED
    BY <1>1, <1>3, <1>4, <2>1, GotoAccounts
<1>5. CASE Fails(t, Kind(t) = "execute")
  <2>1. (Kind(t) = "execute") \in BOOLEAN /\ pc[t] # "done" /\ pc[t] # "wait"
    BY <1>1
  <2>. QED
    BY <1>1, <1>3, <1>5, <2>1, FailsAccounts
<1>. QED
  BY <1>4, <1>5 DEF Accepted

LEMMA ReplacesAccounts ==
  ASSUME TypeOK, TypeOK', NEW t \in Tasks, NEW j \in Jobs, Accounted(j), Replaces(t)
  PROVE  Accounted(j)'
<1>1. /\ sent' = [sent EXCEPT ![nonce[t] + 1] = Transaction(t)]
      /\ pc[t] \in {"sendDeploy", "sendExecute"}
      /\ Goto(t, Sent(t)) /\ UNCHANGED <<unsure, reverted, nonce>>
  BY DEF Replaces, Sends
<1>2. nonce[t] + 1 \in 1..Len(sent) /\ sent \in Seq(Transactions)
  BY DEF Replaces, TypeOK
<1>3. /\ nonce[t] + 1 \in DOMAIN sent' /\ sent'[nonce[t] + 1] = Transaction(t)
      /\ \A m \in DOMAIN sent' \ {nonce[t] + 1} : m \in DOMAIN sent /\ sent'[m] = sent[m]
  BY <1>1, <1>2
<1>4. Executions(j)' \subseteq
        Executions(j) \cup (IF j = t /\ Kind(t) = "execute" THEN {nonce[t] + 1} ELSE {})
  BY <1>1, <1>3, SentOne
<1>5. Kind(t) = "execute" <=> Sent(t) = "wait"
  BY <1>1 DEF Kind, Sent
<1>. QED
  BY <1>1, <1>4, <1>5, GotoAccounts

LEMMA StepAccounts ==
  ASSUME TypeOK, TypeOK', NEW t \in Tasks, NEW j \in Jobs, Accounted(j), Step(t)
  PROVE  Accounted(j)'
<1>0. UNCHANGED <<sent, reverted>> => Executions(j)' = Executions(j)
  BY DEF Executions
<1>1. CASE GetClient(t) \/ CreateV1(t) \/ CreateV2(t) \/ Store(t) \/ GetTransactionCount(t)
  <2>1. UNCHANGED <<sent, reverted, unsure>> /\ pc[t] \notin {"wait", "done"}
    BY <1>1 DEF GetClient, CreateV1, CreateV2, Store, GetTransactionCount, chain
  <2>2. \E point : Goto(t, point)
    BY <1>1 DEF GetClient, CreateV1, CreateV2, Store, GetTransactionCount, DeployKernelAccount
  <2>3. \A u \in Tasks \ {t} : nonce'[u] = nonce[u]
    BY <1>1 DEF GetClient, CreateV1, CreateV2, Store, GetTransactionCount, TypeOK
  <2>. QED
    BY <1>0, <2>1, <2>2, <2>3, GotoAccounts
<1>2. CASE Refused(t) \/ ReadFails(t)
  <2>1. UNCHANGED <<sent, reverted, nonce>> /\ Fails(t, FALSE) /\ pc[t] \notin {"wait", "done"}
    BY <1>2 DEF Refused, ReadFails, chain, Sends
  <2>. QED
    BY <1>0, <2>1, FailsAccounts
<1>3. CASE WaitForReceipt(t)
  <2>1. UNCHANGED <<sent, reverted, nonce>> /\ pc[t] = "wait"
    BY <1>3 DEF WaitForReceipt, chain
  <2>2. CASE Goto(t, "done") /\ UNCHANGED unsure
    BY <1>0, <2>1, <2>2, GotoAccounts
  <2>3. CASE Fails(t, TRUE)
    BY <1>0, <2>1, <2>3, FailsAccounts
  <2>4. CASE Reverted(t) /\ Fails(t, FALSE)
    <3>1. nonce[t] + 1 \notin Executions(j)'
      BY <2>1, <2>4 DEF Reverted, Executions
    <3>. QED
      BY <1>0, <2>1, <2>4, <3>1, FailsAccounts
  <2>. QED
    BY <1>3, <2>2, <2>3, <2>4 DEF WaitForReceipt
<1>. QED
  BY <1>1, <1>2, <1>3, AcceptedAccounts, ReplacesAccounts DEF Step

AllAccounted == \A j \in Jobs : Accounted(j)

LEMMA NextAccounts == TypeOK /\ TypeOK' /\ AllAccounted /\ [Next]_vars => AllAccounted'
<1>. SUFFICES ASSUME TypeOK, TypeOK', AllAccounted, [Next]_vars, NEW j \in Jobs
              PROVE  Accounted(j)'
  BY DEF AllAccounted
<1>0. Accounted(j)
  BY DEF AllAccounted
<1>1. ASSUME NEW p \in Pods, Crash(p)
      PROVE  Accounted(j)'
  <2>1. UNCHANGED <<sent, reverted, nonce>> /\ Exit(p)
    BY <1>1 DEF Crash, chain
  <2>2. Executions(j)' \subseteq Executions(j)
    BY <2>1 DEF Executions
  <2>. QED
    BY <1>0, <2>1, <2>2, ExitAccounts
<1>2. CASE (\E p \in Pods : Boot(p)) \/ Mine \/ UNCHANGED vars
  <2>1. UNCHANGED <<sent, pc, nonce, unsure>> /\ reverted \subseteq reverted'
    BY <1>2 DEF Boot, Mine, vars, chain
  <2>2. Open(j)' \subseteq Open(j)
    BY <2>1 DEF Open, Awaited, Executions
  <2>3. Allowed(j) \in Nat /\ Allowed(j)' = Allowed(j)
    BY <2>1 DEF Allowed, TypeOK
  <2>. QED
    BY <1>0, <2>2, <2>3, CountKept
<1>. QED
  BY <1>0, <1>1, <1>2, StepAccounts DEF Next

(* What a job is to execute is on the chain to take effect a second time   *)
(* only if an earlier attempt sent it and failed without seeing it revert, *)
(* whatever collides, reverts, is replaced or dies (executeFulfillIntent,  *)
(* KernelAccountClient.execute).                                           *)
THEOREM Once == Spec => []OncePerJob
<1>1. Init => AllAccounted
  <2>. SUFFICES ASSUME Init, NEW j \in Jobs PROVE Accounted(j)
    BY DEF AllAccounted
  <2>1. Open(j) = {} /\ Allowed(j) = 0
    BY DEF Init, Executions, Open, Allowed, Tasks
  <2>. QED
    BY <2>1, FS_EmptySet DEF Accounted
<1>2. TypeOK /\ AllAccounted => OncePerJob
  <2>. SUFFICES ASSUME TypeOK, NEW j \in Jobs, Accounted(j)
                PROVE  Cardinality(Executions(j)) <= 1 + unsure[j]
    BY DEF OncePerJob, AllAccounted
  <2>1. unsure[j] \in Nat /\ IsFiniteSet(Executions(j)) /\ IsFiniteSet(Open(j))
    BY ExecutionsFinite, FS_Subset DEF TypeOK, Open
  <2>2. Cardinality(Executions(j)) \in Nat /\ Cardinality(Open(j)) \in Nat
    BY <2>1, FS_CardinalityType
  <2>3. CASE pc[j] = "wait"
    <3>1. Executions(j) \in SUBSET (Open(j) \cup {nonce[j] + 1})
      BY <2>3 DEF Open, Awaited
    <3>2. /\ IsFiniteSet(Open(j) \cup {nonce[j] + 1})
          /\ Cardinality(Open(j) \cup {nonce[j] + 1}) \in {Cardinality(Open(j)), Cardinality(Open(j)) + 1}
      BY <2>1, FS_AddElement
    <3>3. Cardinality(Executions(j)) <= Cardinality(Open(j) \cup {nonce[j] + 1})
      BY <3>1, <3>2, FS_Subset
    <3>. QED
      BY <2>1, <2>2, <2>3, <3>2, <3>3 DEF Accounted, Allowed
  <2>4. CASE pc[j] # "wait"
    <3>1. Open(j) = Executions(j)
      BY <2>4 DEF Open, Awaited
    <3>. QED
      BY <2>1, <2>2, <3>1 DEF Accounted, Allowed
  <2>. QED
    BY <2>3, <2>4
<1>. QED
  BY <1>1, <1>2, NextAccounts, TypeCorrect, PTL DEF Spec
=============================================================================
