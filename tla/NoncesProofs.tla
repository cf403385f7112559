---------------------------- MODULE NoncesProofs ----------------------------
(***************************************************************************)
(* Type correctness of Nonces, that no nonce is handed out twice between   *)
(* two syncs, and that a sync which ends without a failure has renewed the *)
(* nonces of all chains.                                                   *)
(***************************************************************************)
EXTENDS Nonces, TLAPS

(* A process that ends keeps its part of the state well typed.             *)
LEMMA ExitTyped ==
  ASSUME TypeOK, NEW p \in Pods, Exit(p)
  PROVE  /\ pc' \in [Pods -> {"down", "query", "add", "up"}]
         /\ seen' \in [Pods -> Times]
         /\ jobs' \in [Times -> {"absent", "waiting", "active", "ended"}]
         /\ stalls' \in [Times -> Nat]
         /\ job' \in [Pods -> Times \cup {None}]
         /\ read' \in [Pods -> [Chains -> 0..MaxCount \cup {None}]]
         /\ toSet' \in [Pods -> SUBSET Chains]
         /\ failed' \subseteq Times
         /\ UNCHANGED <<now, count, nonce, updated, handed, starts>>
<1>1. 0 \in Times /\ None \notin Times
  BY NoncesAssumption DEF Times, None
<1>2. Unread \in [Chains -> 0..MaxCount \cup {None}]
  BY DEF Unread
<1>3. /\ job' \in [Pods -> Times \cup {None}]
      /\ read' \in [Pods -> [Chains -> 0..MaxCount \cup {None}]]
      /\ toSet' \in [Pods -> SUBSET Chains]
  BY <1>2 DEF Exit, Forgets, TypeOK
<1>4. /\ pc' \in [Pods -> {"down", "query", "add", "up"}]
      /\ seen' \in [Pods -> Times]
      /\ UNCHANGED <<now, count, nonce, updated, handed, starts>>
  BY <1>1 DEF Exit, store, TypeOK
<1>5. /\ jobs' \in [Times -> {"absent", "waiting", "active", "ended"}]
      /\ stalls' \in [Times -> Nat]
      /\ failed' \subseteq Times
  <2>1. CASE job[p] = None
    BY <2>1 DEF Exit, TypeOK
  <2>2. CASE job[p] # None
    <3>1. job[p] \in Times
      BY <2>2 DEF TypeOK
    <3>2. stalls[job[p]] + 1 \in Nat
      BY <3>1 DEF TypeOK
    <3>3. stalls' \in [Times -> Nat]
      BY <2>2, <3>1, <3>2 DEF Exit, TypeOK
    <3>4. CASE stalls[job[p]] < MaxStalls
      BY <2>2, <3>1, <3>3, <3>4 DEF Exit, TypeOK
    <3>5. CASE ~(stalls[job[p]] < MaxStalls)
      <4>1. /\ jobs' = [jobs EXCEPT ![job[p]] = "ended"]
            /\ failed' = failed \cup {job[p]}
        BY <2>2, <3>5 DEF Exit
      <4>2. jobs' \in [Times -> {"absent", "waiting", "active", "ended"}]
        BY <4>1 DEF TypeOK
      <4>3. failed' \subseteq Times
        BY <3>1, <4>1 DEF TypeOK
      <4>. QED
        BY <3>3, <4>2, <4>3
    <3>. QED
      BY <3>4, <3>5
  <2>. QED
    BY <2>1, <2>2
<1>. QED
  BY <1>3, <1>4, <1>5

(* So does a sync that ends.                                               *)
LEMMA SyncEndsTyped ==
  ASSUME TypeOK, NEW p \in Pods, SyncEnds(p)
  PROVE  /\ jobs' \in [Times -> {"absent", "waiting", "active", "ended"}]
         /\ job' \in [Pods -> Times \cup {None}]
         /\ read' \in [Pods -> [Chains -> 0..MaxCount \cup {None}]]
         /\ toSet' \in [Pods -> SUBSET Chains]
<1>1. Unread \in [Chains -> 0..MaxCount \cup {None}]
  BY DEF Unread
<1>. QED
  BY <1>1 DEF SyncEnds, Forgets, TypeOK

LEMMA SettledTyped ==
  ASSUME TypeOK, NEW p \in Pods, NEW c \in Chains, Settled(p, c)
  PROVE  /\ jobs' \in [Times -> {"absent", "waiting", "active", "ended"}]
         /\ job' \in [Pods -> Times \cup {None}]
         /\ read' \in [Pods -> [Chains -> 0..MaxCount \cup {None}]]
         /\ toSet' \in [Pods -> SUBSET Chains]
<1>1. CASE toSet[p] = {c} /\ SyncEnds(p)
  BY <1>1, SyncEndsTyped
<1>2. CASE toSet[p] # {c} /\ ~(toSet[p] = {c} /\ SyncEnds(p))
  BY <1>2 DEF Settled, TypeOK
<1>. QED
  BY <1>1, <1>2 DEF Settled

(* What is read is a count, when all has been read.                        *)
LEMMA ReadIsCount ==
  ASSUME TypeOK, NEW p \in Pods, NEW c \in Chains, Ready(p, c)
  PROVE  read[p][c] \in Nat
<1>1. read[p] \in [Chains -> 0..MaxCount \cup {None}]
  BY DEF TypeOK
<1>2. read[p][c] \in 0..MaxCount
  BY <1>1 DEF Ready
<1>. QED
  BY <1>2, NoncesAssumption

LEMMA StepTyped ==
  ASSUME TypeOK, NEW p \in Pods, Step(p)
  PROVE  TypeOK'
<1>1. CASE Boot(p)
  <2>1. starts' \in 0..MaxStarts
    BY <1>1, NoncesAssumption DEF Boot, TypeOK
  <2>. QED
    BY <1>1, <2>1 DEF Boot, TypeOK, store, queue, sync
<1>2. CASE ShouldSync(p)
  BY <1>2 DEF ShouldSync, TypeOK, store, queue, sync
<1>3. CASE AddSync(p)
  <2>1. 0 \in Times
    BY NoncesAssumption DEF Times
  <2>. QED
    BY <1>3, <2>1 DEF AddSync, TypeOK, store, sync
<1>4. CASE SyncQueueThrows(p) \/ Crash(p)
  <2>1. Exit(p)
    BY <1>4 DEF SyncQueueThrows, Crash
  <2>. QED
    BY <2>1, ExitTyped DEF TypeOK
<1>5. ASSUME NEW t \in Times, TakeSync(p, t)
      PROVE  TypeOK'
  BY <1>5 DEF TakeSync, TypeOK, store, boots
<1>6. CASE ReadFails(p)
  <2>1. failed' \subseteq Times
    BY <1>6 DEF ReadFails, TypeOK
  <2>2. SyncEnds(p)
    BY <1>6 DEF ReadFails
  <2>. QED
    BY <1>6, <2>1, <2>2, SyncEndsTyped DEF ReadFails, TypeOK, store, boots
<1>7. ASSUME NEW c \in Chains, ReadCount(p, c)
      PROVE  TypeOK'
  <2>1. read[p] \in [Chains -> 0..MaxCount \cup {None}] /\ count[c] \in 0..MaxCount
    BY DEF TypeOK
  <2>2. read' \in [Pods -> [Chains -> 0..MaxCount \cup {None}]]
    BY <1>7, <2>1 DEF ReadCount, TypeOK
  <2>. QED
    BY <1>7, <2>2 DEF ReadCount, TypeOK, store, boots, queue
<1>8. ASSUME NEW c \in Chains, SetNonce(p, c)
      PROVE  TypeOK'
  <2>1. read[p][c] \in Nat /\ Settled(p, c)
    BY <1>8, ReadIsCount DEF SetNonce
  <2>2. /\ nonce' \in [Chains -> Nat \cup {None}]
        /\ updated' \in [Chains -> Times]
        /\ handed' \in [Chains -> Seq(Nat)]
    BY <1>8, <2>1 DEF SetNonce, TypeOK
  <2>. QED
    BY <1>8, <2>1, <2>2, SettledTyped DEF SetNonce, TypeOK, boots
<1>9. ASSUME NEW c \in Chains, SetFails(p, c)
      PROVE  TypeOK'
  <2>1. Settled(p, c)
    BY <1>9 DEF SetFails
  <2>2. failed' \subseteq Times
    BY <1>9 DEF SetFails, Ready, TypeOK
  <2>. QED
    BY <1>9, <2>1, <2>2, SettledTyped DEF SetFails, TypeOK, store, boots
<1>. QED
  BY <1>1, <1>2, <1>3, <1>4, <1>5, <1>6, <1>7, <1>8, <1>9 DEF Step

(* A nonce handed out is the one kept from then on.                        *)
LEMMA HandOut ==
  ASSUME TypeOK, NEW c \in Chains, GetIncNonce(c)
  PROVE  \E n \in Nat :
           /\ n > nonce[c]
           /\ nonce' = [nonce EXCEPT ![c] = n]
           /\ handed' = [handed EXCEPT ![c] = Append(handed[c], n)]
<1>. DEFINE n == IF nonce[c] = None THEN 1 ELSE nonce[c] + 1
<1>1. nonce[c] \in Nat \cup {None}
  BY DEF TypeOK
<1>2. n \in Nat /\ n > nonce[c]
  BY <1>1 DEF None
<1>. QED
  BY <1>2 DEF GetIncNonce

LEMMA NextTyped == TypeOK /\ [Next]_vars => TypeOK'
<1>. SUFFICES ASSUME TypeOK, [Next]_vars
              PROVE  TypeOK'
  OBVIOUS
<1>1. CASE Tick
  <2>1. now' \in Times
    BY <1>1, NoncesAssumption DEF Tick, TypeOK, Times
  <2>. QED
    BY <1>1, <2>1 DEF Tick, TypeOK, store, boots, queue, sync
<1>2. ASSUME NEW c \in Used, Send(c)
      PROVE  TypeOK'
  <2>1. c \in Chains /\ count[c] \in 0..MaxCount
    BY NoncesAssumption DEF TypeOK
  <2>2. count[c] + 1 \in 0..MaxCount
    BY <1>2, <2>1, NoncesAssumption DEF Send
  <2>. QED
    BY <1>2, <2>1, <2>2 DEF Send, TypeOK, store, boots, queue, sync
<1>3. ASSUME NEW c \in Used, GetIncNonce(c)
      PROVE  TypeOK'
  <2>1. c \in Chains
    BY NoncesAssumption
  <2>2. PICK n \in Nat : /\ nonce' = [nonce EXCEPT ![c] = n]
                         /\ handed' = [handed EXCEPT ![c] = Append(handed[c], n)]
    BY <1>3, <2>1, HandOut
  <2>3. Append(handed[c], n) \in Seq(Nat)
    BY <2>1 DEF TypeOK
  <2>4. nonce' \in [Chains -> Nat \cup {None}] /\ handed' \in [Chains -> Seq(Nat)]
    BY <2>1, <2>2, <2>3 DEF TypeOK
  <2>. QED
    BY <1>3, <2>1, <2>4 DEF GetIncNonce, TypeOK, boots, queue, sync
<1>4. ASSUME NEW p \in Pods, Step(p)
      PROVE  TypeOK'
  BY <1>4, StepTyped
<1>5. CASE UNCHANGED vars
  BY <1>5 DEF vars, store, boots, queue, sync, TypeOK
<1>. QED
  BY <1>1, <1>2, <1>3, <1>4, <1>5 DEF Next

(* Every reachable state is well typed: counts, clock and starts stay      *)
(* within their bounds, and only counts that were read are ever set        *)
(* (syncNonces, getIncNonce).                                              *)
THEOREM TypeCorrect == Spec => []TypeOK
<1>1. Init => TypeOK
  BY NoncesAssumption DEF Init, TypeOK, Times, None, Unread
<1>. QED
  BY <1>1, NextTyped, PTL DEF Spec

-----------------------------------------------------------------------------
(* What has been handed out of a chain since its nonce was set is in       *)
(* order, and never beyond the nonce kept.                                 *)
InOrder(c) ==
  \A n \in 1..Len(handed[c]) :
    /\ handed[c][n] <= nonce[c]
    /\ \A m \in 1..(n - 1) : handed[c][m] < handed[c][n]

AllInOrder == \A c \in Chains : InOrder(c)

LEMMA HandOutInOrder ==
  ASSUME TypeOK, AllInOrder, NEW c \in Chains, GetIncNonce(c)
  PROVE  AllInOrder'
<1>1. PICK n \in Nat : /\ n > nonce[c]
                       /\ nonce' = [nonce EXCEPT ![c] = n]
                       /\ handed' = [handed EXCEPT ![c] = Append(handed[c], n)]
  BY HandOut
<1>2. ASSUME NEW d \in Chains, d # c
      PROVE  InOrder(d)'
  <2>1. handed'[d] = handed[d] /\ nonce'[d] = nonce[d]
    BY <1>1, <1>2 DEF TypeOK
  <2>. QED
    BY <2>1 DEF AllInOrder, InOrder
<1>3. InOrder(c)'
  <2>. DEFINE h == handed[c]
  <2>1. h \in Seq(Nat) /\ handed'[c] = Append(h, n) /\ nonce'[c] = n
    BY <1>1 DEF TypeOK
  <2>2. nonce[c] \in Int
    BY DEF TypeOK, None
  <2>3. \A k \in 1..Len(h) : /\ h[k] <= nonce[c] /\ h[k] \in Nat
                             /\ \A m \in 1..(k - 1) : h[m] < h[k]
    BY <2>1 DEF AllInOrder, InOrder
  <2>. HIDE DEF h
  <2>4. ASSUME NEW k \in 1..Len(Append(h, n))
        PROVE  /\ Append(h, n)[k] <= n
               /\ \A m \in 1..(k - 1) : Append(h, n)[m] < Append(h, n)[k]
    <3>1. CASE k = Len(h) + 1
      BY <2>1, <2>2, <2>3, <1>1, <3>1
    <3>2. CASE k \in 1..Len(h)
      BY <2>1, <2>2, <2>3, <1>1, <3>2
    <3>. QED
      BY <2>1, <3>1, <3>2
  <2>. QED
    BY <2>1, <2>4 DEF InOrder
<1>. QED
  BY <1>2, <1>3 DEF AllInOrder

LEMMA StepInOrder ==
  ASSUME TypeOK, AllInOrder, NEW p \in Pods, Step(p)
  PROVE  AllInOrder'
<1>1. ASSUME NEW c \in Chains, SetNonce(p, c)
      PROVE  AllInOrder'
  <2>1. handed' = [handed EXCEPT ![c] = <<>>] /\ nonce' = [nonce EXCEPT ![c] = read[p][c]]
    BY <1>1 DEF SetNonce
  <2>2. ASSUME NEW d \in Chains
        PROVE  InOrder(d)'
    <3>1. CASE d = c
      <4>1. handed'[c] = <<>>
        BY <2>1 DEF TypeOK
      <4>. QED
        BY <3>1, <4>1 DEF InOrder
    <3>2. CASE d # c
      <4>1. handed'[d] = handed[d] /\ nonce'[d] = nonce[d]
        BY <2>1, <3>2 DEF TypeOK
      <4>. QED
        BY <4>1 DEF AllInOrder, InOrder
    <3>. QED
      BY <3>1, <3>2
  <2>. QED
    BY <2>2 DEF AllInOrder
<1>2. CASE UNCHANGED <<nonce, handed>>
  BY <1>2 DEF AllInOrder, InOrder
<1>3. CASE Boot(p)
  BY <1>2, <1>3 DEF Boot, store
<1>4. CASE ShouldSync(p)
  BY <1>2, <1>4 DEF ShouldSync, store
<1>5. CASE AddSync(p)
  BY <1>2, <1>5 DEF AddSync, store
<1>6. CASE SyncQueueThrows(p) \/ Crash(p)
  BY <1>2, <1>6 DEF SyncQueueThrows, Crash, Exit, store
<1>7. ASSUME NEW t \in Times, TakeSync(p, t)
      PROVE  AllInOrder'
  BY <1>2, <1>7 DEF TakeSync, store
<1>8. CASE ReadFails(p)
  BY <1>2, <1>8 DEF ReadFails, store
<1>9. ASSUME NEW c \in Chains, ReadCount(p, c) \/ SetFails(p, c)
      PROVE  AllInOrder'
  BY <1>2, <1>9 DEF ReadCount, SetFails, store
<1>. QED
  BY <1>1, <1>3, <1>4, <1>5, <1>6, <1>7, <1>8, <1>9 DEF Step

LEMMA NextInOrder == TypeOK /\ AllInOrder /\ [Next]_vars => AllInOrder'
<1>. SUFFICES ASSUME TypeOK, AllInOrder, [Next]_vars
              PROVE  AllInOrder'
  OBVIOUS
<1>1. CASE UNCHANGED <<nonce, handed>>
  BY <1>1 DEF AllInOrder, InOrder
<1>2. CASE Tick
  BY <1>1, <1>2 DEF Tick, store
<1>3. ASSUME NEW c \in Used, Send(c)
      PROVE  AllInOrder'
  BY <1>1, <1>3 DEF Send, store
<1>4. ASSUME NEW c \in Used, GetIncNonce(c)
      PROVE  AllInOrder'
  BY <1>4, HandOutInOrder, NoncesAssumption
<1>5. ASSUME NEW p \in Pods, Step(p)
      PROVE  AllInOrder'
  BY <1>5, StepInOrder
<1>6. CASE UNCHANGED vars
  BY <1>1, <1>6 DEF vars, store
<1>. QED
  BY <1>2, <1>3, <1>4, <1>5, <1>6 DEF Next

(* Between two syncs of a chain no nonce is handed out twice, however many *)
(* processes ask and whatever fails around them (getIncNonce).             *)
THEOREM NeverTwice == Spec => []HandedOnce
<1>1. Init => AllInOrder
  BY DEF Init, AllInOrder, InOrder
<1>2. AllInOrder => HandedOnce
  BY DEF AllInOrder, InOrder, HandedOnce
<1>. QED
  BY <1>1, <1>2, NextInOrder, TypeCorrect, PTL DEF Spec

-----------------------------------------------------------------------------
(* The nonce of c has been set or handed out later than t.                 *)
Later(c, t) == nonce[c] # None /\ updated[c] > t

(* What a process is about: a time it has found due is over, and the job   *)
(* its worker has is one of a time that is over too, with every chain set  *)
(* since then that it need not set any more.                               *)
AddsOld(p) == pc[p] = "add" => seen[p] < now
SetsAll(p) ==
  job[p] # None =>
    /\ jobs[job[p]] # "absent"
    /\ job[p] \in failed \/ \A c \in Chains \ toSet[p] : Later(c, job[p])

(* The inductive invariant.                                                *)
Renewing ==
  /\ \A c \in Chains : updated[c] <= now
  /\ \A t \in Times : jobs[t] # "absent" => t < now
  /\ \A p \in Pods : AddsOld(p) /\ SetsAll(p)
  /\ EndedIsRenewed

(* What a step must do to keep it: the clock goes on, and what is late     *)
(* stays late.                                                             *)
Onward ==
  /\ now' >= now
  /\ \A c \in Chains : updated'[c] <= now'
  /\ \A c \in Chains, t \in Times : Later(c, t) => Later(c, t)'

(* A step that leaves the store alone.                                     *)
LEMMA StoreAlone ==
  ASSUME TypeOK, Renewing, NEW n \in Times, n >= now, now' = n, UNCHANGED store
  PROVE  Onward
<1>1. now \in Int /\ n \in Int /\ \A c \in Chains : updated[c] \in Int
  BY DEF TypeOK, Times
<1>2. \A c \in Chains : updated[c] <= n
  BY <1>1 DEF Renewing
<1>. QED
  BY <1>2 DEF Onward, Later, store

LEMMA StoreStill ==
  ASSUME TypeOK, Renewing, UNCHANGED now, UNCHANGED store
  PROVE  Onward
<1>1. now \in Times /\ now >= now
  BY DEF TypeOK, Times
<1>. QED
  BY <1>1, StoreAlone

(* A step that sets the nonce of a chain, or hands out another.            *)
LEMMA StoreSet ==
  ASSUME TypeOK, Renewing, NEW c \in Chains, NEW n \in Nat, UNCHANGED now,
         nonce' = [nonce EXCEPT ![c] = n], updated' = [updated EXCEPT ![c] = now]
  PROVE  Onward /\ \A t \in Times : t < now => Later(c, t)'
<1>1. now \in Int /\ \A d \in Chains : updated[d] \in Int
  BY DEF TypeOK, Times
<1>2. nonce'[c] = n /\ updated'[c] = now /\ n # None
  BY DEF TypeOK, None
<1>3. \A d \in Chains \ {c} : nonce'[d] = nonce[d] /\ updated'[d] = updated[d]
  BY DEF TypeOK
<1>4. \A d \in Chains : updated[d] <= now
  BY DEF Renewing
<1>5. \A d \in Chains : updated'[d] <= now'
  BY <1>1, <1>2, <1>3, <1>4
<1>6. \A t \in Times : t < now => Later(c, t)'
  BY <1>2 DEF Later, Times
<1>7. ASSUME NEW d \in Chains, NEW t \in Times, Later(d, t)
      PROVE  Later(d, t)'
  <2>1. CASE d = c
    <3>1. t < now
      BY <1>1, <1>4, <1>7 DEF Later, Times
    <3>. QED
      BY <1>6, <2>1, <3>1
  <2>2. CASE d # c
    BY <1>3, <1>7, <2>2 DEF Later
  <2>. QED
    BY <2>1, <2>2
<1>. QED
  BY <1>1, <1>5, <1>6, <1>7 DEF Onward

(* A step that leaves the jobs and the processes alone.                    *)
LEMMA JobsAlone ==
  ASSUME TypeOK, Renewing, TypeOK', Onward, UNCHANGED <<boots, queue, sync>>
  PROVE  Renewing'
<1>1. now \in Int /\ now' \in Int /\ now' >= now
  BY DEF TypeOK, Times, Onward
<1>2. \A t \in Times : jobs'[t] # "absent" => t < now'
  BY <1>1 DEF Renewing, Times, queue
<1>3. ASSUME NEW p \in Pods
      PROVE  AddsOld(p)'
  <2>1. seen[p] \in Int
    BY DEF TypeOK, Times
  <2>. QED
    BY <1>1, <2>1 DEF Renewing, AddsOld, boots
<1>4. ASSUME NEW p \in Pods
      PROVE  SetsAll(p)'
  <2>1. job[p] \in Times \cup {None}
    BY DEF TypeOK
  <2>. QED
    BY <2>1 DEF Renewing, SetsAll, Onward, queue, sync
<1>5. EndedIsRenewed'
  BY DEF Renewing, EndedIsRenewed, Renewed, Later, Onward, queue, sync
<1>. QED
  BY <1>2, <1>3, <1>4, <1>5 DEF Renewing, Onward

(* A step of one process: the others' jobs are still there, what failed    *)
(* has failed, and a job may only end when it has renewed every nonce.     *)
LEMMA JobsOnward ==
  ASSUME TypeOK, Renewing, TypeOK', Onward, NEW p \in Pods, UNCHANGED now,
         failed \subseteq failed',
         \A t \in Times : jobs[t] # "absent" => jobs'[t] # "absent",
         \A t \in Times : jobs'[t] # "absent" => t < now,
         \A t \in Times : jobs'[t] = "ended" /\ jobs[t] # "ended" =>
                          t \in failed' \/ \A c \in Chains : Later(c, t)',
         \A q \in Pods \ {p} : /\ pc'[q] = pc[q] /\ seen'[q] = seen[q]
                             /\ job'[q] = job[q] /\ toSet'[q] = toSet[q],
         AddsOld(p)', SetsAll(p)'
  PROVE  Renewing'
<1>1. ASSUME NEW q \in Pods, q # p
      PROVE  AddsOld(q)' /\ SetsAll(q)'
  <2>1. job[q] \in Times \cup {None}
    BY DEF TypeOK
  <2>2. AddsOld(q) /\ SetsAll(q)
    BY DEF Renewing
  <2>3. AddsOld(q)'
    BY <1>1, <2>2 DEF AddsOld
  <2>4. SetsAll(q)'
    BY <1>1, <2>1, <2>2 DEF SetsAll, Onward
  <2>. QED
    BY <2>3, <2>4
<1>2. ASSUME NEW t \in Times, jobs'[t] = "ended"
      PROVE  t \in failed' \/ \A c \in Chains : Later(c, t)'
  <2>1. CASE jobs[t] = "ended"
    BY <2>1 DEF Renewing, EndedIsRenewed, Renewed, Later, Onward
  <2>2. CASE jobs[t] # "ended"
    BY <1>2, <2>2
  <2>. QED
    BY <2>1, <2>2
<1>3. EndedIsRenewed'
  BY <1>2 DEF EndedIsRenewed, Renewed, Later
<1>. QED
  BY <1>1, <1>3 DEF Renewing, Onward

(* The process of p's worker forgets its job.                              *)
LEMMA Forgotten ==
  ASSUME TypeOK, NEW p \in Pods, Forgets(p)
  PROVE  /\ SetsAll(p)'
         /\ \A q \in Pods \ {p} : job'[q] = job[q] /\ toSet'[q] = toSet[q]
  BY DEF Forgets, TypeOK, SetsAll

(* A process that ends: its job waits to be taken again or has failed.     *)
LEMMA ExitRenewing ==
  ASSUME TypeOK, Renewing, TypeOK', NEW p \in Pods, Exit(p)
  PROVE  Renewing'
<1>1. UNCHANGED now /\ UNCHANGED store /\ Forgets(p)
  BY DEF Exit
<1>2. Onward
  BY <1>1, StoreStill
<1>3. AddsOld(p)' /\ \A q \in Pods \ {p} : pc'[q] = pc[q] /\ seen'[q] = seen[q]
  BY DEF Exit, TypeOK, AddsOld
<1>4. CASE job[p] = None
  <2>1. UNCHANGED <<jobs, failed>>
    BY <1>4 DEF Exit
  <2>2. \A t \in Times : jobs[t] # "absent" => t < now
    BY DEF Renewing
  <2>. QED
    BY <1>1, <1>2, <1>3, <2>1, <2>2, Forgotten, JobsOnward
<1>5. CASE job[p] # None
  <2>. DEFINE t == job[p]
  <2>1. t \in Times /\ jobs[t] # "absent"
    BY <1>5 DEF TypeOK, Renewing, SetsAll
  <2>2. \/ jobs' = [jobs EXCEPT ![t] = "waiting"] /\ UNCHANGED failed
        \/ jobs' = [jobs EXCEPT ![t] = "ended"] /\ failed' = failed \cup {t}
    BY <1>5 DEF Exit
  <2>. HIDE DEF t
  <2>3. /\ jobs'[t] # "absent" /\ (jobs'[t] = "ended" => t \in failed')
        /\ \A u \in Times \ {t} : jobs'[u] = jobs[u]
        /\ failed \subseteq failed'
    BY <2>1, <2>2 DEF TypeOK
  <2>4. \A u \in Times : jobs[u] # "absent" => u < now
    BY DEF Renewing
  <2>5. \A u \in Times : jobs'[u] # "absent" => u < now
    BY <2>1, <2>3, <2>4
  <2>6. \A u \in Times : jobs[u] # "absent" => jobs'[u] # "absent"
    BY <2>3
  <2>7. \A u \in Times : jobs'[u] = "ended" /\ jobs[u] # "ended" => u \in failed'
    BY <2>3
  <2>. QED
    BY <1>1, <1>2, <1>3, <2>3, <2>5, <2>6, <2>7, Forgotten, JobsOnward
<1>. QED
  BY <1>4, <1>5

(* The job of a sync that ends.                                            *)
LEMMA SyncEndsRenewing ==
  ASSUME TypeOK, Renewing, TypeOK', Onward, UNCHANGED <<now, boots>>,
         NEW p \in Pods, NEW t \in Times, job[p] = t, SyncEnds(p),
         failed \subseteq failed',
         t \in failed' \/ \A c \in Chains : Later(c, t)'
  PROVE  Renewing'
<1>1. jobs[t] # "absent"
  BY DEF Renewing, SetsAll, Times, None
<1>2. jobs' = [jobs EXCEPT ![t] = "ended"] /\ Forgets(p)
  BY DEF SyncEnds
<1>3. jobs'[t] = "ended" /\ \A u \in Times \ {t} : jobs'[u] = jobs[u]
  BY <1>2 DEF TypeOK
<1>4. AddsOld(p)' /\ \A q \in Pods \ {p} : pc'[q] = pc[q] /\ seen'[q] = seen[q]
  BY DEF Renewing, AddsOld, boots
<1>5. \A u \in Times : jobs[u] # "absent" => u < now
  BY DEF Renewing
<1>6. \A u \in Times : jobs'[u] # "absent" => u < now
  BY <1>1, <1>3, <1>5
<1>7. \A u \in Times : jobs[u] # "absent" => jobs'[u] # "absent"
  BY <1>3
<1>8. \A u \in Times : jobs'[u] = "ended" /\ jobs[u] # "ended" =>
                       u \in failed' \/ \A c \in Chains : Later(c, u)'
  BY <1>3
<1>. QED
  BY <1>2, <1>4, <1>6, <1>7, <1>8, Forgotten, JobsOnward

(* The nonce of a chain has been set, or could not be: the sync goes on to *)
(* the others, and ends with the last.                                     *)
LEMMA SettledRenewing ==
  ASSUME TypeOK, Renewing, TypeOK', Onward, UNCHANGED <<now, boots>>,
         NEW p \in Pods, NEW c \in Chains, NEW t \in Times, job[p] = t, Settled(p, c),
         failed \subseteq failed', t \in failed' \/ Later(c, t)'
  PROVE  Renewing'
<1>1. t # None /\ SetsAll(p)
  BY DEF Renewing, Times, None
<1>2. t \in failed' \/ \A d \in (Chains \ toSet[p]) \cup {c} : Later(d, t)'
  BY <1>1 DEF SetsAll, Onward
<1>3. CASE toSet[p] = {c} /\ SyncEnds(p)
  BY <1>2, <1>3, SyncEndsRenewing
<1>4. CASE toSet[p] # {c} /\ toSet' = [toSet EXCEPT ![p] = @ \ {c}] /\ UNCHANGED <<jobs, job>>
  <2>1. /\ toSet'[p] = toSet[p] \ {c}
        /\ \A q \in Pods \ {p} : toSet'[q] = toSet[q] /\ pc'[q] = pc[q] /\ seen'[q] = seen[q]
    BY <1>4 DEF TypeOK, boots
  <2>2. SetsAll(p)'
    BY <1>1, <1>2, <1>4, <2>1 DEF SetsAll
  <2>3. AddsOld(p)'
    BY DEF Renewing, AddsOld, boots
  <2>4. \A u \in Times : jobs'[u] # "absent" => u < now
    BY <1>4 DEF Renewing
  <2>. QED
    BY <1>4, <2>1, <2>2, <2>3, <2>4, JobsOnward
<1>. QED
  BY <1>3, <1>4 DEF Settled

LEMMA StepRenewing ==
  ASSUME TypeOK, Renewing, TypeOK', NEW p \in Pods, Step(p)
  PROVE  Renewing'
<1>1. CASE Boot(p)
  <2>1. Onward
    BY <1>1, StoreStill DEF Boot
  <2>2. /\ AddsOld(p)'
        /\ \A q \in Pods \ {p} : pc'[q] = pc[q] /\ seen'[q] = seen[q]
    BY <1>1 DEF Boot, TypeOK, AddsOld
  <2>3. UNCHANGED <<jobs, job, toSet, failed, now>>
    BY <1>1 DEF Boot, queue, sync
  <2>4. SetsAll(p)'
    BY <2>3, <1>1 DEF Boot, Renewing, SetsAll, Later, store
  <2>. QED
    BY <2>1, <2>2, <2>3, <2>4, JobsOnward DEF Renewing
<1>2. CASE ShouldSync(p)
  <2>1. Onward
    BY <1>2, StoreStill DEF ShouldSync
  <2>2. AddsOld(p)'
    <3>1. PICK t \in Times :
            \/ Due(t) /\ seen' = [seen EXCEPT ![p] = t]
            \/ pc' = [pc EXCEPT ![p] = "up"]
      BY <1>2 DEF ShouldSync
    <3>2. CASE Due(t) /\ seen' = [seen EXCEPT ![p] = t]
      <4>1. t < now
        BY <3>2, NoncesAssumption DEF Due, TypeOK, Times
      <4>2. seen'[p] = t /\ now' = now
        BY <1>2, <3>2 DEF ShouldSync, TypeOK
      <4>. QED
        BY <4>1, <4>2 DEF AddsOld
    <3>3. CASE pc' = [pc EXCEPT ![p] = "up"]
      BY <3>3 DEF TypeOK, AddsOld
    <3>. QED
      BY <3>1, <3>2, <3>3
  <2>3. \A q \in Pods \ {p} : pc'[q] = pc[q] /\ seen'[q] = seen[q]
    BY <1>2 DEF ShouldSync, TypeOK
  <2>4. UNCHANGED <<jobs, job, toSet, failed, now>>
    BY <1>2 DEF ShouldSync, queue, sync
  <2>5. SetsAll(p)'
    BY <2>4, <1>2 DEF ShouldSync, Renewing, SetsAll, Later, store
  <2>. QED
    BY <2>1, <2>2, <2>3, <2>4, <2>5, JobsOnward DEF Renewing
<1>3. CASE AddSync(p)
  <2>1. Onward
    BY <1>3, StoreStill DEF AddSync
  <2>2. /\ AddsOld(p)'
        /\ \A q \in Pods \ {p} : pc'[q] = pc[q] /\ seen'[q] = seen[q]
    BY <1>3 DEF AddSync, TypeOK, AddsOld
  <2>. DEFINE t == seen[p]
  <2>3. t \in Times /\ t < now
    BY <1>3 DEF AddSync, TypeOK, Renewing, AddsOld
  <2>4. /\ jobs' = [jobs EXCEPT ![t] = IF @ = "absent" THEN "waiting" ELSE @]
        /\ UNCHANGED <<job, toSet, failed, now>>
    BY <1>3 DEF AddSync, sync
  <2>. HIDE DEF t
  <2>5. /\ jobs'[t] = IF jobs[t] = "absent" THEN "waiting" ELSE jobs[t]
        /\ \A u \in Times \ {t} : jobs'[u] = jobs[u]
    BY <2>3, <2>4 DEF TypeOK
  <2>6. \A u \in Times : jobs[u] # "absent" => u < now /\ jobs'[u] # "absent"
    BY <2>5 DEF Renewing
  <2>7. \A u \in Times : jobs'[u] # "absent" => u < now
    BY <2>3, <2>5, <2>6
  <2>8. \A u \in Times : jobs'[u] = "ended" => jobs[u] = "ended"
    BY <2>5
  <2>9. SetsAll(p)'
    <3>1. job[p] \in Times \cup {None} /\ SetsAll(p)
      BY DEF TypeOK, Renewing
    <3>. QED
      BY <3>1, <2>4, <2>6, <1>3 DEF AddSync, SetsAll, Later, store
  <2>. QED
    BY <2>1, <2>2, <2>4, <2>6, <2>7, <2>8, <2>9, JobsOnward
<1>4. CASE SyncQueueThrows(p) \/ Crash(p)
  BY <1>4, ExitRenewing DEF SyncQueueThrows, Crash
<1>5. ASSUME NEW t \in Times, TakeSync(p, t)
      PROVE  Renewing'
  <2>1. Onward
    BY <1>5, StoreStill DEF TakeSync
  <2>2. /\ jobs[t] = "waiting" /\ jobs'[t] = "active"
        /\ \A u \in Times \ {t} : jobs'[u] = jobs[u]
        /\ job'[p] = t /\ toSet'[p] = Chains
        /\ \A q \in Pods \ {p} : job'[q] = job[q] /\ toSet'[q] = toSet[q]
    BY <1>5 DEF TakeSync, TypeOK
  <2>3. UNCHANGED <<pc, seen, failed, now>>
    BY <1>5 DEF TakeSync, boots
  <2>4. AddsOld(p)'
    BY <2>3 DEF Renewing, AddsOld
  <2>5. SetsAll(p)'
    BY <2>2 DEF SetsAll
  <2>6. \A u \in Times : jobs'[u] # "absent" => u < now
    BY <2>2 DEF Renewing
  <2>. QED
    BY <2>1, <2>2, <2>3, <2>4, <2>5, <2>6, JobsOnward
<1>6. CASE ReadFails(p)
  <2>1. job[p] \in Times /\ SyncEnds(p) /\ failed' = failed \cup {job[p]}
    BY <1>6 DEF ReadFails, TypeOK
  <2>2. Onward
    BY <1>6, StoreStill DEF ReadFails
  <2>. QED
    BY <1>6, <2>1, <2>2, SyncEndsRenewing DEF ReadFails
<1>7. ASSUME NEW c \in Chains, ReadCount(p, c)
      PROVE  Renewing'
  <2>1. Onward
    BY <1>7, StoreStill DEF ReadCount
  <2>2. UNCHANGED <<pc, seen, jobs, job, toSet, failed, now, nonce, updated>>
    BY <1>7 DEF ReadCount, boots, queue, store
  <2>3. AddsOld(p)' /\ SetsAll(p)'
    BY <2>2 DEF Renewing, AddsOld, SetsAll, Later
  <2>. QED
    BY <2>1, <2>2, <2>3, JobsOnward DEF Renewing
<1>8. ASSUME NEW c \in Chains, SetNonce(p, c)
      PROVE  Renewing'
  <2>1. Ready(p, c) /\ Settled(p, c)
    BY <1>8 DEF SetNonce
  <2>2. read[p][c] \in Nat
    BY <2>1, ReadIsCount
  <2>3. Onward /\ \A t \in Times : t < now => Later(c, t)'
    BY <1>8, <2>2, StoreSet DEF SetNonce
  <2>4. job[p] \in Times /\ job[p] < now
    BY <2>1 DEF Ready, TypeOK, Renewing, SetsAll
  <2>5. PICK t \in Times : job[p] = t /\ t < now
    BY <2>4
  <2>6. Later(c, t)'
    BY <2>3, <2>5
  <2>. QED
    BY <1>8, <2>1, <2>3, <2>5, <2>6, SettledRenewing DEF SetNonce
<1>9. ASSUME NEW c \in Chains, SetFails(p, c)
      PROVE  Renewing'
  <2>1. Ready(p, c) /\ Settled(p, c) /\ failed' = failed \cup {job[p]}
    BY <1>9 DEF SetFails
  <2>2. job[p] \in Times
    BY <2>1 DEF Ready, TypeOK
  <2>3. Onward
    BY <1>9, StoreStill DEF SetFails
  <2>. QED
    BY <1>9, <2>1, <2>2, <2>3, SettledRenewing DEF SetFails
<1>. QED
  BY <1>1, <1>2, <1>3, <1>4, <1>5, <1>6, <1>7, <1>8, <1>9 DEF Step

LEMMA NextRenewing == TypeOK /\ Renewing /\ [Next]_vars => Renewing'
<1>. SUFFICES ASSUME TypeOK, Renewing, [Next]_vars
              PROVE  Renewing'
  OBVIOUS
<1>1. TypeOK'
  BY NextTyped
<1>2. CASE Tick
  <2>1. now + 1 \in Times /\ now + 1 >= now
    BY <1>2, NoncesAssumption DEF Tick, TypeOK, Times
  <2>2. Onward
    BY <1>2, <2>1, StoreAlone DEF Tick
  <2>. QED
    BY <1>1, <1>2, <2>2, JobsAlone DEF Tick
<1>3. ASSUME NEW c \in Used, Send(c)
      PROVE  Renewing'
  BY <1>1, <1>3, StoreStill, JobsAlone DEF Send
<1>4. ASSUME NEW c \in Used, GetIncNonce(c)
      PROVE  Renewing'
  <2>1. c \in Chains
    BY NoncesAssumption
  <2>2. PICK n \in Nat : nonce' = [nonce EXCEPT ![c] = n]
    BY <1>4, <2>1, HandOut
  <2>3. Onward
    BY <1>4, <2>1, <2>2, StoreSet DEF GetIncNonce
  <2>. QED
    BY <1>1, <1>4, <2>3, JobsAlone DEF GetIncNonce
<1>5. ASSUME NEW p \in Pods, Step(p)
      PROVE  Renewing'
  BY <1>1, <1>5, StepRenewing
<1>6. CASE UNCHANGED vars
  BY <1>1, <1>6, StoreStill, JobsAlone DEF vars
<1>. QED
  BY <1>2, <1>3, <1>4, <1>5, <1>6 DEF Next

(* A job that has ended without a failure has renewed the nonce of every   *)
(* chain: no crash, rerun or concurrent sync of any process leaves one out *)
(* (syncNonces, getLastSynceAt).                                           *)
THEOREM EndedRenews == Spec => []EndedIsRenewed
<1>1. Init => Renewing
  BY NoncesAssumption DEF Init, Renewing, AddsOld, SetsAll, EndedIsRenewed, Times, None
<1>2. Renewing => EndedIsRenewed
  BY DEF Renewing
<1>. QED
  BY <1>1, <1>2, NextRenewing, TypeCorrect, PTL DEF Spec
=============================================================================
