------------------------- MODULE IntentCaptureProofs ------------------------
(***************************************************************************)
(* Type correctness of IntentCapture, and that a sync leaves no log behind *)
(* that is later than the records it knew of.                              *)
(***************************************************************************)
EXTENDS IntentCapture, TLAPS

(* A job is one of a log, and no log is later than the latest block.       *)
JobsOfLogs == \A i \in Intents : jobs[i] # "absent" => i \in Created
LogsMined == \A n \in DOMAIN logs : logs[n].block <= height

(* The sync starts at a block the chain may have next, and no log later    *)
(* than the records it knew of is before that block.                       *)
Asked == syncing \in {"fetch", "add", "done"}
StartsAfterKnown ==
  /\ from <= height + 1
  /\ to <= height
  /\ Asked => \A n \in DOMAIN logs : Later(n) => from <= logs[n].block

(* A log the sync must not miss has its job, or the sync still has it in   *)
(* hand.                                                                   *)
Due(n) == logs[n].intent \in Supported /\ logs[n].block <= to /\ Later(n)
Covered ==
  syncing \in {"add", "done"} =>
    \A n \in DOMAIN logs :
      Due(n) => \/ jobs[logs[n].intent] # "absent"
                \/ syncing = "add" /\ n \in hand["sync"]

IInv == TypeOK /\ JobsOfLogs /\ LogsMined /\ StartsAfterKnown /\ Covered

-----------------------------------------------------------------------------
(* The log of an intent is the one that names it.                          *)
LEMMA LogTyped ==
  ASSUME TypeOK, NEW n \in DOMAIN logs
  PROVE  /\ n \in 1..Len(logs) /\ Len(logs) \in Nat
         /\ logs[n] \in Log
         /\ logs[n].intent \in Intents /\ logs[n].intent \in Created
         /\ logs[n].block \in 1..MaxHeight /\ logs[n].tx \in Nat
<1>1. logs \in Seq(Log)
  BY DEF TypeOK
<1>2. n \in 1..Len(logs) /\ Len(logs) \in Nat /\ logs[n] \in Log
  BY <1>1
<1>3. logs[n].intent \in Intents /\ logs[n].block \in 1..MaxHeight /\ logs[n].tx \in Nat
  BY <1>2 DEF Log
<1>4. logs[n].intent \in Created
  BY DEF Created
<1>. QED
  BY <1>2, <1>3, <1>4

LEMMA LogOfOne ==
  ASSUME TypeOK, NEW n \in DOMAIN logs
  PROVE  LogOf(logs[n].intent) = logs[n] /\ BlockOf(logs[n].intent) = logs[n].block
<1>1. \A m \in DOMAIN logs : logs[m].intent = logs[n].intent => m = n
  BY DEF TypeOK
<1>2. (CHOOSE m \in DOMAIN logs : logs[m].intent = logs[n].intent) = n
  BY <1>1
<1>. QED
  BY <1>2 DEF LogOf, BlockOf

LEMMA CreatedHasLog ==
  ASSUME TypeOK, NEW i \in Created
  PROVE  /\ \E n \in DOMAIN logs : logs[n].intent = i /\ LogOf(i) = logs[n]
         /\ i \in Intents
         /\ BlockOf(i) \in 1..MaxHeight
<1>1. PICK n \in DOMAIN logs : logs[n].intent = i
  BY DEF Created
<1>2. LogOf(i) = logs[n] /\ BlockOf(i) = logs[n].block
  BY <1>1, LogOfOne
<1>. QED
  BY <1>1, <1>2, LogTyped

(* A new block extends the logs by logs of new intents, all of that block. *)
LEMMA MineExtends ==
  ASSUME TypeOK, NEW k \in 0..MaxLogs, Mine(k)
  PROVE  /\ logs' \in Seq(Log)
         /\ \A n \in DOMAIN logs : n \in DOMAIN logs' /\ logs'[n] = logs[n]
         /\ \A n \in DOMAIN logs' \ DOMAIN logs :
              logs'[n].block = height + 1 /\ logs'[n].intent \notin Created
         /\ \A m, n \in DOMAIN logs' : logs'[m].intent = logs'[n].intent => m = n
         /\ Created \subseteq Created'
<1>1. PICK s \in [1..k -> Intents \ Created], first \in [1..k -> 1..k] :
        /\ IsInjective(s)
        /\ logs' = logs \o [n \in 1..k |-> [intent |-> s[n], block |-> height + 1,
                                            tx |-> Len(logs) + first[n]]]
  BY DEF Mine
<1>. DEFINE new == [n \in 1..k |-> [intent |-> s[n], block |-> height + 1,
                                    tx |-> Len(logs) + first[n]]]
<1>2. k \in Nat /\ height \in 0..MaxHeight /\ height + 1 \in 1..MaxHeight
  BY CaptureAssumption DEF TypeOK, Mine
<1>3. logs \in Seq(Log) /\ Len(logs) \in Nat /\ DOMAIN logs = 1..Len(logs)
  BY DEF TypeOK
<1>4. \A n \in 1..k : new[n] \in Log /\ new[n].intent = s[n] /\ new[n].block = height + 1
  <2>. SUFFICES ASSUME NEW n \in 1..k
       PROVE  new[n] \in Log /\ new[n].intent = s[n] /\ new[n].block = height + 1
    OBVIOUS
  <2>1. s[n] \in Intents /\ first[n] \in 1..k
    BY <1>1
  <2>2. Len(logs) + first[n] \in Nat
    BY <2>1, <1>2, <1>3
  <2>. QED
    BY <2>1, <2>2, <1>2 DEF Log
<1>5. new \in Seq(Log) /\ Len(new) = k
  <2>1. new \in [1..k -> Log]
    BY <1>4
  <2>. QED
    BY <2>1, <1>2
<1>6. logs' = logs \o new
  BY <1>1
<1>. HIDE DEF new
<1>7. logs' \in Seq(Log) /\ Len(logs') = Len(logs) + k /\ DOMAIN logs' = 1..(Len(logs) + k)
  <2>1. logs \o new \in Seq(Log) /\ Len(logs \o new) = Len(logs) + k
    <3>1. ASSUME NEW u \in Seq(Log), NEW v \in Seq(Log)
          PROVE  u \o v \in Seq(Log) /\ Len(u \o v) = Len(u) + Len(v)
      OBVIOUS
    <3>. QED
      BY <3>1, <1>3, <1>5
  <2>2. logs' \in Seq(Log) /\ Len(logs') = Len(logs) + k
    BY <2>1, <1>6
  <2>3. DOMAIN logs' = 1..Len(logs')
    BY <2>2
  <2>. QED
    BY <2>2, <2>3
<1>8. \A n \in DOMAIN logs : n \in DOMAIN logs' /\ logs'[n] = logs[n]
  BY <1>2, <1>3, <1>5, <1>6, <1>7
<1>9. \A n \in DOMAIN logs' \ DOMAIN logs :
        n - Len(logs) \in 1..k /\ logs'[n] = new[n - Len(logs)]
  BY <1>2, <1>3, <1>5, <1>6, <1>7
<1>10. \A n \in DOMAIN logs' \ DOMAIN logs :
         /\ logs'[n].block = height + 1
         /\ logs'[n].intent = s[n - Len(logs)]
         /\ logs'[n].intent \notin Created
  BY <1>1, <1>4, <1>9
<1>11. \A n \in DOMAIN logs : logs'[n].intent \in Created
  BY <1>8 DEF Created
<1>12. \A m, n \in DOMAIN logs' : logs'[m].intent = logs'[n].intent => m = n
  <2>. SUFFICES ASSUME NEW m \in DOMAIN logs', NEW n \in DOMAIN logs',
                       logs'[m].intent = logs'[n].intent
       PROVE  m = n
    OBVIOUS
  <2>1. CASE m \in DOMAIN logs /\ n \in DOMAIN logs
    BY <2>1, <1>8 DEF TypeOK
  <2>2. CASE m \notin DOMAIN logs /\ n \notin DOMAIN logs
    <3>1. s[m - Len(logs)] = s[n - Len(logs)] /\ m - Len(logs) \in 1..k /\ n - Len(logs) \in 1..k
      BY <2>2, <1>9, <1>10
    <3>2. m - Len(logs) = n - Len(logs)
      BY <3>1, <1>1 DEF IsInjective
    <3>. QED
      BY <3>2, <1>2, <1>3, <1>7
  <2>. QED
    BY <2>1, <2>2, <1>10, <1>11
<1>13. Created \subseteq Created'
  BY <1>8 DEF Created
<1>. QED
  BY <1>7, <1>8, <1>10, <1>12, <1>13

(* No block of an intent changes.                                          *)
LEMMA BlocksStay ==
  ASSUME TypeOK, TypeOK', NEW k \in 0..MaxLogs, Mine(k), NEW i \in Created
  PROVE  BlockOf(i)' = BlockOf(i)
<1>1. PICK n \in DOMAIN logs : logs[n].intent = i /\ LogOf(i) = logs[n]
  BY CreatedHasLog
<1>2. n \in DOMAIN logs' /\ logs'[n] = logs[n]
  BY MineExtends
<1>3. \A m \in DOMAIN logs' : logs'[m].intent = i => m = n
  BY <1>1, <1>2 DEF TypeOK
<1>4. (CHOOSE m \in DOMAIN logs' : logs'[m].intent = i) = n
  BY <1>1, <1>2, <1>3
<1>. QED
  BY <1>1, <1>2, <1>4 DEF BlockOf, LogOf

-----------------------------------------------------------------------------
(* Type correctness.                                                       *)

LEMMA InitTyped == Init => TypeOK /\ JobsOfLogs
<1>. SUFFICES ASSUME Init
     PROVE  TypeOK /\ JobsOfLogs
  OBVIOUS
<1>1. logs \in Seq(Log) /\ DOMAIN logs = {}
  BY DEF Init
<1>2. /\ height \in 0..MaxHeight /\ deaths \in 0..MaxDeaths /\ errors \in 0..MaxErrors
      /\ from \in 0..(MaxHeight + 1) /\ to \in 0..MaxHeight
  BY CaptureAssumption DEF Init
<1>3. watch \in [on : BOOLEAN, next : Nat] /\ syncing \in SyncPoints /\ up \in BOOLEAN
  BY DEF Init, SyncPoints
<1>4. /\ hand \in [Callers -> SUBSET DOMAIN logs]
      /\ jobs \in [Intents -> {"absent", "waiting", "ended"}]
      /\ \A i \in Intents : jobs[i] = "absent"
      /\ known = {} /\ recorded = {}
  BY DEF Init
<1>. QED
  BY <1>1, <1>2, <1>3, <1>4 DEF TypeOK, JobsOfLogs

LEMMA MineTyped ==
  ASSUME TypeOK, JobsOfLogs, NEW k \in 0..MaxLogs, Mine(k)
  PROVE  TypeOK' /\ JobsOfLogs'
<1>1. /\ logs' \in Seq(Log)
      /\ \A m, n \in DOMAIN logs' : logs'[m].intent = logs'[n].intent => m = n
      /\ DOMAIN logs \subseteq DOMAIN logs' /\ Created \subseteq Created'
  BY MineExtends
<1>2. height' \in 0..MaxHeight
  BY CaptureAssumption DEF Mine, TypeOK
<1>3. /\ UNCHANGED <<up, deaths, errors, watch, syncing, from, to, known, hand, jobs, recorded>>
  BY DEF Mine, service, sync
<1>4. hand' \in [Callers -> SUBSET DOMAIN logs']
  BY <1>1, <1>3 DEF TypeOK
<1>5. recorded' \subseteq Created'
  BY <1>1, <1>3 DEF TypeOK
<1>6. TypeOK'
  BY <1>1, <1>2, <1>3, <1>4, <1>5 DEF TypeOK
<1>7. JobsOfLogs'
  BY <1>1, <1>3 DEF JobsOfLogs
<1>. QED
  BY <1>6, <1>7

LEMMA PollTyped ==
  ASSUME TypeOK, JobsOfLogs, Poll
  PROVE  TypeOK' /\ JobsOfLogs'
<1>1. hand' \in [Callers -> SUBSET DOMAIN logs]
  BY DEF Poll, TypeOK
<1>2. watch' \in [on : BOOLEAN, next : Nat]
  BY CaptureAssumption DEF Poll, TypeOK
<1>3. UNCHANGED <<height, logs, up, deaths, errors, syncing, from, to, known, jobs, recorded, Created>>
  BY DEF Poll, chain, service, sync, Created
<1>. QED
  BY <1>1, <1>2, <1>3 DEF TypeOK, JobsOfLogs

LEMMA AddTyped ==
  ASSUME TypeOK, JobsOfLogs, NEW c \in Callers, Add(c)
  PROVE  TypeOK' /\ JobsOfLogs'
<1>1. PICK n \in DOMAIN logs :
        /\ jobs' = [jobs EXCEPT ![logs[n].intent] = IF @ = "absent" THEN "waiting" ELSE @]
        /\ hand' = [hand EXCEPT ![c] = @ \ {n}]
  BY DEF Add, TypeOK
<1>2. logs[n].intent \in Intents /\ logs[n].intent \in Created
  BY LogTyped
<1>3. jobs' \in [Intents -> {"absent", "waiting", "ended"}]
  BY <1>1, <1>2 DEF TypeOK
<1>4. hand' \in [Callers -> SUBSET DOMAIN logs]
  BY <1>1 DEF TypeOK
<1>5. /\ UNCHANGED <<height, logs, up, deaths, errors, watch, syncing, from, to, known, recorded>>
      /\ Created' = Created
  BY DEF Add, chain, service, sync, Created
<1>6. JobsOfLogs'
  BY <1>1, <1>2, <1>5 DEF JobsOfLogs, TypeOK
<1>. QED
  BY <1>3, <1>4, <1>5, <1>6 DEF TypeOK

LEMMA SyncQueryTyped ==
  ASSUME TypeOK, JobsOfLogs, SyncQuery
  PROVE  TypeOK' /\ JobsOfLogs'
<1>1. from' \in 0..(MaxHeight + 1)
  <2>1. CASE from' = 0
    BY <2>1, CaptureAssumption
  <2>2. CASE \E i \in recorded : from' = BlockOf(i) + 1
    <3>1. PICK i \in recorded : from' = BlockOf(i) + 1
      BY <2>2
    <3>2. BlockOf(i) \in 1..MaxHeight
      BY CreatedHasLog DEF TypeOK
    <3>. QED
      BY <3>1, <3>2, CaptureAssumption
  <2>. QED
    BY <2>1, <2>2 DEF SyncQuery
<1>2. /\ UNCHANGED <<height, logs, up, deaths, errors, watch, to, hand, jobs, recorded>>
      /\ Created' = Created
      /\ known' = recorded /\ syncing' = "fetch"
  BY DEF SyncQuery, chain, service, Created
<1>. QED
  BY <1>1, <1>2 DEF TypeOK, JobsOfLogs, SyncPoints

LEMMA SyncFetchTyped ==
  ASSUME TypeOK, JobsOfLogs, SyncFetch
  PROVE  TypeOK' /\ JobsOfLogs'
<1>1. hand' \in [Callers -> SUBSET DOMAIN logs]
  BY DEF SyncFetch, TypeOK
<1>2. to' \in 0..MaxHeight
  BY DEF SyncFetch, TypeOK
<1>3. /\ UNCHANGED <<height, logs, up, deaths, errors, watch, from, known, jobs, recorded>>
      /\ Created' = Created /\ syncing' = "add"
  BY DEF SyncFetch, chain, service, Created
<1>. QED
  BY <1>1, <1>2, <1>3 DEF TypeOK, JobsOfLogs, SyncPoints

LEMMA CreateIntentTyped ==
  ASSUME TypeOK, JobsOfLogs, NEW i \in Intents, CreateIntent(i)
  PROVE  TypeOK' /\ JobsOfLogs'
<1>1. i \in Created
  BY DEF CreateIntent, JobsOfLogs
<1>2. jobs' \in [Intents -> {"absent", "waiting", "ended"}]
  BY DEF CreateIntent, TypeOK
<1>3. /\ UNCHANGED <<height, logs, up, deaths, errors, watch, syncing, from, to, known, hand>>
      /\ Created' = Created
  BY DEF CreateIntent, chain, service, sync, Created
<1>4. recorded' \subseteq Created /\ recorded \subseteq recorded'
  BY <1>1 DEF CreateIntent, TypeOK
<1>5. JobsOfLogs'
  BY <1>1, <1>3 DEF JobsOfLogs, CreateIntent, TypeOK
<1>. QED
  BY <1>2, <1>3, <1>4, <1>5 DEF TypeOK

LEMMA StepTyped == TypeOK /\ JobsOfLogs /\ [Next]_vars => TypeOK' /\ JobsOfLogs'
<1>. SUFFICES ASSUME TypeOK, JobsOfLogs, [Next]_vars
     PROVE  TypeOK' /\ JobsOfLogs'
  OBVIOUS
<1>1. ASSUME NEW k \in 0..MaxLogs, Mine(k)
      PROVE  TypeOK' /\ JobsOfLogs'
  BY <1>1, MineTyped
<1>2. CASE Boot
  BY <1>2 DEF Boot, chain, sync, TypeOK, JobsOfLogs, Created
<1>3. CASE Die
  <2>1. deaths' \in 0..MaxDeaths
    BY <1>3, CaptureAssumption DEF Die, TypeOK
  <2>2. /\ up' = FALSE /\ watch' = [on |-> FALSE, next |-> 0]
        /\ syncing' = "off" /\ from' = 0 /\ to' = 0 /\ known' = {}
        /\ hand' = [c \in Callers |-> {}]
        /\ UNCHANGED <<height, logs, errors, jobs, recorded>>
        /\ Created' = Created
    BY <1>3 DEF Die, chain, Created
  <2>3. /\ watch' \in [on : BOOLEAN, next : Nat] /\ syncing' \in SyncPoints
        /\ from' \in 0..(MaxHeight + 1) /\ to' \in 0..MaxHeight
    BY <2>2, CaptureAssumption DEF SyncPoints
  <2>4. hand' \in [Callers -> SUBSET DOMAIN logs']
    BY <2>2
  <2>. QED
    BY <2>1, <2>2, <2>3, <2>4 DEF TypeOK, JobsOfLogs
<1>4. CASE Subscribe
  <2>1. watch' \in [on : BOOLEAN, next : Nat]
    BY <1>4, CaptureAssumption DEF Subscribe, TypeOK
  <2>2. /\ UNCHANGED <<height, logs, up, deaths, errors, from, to, known, hand, jobs, recorded>>
        /\ Created' = Created /\ syncing' = "query"
    BY <1>4 DEF Subscribe, chain, service, Created
  <2>. QED
    BY <2>1, <2>2 DEF TypeOK, JobsOfLogs, SyncPoints
<1>5. CASE Poll
  BY <1>5, PollTyped
<1>6. CASE Resubscribe
  <2>1. watch' \in [on : BOOLEAN, next : Nat] /\ errors' \in 0..MaxErrors
    BY <1>6, CaptureAssumption DEF Resubscribe, TypeOK
  <2>2. /\ UNCHANGED <<height, logs, up, deaths, syncing, from, to, known, hand, jobs, recorded>>
        /\ Created' = Created
    BY <1>6 DEF Resubscribe, chain, sync, Created
  <2>. QED
    BY <2>1, <2>2 DEF TypeOK, JobsOfLogs
<1>7. ASSUME NEW c \in Callers, Add(c)
      PROVE  TypeOK' /\ JobsOfLogs'
  BY <1>7, AddTyped
<1>8. CASE SyncQuery
  BY <1>8, SyncQueryTyped
<1>9. CASE SyncFetch
  BY <1>9, SyncFetchTyped
<1>10. CASE SyncDone
  BY <1>10 DEF SyncDone, chain, service, TypeOK, JobsOfLogs, Created, SyncPoints
<1>11. ASSUME NEW i \in Intents, CreateIntent(i)
       PROVE  TypeOK' /\ JobsOfLogs'
  BY <1>11, CreateIntentTyped
<1>12. CASE UNCHANGED vars
  BY <1>12 DEF vars, chain, service, sync, TypeOK, JobsOfLogs, Created
<1>. QED
  BY <1>1, <1>2, <1>3, <1>4, <1>5, <1>6, <1>7, <1>8, <1>9, <1>10, <1>11, <1>12 DEF Next

(* The variables keep their types: among others, no intent has two logs,   *)
(* every record is one of a log, and a sync asks for blocks of the chain.  *)
THEOREM TypeCorrect == Spec => []TypeOK
<1>1. Spec => [](TypeOK /\ JobsOfLogs)
  BY InitTyped, StepTyped, PTL DEF Spec
<1>. QED
  BY <1>1, PTL

-----------------------------------------------------------------------------
(* The sync starts where it must.                                          *)

(* What is later than the known records stays so while the logs grow.      *)
LEMMA MineKeepsLater ==
  ASSUME TypeOK, TypeOK', NEW k \in 0..MaxLogs, Mine(k), NEW n \in DOMAIN logs
  PROVE  Later(n)' = Later(n)
<1>1. known' = known /\ known \subseteq Created
  BY DEF Mine, sync, TypeOK
<1>2. \A i \in known : BlockOf(i)' = BlockOf(i)
  BY <1>1, BlocksStay
<1>3. logs'[n] = logs[n]
  BY MineExtends
<1>. QED
  BY <1>1, <1>2, <1>3 DEF Later

LEMMA LogsMinedStep ==
  ASSUME TypeOK, LogsMined, [Next]_vars
  PROVE  LogsMined'
<1>1. ASSUME NEW k \in 0..MaxLogs, Mine(k)
      PROVE  LogsMined'
  <2>1. height' = height + 1 /\ height \in Nat
    BY <1>1 DEF Mine, TypeOK
  <2>2. \A n \in DOMAIN logs : logs'[n] = logs[n] /\ logs[n].block \in Nat
    BY <1>1, MineExtends, LogTyped
  <2>3. \A n \in DOMAIN logs' \ DOMAIN logs : logs'[n].block = height + 1
    BY <1>1, MineExtends
  <2>. QED
    BY <2>1, <2>2, <2>3 DEF LogsMined
<1>2. CASE UNCHANGED <<height, logs>>
  BY <1>2 DEF LogsMined
<1>3. UNCHANGED <<height, logs>> \/ \E k \in 0..MaxLogs : Mine(k)
  BY DEF Next, Boot, Die, Subscribe, Poll, Resubscribe, Add, SyncQuery, SyncFetch, SyncDone,
         CreateIntent, vars, chain
<1>. QED
  BY <1>1, <1>2, <1>3

(* A step that leaves the chain and what the sync asked for alone.         *)
LEMMA SteadyStart ==
  ASSUME StartsAfterKnown, UNCHANGED <<height, logs, from, to, known>>, Asked' => Asked
  PROVE  StartsAfterKnown'
BY DEF StartsAfterKnown, Later, BlockOf, LogOf

LEMMA StartStep ==
  ASSUME TypeOK, TypeOK', LogsMined, StartsAfterKnown, [Next]_vars
  PROVE  StartsAfterKnown'
<1>1. ASSUME NEW k \in 0..MaxLogs, Mine(k)
      PROVE  StartsAfterKnown'
  <2>1. /\ height' = height + 1 /\ height \in Nat
        /\ UNCHANGED <<syncing, from, to, known>>
        /\ from \in Nat /\ to \in Nat
    BY <1>1 DEF Mine, sync, TypeOK
  <2>2. from' <= height' + 1 /\ to' <= height'
    BY <2>1 DEF StartsAfterKnown
  <2>3. ASSUME Asked', NEW n \in DOMAIN logs', Later(n)'
        PROVE  from' <= logs'[n].block
    <3>1. CASE n \in DOMAIN logs
      <4>1. Later(n) /\ logs'[n] = logs[n]
        BY <1>1, <2>3, <3>1, MineKeepsLater, MineExtends
      <4>. QED
        BY <2>1, <2>3, <3>1, <4>1 DEF StartsAfterKnown, Asked
    <3>2. CASE n \notin DOMAIN logs
      <4>1. logs'[n].block = height + 1
        BY <1>1, <3>2, MineExtends
      <4>. QED
        BY <2>1, <4>1 DEF StartsAfterKnown
    <3>. QED
      BY <3>1, <3>2
  <2>. QED
    BY <2>2, <2>3 DEF StartsAfterKnown
<1>2. CASE Die
  <2>1. from' = 0 /\ to' = 0 /\ syncing' = "off" /\ height' = height /\ height \in Nat
    BY <1>2 DEF Die, chain, TypeOK
  <2>2. ~Asked'
    BY <2>1 DEF Asked
  <2>. QED
    BY <2>1, <2>2 DEF StartsAfterKnown
<1>3. CASE Subscribe
  <2>1. ~Asked'
    BY <1>3 DEF Subscribe, Asked
  <2>. QED
    BY <1>3, <2>1, SteadyStart DEF Subscribe, chain
<1>4. CASE SyncQuery
  <2>1. /\ UNCHANGED <<height, logs, to>> /\ known' = recorded
        /\ height \in Nat /\ recorded \subseteq Created
    BY <1>4 DEF SyncQuery, chain, TypeOK
  <2>2. \A n \in DOMAIN logs : logs[n].block \in Nat
    BY LogTyped
  <2>3. CASE from' = 0
    BY <2>1, <2>2, <2>3 DEF StartsAfterKnown
  <2>4. CASE \E i \in recorded : from' = BlockOf(i) + 1
    <3>1. PICK i \in recorded : from' = BlockOf(i) + 1
      BY <2>4
    <3>2. PICK m \in DOMAIN logs : logs[m].intent = i /\ LogOf(i) = logs[m]
      BY <2>1, CreatedHasLog
    <3>3. BlockOf(i) \in Nat /\ BlockOf(i) <= height
      BY <2>2, <3>2 DEF BlockOf, LogsMined
    <3>4. ASSUME NEW n \in DOMAIN logs', Later(n)'
          PROVE  from' <= logs'[n].block
      <4>1. n \in DOMAIN logs /\ logs'[n] = logs[n] /\ logs[n].block \in Nat
        BY <2>1, <2>2
      <4>2. BlockOf(i) < logs[n].block
        BY <2>1, <3>4 DEF Later, BlockOf, LogOf
      <4>. QED
        BY <3>1, <3>3, <4>1, <4>2
    <3>5. from' <= height' + 1 /\ to' <= height'
      BY <2>1, <3>1, <3>3 DEF StartsAfterKnown
    <3>. QED
      BY <3>4, <3>5 DEF StartsAfterKnown
  <2>. QED
    BY <1>4, <2>3, <2>4 DEF SyncQuery
<1>5. CASE SyncFetch
  <2>1. /\ UNCHANGED <<height, logs, from, known>> /\ to' = height /\ height \in Nat
        /\ Asked
    BY <1>5 DEF SyncFetch, chain, TypeOK, Asked
  <2>. QED
    BY <2>1 DEF StartsAfterKnown, Later, BlockOf, LogOf
<1>6. CASE \/ Boot \/ Poll \/ Resubscribe \/ SyncDone
           \/ \E c \in Callers : Add(c)
           \/ \E i \in Intents : CreateIntent(i)
           \/ UNCHANGED vars
  <2>1. UNCHANGED <<height, logs, from, to, known>> /\ (Asked' => Asked)
    BY <1>6 DEF Boot, Poll, Resubscribe, SyncDone, Add, CreateIntent, vars, chain, sync, Asked
  <2>. QED
    BY <2>1, SteadyStart
<1>. QED
  BY <1>1, <1>2, <1>3, <1>4, <1>5, <1>6 DEF Next

-----------------------------------------------------------------------------
(* The sync leaves nothing behind.                                         *)

(* A step that takes nothing out of the sync's hand and no job away.       *)
LEMMA SteadyCover ==
  ASSUME Covered, UNCHANGED <<logs, to, known, syncing, hand["sync"]>>,
         \A n \in DOMAIN logs : jobs[logs[n].intent] # "absent" => jobs'[logs[n].intent] # "absent"
  PROVE  Covered'
BY DEF Covered, Due, Later, BlockOf, LogOf

LEMMA CoverStep ==
  ASSUME TypeOK, TypeOK', StartsAfterKnown, Covered, [Next]_vars
  PROVE  Covered'
<1>1. ASSUME NEW k \in 0..MaxLogs, Mine(k)
      PROVE  Covered'
  <2>1. UNCHANGED <<syncing, to, known, hand, jobs>> /\ to \in Nat /\ height \in Nat
    BY <1>1 DEF Mine, sync, TypeOK
  <2>2. ASSUME NEW n \in DOMAIN logs', Due(n)'
        PROVE  n \in DOMAIN logs /\ logs'[n] = logs[n] /\ Due(n)
    <3>1. n \in DOMAIN logs
      <4>. SUFFICES ASSUME n \notin DOMAIN logs
           PROVE  FALSE
        OBVIOUS
      <4>1. logs'[n].block = height + 1 /\ to <= height
        BY <1>1, MineExtends DEF StartsAfterKnown
      <4>. QED
        BY <2>1, <2>2, <4>1 DEF Due
    <3>2. logs'[n] = logs[n] /\ Later(n)
      BY <1>1, <2>2, <3>1, MineExtends, MineKeepsLater DEF Due
    <3>. QED
      BY <2>1, <2>2, <3>1, <3>2 DEF Due
  <2>. QED
    BY <2>1, <2>2 DEF Covered
<1>2. CASE syncing' \notin {"add", "done"}
  BY <1>2 DEF Covered
<1>3. CASE SyncFetch
  <2>1. /\ UNCHANGED <<logs, from, known>> /\ syncing = "fetch" /\ syncing' = "add"
        /\ hand'["sync"] = {n \in DOMAIN logs : logs[n].block >= from /\ logs[n].intent \in Supported}
    BY <1>3 DEF SyncFetch, chain, TypeOK, Callers
  <2>2. ASSUME NEW n \in DOMAIN logs', Due(n)'
        PROVE  n \in hand'["sync"]
    <3>1. n \in DOMAIN logs /\ logs[n].intent \in Supported /\ Later(n)
      BY <2>1, <2>2 DEF Due, Later, BlockOf, LogOf
    <3>2. from <= logs[n].block /\ logs[n].block \in Nat /\ from \in Nat
      BY <2>1, <3>1, LogTyped DEF StartsAfterKnown, Asked, TypeOK
    <3>3. logs[n].block >= from
      BY <3>2
    <3>. QED
      BY <2>1, <3>1, <3>3
  <2>. QED
    BY <2>1, <2>2 DEF Covered
<1>4. CASE SyncDone
  BY <1>4 DEF SyncDone, chain, service, Covered, Due, Later, BlockOf, LogOf
<1>5. ASSUME NEW c \in Callers, Add(c)
      PROVE  Covered'
  <2>1. PICK m \in DOMAIN logs :
          /\ jobs' = [jobs EXCEPT ![logs[m].intent] = IF @ = "absent" THEN "waiting" ELSE @]
          /\ hand' = [hand EXCEPT ![c] = @ \ {m}]
    BY <1>5 DEF Add, TypeOK
  <2>2. UNCHANGED <<logs, to, known, syncing>>
    BY <1>5 DEF Add, chain, sync
  <2>3. \A n \in DOMAIN logs : logs[n].intent \in Intents
    BY LogTyped
  <2>4. /\ jobs'[logs[m].intent] # "absent"
        /\ \A n \in DOMAIN logs :
             jobs[logs[n].intent] # "absent" => jobs'[logs[n].intent] # "absent"
    BY <2>1, <2>3 DEF TypeOK
  <2>5. hand["sync"] \subseteq hand'["sync"] \cup {m}
    BY <2>1 DEF TypeOK, Callers
  <2>6. ASSUME syncing' \in {"add", "done"}, NEW n \in DOMAIN logs', Due(n)'
        PROVE  jobs'[logs'[n].intent] # "absent" \/ (syncing' = "add" /\ n \in hand'["sync"])
    <3>1. n \in DOMAIN logs /\ Due(n)
      BY <2>2, <2>6 DEF Due, Later, BlockOf, LogOf
    <3>2. jobs[logs[n].intent] # "absent" \/ (syncing = "add" /\ n \in hand["sync"])
      BY <2>2, <2>6, <3>1 DEF Covered
    <3>. QED
      BY <2>2, <2>4, <2>5, <3>1, <3>2
  <2>. QED
    BY <2>6 DEF Covered
<1>6. CASE \E i \in Intents : CreateIntent(i)
  <2>1. PICK i \in Intents : CreateIntent(i)
    BY <1>6
  <2>2. jobs' = [jobs EXCEPT ![i] = "ended"] /\ UNCHANGED <<logs, to, known, syncing, hand>>
    BY <2>1 DEF CreateIntent, chain, sync
  <2>3. \A n \in DOMAIN logs : logs[n].intent \in Intents
    BY LogTyped
  <2>4. \A n \in DOMAIN logs :
          jobs[logs[n].intent] # "absent" => jobs'[logs[n].intent] # "absent"
    BY <2>2, <2>3 DEF TypeOK
  <2>. QED
    BY <2>2, <2>4, SteadyCover
<1>7. CASE Boot \/ Poll \/ Resubscribe \/ UNCHANGED vars
  <2>1. UNCHANGED <<logs, to, known, syncing, jobs>>
    BY <1>7 DEF Boot, Poll, Resubscribe, vars, chain, sync
  <2>2. hand'["sync"] = hand["sync"]
    BY <1>7 DEF Boot, Poll, Resubscribe, vars, TypeOK, Callers
  <2>. QED
    BY <2>1, <2>2, SteadyCover
<1>8. CASE Die \/ Subscribe \/ SyncQuery
  BY <1>2, <1>8 DEF Die, Subscribe, SyncQuery
<1>. QED
  BY <1>1, <1>3, <1>4, <1>5, <1>6, <1>7, <1>8 DEF Next

LEMMA InitInvariant == Init => IInv
BY InitTyped, CaptureAssumption DEF Init, IInv, LogsMined, StartsAfterKnown, Asked, Covered

LEMMA StepInvariant == IInv /\ [Next]_vars => IInv'
BY StepTyped, LogsMinedStep, StartStep, CoverStep DEF IInv

(* Whatever the watcher adds and wherever the service died before, a sync  *)
(* that is done has left no supported log without a job that was mined     *)
(* after every intent it found recorded.                                   *)
THEOREM SyncMissesNothingLater == Spec => []TailCovered
<1>1. IInv => TailCovered
  BY DEF IInv, Covered, Due, TailCovered
<1>. QED
  BY <1>1, InitInvariant, StepInvariant, PTL DEF Spec
=============================================================================
