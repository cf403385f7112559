------------------------------- MODULE Nonces -------------------------------
(***************************************************************************)
(* The nonces of the signing account, one per chain, kept in a collection  *)
(* that all processes share: handed out by an atomic increment, and set to *)
(* the chain's transaction count by a sync, which a process queues when it *)
(* starts and finds the last one too old.                                  *)
(*                                                                         *)
(* The id of the sync's job is made of the time of the last sync, so that  *)
(* processes that see the same time queue one job.  Jobs are kept when     *)
(* they end, and whatever fails in a sync is logged only.                  *)
(***************************************************************************)
EXTENDS Integers, Sequences

CONSTANTS Pods,       \* the processes
          Chains,     \* the chains of the solvers
          Used,       \* the chains the account sends on meanwhile
          Interval,   \* the time a sync is good for
          Faults,     \* what may fail: a subset of FaultKinds
          MaxTime,    \* bound on the clock
          MaxStarts,  \* bound on the starts of processes
          MaxStalls,  \* crashes of its worker a job survives
          MaxCount,   \* bound on the transaction count of a chain
          MaxHanded   \* bound on the nonces handed out after a sync

FaultKinds == {"rpc", "db", "crash"}

ASSUME NoncesAssumption ==
  /\ Interval \in Nat /\ MaxTime \in Nat /\ MaxStarts \in Nat /\ MaxStalls \in Nat
  /\ MaxCount \in Nat /\ MaxHanded \in Nat /\ Chains # {}
  /\ Used \subseteq Chains
  /\ Interval < MaxTime
  /\ Faults \subseteq FaultKinds

VARIABLES now,      \* the clock
          count,    \* count[c]: the account's transactions on c, pending ones included
          nonce,    \* nonce[c]: the nonce kept for c, or None
          updated,  \* updated[c]: when it was last set or handed out
          handed,   \* handed[c]: what has been handed out since it was set
          pc,       \* pc[p]: the point syncQueue is at
          seen,     \* seen[p]: the time of the last sync it has read
          starts,   \* how often a process has been started
          jobs,     \* jobs[t]: the job whose id is made of time t
          stalls,   \* stalls[t]: how often its worker died
          job,      \* job[p]: the job p's worker has, or None
          read,     \* read[p]: the counts it has read
          toSet,    \* toSet[p]: the chains whose nonce it has yet to set
          failed    \* the jobs in which something failed

store == <<nonce, updated, handed>>
boots == <<pc, seen, starts>>
queue == <<jobs, stalls>>
sync == <<job, read, toSet, failed>>
vars == <<now, count, store, boots, queue, sync>>

None == -1
Times == 0..MaxTime
Unread == [c \in Chains |-> None]

TypeOK ==
  /\ now \in Times
  /\ count \in [Chains -> 0..MaxCount]
  /\ nonce \in [Chains -> Nat \cup {None}] /\ updated \in [Chains -> Times]
  /\ handed \in [Chains -> Seq(Nat)]
  /\ pc \in [Pods -> {"down", "query", "add", "up"}]
  /\ seen \in [Pods -> Times] /\ starts \in 0..MaxStarts
  /\ jobs \in [Times -> {"absent", "waiting", "active", "ended"}]
  /\ stalls \in [Times -> Nat]
  /\ job \in [Pods -> Times \cup {None}]
  /\ read \in [Pods -> [Chains -> 0..MaxCount \cup {None}]]
  /\ toSet \in [Pods -> SUBSET Chains]
  /\ failed \subseteq Times

Init ==
  /\ now = Interval + 1 /\ count = [c \in Chains |-> 0]
  /\ nonce = [c \in Chains |-> None] /\ updated = [c \in Chains |-> 0]
  /\ handed = [c \in Chains |-> <<>>]
  /\ pc = [p \in Pods |-> "down"] /\ seen = [p \in Pods |-> 0]
  /\ starts = 0
  /\ jobs = [t \in Times |-> "absent"] /\ stalls = [t \in Times |-> 0]
  /\ job = [p \in Pods |-> None]
  /\ read = [p \in Pods |-> Unread]
  /\ toSet = [p \in Pods |-> {}] /\ failed = {}

-----------------------------------------------------------------------------
(* Around the service.                                                     *)

Tick ==
  /\ now < MaxTime
  /\ now' = now + 1
  /\ UNCHANGED <<count, store, boots, queue, sync>>

(* A transaction of the account, with whatever nonce its sender got.       *)
Send(c) ==
  /\ count[c] < MaxCount
  /\ count' = [count EXCEPT ![c] = @ + 1]
  /\ UNCHANGED <<now, store, boots, queue, sync>>

Forgets(p) ==
  /\ job' = [job EXCEPT ![p] = None]
  /\ read' = [read EXCEPT ![p] = Unread]
  /\ toSet' = [toSet EXCEPT ![p] = {}]

(* The process ends.  The job of its worker stalls: it is run again, or    *)
(* failed when it has stalled too often.                                   *)
Exit(p) ==
  /\ pc' = [pc EXCEPT ![p] = "down"]
  /\ seen' = [seen EXCEPT ![p] = 0]
  /\ Forgets(p)
  /\ IF job[p] = None
     THEN UNCHANGED <<jobs, stalls, failed>>
     ELSE /\ stalls' = [stalls EXCEPT ![job[p]] = @ + 1]
          /\ IF stalls[job[p]] < MaxStalls
             THEN jobs' = [jobs EXCEPT ![job[p]] = "waiting"] /\ UNCHANGED failed
             ELSE /\ jobs' = [jobs EXCEPT ![job[p]] = "ended"]
                  /\ failed' = failed \cup {job[p]}
  /\ UNCHANGED <<now, count, store, starts>>

Crash(p) == "crash" \in Faults /\ pc[p] # "down" /\ Exit(p)

-----------------------------------------------------------------------------
(* NonceService.  Nobody waits for syncQueue: when it throws, the process  *)
(* ends.                                                                   *)

Boot(p) ==
  /\ pc[p] = "down" /\ starts < MaxStarts
  /\ starts' = starts + 1
  /\ pc' = [pc EXCEPT ![p] = "query"]
  /\ UNCHANGED <<now, count, store, seen, queue, sync>>

(* getLastSynceAt: the latest time of all the chains, of a sync or not; no *)
(* nonce at all counts as one synced long ago, at time 0.                  *)
Kept == {c \in Chains : nonce[c] # None}
IsLast(t) ==
  IF Kept = {} THEN t = 0
  ELSE (\E c \in Kept : t = updated[c]) /\ \A c \in Kept : updated[c] <= t
Due(t) == now - t > Interval

ShouldSync(p) ==
  /\ pc[p] = "query"
  /\ \E t \in Times :
       /\ IsLast(t)
       /\ \/ /\ Due(t)
             /\ seen' = [seen EXCEPT ![p] = t]
             /\ pc' = [pc EXCEPT ![p] = "add"]
          \/ /\ ~Due(t)
             /\ pc' = [pc EXCEPT ![p] = "up"]
             /\ UNCHANGED seen
  /\ UNCHANGED <<now, count, store, starts, queue, sync>>

(* The id is the hash of the time seen.                                    *)
AddSync(p) ==
  /\ pc[p] = "add"
  /\ jobs' = [jobs EXCEPT ![seen[p]] = IF @ = "absent" THEN "waiting" ELSE @]
  /\ seen' = [seen EXCEPT ![p] = 0]
  /\ pc' = [pc EXCEPT ![p] = "up"]
  /\ UNCHANGED <<now, count, store, starts, stalls, sync>>

SyncQueueThrows(p) ==
  /\ "db" \in Faults /\ pc[p] \in {"query", "add"}
  /\ Exit(p)

-----------------------------------------------------------------------------
(* AtomicNonceService.                                                     *)

(* Broken: without upsert the nonce of a chain that has none stays 0.      *)
IncWithoutUpsert(c) ==
  /\ Len(handed[c]) < MaxHanded
  /\ IF nonce[c] = None
     THEN handed' = [handed EXCEPT ![c] = Append(@, 0)] /\ UNCHANGED <<nonce, updated>>
     ELSE /\ nonce' = [nonce EXCEPT ![c] = @ + 1]
          /\ handed' = [handed EXCEPT ![c] = Append(@, nonce[c] + 1)]
          /\ updated' = [updated EXCEPT ![c] = now]
  /\ UNCHANGED <<now, count, boots, queue, sync>>

(* getIncNonce: the nonce is incremented, or made 1, and the new one       *)
(* handed out; that touches the time.                                      *)
GetIncNonce(c) ==
  /\ Len(handed[c]) < MaxHanded
  /\ LET n == IF nonce[c] = None THEN 1 ELSE nonce[c] + 1
     IN /\ nonce' = [nonce EXCEPT ![c] = n]
        /\ handed' = [handed EXCEPT ![c] = Append(@, n)]
  /\ updated' = [updated EXCEPT ![c] = now]
  /\ UNCHANGED <<now, count, boots, queue, sync>>

(* SignerProcessor: one job at a time.                                     *)
TakeSync(p, t) ==
  /\ pc[p] # "down" /\ job[p] = None
  /\ jobs[t] = "waiting"
  /\ jobs' = [jobs EXCEPT ![t] = "active"]
  /\ job' = [job EXCEPT ![p] = t]
  /\ toSet' = [toSet EXCEPT ![p] = Chains]
  /\ UNCHANGED <<now, count, store, boots, stalls, read, failed>>

SyncEnds(p) ==
  /\ jobs' = [jobs EXCEPT ![job[p]] = "ended"]
  /\ Forgets(p)

(* Broken: the transaction being sent is counted too.                      *)
ReadOneMore(p, c) ==
  /\ job[p] # None /\ read[p][c] = None
  /\ read' = [read EXCEPT ![p][c] = count[c] + 1]
  /\ UNCHANGED <<now, count, store, boots, queue, job, toSet, failed>>

(* syncNonces: all counts are read side by side, ...                       *)
ReadCount(p, c) ==
  /\ job[p] # None /\ read[p][c] = None
  /\ read' = [read EXCEPT ![p][c] = count[c]]
  /\ UNCHANGED <<now, count, store, boots, queue, job, toSet, failed>>

ReadFails(p) ==
  /\ "rpc" \in Faults
  /\ job[p] # None /\ \E c \in Chains : read[p][c] = None
  /\ failed' = failed \cup {job[p]}
  /\ SyncEnds(p)
  /\ UNCHANGED <<now, count, store, boots, stalls>>

(* ... then all nonces are set side by side, each to what was read.        *)
Ready(p, c) ==
  /\ job[p] # None /\ c \in toSet[p]
  /\ \A d \in Chains : read[p][d] # None

(* Broken: the job ends when the first nonce has been set.                 *)
EndsAtOnce(p, c) == SyncEnds(p)

Settled(p, c) ==
  \/ /\ toSet[p] = {c}
     /\ SyncEnds(p)
  \/ /\ toSet[p] # {c}
     /\ toSet' = [toSet EXCEPT ![p] = @ \ {c}]
     /\ UNCHANGED <<jobs, job, read>>

(* Broken: the time is not touched by a sync.                              *)
SetWithoutTime(p, c) ==
  /\ Ready(p, c)
  /\ nonce' = [nonce EXCEPT ![c] = read[p][c]]
  /\ handed' = [handed EXCEPT ![c] = <<>>]
  /\ Settled(p, c)
  /\ UNCHANGED <<now, count, updated, boots, stalls, failed>>

SetNonce(p, c) ==
  /\ Ready(p, c)
  /\ nonce' = [nonce EXCEPT ![c] = read[p][c]]
  /\ updated' = [updated EXCEPT ![c] = now]
  /\ handed' = [handed EXCEPT ![c] = <<>>]
  /\ Settled(p, c)
  /\ UNCHANGED <<now, count, boots, stalls, failed>>

SetFails(p, c) ==
  /\ "db" \in Faults
  /\ Ready(p, c)
  /\ failed' = failed \cup {job[p]}
  /\ Settled(p, c)
  /\ UNCHANGED <<now, count, store, boots, stalls>>

-----------------------------------------------------------------------------
Step(p) ==
  \/ Boot(p) \/ ShouldSync(p) \/ AddSync(p) \/ SyncQueueThrows(p) \/ Crash(p)
  \/ \E t \in Times : TakeSync(p, t)
  \/ ReadFails(p)
  \/ \E c \in Chains : ReadCount(p, c) \/ SetNonce(p, c) \/ SetFails(p, c)

Next ==
  \/ Tick
  \/ \E c \in Used : Send(c) \/ GetIncNonce(c)
  \/ \E p \in Pods : Step(p)

Spec == Init /\ [][Next]_vars

(* A process that ends is restarted, what it has begun it goes on with,    *)
(* and its worker takes jobs while there are any.                          *)
Fairness ==
  \A p \in Pods :
    /\ WF_vars(Boot(p) \/ ShouldSync(p) \/ AddSync(p))
    /\ WF_vars(\/ \E t \in Times : TakeSync(p, t)
               \/ \E c \in Chains : ReadCount(p, c) \/ SetNonce(p, c))

FairSpec == Spec /\ Fairness

-----------------------------------------------------------------------------
(* Between two syncs no nonce is handed out twice, whatever the number of  *)
(* processes that ask (findOneAndUpdate with $inc in getIncNonce).         *)
HandedOnce ==
  \A c \in Chains : \A n \in 1..Len(handed[c]) :
    \A m \in 1..(n - 1) : handed[c][m] < handed[c][n]

(* A job that has ended without a failure has set the nonce of every chain *)
(* later than the time it was queued for, however often its worker died on *)
(* the way and whatever other syncs and senders did meanwhile, so that no  *)
(* process finds that time again (syncNonces, getLastSynceAt).             *)
Renewed(t) ==
  /\ jobs[t] = "ended"
  /\ t \in failed \/ \A c \in Chains : nonce[c] # None /\ updated[c] > t
EndedIsRenewed == \A t \in Times : jobs[t] = "ended" => Renewed(t)

(* Unless the processes are gone for good, every time found too old comes  *)
(* to be renewed: its job is queued and ends (syncQueue, getSyncParams).   *)
(* Renewed(t) stays true.                                                  *)
Gone == \A p \in Pods : pc[p] = "down" /\ starts = MaxStarts
Found(t) == jobs[t] # "absent" \/ \E p \in Pods : pc[p] = "add" /\ seen[p] = t
DueIsSynced == []<>(Gone \/ \A t \in Times : Found(t) => Renewed(t))
=============================================================================
