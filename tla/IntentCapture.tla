--------------------------- MODULE IntentCapture ---------------------------
(***************************************************************************)
(* How the IntentCreated logs of one source chain become records: the      *)
(* watcher that delivers new logs while the service is up, the sync that   *)
(* looks for missed ones when it starts, the jobs both add, and the        *)
(* records the create handler makes of them.                               *)
(*                                                                         *)
(* The chain, the queue and the database outlive the service; what it has  *)
(* in hand does not.                                                       *)
(***************************************************************************)
EXTENDS Naturals, Sequences, Functions

CONSTANTS Intents,   \* the intents, one per intent hash
          Supported, \* those whose destination chain the solver supports
          Faults,    \* what may fail: a subset of FaultKinds
          MaxHeight, \* bound on the blocks of the chain
          MaxLogs,   \* bound on the logs of a block
          MaxDeaths, \* bound on the deaths of the service
          MaxErrors  \* bound on the errors of the watcher's subscription

FaultKinds == {"db"}

ASSUME CaptureAssumption ==
  /\ Supported \subseteq Intents
  /\ Faults \subseteq FaultKinds
  /\ MaxHeight \in Nat /\ MaxLogs \in Nat
  /\ MaxDeaths \in Nat
  /\ MaxErrors \in Nat

VARIABLES height,   \* the latest block
          logs,     \* the IntentCreated logs of the chain, in order
          up,       \* is the service running
          deaths,   \* how often it has died
          errors,   \* how often its subscription has failed
          watch,    \* the watcher's subscription, and the next block it delivers
          syncing,  \* the point syncTxs is at
          from, to, \* the blocks it asks the chain for
          known,    \* the intents recorded when it asked the database (auxiliary)
          hand,     \* hand[c]: the logs, by position, the addJob of c has yet to add
          jobs,     \* jobs[i]: the create job of i
          recorded  \* the intents that have a record

chain == <<height, logs>>
service == <<up, deaths, errors>>
sync == <<syncing, from, to, known>>
vars == <<chain, service, watch, sync, hand, jobs, recorded>>

Log == [intent : Intents, block : 1..MaxHeight, tx : Nat]
Callers == {"watch", "sync"}
SyncPoints == {"off", "query", "fetch", "add", "done"}

(* The intents that have a log, and the log of one.                        *)
Created == {logs[n].intent : n \in DOMAIN logs}
LogOf(i) == logs[CHOOSE n \in DOMAIN logs : logs[n].intent = i]
BlockOf(i) == LogOf(i).block
TxOf(i) == LogOf(i).tx

TypeOK ==
  /\ height \in 0..MaxHeight
  /\ logs \in Seq(Log)
  /\ \A m, n \in DOMAIN logs : logs[m].intent = logs[n].intent => m = n
  /\ up \in BOOLEAN
  /\ deaths \in 0..MaxDeaths
  /\ errors \in 0..MaxErrors
  /\ watch \in [on : BOOLEAN, next : Nat]
  /\ syncing \in SyncPoints
  /\ from \in 0..(MaxHeight + 1) /\ to \in 0..MaxHeight
  /\ known \subseteq recorded
  /\ hand \in [Callers -> SUBSET DOMAIN logs]
  /\ jobs \in [Intents -> {"absent", "waiting", "ended"}]
  /\ recorded \subseteq Created

Init ==
  /\ height = 0 /\ logs = <<>>
  /\ up = FALSE /\ deaths = 0 /\ errors = 0
  /\ watch = [on |-> FALSE, next |-> 0]
  /\ syncing = "off" /\ from = 0 /\ to = 0 /\ known = {}
  /\ hand = [c \in Callers |-> {}]
  /\ jobs = [i \in Intents |-> "absent"]
  /\ recorded = {}

-----------------------------------------------------------------------------
(* The source chain.  Several intents may be created in one block, and     *)
(* several in one transaction of it, named by its first log.               *)

Mine(k) ==
  /\ height < MaxHeight
  /\ height' = height + 1
  /\ \E s \in [1..k -> Intents \ Created], first \in [1..k -> 1..k] :
       /\ IsInjective(s)
       /\ \A n \in 1..k : first[n] = n \/ (n > 1 /\ first[n] = first[n - 1])
       /\ logs' = logs \o [n \in 1..k |-> [intent |-> s[n], block |-> height + 1,
                                          tx |-> Len(logs) + first[n]]]
  /\ UNCHANGED <<service, watch, sync, hand, jobs, recorded>>

-----------------------------------------------------------------------------
(* The service.  Nest runs the watcher's bootstrap hook before the sync's. *)

Boot ==
  /\ ~up
  /\ up' = TRUE
  /\ UNCHANGED <<chain, deaths, errors, watch, sync, hand, jobs, recorded>>

(* The service dies: stopped, or by an error nobody catches, as one of     *)
(* bootstrap or of addJob.                                                 *)
Die ==
  /\ up
  /\ deaths < MaxDeaths
  /\ deaths' = deaths + 1
  /\ up' = FALSE
  /\ watch' = [on |-> FALSE, next |-> 0]
  /\ syncing' = "off" /\ from' = 0 /\ to' = 0 /\ known' = {}
  /\ hand' = [c \in Callers |-> {}]
  /\ UNCHANGED <<chain, errors, jobs, recorded>>

-----------------------------------------------------------------------------
(* WatchCreateIntentService and WatchEventService.                         *)

Subscribe ==
  /\ up /\ ~watch.on
  /\ watch' = [on |-> TRUE, next |-> height + 1]
  /\ syncing' = "query"
  /\ UNCHANGED <<chain, service, from, to, known, hand, jobs, recorded>>

(* The filter of the watcher yields the logs since it was asked last.  It  *)
(* does not wait for the loop over the earlier ones.                       *)
Poll ==
  /\ watch.on /\ watch.next <= height
  /\ hand' = [hand EXCEPT !["watch"] = @ \cup {n \in DOMAIN logs : logs[n].block >= watch.next}]
  /\ watch' = [watch EXCEPT !.next = height + 1]
  /\ UNCHANGED <<chain, service, sync, jobs, recorded>>

(* onError: the filter is dropped and a new one made, which starts now.    *)
Resubscribe ==
  /\ watch.on
  /\ errors < MaxErrors
  /\ errors' = errors + 1
  /\ watch' = [watch EXCEPT !.next = height + 1]
  /\ UNCHANGED <<chain, up, deaths, sync, hand, jobs, recorded>>

(* Broken: a log that has its job already ends the loop.                   *)
AddStopsAtKnown(c) ==
  /\ \E n \in hand[c] :
       IF jobs[logs[n].intent] = "absent"
       THEN /\ jobs' = [jobs EXCEPT ![logs[n].intent] = "waiting"]
            /\ hand' = [hand EXCEPT ![c] = @ \ {n}]
       ELSE hand' = [hand EXCEPT ![c] = {}] /\ UNCHANGED jobs
  /\ UNCHANGED <<chain, service, watch, sync, recorded>>

(* One round of a loop of addJob; loops over logs delivered one after      *)
(* another overlap.  Both callers give a log the same job id: the second   *)
(* add of it is ignored.                                                   *)
Add(c) ==
  /\ \E n \in hand[c] :
       /\ jobs' = [jobs EXCEPT ![logs[n].intent] = IF @ = "absent" THEN "waiting" ELSE @]
       /\ hand' = [hand EXCEPT ![c] = @ \ {n}]
  /\ UNCHANGED <<chain, service, watch, sync, recorded>>

-----------------------------------------------------------------------------
(* ChainSyncService.                                                       *)

(* Broken: the search starts one block too late.                           *)
SyncQuerySkips ==
  /\ syncing = "query"
  /\ known' = recorded
  /\ \/ recorded = {} /\ from' = 0
     \/ \E i \in recorded :
          /\ \A j \in recorded : BlockOf(j) <= BlockOf(i)
          /\ from' = BlockOf(i) + 2
  /\ syncing' = "fetch"
  /\ UNCHANGED <<chain, service, watch, to, hand, jobs, recorded>>

(* getLastRecordedTx: the search starts after the last block recorded.     *)
SyncQuery ==
  /\ syncing = "query"
  /\ known' = recorded
  /\ \/ recorded = {} /\ from' = 0
     \/ \E i \in recorded :
          /\ \A j \in recorded : BlockOf(j) <= BlockOf(i)
          /\ from' = BlockOf(i) + 1
  /\ syncing' = "fetch"
  /\ UNCHANGED <<chain, service, watch, to, hand, jobs, recorded>>

(* getMissingTxs: the logs from there to the latest block.                 *)
SyncFetch ==
  /\ syncing = "fetch"
  /\ to' = height
  /\ hand' = [hand EXCEPT !["sync"] =
                {n \in DOMAIN logs : logs[n].block >= from /\ logs[n].intent \in Supported}]
  /\ syncing' = "add"
  /\ UNCHANGED <<chain, service, watch, from, known, jobs, recorded>>

SyncDone ==
  /\ syncing = "add" /\ hand["sync"] = {}
  /\ syncing' = "done"
  /\ UNCHANGED <<chain, service, watch, from, to, known, hand, jobs, recorded>>

-----------------------------------------------------------------------------
(* CreateIntentService.createIntent: the job ends with or without a        *)
(* record, as errors are logged only.  The transaction hash of a record is *)
(* unique: an intent is refused by the database when another one of its    *)
(* transaction is recorded.                                                *)
CreateIntent(i) ==
  /\ up
  /\ jobs[i] = "waiting"
  /\ jobs' = [jobs EXCEPT ![i] = "ended"]
  /\ \/ /\ \A j \in recorded : TxOf(j) # TxOf(i)
        /\ recorded' = recorded \cup {i}
     \/ /\ "db" \in Faults \/ \E j \in recorded : TxOf(j) = TxOf(i)
        /\ UNCHANGED recorded
  /\ UNCHANGED <<chain, service, watch, sync, hand>>

-----------------------------------------------------------------------------
Next ==
  \/ \E k \in 0..MaxLogs : Mine(k)
  \/ Boot \/ Die
  \/ Subscribe \/ Poll \/ Resubscribe
  \/ \E c \in Callers : Add(c)
  \/ SyncQuery \/ SyncFetch \/ SyncDone
  \/ \E i \in Intents : CreateIntent(i)

(* While it is up the service polls, its loops go on and its worker works. *)
Fairness ==
  /\ WF_vars(Poll)
  /\ \A c \in Callers : WF_vars(Add(c))
  /\ \A i \in Intents : WF_vars(CreateIntent(i))

Spec == Init /\ [][Next]_vars
FairSpec == Spec /\ Fairness

-----------------------------------------------------------------------------
(* Properties.                                                             *)

(* Every log of a supported destination that is later than all the records *)
(* the sync knew of has its job when the sync is done, whatever the        *)
(* watcher adds meanwhile and wherever the service died before.            *)
Later(n) == \A i \in known : BlockOf(i) < logs[n].block
TailCovered ==
  syncing = "done" =>
    \A n \in DOMAIN logs :
      logs[n].intent \in Supported /\ logs[n].block <= to /\ Later(n)
      => jobs[logs[n].intent] # "absent"

(* While its subscription holds and the service lives, every log mined     *)
(* after the watcher subscribed gets its job, whatever the sync adds.      *)
WatchedIsQueued ==
  \A i \in Intents :
    /\ watch.on /\ errors = 0
    /\ i \in Created /\ BlockOf(i) >= watch.next
    ~> jobs[i] # "absent" \/ ~up \/ errors > 0

(* The sync's documentation: it fills any gap left while the service was   *)
(* down.  When it is done every log of a supported destination, up to the  *)
(* block it asked for, has its job.                                        *)
GapsFilled ==
  syncing = "done" =>
    \A n \in DOMAIN logs :
      logs[n].intent \in Supported /\ logs[n].block <= to => jobs[logs[n].intent] # "absent"

(* The job id's documentation: several intents of one transaction are told *)
(* apart.  Without faults the create job of an intent leaves a record.     *)
EndedIsRecorded == \A i \in Intents : jobs[i] = "ended" => i \in recorded
=============================================================================
