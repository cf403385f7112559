------------------------------ MODULE Accounts -------------------------------
(***************************************************************************)
(* The solver's smart account on one chain, and the account that signs for *)
(* it.  Several processes run; each caches a client per service and chain. *)
(* The first service deploys the smart account when it creates a client,   *)
(* the second does not.  All transactions come from the one signing        *)
(* account, whose nonce each sender reads from the chain before it sends.  *)
(*                                                                         *)
(* When a process starts, its bootstrap hooks ask for the client of the    *)
(* chain side by side: one for each balance to load, one to watch the      *)
(* transfers, one to sync the chain.  A hook that fails ends the process.  *)
(***************************************************************************)
EXTENDS Integers, Sequences, FiniteSets

CONSTANTS Pods,         \* the processes
          Hooks,        \* the bootstrap hooks that ask for the client
          Jobs,         \* the jobs that execute transactions
          PodOf,        \* PodOf[t]: the process of a hook or of a job
          V2,           \* the jobs that use the second service
          Faults,       \* what may go wrong: a subset of Kinds
          MaxAttempts,  \* the attempts of a job
          MaxStarts,    \* bound on the starts of a process
          MaxFaults     \* bound on what goes wrong

Tasks == Hooks \cup Jobs

Kinds == {"rpc", "stale", "lost", "timeout", "store", "crash", "revert", "replace"}

ASSUME AccountsAssumption ==
  /\ PodOf \in [Tasks -> Pods] /\ Hooks \cap Jobs = {}
  /\ V2 \subseteq Jobs /\ Faults \subseteq Kinds
  /\ MaxAttempts \in Nat /\ MaxStarts \in Nat /\ MaxFaults \in Nat

VARIABLES sent,      \* the transactions the chain has accepted, by nonce
          mined,     \* how many of them are mined
          reverted,  \* those mined that reverted
          deployed,  \* whether the smart account has code
          up,        \* the processes that run
          starts,    \* starts[p]: how often p has been started
          instances, \* the clients cached: <<process, service>>
          pc,        \* pc[t]: the point task t is at
          nonce,     \* nonce[t]: the nonce it has read
          attempts,  \* attempts[j]: those it has used
          unsure,    \* unsure[j]: those that failed with the transaction sent, and not
                     \* because it reverted
          faults     \* the sequence of what went wrong

chain == <<sent, mined, reverted, deployed>>
processes == <<up, starts>>
vars == <<chain, processes, instances, pc, nonce, attempts, unsure, faults>>

Services == {"v1", "v2"}
Service(j) == IF j \in V2 THEN "v2" ELSE "v1"
Client(j) == <<PodOf[j], Service(j)>>

Points == {"idle", "create", "deploy", "sendDeploy", "store", "execute", "sendExecute",
           "wait", "done"}
Transactions == [kind : {"deploy", "execute"}, task : Tasks]

TypeOK ==
  /\ sent \in Seq(Transactions) /\ mined \in 0..Len(sent)
  /\ reverted \subseteq 1..mined /\ deployed \in BOOLEAN
  /\ up \subseteq Pods /\ starts \in [Pods -> 0..MaxStarts]
  /\ instances \subseteq Pods \X Services
  /\ pc \in [Tasks -> Points]
  /\ nonce \in [Tasks -> Nat]
  /\ attempts \in [Jobs -> 0..MaxAttempts] /\ unsure \in [Jobs -> Nat]
  /\ faults \in Seq(Kinds)

Init ==
  /\ sent = <<>> /\ mined = 0 /\ reverted = {} /\ deployed \in BOOLEAN
  /\ up = {} /\ starts = [p \in Pods |-> 0] /\ instances = {}
  /\ pc = [t \in Tasks |-> "idle"] /\ nonce = [t \in Tasks |-> 0]
  /\ attempts = [j \in Jobs |-> 0] /\ unsure = [j \in Jobs |-> 0]
  /\ faults = <<>>

Goto(t, point) == pc' = [pc EXCEPT ![t] = point]
Happened(kind) == \E n \in DOMAIN faults : faults[n] = kind
Fault(kind) ==
  /\ kind \in Faults /\ Len(faults) < MaxFaults
  /\ faults' = Append(faults, kind)

-----------------------------------------------------------------------------
(* The processes.                                                          *)

(* A process starts: the key service is asked for the key and its address. *)
Boot(p) ==
  /\ p \notin up /\ starts[p] < MaxStarts
  /\ starts' = [starts EXCEPT ![p] = @ + 1]
  /\ \/ up' = up \cup {p} /\ UNCHANGED faults
     \/ Fault("rpc") /\ UNCHANGED up
  /\ UNCHANGED <<chain, instances, pc, nonce, attempts, unsure>>

(* A process ends with all it has in hand; its jobs are taken up again.    *)
Exit(p) ==
  LET hit == {t \in Tasks : PodOf[t] = p /\ ~(t \in Jobs /\ pc[t] = "done")}
  IN /\ up' = up \ {p}
     /\ instances' = {i \in instances : i[1] # p}
     /\ pc' = [t \in Tasks |-> IF t \in hit THEN "idle" ELSE pc[t]]
     /\ unsure' = [j \in Jobs |-> IF j \in hit /\ pc[j] = "wait" THEN unsure[j] + 1
                                                                  ELSE unsure[j]]

Crash(p) ==
  /\ p \in up
  /\ Fault("crash") /\ Exit(p)
  /\ UNCHANGED <<chain, starts, nonce, attempts>>

(* A task fails.  A hook ends its process; a job is tried again or not,    *)
(* and is unsure if an execution of its may be on the chain.               *)
Fails(t, executed) ==
  \/ t \in Hooks /\ Exit(PodOf[t])
  \/ /\ t \in Jobs /\ Goto(t, "idle")
     /\ unsure' = [unsure EXCEPT ![t] = IF executed THEN @ + 1 ELSE @]
     /\ UNCHANGED <<up, instances>>

-----------------------------------------------------------------------------
(* A client.                                                               *)

HasClient(t) == IF t \in Hooks THEN "done" ELSE "execute"

(* Broken: a job is tried for as long as it fails.                         *)
AlwaysRetry(t) ==
  /\ pc[t] = "idle" /\ PodOf[t] \in up
  /\ attempts' = [j \in Jobs |-> IF j = t THEN attempts[j] + 1 ELSE attempts[j]]
  /\ Goto(t, IF Client(t) \in instances THEN HasClient(t) ELSE "create")
  /\ UNCHANGED <<chain, processes, instances, nonce, unsure, faults>>

(* getClient and loadInstance, up to the first await.                      *)
GetClient(t) ==
  /\ pc[t] = "idle" /\ PodOf[t] \in up
  /\ t \in Jobs => attempts[t] < MaxAttempts
  /\ attempts' = [j \in Jobs |-> IF j = t THEN attempts[j] + 1 ELSE attempts[j]]
  /\ Goto(t, IF Client(t) \in instances THEN HasClient(t) ELSE "create")
  /\ UNCHANGED <<chain, processes, instances, nonce, unsure, faults>>

(* Broken: the account is taken to be deployed.                            *)
SkipDeploy(t) == Goto(t, "store") /\ UNCHANGED faults

(* deployKernelAccount, whose node may not have seen the latest blocks.    *)
DeployKernelAccount(t) ==
  \/ Goto(t, IF deployed THEN "store" ELSE "deploy") /\ UNCHANGED faults
  \/ Fault("stale") /\ Goto(t, "deploy")

(* createKernelAccountClient.                                              *)
CreateV1(t) ==
  /\ pc[t] = "create" /\ Service(t) = "v1"
  /\ DeployKernelAccount(t)
  /\ UNCHANGED <<chain, processes, instances, nonce, attempts, unsure>>

(* createKernelAccountClientV2 only asks for the address.                  *)
CreateV2(t) ==
  /\ pc[t] = "create" /\ Service(t) = "v2"
  /\ Goto(t, "store")
  /\ UNCHANGED <<chain, processes, instances, nonce, attempts, unsure, faults>>

Store(t) ==
  /\ pc[t] = "store"
  /\ instances' = instances \cup {Client(t)}
  /\ Goto(t, HasClient(t))
  /\ UNCHANGED <<chain, processes, nonce, attempts, unsure, faults>>

-----------------------------------------------------------------------------
(* A transaction of the signing account, which has no nonce manager: the   *)
(* client reads the count of transactions, pending ones included, has the  *)
(* transaction signed and sends it.                                        *)

Sends == {"sendDeploy", "sendExecute"}
Kind(t) == IF pc[t] = "sendDeploy" THEN "deploy" ELSE "execute"
Transaction(t) == [kind |-> Kind(t), task |-> t]
Sent(t) == IF pc[t] = "sendDeploy" THEN "store" ELSE "wait"

GetTransactionCount(t) ==
  /\ pc[t] \in {"deploy", "execute"}
  /\ nonce' = [nonce EXCEPT ![t] = Len(sent)]
  /\ Goto(t, IF pc[t] = "deploy" THEN "sendDeploy" ELSE "sendExecute")
  /\ UNCHANGED <<chain, processes, instances, attempts, unsure, faults>>

(* Broken: what is refused for its nonce is sent once more, with the next. *)
SendAgain(t) ==
  /\ pc[t] \in Sends /\ nonce[t] < Len(sent)
  /\ Fails(t, FALSE)
  /\ sent' = Append(sent, Transaction(t))
  /\ UNCHANGED <<mined, reverted, deployed, starts, nonce, attempts, faults>>

(* The nonce has been taken.                                               *)
Refused(t) ==
  /\ pc[t] \in Sends /\ nonce[t] < Len(sent)
  /\ Fails(t, FALSE)
  /\ UNCHANGED <<chain, starts, nonce, attempts, faults>>

Accepted(t) ==
  /\ pc[t] \in Sends /\ nonce[t] = Len(sent)
  /\ sent' = Append(sent, Transaction(t))
  /\ \/ Goto(t, Sent(t)) /\ UNCHANGED <<up, instances, unsure, faults>>
     \/ Fault("lost") /\ Fails(t, Kind(t) = "execute")
  /\ UNCHANGED <<mined, reverted, deployed, starts, nonce, attempts>>

(* The nonce has been taken by a transaction that is still pending, and    *)
(* the fees have risen so much since that this one takes its place.        *)
Replaces(t) ==
  /\ pc[t] \in Sends /\ nonce[t] \in mined..(Len(sent) - 1)
  /\ Fault("replace")
  /\ sent' = [sent EXCEPT ![nonce[t] + 1] = Transaction(t)]
  /\ Goto(t, Sent(t))
  /\ UNCHANGED <<mined, reverted, deployed, processes, instances, nonce, attempts, unsure>>

(* waitForTransactionReceipt answers with the receipt of whatever          *)
(* transaction took the nonce.  The job fails when that one reverted, when *)
(* no answer comes, and when what has come of it cannot be stored.         *)
Reverted(t) == nonce[t] + 1 \in reverted
Succeeded(t) == nonce[t] < mined /\ ~Reverted(t)

WaitForReceipt(t) ==
  /\ pc[t] = "wait"
  /\ \/ Succeeded(t) /\ Goto(t, "done") /\ UNCHANGED <<up, instances, unsure, faults>>
     \/ Succeeded(t) /\ Fault("store") /\ Fails(t, TRUE)
     \/ Reverted(t) /\ Fails(t, FALSE) /\ UNCHANGED faults
     \/ Fault("timeout") /\ Fails(t, TRUE)
  /\ UNCHANGED <<chain, starts, nonce, attempts>>

(* A read fails: of the address, the code, the nonce, the fees.            *)
ReadFails(t) ==
  /\ pc[t] \in {"create", "deploy", "execute"} \cup Sends
  /\ Fault("rpc")
  /\ Fails(t, FALSE)
  /\ UNCHANGED <<chain, starts, nonce, attempts>>

-----------------------------------------------------------------------------
(* The chain.                                                              *)

Mine ==
  /\ mined < Len(sent)
  /\ mined' = mined + 1
  /\ \/ /\ deployed' = (deployed \/ sent[mined + 1].kind = "deploy")
        /\ UNCHANGED <<reverted, faults>>
     \/ /\ Fault("revert")
        /\ reverted' = reverted \cup {mined + 1}
        /\ UNCHANGED deployed
  /\ UNCHANGED <<sent, processes, instances, pc, nonce, attempts, unsure>>

Step(t) ==
  \/ GetClient(t) \/ CreateV1(t) \/ CreateV2(t) \/ Store(t)
  \/ GetTransactionCount(t) \/ Refused(t) \/ Accepted(t) \/ Replaces(t)
  \/ WaitForReceipt(t) \/ ReadFails(t)

Next ==
  \/ \E p \in Pods : Boot(p) \/ Crash(p)
  \/ \E t \in Tasks : Step(t)
  \/ Mine

Spec == Init /\ [][Next]_vars

-----------------------------------------------------------------------------
(* Properties.                                                             *)

(* What the first service executes runs on a smart account with code, on   *)
(* whichever client and however many of them deploy it: an execution on an *)
(* account without code succeeds and does nothing.  Deploys that revert or *)
(* that are replaced are not accounted for: no sender waits for the deploy *)
(* to be mined.                                                            *)
Disturbed == Happened("replace") \/ \E n \in reverted : sent[n].kind = "deploy"
ExecutesDeployed ==
  [][mined' # mined /\ ~Disturbed =>
       LET s == sent[mined'] IN s.kind = "execute" /\ s.task \notin V2 => deployed]_vars

(* Nonces that collide and executions that revert make jobs fail and run   *)
(* again, but what a job is to execute is there to take effect a second    *)
(* time only if an earlier attempt sent it and failed for another reason   *)
(* than its revert: it could not tell what became of it, or could not      *)
(* store it.                                                               *)
Executions(j) ==
  {n \in DOMAIN sent \ reverted : sent[n] = [kind |-> "execute", task |-> j]}
OncePerJob == \A j \in Jobs : Cardinality(Executions(j)) <= 1 + unsure[j]
=============================================================================
