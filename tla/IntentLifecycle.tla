-------------------------- MODULE IntentLifecycle --------------------------
(***************************************************************************)
(* What the solver promises about one intent, with no queue, no handler    *)
(* and no failure in sight: an intent is recorded once, passes the stages  *)
(* validation, feasibility and fulfilment in that order, is sent to its    *)
(* destination chain only after all of them and at most MaxSends times,    *)
(* and its database status never claims more than its stage and the chain  *)
(* allow.  IntentPipeline implements this module.                          *)
(***************************************************************************)
EXTENDS Naturals

CONSTANTS Intents,  \* the intents, one per intent hash
          MaxSends  \* the transactions the solver may pay for per intent

VARIABLES stage,  \* how far the intent has come
          status, \* the status of its database record
          dest,   \* who fulfilled it on the destination chain
          sends,  \* the fulfilment transactions sent for it
          replaced \* whether another took the place of one of these

vars == <<stage, status, dest, sends, replaced>>

Stages == {"unseen", "recorded", "queued", "validated", "cleared"}
Statuses == {"ABSENT", "PENDING", "NON-BEND-WALLET", "INVALID", "INFEASABLE",
             "FAILED", "SOLVED"}
Fulfillers == {"open", "ours", "other"}

TypeOK ==
  /\ stage \in [Intents -> Stages]
  /\ status \in [Intents -> Statuses]
  /\ dest \in [Intents -> Fulfillers]
  /\ sends \in [Intents -> 0..MaxSends]
  /\ replaced \in [Intents -> BOOLEAN]

Init ==
  /\ stage = [i \in Intents |-> "unseen"]
  /\ status = [i \in Intents |-> "ABSENT"]
  /\ dest = [i \in Intents |-> "open"]
  /\ sends = [i \in Intents |-> 0]
  /\ replaced = [i \in Intents |-> FALSE]

(* The record is created, for a wallet that is accepted or refused.        *)
Record(i) ==
  /\ stage[i] = "unseen"
  /\ \E s \in {"PENDING", "NON-BEND-WALLET"} : status' = [status EXCEPT ![i] = s]
  /\ stage' = [stage EXCEPT ![i] = "recorded"]
  /\ UNCHANGED <<dest, sends, replaced>>

(* A stage lets the intent through to the next one.                        *)
Pass(i, from, to) ==
  /\ stage[i] = from
  /\ stage' = [stage EXCEPT ![i] = to]
  /\ UNCHANGED <<status, dest, sends, replaced>>

(* The verdicts a record may receive once its intent has reached a stage.  *)
Verdicts(i) ==
  (IF stage[i] \in {"queued", "validated", "cleared"} THEN {"INVALID"} ELSE {})
    \cup (IF stage[i] \in {"validated", "cleared"} THEN {"INFEASABLE"} ELSE {})
    \cup (IF stage[i] = "cleared" THEN {"FAILED"} ELSE {})
    \cup (IF stage[i] # "unseen" /\ (dest[i] # "open" \/ replaced[i]) THEN {"SOLVED"} ELSE {})

Judge(i) ==
  /\ \E s \in Verdicts(i) : status' = [status EXCEPT ![i] = s]
  /\ UNCHANGED <<stage, dest, sends, replaced>>

(* A transaction that fulfils the intent leaves for the destination chain. *)
Send(i) ==
  /\ stage[i] = "cleared"
  /\ sends[i] < MaxSends
  /\ sends' = [sends EXCEPT ![i] = @ + 1]
  /\ UNCHANGED <<stage, status, dest, replaced>>

(* The intent is fulfilled on chain, by a transaction sent or by a rival.  *)
Land(i) ==
  /\ dest[i] = "open"
  /\ \/ /\ sends[i] > 0
        /\ dest' = [dest EXCEPT ![i] = "ours"]
     \/ dest' = [dest EXCEPT ![i] = "other"]
  /\ UNCHANGED <<stage, status, sends, replaced>>

(* Another transaction of the account is mined in the place of one sent,   *)
(* and its receipt taken for the intent's.                                 *)
Replace(i) ==
  /\ sends[i] > 0
  /\ replaced' = [replaced EXCEPT ![i] = TRUE]
  /\ UNCHANGED <<stage, status, dest, sends>>

Next ==
  \E i \in Intents :
    \/ Record(i)
    \/ Pass(i, "recorded", "queued")
    \/ Pass(i, "queued", "validated")
    \/ Pass(i, "validated", "cleared")
    \/ Judge(i)
    \/ Send(i)
    \/ Land(i)
    \/ Replace(i)

Spec == Init /\ [][Next]_vars
=============================================================================
