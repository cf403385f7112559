----------------------------- MODULE MCAccounts ------------------------------
(* Two processes: one loads a balance and watches the transfers when it    *)
(* starts and fulfills an intent; the other rebalances.                    *)
EXTENDS Accounts

CONSTANTS p, q, a, f, l

MCPodOf == [t \in {a, f, l} |-> IF t = l THEN q ELSE p]
==============================================================================
