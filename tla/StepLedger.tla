----------------------------- MODULE StepLedger -----------------------------
(***************************************************************************)
(* What the rollout pipeline of main_ppo_sync.py promises its consumers,   *)
(* the actor update and the validation metrics, with no queue, no replay   *)
(* buffer and no polling: prompts are offered in batches, sessions yield   *)
(* outputs at any time, a prompt is resolved once, and a batch is consumed *)
(* once, when all its prompts are resolved, with every output of those     *)
(* that finished and some outputs of those that failed.  Every use of an   *)
(* output counts, so that a second one is a step, and not a step allowed.  *)
(***************************************************************************)
EXTENDS Naturals

CONSTANTS Uid, Session

VARIABLES
    current,     \* prompts of the batch offered and not consumed yet
    result,      \* uid -> fresh, open, finished, failure
    outputs,     \* uid -> sessions that have yielded outputs
    consumed     \* <<uid, session>> -> how often it was trained on or scored

ledgerVars == <<current, result, outputs, consumed>>

OutputKey == Uid \X Session
OutputsOf(uids) == {k \in OutputKey : k[1] \in uids /\ k[2] \in outputs[k[1]]}

LedgerInit ==
    /\ current = {}
    /\ result = [u \in Uid |-> "fresh"]
    /\ outputs = [u \in Uid |-> {}]
    /\ consumed = [k \in OutputKey |-> 0]

Offer(uids) ==
    /\ current = {}
    /\ \A u \in uids : result[u] = "fresh"
    /\ current' = uids
    /\ result' = [u \in Uid |-> IF u \in uids THEN "open" ELSE result[u]]
    /\ UNCHANGED <<outputs, consumed>>

\* A session of a resolved prompt may only be a late one of a failed prompt.
Yield(u, s) ==
    /\ result[u] \in {"open", "failure"}
    /\ s \notin outputs[u]
    /\ outputs' = [outputs EXCEPT ![u] = @ \cup {s}]
    /\ UNCHANGED <<current, result, consumed>>

Resolve(u) ==
    /\ result[u] = "open"
    /\ \E r \in {"finished", "failure"} : result' = [result EXCEPT ![u] = r]
    /\ UNCHANGED <<current, outputs, consumed>>

\* The batch is consumed: nothing twice, nothing of another batch, and
\* nothing of a finished prompt left out.
Consume(keys) ==
    /\ current # {}
    /\ \A u \in current : result[u] # "open"
    /\ OutputsOf({u \in current : result[u] = "finished"}) \subseteq keys
    /\ consumed' = [k \in OutputKey |-> IF k \in keys THEN consumed[k] + 1 ELSE consumed[k]]
    /\ current' = {}
    /\ UNCHANGED <<result, outputs>>

\* The run fails instead, only when no output of the batch was in time.
Abandon ==
    /\ current # {}
    /\ \A u \in current : result[u] # "open"
    /\ OutputsOf({u \in current : result[u] = "finished"}) = {}
    /\ current' = {}
    /\ UNCHANGED <<result, outputs, consumed>>

LedgerNext ==
    \/ \E uids \in (SUBSET Uid) \ {{}} : Offer(uids)
    \/ \E u \in Uid : Resolve(u) \/ \E s \in Session : Yield(u, s)
    \/ \E keys \in SUBSET {k \in OutputsOf(current) : consumed[k] = 0} : Consume(keys)
    \/ Abandon

LedgerSpec == LedgerInit /\ [][LedgerNext]_ledgerVars

=============================================================================
