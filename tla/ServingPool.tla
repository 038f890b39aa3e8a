---------------------------- MODULE ServingPool ----------------------------
(***************************************************************************)
(* The generation servers of a training run as its requests see them: the  *)
(* load balancer that routes them, the weight synchronisation that aborts  *)
(* and resumes them, and trainer-side validation, which lends the          *)
(* Trainer's own GPUs to the pool for a while.                             *)
(*                                                                         *)
(*   verl/workers/rollout/llm_server.py                                    *)
(*   verl/checkpoint_engine/base.py                                        *)
(*   verl/experimental/fully_async_policy/fully_async_rollouter.py         *)
(*   verl/experimental/fully_async_policy/fully_async_trainer.py           *)
(*                                                                         *)
(* The balancer is one Ray actor: each of its methods is one step, and a   *)
(* release is a message nobody waits for.  A request is one conversation   *)
(* of Turns[r] calls; what is generated is left out, save the version of the  *)
(* weights that did it.  Engines keep the calls that reach them while they *)
(* are paused until they are resumed (pause_generation of vLLM >= 0.12).   *)
(***************************************************************************)
EXTENDS Naturals, FiniteSets, Sequences, SequencesExt

CONSTANTS
    Standalone,   \* servers of the Rollouter's own
    Hybrid,       \* servers on the Trainer's GPUs, registered at its pleasure
    Request,      \* request ids
    Turns,        \* request -> calls it makes
    CacheSize,    \* max_cache_size of the sticky sessions
    Versions,     \* bound: weight synchronisations
    TestFreq,     \* trainer.test_freq
    Faulty,       \* bound: the synchronisations in which an abort may raise
    None

Server == Standalone \cup Hybrid

ASSUME ServingAssumption ==
    /\ Standalone \cap Hybrid = {} /\ Standalone # {}
    /\ IsFiniteSet(Server) /\ IsFiniteSet(Request)
    /\ {CacheSize, TestFreq} \subseteq Nat \ {0}
    /\ Turns \in [Request -> Nat]
    /\ Versions \in Nat
    /\ Faulty \subseteq Nat
    /\ None \notin Server

VARIABLES
    inflight,   \* _inflight_requests: its domain is the pool
    sticky,     \* _request_id_to_server, None where there is no entry
    recency,    \* its keys, least recently used first
    at,         \* request -> the server its call was routed to, or None
    phase,      \* request -> idle, sent, generating, aborted
    turn,       \* request -> calls answered
    seen,       \* request -> version of the weights behind its last output
    releases,   \* server -> release messages under way
    paused,     \* servers whose engine is paused
    asleep,     \* hybrid servers whose memory is given back
    weights,    \* server -> version of its weights
    unaborted,  \* servers whose abort raised, until they are resumed: nobody is told
    version,    \* current_param_version
    program,    \* what is left of the synchronisation
    todo        \* servers that have not answered its first step yet

poolVars    == <<inflight, sticky, recency>>
requestVars == <<at, phase, turn, seen>>
engineVars  == <<paused, asleep, weights, unaborted>>
syncVars    == <<version, program, todo>>

vars == <<poolVars, requestVars, releases, engineVars, syncVars>>

Pool == DOMAIN inflight

\* At first the hybrid servers sleep and are not in the pool.
Init ==
    /\ inflight = [s \in Standalone |-> 0]
    /\ sticky = [r \in Request |-> None]
    /\ recency = <<>>
    /\ at = [r \in Request |-> None]
    /\ phase = [r \in Request |-> "idle"]
    /\ turn = [r \in Request |-> 0]
    /\ seen = [r \in Request |-> 0]
    /\ releases = [s \in Server |-> 0]
    /\ paused = {}
    /\ asleep = Hybrid
    /\ weights = [s \in Server |-> 0]
    /\ unaborted = {}
    /\ version = 0
    /\ program = <<>>
    /\ todo = {}

-----------------------------------------------------------------------------
(***************************************************************************)
(* acquire_server: the server of the session while it is in the pool, else *)
(* a least loaded one, which becomes the session's; an LRU cache forgets.  *)
(***************************************************************************)
Touched(r) == Append(SelectSeq(recency, LAMBDA x : x # r), r)

LeastLoaded == {s \in Pool : \A t \in Pool : inflight[s] <= inflight[t]}

Candidates(r) == IF sticky[r] \in Pool THEN {sticky[r]} ELSE LeastLoaded

Remember(r, s) ==
    LET all  == Touched(r)
        kept == IF Len(all) > CacheSize THEN Tail(all) ELSE all
    IN  /\ recency' = kept
        /\ sticky' = [q \in Request |->
                        IF q = r THEN s
                        ELSE IF q \in ToSet(kept) THEN sticky[q] ELSE None]

Acquire(r) ==
    /\ phase[r] = "idle"
    /\ turn[r] < Turns[r]
    /\ \E s \in Candidates(r) :
         /\ inflight' = [inflight EXCEPT ![s] = @ + 1]
         /\ Remember(r, s)
         /\ at' = [at EXCEPT ![r] = s]
    /\ phase' = [phase EXCEPT ![r] = "sent"]
    /\ UNCHANGED <<turn, seen, releases, engineVars, syncVars>>

\* server.generate: a paused engine keeps the call waiting
Begin(r) ==
    /\ phase[r] = "sent"
    /\ at[r] \notin paused
    /\ phase' = [phase EXCEPT ![r] = "generating"]
    /\ UNCHANGED <<poolVars, at, turn, seen, releases, engineVars, syncVars>>

\* the finally of LLMServerClient.generate: a message, not awaited
Released(r) == releases' = [releases EXCEPT ![at[r]] = @ + 1]

Answer(r) ==
    /\ phase[r] = "generating"
    /\ at[r] \notin asleep
    /\ Released(r)
    /\ phase' = [phase EXCEPT ![r] = "idle"]
    /\ at' = [at EXCEPT ![r] = None]
    /\ turn' = [turn EXCEPT ![r] = @ + 1]
    /\ seen' = [seen EXCEPT ![r] = weights[at[r]]]
    /\ UNCHANGED <<poolVars, engineVars, syncVars>>

\* Mutant: the call that was aborted is not released.
AskAgain_KeepsCount(r) ==
    /\ phase[r] = "aborted"
    /\ phase' = [phase EXCEPT ![r] = "idle"]
    /\ at' = [at EXCEPT ![r] = None]
    /\ UNCHANGED <<poolVars, turn, seen, releases, engineVars, syncVars>>

\* FullyAsyncLLMServerClient.generate asks again for what is missing
AskAgain(r) ==
    /\ phase[r] = "aborted"
    /\ Released(r)
    /\ phase' = [phase EXCEPT ![r] = "idle"]
    /\ at' = [at EXCEPT ![r] = None]
    /\ UNCHANGED <<poolVars, turn, seen, engineVars, syncVars>>

\* release_server: nothing for a server that left the pool, never below zero
ReleaseServer(s) ==
    /\ releases[s] > 0
    /\ releases' = [releases EXCEPT ![s] = @ - 1]
    /\ inflight' = IF s \in Pool /\ inflight[s] > 0
                   THEN [inflight EXCEPT ![s] = @ - 1] ELSE inflight
    /\ UNCHANGED <<sticky, recency, requestVars, engineVars, syncVars>>

-----------------------------------------------------------------------------
(***************************************************************************)
(* The Trainer's side: update_weights of the checkpoint engine manager on  *)
(* the standalone servers, and, when the new version is to be validated,   *)
(* _trainer_side_validate, which ends as the pool began.                   *)
(***************************************************************************)
Step(op, on) == [op |-> op, on |-> on]

UpdateWeights ==
    << Step("abort", Standalone), Step("load", Standalone),
       Step("resume", Standalone) >>

\* Mutant: after the validation only the hybrid servers are told to go on.
TrainerSideValidate_HalfResumed ==
    << Step("wake", Hybrid), Step("abort", Standalone), Step("abort", Hybrid),
       Step("add", Hybrid), Step("resume", Standalone), Step("resume", Hybrid),
       Step("abort", Standalone), Step("abort", Hybrid),
       Step("remove", Hybrid), Step("sleep", Hybrid), Step("resume", Hybrid) >>

TrainerSideValidate ==
    << Step("wake", Hybrid), Step("abort", Standalone), Step("abort", Hybrid),
       Step("add", Hybrid), Step("resume", Standalone), Step("resume", Hybrid),
       Step("abort", Standalone), Step("abort", Hybrid),
       Step("remove", Hybrid), Step("sleep", Hybrid),
       Step("resume", Standalone), Step("resume", Hybrid) >>

\* a new version: every step is over before the next one begins
StartSync ==
    /\ program = <<>>
    /\ version < Versions
    /\ version' = version + 1
    /\ program' = UpdateWeights
                    \o (IF (version + 1) % TestFreq = 0 /\ Hybrid # {}
                        THEN TrainerSideValidate ELSE <<>>)
    /\ todo' = Standalone
    /\ UNCHANGED <<poolVars, requestVars, releases, engineVars>>

Doing(op) == program # <<>> /\ program[1].op = op

\* server s has answered; with the last one the step is over
Done(s) ==
    LET rest == todo \ {s}
        left == Tail(program)
    IN  IF rest # {} THEN todo' = rest /\ UNCHANGED program
        ELSE /\ program' = left
             /\ todo' = IF left = <<>> THEN {} ELSE left[1].on

\* a batched call to the balancer: the step is over at once
DoneAll ==
    /\ program' = Tail(program)
    /\ todo' = program[2].on

\* Mutant: what runs is aborted, but the engine goes on taking calls.
Abort_TakesCalls(s) ==
    /\ Doing("abort") /\ s \in todo
    /\ phase' = [r \in Request |-> IF at[r] = s /\ phase[r] = "generating"
                                   THEN "aborted" ELSE phase[r]]
    /\ Done(s)
    /\ UNCHANGED <<poolVars, at, turn, seen, releases, engineVars, version>>

\* abort_all_requests: pause the engine, abort what it generates
Abort(s) ==
    /\ Doing("abort") /\ s \in todo
    /\ paused' = paused \cup {s}
    /\ phase' = [r \in Request |-> IF at[r] = s /\ phase[r] = "generating"
                                   THEN "aborted" ELSE phase[r]]
    /\ unaborted' = unaborted \ {s}
    /\ Done(s)
    /\ UNCHANGED <<poolVars, at, turn, seen, releases, asleep, weights, version>>

\* Its except: whatever the engine did before it raised stands, the error is
\* returned, and no caller looks at it.
AbortRaises(s) ==
    /\ Doing("abort") /\ s \in todo
    /\ version \in Faulty
    /\ paused' \in {paused, paused \cup {s}}
    /\ \E hit \in SUBSET {r \in Request : at[r] = s /\ phase[r] = "generating"} :
          phase' = [r \in Request |-> IF r \in hit THEN "aborted" ELSE phase[r]]
    /\ unaborted' = unaborted \cup {s}
    /\ Done(s)
    /\ UNCHANGED <<poolVars, at, turn, seen, releases, asleep, weights, version>>

ResumeGeneration(s) ==
    /\ Doing("resume") /\ s \in todo
    /\ paused' = paused \ {s}
    /\ unaborted' = unaborted \ {s}
    /\ Done(s)
    /\ UNCHANGED <<poolVars, requestVars, releases, asleep, weights, version>>

\* update_weights through the process group; the servers keep their memory
Load(s) ==
    /\ Doing("load") /\ s \in todo
    /\ weights' = [weights EXCEPT ![s] = version]
    /\ Done(s)
    /\ UNCHANGED <<poolVars, requestVars, releases, paused, asleep, unaborted, version>>

\* Mutant: the server only wakes up, with the weights it had.
Wake_KeepsWeights(s) ==
    /\ Doing("wake") /\ s \in todo
    /\ asleep' = asleep \ {s}
    /\ Done(s)
    /\ UNCHANGED <<poolVars, requestVars, releases, paused, weights, unaborted, version>>

\* the naive update: the server wakes up with the Trainer's weights
Wake(s) ==
    /\ Doing("wake") /\ s \in todo
    /\ asleep' = asleep \ {s}
    /\ weights' = [weights EXCEPT ![s] = version]
    /\ Done(s)
    /\ UNCHANGED <<poolVars, requestVars, releases, paused, unaborted, version>>

Sleep(s) ==
    /\ Doing("sleep") /\ s \in todo
    /\ asleep' = asleep \cup {s}
    /\ Done(s)
    /\ UNCHANGED <<poolVars, requestVars, releases, paused, weights, unaborted, version>>

\* add_replicas, add_servers: in the pool with a count of zero
AddServers ==
    /\ Doing("add")
    /\ inflight' = [s \in Server |-> IF s \in Hybrid THEN 0 ELSE inflight[s]]
    /\ DoneAll
    /\ UNCHANGED <<sticky, recency, requestVars, releases, engineVars, version>>

\* remove_replicas, remove_servers
RemoveServers ==
    /\ Doing("remove")
    /\ inflight' = [s \in Pool \ Hybrid |-> inflight[s]]
    /\ DoneAll
    /\ UNCHANGED <<sticky, recency, requestVars, releases, engineVars, version>>

Ended ==
    /\ \A r \in Request : turn[r] = Turns[r]
    /\ version = Versions /\ program = <<>>
    /\ \A s \in Server : releases[s] = 0

Client(r) == Acquire(r) \/ Begin(r) \/ Answer(r) \/ AskAgain(r)

Sync ==
    \/ StartSync \/ AddServers \/ RemoveServers
    \/ \E s \in Server :
         \/ Abort(s) \/ AbortRaises(s) \/ ResumeGeneration(s)
         \/ Load(s) \/ Wake(s) \/ Sleep(s)

Next ==
    \/ \E r \in Request : Client(r)
    \/ \E s \in Server : ReleaseServer(s)
    \/ Sync

Spec == Init /\ [][Next]_vars

\* Requests are served in time, messages arrive and the Trainer goes on.
Fairness ==
    /\ \A r \in Request : WF_vars(Client(r))
    /\ \A s \in Server : WF_vars(ReleaseServer(s))
    /\ WF_vars(Sync)

FairSpec == Spec /\ Fairness

-----------------------------------------------------------------------------
\* The calls a server answers for: routed to it and not yet back.
Holding(s) == {r \in Request : at[r] = s}

\* The balancer's count of a server that never leaves the pool is exact: the
\* calls it holds and the releases under way, however calls are aborted and
\* asked again; that of a server that came back is never too high, so that no
\* server is ever taken for busy when it is not.
CountIsExact ==
    \A s \in Pool :
        LET calls == Cardinality(Holding(s)) + releases[s]
        IN  IF s \in Standalone THEN inflight[s] = calls ELSE inflight[s] <= calls

\* Weights change only under an engine that generates nothing, unless it is
\* asleep or its abort raised: no other answer is made of two versions.
LoadsOnlyIdle ==
    [][\A r \in Request : phase[r] = "generating" =>
           weights'[at[r]] = weights[at[r]] \/ at[r] \in asleep \cup unaborted]_vars

\* A request's outputs never go back to older weights: generate() reports the
\* version of the first as the minimum and that of the last as the maximum.  Only
\* servers that an abort has not stopped can answer while others are loaded.
VersionsMonotone ==
    [][\A r \in Request : seen'[r] >= seen[r] \/ at[r] \in unaborted]_vars

\* A call caught by a server that has been put to sleep.
Stranded == {r \in Request : at[r] \in asleep}

\* Every request is answered and every synchronisation ends, unless a call was
\* routed to a hybrid server between its abort and its removal from the pool:
\* that server is asleep when generation is resumed.
EndsUnlessStranded == [](Stranded = {}) => <>Ended
=============================================================================
