-------------------------- MODULE ServingPoolProofs --------------------------
(***************************************************************************)
(* Machine-checked proofs about ServingPool, for any servers, requests and *)
(* number of synchronisations: the balancer's counts, that weights change  *)
(* only under idle engines, and that a request never goes back to older    *)
(* weights, save where an abort has raised.                                *)
(***************************************************************************)
EXTENDS ServingPool, FiniteSetTheorems, SequenceTheorems, TLAPS

Op == {"abort", "load", "resume", "wake", "add", "remove", "sleep"}
Steps == [op : Op, on : SUBSET Server]

ServingTypeOK ==
    /\ Standalone \subseteq Pool /\ Pool \subseteq Server
    /\ inflight \in [Pool -> Nat]
    /\ at \in [Request -> Server \cup {None}]
    /\ phase \in [Request -> {"idle", "sent", "generating", "aborted"}]
    /\ seen \in [Request -> Nat]
    /\ releases \in [Server -> Nat]
    /\ paused \subseteq Server /\ asleep \subseteq Server /\ unaborted \subseteq Server
    /\ weights \in [Server -> Nat]
    /\ version \in Nat
    /\ program \in Seq(Steps)

\* A request has a server exactly while it has a call.
RoutedWhileCalling == \A r \in Request : phase[r] = "idle" <=> at[r] = None

CountInv == ServingTypeOK /\ RoutedWhileCalling /\ CountIsExact

-----------------------------------------------------------------------------
(* The synchronisation's program                                           *)

\* What is left of a program keeps its order: the standalone servers are
\* stopped, then loaded, before any hybrid server wakes, and whoever wakes is
\* put to sleep later.
At(op) == {i \in DOMAIN program : program[i].op = op}

PlanInOrder ==
    /\ \A i \in At("load") :
          /\ program[i].on = Standalone
          /\ i <= 2
          /\ i = 2 => program[1] = Step("abort", Standalone)
          /\ \A j \in At("wake") : i < j
          /\ At("sleep") # {} => At("wake") # {}
    /\ \A i \in At("wake") :
          /\ program[i].on = Hybrid
          /\ At("wake") = {i}
          /\ \A j \in At("sleep") : i < j
          /\ At("sleep") # {}
    /\ \A i \in At("sleep") : program[i].on = Hybrid /\ At("sleep") = {i}

Waiting == program # <<>> => todo \subseteq program[1].on

\* Hybrid servers are awake only between the two steps.
AsleepOutside ==
    /\ asleep \subseteq Hybrid
    /\ At("sleep") = {} \/ At("wake") \ {1} # {} => Hybrid \subseteq asleep
    /\ Doing("wake") => todo \subseteq asleep
    /\ Doing("sleep") => Hybrid \ todo \subseteq asleep

\* Nothing is generated by an engine that is paused, if the abort went well.
PausedIsQuiet ==
    \A r \in Request : at[r] \in paused \ unaborted => phase[r] # "generating"

\* Servers whose abort has returned, one way or the other.
Told == paused \cup unaborted

StoppedBeforeLoad ==
    /\ 2 \in At("load") => Standalone \ todo \subseteq Told
    /\ 1 \in At("load") => Standalone \subseteq Told

PlanInv == PlanInOrder /\ Waiting /\ AsleepOutside /\ PausedIsQuiet /\ StoppedBeforeLoad

\* Until a server is loaded nothing is generated with the new weights; once all
\* are nothing with older ones.
VersionInv ==
    /\ \A r \in Request : seen[r] <= version
    /\ \A s \in Hybrid \ asleep : weights[s] = version
    /\ At("load") = {} => \A s \in Standalone : weights[s] = version
    /\ At("load") # {} =>
          /\ version > 0
          /\ \A s \in Standalone :
                weights[s] = IF Doing("load") /\ s \notin todo THEN version ELSE version - 1
    /\ 2 \in At("load") => \A r \in Request : seen[r] <= version - 1

ServingInv == CountInv /\ PlanInv /\ VersionInv

-----------------------------------------------------------------------------
(* Types                                                                   *)

LEMMA PlanTypes ==
    /\ UpdateWeights \in Seq(Steps) /\ TrainerSideValidate \in Seq(Steps)
    /\ Len(UpdateWeights) = 3 /\ Len(TrainerSideValidate) = 12
  BY DEF UpdateWeights, TrainerSideValidate, Step, Steps, Op, Server

\* Done leaves the program or takes its first step off.
LEMMA DoneMoves ==
    ASSUME ServingTypeOK, program # <<>>, NEW s, Done(s)
    PROVE  /\ \/ program' = program /\ todo' = todo \ {s} /\ todo \ {s} # {}
              \/ /\ program' = Tail(program) /\ todo \ {s} = {}
                 /\ todo' = IF program' = <<>> THEN {} ELSE program'[1].on
           /\ program' \in Seq(Steps)
<1>1. Tail(program) \in Seq(Steps)
  BY DEF ServingTypeOK
<1>. QED
  BY <1>1 DEF Done, ServingTypeOK

LEMMA InitTypes == Init => ServingTypeOK /\ RoutedWhileCalling
<1> SUFFICES ASSUME Init PROVE ServingTypeOK /\ RoutedWhileCalling
  OBVIOUS
<1>. QED
  BY ServingAssumption DEF Init, ServingTypeOK, RoutedWhileCalling, Pool, Server

LEMMA ClientKeepsTypes ==
    ASSUME ServingTypeOK, RoutedWhileCalling, NEW r \in Request, Client(r)
    PROVE  ServingTypeOK' /\ RoutedWhileCalling'
<1>. USE ServingAssumption DEF ServingTypeOK, RoutedWhileCalling, engineVars, syncVars, poolVars
<1>1. CASE Acquire(r)
  <2>1. PICK s \in Candidates(r) :
            /\ inflight' = [inflight EXCEPT ![s] = @ + 1]
            /\ at' = [at EXCEPT ![r] = s]
    BY <1>1 DEF Acquire
  <2>2. s \in Pool
    BY DEF Candidates, LeastLoaded
  <2>3. Pool' = Pool /\ inflight' \in [Pool -> Nat]
    BY <2>1, <2>2 DEF Pool
  <2>4. s # None
    BY <2>2
  <2>5. at' \in [Request -> Server \cup {None}] /\ at'[r] # None
    BY <2>1, <2>2, <2>4
  <2>6. /\ phase' = [phase EXCEPT ![r] = "sent"]
        /\ UNCHANGED <<seen, releases, paused, asleep, weights, unaborted, version, program>>
    BY <1>1, Zenon DEF Acquire
  <2>7. phase' \in [Request -> {"idle", "sent", "generating", "aborted"}]
    BY <2>6
  <2>8. RoutedWhileCalling'
    BY <2>1, <2>5, <2>6
  <2>. QED
    BY <2>3, <2>5, <2>6, <2>7, <2>8, Zenon
<1>2. CASE Begin(r)
  BY <1>2 DEF Begin, Pool
<1>3. CASE Answer(r) \/ AskAgain(r)
  <2>. USE <1>3
  <2>1. /\ at' = [at EXCEPT ![r] = None] /\ phase' = [phase EXCEPT ![r] = "idle"]
        /\ releases' = [releases EXCEPT ![at[r]] = @ + 1]
        /\ UNCHANGED <<inflight, paused, asleep, weights, unaborted, version, program>>
    BY Zenon DEF Answer, AskAgain, Released
  <2>2. at[r] \in Server
    BY DEF Answer, AskAgain
  <2>3. releases' \in [Server -> Nat] /\ at' \in [Request -> Server \cup {None}]
    BY <2>1, <2>2
  <2>4. seen' \in [Request -> Nat]
    BY <2>2 DEF Answer, AskAgain
  <2>5. phase' \in [Request -> {"idle", "sent", "generating", "aborted"}]
    BY <2>1
  <2>6. RoutedWhileCalling'
    BY <2>1
  <2>. QED
    BY <2>1, <2>3, <2>4, <2>5, <2>6, Zenon DEF Pool
<1>. QED
  BY <1>1, <1>2, <1>3 DEF Client

LEMMA ReleaseKeepsTypes ==
    ASSUME ServingTypeOK, RoutedWhileCalling, NEW s \in Server, ReleaseServer(s)
    PROVE  ServingTypeOK' /\ RoutedWhileCalling'
<1>1. Pool' = Pool /\ inflight' \in [Pool -> Nat]
  BY DEF ReleaseServer, Pool, ServingTypeOK
<1>. QED
  BY <1>1 DEF ReleaseServer, ServingTypeOK, RoutedWhileCalling, requestVars, engineVars, syncVars

LEMMA SyncKeepsTypes ==
    ASSUME ServingTypeOK, RoutedWhileCalling, Sync
    PROVE  ServingTypeOK' /\ RoutedWhileCalling'
<1>. USE ServingAssumption DEF ServingTypeOK, RoutedWhileCalling, engineVars, syncVars, poolVars,
     requestVars
<1>1. CASE StartSync
  <2>1. UpdateWeights \o TrainerSideValidate \in Seq(Steps) /\ UpdateWeights \o <<>> \in Seq(Steps)
    BY PlanTypes
  <2>. QED
    BY <1>1, <2>1 DEF StartSync, Pool
<1>2. ASSUME NEW s \in Server, Abort(s) PROVE ServingTypeOK' /\ RoutedWhileCalling'
  BY <1>2, DoneMoves DEF Abort, Doing, Pool
<1>2a. ASSUME NEW s \in Server, AbortRaises(s) PROVE ServingTypeOK' /\ RoutedWhileCalling'
  <2>1. PICK hit \in SUBSET {r \in Request : at[r] = s /\ phase[r] = "generating"} :
            phase' = [r \in Request |-> IF r \in hit THEN "aborted" ELSE phase[r]]
    BY <1>2a DEF AbortRaises
  <2>2. /\ phase' \in [Request -> {"idle", "sent", "generating", "aborted"}]
        /\ \A r \in Request : phase'[r] = "idle" <=> phase[r] = "idle"
    BY <2>1
  <2>3. /\ paused' \subseteq Server /\ unaborted' \subseteq Server
        /\ UNCHANGED <<inflight, at, seen, releases, asleep, weights, version>>
    BY <1>2a DEF AbortRaises
  <2>4. program' \in Seq(Steps)
    BY <1>2a, DoneMoves DEF AbortRaises, Doing
  <2>. QED
    BY <2>2, <2>3, <2>4 DEF Pool
<1>3. ASSUME NEW s \in Server, ResumeGeneration(s) PROVE ServingTypeOK' /\ RoutedWhileCalling'
  BY <1>3, DoneMoves DEF ResumeGeneration, Doing, Pool
<1>4. ASSUME NEW s \in Server, Load(s) PROVE ServingTypeOK' /\ RoutedWhileCalling'
  BY <1>4, DoneMoves DEF Load, Doing, Pool
<1>5. ASSUME NEW s \in Server, Wake(s) PROVE ServingTypeOK' /\ RoutedWhileCalling'
  BY <1>5, DoneMoves DEF Wake, Doing, Pool
<1>6. ASSUME NEW s \in Server, Sleep(s) PROVE ServingTypeOK' /\ RoutedWhileCalling'
  BY <1>6, DoneMoves DEF Sleep, Doing, Pool
<1>7. CASE AddServers
  <2>1. inflight' \in [Server -> Nat] /\ Pool' = Server
    BY <1>7 DEF AddServers, Pool, Server
  <2>2. program' \in Seq(Steps)
    BY <1>7 DEF AddServers, Doing, DoneAll
  <2>3. UNCHANGED <<at, phase, seen, releases, paused, asleep, weights, unaborted, version>>
    BY <1>7, Zenon DEF AddServers
  <2>. QED
    BY <2>1, <2>2, <2>3 DEF Server
<1>8. CASE RemoveServers
  <2>1. inflight' \in [Standalone -> Nat] /\ Pool' = Standalone
    BY <1>8 DEF RemoveServers, Pool, Server
  <2>2. program' \in Seq(Steps)
    BY <1>8 DEF RemoveServers, Doing, DoneAll
  <2>3. UNCHANGED <<at, phase, seen, releases, paused, asleep, weights, unaborted, version>>
    BY <1>8, Zenon DEF RemoveServers
  <2>. QED
    BY <2>1, <2>2, <2>3 DEF Server
<1>. QED
  BY <1>1, <1>2, <1>2a, <1>3, <1>4, <1>5, <1>6, <1>7, <1>8 DEF Sync

-----------------------------------------------------------------------------
(* The balancer's counts                                                   *)

LEMMA HoldingFinite == \A s : IsFiniteSet(Holding(s))
  BY ServingAssumption, FS_Subset DEF Holding

\* A call that is routed or comes back changes the calls of its server only.
LEMMA Routed ==
    ASSUME ServingTypeOK, NEW r \in Request, at[r] = None, NEW s \in Server,
           at' = [at EXCEPT ![r] = s]
    PROVE  \A t \in Server : Cardinality(Holding(t)') =
                               Cardinality(Holding(t)) + (IF t = s THEN 1 ELSE 0)
<1>1. TAKE t \in Server
<1>2. CASE t = s
  <2>1. Holding(t)' = Holding(t) \cup {r} /\ r \notin Holding(t)
    BY <1>2, ServingAssumption DEF Holding, ServingTypeOK
  <2>. QED
    BY <1>2, <2>1, HoldingFinite, FS_AddElement
<1>3. CASE t # s
  <2>1. Holding(t)' = Holding(t)
    BY <1>3, ServingAssumption DEF Holding, ServingTypeOK
  <2>. QED
    BY <1>3, <2>1, HoldingFinite, FS_CardinalityType
<1>. QED
  BY <1>2, <1>3

LEMMA CameBack ==
    ASSUME ServingTypeOK, NEW r \in Request, at[r] \in Server,
           at' = [at EXCEPT ![r] = None]
    PROVE  \A t \in Server : Cardinality(Holding(t)') =
                               Cardinality(Holding(t)) - (IF t = at[r] THEN 1 ELSE 0)
<1>1. TAKE t \in Server
<1>2. CASE t = at[r]
  <2>1. Holding(t)' = Holding(t) \ {r} /\ r \in Holding(t)
    BY <1>2, ServingAssumption DEF Holding, ServingTypeOK
  <2>. QED
    BY <1>2, <2>1, HoldingFinite, FS_RemoveElement, FS_CardinalityType
<1>3. CASE t # at[r]
  <2>1. Holding(t)' = Holding(t)
    BY <1>3, ServingAssumption DEF Holding, ServingTypeOK
  <2>. QED
    BY <1>3, <2>1, HoldingFinite, FS_CardinalityType
<1>. QED
  BY <1>2, <1>3

LEMMA CountsAreNat == \A s : Cardinality(Holding(s)) \in Nat
  BY HoldingFinite, FS_CardinalityType

LEMMA InitCount == Init => CountInv
<1> SUFFICES ASSUME Init PROVE CountInv
  OBVIOUS
<1>1. \A s \in Server : Holding(s) = {}
  BY ServingAssumption DEF Init, Holding
<1>2. Pool = Standalone /\ \A s \in Standalone : inflight[s] = 0 /\ releases[s] = 0
  BY DEF Init, Pool, Server
<1>3. \A s \in Pool : Cardinality(Holding(s)) = 0
  BY <1>1, <1>2, FS_EmptySet DEF Server
<1>4. CountIsExact
  BY <1>2, <1>3 DEF CountIsExact
<1>. QED
  BY <1>4, InitTypes DEF CountInv

LEMMA ClientKeepsCount ==
    ASSUME CountInv, NEW r \in Request, Client(r)
    PROVE  CountInv'
<1>. USE DEF CountInv
<1>1. ServingTypeOK' /\ RoutedWhileCalling'
  BY ClientKeepsTypes
<1>2. ASSUME NEW s \in Server, releases' = [releases EXCEPT ![s] = @ + 1], s = at[r],
             at' = [at EXCEPT ![r] = None], inflight' = inflight
      PROVE  CountIsExact'
  <2>1. ASSUME NEW t \in Pool
        PROVE  Cardinality(Holding(t)') + releases'[t] = Cardinality(Holding(t)) + releases[t]
    <3>1. t \in Server /\ releases'[t] = releases[t] + (IF t = at[r] THEN 1 ELSE 0)
      BY <1>2 DEF ServingTypeOK
    <3>2. Cardinality(Holding(t)') = Cardinality(Holding(t)) - (IF t = at[r] THEN 1 ELSE 0)
      BY <1>2, <3>1, CameBack
    <3>. QED
      BY <3>1, <3>2, CountsAreNat DEF ServingTypeOK
  <2>. QED
    BY <1>2, <2>1 DEF CountIsExact, Pool
<1>3. CASE Acquire(r)
  <2>1. PICK s \in Candidates(r) :
            /\ inflight' = [inflight EXCEPT ![s] = @ + 1]
            /\ at' = [at EXCEPT ![r] = s]
    BY <1>3 DEF Acquire
  <2>2. s \in Pool /\ s \in Server
    BY DEF Candidates, LeastLoaded, ServingTypeOK
  <2>3. \A t \in Server : Cardinality(Holding(t)') =
                            Cardinality(Holding(t)) + (IF t = s THEN 1 ELSE 0)
    BY <1>3, <2>1, <2>2, Routed DEF Acquire, RoutedWhileCalling
  <2>4. Pool' = Pool /\ releases' = releases
    BY <1>3, <2>1 DEF Pool, Acquire
  <2>5. \A t \in Pool : inflight'[t] = inflight[t] + (IF t = s THEN 1 ELSE 0)
    BY <2>1, <2>2 DEF ServingTypeOK
  <2>6. ASSUME NEW t \in Pool
        PROVE  LET calls == Cardinality(Holding(t)') + releases'[t]
               IN  IF t \in Standalone THEN inflight'[t] = calls ELSE inflight'[t] <= calls
    <3>1. t \in Server
      BY DEF ServingTypeOK
    <3>2. Cardinality(Holding(t)') = Cardinality(Holding(t)) + (IF t = s THEN 1 ELSE 0)
      BY <2>3, <3>1
    <3>3. inflight'[t] = inflight[t] + (IF t = s THEN 1 ELSE 0) /\ releases'[t] = releases[t]
      BY <2>4, <2>5
    <3>4. inflight[t] \in Nat /\ releases[t] \in Nat /\ Cardinality(Holding(t)) \in Nat
      BY <3>1, CountsAreNat DEF ServingTypeOK
    <3>5. IF t \in Standalone THEN inflight[t] = Cardinality(Holding(t)) + releases[t]
                               ELSE inflight[t] <= Cardinality(Holding(t)) + releases[t]
      BY DEF CountIsExact
    <3>. QED
      BY <3>2, <3>3, <3>4, <3>5
  <2>. QED
    BY <1>1, <2>4, <2>6 DEF CountIsExact
<1>4. CASE Begin(r)
  BY <1>1, <1>4 DEF Begin, CountIsExact, Pool, Holding, poolVars
<1>5. CASE Answer(r) \/ AskAgain(r)
  <2>1. at[r] \in Server
    BY <1>5 DEF Answer, AskAgain, ServingTypeOK, RoutedWhileCalling
  <2>. QED
    BY <1>1, <1>2, <1>5, <2>1 DEF Answer, AskAgain, Released, poolVars
<1>. QED
  BY <1>3, <1>4, <1>5 DEF Client

LEMMA ReleaseKeepsCount ==
    ASSUME CountInv, NEW s \in Server, ReleaseServer(s)
    PROVE  CountInv'
<1>. USE DEF CountInv
<1>1. ServingTypeOK' /\ RoutedWhileCalling'
  BY ReleaseKeepsTypes
<1>2. Pool' = Pool /\ \A t \in Server : Holding(t)' = Holding(t)
  BY DEF ReleaseServer, Pool, Holding, requestVars, ServingTypeOK
<1>3. \A t \in Pool : t # s => inflight'[t] = inflight[t] /\ releases'[t] = releases[t]
  BY DEF ReleaseServer, ServingTypeOK
<1>4. s \in Pool => /\ releases'[s] = releases[s] - 1
                    /\ inflight'[s] = IF inflight[s] > 0 THEN inflight[s] - 1 ELSE 0
  BY DEF ReleaseServer, ServingTypeOK
<1>5. ASSUME NEW t \in Pool
      PROVE  LET calls == Cardinality(Holding(t)) + releases'[t]
             IN  IF t \in Standalone THEN inflight'[t] = calls ELSE inflight'[t] <= calls
  <2>1. /\ inflight[t] \in Nat /\ releases[t] \in Nat /\ Cardinality(Holding(t)) \in Nat
    BY CountsAreNat DEF ServingTypeOK
  <2>2. LET calls == Cardinality(Holding(t)) + releases[t]
        IN  IF t \in Standalone THEN inflight[t] = calls ELSE inflight[t] <= calls
    BY DEF CountIsExact
  <2>3. CASE t # s
    BY <1>3, <2>2, <2>3
  <2>4. CASE t = s
    <3>1. releases[s] > 0
      BY DEF ReleaseServer
    <3>. QED
      BY <1>4, <2>1, <2>2, <2>4, <3>1
  <2>. QED
    BY <2>3, <2>4
<1>6. Pool \subseteq Server
  BY DEF ServingTypeOK
<1>7. CountIsExact'
  BY <1>2, <1>5, <1>6 DEF CountIsExact
<1>. QED
  BY <1>1, <1>7

LEMMA SyncKeepsCount ==
    ASSUME CountInv, Sync
    PROVE  CountInv'
<1>. USE DEF CountInv
<1>1. ServingTypeOK' /\ RoutedWhileCalling'
  BY SyncKeepsTypes
<1>2. releases' = releases /\ \A s : Holding(s)' = Holding(s)
  BY DEF Sync, StartSync, Abort, AbortRaises, ResumeGeneration, Load, Wake, Sleep, AddServers,
     RemoveServers, Holding, requestVars, engineVars
<1>3. CASE AddServers
  <2>1. Pool' = Server
    BY <1>3 DEF AddServers, Pool
  <2>2. \A s \in Server : inflight'[s] = IF s \in Hybrid THEN 0 ELSE inflight[s]
    BY <1>3 DEF AddServers
  <2>3. ASSUME NEW t \in Server
        PROVE  LET calls == Cardinality(Holding(t)) + releases[t]
               IN  IF t \in Standalone THEN inflight'[t] = calls ELSE inflight'[t] <= calls
    <3>1. releases[t] \in Nat /\ Cardinality(Holding(t)) \in Nat
      BY CountsAreNat DEF ServingTypeOK
    <3>2. CASE t \in Hybrid
      <4>1. t \notin Standalone
        BY <3>2, ServingAssumption
      <4>. QED
        BY <2>2, <3>1, <3>2, <4>1
    <3>3. CASE t \notin Hybrid
      <4>1. t \in Standalone /\ t \in Pool
        BY <3>3 DEF Server, ServingTypeOK
      <4>. QED
        BY <2>2, <3>3, <4>1 DEF CountIsExact
    <3>. QED
      BY <3>2, <3>3
  <2>4. CountIsExact'
    BY <1>2, <2>1, <2>3 DEF CountIsExact
  <2>. QED
    BY <1>1, <2>4
<1>4. CASE RemoveServers
  <2>1. Pool' = Pool \ Hybrid
    BY <1>4 DEF RemoveServers, Pool
  <2>2. \A s \in Pool' : inflight'[s] = inflight[s]
    BY <1>4, <2>1 DEF RemoveServers
  <2>. QED
    BY <1>1, <1>2, <2>1, <2>2 DEF CountIsExact
<1>5. CASE ~AddServers /\ ~RemoveServers
  <2>1. inflight' = inflight
    BY <1>5 DEF Sync, StartSync, Abort, AbortRaises, ResumeGeneration, Load, Wake, Sleep, poolVars
  <2>. QED
    BY <1>1, <1>2, <2>1 DEF CountIsExact, Pool
<1>. QED
  BY <1>3, <1>4, <1>5

\* The balancer's count of a standalone server is exactly the calls it holds and
\* the releases under way, and no server is ever counted busier than it is.
THEOREM CountAlwaysExact == Spec => []CountIsExact
<1>1. Init => CountInv
  BY InitCount
<1>2. CountInv /\ [Next]_vars => CountInv'
  <2> SUFFICES ASSUME CountInv, [Next]_vars PROVE CountInv'
    OBVIOUS
  <2>1. CASE UNCHANGED vars
    BY <2>1 DEF vars, poolVars, requestVars, engineVars, syncVars, CountInv, ServingTypeOK,
       RoutedWhileCalling, CountIsExact, Pool, Holding
  <2>. QED
    BY <2>1, ClientKeepsCount, ReleaseKeepsCount, SyncKeepsCount DEF Next
<1>3. CountInv => CountIsExact
  BY DEF CountInv
<1>. QED
  BY <1>1, <1>2, <1>3, PTL DEF Spec

-----------------------------------------------------------------------------
(* The plan: what is left of the program, and what it has done so far      *)

\* Taking the first step off moves every other one a place forward.
LEMMA Ahead ==
    ASSUME ServingTypeOK, program # <<>>, program' = Tail(program)
    PROVE  /\ \A op : \A i : i \in At(op)' <=> i \in Nat \ {0} /\ i + 1 \in At(op)
           /\ \A i \in DOMAIN program' : program'[i] = program[i + 1]
           /\ program' # <<>> => 1 \in DOMAIN program' /\ program'[1] = program[2]
<1>1. /\ Len(program) \in Nat \ {0} /\ Len(program') = Len(program) - 1
      /\ program \in Seq(Steps) /\ program' \in Seq(Steps)
      /\ \A i \in 1 .. Len(program) - 1 : program'[i] = program[i + 1]
  BY DEF ServingTypeOK
<1>2. DOMAIN program = 1 .. Len(program) /\ DOMAIN program' = 1 .. Len(program) - 1
  BY <1>1
<1>3. program' # <<>> => Len(program) > 1
  BY <1>1
<1>4. ASSUME NEW op, NEW i
      PROVE  i \in At(op)' <=> i \in Nat \ {0} /\ i + 1 \in At(op)
  BY <1>1, <1>2 DEF At
<1>. QED
  BY <1>1, <1>2, <1>3, <1>4

LEMMA DoingIsFirst ==
    ASSUME ServingTypeOK, NEW op PROVE Doing(op) <=> 1 \in At(op)
<1>1. program # <<>> <=> 1 \in DOMAIN program
  BY DEF ServingTypeOK
<1>. QED
  BY <1>1 DEF Doing, At

LEMMA AtPlaces == ServingTypeOK => \A op : At(op) \subseteq Nat \ {0}
  BY DEF ServingTypeOK, At

LEMMA AheadInOrder ==
    ASSUME ServingTypeOK, PlanInOrder, program # <<>>, program' = Tail(program)
    PROVE  PlanInOrder'
<1>1. \A op : \A i : i \in At(op)' <=> i \in Nat \ {0} /\ i + 1 \in At(op)
  BY Ahead
<1>2. \A op : \A i \in At(op)' : program'[i] = program[i + 1]
  BY Ahead DEF At
<1>. USE AtPlaces
<1>3. ASSUME NEW i \in At("load")'
      PROVE  /\ program'[i].on = Standalone
             /\ i <= 2
             /\ i = 2 => program'[1] = Step("abort", Standalone)
             /\ \A j \in At("wake")' : i < j
             /\ At("sleep")' # {} => At("wake")' # {}
  <2>1. i \in Nat \ {0} /\ i + 1 \in At("load") /\ program'[i] = program[i + 1]
    BY <1>1, <1>2, <1>3
  <2>2. i = 1 /\ \A j \in At("wake") : 2 < j
    BY <2>1 DEF PlanInOrder
  <2>3. \A j \in At("wake")' : i < j
    BY <1>1, <2>2
  <2>4. ASSUME At("sleep")' # {} PROVE At("wake")' # {}
    <3>1. PICK j \in At("wake") : 2 < j
      BY <1>1, <2>1, <2>2, <2>4 DEF PlanInOrder
    <3>2. j - 1 \in Nat \ {0} /\ (j - 1) + 1 = j
      BY <3>1
    <3>. QED
      BY <1>1, <3>1, <3>2
  <2>5. program'[i].on = Standalone
    BY <2>1 DEF PlanInOrder
  <2>6. i <= 2 /\ i # 2
    BY <2>2
  <2>. QED
    BY <2>3, <2>4, <2>5, <2>6, Zenon
<1>4. ASSUME NEW i \in At("wake")'
      PROVE  /\ program'[i].on = Hybrid
             /\ At("wake")' = {i}
             /\ \A j \in At("sleep")' : i < j
             /\ At("sleep")' # {}
  <2>1. i \in Nat \ {0} /\ i + 1 \in At("wake") /\ program'[i] = program[i + 1]
    BY <1>1, <1>2, <1>4
  <2>2. At("wake") = {i + 1} /\ (\A j \in At("sleep") : i + 1 < j) /\ At("sleep") # {}
    BY <2>1 DEF PlanInOrder
  <2>3. \A j \in At("wake")' : j = i
    BY <1>1, <2>1, <2>2
  <2>4. \A j \in At("sleep")' : i < j
    BY <1>1, <2>1, <2>2
  <2>5. At("sleep")' # {}
    <3>1. PICK j \in At("sleep") : i + 1 < j
      BY <2>2
    <3>2. j - 1 \in Nat \ {0} /\ (j - 1) + 1 = j
      BY <2>1, <3>1
    <3>. QED
      BY <1>1, <3>1, <3>2
  <2>. QED
    BY <2>1, <2>3, <2>4, <2>5 DEF PlanInOrder
<1>5. ASSUME NEW i \in At("sleep")'
      PROVE  program'[i].on = Hybrid /\ At("sleep")' = {i}
  <2>1. i \in Nat \ {0} /\ i + 1 \in At("sleep") /\ program'[i] = program[i + 1]
    BY <1>1, <1>2, <1>5
  <2>2. At("sleep") = {i + 1} /\ program[i + 1].on = Hybrid
    BY <2>1 DEF PlanInOrder
  <2>3. \A j \in At("sleep")' : j = i
    BY <1>1, <2>1, <2>2
  <2>. QED
    BY <2>1, <2>2, <2>3
<1>. QED
  BY <1>3, <1>4, <1>5, Zenon DEF PlanInOrder

\* A program as it begins: stop the standalone servers, load them, let them go
\* on; and perhaps the validation, which wakes the hybrid servers once.
Begun(p) ==
    /\ p \in Seq(Steps)
    /\ p[1] = Step("abort", Standalone) /\ p[2] = Step("load", Standalone)
    /\ {i \in DOMAIN p : p[i].op = "load"} = {2}
    /\ \/ /\ {i \in DOMAIN p : p[i].op = "wake"} = {}
          /\ {i \in DOMAIN p : p[i].op = "sleep"} = {}
       \/ /\ {i \in DOMAIN p : p[i].op = "wake"} = {4} /\ p[4].on = Hybrid
          /\ {i \in DOMAIN p : p[i].op = "sleep"} = {13} /\ p[13].on = Hybrid

LEMMA UpdateBegins == Begun(UpdateWeights \o <<>>)
<1>1. UpdateWeights \o <<>> = UpdateWeights
  BY PlanTypes
<1>2. /\ UpdateWeights[1] = Step("abort", Standalone)
      /\ UpdateWeights[2] = Step("load", Standalone)
      /\ UpdateWeights[3] = Step("resume", Standalone)
      /\ DOMAIN UpdateWeights = 1 .. 3
  BY DEF UpdateWeights
<1>3. \A i \in 1 .. 3 : i \in {1, 2, 3}
  OBVIOUS
<1>4. {i \in 1 .. 3 : UpdateWeights[i].op = "load"} = {2}
  BY <1>2, <1>3 DEF Step
<1>5. {i \in 1 .. 3 : UpdateWeights[i].op = "wake"} = {}
  BY <1>2, <1>3 DEF Step
<1>6. {i \in 1 .. 3 : UpdateWeights[i].op = "sleep"} = {}
  BY <1>2, <1>3 DEF Step
<1>. QED
  BY <1>1, <1>2, <1>4, <1>5, <1>6, PlanTypes DEF Begun

LEMMA ValidationBegins == Begun(UpdateWeights \o TrainerSideValidate)
<1>. DEFINE p == UpdateWeights \o TrainerSideValidate
<1>1. /\ p \in Seq(Steps)
      /\ Len(p) = Len(UpdateWeights) + Len(TrainerSideValidate)
      /\ \A i \in 1 .. Len(UpdateWeights) + Len(TrainerSideValidate) :
            p[i] = IF i <= Len(UpdateWeights) THEN UpdateWeights[i]
                   ELSE TrainerSideValidate[i - Len(UpdateWeights)]
  BY PlanTypes, ConcatProperties, Zenon
<1>2. Len(p) = 15 /\ DOMAIN p = 1 .. 15
  <2>. HIDE DEF p
  <2>. QED
    BY <1>1, PlanTypes
<1>3. \A i \in 1 .. 15 : p[i] = IF i <= 3 THEN UpdateWeights[i] ELSE TrainerSideValidate[i - 3]
  <2>. HIDE DEF p
  <2>. QED
    BY <1>1, PlanTypes
<1>4. /\ p[1] = UpdateWeights[1] /\ p[2] = UpdateWeights[2] /\ p[3] = UpdateWeights[3]
      /\ p[4] = TrainerSideValidate[1] /\ p[5] = TrainerSideValidate[2]
      /\ p[6] = TrainerSideValidate[3] /\ p[7] = TrainerSideValidate[4]
      /\ p[8] = TrainerSideValidate[5] /\ p[9] = TrainerSideValidate[6]
      /\ p[10] = TrainerSideValidate[7] /\ p[11] = TrainerSideValidate[8]
      /\ p[12] = TrainerSideValidate[9] /\ p[13] = TrainerSideValidate[10]
      /\ p[14] = TrainerSideValidate[11] /\ p[15] = TrainerSideValidate[12]
  <2>. HIDE DEF p
  <2>. QED
    BY <1>3
<1>5. /\ p[1] = Step("abort", Standalone)
      /\ p[2] = Step("load", Standalone)
      /\ p[3] = Step("resume", Standalone)
  BY <1>4 DEF UpdateWeights
<1>6. /\ p[4] = Step("wake", Hybrid) /\ p[5] = Step("abort", Standalone)
      /\ p[6] = Step("abort", Hybrid) /\ p[7] = Step("add", Hybrid)
      /\ p[8] = Step("resume", Standalone) /\ p[9] = Step("resume", Hybrid)
  <2>. HIDE DEF p
  <2>. QED
    BY <1>4 DEF TrainerSideValidate
<1>7. /\ p[10] = Step("abort", Standalone) /\ p[11] = Step("abort", Hybrid)
      /\ p[12] = Step("remove", Hybrid) /\ p[13] = Step("sleep", Hybrid)
      /\ p[14] = Step("resume", Standalone) /\ p[15] = Step("resume", Hybrid)
  <2>. HIDE DEF p
  <2>. QED
    BY <1>4 DEF TrainerSideValidate
<1>. HIDE DEF p
<1>8. \A i \in 1 .. 15 : i \in {1, 2, 3, 4, 5, 6, 7, 8, 9, 10, 11, 12, 13, 14, 15}
  OBVIOUS
<1>9. {i \in 1 .. 15 : p[i].op = "load"} = {2}
  BY <1>5, <1>6, <1>7, <1>8 DEF Step
<1>10. {i \in 1 .. 15 : p[i].op = "wake"} = {4}
  BY <1>5, <1>6, <1>7, <1>8 DEF Step
<1>11. {i \in 1 .. 15 : p[i].op = "sleep"} = {13}
  BY <1>5, <1>6, <1>7, <1>8 DEF Step
<1>12. Begun(p)
  <2>1. p[4].on = Hybrid /\ p[13].on = Hybrid
    BY <1>5, <1>6, <1>7 DEF Step
  <2>. QED
    BY <1>1, <1>2, <1>5, <1>9, <1>10, <1>11, <2>1 DEF Begun, Step
<1>. QED
  BY <1>12 DEF p

LEMMA StartBegins ==
    ASSUME StartSync
    PROVE  Begun(program') /\ todo' = Standalone /\ program = <<>> /\ version' = version + 1
  BY UpdateBegins, ValidationBegins DEF StartSync

LEMMA InitPlan == Init => PlanInv
<1> SUFFICES ASSUME Init PROVE PlanInv
  OBVIOUS
<1>1. \A op : At(op) = {} /\ ~Doing(op)
  BY DEF Init, At, Doing
<1>. QED
  BY <1>1 DEF Init, PlanInv, PlanInOrder, Waiting, AsleepOutside, PausedIsQuiet,
     StoppedBeforeLoad

LEMMA ClientKeepsPlan ==
    ASSUME CountInv, PlanInv, NEW r \in Request, Client(r)
    PROVE  PlanInv'
<1>1. UNCHANGED <<program, todo, asleep, paused, unaborted>>
  BY DEF Client, Acquire, Begin, Answer, AskAgain, engineVars, syncVars
<1>2. (PlanInOrder /\ Waiting /\ AsleepOutside /\ StoppedBeforeLoad)'
  BY <1>1 DEF PlanInv, PlanInOrder, Waiting, AsleepOutside, StoppedBeforeLoad, Told, At,
     Doing
<1>3. PausedIsQuiet'
  BY <1>1 DEF PlanInv, PausedIsQuiet, CountInv, ServingTypeOK, Client, Acquire, Begin, Answer,
     AskAgain
<1>. QED
  BY <1>2, <1>3 DEF PlanInv

\* The first step is over.
Over == program' = Tail(program) /\ (program' # <<>> => todo' = program'[1].on)

LEMMA DoneIsOver ==
    ASSUME ServingTypeOK, program # <<>>, NEW s, Done(s)
    PROVE  \/ program' = program /\ todo' = todo \ {s}
           \/ Over /\ todo \ {s} = {}
  BY DoneMoves DEF Over

LEMMA DoneAllIsOver ==
    ASSUME ServingTypeOK, program # <<>>, DoneAll
    PROVE  Over
<1>1. program' = Tail(program)
  BY DEF DoneAll
<1>. QED
  BY <1>1, Ahead DEF DoneAll, Over

LEMMA DoneKeepsOrder ==
    ASSUME ServingTypeOK, PlanInOrder, Waiting, program # <<>>, NEW s,
           Done(s) \/ DoneAll
    PROVE  PlanInOrder' /\ Waiting'
<1>1. CASE program' = program /\ todo' = todo \ {s}
  BY <1>1 DEF PlanInOrder, Waiting, At
<1>2. CASE Over
  BY <1>2, AheadInOrder DEF Over, Waiting
<1>. QED
  BY <1>1, <1>2, DoneIsOver, DoneAllIsOver

\* A step that neither wakes nor puts to sleep leaves the hybrid servers as they
\* were, also when the next one is about to.
LEMMA OthersKeepAsleep ==
    ASSUME ServingTypeOK, PlanInOrder, AsleepOutside, program # <<>>, NEW s,
           ~Doing("wake"), ~Doing("sleep"), asleep' = asleep, Done(s) \/ DoneAll
    PROVE  AsleepOutside'
<1>1. CASE program' = program /\ todo' = todo \ {s}
  BY <1>1 DEF AsleepOutside, At, Doing
<1>2. CASE Over
  <2>1. /\ \A op : \A i : i \in At(op)' <=> i \in Nat \ {0} /\ i + 1 \in At(op)
        /\ program' # <<>> => 1 \in DOMAIN program' /\ program'[1] = program[2]
    BY <1>2, Ahead DEF Over
  <2>2. 1 \notin At("wake") /\ 1 \notin At("sleep")
    BY DoingIsFirst
  <2>3. At("sleep")' = {} => At("sleep") = {}
    <3>1. ASSUME NEW i \in At("sleep") PROVE i - 1 \in At("sleep")'
      <4>1. i \in Nat \ {0} /\ i # 1
        BY <2>2, AtPlaces
      <4>2. i - 1 \in Nat \ {0} /\ (i - 1) + 1 = i
        BY <4>1
      <4>. QED
        BY <2>1, <4>2
    <3>. QED
      BY <3>1
  <2>4. At("wake")' # {} => At("wake") \ {1} # {}
    <3>1. ASSUME NEW i \in At("wake")' PROVE i + 1 \in At("wake") \ {1}
      BY <2>1
    <3>. QED
      BY <3>1
  <2>5. Doing("wake")' => At("wake")' # {} /\ todo' \subseteq Hybrid
    <3> SUFFICES ASSUME Doing("wake")' PROVE At("wake")' # {} /\ todo' \subseteq Hybrid
      OBVIOUS
    <3>1. program' # <<>> /\ 1 \in At("wake")'
      BY <2>1 DEF Doing, At
    <3>2. program'[1].on = Hybrid
      <4>1. PlanInOrder'
        BY <1>2, AheadInOrder DEF Over
      <4>. QED
        BY <3>1, <4>1 DEF PlanInOrder
    <3>. QED
      BY <1>2, <3>1, <3>2 DEF Over
  <2>6. Doing("sleep")' => Hybrid \ todo' = {}
    <3> SUFFICES ASSUME Doing("sleep")' PROVE Hybrid \ todo' = {}
      OBVIOUS
    <3>1. program' # <<>> /\ 1 \in At("sleep")'
      BY <2>1 DEF Doing, At
    <3>2. program'[1].on = Hybrid
      <4>1. PlanInOrder'
        BY <1>2, AheadInOrder DEF Over
      <4>. QED
        BY <3>1, <4>1 DEF PlanInOrder
    <3>. QED
      BY <1>2, <3>1, <3>2 DEF Over
  <2>7. At("sleep")' = {} \/ At("wake")' # {} => Hybrid \subseteq asleep
    BY <2>3, <2>4 DEF AsleepOutside
  <2>. QED
    BY <2>5, <2>6, <2>7 DEF AsleepOutside
<1>. QED
  BY <1>1, <1>2, DoneIsOver, DoneAllIsOver

\* While the hybrid servers wake they are put to sleep later; once they have been
\* put to sleep none is to be woken.
LEMMA WakeKeepsAsleep ==
    ASSUME ServingTypeOK, PlanInOrder, Waiting, AsleepOutside, NEW s \in Server, Wake(s)
    PROVE  AsleepOutside'
<1>1. /\ Doing("wake") /\ s \in todo /\ asleep' = asleep \ {s} /\ Done(s)
      /\ program # <<>> /\ 1 \in At("wake")
  BY DoingIsFirst DEF Wake, Doing
<1>2. /\ At("wake") = {1} /\ At("sleep") # {} /\ todo \subseteq Hybrid
      /\ \A j \in At("sleep") : 1 < j
  BY <1>1 DEF PlanInOrder, Waiting, At
<1>3. CASE program' = program /\ todo' = todo \ {s}
  <2>1. At("wake")' = {1} /\ At("sleep")' # {} /\ ~Doing("sleep")'
    BY <1>1, <1>2, <1>3 DEF At, Doing
  <2>. QED
    BY <1>1, <1>3, <2>1 DEF AsleepOutside
<1>4. CASE Over
  <2>1. /\ \A op : \A i : i \in At(op)' <=> i \in Nat \ {0} /\ i + 1 \in At(op)
        /\ program' # <<>> => 1 \in DOMAIN program' /\ program'[1] = program[2]
    BY <1>1, <1>4, Ahead DEF Over
  <2>2. At("wake")' = {} /\ ~Doing("wake")'
    <3>1. At("wake")' = {}
      BY <1>2, <2>1
    <3>. QED
      BY <2>1, <3>1 DEF Doing, At
  <2>3. At("sleep")' # {}
    <3>1. PICK j \in At("sleep") : 1 < j
      BY <1>2
    <3>2. j - 1 \in Nat \ {0} /\ (j - 1) + 1 = j
      BY <3>1, AtPlaces
    <3>. QED
      BY <2>1, <3>1, <3>2
  <2>4. Doing("sleep")' => Hybrid \ todo' = {}
    <3> SUFFICES ASSUME Doing("sleep")' PROVE Hybrid \ todo' = {}
      OBVIOUS
    <3>1. program' # <<>> /\ 1 \in At("sleep")'
      BY <2>1 DEF Doing, At
    <3>2. program'[1].on = Hybrid
      <4>1. PlanInOrder'
        BY <1>1, <1>4, AheadInOrder DEF Over
      <4>. QED
        BY <3>1, <4>1 DEF PlanInOrder
    <3>. QED
      BY <1>4, <3>1, <3>2 DEF Over
  <2>. QED
    BY <1>1, <2>2, <2>3, <2>4 DEF AsleepOutside
<1>. QED
  BY <1>1, <1>3, <1>4, DoneIsOver

LEMMA SleepKeepsAsleep ==
    ASSUME ServingTypeOK, PlanInOrder, AsleepOutside, NEW s \in Server, Sleep(s), Waiting
    PROVE  AsleepOutside'
<1>1. /\ Doing("sleep") /\ s \in todo /\ asleep' = asleep \cup {s} /\ Done(s)
      /\ program # <<>> /\ 1 \in At("sleep")
  BY DoingIsFirst DEF Sleep, Doing
<1>2. At("wake") = {}
  BY <1>1, AtPlaces DEF PlanInOrder
<1>3. s \in Hybrid /\ Hybrid \ todo \subseteq asleep
  BY <1>1 DEF PlanInOrder, AsleepOutside, Waiting, At
<1>4. CASE program' = program /\ todo' = todo \ {s}
  <2>1. ~Doing("wake")'
    BY <1>1, <1>4 DEF Doing
  <2>2. At("wake")' = {} /\ At("sleep")' # {}
    BY <1>1, <1>2, <1>4 DEF At
  <2>. QED
    BY <1>1, <1>3, <1>4, <2>1, <2>2 DEF AsleepOutside
<1>5. CASE Over /\ todo \ {s} = {}
  <2>1. /\ \A op : \A i : i \in At(op)' <=> i \in Nat \ {0} /\ i + 1 \in At(op)
        /\ program' # <<>> => 1 \in DOMAIN program' /\ program'[1] = program[2]
    BY <1>1, <1>5, Ahead DEF Over
  <2>2. At("wake")' = {} /\ ~Doing("wake")'
    <3>1. At("wake")' = {}
      BY <1>2, <2>1
    <3>. QED
      BY <2>1, <3>1 DEF Doing, At
  <2>3. Hybrid \subseteq asleep' /\ asleep' \subseteq Hybrid
    BY <1>1, <1>3, <1>5 DEF AsleepOutside
  <2>. QED
    BY <2>2, <2>3 DEF AsleepOutside
<1>. QED
  BY <1>1, <1>4, <1>5, DoneIsOver

\* A step that only lets servers go on when it is not before the load leaves
\* what is stopped before the load stopped.
LEMMA DoneKeepsStopped ==
    ASSUME ServingTypeOK, PlanInOrder, StoppedBeforeLoad, program # <<>>, NEW s,
           Done(s) \/ DoneAll,
           Told \subseteq Told' \/ Doing("resume"),
           Doing("abort") => s \in Told' /\ Done(s)
    PROVE  StoppedBeforeLoad'
<1>1. CASE program' = program /\ todo' = todo \ {s}
  <2>1. 2 \in At("load") => Doing("abort")
    BY DEF PlanInOrder, Doing, At, Step
  <2>2. 1 \in At("load") => Doing("load")
    BY DoingIsFirst
  <2>. QED
    BY <1>1, <2>1, <2>2 DEF StoppedBeforeLoad, Told, At, Doing
<1>2. CASE Over /\ (Done(s) => todo \ {s} = {})
  <2>1. \A op : \A i : i \in At(op)' <=> i \in Nat \ {0} /\ i + 1 \in At(op)
    BY <1>2, Ahead DEF Over
  <2>2. 2 \notin At("load")'
    BY <2>1 DEF PlanInOrder
  <2>3. 1 \in At("load")' => Standalone \subseteq Told'
    <3> SUFFICES ASSUME 1 \in At("load")' PROVE Standalone \subseteq Told'
      OBVIOUS
    <3>1. 2 \in At("load")
      BY <2>1
    <3>2. program[1] = Step("abort", Standalone) /\ Standalone \ todo \subseteq Told
      BY <3>1 DEF PlanInOrder, StoppedBeforeLoad
    <3>3. Doing("abort") /\ ~Doing("resume")
      BY <3>2 DEF Doing, Step
    <3>. QED
      BY <1>2, <3>2, <3>3
  <2>. QED
    BY <2>2, <2>3 DEF StoppedBeforeLoad
<1>. QED
  BY <1>1, <1>2, DoneIsOver, DoneAllIsOver

LEMMA StartKeepsPlan ==
    ASSUME CountInv, PlanInv, StartSync
    PROVE  PlanInv'
<1>1. /\ Begun(program') /\ todo' = Standalone /\ program = <<>>
      /\ UNCHANGED <<asleep, paused, unaborted, at, phase>>
  BY StartBegins DEF StartSync, engineVars, requestVars
<1>2. At("load")' = {2}
  BY <1>1 DEF Begun, At
<1>3. \/ At("wake")' = {} /\ At("sleep")' = {}
      \/ /\ At("wake")' = {4} /\ program'[4].on = Hybrid
         /\ At("sleep")' = {13} /\ program'[13].on = Hybrid
  BY <1>1 DEF Begun, At
<1>4. program'[1].on = Standalone /\ program'[2].on = Standalone /\ program'[1].op = "abort"
  BY <1>1 DEF Begun, Step
<1>5. PlanInOrder'
  <2>1. program'[1] = Step("abort", Standalone)
    BY <1>1 DEF Begun
  <2>. QED
    BY <1>2, <1>3, <1>4, <2>1 DEF PlanInOrder
<1>6. Waiting'
  BY <1>1, <1>4 DEF Waiting
<1>7. Hybrid \subseteq asleep /\ asleep \subseteq Hybrid
  <2>1. At("sleep") = {}
    BY <1>1 DEF At
  <2>. QED
    BY <2>1 DEF PlanInv, AsleepOutside
<1>8. AsleepOutside'
  <2>1. ~Doing("wake")' /\ ~Doing("sleep")'
    BY <1>4 DEF Doing
  <2>. QED
    BY <1>1, <1>7, <2>1 DEF AsleepOutside
<1>9. PausedIsQuiet' /\ StoppedBeforeLoad'
  BY <1>1, <1>2 DEF PlanInv, PausedIsQuiet, StoppedBeforeLoad, Told
<1>. QED
  BY <1>5, <1>6, <1>8, <1>9 DEF PlanInv

LEMMA SyncKeepsPlan ==
    ASSUME CountInv, PlanInv, Sync
    PROVE  PlanInv'
<1>. USE DEF PlanInv, CountInv
<1>1. CASE StartSync
  BY <1>1, StartKeepsPlan
<1>2. ASSUME NEW s \in Server, Abort(s) PROVE PlanInv'
  <2>1. /\ Doing("abort") /\ Done(s) /\ program # <<>> /\ ~Doing("wake") /\ ~Doing("sleep")
        /\ asleep' = asleep /\ Told \subseteq Told' /\ s \in Told'
    BY <1>2 DEF Abort, Doing, Told
  <2>2. PausedIsQuiet'
    BY <1>2 DEF Abort, PausedIsQuiet
  <2>. QED
    BY <2>1, <2>2, DoneKeepsOrder, OthersKeepAsleep, DoneKeepsStopped
<1>2a. ASSUME NEW s \in Server, AbortRaises(s) PROVE PlanInv'
  <2>1. /\ Doing("abort") /\ Done(s) /\ program # <<>> /\ ~Doing("wake") /\ ~Doing("sleep")
        /\ asleep' = asleep /\ Told \subseteq Told' /\ s \in Told'
    BY <1>2a DEF AbortRaises, Doing, Told
  <2>2. \A r \in Request : phase'[r] = "generating" => phase[r] = "generating"
    BY <1>2a DEF AbortRaises
  <2>3. PausedIsQuiet'
    BY <1>2a, <2>2 DEF AbortRaises, PausedIsQuiet
  <2>. QED
    BY <2>1, <2>3, DoneKeepsOrder, OthersKeepAsleep, DoneKeepsStopped
<1>3. ASSUME NEW s \in Server, ResumeGeneration(s) PROVE PlanInv'
  <2>1. /\ Doing("resume") /\ Done(s) /\ program # <<>> /\ ~Doing("wake") /\ ~Doing("sleep")
        /\ ~Doing("abort") /\ asleep' = asleep
    BY <1>3 DEF ResumeGeneration, Doing
  <2>2. PausedIsQuiet'
    BY <1>3 DEF ResumeGeneration, PausedIsQuiet, requestVars, ServingTypeOK
  <2>. QED
    BY <2>1, <2>2, DoneKeepsOrder, OthersKeepAsleep, DoneKeepsStopped
<1>4. ASSUME NEW s \in Server, Load(s) PROVE PlanInv'
  <2>1. /\ Done(s) /\ program # <<>> /\ ~Doing("wake") /\ ~Doing("sleep")
        /\ ~Doing("abort") /\ asleep' = asleep /\ Told' = Told
    BY <1>4 DEF Load, Doing, Told
  <2>2. PausedIsQuiet'
    BY <1>4 DEF Load, PausedIsQuiet, requestVars
  <2>. QED
    BY <2>1, <2>2, DoneKeepsOrder, OthersKeepAsleep, DoneKeepsStopped
<1>5. ASSUME NEW s \in Server, Wake(s) PROVE PlanInv'
  <2>1. Done(s) /\ program # <<>> /\ ~Doing("abort") /\ Told' = Told
    BY <1>5 DEF Wake, Doing, Told
  <2>2. PausedIsQuiet'
    BY <1>5 DEF Wake, PausedIsQuiet, requestVars
  <2>. QED
    BY <1>5, <2>1, <2>2, DoneKeepsOrder, WakeKeepsAsleep, DoneKeepsStopped
<1>6. ASSUME NEW s \in Server, Sleep(s) PROVE PlanInv'
  <2>1. Done(s) /\ program # <<>> /\ ~Doing("abort") /\ Told' = Told
    BY <1>6 DEF Sleep, Doing, Told
  <2>2. PausedIsQuiet'
    BY <1>6 DEF Sleep, PausedIsQuiet, requestVars
  <2>. QED
    BY <1>6, <2>1, <2>2, DoneKeepsOrder, SleepKeepsAsleep, DoneKeepsStopped
<1>7. CASE AddServers \/ RemoveServers
  <2>1. /\ DoneAll /\ program # <<>> /\ ~Doing("wake") /\ ~Doing("sleep")
        /\ ~Doing("abort") /\ asleep' = asleep /\ UNCHANGED <<paused, unaborted>>
        /\ at' = at /\ phase' = phase
    BY <1>7 DEF AddServers, RemoveServers, Doing, engineVars, requestVars
  <2>2. PausedIsQuiet'
    BY <2>1 DEF PausedIsQuiet
  <2>3. Told' = Told
    BY <2>1 DEF Told
  <2>. QED
    BY <2>1, <2>2, <2>3, DoneKeepsOrder, OthersKeepAsleep, DoneKeepsStopped
<1>. QED
  BY <1>1, <1>2, <1>2a, <1>3, <1>4, <1>5, <1>6, <1>7 DEF Sync

-----------------------------------------------------------------------------
(* Versions                                                                *)

\* Before and while the standalone servers are loaded all hybrid servers sleep.
LEMMA LoadAhead ==
    ASSUME ServingTypeOK, PlanInv, At("load") # {}
    PROVE  /\ Hybrid \subseteq asleep
           /\ Doing("load") \/ (Doing("abort") /\ 2 \in At("load"))
<1>. USE DEF PlanInv
<1>1. PICK i \in At("load") : TRUE
  OBVIOUS
<1>2. i \in {1, 2} /\ \A j \in At("wake") : i < j
  BY <1>1, AtPlaces DEF PlanInOrder
<1>3. At("sleep") # {} => At("wake") \ {1} # {}
  BY <1>1, <1>2 DEF PlanInOrder
<1>4. i = 2 => Doing("abort")
  BY <1>1 DEF PlanInOrder, Doing, Step, At
<1>. QED
  BY <1>1, <1>2, <1>3, <1>4, DoingIsFirst DEF AsleepOutside

\* The version behind an answer is not older than the request's last one, unless
\* the server's abort raised; while no server is loaded it is the one before.
LEMMA Answering ==
    ASSUME ServingInv, NEW r \in Request, Answer(r)
    PROVE  /\ weights[at[r]] <= version
           /\ 2 \in At("load") => weights[at[r]] = version - 1
           /\ at[r] \notin unaborted => weights[at[r]] >= seen[r]
<1>. USE DEF ServingInv, CountInv, PlanInv
<1>1. at[r] \in Server /\ at[r] \notin asleep /\ (at[r] \in unaborted \/ at[r] \notin paused)
  BY DEF Answer, ServingTypeOK, RoutedWhileCalling, PausedIsQuiet
<1>2. version \in Nat /\ seen[r] \in Nat /\ seen[r] <= version
  BY DEF VersionInv, ServingTypeOK
<1>3. CASE At("load") = {}
  <2>1. weights[at[r]] = version
    BY <1>1, <1>3 DEF VersionInv, Server
  <2>. QED
    BY <1>2, <1>3, <2>1
<1>4. CASE At("load") # {}
  <2>1. at[r] \in Standalone
    BY <1>1, <1>4, LoadAhead DEF Server
  <2>2. weights[at[r]] = IF Doing("load") /\ at[r] \notin todo THEN version ELSE version - 1
    BY <1>4, <2>1 DEF VersionInv
  <2>3. CASE 2 \in At("load")
    <3>1. ~Doing("load")
      BY <2>3 DEF PlanInOrder, Doing, Step
    <3>2. seen[r] <= version - 1
      BY <2>3 DEF VersionInv
    <3>. QED
      BY <1>2, <2>2, <3>1, <3>2
  <2>4. CASE 2 \notin At("load")
    <3>1. 1 \in At("load")
      BY <1>4, <2>4, LoadAhead, DoingIsFirst
    <3>2. at[r] \in unaborted
      BY <1>1, <2>1, <3>1 DEF StoppedBeforeLoad, Told
    <3>. QED
      BY <1>2, <2>2, <2>4, <3>2
  <2>. QED
    BY <2>3, <2>4
<1>. QED
  BY <1>3, <1>4

LEMMA InitVersion == Init => VersionInv
<1> SUFFICES ASSUME Init PROVE VersionInv
  OBVIOUS
<1>1. At("load") = {}
  BY DEF Init, At
<1>. QED
  BY <1>1 DEF Init, VersionInv, Server

LEMMA ClientKeepsVersion ==
    ASSUME ServingInv, NEW r \in Request, Client(r)
    PROVE  VersionInv'
<1>. USE DEF ServingInv, CountInv
<1>1. UNCHANGED <<program, todo, asleep, weights, unaborted, version>>
  BY DEF Client, Acquire, Begin, Answer, AskAgain, engineVars, syncVars
<1>2. At("load")' = At("load") /\ Doing("load")' = Doing("load")
  BY <1>1 DEF At, Doing
<1>3. CASE ~Answer(r)
  <2>1. seen' = seen
    BY <1>3 DEF Client, Acquire, Begin, AskAgain
  <2>. QED
    BY <1>1, <1>2, <2>1 DEF VersionInv
<1>4. CASE Answer(r)
  <2>1. seen' = [seen EXCEPT ![r] = weights[at[r]]]
    BY <1>4 DEF Answer
  <2>2. ASSUME NEW q \in Request
        PROVE  seen'[q] <= version /\ (2 \in At("load") => seen'[q] <= version - 1)
    <3>1. /\ version \in Nat /\ seen[q] <= version
          /\ 2 \in At("load") => seen[q] <= version - 1
      BY DEF VersionInv, ServingTypeOK
    <3>2. seen'[q] = IF q = r THEN weights[at[r]] ELSE seen[q]
      BY <2>1 DEF ServingTypeOK
    <3>. QED
      BY <1>4, <3>1, <3>2, Answering
  <2>. QED
    BY <1>1, <1>2, <2>2 DEF VersionInv
<1>. QED
  BY <1>3, <1>4

\* Steps that load no weights and wake nobody.
LEMMA OthersKeepVersion ==
    ASSUME ServingInv, program # <<>>, NEW s, Done(s) \/ DoneAll, ~Doing("load"),
           asleep \subseteq asleep', UNCHANGED <<weights, version, seen>>,
           PlanInv', ServingTypeOK'
    PROVE  VersionInv'
<1>. USE DEF ServingInv, CountInv
<1>1. CASE program' = program
  <2>1. At("load")' = At("load") /\ Doing("load")' = Doing("load")
    BY <1>1 DEF At, Doing
  <2>. QED
    BY <2>1 DEF VersionInv
<1>2. CASE Over
  <2>1. \A op : \A i : i \in At(op)' <=> i \in Nat \ {0} /\ i + 1 \in At(op)
    BY <1>2, Ahead DEF Over
  <2>2. At("load")' = {} <=> At("load") = {}
    <3>1. 1 \notin At("load")
      BY DoingIsFirst
    <3>2. ASSUME NEW i \in At("load") PROVE i - 1 \in At("load")'
      <4>1. i - 1 \in Nat \ {0} /\ (i - 1) + 1 = i
        BY <3>1, <3>2, AtPlaces
      <4>. QED
        BY <2>1, <4>1
    <3>. QED
      BY <2>1, <3>2
  <2>3. Doing("load")' => Standalone \subseteq todo'
    <3> SUFFICES ASSUME Doing("load")' PROVE Standalone \subseteq todo'
      OBVIOUS
    <3>1. program' # <<>> /\ 1 \in DOMAIN program' /\ program'[1].op = "load"
      BY <1>2, Ahead DEF Doing, Over
    <3>2. 1 \in At("load")'
      BY <3>1 DEF At
    <3>3. program'[1].on = Standalone
      BY <3>2 DEF PlanInv, PlanInOrder
    <3>. QED
      BY <1>2, <3>1, <3>3 DEF Over
  <2>4. At("load") # {} => \A t \in Standalone : weights[t] = version - 1
    BY DEF VersionInv
  <2>5. 2 \notin At("load")'
    BY <2>1 DEF PlanInv, PlanInOrder
  <2>. QED
    BY <2>2, <2>3, <2>4, <2>5 DEF VersionInv
<1>. QED
  BY <1>1, <1>2, DoneIsOver, DoneAllIsOver

LEMMA LoadKeepsVersion ==
    ASSUME ServingInv, NEW s \in Server, Load(s), PlanInv', ServingTypeOK'
    PROVE  VersionInv'
<1>. USE DEF ServingInv, CountInv
<1>1. /\ Doing("load") /\ s \in todo /\ Done(s) /\ program # <<>>
      /\ weights' = [weights EXCEPT ![s] = version]
      /\ UNCHANGED <<version, asleep, seen>>
  BY DEF Load, Doing, requestVars
<1>2. 1 \in At("load") /\ Hybrid \subseteq asleep /\ todo \subseteq Standalone
  BY <1>1, DoingIsFirst, LoadAhead DEF PlanInv, PlanInOrder, Waiting, At
<1>3. At("load") = {1}
  BY <1>1, <1>2, AtPlaces DEF PlanInv, PlanInOrder, Doing, Step
<1>4. \A t \in Standalone : weights'[t] = IF t = s \/ t \notin todo THEN version ELSE version - 1
  BY <1>1, <1>2 DEF VersionInv, ServingTypeOK, Server
<1>5. CASE program' = program /\ todo' = todo \ {s}
  <2>1. At("load")' = At("load") /\ Doing("load")'
    BY <1>1, <1>5 DEF At, Doing
  <2>2. \A t \in Standalone :
            weights'[t] = IF Doing("load")' /\ t \notin todo' THEN version' ELSE version' - 1
    BY <1>1, <1>4, <1>5, <2>1
  <2>. QED
    BY <1>1, <1>2, <2>1, <2>2 DEF VersionInv
<1>6. CASE Over /\ todo \ {s} = {}
  <2>1. \A i : i \in At("load")' <=> i \in Nat \ {0} /\ i + 1 \in At("load")
    BY <1>1, <1>6, Ahead DEF Over
  <2>2. At("load")' = {}
    BY <1>3, <2>1
  <2>3. \A t \in Standalone : weights'[t] = version'
    BY <1>1, <1>4, <1>6
  <2>. QED
    BY <1>1, <1>2, <2>2, <2>3 DEF VersionInv
<1>. QED
  BY <1>1, <1>5, <1>6, DoneIsOver

LEMMA WakeKeepsVersion ==
    ASSUME ServingInv, NEW s \in Server, Wake(s), PlanInv', ServingTypeOK'
    PROVE  VersionInv'
<1>. USE DEF ServingInv, CountInv
<1>1. /\ Doing("wake") /\ s \in todo /\ Done(s) /\ program # <<>>
      /\ asleep' = asleep \ {s}
      /\ weights' = [weights EXCEPT ![s] = version]
      /\ UNCHANGED <<version, seen>>
  BY DEF Wake, Doing, requestVars
<1>2. At("load") = {} /\ s \in Hybrid
  <2>1. 1 \in At("wake")
    BY <1>1, DoingIsFirst
  <2>. QED
    BY <1>1, <2>1, AtPlaces DEF PlanInv, PlanInOrder, Waiting, At
<1>3. At("load")' = {}
  <2>1. CASE program' = program
    BY <1>2, <2>1 DEF At
  <2>2. CASE Over
    BY <1>1, <1>2, <2>2, Ahead DEF Over
  <2>. QED
    BY <1>1, <2>1, <2>2, DoneIsOver
<1>4. \A t \in Hybrid \ asleep' : weights'[t] = version
  BY <1>1, <1>2 DEF VersionInv, ServingTypeOK, Server
<1>5. \A t \in Standalone : weights'[t] = version
  BY <1>1, <1>2, ServingAssumption DEF VersionInv, ServingTypeOK, Server
<1>. QED
  BY <1>1, <1>3, <1>4, <1>5 DEF VersionInv

LEMMA StartKeepsVersion ==
    ASSUME ServingInv, StartSync, PlanInv', ServingTypeOK'
    PROVE  VersionInv'
<1>. USE DEF ServingInv, CountInv
<1>1. /\ Begun(program') /\ todo' = Standalone /\ program = <<>>
      /\ version' = version + 1 /\ UNCHANGED <<asleep, weights, seen>>
  BY StartBegins DEF StartSync, engineVars, requestVars
<1>2. At("load")' = {2} /\ ~Doing("load")'
  BY <1>1 DEF Begun, At, Doing, Step
<1>3. At("load") = {} /\ Hybrid \subseteq asleep
  BY <1>1 DEF At, PlanInv, AsleepOutside
<1>4. version \in Nat /\ seen \in [Request -> Nat]
  BY DEF ServingTypeOK
<1>5. \A t \in Standalone : weights'[t] = version' - 1
  BY <1>1, <1>3, <1>4 DEF VersionInv
<1>6. \A r \in Request : seen'[r] <= version' - 1 /\ seen'[r] <= version'
  BY <1>1, <1>4 DEF VersionInv
<1>7. version' > 0
  BY <1>1, <1>4
<1>. QED
  BY <1>1, <1>2, <1>3, <1>5, <1>6, <1>7 DEF VersionInv

LEMMA SyncKeepsServing ==
    ASSUME ServingInv, Sync
    PROVE  ServingInv'
<1>. USE DEF ServingInv, CountInv
<1>1. CountInv' /\ PlanInv'
  BY SyncKeepsCount, SyncKeepsPlan
<1>2. CASE StartSync
  BY <1>1, <1>2, StartKeepsVersion
<1>3. ASSUME NEW s \in Server,
             Abort(s) \/ AbortRaises(s) \/ ResumeGeneration(s) \/ Sleep(s)
      PROVE  ServingInv'
  <2>1. /\ Done(s) /\ program # <<>> /\ ~Doing("load") /\ asleep \subseteq asleep'
        /\ UNCHANGED <<weights, version, seen>>
    BY <1>3 DEF Abort, AbortRaises, ResumeGeneration, Sleep, Doing, requestVars
  <2>. QED
    BY <1>1, <2>1, OthersKeepVersion
<1>4. ASSUME NEW s \in Server, Load(s) \/ Wake(s) PROVE ServingInv'
  BY <1>1, <1>4, LoadKeepsVersion, WakeKeepsVersion
<1>5. CASE AddServers \/ RemoveServers
  <2>1. /\ DoneAll /\ program # <<>> /\ ~Doing("load") /\ asleep' = asleep
        /\ UNCHANGED <<weights, version, seen>>
    BY <1>5 DEF AddServers, RemoveServers, Doing, requestVars, engineVars
  <2>. QED
    BY <1>1, <2>1, OthersKeepVersion
<1>. QED
  BY <1>2, <1>3, <1>4, <1>5 DEF Sync

\* Counts, plan and versions together: a standalone server has been told to stop
\* before it is loaded, hybrid servers are awake only during the validation of a
\* version everybody has, and no request has seen a version nobody is loaded with.
THEOREM ServingInvariant == Spec => []ServingInv
<1>1. Init => ServingInv
  BY InitCount, InitPlan, InitVersion DEF ServingInv
<1>2. ServingInv /\ [Next]_vars => ServingInv'
  <2> SUFFICES ASSUME ServingInv, [Next]_vars PROVE ServingInv'
    OBVIOUS
  <2>1. ASSUME NEW r \in Request, Client(r) PROVE ServingInv'
    BY <2>1, ClientKeepsCount, ClientKeepsPlan, ClientKeepsVersion DEF ServingInv
  <2>2. ASSUME NEW s \in Server, ReleaseServer(s) PROVE ServingInv'
    <3>1. /\ UNCHANGED <<at, phase, seen, paused, asleep, weights, unaborted>>
          /\ UNCHANGED <<version, program, todo>>
      BY <2>2 DEF ReleaseServer, requestVars, engineVars, syncVars
    <3>2. PlanInv'
      BY <3>1 DEF ServingInv, PlanInv, PlanInOrder, Waiting, AsleepOutside, PausedIsQuiet,
         StoppedBeforeLoad, Told, At, Doing
    <3>3. VersionInv'
      BY <3>1 DEF ServingInv, VersionInv, At, Doing
    <3>. QED
      BY <2>2, <3>2, <3>3, ReleaseKeepsCount DEF ServingInv
  <2>3. CASE UNCHANGED vars
    <3>1. /\ UNCHANGED <<inflight, releases, at, phase, seen>>
          /\ UNCHANGED <<paused, asleep, weights, unaborted, version, program, todo>>
      BY <2>3 DEF vars, poolVars, requestVars, engineVars, syncVars
    <3>2. CountInv'
      BY <3>1 DEF ServingInv, CountInv, ServingTypeOK, RoutedWhileCalling, CountIsExact, Pool,
         Holding
    <3>3. PlanInv'
      BY <3>1 DEF ServingInv, PlanInv, PlanInOrder, Waiting, AsleepOutside, PausedIsQuiet,
         StoppedBeforeLoad, Told, At, Doing
    <3>4. VersionInv'
      BY <3>1 DEF ServingInv, VersionInv, At, Doing
    <3>. QED
      BY <3>2, <3>3, <3>4 DEF ServingInv
  <2>. QED
    BY <2>1, <2>2, <2>3, SyncKeepsServing DEF Next
<1>. QED
  BY <1>1, <1>2, PTL DEF Spec

\* Weights change only under an engine that generates nothing, asleep or not stopped
\* by its abort: a standalone server is loaded when every one of them is paused or
\* its abort has raised, a hybrid one while it sleeps.
THEOREM LoadsAlwaysIdle == Spec => LoadsOnlyIdle
<1>1. ServingInv /\ [Next]_vars =>
        [\A r \in Request : phase[r] = "generating" =>
             weights'[at[r]] = weights[at[r]] \/ at[r] \in asleep \cup unaborted]_vars
  <2>. USE DEF ServingInv, CountInv, PlanInv
  <2> SUFFICES ASSUME ServingInv, Next, NEW r \in Request, phase[r] = "generating",
                      at[r] \notin asleep \cup unaborted
               PROVE  weights'[at[r]] = weights[at[r]]
    OBVIOUS
  <2>1. at[r] \notin Told
    BY DEF PausedIsQuiet, Told
  <2>2. ASSUME NEW s \in Server, Load(s) PROVE weights'[at[r]] = weights[at[r]]
    <3>1. 1 \in At("load") /\ s \in todo /\ weights' = [weights EXCEPT ![s] = version]
      BY <2>2, DoingIsFirst DEF Load
    <3>2. s \in Told
      BY <3>1 DEF PlanInOrder, Waiting, StoppedBeforeLoad, At
    <3>. QED
      BY <2>1, <3>1, <3>2 DEF ServingTypeOK
  <2>3. ASSUME NEW s \in Server, Wake(s) PROVE weights'[at[r]] = weights[at[r]]
    <3>1. s \in asleep /\ weights' = [weights EXCEPT ![s] = version]
      BY <2>3 DEF Wake, AsleepOutside
    <3>. QED
      BY <3>1 DEF ServingTypeOK
  <2>4. CASE ~\E s \in Server : Load(s) \/ Wake(s)
    BY <2>4 DEF Next, Client, Acquire, Begin, Answer, AskAgain, ReleaseServer, Sync, StartSync,
       Abort, AbortRaises, ResumeGeneration, Sleep, AddServers, RemoveServers, engineVars
  <2>. QED
    BY <2>2, <2>3, <2>4
<1>. QED
  BY <1>1, ServingInvariant, PTL DEF Spec, LoadsOnlyIdle

\* A request's outputs never go back to older weights, on whichever servers its
\* calls are made, aborted and made again, but for an answer of a server whose
\* abort raised.
THEOREM VersionsNeverGoBack == Spec => VersionsMonotone
<1>1. ServingInv /\ [Next]_vars =>
        [\A r \in Request : seen'[r] >= seen[r] \/ at[r] \in unaborted]_vars
  <2> SUFFICES ASSUME ServingInv, Next, NEW q \in Request, at[q] \notin unaborted
               PROVE  seen'[q] >= seen[q]
    OBVIOUS
  <2>1. seen \in [Request -> Nat]
    BY DEF ServingInv, CountInv, ServingTypeOK
  <2>2. ASSUME NEW r \in Request, Answer(r) PROVE seen'[q] >= seen[q]
    <3>1. seen' = [seen EXCEPT ![r] = weights[at[r]]]
      BY <2>2 DEF Answer
    <3>2. CASE q = r
      BY <2>1, <2>2, <3>1, <3>2, Answering
    <3>3. CASE q # r
      BY <2>1, <3>1, <3>3
    <3>. QED
      BY <3>2, <3>3
  <2>3. CASE ~\E r \in Request : Answer(r)
    <3>1. seen' = seen
      BY <2>3 DEF Next, Client, Acquire, Begin, AskAgain, ReleaseServer, Sync, StartSync, Abort,
         AbortRaises, ResumeGeneration, Load, Wake, Sleep, AddServers, RemoveServers, requestVars
    <3>. QED
      BY <2>1, <3>1
  <2>. QED
    BY <2>2, <2>3
<1>. QED
  BY <1>1, ServingInvariant, PTL DEF Spec, VersionsMonotone

=============================================================================
