-------------------------- MODULE SchedulerProofs --------------------------
(***************************************************************************)
(* Theorems about Scheduler, for every finite set of peer ids and every    *)
(* value of the bounds.                                                    *)
(***************************************************************************)
EXTENDS Scheduler, TLAPS

ElectionTypeOK ==
  /\ activePeers \in [Peers -> SUBSET Peers]
  /\ currentLeader \in [Peers -> Peers \union {Nobody}]
  /\ heartbeatTimer \in [Peers -> BOOLEAN] /\ timeoutTimer \in [Peers -> BOOLEAN]
  /\ running \in [Peers -> BOOLEAN] /\ elected \in [Peers -> BOOLEAN]

SameElection(q) ==
  /\ activePeers'[q] = activePeers[q] /\ currentLeader'[q] = currentLeader[q]
  /\ timeoutTimer'[q] = timeoutTimer[q]
  /\ running'[q] = running[q] /\ elected'[q] = elected[q]

(* What an election over active leaves p with.                             *)
Outcome(p, active, armed) ==
  /\ activePeers'[p] = active
  /\ \/ currentLeader'[p] = Nobody
     \/ currentLeader'[p] \in active /\ \A r \in active : r <= currentLeader'[p]
  /\ \/ /\ currentLeader'[p] = currentLeader[p]
        /\ timeoutTimer'[p] = armed
        /\ running'[p] = running[p] /\ elected'[p] = elected[p]
     \/ /\ currentLeader[p] # p /\ currentLeader'[p] = p
        /\ running'[p] = (running[p] \/ Listening(p)) /\ elected'[p] = Listening(p)
     \/ /\ currentLeader'[p] # p
        /\ timeoutTimer'[p] = TRUE
        /\ running'[p] = (running[p] /\ ~(currentLeader[p] = p /\ Listening(p)))
        /\ elected'[p] = FALSE

LEMMA HighestIsHighest ==
  ASSUME SchedulerAssumption, NEW S \in SUBSET Peers, S # {}
  PROVE  Highest(S) \in S /\ \A q \in S : q <= Highest(S)
<1>1. \E p \in S : \A q \in S : q <= p
  BY DEF SchedulerAssumption
<1>2. QED
  BY <1>1 DEF Highest

LEMMA ElectionOutcome ==
  ASSUME SchedulerAssumption, ElectionTypeOK, NEW p \in Peers, NEW active \in SUBSET Peers,
         NEW armed \in BOOLEAN, ElectLeader(p, active, armed)
  PROVE  /\ ElectionTypeOK'
         /\ Outcome(p, active, armed)
         /\ \A q \in Peers : q # p => SameElection(q)
<1> DEFINE new == IF active = {} THEN Nobody ELSE Highest(active)
<1>1. \/ new = Nobody
      \/ new \in active /\ \A r \in active : r <= new
  BY HighestIsHighest
<1>2. new \in Peers \union {Nobody}
  BY <1>1
<1>3. Listening(p) \in BOOLEAN
  BY DEF Listening
<1>4. /\ activePeers' = [activePeers EXCEPT ![p] = active]
      /\ currentLeader' = [currentLeader EXCEPT ![p] = new]
  BY DEF ElectLeader
<1>5. CASE /\ new = currentLeader[p]
           /\ timeoutTimer' = [timeoutTimer EXCEPT ![p] = armed]
           /\ UNCHANGED <<heartbeatTimer, running, elected>>
  <2>1. ElectionTypeOK'
    BY <1>2, <1>4, <1>5 DEF ElectionTypeOK
  <2>2. QED
    BY <1>1, <1>4, <1>5, <2>1 DEF ElectionTypeOK, Outcome, SameElection
<1>6. CASE /\ new # currentLeader[p] /\ new = p
           /\ heartbeatTimer' = [heartbeatTimer EXCEPT ![p] = TRUE]
           /\ timeoutTimer' = [timeoutTimer EXCEPT ![p] = armed]
           /\ running' = [running EXCEPT ![p] = @ \/ Listening(p)]
           /\ elected' = [elected EXCEPT ![p] = Listening(p)]
  <2>1. ElectionTypeOK'
    BY <1>2, <1>4, <1>6, <1>3 DEF ElectionTypeOK
  <2>2. QED
    BY <1>1, <1>4, <1>6, <2>1 DEF ElectionTypeOK, Outcome, SameElection
<1>7. CASE /\ new # currentLeader[p] /\ new # p
           /\ timeoutTimer' = [timeoutTimer EXCEPT ![p] = TRUE]
           /\ running' = [running EXCEPT ![p] = @ /\ ~(currentLeader[p] = p /\ Listening(p))]
           /\ elected' = [elected EXCEPT ![p] = FALSE]
           /\ UNCHANGED heartbeatTimer
  <2>1. ElectionTypeOK'
    BY <1>2, <1>4, <1>7 DEF ElectionTypeOK
  <2>2. QED
    BY <1>1, <1>4, <1>7, <2>1 DEF ElectionTypeOK, Outcome, SameElection
<1>8. QED
  BY <1>5, <1>6, <1>7 DEF ElectLeader

-----------------------------------------------------------------------------
(* Type correctness.                                                       *)

TaskTables == UNION {[S -> BOOLEAN] : S \in SUBSET Tasks}
TickSets   == SUBSET [id: 1 .. MaxTicks, todo: (SUBSET Tasks) \ {{}}]

MeshTypeOK ==
  /\ status \in [Peers -> {"none", "built", "started", "disposed"}]
  /\ alive \in [Peers -> BOOLEAN]
  /\ link \subseteq SUBSET Peers /\ links \in Nat
  /\ told \in [Peers -> SUBSET Peers] /\ discounted \in [Peers -> SUBSET Peers]

RunnerTypeOK == tasks \in [Peers -> TaskTables] /\ ticks \in [Peers -> TickSets]

LEMMA TypeParts == TypeOK <=> MeshTypeOK /\ ElectionTypeOK /\ RunnerTypeOK
  BY DEF TypeOK, MeshTypeOK, ElectionTypeOK, RunnerTypeOK, TaskTables, TickSets

LEMMA TableTypes ==
  ASSUME NEW f \in TaskTables
  PROVE  /\ \A t \in Tasks : [u \in DOMAIN f \union {t} |-> IF u = t THEN TRUE ELSE f[u]] \in TaskTables
         /\ \A t \in Tasks : Without(f, t) \in TaskTables
         /\ \A t \in DOMAIN f : [f EXCEPT ![t] = TRUE] \in TaskTables
         /\ \A t \in Tasks : [u \in DOMAIN f |-> f[u] /\ u # t] \in TaskTables
         /\ DOMAIN f \subseteq Tasks
<1>1. PICK S \in SUBSET Tasks : f \in [S -> BOOLEAN]
  BY DEF TaskTables
<1>2. \A T \in SUBSET Tasks : [T -> BOOLEAN] \subseteq TaskTables
  BY DEF TaskTables
<1>3. ASSUME NEW t \in Tasks
      PROVE  [u \in DOMAIN f \union {t} |-> IF u = t THEN TRUE ELSE f[u]] \in [S \union {t} -> BOOLEAN]
  BY <1>1
<1>4. ASSUME NEW t \in Tasks PROVE Without(f, t) \in [S \ {t} -> BOOLEAN]
  BY <1>1 DEF Without
<1>5. ASSUME NEW t \in DOMAIN f PROVE [f EXCEPT ![t] = TRUE] \in [S -> BOOLEAN]
  BY <1>1
<1>6. ASSUME NEW t \in Tasks PROVE [u \in DOMAIN f |-> f[u] /\ u # t] \in [S -> BOOLEAN]
  BY <1>1
<1>7. DOMAIN f = S
  BY <1>1
<1>8. ASSUME NEW t \in Tasks
      PROVE  /\ [u \in DOMAIN f \union {t} |-> IF u = t THEN TRUE ELSE f[u]] \in TaskTables
             /\ Without(f, t) \in TaskTables
             /\ [u \in DOMAIN f |-> f[u] /\ u # t] \in TaskTables
  <2>1. S \union {t} \in SUBSET Tasks /\ S \ {t} \in SUBSET Tasks
    OBVIOUS
  <2>2. /\ [S \union {t} -> BOOLEAN] \subseteq TaskTables
        /\ [S \ {t} -> BOOLEAN] \subseteq TaskTables
        /\ [S -> BOOLEAN] \subseteq TaskTables
    BY <1>2, <2>1
  <2>3. QED
    BY <1>3, <1>4, <1>6, <2>2
<1>9. QED
  BY <1>2, <1>5, <1>7, <1>8

LEMMA TickTypes ==
  ASSUME RunnerTypeOK, NEW p \in Peers
  PROVE  /\ Tick(p) => ticks' \in [Peers -> TickSets]
         /\ \A k \in ticks[p] : \A t \in k.todo : HandlerEnds(p, k, t) => ticks' \in [Peers -> TickSets]
<1>0. tasks[p] \in TaskTables /\ ticks[p] \in TickSets
  BY DEF RunnerTypeOK
<1>1. ASSUME Tick(p) PROVE ticks' \in [Peers -> TickSets]
  <2> DEFINE due == {t \in DOMAIN tasks[p] : tasks[p][t]}
  <2>1. due \in (SUBSET Tasks) \ {{}}
    <3>1. DOMAIN tasks[p] \subseteq Tasks
      BY <1>0, TableTypes
    <3>2. due # {}
      BY <1>1 DEF Tick
    <3>3. QED
      BY <3>1, <3>2
  <2>2. PICK id \in 1 .. MaxTicks : ticks' = [ticks EXCEPT ![p] = @ \union {[id |-> id, todo |-> due]}]
    BY <1>1 DEF Tick
  <2>3. ticks[p] \union {[id |-> id, todo |-> due]} \in TickSets
    BY <1>0, <2>1 DEF TickSets
  <2>4. QED
    BY <2>2, <2>3 DEF RunnerTypeOK
<1>2. ASSUME NEW k \in ticks[p], NEW t \in k.todo, HandlerEnds(p, k, t)
      PROVE  ticks' \in [Peers -> TickSets]
  <2> DEFINE rest == IF k.todo = {t} THEN {} ELSE {[k EXCEPT !.todo = @ \ {t}]}
  <2>1. k \in [id: 1 .. MaxTicks, todo: (SUBSET Tasks) \ {{}}]
    BY <1>0 DEF TickSets
  <2>2. rest \in TickSets
    BY <2>1 DEF TickSets
  <2>3. (ticks[p] \ {k}) \union rest \in TickSets
    BY <1>0, <2>2 DEF TickSets
  <2>4. ticks' = [ticks EXCEPT ![p] = (ticks[p] \ {k}) \union rest]
    BY <1>2 DEF HandlerEnds, RunnerTypeOK
  <2>5. QED
    BY <2>3, <2>4 DEF RunnerTypeOK
<1>3. QED
  BY <1>1, <1>2

(* The steps in which p holds an election, and over whom.                  *)
Votes(p, active, armed) ==
  /\ ElectLeader(p, active, armed)
  /\ \/ Start(p) /\ active = activePeers[p] /\ armed = timeoutTimer[p]
     \/ \E q \in Peers : /\ PeerConnected(p, q) /\ status[p] # "none"
                          /\ active = activePeers[p] \union {q} /\ armed = timeoutTimer[p]
     \/ \E q \in Peers : /\ PeerDisconnected(p, q) /\ status[p] # "none"
                          /\ active = activePeers[p] \ {q} /\ armed = timeoutTimer[p]
     \/ TimeoutFires(p) /\ active = activePeers[p] \ {currentLeader[p]} /\ armed = FALSE

(* The others change at most one part of the election.                     *)
Quiet ==
  \/ UNCHANGED election
  \/ \E p \in Peers : Dispose(p)
  \/ \E p, q \in Peers : Heartbeat(p, q)

LEMMA Steps ==
  ASSUME [Next]_vars
  PROVE  Quiet \/ \E p \in Peers : \E active, armed : Votes(p, active, armed)
<1>1. ASSUME NEW p \in Peers, Start(p) PROVE Votes(p, activePeers[p], timeoutTimer[p])
  BY <1>1 DEF Votes, Start
<1>2. ASSUME NEW p \in Peers, TimeoutFires(p)
      PROVE  Votes(p, activePeers[p] \ {currentLeader[p]}, FALSE)
  BY <1>2 DEF Votes, TimeoutFires
<1>3. ASSUME NEW p \in Peers, NEW q \in Peers, PeerConnected(p, q), status[p] # "none"
      PROVE  Votes(p, activePeers[p] \union {q}, timeoutTimer[p])
  BY <1>3 DEF Votes, PeerConnected, OnPeerJoin
<1>4. ASSUME NEW p \in Peers, NEW q \in Peers, PeerDisconnected(p, q), status[p] # "none"
      PROVE  Votes(p, activePeers[p] \ {q}, timeoutTimer[p])
  BY <1>4 DEF Votes, PeerDisconnected, OnPeerLeave
<1>5. ASSUME NEW p \in Peers, NEW q \in Peers, status[p] = "none",
             PeerConnected(p, q) \/ PeerDisconnected(p, q)
      PROVE  UNCHANGED election
  BY <1>5 DEF PeerConnected, PeerDisconnected
<1>6. ASSUME NEW p \in Peers,
             \/ Construct(p) \/ Tick(p) \/ Crash(p)
             \/ \E q \in Peers : LinkUp(p, q)
             \/ \E t \in Tasks : AddTask(p, t) \/ RemoveTask(p, t) \/ TaskDue(p, t)
             \/ \E k \in ticks[p] : \E t \in k.todo : HandlerEnds(p, k, t)
      PROVE  UNCHANGED election
  BY <1>6 DEF Construct, Tick, Crash, LinkUp, AddTask, RemoveTask, TaskDue, HandlerEnds
<1>7. ASSUME NEW pair \in link, LinkDown(pair) PROVE UNCHANGED election
  BY <1>7 DEF LinkDown
<1>8. CASE UNCHANGED vars
  BY <1>8 DEF vars, election, Quiet
<1>9. QED
  BY <1>1, <1>2, <1>3, <1>4, <1>5, <1>6, <1>7, <1>8 DEF Next, Quiet

LEMMA VoteOutcome ==
  ASSUME SchedulerAssumption, TypeOK, NEW p \in Peers, NEW active, NEW armed, Votes(p, active, armed)
  PROVE  ElectionTypeOK' /\ Outcome(p, active, armed) /\ \A q \in Peers : q # p => SameElection(q)
<1>1. ElectionTypeOK
  BY TypeParts
<1>2. active \in SUBSET Peers /\ armed \in BOOLEAN
  BY <1>1 DEF Votes, ElectionTypeOK
<1>3. QED
  BY <1>1, <1>2, ElectionOutcome DEF Votes

LEMMA StepTypes ==
  ASSUME SchedulerAssumption, TypeOK, [Next]_vars
  PROVE  TypeOK'
<1>0. MeshTypeOK /\ ElectionTypeOK /\ RunnerTypeOK
  BY TypeParts
<1>1. ElectionTypeOK'
  <2>1. CASE UNCHANGED election
    BY <1>0, <2>1 DEF ElectionTypeOK, election
  <2>2. CASE \E p \in Peers : Dispose(p)
    BY <1>0, <2>2 DEF Dispose, ElectionTypeOK
  <2>3. CASE \E p, q \in Peers : Heartbeat(p, q)
    BY <1>0, <2>3 DEF Heartbeat, ElectionTypeOK
  <2>4. ASSUME NEW p \in Peers, NEW active, NEW armed, Votes(p, active, armed)
        PROVE  ElectionTypeOK'
    BY <2>4, VoteOutcome
  <2>5. QED
    BY <2>1, <2>2, <2>3, <2>4, Steps DEF Quiet
<1>2. MeshTypeOK'
  <2>1. ASSUME NEW p \in Peers, Construct(p) \/ Start(p) \/ Dispose(p) \/ Tick(p) PROVE MeshTypeOK'
    BY <1>0, <2>1 DEF MeshTypeOK, Construct, Start, Dispose, Tick, mesh
  <2>2. ASSUME NEW p \in Peers, TimeoutFires(p) PROVE MeshTypeOK'
    BY <1>0, <2>2 DEF MeshTypeOK, ElectionTypeOK, TimeoutFires, mesh
  <2>3. ASSUME NEW p \in Peers, Crash(p) PROVE MeshTypeOK'
    BY <1>0, <2>3 DEF MeshTypeOK, Crash
  <2>4. ASSUME NEW p \in Peers, NEW q \in Peers, PeerConnected(p, q) PROVE MeshTypeOK'
    BY <1>0, <2>4 DEF MeshTypeOK, PeerConnected
  <2>5. ASSUME NEW p \in Peers, NEW q \in Peers, PeerDisconnected(p, q) PROVE MeshTypeOK'
    BY <1>0, <2>5 DEF MeshTypeOK, PeerDisconnected
  <2>6. ASSUME NEW p \in Peers, NEW q \in Peers, Heartbeat(p, q) PROVE MeshTypeOK'
    BY <1>0, <2>6 DEF MeshTypeOK, Heartbeat, mesh
  <2>7. ASSUME NEW p \in Peers, NEW q \in Peers, LinkUp(p, q) PROVE MeshTypeOK'
    BY <1>0, <2>7 DEF MeshTypeOK, LinkUp
  <2>8. ASSUME NEW p \in Peers, NEW t \in Tasks, AddTask(p, t) \/ RemoveTask(p, t) \/ TaskDue(p, t)
        PROVE  MeshTypeOK'
    BY <1>0, <2>8 DEF MeshTypeOK, AddTask, RemoveTask, TaskDue, mesh
  <2>9. ASSUME NEW p \in Peers, NEW k \in ticks[p], NEW t \in k.todo, HandlerEnds(p, k, t)
        PROVE  MeshTypeOK'
    BY <1>0, <2>9 DEF MeshTypeOK, HandlerEnds, mesh
  <2>10. ASSUME NEW pair \in link, LinkDown(pair) PROVE MeshTypeOK'
    BY <1>0, <2>10 DEF MeshTypeOK, LinkDown
  <2>11. CASE UNCHANGED vars
    BY <1>0, <2>11 DEF MeshTypeOK, vars, mesh
  <2>12. QED
    BY <2>1, <2>2, <2>3, <2>4, <2>5, <2>6, <2>7, <2>8, <2>9, <2>10, <2>11 DEF Next
<1>3. RunnerTypeOK'
  <2>1. ASSUME NEW p \in Peers, NEW t \in Tasks, AddTask(p, t) \/ RemoveTask(p, t) \/ TaskDue(p, t)
        PROVE  RunnerTypeOK'
    <3>1. tasks[p] \in TaskTables
      BY <1>0 DEF RunnerTypeOK
    <3>2. \E f \in TaskTables : tasks' = [tasks EXCEPT ![p] = f]
      <4>1. CASE AddTask(p, t)
        BY <3>1, <4>1, TableTypes DEF AddTask
      <4>2. CASE RemoveTask(p, t)
        BY <3>1, <4>2, TableTypes DEF RemoveTask
      <4>3. CASE TaskDue(p, t)
        <5>1. [tasks[p] EXCEPT ![t] = TRUE] \in TaskTables
          BY <3>1, <4>3, TableTypes DEF TaskDue
        <5>2. tasks' = [tasks EXCEPT ![p] = [tasks[p] EXCEPT ![t] = TRUE]]
          BY <4>3 DEF TaskDue
        <5>3. QED
          BY <5>1, <5>2
      <4>4. QED
        BY <2>1, <4>1, <4>2, <4>3
    <3>3. ticks' = ticks
      BY <2>1 DEF AddTask, RemoveTask, TaskDue
    <3>4. QED
      BY <1>0, <3>2, <3>3 DEF RunnerTypeOK
  <2>2. ASSUME NEW p \in Peers, NEW k \in ticks[p], NEW t \in k.todo, HandlerEnds(p, k, t)
        PROVE  RunnerTypeOK'
    <3>1. tasks[p] \in TaskTables /\ t \in Tasks
      BY <1>0 DEF RunnerTypeOK, TickSets
    <3>2. [u \in DOMAIN tasks[p] |-> tasks[p][u] /\ u # t] \in TaskTables
      BY <3>1, TableTypes
    <3>3. \/ tasks' = [tasks EXCEPT ![p] = [u \in DOMAIN tasks[p] |-> tasks[p][u] /\ u # t]]
          \/ tasks' = tasks
      BY <2>2 DEF HandlerEnds
    <3>4. ticks' \in [Peers -> TickSets]
      BY <1>0, <2>2, TickTypes
    <3>5. QED
      BY <1>0, <3>2, <3>3, <3>4 DEF RunnerTypeOK
  <2>3. ASSUME NEW p \in Peers, Tick(p) PROVE RunnerTypeOK'
    BY <1>0, <2>3, TickTypes DEF RunnerTypeOK, Tick
  <2>4. CASE UNCHANGED runner
    BY <1>0, <2>4 DEF RunnerTypeOK, runner
  <2>5. \/ UNCHANGED runner
        \/ \E p \in Peers : \/ Tick(p)
                            \/ \E t \in Tasks : AddTask(p, t) \/ RemoveTask(p, t) \/ TaskDue(p, t)
                            \/ \E k \in ticks[p] : \E t \in k.todo : HandlerEnds(p, k, t)
    BY DEF Next, vars, Construct, Start, Dispose, TimeoutFires, Crash, PeerConnected,
           PeerDisconnected, Heartbeat, LinkUp, LinkDown
  <2>6. QED
    BY <2>1, <2>2, <2>3, <2>4, <2>5
<1>4. QED
  BY <1>1, <1>2, <1>3 DEF TypeOK, MeshTypeOK, ElectionTypeOK, RunnerTypeOK, TaskTables, TickSets

(* In every behaviour every variable has its type.                         *)
THEOREM TypeCorrect == SchedulerAssumption => (Spec => []TypeOK)
<1> SUFFICES ASSUME SchedulerAssumption PROVE Spec => []TypeOK
  OBVIOUS
<1>1. Init => TypeOK
  <2>1. [t \in {} |-> FALSE] \in UNION {[S -> BOOLEAN] : S \in SUBSET Tasks}
    <3>1. [t \in {} |-> FALSE] \in [{} -> BOOLEAN]
      OBVIOUS
    <3>2. QED
      BY <3>1
  <2>2. ASSUME Init PROVE tasks \in [Peers -> UNION {[S -> BOOLEAN] : S \in SUBSET Tasks}]
    BY <2>1, <2>2 DEF Init
  <2>3. ASSUME Init PROVE ticks \in [Peers -> SUBSET [id: 1 .. MaxTicks, todo: (SUBSET Tasks) \ {{}}]]
    BY <2>3 DEF Init
  <2>4. ASSUME Init PROVE MeshTypeOK /\ ElectionTypeOK
    BY <2>4 DEF Init, MeshTypeOK, ElectionTypeOK
  <2>5. QED
    BY <2>2, <2>3, <2>4 DEF TypeOK, MeshTypeOK, ElectionTypeOK
<1>2. TypeOK /\ [Next]_vars => TypeOK'
  BY StepTypes
<1>3. QED
  BY <1>1, <1>2, PTL DEF Spec

-----------------------------------------------------------------------------
(* Followers watch, runners lead, connected leaders are one.               *)

LEMMA StepStatus ==
  ASSUME TypeOK, [Next]_vars, NEW p \in Peers
  PROVE  /\ Listening(p) => Listening(p)'
         /\ status'[p] # "disposed" => status[p] # "disposed"
<1>1. ASSUME NEW q \in Peers, Construct(q) \/ Start(q) \/ Dispose(q)
      PROVE  /\ Listening(p) => Listening(p)'
             /\ status'[p] # "disposed" => status[p] # "disposed"
  BY <1>1 DEF TypeOK, Construct, Start, Dispose, Listening
<1>2. CASE status' = status
  BY <1>2 DEF Listening
<1>3. status' = status \/ \E q \in Peers : Construct(q) \/ Start(q) \/ Dispose(q)
  BY DEF Next, vars, TimeoutFires, Tick, Crash, PeerConnected, PeerDisconnected, Heartbeat, LinkUp,
         AddTask, RemoveTask, TaskDue, HandlerEnds, LinkDown
<1>4. QED
  BY <1>1, <1>2, <1>3

Watching(p) == status[p] # "disposed" /\ currentLeader[p] \notin {p, Nobody} => timeoutTimer[p]
RunsAsLeader(p) ==
  /\ elected[p] => Listening(p)
  /\ status[p] # "disposed" => (running[p] <=> Leads(p) /\ elected[p])

LEMMA StepLead ==
  ASSUME SchedulerAssumption, TypeOK, [Next]_vars, NEW p \in Peers, Watching(p), RunsAsLeader(p)
  PROVE  Watching(p)' /\ RunsAsLeader(p)'
<1>0. /\ Listening(p) => Listening(p)'
      /\ status'[p] # "disposed" => status[p] # "disposed"
  BY StepStatus
<1>1. CASE SameElection(p)
  BY <1>0, <1>1 DEF SameElection, Watching, RunsAsLeader, Leads
<1>2. ASSUME NEW active, NEW armed, Votes(p, active, armed)
      PROVE  Watching(p)' /\ RunsAsLeader(p)'
  <2>1. Outcome(p, active, armed)
    BY <1>2, VoteOutcome
  <2>2. \/ armed = timeoutTimer[p]
        \/ armed = FALSE /\ active = activePeers[p] \ {currentLeader[p]}
    BY <1>2 DEF Votes
  <2>3. Watching(p)'
    BY <1>0, <2>1, <2>2 DEF Outcome, Watching
  <2>4. RunsAsLeader(p)'
    BY <1>0, <2>1 DEF Outcome, RunsAsLeader, Leads
  <2>5. QED
    BY <2>3, <2>4
<1>3. ASSUME NEW q \in Peers, NEW active, NEW armed, Votes(q, active, armed), q # p
      PROVE  SameElection(p)
  BY <1>3, VoteOutcome
<1>4. CASE UNCHANGED election
  BY <1>1, <1>4 DEF election, SameElection
<1>5. ASSUME NEW q \in Peers, Dispose(q) PROVE Watching(p)' /\ RunsAsLeader(p)'
  <2>1. CASE q = p
    BY <1>5, <2>1 DEF Dispose, TypeOK, Watching, RunsAsLeader
  <2>2. CASE q # p
    <3>1. SameElection(p)
      BY <1>5, <2>2 DEF Dispose, TypeOK, SameElection
    <3>2. QED
      BY <1>1, <3>1
  <2>3. QED
    BY <2>1, <2>2
<1>6. ASSUME NEW q \in Peers, NEW r \in Peers, Heartbeat(q, r)
      PROVE  Watching(p)' /\ RunsAsLeader(p)'
  <2>1. timeoutTimer[p] => timeoutTimer'[p]
    BY <1>6 DEF Heartbeat, TypeOK
  <2>2. UNCHANGED <<status, currentLeader, running, elected>>
    BY <1>6 DEF Heartbeat
  <2>3. QED
    BY <2>1, <2>2 DEF Watching, RunsAsLeader, Leads, Listening
<1>7. QED
  BY <1>1, <1>2, <1>3, <1>4, <1>5, <1>6, Steps DEF Quiet

(* Whoever follows has its timeout armed (resetLeaderTimeout).             *)
THEOREM SilenceNoticed == SchedulerAssumption => (Spec => []FollowersWatch)
<1> SUFFICES ASSUME SchedulerAssumption PROVE Spec => []FollowersWatch
  OBVIOUS
<1> DEFINE Inv == \A p \in Peers : Watching(p) /\ RunsAsLeader(p)
<1>1. Init => Inv
  BY DEF Init, Watching, RunsAsLeader, Leads, SchedulerAssumption
<1>2. TypeOK /\ Inv /\ [Next]_vars => Inv'
  BY StepLead
<1>3. Inv => FollowersWatch
  BY DEF FollowersWatch, Watching, RunsAsLeader
<1>4. Spec => []TypeOK
  BY TypeCorrect
<1>5. QED
  BY <1>1, <1>2, <1>3, <1>4, PTL DEF Spec

(* Tasks run exactly where the leader was elected with start()'s listener  *)
(* in place (the leader:elected and leader:lost handlers).                 *)
THEOREM TasksRunAtLeaders == SchedulerAssumption => (Spec => []RunnersLead)
<1> SUFFICES ASSUME SchedulerAssumption PROVE Spec => []RunnersLead
  OBVIOUS
<1> DEFINE Inv == \A p \in Peers : Watching(p) /\ RunsAsLeader(p)
<1>1. Init => Inv
  BY DEF Init, Watching, RunsAsLeader, Leads, SchedulerAssumption
<1>2. TypeOK /\ Inv /\ [Next]_vars => Inv'
  BY StepLead
<1>3. Inv => RunnersLead
  BY DEF RunnersLead, Watching, RunsAsLeader
<1>4. Spec => []TypeOK
  BY TypeCorrect
<1>5. QED
  BY <1>1, <1>2, <1>3, <1>4, PTL DEF Spec

-----------------------------------------------------------------------------
(* What p was told of, and did not time out, it counts; and a leader is the*)
(* highest of those it counts.                                             *)
CountsTold(p) == \A q \in Peers : q \in told[p] /\ q \notin discounted[p] => q \in activePeers[p]
LeadsOver(p)  == Leads(p) => \A q \in activePeers[p] : q <= p

LEMMA StepLeadsOver ==
  ASSUME SchedulerAssumption, TypeOK, [Next]_vars, NEW p \in Peers, LeadsOver(p)
  PROVE  LeadsOver(p)'
<1>1. CASE activePeers'[p] = activePeers[p] /\ currentLeader'[p] = currentLeader[p]
  BY <1>1 DEF LeadsOver, Leads
<1>2. ASSUME NEW active, NEW armed, Votes(p, active, armed) PROVE LeadsOver(p)'
  <2>1. Outcome(p, active, armed)
    BY <1>2, VoteOutcome
  <2>2. p # Nobody
    BY DEF SchedulerAssumption
  <2>3. QED
    BY <2>1, <2>2 DEF Outcome, LeadsOver, Leads
<1>3. ASSUME NEW q \in Peers, NEW active, NEW armed, Votes(q, active, armed), q # p
      PROVE  activePeers'[p] = activePeers[p] /\ currentLeader'[p] = currentLeader[p]
  BY <1>3, VoteOutcome DEF SameElection
<1>4. Quiet => activePeers' = activePeers /\ currentLeader' = currentLeader
  BY DEF Quiet, election, Dispose, Heartbeat
<1>5. QED
  BY <1>1, <1>2, <1>3, <1>4, Steps

LEMMA StepCounts ==
  ASSUME SchedulerAssumption, TypeOK, [Next]_vars, NEW p \in Peers, CountsTold(p)
  PROVE  CountsTold(p)'
<1>1. CASE UNCHANGED <<told, discounted, activePeers>>
  BY <1>1 DEF CountsTold
<1>2. ASSUME NEW r \in Peers, NEW q \in Peers, PeerConnected(r, q) PROVE CountsTold(p)'
  BY <1>2 DEF PeerConnected, OnPeerJoin, ElectLeader, election, CountsTold, TypeOK
<1>3. ASSUME NEW r \in Peers, NEW q \in Peers, PeerDisconnected(r, q) PROVE CountsTold(p)'
  BY <1>3 DEF PeerDisconnected, OnPeerLeave, ElectLeader, election, CountsTold, TypeOK
<1>4. ASSUME NEW r \in Peers, TimeoutFires(r) PROVE CountsTold(p)'
  <2>1. /\ activePeers' = [activePeers EXCEPT ![r] = @ \ {currentLeader[r]}]
        /\ discounted' = [discounted EXCEPT ![r] = @ \union ({currentLeader[r]} \ {Nobody})]
        /\ told' = told
    BY <1>4 DEF TimeoutFires, ElectLeader, mesh
  <2>2. Nobody \notin Peers
    BY DEF SchedulerAssumption
  <2>3. QED
    BY <2>1, <2>2 DEF CountsTold, TypeOK
<1>5. ASSUME NEW r \in Peers, Start(r) PROVE CountsTold(p)'
  BY <1>5 DEF Start, ElectLeader, mesh, CountsTold, TypeOK
<1>6. \/ UNCHANGED <<told, discounted, activePeers>>
      \/ \E r \in Peers : Start(r) \/ TimeoutFires(r)
      \/ \E r, q \in Peers : PeerConnected(r, q) \/ PeerDisconnected(r, q)
  <2> DEFINE Same == UNCHANGED <<told, discounted, activePeers>>
  <2>1. ASSUME NEW r \in Peers, Construct(r) \/ Dispose(r) \/ Tick(r) \/ Crash(r) PROVE Same
    BY <2>1 DEF mesh, election, Construct, Dispose, Tick, Crash
  <2>2. ASSUME NEW r \in Peers, NEW q \in Peers, Heartbeat(r, q) \/ LinkUp(r, q) PROVE Same
    BY <2>2 DEF mesh, election, Heartbeat, LinkUp
  <2>3. ASSUME NEW r \in Peers, NEW t \in Tasks, AddTask(r, t) \/ RemoveTask(r, t) \/ TaskDue(r, t)
        PROVE  Same
    BY <2>3 DEF mesh, election, AddTask, RemoveTask, TaskDue
  <2>4. ASSUME NEW r \in Peers, NEW k \in ticks[r], NEW t \in k.todo, HandlerEnds(r, k, t) PROVE Same
    BY <2>4 DEF mesh, election, HandlerEnds
  <2>5. (\E pair \in link : LinkDown(pair)) \/ UNCHANGED vars => Same
    BY DEF vars, mesh, election, LinkDown
  <2>6. QED
    BY <2>1, <2>2, <2>3, <2>4, <2>5 DEF Next
<1>7. QED
  BY <1>1, <1>2, <1>3, <1>4, <1>5, <1>6

(* Two peers that were told of each other lead together only if one of     *)
(* them has timed the other out or was told too early (electLeader).       *)
THEOREM ConnectedLeadersAreOne == SchedulerAssumption => (Spec => []OneLeader)
<1> SUFFICES ASSUME SchedulerAssumption PROVE Spec => []OneLeader
  OBVIOUS
<1> DEFINE Inv == \A p \in Peers : CountsTold(p) /\ LeadsOver(p)
<1>1. Init => Inv
  BY DEF Init, CountsTold, LeadsOver, Leads, SchedulerAssumption
<1>2. TypeOK /\ Inv /\ [Next]_vars => Inv'
  BY StepLeadsOver, StepCounts
<1>3. Inv => OneLeader
  <2> SUFFICES ASSUME Inv, NEW p \in Peers, NEW q \in Peers, p # q, Leads(p), Leads(q),
                      q \in told[p], p \in told[q], q \notin discounted[p], p \notin discounted[q]
               PROVE  FALSE
    BY DEF OneLeader
  <2>1. q \in activePeers[p] /\ p \in activePeers[q]
    BY DEF CountsTold
  <2>2. q <= p /\ p <= q
    BY <2>1 DEF LeadsOver
  <2>3. p \in Nat /\ q \in Nat
    BY DEF SchedulerAssumption
  <2>4. QED
    BY <2>2, <2>3
<1>4. Spec => []TypeOK
  BY TypeCorrect
<1>5. QED
  BY <1>1, <1>2, <1>3, <1>4, PTL DEF Spec

=============================================================================
