----------------------------- MODULE Scheduler -----------------------------
(***************************************************************************)
(* One Scheduler per peer (packages/zerithdb-scheduler/src): LeaderElection*)
(* over the connections and messages of the mesh, and the TaskRunner that  *)
(* the elected peer starts.  Timers have no times: one that is armed may   *)
(* fire, as it does when a hidden tab is throttled and its heartbeats come *)
(* late.                                                                   *)
(***************************************************************************)
EXTENDS Integers, FiniteSets

CONSTANTS
  Peers,      \* peer ids, which are compared
  Nobody,
  Tasks,
  MaxLinks,   \* bound: connections made in a behaviour
  MaxTicks,   \* bound: ticks of one runner at once
  MaxCrashes  \* bound: tabs that die

ASSUME SchedulerAssumption ==
  /\ Peers \subseteq Nat
  /\ \A S \in SUBSET Peers : S # {} => \E p \in S : \A q \in S : q <= p  \* finitely many
  /\ Nobody \notin Peers
  /\ MaxLinks \in Nat /\ MaxTicks \in Nat /\ MaxCrashes \in Nat

VARIABLES
  status,         \* status[p]: "none", "built", "started" or "disposed"
  alive,
  activePeers,
  currentLeader,
  heartbeatTimer,
  timeoutTimer,
  running,        \* running[p]: the TaskRunner's interval
  tasks,          \* tasks[p]: the tasks p knows, and whether each is due
  ticks,          \* ticks[p]: what each tick under way has still to run
  link,           \* WebRTC connections that are up, as pairs of peers
  told,           \* told[p]: peers of which p last heard peer:connected
  links,
  elected,        \* history: did leader:elected reach the listener of start()
  discounted      \* history: peers p was told of when it had no scheduler, or
                  \* timed out since

mesh     == <<alive, link, told, links>>
election == <<activePeers, currentLeader, heartbeatTimer, timeoutTimer, running, elected>>
runner   == <<tasks, ticks>>
vars     == <<status, mesh, election, runner, discounted>>

-----------------------------------------------------------------------------
Highest(S) == CHOOSE p \in S : \A q \in S : q <= p

Init ==
  /\ status = [p \in Peers |-> "none"]
  /\ alive = [p \in Peers |-> TRUE]
  /\ activePeers = [p \in Peers |-> {p}]
  /\ currentLeader = [p \in Peers |-> Nobody]
  /\ heartbeatTimer = [p \in Peers |-> FALSE]
  /\ timeoutTimer = [p \in Peers |-> FALSE]
  /\ running = [p \in Peers |-> FALSE]
  /\ tasks = [p \in Peers |-> [t \in {} |-> FALSE]]
  /\ ticks = [p \in Peers |-> {}]
  /\ link = {} /\ links = 0
  /\ told = [p \in Peers |-> {}]
  /\ elected = [p \in Peers |-> FALSE]
  /\ discounted = [p \in Peers |-> {}]

(* The listeners of start() hear the events; dispose() does not remove     *)
(* them, nor those on the network.                                         *)
Listening(p) == status[p] \in {"started", "disposed"}

(* Mutant: that another is elected is noted, and nothing else done.        *)
ElectLeaderQuietly(p, active, armed) ==
  LET newLeader == IF active = {} THEN Nobody ELSE Highest(active)
      previous == currentLeader[p]
  IN  /\ activePeers' = [activePeers EXCEPT ![p] = active]
      /\ currentLeader' = [currentLeader EXCEPT ![p] = newLeader]
      /\ \/ /\ newLeader = previous
            /\ timeoutTimer' = [timeoutTimer EXCEPT ![p] = armed]
            /\ UNCHANGED <<heartbeatTimer, running, elected>>
         \/ /\ newLeader # previous /\ newLeader = p
            /\ heartbeatTimer' = [heartbeatTimer EXCEPT ![p] = TRUE]
            /\ timeoutTimer' = [timeoutTimer EXCEPT ![p] = armed]
            /\ running' = [running EXCEPT ![p] = @ \/ Listening(p)]
            /\ elected' = [elected EXCEPT ![p] = Listening(p)]
         \/ /\ newLeader # previous /\ newLeader # p
            /\ timeoutTimer' = [timeoutTimer EXCEPT ![p] = armed]
            /\ UNCHANGED <<heartbeatTimer, running, elected>>

(* electLeader over active, with armed saying whether the timeout is armed *)
(* before it.  The heartbeat of a leader that loses its place goes on, and *)
(* the timeout of a follower that becomes leader stays armed.              *)
ElectLeader(p, active, armed) ==
  LET newLeader == IF active = {} THEN Nobody ELSE Highest(active)
      previous == currentLeader[p]
  IN  /\ activePeers' = [activePeers EXCEPT ![p] = active]
      /\ currentLeader' = [currentLeader EXCEPT ![p] = newLeader]
      /\ \/ /\ newLeader = previous
            /\ timeoutTimer' = [timeoutTimer EXCEPT ![p] = armed]
            /\ UNCHANGED <<heartbeatTimer, running, elected>>
         \/ /\ newLeader # previous /\ newLeader = p
            /\ heartbeatTimer' = [heartbeatTimer EXCEPT ![p] = TRUE]
            /\ timeoutTimer' = [timeoutTimer EXCEPT ![p] = armed]
            /\ running' = [running EXCEPT ![p] = @ \/ Listening(p)]
            /\ elected' = [elected EXCEPT ![p] = Listening(p)]
         \/ /\ newLeader # previous /\ newLeader # p
            /\ timeoutTimer' = [timeoutTimer EXCEPT ![p] = TRUE]
            /\ running' = [running EXCEPT ![p] = @ /\ ~(previous = p /\ Listening(p))]
            /\ elected' = [elected EXCEPT ![p] = FALSE]
            /\ UNCHANGED heartbeatTimer

-----------------------------------------------------------------------------
(* new Scheduler: peers that are connected already are not asked for.      *)
Construct(p) ==
  /\ alive[p] /\ status[p] = "none"
  /\ status' = [status EXCEPT ![p] = "built"]
  /\ UNCHANGED <<mesh, election, runner, discounted>>

(* start(): the election is held before its listeners are registered.      *)
Start(p) ==
  /\ alive[p] /\ status[p] = "built"
  /\ ElectLeader(p, activePeers[p], timeoutTimer[p])
  /\ status' = [status EXCEPT ![p] = "started"]
  /\ UNCHANGED <<mesh, runner, discounted>>

Dispose(p) ==
  /\ alive[p] /\ status[p] = "started"
  /\ status' = [status EXCEPT ![p] = "disposed"]
  /\ running' = [running EXCEPT ![p] = FALSE]
  /\ elected' = [elected EXCEPT ![p] = FALSE]
  /\ heartbeatTimer' = [heartbeatTimer EXCEPT ![p] = FALSE]
  /\ timeoutTimer' = [timeoutTimer EXCEPT ![p] = FALSE]
  /\ UNCHANGED <<activePeers, currentLeader, mesh, runner, discounted>>

(* Mutant: a peer that joins is counted, but no election held.             *)
OnPeerJoinNoElection(p, q) ==
  /\ activePeers' = [activePeers EXCEPT ![p] = @ \union {q}]
  /\ UNCHANGED <<currentLeader, heartbeatTimer, timeoutTimer, running, elected>>

OnPeerJoin(p, q) == ElectLeader(p, activePeers[p] \union {q}, timeoutTimer[p])

OnPeerLeave(p, q) == ElectLeader(p, activePeers[p] \ {q}, timeoutTimer[p])

(* NetworkManager's peer:connected and peer:disconnected, at either end.   *)
PeerConnected(p, q) ==
  /\ alive[p] /\ {p, q} \in link /\ q \notin told[p]
  /\ told' = [told EXCEPT ![p] = @ \union {q}]
  /\ IF status[p] = "none"
     THEN UNCHANGED election /\ discounted' = [discounted EXCEPT ![p] = @ \union {q}]
     ELSE OnPeerJoin(p, q) /\ discounted' = [discounted EXCEPT ![p] = @ \ {q}]
  /\ UNCHANGED <<status, alive, link, links, runner>>

PeerDisconnected(p, q) ==
  /\ alive[p] /\ {p, q} \notin link /\ q \in told[p]
  /\ told' = [told EXCEPT ![p] = @ \ {q}]
  /\ IF status[p] = "none" THEN UNCHANGED election ELSE OnPeerLeave(p, q)
  /\ UNCHANGED <<status, alive, link, links, runner, discounted>>

(* A heartbeat of p reaches q: of whomever, it arms q's timeout again.     *)
Heartbeats(p, q) ==
  alive[p] /\ heartbeatTimer[p] /\ q \in told[p] /\ {p, q} \in link

Heartbeat(p, q) ==
  /\ Heartbeats(p, q) /\ alive[q] /\ status[q] # "none"
  /\ timeoutTimer' = [timeoutTimer EXCEPT ![q] = TRUE]
  /\ UNCHANGED <<status, mesh, activePeers, currentLeader, heartbeatTimer, running,
                 elected, runner, discounted>>

(* Mutant: the timeout counts the leader out and leaves it leader.         *)
TimeoutFiresNoElection(p) ==
  /\ alive[p] /\ timeoutTimer[p]
  /\ timeoutTimer' = [timeoutTimer EXCEPT ![p] = FALSE]
  /\ activePeers' = [activePeers EXCEPT ![p] = @ \ {currentLeader[p]}]
  /\ discounted' = [discounted EXCEPT ![p] = @ \union ({currentLeader[p]} \ {Nobody})]
  /\ UNCHANGED <<status, mesh, currentLeader, heartbeatTimer, running, elected, runner>>

(* The leader was silent; a leader may time itself out, too.               *)
TimeoutFires(p) ==
  /\ alive[p] /\ timeoutTimer[p]
  /\ ElectLeader(p, activePeers[p] \ {currentLeader[p]}, FALSE)
  /\ discounted' = [discounted EXCEPT ![p] = @ \union ({currentLeader[p]} \ {Nobody})]
  /\ UNCHANGED <<status, mesh, runner>>

-----------------------------------------------------------------------------
(* Tasks.                                                                  *)

AddTask(p, t) ==
  /\ alive[p] /\ status[p] # "none"
  /\ tasks' = [tasks EXCEPT ![p] =
       [u \in DOMAIN @ \union {t} |-> IF u = t THEN TRUE ELSE @[u]]]
  /\ UNCHANGED <<status, mesh, election, ticks, discounted>>

Without(f, t) == [u \in DOMAIN f \ {t} |-> f[u]]

RemoveTask(p, t) ==
  /\ alive[p] /\ t \in DOMAIN tasks[p]
  /\ tasks' = [tasks EXCEPT ![p] = Without(@, t)]
  /\ UNCHANGED <<status, mesh, election, ticks, discounted>>

(* The time of its cron expression has passed since the task last ran.     *)
TaskDue(p, t) ==
  /\ t \in DOMAIN tasks[p] /\ ~tasks[p][t]
  /\ tasks' = [tasks EXCEPT ![p][t] = TRUE]
  /\ UNCHANGED <<status, mesh, election, ticks, discounted>>

(* tick: what it runs is settled by the tasks as they are at its start.    *)
Tick(p) ==
  LET due == {t \in DOMAIN tasks[p] : tasks[p][t]}
  IN  /\ alive[p] /\ running[p] /\ due # {}
      /\ Cardinality(ticks[p]) < MaxTicks
      /\ \E id \in 1 .. MaxTicks :
           /\ \A k \in ticks[p] : k.id # id
           /\ ticks' = [ticks EXCEPT ![p] = @ \union {[id |-> id, todo |-> due]}]
      /\ UNCHANGED <<status, mesh, election, tasks, discounted>>

(* Mutant: a tick that has run everything is not over.                     *)
HandlerEndsTickStays(p, k, t) ==
  /\ alive[p] /\ k \in ticks[p] /\ t \in k.todo
  /\ ticks' = [ticks EXCEPT ![p] = (@ \ {k}) \union {[k EXCEPT !.todo = @ \ {t}]}]
  /\ \/ tasks' = [tasks EXCEPT ![p] = [u \in DOMAIN @ |-> @[u] /\ u # t]]
     \/ UNCHANGED tasks
  /\ UNCHANGED <<status, mesh, election, discounted>>

(* The handler of task t ends, well or not; the tick goes on, even if the  *)
(* runner was stopped meanwhile.                                           *)
HandlerEnds(p, k, t) ==
  /\ alive[p] /\ k \in ticks[p] /\ t \in k.todo
  /\ ticks' = [ticks EXCEPT ![p] = (@ \ {k}) \union
       (IF k.todo = {t} THEN {} ELSE {[k EXCEPT !.todo = @ \ {t}]})]
  /\ \/ tasks' = [tasks EXCEPT ![p] = [u \in DOMAIN @ |-> @[u] /\ u # t]]
     \/ UNCHANGED tasks
  /\ UNCHANGED <<status, mesh, election, discounted>>

-----------------------------------------------------------------------------
(* The mesh and the tabs.                                                  *)

LinkUp(p, q) ==
  /\ p # q /\ alive[p] /\ alive[q]
  /\ {p, q} \notin link /\ q \notin told[p] /\ p \notin told[q]
  /\ links < MaxLinks
  /\ link' = link \union {{p, q}} /\ links' = links + 1
  /\ UNCHANGED <<status, alive, told, election, runner, discounted>>

LinkDown(pair) ==
  /\ pair \in link
  /\ link' = link \ {pair}
  /\ UNCHANGED <<status, alive, told, links, election, runner, discounted>>

(* A tab dies without a word; its connections last until ICE gives up.     *)
Crash(p) ==
  /\ alive[p] /\ Cardinality({q \in Peers : ~alive[q]}) < MaxCrashes
  /\ alive' = [alive EXCEPT ![p] = FALSE]
  /\ UNCHANGED <<status, link, told, links, election, runner, discounted>>

Next ==
  \/ \E p \in Peers :
       \/ Construct(p) \/ Start(p) \/ Dispose(p) \/ TimeoutFires(p) \/ Tick(p) \/ Crash(p)
       \/ \E q \in Peers : PeerConnected(p, q) \/ PeerDisconnected(p, q)
                           \/ Heartbeat(p, q) \/ LinkUp(p, q)
       \/ \E t \in Tasks : AddTask(p, t) \/ RemoveTask(p, t) \/ TaskDue(p, t)
       \/ \E k \in ticks[p] : \E t \in k.todo : HandlerEnds(p, k, t)
  \/ \E pair \in link : LinkDown(pair)

Spec == Init /\ [][Next]_vars

(* Nobody's heartbeat reaches p: then its timeout is not put off.          *)
Silent(p) == \A q \in Peers : ~Heartbeats(q, p)

(* Events of the network are delivered, and a timeout fires in silence.    *)
Fairness ==
  \A p \in Peers :
    /\ WF_vars(Silent(p) /\ TimeoutFires(p))
    /\ \A q \in Peers : WF_vars(PeerConnected(p, q)) /\ WF_vars(PeerDisconnected(p, q))

FairSpec == Spec /\ Fairness

-----------------------------------------------------------------------------
(* Every variable has its type, and a tick under way has a task to run.    *)
TypeOK ==
  /\ status \in [Peers -> {"none", "built", "started", "disposed"}]
  /\ alive \in [Peers -> BOOLEAN]
  /\ activePeers \in [Peers -> SUBSET Peers]
  /\ currentLeader \in [Peers -> Peers \union {Nobody}]
  /\ heartbeatTimer \in [Peers -> BOOLEAN] /\ timeoutTimer \in [Peers -> BOOLEAN]
  /\ running \in [Peers -> BOOLEAN] /\ elected \in [Peers -> BOOLEAN]
  /\ tasks \in [Peers -> UNION {[S -> BOOLEAN] : S \in SUBSET Tasks}]
  /\ ticks \in [Peers -> SUBSET [id: 1 .. MaxTicks, todo: (SUBSET Tasks) \ {{}}]]
  /\ link \subseteq SUBSET Peers /\ links \in Nat
  /\ told \in [Peers -> SUBSET Peers] /\ discounted \in [Peers -> SUBSET Peers]

Leads(p) == currentLeader[p] = p

(* Of two connected peers that both lead, one has timed the other out, or  *)
(* was connected to it before it had a scheduler.                          *)
OneLeader ==
  \A p, q \in Peers :
    p # q /\ Leads(p) /\ Leads(q) /\ q \in told[p] /\ p \in told[q] =>
      q \in discounted[p] \/ p \in discounted[q]

(* Whoever follows another has its timeout armed, so that the silence of   *)
(* the leader is noticed.                                                  *)
FollowersWatch ==
  \A p \in Peers : status[p] # "disposed" /\ currentLeader[p] \notin {p, Nobody} =>
    timeoutTimer[p]

(* While it is not disposed, a scheduler runs tasks exactly if it leads    *)
(* and was elected after start() had registered its listener.              *)
RunnersLead ==
  \A p \in Peers : status[p] # "disposed" => (running[p] <=> Leads(p) /\ elected[p])

(* A comment of start() says it, in Hindi: "Leader bana toh runner shuru   *)
(* karo", having become leader, start the runner (src/index.ts:31).        *)
LeadersRun == \A p \in Peers : status[p] = "started" /\ Leads(p) => running[p]

(* A peer does not go on following one that has died or gone, unless the   *)
(* heartbeats of another make it wait.                                     *)
Gone(p, q) == ~alive[q] \/ {p, q} \notin link
GoneLeadersReplaced ==
  \A p, q \in Peers : p # q =>
    ((currentLeader[p] = q /\ Gone(p, q)) ~>
       (currentLeader[p] # q \/ ~Gone(p, q) \/ ~alive[p] \/ status[p] = "disposed"
        \/ ~Silent(p)))

=============================================================================
