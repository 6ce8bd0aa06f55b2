---------------------------- MODULE SharedWorker ----------------------------
(***************************************************************************)
(* One app shared by tabs through a SharedWorker (packages/react/src): each*)
(* tab has a bridge (shared-worker-app.ts) whose port leads to the worker  *)
(* (shared-worker.ts), which makes the app for the first tab and disposes  *)
(* of it with the last.  Requests run as calls on LocalStore, next to those*)
(* of pages that opened the database themselves.                           *)
(*                                                                         *)
(* A context is named by the tab whose init made it.  A tab has one request*)
(* open at a time and subscribes once.                                     *)
(***************************************************************************)
EXTENDS LocalStore, Sequences

CONSTANTS
  Tabs,
  Pages,  \* callers with an app of their own
  Nobody

ASSUME WorkerAssumption ==
  /\ Callers = Tabs \union Pages
  /\ Tabs \intersect Pages = {}
  /\ Nobody \notin Tabs

VARIABLES
  tab,            \* the bridge: "new", "waiting", "ready", "disposed" or "lost"
  subscribed,     \* its subscription: "no", "yes" or "over"
  requested,      \* is a requestResolver there
  toWorker, toTab,  \* messages in the two directions of its port
  context,        \* contexts.get(appId), or Nobody
  ports,          \* of each context
  subscriptions,  \* of each context; a subscription's id is its tab
  portSubscriptions,
  disposals,      \* handleDispose calls that await app.dispose()
  closing,        \* contexts whose app.dispose() has been called
  home            \* history: the context that t's init joined while it was open

bridge == <<tab, subscribed, requested>>
worker == <<context, ports, subscriptions, portSubscriptions, disposals, closing, home>>
vars   == <<bridge, toWorker, toTab, worker, store>>

-----------------------------------------------------------------------------
Request == [kind: {"request"}, call: CollectionCalls]
ToWorker == Request \union
  [kind: {"init", "subscribe", "dispose"}] \union
  [kind: {"unsubscribe"}, id: Tabs \union {Nobody}]  \* Nobody: an id nobody subscribed with

Init ==
  /\ StoreInit
  /\ tab = [t \in Tabs |-> "new"]
  /\ subscribed = [t \in Tabs |-> "no"]
  /\ requested = [t \in Tabs |-> FALSE]
  /\ toWorker = [t \in Tabs |-> <<>>] /\ toTab = [t \in Tabs |-> <<>>]
  /\ context = Nobody
  /\ ports = [c \in Tabs |-> {}]
  /\ subscriptions = [c \in Tabs |-> {}]
  /\ portSubscriptions = [t \in Tabs |-> {}]
  /\ disposals = {} /\ closing = {}
  /\ home = [t \in Tabs |-> Nobody]

-----------------------------------------------------------------------------
(* The tab's bridge.                                                       *)

Post(t, m) == toWorker' = [toWorker EXCEPT ![t] = Append(@, m)]

Construct(t) ==
  /\ tab[t] = "new"
  /\ tab' = [tab EXCEPT ![t] = "waiting"]
  /\ Post(t, [kind |-> "init"])
  /\ UNCHANGED <<subscribed, requested, toTab, worker, store>>

(* init did not answer in 5 s, which rejects ready for good; or the page is*)
(* closed.  The worker hears of neither.                                   *)
Lose(t) ==
  /\ tab[t] \in {"waiting", "ready"}
  /\ tab' = [tab EXCEPT ![t] = "lost"]
  /\ toTab' = [toTab EXCEPT ![t] = <<>>]
  /\ UNCHANGED <<subscribed, requested, toWorker, worker, store>>

MakeRequest(t) ==
  /\ tab[t] = "ready" /\ ~requested[t] /\ calls < MaxCalls
  /\ requested' = [requested EXCEPT ![t] = TRUE]
  /\ calls' = calls + 1
  /\ \E c \in CollectionCalls : Post(t, [kind |-> "request", call |-> c])
  /\ UNCHANGED <<tab, subscribed, toTab, worker, docs, used, graph, call, backup>>

Subscribe(t) ==
  /\ tab[t] = "ready" /\ subscribed[t] = "no" /\ calls < MaxCalls
  /\ calls' = calls + 1
  /\ subscribed' = [subscribed EXCEPT ![t] = "yes"]
  /\ Post(t, [kind |-> "subscribe"])
  /\ UNCHANGED <<tab, requested, toTab, worker, docs, used, graph, call, backup>>

(* The message has a new request id for the subscription's.                *)
Unsubscribe(t) ==
  /\ tab[t] = "ready" /\ subscribed[t] = "yes"
  /\ subscribed' = [subscribed EXCEPT ![t] = "over"]
  /\ Post(t, [kind |-> "unsubscribe", id |-> Nobody])
  /\ UNCHANGED <<tab, requested, toTab, worker, store>>

(* dispose() closes the port behind its message; an open request stays so. *)
Dispose(t) ==
  /\ tab[t] = "ready"
  /\ tab' = [tab EXCEPT ![t] = "disposed"]
  /\ toTab' = [toTab EXCEPT ![t] = <<>>]
  /\ Post(t, [kind |-> "dispose"])
  /\ UNCHANGED <<subscribed, requested, worker, store>>

HandleMessage(t) ==
  /\ toTab[t] # <<>>
  /\ toTab' = [toTab EXCEPT ![t] = Tail(@)]
  /\ IF Head(toTab[t]) = "init"
     THEN tab' = [tab EXCEPT ![t] = "ready"] /\ UNCHANGED requested
     ELSE requested' = [requested EXCEPT ![t] = FALSE] /\ UNCHANGED tab
  /\ UNCHANGED <<subscribed, toWorker, worker, store>>

-----------------------------------------------------------------------------
(* The worker.                                                             *)

(* A port that is closed swallows what is posted.                          *)
Answer(t, m) == toTab' = IF tab[t] \in {"waiting", "ready"}
                         THEN [toTab EXCEPT ![t] = Append(@, m)] ELSE toTab

Takes(t, kind) ==
  /\ toWorker[t] # <<>> /\ Head(toWorker[t]).kind = kind
  /\ toWorker' = [toWorker EXCEPT ![t] = Tail(@)]
  /\ UNCHANGED bridge

(* ensureContext: the context there is, or a new one.                      *)
EnsureContext(t) == IF context # Nobody THEN context ELSE t

OnInit(t) ==
  LET c == EnsureContext(t)
  IN  /\ Takes(t, "init")
      /\ context' = c
      /\ ports' = [ports EXCEPT ![c] = @ \union {t}]
      /\ home' = [home EXCEPT ![t] = IF c \in closing THEN Nobody ELSE c]
      /\ Answer(t, "init")
      /\ UNCHANGED <<subscriptions, portSubscriptions, disposals, closing, store>>

(* Mutant: an error that is no answer to anybody.                          *)
RefuseSilently(t) ==
  /\ Takes(t, "request") /\ context = Nobody
  /\ UNCHANGED <<toTab, worker, store>>

(* ensureContextForApp throws: "has not been initialized in this worker".  *)
Refuse(t) ==
  /\ Takes(t, "request") /\ context = Nobody
  /\ Answer(t, "response")
  /\ UNCHANGED <<worker, store>>

OnRequest(t) ==
  /\ Takes(t, "request") /\ context # Nobody
  /\ call' = [call EXCEPT ![t] = Head(toWorker[t]).call]
  /\ UNCHANGED <<toTab, worker, docs, used, graph, calls, backup>>

RequestEnds(t) ==
  /\ call[t] = Settled
  /\ call' = [call EXCEPT ![t] = Idle]
  /\ Answer(t, "response")
  /\ UNCHANGED <<bridge, toWorker, worker, docs, used, graph, calls, backup>>

(* Without a context the subscription is refused, and nobody is told.      *)
OnSubscribe(t) ==
  /\ Takes(t, "subscribe")
  /\ IF context = Nobody THEN UNCHANGED <<subscriptions, portSubscriptions>>
     ELSE /\ subscriptions' = [subscriptions EXCEPT ![context] = @ \union {t}]
          /\ portSubscriptions' = [portSubscriptions EXCEPT ![t] = @ \union {t}]
  /\ UNCHANGED <<toTab, context, ports, disposals, closing, home, store>>

OnUnsubscribe(t) ==
  LET id == Head(toWorker[t]).id
  IN  /\ Takes(t, "unsubscribe")
      /\ IF context = Nobody THEN UNCHANGED <<subscriptions, portSubscriptions>>
         ELSE /\ subscriptions' = [subscriptions EXCEPT ![context] = @ \ {id}]
              /\ portSubscriptions' = [portSubscriptions EXCEPT ![t] = @ \ {id}]
      /\ UNCHANGED <<toTab, context, ports, disposals, closing, home, store>>

(* Mutant: the port is forgotten before its subscriptions are looked up.   *)
CleanupNothing(t) == UNCHANGED <<subscriptions, portSubscriptions>>

CleanupPortSubscriptions(t) ==
  /\ subscriptions' = [subscriptions EXCEPT ![context] = @ \ portSubscriptions[t]]
  /\ portSubscriptions' = [portSubscriptions EXCEPT ![t] = {}]

(* Mutant: every dispose is taken for the last.                            *)
NoTabLeftSaid(t) == TRUE

NoTabLeft(t) == ports[context] \ {t} = {}

(* A tab may come while app.dispose() is awaited: it joins the context that*)
(* is about to go, and the last to leave it disposes once more.            *)
OnDispose(t) ==
  /\ Takes(t, "dispose")
  /\ IF context = Nobody THEN UNCHANGED <<ports, subscriptions, portSubscriptions, disposals, closing>>
     ELSE /\ ports' = [ports EXCEPT ![context] = @ \ {t}]
          /\ CleanupPortSubscriptions(t)
          /\ IF NoTabLeft(t)
             THEN /\ disposals' = disposals \union {[port |-> t, of |-> context]}
                  /\ closing' = closing \union {context}
             ELSE UNCHANGED <<disposals, closing>>
  /\ UNCHANGED <<toTab, context, home, store>>

(* Whatever context the app has by now is removed.                         *)
DisposeEnds(d) ==
  /\ d \in disposals
  /\ disposals' = disposals \ {d}
  /\ context' = Nobody
  /\ UNCHANGED <<bridge, toWorker, toTab, ports, subscriptions, portSubscriptions, closing, home, store>>

-----------------------------------------------------------------------------
TabNext(t) ==
  \/ Construct(t) \/ Lose(t) \/ MakeRequest(t) \/ Subscribe(t) \/ Unsubscribe(t)
  \/ Dispose(t) \/ HandleMessage(t)

WorkerTakes(t) ==
  OnInit(t) \/ Refuse(t) \/ OnRequest(t) \/ OnSubscribe(t) \/ OnUnsubscribe(t) \/ OnDispose(t)

PageNext(p) ==
  /\ \E c \in CollectionCalls \union GraphRequests : Start(p, c)
  /\ UNCHANGED <<docs, used, graph, backup>>

untouched == <<bridge, toWorker, toTab, worker>>

Next ==
  \/ \E t \in Tabs : TabNext(t) \/ WorkerTakes(t) \/ RequestEnds(t)
  \/ \E d \in disposals : DisposeEnds(d)
  \/ (\E c \in Callers : CallSteps(c)) /\ UNCHANGED untouched
  \/ (\E p \in Pages : PageNext(p)) /\ UNCHANGED untouched
  \/ (Pages # {} /\ BackupNext) /\ UNCHANGED untouched

Spec == Init /\ [][Next]_vars

(* Messages arrive and are handled, requests of the database are answered. *)
Progress(t) ==
  \/ HandleMessage(t) \/ WorkerTakes(t) \/ RequestEnds(t)
  \/ CallSteps(t) /\ UNCHANGED untouched

Fairness == \A t \in Tabs : WF_vars(Progress(t))

FairSpec == Spec /\ Fairness

-----------------------------------------------------------------------------
Disposal == [port: Tabs, of: Tabs]

TypeOK ==
  /\ StoreTypeOK
  /\ tab \in [Tabs -> {"new", "waiting", "ready", "disposed", "lost"}]
  /\ subscribed \in [Tabs -> {"no", "yes", "over"}]
  /\ requested \in [Tabs -> BOOLEAN]
  /\ toWorker \in [Tabs -> Seq(ToWorker)]
  /\ toTab \in [Tabs -> Seq({"init", "response"})]
  /\ context \in Tabs \union {Nobody}
  /\ ports \in [Tabs -> SUBSET Tabs]
  /\ subscriptions \in [Tabs -> SUBSET Tabs]
  /\ portSubscriptions \in [Tabs -> SUBSET Tabs]
  /\ disposals \subseteq Disposal /\ closing \subseteq Tabs
  /\ home \in [Tabs -> Tabs \union {Nobody}]

(* No subscription outlives its tab: once the worker has handled a tab's   *)
(* dispose, the context there is has none of its subscriptions, though an  *)
(* unsubscribe never takes one away.                                       *)
SubscriptionsEndWithTab ==
  context # Nobody => \A t \in subscriptions[context] : tab[t] # "disposed" \/ toWorker[t] # <<>>

(* A tab that joined an app while it was open keeps it: nobody disposes of *)
(* the app before that tab does.                                           *)
KeepsItsApp ==
  \A t \in Tabs : tab[t] \in {"waiting", "ready"} /\ home[t] # Nobody => home[t] \notin closing

(* No request stays open for ever: it is answered, if only by an error,    *)
(* unless its tab goes away.                                               *)
RequestsSettle == \A t \in Tabs : []<>(~requested[t] \/ tab[t] # "ready")
=============================================================================
