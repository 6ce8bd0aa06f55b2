---------------------------- MODULE WorkerProofs ----------------------------
(***************************************************************************)
(* Theorems about SharedWorker and the LocalStore its calls run on, for    *)
(* all tabs, pages, fields, nodes and any number of calls.                 *)
(***************************************************************************)
EXTENDS SharedWorker, FiniteSetTheorems, SequenceTheorems, TLAPS

-----------------------------------------------------------------------------
(* The messages of a kind in a queue, by their places.                     *)

Sent(t, kind) == {i \in 1 .. Len(toWorker[t]) : toWorker[t][i].kind = kind}
Answers(t)    == {i \in 1 .. Len(toTab[t]) : toTab[t][i] = "response"}

LEMMA Posted ==
  ASSUME TypeOK, NEW t \in Tabs, NEW m \in ToWorker, Post(t, m)
  PROVE  /\ toWorker' \in [Tabs -> Seq(ToWorker)]
         /\ \A u \in Tabs \ {t} : toWorker'[u] = toWorker[u]
         /\ Len(toWorker[t]) \in Nat /\ Len(toWorker'[t]) = Len(toWorker[t]) + 1
         /\ \A kind : Sent(t, kind)' = Sent(t, kind) \union
                        (IF m.kind = kind THEN {Len(toWorker'[t])} ELSE {})
<1> DEFINE s == toWorker[t]
<1>1. s \in Seq(ToWorker) /\ toWorker'[t] = Append(s, m) /\ Len(s) \in Nat
  BY DEF TypeOK, Post
<1>2. /\ Append(s, m) \in Seq(ToWorker) /\ Len(Append(s, m)) = Len(s) + 1
      /\ \A i \in 1 .. Len(s) : Append(s, m)[i] = s[i]
      /\ Append(s, m)[Len(s) + 1] = m
  BY <1>1
<1>3. /\ toWorker' \in [Tabs -> Seq(ToWorker)]
      /\ \A u \in Tabs \ {t} : toWorker'[u] = toWorker[u]
  BY <1>1, <1>2 DEF TypeOK, Post
<1>4. ASSUME NEW kind
      PROVE  Sent(t, kind)' = Sent(t, kind) \union
               (IF m.kind = kind THEN {Len(toWorker'[t])} ELSE {})
  BY <1>1, <1>2 DEF Sent
<1>5. QED
  BY <1>1, <1>2, <1>3, <1>4

LEMMA Taken ==
  ASSUME TypeOK, NEW t \in Tabs, NEW k, Takes(t, k)
  PROVE  /\ toWorker' \in [Tabs -> Seq(ToWorker)]
         /\ \A u \in Tabs \ {t} : toWorker'[u] = toWorker[u]
         /\ Len(toWorker[t]) \in Nat /\ Len(toWorker'[t]) = Len(toWorker[t]) - 1
         /\ 1 \in Sent(t, k)
         /\ Head(toWorker[t]) \in ToWorker /\ Head(toWorker[t]).kind = k
         /\ \A kind : Sent(t, kind)' =
              {i \in 1 .. Len(toWorker[t]) - 1 : i + 1 \in Sent(t, kind)}
<1> DEFINE s == toWorker[t]
<1>1. s \in Seq(ToWorker) /\ s # <<>> /\ toWorker'[t] = Tail(s) /\ Head(s).kind = k
  BY DEF TypeOK, Takes
<1>2. Len(s) \in Nat /\ Len(s) > 0 /\ Head(s) = s[1] /\ Head(s) \in ToWorker
  BY <1>1
<1>3. /\ Tail(s) \in Seq(ToWorker) /\ Len(Tail(s)) = Len(s) - 1
      /\ \A i \in 1 .. Len(s) - 1 : Tail(s)[i] = s[i + 1]
  BY <1>1, <1>2, HeadTailProperties
<1>4. /\ toWorker' \in [Tabs -> Seq(ToWorker)]
      /\ \A u \in Tabs \ {t} : toWorker'[u] = toWorker[u]
  BY <1>1, <1>3 DEF TypeOK, Takes
<1>5. 1 \in Sent(t, k)
  BY <1>1, <1>2 DEF Sent
<1>6. ASSUME NEW kind
      PROVE  Sent(t, kind)' = {i \in 1 .. Len(s) - 1 : i + 1 \in Sent(t, kind)}
  BY <1>1, <1>2, <1>3 DEF Sent
<1>7. QED
  BY <1>1, <1>2, <1>3, <1>4, <1>5, <1>6

(* An answer comes last in its queue, if it comes at all.                  *)
LEMMA Answered ==
  ASSUME TypeOK, NEW t \in Tabs, NEW m \in {"init", "response"}, Answer(t, m)
  PROVE  /\ toTab' \in [Tabs -> Seq({"init", "response"})]
         /\ \A u \in Tabs \ {t} : toTab'[u] = toTab[u]
         /\ m = "init" => Answers(t)' = Answers(t)
         /\ Answers(t) = {} => \A i, j \in Answers(t)' : i = j
<1> DEFINE s == toTab[t]
<1>1. s \in Seq({"init", "response"}) /\ Len(s) \in Nat
  BY DEF TypeOK
<1>2. CASE toTab' = toTab
  BY <1>2 DEF TypeOK, Answers
<1>3. CASE toTab' = [toTab EXCEPT ![t] = Append(@, m)]
  <2>1. toTab'[t] = Append(s, m)
    BY <1>3 DEF TypeOK
  <2>2. /\ Append(s, m) \in Seq({"init", "response"}) /\ Len(Append(s, m)) = Len(s) + 1
        /\ \A i \in 1 .. Len(s) : Append(s, m)[i] = s[i]
        /\ Append(s, m)[Len(s) + 1] = m
    BY <1>1
  <2>3. Answers(t)' = Answers(t) \union (IF m = "response" THEN {Len(s) + 1} ELSE {})
    BY <1>1, <2>1, <2>2 DEF Answers
  <2>4. QED
    BY <1>3, <2>2, <2>3 DEF TypeOK
<1>4. QED
  BY <1>2, <1>3 DEF Answer

LEMMA Handled ==
  ASSUME TypeOK, NEW t \in Tabs, HandleMessage(t)
  PROVE  /\ toTab' \in [Tabs -> Seq({"init", "response"})]
         /\ \A u \in Tabs \ {t} : toTab'[u] = toTab[u]
         /\ Answers(t)' = {i \in 1 .. Len(toTab[t]) - 1 : i + 1 \in Answers(t)}
         /\ Head(toTab[t]) # "init" => 1 \in Answers(t)
<1> DEFINE s == toTab[t]
<1>1. s \in Seq({"init", "response"}) /\ s # <<>> /\ toTab'[t] = Tail(s)
  BY DEF TypeOK, HandleMessage
<1>2. Len(s) \in Nat /\ Len(s) > 0 /\ Head(s) = s[1] /\ Head(s) \in {"init", "response"}
  BY <1>1
<1>3. /\ Tail(s) \in Seq({"init", "response"}) /\ Len(Tail(s)) = Len(s) - 1
      /\ \A i \in 1 .. Len(s) - 1 : Tail(s)[i] = s[i + 1]
  BY <1>1, <1>2, HeadTailProperties
<1>4. /\ toTab' \in [Tabs -> Seq({"init", "response"})]
      /\ \A u \in Tabs \ {t} : toTab'[u] = toTab[u]
  BY <1>1, <1>3 DEF TypeOK, HandleMessage
<1>5. Answers(t)' = {i \in 1 .. Len(s) - 1 : i + 1 \in Answers(t)}
  BY <1>1, <1>2, <1>3 DEF Answers
<1>6. Head(s) # "init" => 1 \in Answers(t)
  BY <1>2 DEF Answers
<1>7. QED
  BY <1>4, <1>5, <1>6

LEMMA Closed ==
  ASSUME TypeOK, NEW t \in Tabs, toTab' = [toTab EXCEPT ![t] = <<>>]
  PROVE  /\ toTab' \in [Tabs -> Seq({"init", "response"})]
         /\ \A u \in Tabs \ {t} : toTab'[u] = toTab[u]
         /\ Answers(t)' = {}
<1>1. <<>> \in Seq({"init", "response"}) /\ Len(<<>>) = 0
  BY EmptySeq
<1>2. toTab'[t] = <<>>
  BY DEF TypeOK
<1>3. QED
  BY <1>1, <1>2 DEF TypeOK, Answers

-----------------------------------------------------------------------------
(* What the requests of the database carry.                                *)

LEMMA DocsAre ==
  /\ \A f \in Docs : /\ DOMAIN f \subseteq Ids
                     /\ f = [d \in DOMAIN f |-> f[d]]
                     /\ \A d \in DOMAIN f : f[d] \subseteq Fields
  /\ \A S \in SUBSET Ids : \A f \in [S -> SUBSET Fields] : f \in Docs
BY DEF Docs

LEMMA RestrictedDocs ==
  ASSUME NEW f \in Docs, NEW S \in SUBSET DOMAIN f
  PROVE  Restrict(f, S) \in Docs /\ DOMAIN Restrict(f, S) = S
<1>1. S \subseteq Ids /\ \A d \in S : f[d] \subseteq Fields
  BY DocsAre
<1>2. Restrict(f, S) = [d \in S |-> f[d]]
  BY DEF Restrict
<1>3. [d \in S |-> f[d]] \in [S -> SUBSET Fields]
  BY <1>1
<1>4. QED
  BY <1>1, <1>2, <1>3, DocsAre

LEMMA WrittenDocs ==
  ASSUME docs \in Docs, NEW new \in Docs, Write(new)
  PROVE  docs' \in Docs /\ DOMAIN docs' = DOMAIN new \union DOMAIN docs
<1> DEFINE S == DOMAIN new \union DOMAIN docs
           written == [d \in S |-> IF d \in DOMAIN new THEN new[d] ELSE docs[d]]
<1>1. S \subseteq Ids
  BY DocsAre
<1>2. \A d \in S : (IF d \in DOMAIN new THEN new[d] ELSE docs[d]) \in SUBSET Fields
  BY DocsAre
<1>3. written \in [S -> SUBSET Fields]
  BY <1>2
<1>4. docs' = written
  BY DEF Write
<1>5. QED
  BY <1>1, <1>3, <1>4, DocsAre

LEMMA ErasedDocs ==
  ASSUME docs \in Docs, NEW ids, Erase(ids)
  PROVE  docs' \in Docs /\ DOMAIN docs' = DOMAIN docs \ ids
BY RestrictedDocs DEF Erase

(* What a call's record holds beside its op.                               *)
LEMMA RunningHas ==
  ASSUME NEW r \in Running
  PROVE  /\ r.op = "update" => r.filter \subseteq Fields /\ r.field \in Fields
         /\ r.op = "put" => r.field \in Fields /\ r.found \in Docs
         /\ r.op = "delete" => r.filter \subseteq Fields
         /\ r.op = "bulkDelete" => r.found \subseteq Ids
         /\ r.op = "addEdge" => r.from \in Nodes /\ r.to \in Nodes
         /\ r.op = "removeNode" => r.node \in Nodes
         /\ r.op = "cutEdges" => r.node \in Nodes /\ r.found \subseteq Edge
         /\ r.op = "dropNode" => r.node \in Nodes
<1> HIDE DEF Docs, Edge, Ids
<1>1. CASE r \in [op: {"none", "settled"}] \/ r \in [op: {"insert", "insertMany", "clear"}]
                \/ r \in [op: {"addNode"}]
  BY <1>1
<1>2. CASE r \in [op: {"delete"}, filter: SUBSET Fields]
  BY <1>2
<1>3. CASE r \in [op: {"update"}, filter: SUBSET Fields, field: Fields]
  BY <1>3
<1>4. CASE r \in [op: {"removeEdge"}, id: Ids] \/ r \in [op: {"removeNode"}, node: Nodes]
  BY <1>4
<1>5. CASE r \in [op: {"addEdge"}, from: Nodes, to: Nodes]
  BY <1>5
<1>6. CASE r \in [op: {"put"}, field: Fields, found: Docs]
  BY <1>6
<1>7. CASE r \in [op: {"bulkDelete"}, found: SUBSET Ids]
  BY <1>7
<1>8. CASE r \in [op: {"cutEdges"}, node: Nodes, found: SUBSET Edge]
  BY <1>8
<1>9. CASE r \in [op: {"dropNode"}, node: Nodes]
  BY <1>9
<1>10. QED
  BY <1>1, <1>2, <1>3, <1>4, <1>5, <1>6, <1>7, <1>8, <1>9
     DEF Running, CollectionCalls, GraphCalls

LEMMA RunningHolds ==
  /\ Idle \in Running /\ Settled \in Running
  /\ Idle.op = "none" /\ Settled.op = "settled"
  /\ CollectionCalls \subseteq Running /\ GraphCalls \subseteq Running
  /\ \A r \in CollectionCalls \union GraphCalls : r.op \notin {"none", "settled"}
  /\ \A f \in Fields : \A d \in Docs : [op |-> "put", field |-> f, found |-> d] \in Running
  /\ \A ids \in SUBSET Ids : [op |-> "bulkDelete", found |-> ids] \in Running
  /\ \A n \in Nodes : /\ \A es \in SUBSET Edge : [op |-> "cutEdges", node |-> n, found |-> es] \in Running
                      /\ [op |-> "dropNode", node |-> n] \in Running
<1> HIDE DEF Docs, Edge, Ids
<1>1. /\ Idle \in Running /\ Settled \in Running
      /\ Idle.op = "none" /\ Settled.op = "settled"
      /\ CollectionCalls \subseteq Running /\ GraphCalls \subseteq Running
  BY DEF Running, Idle, Settled
<1>2. \A r \in CollectionCalls \union GraphCalls : r.op \notin {"none", "settled"}
  BY DEF CollectionCalls, GraphCalls
<1>3. \A f \in Fields : \A d \in Docs : [op |-> "put", field |-> f, found |-> d] \in Running
  BY DEF Running
<1>4. \A ids \in SUBSET Ids : [op |-> "bulkDelete", found |-> ids] \in Running
  BY DEF Running
<1>5. \A n \in Nodes : /\ \A es \in SUBSET Edge : [op |-> "cutEdges", node |-> n, found |-> es] \in Running
                       /\ [op |-> "dropNode", node |-> n] \in Running
  BY DEF Running
<1>6. QED
  BY <1>1, <1>2, <1>3, <1>4, <1>5

LEMMA MessagesHold ==
  /\ [kind |-> "init"] \in ToWorker
  /\ [kind |-> "subscribe"] \in ToWorker
  /\ [kind |-> "dispose"] \in ToWorker
  /\ [kind |-> "unsubscribe", id |-> Nobody] \in ToWorker
  /\ \A c \in CollectionCalls : [kind |-> "request", call |-> c] \in ToWorker
  /\ \A m \in ToWorker : m.kind = "request" => m.call \in CollectionCalls
<1> HIDE DEF CollectionCalls
<1>1. /\ [kind |-> "init"] \in ToWorker
      /\ [kind |-> "subscribe"] \in ToWorker
      /\ [kind |-> "dispose"] \in ToWorker
      /\ [kind |-> "unsubscribe", id |-> Nobody] \in ToWorker
  BY DEF ToWorker
<1>2. \A c \in CollectionCalls : [kind |-> "request", call |-> c] \in ToWorker
  BY DEF ToWorker, Request
<1>3. \A m \in ToWorker : m.kind = "request" => m.call \in CollectionCalls
  BY DEF ToWorker, Request
<1>4. QED
  BY <1>1, <1>2, <1>3

-----------------------------------------------------------------------------
(* Ids never run out.  A call is open from the moment it is counted, and   *)
(* takes two ids at most before it ends.                                   *)

Runs(c) == call[c].op \notin {"none", "settled"}

Open == {c \in Callers : Runs(c) \/ (c \in Tabs /\ Sent(c, "request") # {})}

Given == used \intersect Ids

IdsLeft ==
  /\ IsFiniteSet(Open)
  /\ Cardinality(Given) + 2 * Cardinality(Open) <= 1 + 2 * calls

LEMMA GivenFinite ==
  ASSUME StoreAssumption, NEW S \in SUBSET Ids
  PROVE  IsFiniteSet(S) /\ Cardinality(S) \in Nat /\ Cardinality(Ids) = 2 * MaxCalls + 1
<1>1. IsFiniteSet(Ids) /\ Cardinality(Ids) = 2 * MaxCalls + 1
  BY FS_Interval DEF StoreAssumption, Ids
<1>2. QED
  BY <1>1, FS_Subset, FS_CardinalityType

LEMMA FreshOnes ==
  ASSUME StoreAssumption, IdsLeft, calls \in 0 .. MaxCalls, NEW c \in Open
  PROVE  /\ \E i \in FreshIds : TRUE
         /\ \E S \in SUBSET FreshIds : Cardinality(S) = 2
<1>1. Cardinality(Open) \in Nat /\ Cardinality(Open) # 0
  BY FS_CardinalityType, FS_EmptySet DEF IdsLeft
<1>2. /\ IsFiniteSet(Ids) /\ Cardinality(Ids) = 2 * MaxCalls + 1
      /\ IsFiniteSet(Given) /\ Cardinality(Given) \in Nat
      /\ IsFiniteSet(FreshIds) /\ Cardinality(FreshIds) \in Nat
  BY GivenFinite DEF Given, FreshIds
<1>3. Cardinality(Given) <= 2 * MaxCalls - 1
  BY <1>1, <1>2 DEF IdsLeft, StoreAssumption
<1>4. FreshIds = Ids \ Given /\ Ids \intersect Given = Given
  BY DEF FreshIds, Given
<1>5. Cardinality(FreshIds) = Cardinality(Ids) - Cardinality(Given)
  BY <1>2, <1>4, FS_Difference
<1>6. Cardinality(FreshIds) >= 2
  BY <1>2, <1>3, <1>5 DEF StoreAssumption
<1>7. PICK i \in FreshIds : TRUE
  BY <1>2, <1>6, FS_EmptySet
<1>8. Cardinality(FreshIds \ {i}) = Cardinality(FreshIds) - 1 /\ IsFiniteSet(FreshIds \ {i})
  BY <1>2, <1>7, FS_RemoveElement
<1>9. PICK j \in FreshIds \ {i} : TRUE
  BY <1>2, <1>6, <1>8, FS_EmptySet
<1>10. IsFiniteSet({i}) /\ Cardinality({i}) = 1
  BY FS_Singleton
<1>11. Cardinality({i} \union {j}) =
         IF j \in {i} THEN Cardinality({i}) ELSE Cardinality({i}) + 1
  BY <1>10, FS_AddElement
<1>12. Cardinality({i} \union {j}) = 2
  BY <1>9, <1>10, <1>11
<1>13. {i} \union {j} \in SUBSET FreshIds
  BY <1>7, <1>9
<1>14. QED
  BY <1>7, <1>12, <1>13

(* The calls that are open get no more.                                    *)
LEMMA BudgetHolds ==
  ASSUME StoreAssumption, IdsLeft, calls \in Nat, calls' \in Nat, calls <= calls',
         Given' = Given, Open' \subseteq Open
  PROVE  IdsLeft'
<1>1. IsFiniteSet(Open') /\ Cardinality(Open') <= Cardinality(Open) /\ Cardinality(Open') \in Nat
      /\ Cardinality(Open) \in Nat
  BY FS_Subset, FS_CardinalityType DEF IdsLeft
<1>2. Cardinality(Given) \in Nat
  BY GivenFinite DEF Given
<1>3. Cardinality(Given') + 2 * Cardinality(Open') <= 1 + 2 * calls'
  BY <1>1, <1>2 DEF IdsLeft
<1>4. QED
  BY <1>1, <1>3 DEF IdsLeft

(* A call is made.                                                         *)
LEMMA BudgetGrows ==
  ASSUME StoreAssumption, IdsLeft, calls \in Nat, calls' = calls + 1,
         Given' = Given, NEW c, Open' \subseteq Open \union {c}
  PROVE  IdsLeft'
<1>1. /\ IsFiniteSet(Open \union {c}) /\ Cardinality(Open) \in Nat
      /\ Cardinality(Open \union {c}) <= Cardinality(Open) + 1
  BY FS_AddElement, FS_CardinalityType DEF IdsLeft
<1>2. IsFiniteSet(Open') /\ Cardinality(Open') <= Cardinality(Open \union {c})
  BY <1>1, FS_Subset
<1>3. Cardinality(Open') \in Nat /\ Cardinality(Open \union {c}) \in Nat
  BY <1>1, <1>2, FS_CardinalityType
<1>4. Cardinality(Given) \in Nat
  BY GivenFinite DEF Given
<1>5. Cardinality(Given') + 2 * Cardinality(Open') <= 1 + 2 * calls'
  BY <1>1, <1>2, <1>3, <1>4 DEF IdsLeft
<1>6. QED
  BY <1>2, <1>5 DEF IdsLeft

(* A call ends, and has taken the ids it had room for.                     *)
LEMMA BudgetSpent ==
  ASSUME StoreAssumption, IdsLeft, calls \in Nat, calls' = calls,
         NEW c \in Open, Open' \subseteq Open \ {c},
         NEW new \in SUBSET Ids, Cardinality(new) <= 2, Given' = Given \union new
  PROVE  IdsLeft'
<1>1. /\ IsFiniteSet(Open \ {c}) /\ Cardinality(Open) \in Nat
      /\ Cardinality(Open \ {c}) = Cardinality(Open) - 1
  BY FS_RemoveElement, FS_CardinalityType DEF IdsLeft
<1>2. IsFiniteSet(Open') /\ Cardinality(Open') <= Cardinality(Open \ {c})
  BY <1>1, FS_Subset
<1>3. Cardinality(Open') \in Nat
  BY <1>2, FS_CardinalityType
<1>4. /\ IsFiniteSet(Given) /\ Cardinality(Given) \in Nat
      /\ IsFiniteSet(new) /\ Cardinality(new) \in Nat
      /\ IsFiniteSet(Given \intersect new) /\ Cardinality(Given \intersect new) \in Nat
  BY GivenFinite DEF Given
<1>5. Cardinality(Given \union new) <= Cardinality(Given) + Cardinality(new)
      /\ Cardinality(Given \union new) \in Nat
  <2>1. /\ IsFiniteSet(Given \union new)
        /\ Cardinality(Given \union new) =
             Cardinality(Given) + Cardinality(new) - Cardinality(Given \intersect new)
    BY <1>4, FS_Union
  <2>2. Cardinality(Given \union new) \in Nat
    BY <2>1, FS_CardinalityType
  <2>3. QED
    BY <1>4, <2>1, <2>2
<1>6. Cardinality(Given') + 2 * Cardinality(Open') <= 1 + 2 * calls'
  <2> DEFINE g == Cardinality(Given) n == Cardinality(new) o == Cardinality(Open)
             g2 == Cardinality(Given') o2 == Cardinality(Open')
  <2>1. g \in Nat /\ n \in Nat /\ o \in Nat /\ o2 \in Nat /\ g2 \in Nat
    BY <1>1, <1>3, <1>4, <1>5
  <2>2. g + 2 * o <= 1 + 2 * calls /\ n <= 2 /\ g2 <= g + n /\ o2 <= o - 1
    BY <1>1, <1>2, <1>5 DEF IdsLeft
  <2> HIDE DEF g, n, o, g2, o2
  <2>3. g2 + 2 * o2 <= 1 + 2 * calls'
    BY <2>1, <2>2
  <2>4. QED
    BY <2>3 DEF g2, o2
<1>7. QED
  BY <1>2, <1>6 DEF IdsLeft

-----------------------------------------------------------------------------
(* The steps of a call keep the store's types.                             *)

LEMMA CallMoves ==
  ASSUME StoreTypeOK, NEW c \in Callers, NEW next \in Running,
         call' = [call EXCEPT ![c] = next]
  PROVE  /\ DOMAIN call' = Callers /\ call'[c] = next
         /\ \A d \in Callers : call'[d] \in Running
         /\ \A d \in Callers \ {c} : call'[d] = call[d]
BY DEF StoreTypeOK

(* Every step of a call is of one that runs, and leaves it settled or      *)
(* running.                                                                *)
LEMMA CallGoesOn ==
  ASSUME StoreTypeOK, NEW c \in Callers, CallSteps(c)
  PROVE  /\ Runs(c)
         /\ \E next \in Running : call' = [call EXCEPT ![c] = next] /\ next.op # "none"
         /\ UNCHANGED <<calls, timer, inFlight, stop>>
<1>1. call[c] \in Running
  BY DEF StoreTypeOK
<1>2. CASE UpdateFinds(c)
  <2>1. Matches(call[c].filter) \subseteq DOMAIN docs /\ docs \in Docs
    BY DEF Matches, StoreTypeOK
  <2>2. Restrict(docs, Matches(call[c].filter)) \in Docs
    BY <2>1, RestrictedDocs
  <2>3. call[c].field \in Fields
    BY <1>1, <1>2, RunningHas DEF UpdateFinds
  <2>4. QED
    BY <1>2, <2>2, <2>3, RunningHolds DEF UpdateFinds, Proceed, backup, Runs
<1>3. CASE DeleteFinds(c)
  <2>1. Matches(call[c].filter) \in SUBSET Ids
    BY DocsAre DEF Matches, StoreTypeOK
  <2>2. QED
    BY <1>3, <2>1, RunningHolds DEF DeleteFinds, Proceed, backup, Runs
<1>4. CASE RemoveListsEdges(c)
  <2>1. EdgesOf(call[c].node) \in SUBSET Edge
    BY DEF EdgesOf, StoreTypeOK
  <2>2. call[c].node \in Nodes
    BY <1>1, <1>4, RunningHas DEF RemoveListsEdges
  <2>3. QED
    BY <1>4, <2>1, <2>2, RunningHolds DEF RemoveListsEdges, Proceed, backup, Runs
<1>5. CASE RemoveCutsEdges(c)
  <2>1. call[c].node \in Nodes
    BY <1>1, <1>5, RunningHas DEF RemoveCutsEdges
  <2>2. QED
    BY <1>5, <2>1, RunningHolds DEF RemoveCutsEdges, Proceed, backup, Runs
<1>6. CASE CallFails(c)
  BY <1>6, RunningHolds DEF CallFails, backup, Runs
<1>7. ASSUME NEW op \in {"insert", "insertMany", "clear", "addNode", "addEdge", "removeEdge",
                         "put", "bulkDelete", "dropNode"}, Finish(c, op)
      PROVE  /\ Runs(c)
             /\ \E next \in Running : call' = [call EXCEPT ![c] = next] /\ next.op # "none"
             /\ UNCHANGED <<calls, timer, inFlight, stop>>
  BY <1>7, RunningHolds DEF Finish, Proceed, backup, Runs
<1>8. QED
  BY <1>2, <1>3, <1>4, <1>5, <1>6, <1>7
     DEF CallSteps, Insert, InsertMany, ClearAll, AddNode, AddEdge, RemoveEdge, UpdatePuts,
         DeleteErases, RemoveDropsNode

LEMMA CallStepTypes ==
  ASSUME StoreAssumption, StoreTypeOK, IdsLeft, NEW c \in Callers, CallSteps(c)
  PROVE  StoreTypeOK'
<1>1. /\ DOMAIN call' = Callers /\ \A d \in Callers : call'[d] \in Running
      /\ calls' \in 0 .. MaxCalls
      /\ timer' \in BOOLEAN /\ inFlight' \in {"none", "export", "upload"}
      /\ stop' \in {"none", "waiting", "returned"} /\ (stop' = "waiting" => ~timer')
  BY CallGoesOn, CallMoves DEF StoreTypeOK
<1>2. call[c] \in Running /\ docs \in Docs /\ calls \in 0 .. MaxCalls
  BY DEF StoreTypeOK
<1>3. c \in Open
  BY CallGoesOn DEF Open
<1>4. CASE Insert(c)
  <2> DEFINE id == CHOOSE i \in FreshIds : TRUE
  <2>1. id \in FreshIds
    BY <1>2, <1>3, FreshOnes
  <2> HIDE DEF id
  <2>2. id \in Ids
    BY <2>1 DEF FreshIds
  <2>3. [d \in {id} |-> {}] \in Docs
    BY <2>2, DocsAre
  <2>4. Write([d \in {id} |-> {}]) /\ used' = used \union {id} /\ UNCHANGED graph
    BY <1>4 DEF Insert, id
  <2>5. docs' \in Docs
    BY <1>2, <2>3, <2>4, WrittenDocs
  <2>6. QED
    BY <1>1, <2>2, <2>4, <2>5 DEF StoreTypeOK, graph
<1>5. CASE InsertMany(c)
  <2> DEFINE ids == CHOOSE S \in SUBSET FreshIds : Cardinality(S) = 2
  <2>1. ids \in SUBSET FreshIds
    BY <1>2, <1>3, FreshOnes
  <2> HIDE DEF ids
  <2>2. ids \in SUBSET Ids
    BY <2>1 DEF FreshIds
  <2>3. [d \in ids |-> {}] \in Docs
    BY <2>2, DocsAre
  <2>4. Write([d \in ids |-> {}]) /\ used' = used \union ids /\ UNCHANGED graph
    BY <1>5 DEF InsertMany, ids
  <2>5. docs' \in Docs
    BY <1>2, <2>3, <2>4, WrittenDocs
  <2>6. QED
    BY <1>1, <2>2, <2>4, <2>5 DEF StoreTypeOK, graph
<1>6. CASE UpdatePuts(c)
  <2> DEFINE new == [d \in DOMAIN call[c].found |-> call[c].found[d] \union {call[c].field}]
  <2>1. call[c].found \in Docs /\ call[c].field \in Fields
    BY <1>2, <1>6, RunningHas DEF UpdatePuts, Finish, Proceed
  <2>2. DOMAIN call[c].found \subseteq Ids
        /\ \A d \in DOMAIN call[c].found : call[c].found[d] \union {call[c].field} \in SUBSET Fields
    BY <2>1, DocsAre
  <2>3. new \in Docs
    BY <2>2, DocsAre
  <2>4. Write(new) /\ UNCHANGED <<used, graph>>
    BY <1>6 DEF UpdatePuts
  <2>5. docs' \in Docs
    BY <1>2, <2>3, <2>4, WrittenDocs
  <2>6. QED
    BY <1>1, <2>4, <2>5 DEF StoreTypeOK, graph
<1>7. CASE DeleteErases(c) \/ ClearAll(c)
  <2>1. docs' \in Docs /\ UNCHANGED <<used, graph>>
    BY <1>2, <1>7, ErasedDocs DEF DeleteErases, ClearAll
  <2>2. QED
    BY <1>1, <2>1 DEF StoreTypeOK, graph
<1>8. CASE AddEdge(c)
  <2> DEFINE id == CHOOSE i \in FreshIds : TRUE
             e == [id |-> id, from |-> call[c].from, to |-> call[c].to]
  <2>1. id \in Ids
    BY <1>2, <1>3, FreshOnes DEF FreshIds
  <2>2. call[c].from \in Nodes /\ call[c].to \in Nodes
    BY <1>2, <1>8, RunningHas DEF AddEdge
  <2> HIDE DEF id
  <2>3. e \in Edge
    BY <2>1, <2>2 DEF Edge
  <2>4. /\ used' = used \union {id} /\ edges' = edges \union {e}
        /\ late' = late \/ late' = late \union {e}
        /\ UNCHANGED <<docs, nodes>>
    BY <1>8 DEF AddEdge, id
  <2> HIDE DEF e
  <2>5. QED
    BY <1>1, <2>1, <2>3, <2>4 DEF StoreTypeOK
<1>9. CASE AddNode(c)
  BY <1>1, <1>9 DEF AddNode, StoreTypeOK
<1>10. CASE RemoveEdge(c) \/ RemoveCutsEdges(c) \/ RemoveDropsNode(c)
  BY <1>1, <1>10 DEF RemoveEdge, RemoveCutsEdges, RemoveDropsNode, StoreTypeOK
<1>11. CASE UpdateFinds(c) \/ DeleteFinds(c) \/ RemoveListsEdges(c) \/ CallFails(c)
  BY <1>1, <1>11 DEF UpdateFinds, DeleteFinds, RemoveListsEdges, CallFails, graph, StoreTypeOK
<1>12. QED
  BY <1>4, <1>5, <1>6, <1>7, <1>8, <1>9, <1>10, <1>11 DEF CallSteps

-----------------------------------------------------------------------------
(* Of a tab's one open request there is one trace: the message, the call   *)
(* or the answer.                                                          *)

OneRequest(t) ==
  /\ \A i, j \in Sent(t, "request") : i = j
  /\ \A i, j \in Answers(t) : i = j
  /\ ~requested[t] => Sent(t, "request") = {} /\ call[t].op = "none" /\ Answers(t) = {}
  /\ Sent(t, "request") # {} => call[t].op = "none" /\ Answers(t) = {}
  /\ call[t].op # "none" => Answers(t) = {}

CallsInv == (\A t \in Tabs : OneRequest(t)) /\ IdsLeft

LEMMA SameRequest ==
  ASSUME NEW t \in Tabs, OneRequest(t),
         Sent(t, "request")' = Sent(t, "request"), Answers(t)' = Answers(t),
         requested'[t] = requested[t], call'[t].op = "none" <=> call[t].op = "none"
  PROVE  OneRequest(t)'
BY DEF OneRequest

LEMMA TypesOfStore ==
  ASSUME TypeOK
  PROVE  /\ StoreTypeOK /\ calls \in Nat /\ calls \in 0 .. MaxCalls
         /\ \A c \in Callers : call[c] \in Running
         /\ DOMAIN call = Callers
BY DEF TypeOK, StoreTypeOK

(* A step of a call, wherever it was made.                                 *)
LEMMA CallStepCalls ==
  ASSUME StoreAssumption, WorkerAssumption, TypeOK, CallsInv,
         NEW c \in Callers, CallSteps(c), UNCHANGED untouched
  PROVE  CallsInv'
<1>1. /\ StoreTypeOK /\ calls \in Nat /\ calls' = calls
      /\ Runs(c) /\ c \in Open /\ call'[c].op # "none"
      /\ \A d \in Callers \ {c} : call'[d] = call[d]
  BY TypesOfStore, CallGoesOn, CallMoves DEF Open
<1>2. \A t \in Tabs : /\ Sent(t, "request")' = Sent(t, "request") /\ Answers(t)' = Answers(t)
                      /\ requested'[t] = requested[t]
  BY DEF untouched, bridge, Sent, Answers
<1>3. ASSUME NEW t \in Tabs PROVE OneRequest(t)'
  <2>1. call'[t].op = "none" <=> call[t].op = "none"
    BY <1>1 DEF WorkerAssumption, Runs
  <2>2. QED
    BY <1>2, <2>1, SameRequest DEF CallsInv
<1>4. Open' \subseteq Open
  <2>1. ASSUME NEW d \in Open', d # c PROVE d \in Open
    BY <1>1, <1>2, <2>1 DEF Open, Runs
  <2>2. QED
    BY <1>1, <2>1
<1>5. Settled = call'[c] => Open' \subseteq Open \ {c}
  <2>1. c \in Tabs => Sent(c, "request") = {}
    BY <1>1 DEF CallsInv, OneRequest, Runs
  <2>2. Settled = call'[c] => c \notin Open'
    BY <1>2, <2>1, RunningHolds DEF Open, Runs
  <2>3. QED
    BY <1>4, <2>2
<1>6. CASE Given' = Given
  BY <1>1, <1>4, <1>6, BudgetHolds, <1>3 DEF CallsInv
<1>7. ASSUME NEW new \in SUBSET Ids, Cardinality(new) <= 2,
             used' = used \union new, call' = [call EXCEPT ![c] = Settled]
      PROVE  CallsInv'
  <2>1. call'[c] = Settled
    BY <1>1, <1>7 DEF StoreTypeOK
  <2>2. Given' = Given \union new
    BY <1>7 DEF Given, Ids
  <2>3. IdsLeft'
    BY <1>1, <1>5, <1>7, <2>1, <2>2, BudgetSpent DEF CallsInv
  <2>4. QED
    BY <1>3, <2>3 DEF CallsInv
<1>8. CASE Insert(c) \/ AddEdge(c)
  <2> DEFINE id == CHOOSE i \in FreshIds : TRUE
  <2>1. id \in Ids
    BY <1>1, FreshOnes, TypesOfStore DEF FreshIds, CallsInv
  <2>2. used' = used \union {id} /\ call' = [call EXCEPT ![c] = Settled]
    BY <1>8 DEF Insert, AddEdge, Finish, Proceed
  <2> HIDE DEF id
  <2>3. Cardinality({id}) = 1
    BY FS_Singleton
  <2>4. {id} \in SUBSET Ids /\ Cardinality({id}) <= 2
    BY <2>1, <2>3
  <2>5. QED
    BY <1>7, <2>2, <2>4
<1>9. CASE InsertMany(c)
  <2> DEFINE ids == CHOOSE S \in SUBSET FreshIds : Cardinality(S) = 2
  <2>1. ids \in SUBSET FreshIds /\ Cardinality(ids) = 2
    BY <1>1, FreshOnes, TypesOfStore DEF CallsInv
  <2>2. used' = used \union ids /\ call' = [call EXCEPT ![c] = Settled]
    BY <1>9 DEF InsertMany, Finish, Proceed
  <2> HIDE DEF ids
  <2>3. ids \in SUBSET Ids /\ Cardinality(ids) <= 2
    BY <2>1 DEF FreshIds
  <2>4. QED
    BY <1>7, <2>2, <2>3
<1>10. CASE AddNode(c)
  <2>1. PICK n \in Nodes : used' = used \union {n}
    BY <1>10 DEF AddNode
  <2>2. n \notin Ids
    BY DEF StoreAssumption
  <2>3. Given' = Given
    BY <2>1, <2>2 DEF Given, Ids
  <2>4. QED
    BY <1>6, <2>3
<1>11. CASE used' = used
  BY <1>6, <1>11 DEF Given, Ids
<1>12. QED
  BY <1>8, <1>9, <1>10, <1>11
     DEF CallSteps, ClearAll, RemoveEdge, UpdateFinds, UpdatePuts, DeleteFinds, DeleteErases,
         RemoveListsEdges, RemoveCutsEdges, RemoveDropsNode, CallFails

(* Pages ask, and backups run.                                             *)
LEMMA PageTypes ==
  ASSUME StoreAssumption, WorkerAssumption, TypeOK, CallsInv, NEW p \in Pages, PageNext(p),
         UNCHANGED untouched
  PROVE  TypeOK' /\ CallsInv'
<1>1. PICK r \in CollectionCalls \union GraphRequests : Start(p, r)
  BY DEF PageNext
<1>2. r \in Running /\ r.op # "none"
  BY RunningHolds DEF GraphRequests
<1>3. p \in Callers /\ p \notin Tabs
  BY DEF WorkerAssumption
<1>4. call' = [call EXCEPT ![p] = r] /\ calls' = calls + 1 /\ calls < MaxCalls
  BY <1>1 DEF Start
<1>5. /\ DOMAIN call' = Callers /\ \A d \in Callers : call'[d] \in Running
      /\ \A d \in Callers \ {p} : call'[d] = call[d]
  BY <1>2, <1>3, <1>4, CallMoves, TypesOfStore
<1>6. calls \in Nat /\ calls' \in 0 .. MaxCalls
  BY <1>4, TypesOfStore DEF StoreAssumption
<1>7. StoreTypeOK'
  BY <1>5, <1>6 DEF PageNext, TypeOK, StoreTypeOK, graph, backup
<1>8. TypeOK'
  BY <1>7 DEF TypeOK, untouched, bridge, worker
<1>9. \A t \in Tabs : /\ Sent(t, "request")' = Sent(t, "request") /\ Answers(t)' = Answers(t)
                      /\ requested'[t] = requested[t] /\ call'[t] = call[t]
  BY <1>3, <1>5 DEF untouched, bridge, Sent, Answers, WorkerAssumption
<1>10. \A t \in Tabs : OneRequest(t)'
  BY <1>9, SameRequest DEF CallsInv
<1>11. Open' \subseteq Open \union {p}
  BY <1>5, <1>9 DEF Open, Runs
<1>12. Given' = Given
  BY DEF PageNext, Given, Ids
<1>13. IdsLeft'
  BY <1>4, <1>6, <1>11, <1>12, BudgetGrows DEF CallsInv
<1>14. QED
  BY <1>8, <1>10, <1>13 DEF CallsInv

LEMMA BackupTypes ==
  ASSUME StoreAssumption, TypeOK, CallsInv, BackupNext, UNCHANGED untouched
  PROVE  TypeOK' /\ CallsInv'
<1> DEFINE Types == /\ calls' \in 0 .. MaxCalls /\ calls \in Nat /\ calls <= calls'
                    /\ timer' \in BOOLEAN /\ inFlight' \in {"none", "export", "upload"}
                    /\ stop' \in {"none", "waiting", "returned"}
                    /\ (stop' = "waiting" => ~timer')
<1>0. /\ calls \in 0 .. MaxCalls /\ MaxCalls \in Nat
      /\ timer \in BOOLEAN /\ inFlight \in {"none", "export", "upload"}
      /\ stop \in {"none", "waiting", "returned"} /\ (stop = "waiting" => ~timer)
  BY DEF TypeOK, StoreTypeOK, StoreAssumption
<1>1. UNCHANGED data /\ Types
  <2>1. CASE BackupNow
    BY <1>0, <2>1 DEF BackupNow, RunBackup
  <2>2. CASE BackupStart
    BY <1>0, <2>2 DEF BackupStart, RunBackup
  <2>3. CASE IntervalFires
    BY <1>0, <2>3 DEF IntervalFires, RunBackup
  <2>4. CASE Exported \/ BackupEnds
    BY <1>0, <2>4 DEF Exported, BackupEnds
  <2>5. CASE BackupStop
    <3>1. timer' = FALSE /\ stop' = "waiting" /\ UNCHANGED <<data, calls, inFlight>>
      BY <2>5, Zenon DEF BackupStop
    <3>2. timer' \in BOOLEAN /\ ~timer'
      BY <3>1, Zenon
    <3>3. calls' = calls /\ inFlight' = inFlight /\ stop' = "waiting" /\ UNCHANGED data
      BY <3>1, Zenon
    <3> HIDE <3>1
    <3>4. QED
      BY <1>0, <3>2, <3>3
  <2>6. CASE StopReturns
    BY <1>0, <2>6 DEF StopReturns
  <2>7. QED
    BY <2>1, <2>2, <2>3, <2>4, <2>5, <2>6 DEF BackupNext
<1>2. StoreTypeOK'
  BY <1>1 DEF TypeOK, StoreTypeOK, data, graph
<1>3. TypeOK'
  BY <1>2 DEF TypeOK, untouched, bridge, worker
<1>4. \A t \in Tabs : /\ Sent(t, "request")' = Sent(t, "request") /\ Answers(t)' = Answers(t)
                      /\ requested'[t] = requested[t] /\ call'[t] = call[t]
  BY <1>1 DEF untouched, bridge, Sent, Answers, data
<1>5. \A t \in Tabs : OneRequest(t)'
  BY <1>4, SameRequest DEF CallsInv
<1>6. Open' \subseteq Open /\ Given' = Given
  BY <1>1, <1>4 DEF Open, Runs, data, Given, Ids
<1>7. calls' \in Nat
  BY <1>1 DEF StoreAssumption
<1>8. QED
  BY <1>1, <1>3, <1>5, <1>6, <1>7, BudgetHolds DEF CallsInv

-----------------------------------------------------------------------------
(* The steps of the tabs and of the worker.                                *)

(* What a tab posts that is no request.                                    *)
LEMMA PostedNote ==
  ASSUME TypeOK, NEW t \in Tabs,
         NEW m \in {[kind |-> "init"], [kind |-> "subscribe"], [kind |-> "dispose"],
                    [kind |-> "unsubscribe", id |-> Nobody]}, Post(t, m)
  PROVE  /\ toWorker' \in [Tabs -> Seq(ToWorker)]
         /\ \A u \in Tabs \ {t} : toWorker'[u] = toWorker[u]
         /\ Sent(t, "request")' = Sent(t, "request")
<1>1. m \in ToWorker
  BY MessagesHold
<1>2. m.kind # "request"
  OBVIOUS
<1> HIDE DEF ToWorker
<1>3. \A kind : Sent(t, kind)' = Sent(t, kind) \union (IF m.kind = kind THEN {Len(toWorker'[t])} ELSE {})
  BY <1>1, Posted
<1>4. Sent(t, "request")' = Sent(t, "request")
  BY <1>2, <1>3
<1>5. QED
  BY <1>1, <1>4, Posted

LEMMA SameStore ==
  ASSUME StoreTypeOK, UNCHANGED store
  PROVE  StoreTypeOK' /\ call' = call /\ calls' = calls /\ used' = used
BY DEF StoreTypeOK, store, graph, backup

(* No call is made and none gets an id.                                    *)
LEMMA SameBudget ==
  ASSUME StoreAssumption, TypeOK, CallsInv, calls' = calls, used' = used,
         \A t \in Tabs : OneRequest(t)',
         \A c \in Callers : c \in Open' => c \in Open
  PROVE  CallsInv'
<1>1. Given' = Given /\ Open' \subseteq Open
  BY DEF Given, Ids, Open
<1>2. IdsLeft'
  BY <1>1, BudgetHolds, TypesOfStore DEF CallsInv
<1>3. QED
  BY <1>2 DEF CallsInv

LEMMA OtherTabs ==
  ASSUME CallsInv, NEW t \in Tabs, OneRequest(t)',
         \A u \in Tabs \ {t} : /\ toWorker'[u] = toWorker[u] /\ toTab'[u] = toTab[u]
                               /\ requested'[u] = requested[u] /\ call'[u] = call[u]
  PROVE  \A u \in Tabs : OneRequest(u)'
<1>1. ASSUME NEW u \in Tabs \ {t} PROVE OneRequest(u)'
  <2>1. Sent(u, "request")' = Sent(u, "request") /\ Answers(u)' = Answers(u)
    BY DEF Sent, Answers
  <2>2. QED
    BY <2>1, SameRequest DEF CallsInv
<1>2. QED
  BY <1>1

(* What a step of tab t, or of the worker for it, must leave of the rest.  *)
LEMMA StepOfTab ==
  ASSUME StoreAssumption, WorkerAssumption, TypeOK, CallsInv, NEW t \in Tabs,
         \A u \in Tabs \ {t} : /\ toWorker'[u] = toWorker[u] /\ toTab'[u] = toTab[u]
                               /\ requested'[u] = requested[u],
         \A c \in Callers \ {t} : call'[c] = call[c],
         calls' = calls, used' = used,
         OneRequest(t)', t \in Open' => t \in Open
  PROVE  CallsInv'
<1>1. \A u \in Tabs : OneRequest(u)'
  BY OtherTabs DEF WorkerAssumption
<1>2. ASSUME NEW c \in Callers, c \in Open', c # t PROVE c \in Open
  BY <1>2 DEF Open, Runs, Sent
<1>3. QED
  BY <1>1, <1>2, SameBudget

LEMMA TakenRequests ==
  ASSUME TypeOK, NEW t \in Tabs, NEW k, Takes(t, k), OneRequest(t)
  PROVE  /\ \A i, j \in Sent(t, "request")' : i = j
         /\ Sent(t, "request")' # {} => Sent(t, "request") # {}
         /\ k = "request" => Sent(t, "request")' = {} /\ Sent(t, "request") # {}
<1>1. /\ 1 \in Sent(t, k)
      /\ Sent(t, "request")' = {i \in 1 .. Len(toWorker[t]) - 1 : i + 1 \in Sent(t, "request")}
      /\ Len(toWorker[t]) \in Nat
  BY Taken
<1>2. \A i, j \in Sent(t, "request") : i = j
  BY DEF OneRequest
<1>3. \A i \in Sent(t, "request")' : i \in 1 .. Len(toWorker[t]) - 1 /\ i + 1 \in Sent(t, "request")
  BY <1>1
<1>4. \A i, j \in Sent(t, "request")' : i = j
  BY <1>2, <1>3
<1>5. k = "request" => Sent(t, "request")' = {}
  BY <1>1, <1>2, <1>3
<1>6. QED
  BY <1>1, <1>3, <1>4, <1>5

(* The bridge: what it sends and what it hears.                            *)
LEMMA TabTypes ==
  ASSUME StoreAssumption, WorkerAssumption, TypeOK, CallsInv, NEW t \in Tabs, TabNext(t)
  PROVE  TypeOK' /\ CallsInv'
<1>1. /\ OneRequest(t) /\ t \in Callers /\ StoreTypeOK
      /\ calls \in 0 .. MaxCalls /\ MaxCalls \in Nat /\ calls \in Nat
  BY TypesOfStore DEF CallsInv, WorkerAssumption, StoreAssumption
<1>2. CASE Construct(t)
  <2>1. Post(t, [kind |-> "init"]) /\ UNCHANGED <<subscribed, requested, toTab, worker, store>>
    BY <1>2 DEF Construct
  <2>2. /\ toWorker' \in [Tabs -> Seq(ToWorker)]
        /\ \A u \in Tabs \ {t} : toWorker'[u] = toWorker[u]
        /\ Sent(t, "request")' = Sent(t, "request")
    BY <2>1, PostedNote
  <2>3. StoreTypeOK' /\ call' = call /\ calls' = calls /\ used' = used
    BY <1>1, <2>1, SameStore
  <2>4. TypeOK'
    BY <1>2, <2>1, <2>2, <2>3 DEF Construct, TypeOK, worker
  <2>5. OneRequest(t)'
    <3>1. Answers(t)' = Answers(t)
      BY <2>1 DEF Answers
    <3>2. QED
      BY <1>1, <2>1, <2>2, <2>3, <3>1, SameRequest
  <2>6. t \in Open' => t \in Open
    BY <2>2, <2>3 DEF Open, Runs
  <2>7. CallsInv'
    BY <2>1, <2>2, <2>3, <2>5, <2>6, StepOfTab
  <2>8. QED
    BY <2>4, <2>7
<1>3. CASE Lose(t)
  <2>1. /\ toTab' = [toTab EXCEPT ![t] = <<>>]
        /\ UNCHANGED <<subscribed, requested, toWorker, worker, store>>
    BY <1>3 DEF Lose
  <2>2. /\ toTab' \in [Tabs -> Seq({"init", "response"})]
        /\ \A u \in Tabs \ {t} : toTab'[u] = toTab[u]
        /\ Answers(t)' = {}
    BY <2>1, Closed
  <2>3. StoreTypeOK' /\ call' = call /\ calls' = calls /\ used' = used
    BY <1>1, <2>1, SameStore
  <2>4. TypeOK'
    BY <1>3, <2>1, <2>2, <2>3 DEF Lose, TypeOK, worker
  <2>5. Sent(t, "request")' = Sent(t, "request")
    BY <2>1 DEF Sent
  <2>6. OneRequest(t)' /\ (t \in Open' => t \in Open)
    BY <1>1, <2>1, <2>2, <2>3, <2>5 DEF OneRequest, Open, Runs
  <2>7. CallsInv'
    BY <2>1, <2>2, <2>3, <2>6, StepOfTab
  <2>8. QED
    BY <2>4, <2>7
<1>4. CASE MakeRequest(t)
  <2>1. /\ ~requested[t] /\ requested' = [requested EXCEPT ![t] = TRUE]
        /\ calls < MaxCalls /\ calls' = calls + 1
        /\ UNCHANGED <<tab, subscribed, toTab, worker, docs, used, graph, call, backup>>
    BY <1>4 DEF MakeRequest
  <2>2. PICK c \in CollectionCalls : Post(t, [kind |-> "request", call |-> c])
    BY <1>4 DEF MakeRequest
  <2>3. /\ toWorker' \in [Tabs -> Seq(ToWorker)]
        /\ \A u \in Tabs \ {t} : toWorker'[u] = toWorker[u]
        /\ Sent(t, "request")' = Sent(t, "request") \union {Len(toWorker'[t])}
    BY <2>2, Posted, MessagesHold
  <2>4. calls' \in 0 .. MaxCalls
    BY <1>1, <2>1
  <2>5. StoreTypeOK'
    BY <1>1, <2>1, <2>4 DEF StoreTypeOK, graph, backup
  <2>6. TypeOK'
    BY <2>1, <2>3, <2>5 DEF TypeOK, worker
  <2>7. OneRequest(t)'
    <3>1. Answers(t)' = Answers(t) /\ call' = call
      BY <2>1 DEF Answers
    <3>2. requested'[t]
      BY <2>1 DEF TypeOK
    <3>3. QED
      BY <1>1, <2>1, <2>3, <3>1, <3>2 DEF OneRequest
  <2>8. \A u \in Tabs : OneRequest(u)'
    BY <2>1, <2>3, <2>7, OtherTabs DEF TypeOK
  <2>9. Open' \subseteq Open \union {t}
    BY <2>1, <2>3 DEF Open, Runs, Sent
  <2>10. Given' = Given
    BY <2>1 DEF Given, Ids
  <2>11. IdsLeft'
    BY <1>1, <2>1, <2>9, <2>10, BudgetGrows DEF CallsInv
  <2>12. QED
    BY <2>6, <2>8, <2>11 DEF CallsInv
<1>5. CASE Subscribe(t)
  <2>1. /\ calls < MaxCalls /\ calls' = calls + 1 /\ Post(t, [kind |-> "subscribe"])
        /\ UNCHANGED <<tab, requested, toTab, worker, docs, used, graph, call, backup>>
    BY <1>5 DEF Subscribe
  <2>2. /\ toWorker' \in [Tabs -> Seq(ToWorker)]
        /\ \A u \in Tabs \ {t} : toWorker'[u] = toWorker[u]
        /\ Sent(t, "request")' = Sent(t, "request")
    BY <2>1, PostedNote
  <2>3. calls' \in 0 .. MaxCalls
    BY <1>1, <2>1
  <2>4. StoreTypeOK'
    BY <1>1, <2>1, <2>3 DEF StoreTypeOK, graph, backup
  <2>5. subscribed' \in [Tabs -> {"no", "yes", "over"}]
    BY <1>5 DEF Subscribe, TypeOK
  <2>6. TypeOK'
    BY <2>1, <2>2, <2>4, <2>5 DEF TypeOK, worker
  <2>7. OneRequest(t)'
    <3>1. Answers(t)' = Answers(t) /\ call' = call /\ requested' = requested
      BY <2>1 DEF Answers
    <3>2. QED
      BY <1>1, <2>2, <3>1, SameRequest
  <2>8. \A u \in Tabs : OneRequest(u)'
    BY <2>1, <2>2, <2>7, OtherTabs
  <2>9. Open' \subseteq Open /\ Given' = Given
    <3>1. Given' = Given
      BY <2>1 DEF Given, Ids
    <3>2. \A u \in Tabs : Sent(u, "request")' = Sent(u, "request")
      BY <2>2 DEF Sent
    <3>3. QED
      BY <2>1, <3>1, <3>2 DEF Open, Runs
  <2>10. IdsLeft'
    BY <1>1, <2>1, <2>9, BudgetHolds DEF CallsInv
  <2>11. QED
    BY <2>6, <2>8, <2>10 DEF CallsInv
<1>6. CASE Unsubscribe(t)
  <2>1. /\ Post(t, [kind |-> "unsubscribe", id |-> Nobody])
        /\ subscribed' = [subscribed EXCEPT ![t] = "over"]
        /\ UNCHANGED <<tab, requested, toTab, worker, store>>
    BY <1>6 DEF Unsubscribe
  <2>2. /\ toWorker' \in [Tabs -> Seq(ToWorker)]
        /\ \A u \in Tabs \ {t} : toWorker'[u] = toWorker[u]
        /\ Sent(t, "request")' = Sent(t, "request")
    BY <2>1, PostedNote
  <2>3. StoreTypeOK' /\ call' = call /\ calls' = calls /\ used' = used
    BY <1>1, <2>1, SameStore
  <2>4. TypeOK'
    BY <2>1, <2>2, <2>3 DEF TypeOK, worker
  <2>5. OneRequest(t)'
    <3>1. Answers(t)' = Answers(t)
      BY <2>1 DEF Answers
    <3>2. QED
      BY <1>1, <2>1, <2>2, <2>3, <3>1, SameRequest
  <2>6. t \in Open' => t \in Open
    BY <2>2, <2>3 DEF Open, Runs
  <2>7. CallsInv'
    BY <2>1, <2>2, <2>3, <2>5, <2>6, StepOfTab
  <2>8. QED
    BY <2>4, <2>7
<1>7. CASE Dispose(t)
  <2>1. /\ Post(t, [kind |-> "dispose"]) /\ toTab' = [toTab EXCEPT ![t] = <<>>]
        /\ UNCHANGED <<subscribed, requested, worker, store>>
    BY <1>7 DEF Dispose
  <2>2. /\ toWorker' \in [Tabs -> Seq(ToWorker)]
        /\ \A u \in Tabs \ {t} : toWorker'[u] = toWorker[u]
        /\ Sent(t, "request")' = Sent(t, "request")
        /\ toTab' \in [Tabs -> Seq({"init", "response"})]
        /\ \A u \in Tabs \ {t} : toTab'[u] = toTab[u]
        /\ Answers(t)' = {}
    BY <2>1, PostedNote, Closed
  <2>3. StoreTypeOK' /\ call' = call /\ calls' = calls /\ used' = used
    BY <1>1, <2>1, SameStore
  <2>4. TypeOK'
    BY <1>7, <2>1, <2>2, <2>3 DEF Dispose, TypeOK, worker
  <2>5. OneRequest(t)' /\ (t \in Open' => t \in Open)
    BY <1>1, <2>1, <2>2, <2>3 DEF OneRequest, Open, Runs
  <2>6. CallsInv'
    BY <2>1, <2>2, <2>3, <2>5, StepOfTab
  <2>7. QED
    BY <2>4, <2>6
<1>8. CASE HandleMessage(t)
  <2>1. /\ toTab' \in [Tabs -> Seq({"init", "response"})]
        /\ \A u \in Tabs \ {t} : toTab'[u] = toTab[u]
        /\ Answers(t)' = {i \in 1 .. Len(toTab[t]) - 1 : i + 1 \in Answers(t)}
        /\ Head(toTab[t]) # "init" => 1 \in Answers(t)
    BY <1>8, Handled
  <2>2. /\ UNCHANGED <<subscribed, toWorker, worker, store>>
        /\ \/ /\ Head(toTab[t]) = "init"
              /\ tab' = [tab EXCEPT ![t] = "ready"] /\ requested' = requested
           \/ /\ Head(toTab[t]) # "init"
              /\ requested' = [requested EXCEPT ![t] = FALSE] /\ tab' = tab
    BY <1>8 DEF HandleMessage
  <2>3. StoreTypeOK' /\ call' = call /\ calls' = calls /\ used' = used
    BY <1>1, <2>2, SameStore
  <2>4. tab' \in [Tabs -> {"new", "waiting", "ready", "disposed", "lost"}]
        /\ requested' \in [Tabs -> BOOLEAN]
        /\ \A u \in Tabs \ {t} : requested'[u] = requested[u]
    BY <2>2 DEF TypeOK
  <2>5. TypeOK'
    BY <2>1, <2>2, <2>3, <2>4 DEF TypeOK, worker
  <2>6. Sent(t, "request")' = Sent(t, "request")
    BY <2>2 DEF Sent
  <2>7. /\ \A i, j \in Answers(t)' : i = j
        /\ Answers(t)' # {} => Answers(t) # {}
        /\ 1 \in Answers(t) => Answers(t)' = {}
    <3>1. \A i \in Answers(t)' : i \in 1 .. Len(toTab[t]) - 1 /\ i + 1 \in Answers(t)
      BY <2>1
    <3>2. \A i, j \in Answers(t) : i = j
      BY <1>1 DEF OneRequest
    <3>3. \A i, j \in Answers(t)' : i = j
      BY <3>1, <3>2
    <3>4. QED
      BY <3>1, <3>2, <3>3
  <2>8. OneRequest(t)'
    <3>1. CASE Head(toTab[t]) = "init"
      <4>1. requested' = requested
        BY <2>2, <3>1
      <4>2. QED
        BY <1>1, <2>3, <2>6, <2>7, <4>1 DEF OneRequest
    <3>2. CASE Head(toTab[t]) # "init"
      BY <1>1, <2>1, <2>3, <2>6, <2>7, <3>2 DEF OneRequest
    <3>3. QED
      BY <3>1, <3>2
  <2>9. t \in Open' => t \in Open
    BY <2>3, <2>6 DEF Open, Runs
  <2>10. CallsInv'
    BY <2>1, <2>2, <2>3, <2>4, <2>8, <2>9, StepOfTab
  <2>11. QED
    BY <2>5, <2>10
<1>9. QED
  BY <1>2, <1>3, <1>4, <1>5, <1>6, <1>7, <1>8 DEF TabNext

(* The worker takes a message that is no request.                          *)
LEMMA TakesNote ==
  ASSUME StoreAssumption, WorkerAssumption, TypeOK, CallsInv, NEW t \in Tabs, NEW k, Takes(t, k),
         Answers(t)' = Answers(t), \A u \in Tabs \ {t} : toTab'[u] = toTab[u],
         UNCHANGED store
  PROVE  CallsInv'
<1>1. /\ OneRequest(t) /\ StoreTypeOK
      /\ call' = call /\ calls' = calls /\ used' = used /\ requested' = requested
  BY TypesOfStore, SameStore DEF CallsInv, Takes, bridge
<1>2. /\ \A u \in Tabs \ {t} : toWorker'[u] = toWorker[u]
      /\ \A i, j \in Sent(t, "request")' : i = j
      /\ Sent(t, "request")' # {} => Sent(t, "request") # {}
  BY <1>1, Taken, TakenRequests
<1>3. OneRequest(t)' /\ (t \in Open' => t \in Open)
  BY <1>1, <1>2 DEF OneRequest, Open, Runs
<1>4. QED
  BY <1>1, <1>2, <1>3, StepOfTab

LEMMA TabSets ==
  ASSUME NEW f \in [Tabs -> SUBSET Tabs], NEW c \in Tabs
  PROVE  /\ \A t \in Tabs : [f EXCEPT ![c] = @ \union {t}] \in [Tabs -> SUBSET Tabs]
         /\ \A S : [f EXCEPT ![c] = @ \ S] \in [Tabs -> SUBSET Tabs]
         /\ [f EXCEPT ![c] = {}] \in [Tabs -> SUBSET Tabs]
OBVIOUS

LEMMA WorkerTypes ==
  ASSUME StoreAssumption, WorkerAssumption, TypeOK, CallsInv, NEW t \in Tabs, WorkerTakes(t)
  PROVE  TypeOK' /\ CallsInv'
<1>1. OneRequest(t) /\ t \in Callers /\ StoreTypeOK
  BY TypesOfStore DEF CallsInv, WorkerAssumption
<1> DEFINE Took == /\ toWorker' \in [Tabs -> Seq(ToWorker)]
                   /\ \A u \in Tabs \ {t} : toWorker'[u] = toWorker[u]
                   /\ UNCHANGED bridge
<1>2. ASSUME NEW k, Takes(t, k) PROVE Took
  BY <1>2, Taken DEF Takes
<1>3. CASE OnInit(t)
  <2> DEFINE c == EnsureContext(t)
  <2>1. Takes(t, "init") /\ Answer(t, "init") /\ UNCHANGED store
    BY <1>3 DEF OnInit
  <2>2. /\ toTab' \in [Tabs -> Seq({"init", "response"})]
        /\ \A u \in Tabs \ {t} : toTab'[u] = toTab[u]
        /\ Answers(t)' = Answers(t)
    BY <2>1, Answered
  <2>3. c \in Tabs
    BY DEF EnsureContext, TypeOK
  <2> HIDE DEF c
  <2>4. /\ context' = c /\ ports' = [ports EXCEPT ![c] = @ \union {t}]
        /\ home' \in [Tabs -> Tabs \union {Nobody}]
        /\ UNCHANGED <<subscriptions, portSubscriptions, disposals, closing>>
    BY <1>3, <2>3 DEF OnInit, TypeOK, c
  <2>5. ports' \in [Tabs -> SUBSET Tabs]
    BY <2>4 DEF TypeOK
  <2>6. StoreTypeOK'
    BY <1>1, <2>1, SameStore
  <2>7. TypeOK'
    BY <1>2, <2>1, <2>2, <2>3, <2>4, <2>5, <2>6 DEF TypeOK, bridge
  <2>8. QED
    BY <2>1, <2>2, <2>7, TakesNote
<1>4. CASE Refuse(t)
  <2>1. Takes(t, "request") /\ Answer(t, "response") /\ UNCHANGED <<worker, store>>
    BY <1>4 DEF Refuse
  <2>2. /\ Sent(t, "request")' = {} /\ Sent(t, "request") # {}
        /\ requested' = requested
    BY <1>1, <2>1, TakenRequests DEF Takes, bridge
  <2>3. requested[t] /\ Answers(t) = {} /\ call[t].op = "none"
    BY <1>1, <2>2 DEF OneRequest
  <2>4. /\ toTab' \in [Tabs -> Seq({"init", "response"})]
        /\ \A u \in Tabs \ {t} : toTab'[u] = toTab[u]
        /\ \A i, j \in Answers(t)' : i = j
    BY <2>1, <2>3, Answered
  <2>5. StoreTypeOK' /\ call' = call /\ calls' = calls /\ used' = used
    BY <1>1, <2>1, SameStore
  <2>6. TypeOK'
    BY <1>2, <2>1, <2>4, <2>5 DEF TypeOK, bridge, worker
  <2>7. OneRequest(t)' /\ (t \in Open' => t \in Open)
    BY <2>2, <2>3, <2>4, <2>5 DEF OneRequest, Open, Runs
  <2>8. CallsInv'
    BY <1>2, <2>1, <2>2, <2>4, <2>5, <2>7, StepOfTab
  <2>9. QED
    BY <2>6, <2>8
<1>5. CASE OnRequest(t)
  <2> DEFINE c == Head(toWorker[t]).call
  <2>1. /\ Takes(t, "request") /\ call' = [call EXCEPT ![t] = c]
        /\ UNCHANGED <<toTab, worker, docs, used, graph, calls, backup>>
    BY <1>5 DEF OnRequest
  <2>2. c \in CollectionCalls
    <3>1. Head(toWorker[t]) \in ToWorker /\ Head(toWorker[t]).kind = "request"
      BY <2>1, Taken
    <3>2. QED
      BY <3>1, MessagesHold
  <2> HIDE DEF c
  <2>3. c \in Running /\ c.op \notin {"none", "settled"}
    BY <2>2, RunningHolds
  <2>4. /\ DOMAIN call' = Callers /\ call'[t] = c
        /\ \A d \in Callers : call'[d] \in Running
        /\ \A d \in Callers \ {t} : call'[d] = call[d]
    BY <1>1, <2>1, <2>3, CallMoves
  <2>5. /\ Sent(t, "request")' = {} /\ Sent(t, "request") # {}
        /\ requested' = requested
    BY <1>1, <2>1, TakenRequests DEF Takes, bridge
  <2>6. requested[t] /\ Answers(t)' = {}
    BY <1>1, <2>1, <2>5 DEF OneRequest, Answers
  <2>7. StoreTypeOK'
    BY <1>1, <2>1, <2>4 DEF StoreTypeOK, graph, backup
  <2>8. TypeOK'
    BY <1>2, <2>1, <2>7 DEF TypeOK, bridge, worker
  <2>9. OneRequest(t)' /\ t \in Open
    BY <1>1, <2>5, <2>6 DEF OneRequest, Open
  <2>10. CallsInv'
    BY <1>2, <2>1, <2>4, <2>5, <2>9, StepOfTab
  <2>11. QED
    BY <2>8, <2>10
<1>6. CASE OnSubscribe(t)
  <2>1. /\ Takes(t, "subscribe")
        /\ UNCHANGED <<toTab, context, ports, disposals, closing, home, store>>
    BY <1>6 DEF OnSubscribe
  <2>2. subscriptions' \in [Tabs -> SUBSET Tabs] /\ portSubscriptions' \in [Tabs -> SUBSET Tabs]
    <3>1. CASE context = Nobody
      BY <1>6, <3>1 DEF OnSubscribe, TypeOK
    <3>2. CASE context # Nobody
      <4>1. context \in Tabs
        BY <3>2 DEF TypeOK
      <4>2. subscriptions \in [Tabs -> SUBSET Tabs] /\ portSubscriptions \in [Tabs -> SUBSET Tabs]
        BY DEF TypeOK
      <4>3. /\ subscriptions' = [subscriptions EXCEPT ![context] = @ \union {t}]
            /\ portSubscriptions' = [portSubscriptions EXCEPT ![t] = @ \union {t}]
        BY <1>6, <3>2 DEF OnSubscribe
      <4>4. QED
        BY <4>1, <4>2, <4>3, TabSets
    <3>3. QED
      BY <3>1, <3>2
  <2>3. StoreTypeOK'
    BY <1>1, <2>1, SameStore
  <2>4. TypeOK'
    BY <1>2, <2>1, <2>2, <2>3 DEF TypeOK, bridge
  <2>5. Answers(t)' = Answers(t)
    BY <2>1 DEF Answers
  <2>6. QED
    BY <2>1, <2>4, <2>5, TakesNote
<1>7. CASE OnUnsubscribe(t)
  <2>1. /\ Takes(t, "unsubscribe")
        /\ UNCHANGED <<toTab, context, ports, disposals, closing, home, store>>
    BY <1>7 DEF OnUnsubscribe
  <2>2. subscriptions' \in [Tabs -> SUBSET Tabs] /\ portSubscriptions' \in [Tabs -> SUBSET Tabs]
    <3>1. CASE context = Nobody
      BY <1>7, <3>1 DEF OnUnsubscribe, TypeOK
    <3>2. CASE context # Nobody
      <4>1. context \in Tabs
        BY <3>2 DEF TypeOK
      <4>2. subscriptions \in [Tabs -> SUBSET Tabs] /\ portSubscriptions \in [Tabs -> SUBSET Tabs]
        BY DEF TypeOK
      <4>3. PICK id : /\ subscriptions' = [subscriptions EXCEPT ![context] = @ \ {id}]
                      /\ portSubscriptions' = [portSubscriptions EXCEPT ![t] = @ \ {id}]
        BY <1>7, <3>2 DEF OnUnsubscribe
      <4>4. QED
        BY <4>1, <4>2, <4>3, TabSets
    <3>3. QED
      BY <3>1, <3>2
  <2>3. StoreTypeOK'
    BY <1>1, <2>1, SameStore
  <2>4. TypeOK'
    BY <1>2, <2>1, <2>2, <2>3 DEF TypeOK, bridge
  <2>5. Answers(t)' = Answers(t)
    BY <2>1 DEF Answers
  <2>6. QED
    BY <2>1, <2>4, <2>5, TakesNote
<1>8. CASE OnDispose(t)
  <2>1. Takes(t, "dispose") /\ UNCHANGED <<toTab, context, home, store>>
    BY <1>8 DEF OnDispose
  <2>2. /\ subscriptions' \in [Tabs -> SUBSET Tabs] /\ portSubscriptions' \in [Tabs -> SUBSET Tabs]
        /\ ports' \in [Tabs -> SUBSET Tabs]
    <3>1. CASE context = Nobody
      BY <1>8, <3>1 DEF OnDispose, TypeOK
    <3>2. CASE context # Nobody
      <4>1. context \in Tabs
        BY <3>2 DEF TypeOK
      <4>2. subscriptions \in [Tabs -> SUBSET Tabs] /\ portSubscriptions \in [Tabs -> SUBSET Tabs]
            /\ ports \in [Tabs -> SUBSET Tabs]
        BY DEF TypeOK
      <4>3. /\ ports' = [ports EXCEPT ![context] = @ \ {t}]
            /\ subscriptions' = [subscriptions EXCEPT ![context] = @ \ portSubscriptions[t]]
            /\ portSubscriptions' = [portSubscriptions EXCEPT ![t] = {}]
        BY <1>8, <3>2 DEF OnDispose, CleanupPortSubscriptions
      <4>4. QED
        BY <4>1, <4>2, <4>3, TabSets
    <3>3. QED
      BY <3>1, <3>2
  <2>3. disposals' \subseteq Disposal /\ closing' \subseteq Tabs
    BY <1>8 DEF OnDispose, Disposal, TypeOK
  <2>4. StoreTypeOK'
    BY <1>1, <2>1, SameStore
  <2>5. TypeOK'
    BY <1>2, <2>1, <2>2, <2>3, <2>4 DEF TypeOK, bridge
  <2>6. Answers(t)' = Answers(t)
    BY <2>1 DEF Answers
  <2>7. QED
    BY <2>1, <2>5, <2>6, TakesNote
<1>9. QED
  BY <1>3, <1>4, <1>5, <1>6, <1>7, <1>8 DEF WorkerTakes

LEMMA AnswerTypes ==
  ASSUME StoreAssumption, WorkerAssumption, TypeOK, CallsInv, NEW t \in Tabs, RequestEnds(t)
  PROVE  TypeOK' /\ CallsInv'
<1>1. OneRequest(t) /\ t \in Callers /\ StoreTypeOK
  BY TypesOfStore DEF CallsInv, WorkerAssumption
<1>2. /\ call[t] = Settled /\ call' = [call EXCEPT ![t] = Idle] /\ Answer(t, "response")
      /\ UNCHANGED <<bridge, toWorker, worker, docs, used, graph, calls, backup>>
  BY DEF RequestEnds
<1>3. /\ DOMAIN call' = Callers /\ call'[t] = Idle
      /\ \A d \in Callers : call'[d] \in Running
      /\ \A d \in Callers \ {t} : call'[d] = call[d]
  BY <1>1, <1>2, RunningHolds, CallMoves
<1>4. Sent(t, "request")' = Sent(t, "request")
  BY <1>2 DEF Sent
<1>5. requested[t] /\ Sent(t, "request") = {} /\ Answers(t) = {}
  BY <1>1, <1>2, RunningHolds DEF OneRequest
<1>6. /\ toTab' \in [Tabs -> Seq({"init", "response"})]
      /\ \A u \in Tabs \ {t} : toTab'[u] = toTab[u]
      /\ \A i, j \in Answers(t)' : i = j
  BY <1>2, <1>5, Answered
<1>7. StoreTypeOK'
  BY <1>1, <1>2, <1>3 DEF StoreTypeOK, graph, backup
<1>8. TypeOK'
  BY <1>2, <1>6, <1>7 DEF TypeOK, bridge, worker
<1>9. call'[t].op = "none"
  BY <1>3, RunningHolds
<1>10. OneRequest(t)' /\ (t \in Open' => t \in Open)
  BY <1>2, <1>4, <1>5, <1>6, <1>9 DEF OneRequest, Open, Runs, bridge
<1>11. CallsInv'
  BY <1>2, <1>3, <1>6, <1>10, StepOfTab DEF bridge
<1>12. QED
  BY <1>8, <1>11

LEMMA DisposeEndTypes ==
  ASSUME StoreAssumption, WorkerAssumption, TypeOK, CallsInv, NEW d \in disposals, DisposeEnds(d)
  PROVE  TypeOK' /\ CallsInv'
<1>1. /\ UNCHANGED <<bridge, toWorker, toTab, ports, subscriptions, portSubscriptions, closing, home, store>>
      /\ disposals' \subseteq disposals /\ context' = Nobody
  BY DEF DisposeEnds
<1>2. StoreTypeOK' /\ call' = call /\ calls' = calls /\ used' = used
  BY <1>1, TypesOfStore, SameStore
<1>3. TypeOK'
  BY <1>1, <1>2 DEF TypeOK, bridge
<1>4. \A t \in Tabs : /\ Sent(t, "request")' = Sent(t, "request") /\ Answers(t)' = Answers(t)
                      /\ requested'[t] = requested[t] /\ call'[t] = call[t]
  BY <1>1, <1>2 DEF bridge, Sent, Answers
<1>5. \A t \in Tabs : OneRequest(t)'
  BY <1>4, SameRequest DEF CallsInv
<1>6. \A c \in Callers : c \in Open' => c \in Open
  BY <1>2, <1>4 DEF Open, Runs
<1>7. QED
  BY <1>2, <1>3, <1>5, <1>6, SameBudget

LEMMA InitTypes ==
  ASSUME StoreAssumption, WorkerAssumption, Init
  PROVE  TypeOK /\ CallsInv
<1>1. MaxCalls \in Nat /\ 0 \in Ids /\ Tabs \subseteq Callers
  BY DEF StoreAssumption, WorkerAssumption, Ids
<1>2. docs \in Docs
  <2>1. [d \in {0} |-> {}] \in [{0} -> SUBSET Fields] /\ {0} \in SUBSET Ids
    BY <1>1
  <2>2. QED
    BY <2>1, DocsAre DEF Init, StoreInit
<1>3. DOMAIN call = Callers /\ \A c \in Callers : call[c] = Idle /\ call[c] \in Running
  BY RunningHolds DEF Init, StoreInit
<1>4. StoreTypeOK
  <2>1. /\ used \subseteq Ids \union Nodes /\ calls \in 0 .. MaxCalls
        /\ nodes \subseteq Nodes /\ edges \subseteq Edge /\ late \subseteq Edge
    BY <1>1 DEF Init, StoreInit, StoreAssumption
  <2>2. /\ timer \in BOOLEAN /\ inFlight = "none" /\ stop = "none"
    BY Zenon DEF Init, StoreInit
  <2>3. QED
    BY <1>2, <1>3, <2>1, <2>2 DEF StoreTypeOK
<1>5. <<>> \in Seq(ToWorker) /\ <<>> \in Seq({"init", "response"})
  OBVIOUS
<1>6. TypeOK
  BY <1>4, <1>5 DEF Init, TypeOK
<1>7. \A t \in Tabs : Sent(t, "request") = {} /\ Answers(t) = {} /\ call[t].op = "none"
  BY <1>1, <1>3, RunningHolds DEF Init, Sent, Answers
<1>8. \A t \in Tabs : OneRequest(t)
  BY <1>7 DEF OneRequest
<1>9. Open = {}
  BY <1>3, <1>7, RunningHolds DEF Open, Runs
<1>10. Given \subseteq {0}
  BY DEF Init, StoreInit, Given, StoreAssumption
<1>11. IsFiniteSet(Open) /\ Cardinality(Open) = 0
  BY <1>9, FS_EmptySet
<1>12. Cardinality(Given) <= 1 /\ Cardinality(Given) \in Nat
  <2>1. IsFiniteSet({0}) /\ Cardinality({0}) = 1
    BY FS_Singleton
  <2>2. QED
    BY <1>10, <2>1, FS_Subset, FS_CardinalityType
<1>13. calls = 0
  BY DEF Init, StoreInit
<1>14. IdsLeft
  BY <1>11, <1>12, <1>13 DEF IdsLeft
<1>15. QED
  BY <1>6, <1>8, <1>14 DEF CallsInv

LEMMA StepTypes ==
  ASSUME StoreAssumption, WorkerAssumption, TypeOK, CallsInv, [Next]_vars
  PROVE  TypeOK' /\ CallsInv'
<1>1. CASE \E t \in Tabs : TabNext(t)
  BY <1>1, TabTypes
<1>2. CASE \E t \in Tabs : WorkerTakes(t)
  BY <1>2, WorkerTypes
<1>3. CASE \E t \in Tabs : RequestEnds(t)
  BY <1>3, AnswerTypes
<1>4. CASE \E d \in disposals : DisposeEnds(d)
  BY <1>4, DisposeEndTypes
<1>5. ASSUME NEW c \in Callers, CallSteps(c), UNCHANGED untouched
      PROVE  TypeOK' /\ CallsInv'
  <2>1. StoreTypeOK'
    BY <1>5, CallStepTypes, TypesOfStore DEF CallsInv
  <2>2. TypeOK'
    BY <1>5, <2>1 DEF TypeOK, untouched, bridge, worker
  <2>3. QED
    BY <1>5, <2>2, CallStepCalls
<1>6. CASE (\E p \in Pages : PageNext(p)) /\ UNCHANGED untouched
  BY <1>6, PageTypes
<1>7. CASE BackupNext /\ UNCHANGED untouched
  BY <1>7, BackupTypes
<1>8. CASE UNCHANGED vars
  <2>1. UNCHANGED store /\ UNCHANGED untouched
    BY <1>8 DEF vars, untouched
  <2>2. StoreTypeOK' /\ call' = call /\ calls' = calls /\ used' = used
    BY <2>1, TypesOfStore, SameStore
  <2>3. TypeOK'
    BY <2>1, <2>2 DEF TypeOK, untouched, bridge, worker
  <2>4. \A t \in Tabs : /\ Sent(t, "request")' = Sent(t, "request") /\ Answers(t)' = Answers(t)
                        /\ requested'[t] = requested[t] /\ call'[t] = call[t]
    BY <2>1, <2>2 DEF untouched, bridge, Sent, Answers
  <2>5. \A t \in Tabs : OneRequest(t)'
    BY <2>4, SameRequest DEF CallsInv
  <2>6. \A c \in Callers : c \in Open' => c \in Open
    BY <2>2, <2>4 DEF Open, Runs
  <2>7. QED
    BY <2>2, <2>3, <2>5, <2>6, SameBudget
<1>9. QED
  BY <1>1, <1>2, <1>3, <1>4, <1>5, <1>6, <1>7, <1>8 DEF Next

(* Bridges, ports, contexts and calls keep the types declared for them, and*)
(* a call that is under way always finds an id to give: it runs while one  *)
(* trace of its request is left, and its ids are counted with it.          *)
THEOREM TypeCorrect == Spec => [](TypeOK /\ CallsInv)
<1>1. Init => TypeOK /\ CallsInv
  BY StoreAssumption, WorkerAssumption, InitTypes
<1>2. (TypeOK /\ CallsInv) /\ [Next]_vars => (TypeOK /\ CallsInv)'
  BY StoreAssumption, WorkerAssumption, StepTypes
<1>3. QED
  BY <1>1, <1>2, PTL DEF Spec

-----------------------------------------------------------------------------
(* The database as its calls leave it.                                     *)

(* Whatever is no step of a call leaves the data alone: at most a call is  *)
(* made or taken off.                                                      *)
LEMMA OutsideCalls ==
  ASSUME WorkerAssumption, TypeOK, [Next]_vars
  PROVE  \/ \E c \in Callers : CallSteps(c)
         \/ /\ UNCHANGED <<docs, used, nodes, edges, late>>
            /\ \A c \in Callers : call'[c] = call[c] \/ call'[c].op \notin {"cutEdges", "dropNode"}
            /\ UNCHANGED backup \/ BackupNext
<1> DEFINE Quiet == /\ UNCHANGED <<docs, used, nodes, edges, late>>
                    /\ \A c \in Callers : call'[c] = call[c] \/ call'[c].op \notin {"cutEdges", "dropNode"}
                    /\ UNCHANGED backup \/ BackupNext
<1>1. ASSUME UNCHANGED store PROVE Quiet
  BY <1>1 DEF store, graph
<1>2. ASSUME UNCHANGED <<docs, used, graph, call, backup>> PROVE Quiet
  BY <1>2 DEF graph
<1>3. \A r \in CollectionCalls \union GraphRequests : r.op \notin {"cutEdges", "dropNode"}
  BY DEF CollectionCalls, GraphRequests, GraphCalls
<1>4. ASSUME NEW c \in Callers, NEW r \in CollectionCalls \union GraphRequests \union {Idle},
             call' = [call EXCEPT ![c] = r], UNCHANGED <<docs, used, graph, backup>>
      PROVE  Quiet
  <2>1. r.op \notin {"cutEdges", "dropNode"}
    BY <1>3 DEF Idle
  <2>2. \A d \in Callers : call'[d] = IF d = c THEN r ELSE call[d]
    BY <1>4 DEF TypeOK, StoreTypeOK
  <2>3. UNCHANGED <<docs, used, nodes, edges, late>>
    BY <1>4 DEF graph
  <2>4. QED
    BY <1>4, <2>1, <2>2, <2>3
<1>5. ASSUME NEW t \in Tabs, TabNext(t) PROVE Quiet
  <2>1. UNCHANGED store \/ UNCHANGED <<docs, used, graph, call, backup>>
    BY <1>5 DEF TabNext, Construct, Lose, MakeRequest, Subscribe, Unsubscribe, Dispose, HandleMessage
  <2>2. QED
    BY <1>1, <1>2, <2>1
<1>6. ASSUME NEW t \in Tabs, WorkerTakes(t) PROVE Quiet
  <2>1. CASE OnRequest(t)
    <3>1. /\ Takes(t, "request") /\ call' = [call EXCEPT ![t] = Head(toWorker[t]).call]
          /\ UNCHANGED <<docs, used, graph, backup>>
      BY <2>1 DEF OnRequest
    <3>2. Head(toWorker[t]).call \in CollectionCalls
      BY <3>1, Taken, MessagesHold
    <3>3. t \in Callers
      BY DEF WorkerAssumption
    <3>4. QED
      BY <1>4, <3>1, <3>2, <3>3
  <2>2. CASE OnInit(t) \/ Refuse(t) \/ OnSubscribe(t) \/ OnUnsubscribe(t) \/ OnDispose(t)
    <3>1. UNCHANGED store
      BY <2>2 DEF OnInit, Refuse, OnSubscribe, OnUnsubscribe, OnDispose
    <3>2. QED
      BY <1>1, <3>1
  <2>3. QED
    BY <1>6, <2>1, <2>2 DEF WorkerTakes
<1>7. ASSUME NEW t \in Tabs, RequestEnds(t) PROVE Quiet
  BY <1>4, <1>7 DEF RequestEnds, WorkerAssumption
<1>8. ASSUME NEW d \in disposals, DisposeEnds(d) PROVE Quiet
  BY <1>1, <1>8 DEF DisposeEnds
<1>9. ASSUME NEW p \in Pages, PageNext(p) PROVE Quiet
  <2>1. PICK r \in CollectionCalls \union GraphRequests : Start(p, r)
    BY <1>9 DEF PageNext
  <2>2. call' = [call EXCEPT ![p] = r] /\ UNCHANGED <<docs, used, graph, backup>> /\ p \in Callers
    BY <1>9, <2>1 DEF PageNext, Start, WorkerAssumption
  <2>3. QED
    BY <1>4, <2>2
<1>10. ASSUME BackupNext PROVE Quiet
  <2>1. UNCHANGED data
    BY <1>10 DEF BackupNext, BackupNow, BackupStart, IntervalFires, Exported, BackupEnds,
                 BackupStop, StopReturns
  <2>2. QED
    BY <1>10, <2>1 DEF data, graph
<1>11. ASSUME UNCHANGED vars PROVE Quiet
  BY <1>1, <1>11 DEF vars
<1> HIDE DEF Quiet
<1>12. QED
  BY <1>5, <1>6, <1>7, <1>8, <1>9, <1>10, <1>11 DEF Next, Quiet

-----------------------------------------------------------------------------
(* Edges.  A removal that has listed its edges has them all but those that *)
(* came late, and after the cut only those are left.                       *)

EdgesListed ==
  \A c \in Callers : \A e \in edges :
    /\ call[c].op = "cutEdges" /\ call[c].node \in Ends(e) => e \in call[c].found \/ e \in late
    /\ call[c].op = "dropNode" /\ call[c].node \in Ends(e) => e \in late

EdgeInv == EdgesJoinNodes /\ EdgesListed

(* No step that only takes edges away or brings nodes, and starts no       *)
(* removal's part, disturbs it.                                            *)
LEMMA FewerEdges ==
  ASSUME EdgeInv, nodes \subseteq nodes', edges' \subseteq edges, late' = late,
         \A c \in Callers : call'[c] = call[c] \/ call'[c].op \notin {"cutEdges", "dropNode"}
  PROVE  EdgeInv'
<1>1. EdgesJoinNodes'
  BY DEF EdgeInv, EdgesJoinNodes, Ends
<1>2. ASSUME NEW c \in Callers, NEW e \in edges'
      PROVE  /\ call'[c].op = "cutEdges" /\ call'[c].node \in Ends(e) => e \in call'[c].found \/ e \in late'
             /\ call'[c].op = "dropNode" /\ call'[c].node \in Ends(e) => e \in late'
  BY <1>2 DEF EdgeInv, EdgesListed
<1>3. QED
  BY <1>1, <1>2 DEF EdgeInv, EdgesListed, Ends

LEMMA CallStepEdges ==
  ASSUME TypeOK, EdgeInv, NEW c \in Callers, CallSteps(c)
  PROVE  EdgeInv'
<1>1. /\ \A next : call' = [call EXCEPT ![c] = next] =>
              call'[c] = next /\ \A d \in Callers \ {c} : call'[d] = call[d]
      /\ Settled.op = "settled"
  BY RunningHolds DEF TypeOK, StoreTypeOK
<1>2. CASE AddEdge(c)
  <2> DEFINE id == CHOOSE i \in FreshIds : TRUE
             e == [id |-> id, from |-> call[c].from, to |-> call[c].to]
  <2>1. /\ call'[c].op = "settled" /\ \A d \in Callers \ {c} : call'[d] = call[d]
        /\ edges' = edges \union {e}
        /\ late' = IF \E n \in Ends(e) : Doomed(n) THEN late \union {e} ELSE late
        /\ nodes' = nodes
    BY <1>1, <1>2 DEF AddEdge, Finish, Proceed
  <2> HIDE DEF e
  <2>2. e \in late' \/ \A n \in Ends(e) : ~Doomed(n)
    BY <2>1
  <2>3. late \subseteq late'
    BY <2>1
  <2>4. EdgesJoinNodes'
    <3>1. e \in late' \/ Ends(e) \subseteq nodes
      BY <2>2 DEF Doomed
    <3>2. QED
      BY <2>1, <2>3, <3>1 DEF EdgeInv, EdgesJoinNodes, Ends
  <2>5. ASSUME NEW d \in Callers, NEW f \in edges'
        PROVE  /\ call'[d].op = "cutEdges" /\ call'[d].node \in Ends(f) => f \in call'[d].found \/ f \in late'
               /\ call'[d].op = "dropNode" /\ call'[d].node \in Ends(f) => f \in late'
    <3>1. CASE d = c
      BY <2>1, <3>1
    <3>2. CASE d # c /\ f \in edges
      BY <2>1, <2>3, <3>2 DEF EdgeInv, EdgesListed
    <3>3. CASE d # c /\ f = e
      <4>1. call'[d] = call[d]
        BY <2>1, <3>3
      <4>2. e \in late' \/ ~(call[d].op \in {"cutEdges", "dropNode"} /\ call[d].node \in Ends(e))
        BY <2>2 DEF Doomed
      <4>3. QED
        BY <3>3, <4>1, <4>2
    <3>4. QED
      BY <2>1, <3>1, <3>2, <3>3
  <2>6. QED
    BY <2>4, <2>5 DEF EdgeInv, EdgesListed, Ends
<1>3. CASE RemoveListsEdges(c)
  <2>1. /\ call'[c] = [op |-> "cutEdges", node |-> call[c].node, found |-> EdgesOf(call[c].node)]
        /\ \A d \in Callers \ {c} : call'[d] = call[d]
        /\ UNCHANGED <<nodes, edges, late>>
    BY <1>1, <1>3 DEF RemoveListsEdges, Proceed, graph
  <2>2. \A e \in edges : call'[c].op = "cutEdges" /\ (call'[c].node \in Ends(e) => e \in call'[c].found)
    BY <2>1 DEF EdgesOf
  <2>3. EdgesListed'
    BY <2>1, <2>2 DEF EdgeInv, EdgesListed, Ends
  <2>4. QED
    BY <2>1, <2>3 DEF EdgeInv, EdgesJoinNodes, Ends
<1>4. CASE RemoveCutsEdges(c)
  <2>1. /\ call[c].op = "cutEdges"
        /\ call'[c] = [op |-> "dropNode", node |-> call[c].node]
        /\ \A d \in Callers \ {c} : call'[d] = call[d]
        /\ edges' = edges \ call[c].found /\ UNCHANGED <<nodes, late>>
    BY <1>1, <1>4 DEF RemoveCutsEdges, Proceed
  <2>2. \A e \in edges' : call'[c].op = "dropNode" /\ (call'[c].node \in Ends(e) => e \in late)
    BY <2>1 DEF EdgeInv, EdgesListed
  <2>3. EdgesListed'
    BY <2>1, <2>2 DEF EdgeInv, EdgesListed, Ends
  <2>4. QED
    BY <2>1, <2>3 DEF EdgeInv, EdgesJoinNodes, Ends
<1>5. CASE RemoveDropsNode(c)
  <2>1. /\ call[c].op = "dropNode"
        /\ call'[c].op = "settled" /\ \A d \in Callers \ {c} : call'[d] = call[d]
        /\ nodes' = nodes \ {call[c].node} /\ UNCHANGED <<edges, late>>
    BY <1>1, <1>5 DEF RemoveDropsNode, Finish, Proceed
  <2>2. EdgesJoinNodes'
    BY <2>1 DEF EdgeInv, EdgesJoinNodes, EdgesListed, Ends
  <2>3. EdgesListed'
    BY <2>1 DEF EdgeInv, EdgesListed, Ends
  <2>4. QED
    BY <2>2, <2>3 DEF EdgeInv
<1>6. CASE UpdateFinds(c) \/ DeleteFinds(c)
  <2>1. /\ call'[c].op \in {"put", "bulkDelete"} /\ \A d \in Callers \ {c} : call'[d] = call[d]
        /\ UNCHANGED <<nodes, edges, late>>
    BY <1>1, <1>6 DEF UpdateFinds, DeleteFinds, Proceed, graph
  <2>2. QED
    BY <2>1, FewerEdges
<1>7. ASSUME call' = [call EXCEPT ![c] = Settled], nodes \subseteq nodes', edges' \subseteq edges,
             late' = late
      PROVE  EdgeInv'
  <2>1. \A d \in Callers : call'[d] = call[d] \/ call'[d].op \notin {"cutEdges", "dropNode"}
    BY <1>1, <1>7
  <2>2. QED
    BY <1>7, <2>1, FewerEdges
<1>8. CASE AddNode(c) \/ RemoveEdge(c)
  <2>1. /\ call' = [call EXCEPT ![c] = Settled] /\ nodes \subseteq nodes' /\ edges' \subseteq edges
        /\ late' = late
    BY <1>8 DEF AddNode, RemoveEdge, Finish, Proceed
  <2>2. QED
    BY <1>7, <2>1
<1>9. CASE Insert(c) \/ InsertMany(c) \/ ClearAll(c) \/ UpdatePuts(c) \/ DeleteErases(c) \/ CallFails(c)
  <2>1. call' = [call EXCEPT ![c] = Settled] /\ UNCHANGED graph
    BY <1>9 DEF Insert, InsertMany, ClearAll, UpdatePuts, DeleteErases, CallFails, Finish, Proceed
  <2>2. QED
    BY <1>7, <2>1 DEF graph
<1>10. QED
  BY <1>2, <1>3, <1>4, <1>5, <1>6, <1>8, <1>9 DEF CallSteps

(* removeNode leaves no edge of its node behind, however many calls run    *)
(* between its reads and its deletes, but those added while, or after, it  *)
(* ran.                                                                    *)
THEOREM EdgesEndWithNodes == Spec => []EdgesJoinNodes
<1>1. Init => EdgeInv
  BY DEF Init, StoreInit, EdgeInv, EdgesJoinNodes, EdgesListed
<1>2. TypeOK /\ EdgeInv /\ [Next]_vars => EdgeInv'
  <2>1. SUFFICES ASSUME TypeOK, EdgeInv, [Next]_vars PROVE EdgeInv'
    OBVIOUS
  <2>2. CASE \E c \in Callers : CallSteps(c)
    BY <2>1, <2>2, CallStepEdges
  <2>3. QED
    BY <2>1, <2>2, OutsideCalls, FewerEdges, WorkerAssumption
<1>3. EdgeInv => EdgesJoinNodes
  BY DEF EdgeInv
<1>4. QED
  BY <1>1, <1>2, <1>3, TypeCorrect, PTL DEF Spec

-----------------------------------------------------------------------------
(* Documents come with an id nobody had, or back through an update that had*)
(* found them; they go through a delete that had found them, or a clear.   *)
THEOREM DocsFollowCalls == Spec => DocsAnswerToCalls
<1> DEFINE Back(d) == d \in used => \E c \in Callers : call[c].op = "put" /\ d \in DOMAIN call[c].found
           Gone(d) == \E c \in Callers :
                        call[c].op = "clear" \/ (call[c].op = "bulkDelete" /\ d \in call[c].found)
           Kept == /\ \A d \in DOMAIN docs' \ DOMAIN docs : Back(d)
                   /\ \A d \in DOMAIN docs \ DOMAIN docs' : Gone(d)
<1>1. ASSUME TypeOK, CallsInv, [Next]_vars PROVE Kept
  <2>1. ASSUME NEW new, Write(new)
        PROVE  DOMAIN docs' = DOMAIN new \union DOMAIN docs
    BY <2>1 DEF Write
  <2>2. ASSUME NEW ids, Erase(ids) PROVE DOMAIN docs' = DOMAIN docs \ ids
    BY <2>2 DEF Erase, Restrict
  <2>3. ASSUME NEW c \in Callers, CallSteps(c) PROVE Kept
    <3>1. c \in Open /\ IdsLeft /\ calls \in 0 .. MaxCalls
      BY <1>1, <2>3, CallGoesOn, TypesOfStore DEF Open, CallsInv
    <3>2. CASE Insert(c)
      <4> DEFINE id == CHOOSE i \in FreshIds : TRUE
      <4>1. id \notin used
        BY <3>1, FreshOnes, StoreAssumption DEF FreshIds
      <4>2. Write([d \in {id} |-> {}])
        BY <3>2 DEF Insert
      <4> HIDE DEF id
      <4>3. DOMAIN docs' = {id} \union DOMAIN docs
        BY <2>1, <4>2
      <4>4. QED
        BY <4>1, <4>3
    <3>3. CASE InsertMany(c)
      <4> DEFINE ids == CHOOSE S \in SUBSET FreshIds : Cardinality(S) = 2
      <4>1. ids \in SUBSET FreshIds
        BY <3>1, FreshOnes, StoreAssumption
      <4>2. Write([d \in ids |-> {}])
        BY <3>3 DEF InsertMany
      <4> HIDE DEF ids
      <4>3. DOMAIN docs' = ids \union DOMAIN docs
        BY <2>1, <4>2
      <4>4. QED
        BY <4>1, <4>3 DEF FreshIds
    <3>4. CASE UpdatePuts(c)
      <4>1. /\ call[c].op = "put"
            /\ Write([d \in DOMAIN call[c].found |-> call[c].found[d] \union {call[c].field}])
        BY <3>4 DEF UpdatePuts, Finish, Proceed
      <4>2. DOMAIN docs' = DOMAIN call[c].found \union DOMAIN docs
        BY <2>1, <4>1
      <4>3. QED
        BY <4>1, <4>2
    <3>5. CASE DeleteErases(c)
      <4>1. call[c].op = "bulkDelete" /\ DOMAIN docs' = DOMAIN docs \ call[c].found
        BY <2>2, <3>5 DEF DeleteErases
      <4>2. QED
        BY <4>1
    <3>6. CASE ClearAll(c)
      <4>1. call[c].op = "clear" /\ DOMAIN docs' = DOMAIN docs \ DOMAIN docs
        BY <2>2, <3>6 DEF ClearAll, Finish, Proceed
      <4>2. QED
        BY <4>1
    <3>7. CASE docs' = docs
      BY <3>7
    <3>8. QED
      BY <2>3, <3>2, <3>3, <3>4, <3>5, <3>6, <3>7
         DEF CallSteps, AddNode, AddEdge, RemoveEdge, UpdateFinds, DeleteFinds, RemoveListsEdges,
             RemoveCutsEdges, RemoveDropsNode, CallFails
  <2>4. CASE docs' = docs
    BY <2>4
  <2>5. QED
    BY <1>1, <2>3, <2>4, OutsideCalls, WorkerAssumption
<1>2. TypeOK /\ CallsInv /\ [Next]_vars => [Kept]_store
  BY <1>1
<1>3. QED
  BY <1>2, TypeCorrect, PTL DEF Spec, DocsAnswerToCalls

-----------------------------------------------------------------------------
(* stop() clears the interval before it waits, so that nothing is started  *)
(* between the end of the backup it waited for and its return, nor later.  *)
THEOREM StopIsLast == Spec => []StopWaits
<1>1. Init => StopWaits
  BY DEF Init, StoreInit, StopWaits
<1>2. TypeOK /\ StopWaits /\ [Next]_vars => StopWaits'
  <2>1. SUFFICES ASSUME TypeOK, StopWaits, [Next]_vars PROVE StopWaits'
    OBVIOUS
  <2>2. stop = "waiting" => ~timer
    BY <2>1 DEF TypeOK, StoreTypeOK
  <2>3. CASE UNCHANGED backup
    BY <2>1, <2>3 DEF StopWaits, backup
  <2>4. CASE \E c \in Callers : CallSteps(c)
    <3>1. UNCHANGED backup
      BY <2>1, <2>4, CallGoesOn, TypesOfStore DEF backup
    <3>2. QED
      BY <2>3, <3>1
  <2>5. CASE BackupNext
    <3>1. CASE BackupNow \/ BackupStart
      BY <3>1 DEF BackupNow, BackupStart, StopWaits
    <3>2. CASE IntervalFires
      BY <2>1, <3>2 DEF IntervalFires, StopWaits
    <3>3. CASE Exported \/ BackupEnds
      BY <2>1, <3>3 DEF Exported, BackupEnds, StopWaits
    <3>4. CASE BackupStop
      BY <3>4 DEF BackupStop, StopWaits
    <3>5. CASE StopReturns
      BY <2>2, <3>5 DEF StopReturns, StopWaits
    <3>6. QED
      BY <2>5, <3>1, <3>2, <3>3, <3>4, <3>5 DEF BackupNext
  <2>6. QED
    BY <2>1, <2>3, <2>4, <2>5, OutsideCalls, WorkerAssumption
<1>3. QED
  BY <1>1, <1>2, TypeCorrect, PTL DEF Spec

-----------------------------------------------------------------------------
(* Queues of the ports: init comes first and dispose last, and what a tab  *)
(* is follows from what it has sent.                                       *)

Gone(t)    == tab[t] = "disposed" /\ Len(toWorker[t]) = 0
Present(t) == tab[t] \in {"new", "waiting", "ready"}

(* Its init is yet to be handled.                                          *)
MayCome(t) == tab[t] = "new" \/ Sent(t, "init") # {}

QueueOK(t) ==
  /\ tab[t] = "new" => Len(toWorker[t]) = 0
  /\ \A i \in Sent(t, "init") : i = 1
  /\ \A i \in Sent(t, "dispose") : i = Len(toWorker[t]) /\ tab[t] = "disposed"
  /\ tab[t] = "disposed" /\ Len(toWorker[t]) # 0 => Len(toWorker[t]) \in Sent(t, "dispose")
  /\ toTab[t] # <<>> => tab[t] \in {"waiting", "ready"}

(* The context's subscriptions are known by their ports too, and none is of*)
(* a tab that is gone; a context to come has none.                         *)
SubsInv ==
  /\ \A t \in Tabs : MayCome(t) => context # t /\ subscriptions[t] = {}
  /\ context # Nobody => \A t \in subscriptions[context] : t \in portSubscriptions[t] /\ ~Gone(t)

HomesInv ==
  \A t \in Tabs : Present(t) /\ home[t] # Nobody => home[t] \notin closing /\ t \in ports[home[t]]

WorkerInv == (\A t \in Tabs : QueueOK(t)) /\ SubsInv /\ HomesInv

(* Places in a queue hold one message.                                     *)
LEMMA OneKind ==
  ASSUME NEW t, NEW i, NEW j \in {"init", "dispose"}, NEW k, i \in Sent(t, j), i \in Sent(t, k)
  PROVE  j = k
BY DEF Sent

LEMMA SameQueue ==
  ASSUME NEW t \in Tabs, toWorker'[t] = toWorker[t], toTab'[t] = toTab[t], tab'[t] = tab[t]
  PROVE  /\ \A k : Sent(t, k)' = Sent(t, k)
         /\ QueueOK(t) => QueueOK(t)'
         /\ MayCome(t)' = MayCome(t) /\ Gone(t)' = Gone(t) /\ Present(t)' = Present(t)
<1>1. \A k : Sent(t, k)' = Sent(t, k)
  BY DEF Sent
<1>2. Sent(t, "init")' = Sent(t, "init") /\ Sent(t, "dispose")' = Sent(t, "dispose")
  BY <1>1
<1>3. QueueOK(t) => QueueOK(t)'
  BY <1>2 DEF QueueOK
<1>4. QED
  BY <1>1, <1>2, <1>3 DEF MayCome, Gone, Present

LEMMA TakenQueue ==
  ASSUME TypeOK, NEW t \in Tabs, NEW k, Takes(t, k), QueueOK(t),
         toTab'[t] # <<>> => tab[t] \in {"waiting", "ready"}
  PROVE  /\ QueueOK(t)' /\ ~MayCome(t)' /\ tab' = tab
         /\ k = "dispose" => tab[t] = "disposed"
         /\ k = "init" => MayCome(t)
         /\ k # "dispose" => ~Gone(t)'
<1> DEFINE n == Len(toWorker[t])
<1>1. /\ n \in Nat /\ Len(toWorker'[t]) = n - 1 /\ 1 \in Sent(t, k)
      /\ \A kind : Sent(t, kind)' = {i \in 1 .. n - 1 : i + 1 \in Sent(t, kind)}
  BY Taken
<1>2. /\ Sent(t, "init")' = {i \in 1 .. n - 1 : i + 1 \in Sent(t, "init")}
      /\ Sent(t, "dispose")' = {i \in 1 .. n - 1 : i + 1 \in Sent(t, "dispose")}
  BY <1>1
<1>3. tab' = tab
  BY DEF Takes, bridge
<1>4. n >= 1
  BY <1>1 DEF Sent
<1> HIDE DEF n
<1>5. Sent(t, "init")' = {}
  <2>1. \A i \in Sent(t, "init") : i = 1
    BY DEF QueueOK
  <2>2. \A i \in 1 .. n - 1 : i + 1 # 1
    BY <1>1
  <2>3. QED
    BY <1>2, <2>1, <2>2
<1>6. \A i \in Sent(t, "dispose")' : i = n - 1 /\ tab[t] = "disposed"
  BY <1>1, <1>2 DEF QueueOK, n
<1>7. tab[t] = "disposed" => n \in Sent(t, "dispose")
  BY <1>1, <1>4 DEF QueueOK, n
<1>8. tab[t] = "disposed" /\ n - 1 # 0 => n - 1 \in Sent(t, "dispose")'
  BY <1>1, <1>2, <1>4, <1>7
<1>9. k # "dispose" /\ tab[t] = "disposed" => n # 1
  BY <1>1, <1>7, OneKind
<1>10. tab[t] # "new"
  BY <1>4 DEF QueueOK, n
<1>11. QueueOK(t)'
  BY <1>1, <1>3, <1>5, <1>6, <1>8, <1>10 DEF QueueOK
<1>12. k = "dispose" => tab[t] = "disposed"
  BY <1>1 DEF QueueOK
<1>13. QED
  BY <1>1, <1>3, <1>5, <1>9, <1>10, <1>11, <1>12 DEF MayCome, Gone

LEMMA AnsweredQueue ==
  ASSUME TypeOK, NEW t \in Tabs, NEW m, Answer(t, m), QueueOK(t)
  PROVE  toTab'[t] # <<>> => tab[t] \in {"waiting", "ready"}
BY DEF Answer, QueueOK

(* What the tabs do, and the messages the worker takes of them, while the  *)
(* contexts stay as they are.                                              *)
LEMMA SameContexts ==
  ASSUME TypeOK, WorkerInv, UNCHANGED <<context, ports, subscriptions, portSubscriptions, closing, home>>,
         \A t \in Tabs : /\ QueueOK(t)'
                         /\ MayCome(t)' => MayCome(t)
                         /\ Gone(t)' => Gone(t)
                         /\ Present(t)' => Present(t)
  PROVE  WorkerInv'
<1>1. SubsInv'
  BY DEF WorkerInv, SubsInv, TypeOK
<1>2. HomesInv'
  BY DEF WorkerInv, HomesInv
<1>3. QED
  BY <1>1, <1>2 DEF WorkerInv

LEMMA TabKeeps ==
  ASSUME WorkerAssumption, TypeOK, WorkerInv, NEW t \in Tabs, TabNext(t)
  PROVE  WorkerInv'
<1> DEFINE n == Len(toWorker[t])
<1>1. QueueOK(t) /\ n \in Nat /\ tab \in [Tabs -> {"new", "waiting", "ready", "disposed", "lost"}]
  BY DEF WorkerInv, TypeOK
<1>2. UNCHANGED worker
  BY DEF TabNext, Construct, Lose, MakeRequest, Subscribe, Unsubscribe, Dispose, HandleMessage
<1>3. \A u \in Tabs \ {t} : toWorker'[u] = toWorker[u] /\ toTab'[u] = toTab[u] /\ tab'[u] = tab[u]
  <2>1. \/ UNCHANGED toWorker
        \/ \E m : toWorker' = [toWorker EXCEPT ![t] = Append(@, m)]
    BY DEF TabNext, Construct, Lose, MakeRequest, Subscribe, Unsubscribe, Dispose, HandleMessage, Post
  <2>2. UNCHANGED toTab \/ \E rest : toTab' = [toTab EXCEPT ![t] = rest]
    BY DEF TabNext, Construct, Lose, MakeRequest, Subscribe, Unsubscribe, Dispose, HandleMessage
  <2>3. UNCHANGED tab \/ \E next : tab' = [tab EXCEPT ![t] = next]
    BY DEF TabNext, Construct, Lose, MakeRequest, Subscribe, Unsubscribe, Dispose, HandleMessage
  <2>4. QED
    BY <2>1, <2>2, <2>3 DEF TypeOK
<1>4. SUFFICES /\ QueueOK(t)' /\ (MayCome(t)' => MayCome(t)) /\ ~Gone(t)'
               /\ Present(t)' => Present(t)
  <2>1. \A u \in Tabs \ {t} : /\ QueueOK(u)' /\ MayCome(u)' = MayCome(u)
                              /\ Gone(u)' = Gone(u) /\ Present(u)' = Present(u)
    BY <1>3, SameQueue DEF WorkerInv
  <2>2. QED
    BY <1>2, <1>4, <2>1, SameContexts DEF worker
<1>5. ASSUME NEW m \in ToWorker, Post(t, m)
      PROVE  /\ Len(toWorker'[t]) = n + 1
             /\ Sent(t, "init")' = Sent(t, "init") \union (IF m.kind = "init" THEN {n + 1} ELSE {})
             /\ Sent(t, "dispose")' = Sent(t, "dispose") \union (IF m.kind = "dispose" THEN {n + 1} ELSE {})
  BY <1>5, Posted
<1>6. CASE Construct(t)
  <2>1. Post(t, [kind |-> "init"]) /\ tab[t] = "new" /\ tab'[t] = "waiting" /\ toTab' = toTab
    BY <1>1, <1>6 DEF Construct
  <2>2. /\ Len(toWorker'[t]) = n + 1
        /\ Sent(t, "init")' = Sent(t, "init") \union {n + 1} /\ Sent(t, "dispose")' = Sent(t, "dispose")
    BY <1>5, <2>1, MessagesHold
  <2>3. n = 0 /\ Sent(t, "dispose") = {} /\ Sent(t, "init") = {}
    BY <1>1, <2>1 DEF QueueOK, Sent
  <2>4. QED
    BY <1>1, <2>1, <2>2, <2>3 DEF QueueOK, MayCome, Gone, Present
<1>7. ASSUME NEW m \in ToWorker, m.kind \notin {"init", "dispose"}, Post(t, m), tab[t] = "ready",
             tab' = tab, toTab' = toTab
      PROVE  /\ QueueOK(t)' /\ (MayCome(t)' => MayCome(t)) /\ ~Gone(t)'
             /\ Present(t)' => Present(t)
  <2>1. /\ Len(toWorker'[t]) = n + 1
        /\ Sent(t, "init")' = Sent(t, "init") /\ Sent(t, "dispose")' = Sent(t, "dispose")
    BY <1>5, <1>7
  <2>2. QED
    BY <1>1, <1>7, <2>1 DEF QueueOK, MayCome, Gone, Present
<1>8. CASE MakeRequest(t)
  <2>1. PICK c \in CollectionCalls : Post(t, [kind |-> "request", call |-> c])
    BY <1>8 DEF MakeRequest
  <2>2. [kind |-> "request", call |-> c] \in ToWorker
    BY <2>1, MessagesHold
  <2>3. tab[t] = "ready" /\ tab' = tab /\ toTab' = toTab
    BY <1>8 DEF MakeRequest
  <2>4. QED
    BY <1>7, <2>1, <2>2, <2>3
<1>9. CASE Subscribe(t)
  <2>1. Post(t, [kind |-> "subscribe"]) /\ tab[t] = "ready" /\ tab' = tab /\ toTab' = toTab
    BY <1>9 DEF Subscribe
  <2>2. QED
    BY <1>7, <2>1, MessagesHold
<1>10. CASE Unsubscribe(t)
  <2>1. Post(t, [kind |-> "unsubscribe", id |-> Nobody]) /\ tab[t] = "ready" /\ tab' = tab /\ toTab' = toTab
    BY <1>10 DEF Unsubscribe
  <2>2. QED
    BY <1>7, <2>1, MessagesHold
<1>11. CASE Dispose(t)
  <2>1. Post(t, [kind |-> "dispose"]) /\ tab[t] = "ready" /\ tab'[t] = "disposed" /\ toTab'[t] = <<>>
    BY <1>1, <1>11 DEF Dispose, TypeOK
  <2>2. /\ Len(toWorker'[t]) = n + 1
        /\ Sent(t, "init")' = Sent(t, "init") /\ Sent(t, "dispose")' = Sent(t, "dispose") \union {n + 1}
    BY <1>5, <2>1, MessagesHold
  <2>3. QED
    BY <1>1, <2>1, <2>2 DEF QueueOK, MayCome, Gone, Present
<1>12. CASE Lose(t)
  <2>1. /\ tab[t] \in {"waiting", "ready"} /\ tab'[t] = "lost" /\ toTab'[t] = <<>> /\ toWorker' = toWorker
    BY <1>1, <1>12 DEF Lose, TypeOK
  <2>2. Sent(t, "init")' = Sent(t, "init") /\ Sent(t, "dispose")' = Sent(t, "dispose")
    BY <2>1 DEF Sent
  <2>3. QED
    BY <1>1, <2>1, <2>2 DEF QueueOK, MayCome, Gone, Present
<1>13. CASE HandleMessage(t)
  <2>1. toTab[t] # <<>> /\ toWorker' = toWorker /\ tab'[t] \in {tab[t], "ready"}
    BY <1>1, <1>13 DEF HandleMessage
  <2>2. tab[t] \in {"waiting", "ready"} /\ tab'[t] \in {"waiting", "ready"}
    BY <1>1, <2>1 DEF QueueOK
  <2>3. Sent(t, "init")' = Sent(t, "init") /\ Sent(t, "dispose")' = Sent(t, "dispose")
    BY <2>1 DEF Sent
  <2>4. QED
    BY <1>1, <2>1, <2>2, <2>3 DEF QueueOK, MayCome, Gone, Present
<1>14. QED
  BY <1>6, <1>8, <1>9, <1>10, <1>11, <1>12, <1>13 DEF TabNext

LEMMA WorkerKeeps ==
  ASSUME WorkerAssumption, TypeOK, WorkerInv, NEW t \in Tabs, WorkerTakes(t)
  PROVE  WorkerInv'
<1>1. QueueOK(t) /\ Nobody \notin Tabs /\ context \in Tabs \union {Nobody}
  BY DEF WorkerInv, WorkerAssumption, TypeOK
<1>2. \A m : Answer(t, m) => \A u \in Tabs \ {t} : toTab'[u] = toTab[u]
  BY DEF Answer, TypeOK
<1>3. ASSUME NEW k, Takes(t, k), \A u \in Tabs \ {t} : toTab'[u] = toTab[u],
             toTab'[t] # <<>> => tab[t] \in {"waiting", "ready"}
      PROVE  /\ \A u \in Tabs : /\ QueueOK(u)'
                                /\ MayCome(u)' => MayCome(u) /\ u # t
                                /\ Present(u)' => Present(u)
             /\ \A u \in Tabs \ {t} : Gone(u)' => Gone(u)
             /\ k # "dispose" => ~Gone(t)'
             /\ k = "init" => MayCome(t)
             /\ k = "dispose" => tab[t] = "disposed"
             /\ tab' = tab
  <2>1. \A u \in Tabs \ {t} : toWorker'[u] = toWorker[u]
    BY <1>3, Taken
  <2>2. tab' = tab
    BY <1>3 DEF Takes, bridge
  <2>3. \A u \in Tabs \ {t} : /\ QueueOK(u)' /\ MayCome(u)' = MayCome(u)
                              /\ Gone(u)' = Gone(u) /\ Present(u)' = Present(u)
    BY <1>3, <2>1, <2>2, SameQueue DEF WorkerInv
  <2>4. /\ QueueOK(t)' /\ ~MayCome(t)' /\ tab' = tab
        /\ k = "dispose" => tab[t] = "disposed"
        /\ k = "init" => MayCome(t)
        /\ k # "dispose" => ~Gone(t)'
    BY <1>1, <1>3, TakenQueue
  <2>5. Present(t)' => Present(t)
    BY <2>2 DEF Present
  <2>6. QED
    BY <2>2, <2>3, <2>4, <2>5
<1>4. CASE OnInit(t)
  <2> DEFINE c == EnsureContext(t)
  <2>1. Takes(t, "init") /\ Answer(t, "init")
    BY <1>4 DEF OnInit
  <2>2. toTab'[t] # <<>> => tab[t] \in {"waiting", "ready"}
    BY <1>1, <2>1, AnsweredQueue
  <2>3. /\ \A u \in Tabs : /\ QueueOK(u)'
                           /\ MayCome(u)' => MayCome(u) /\ u # t
                           /\ Present(u)' => Present(u)
        /\ \A u \in Tabs : Gone(u)' => Gone(u)
        /\ MayCome(t)
    BY <1>2, <1>3, <2>1, <2>2
  <2>4. c \in Tabs /\ (c = context \/ (c = t /\ context = Nobody))
    BY <1>1 DEF EnsureContext
  <2> HIDE DEF c
  <2>5. /\ context' = c /\ ports' = [ports EXCEPT ![c] = @ \union {t}]
        /\ home' = [home EXCEPT ![t] = IF c \in closing THEN Nobody ELSE c]
        /\ UNCHANGED <<subscriptions, portSubscriptions, closing>>
    BY <1>4 DEF OnInit, c
  <2>6. SubsInv'
    <3>1. \A u \in Tabs : MayCome(u)' => context' # u /\ subscriptions'[u] = {}
      BY <2>3, <2>4, <2>5 DEF WorkerInv, SubsInv
    <3>2. \A u \in subscriptions'[context'] : u \in portSubscriptions'[u] /\ ~Gone(u)'
      <4>1. CASE c = context
        BY <1>1, <2>3, <2>4, <2>5, <4>1 DEF WorkerInv, SubsInv, TypeOK
      <4>2. CASE c = t
        BY <2>3, <2>5, <4>2 DEF WorkerInv, SubsInv
      <4>3. QED
        BY <2>4, <4>1, <4>2
    <3>3. QED
      BY <3>1, <3>2 DEF SubsInv
  <2>7. HomesInv'
    <3>1. /\ \A d \in Tabs : ports[d] \subseteq ports'[d]
          /\ t \in ports'[c]
          /\ home'[t] = IF c \in closing THEN Nobody ELSE c
          /\ \A u \in Tabs \ {t} : home'[u] = home[u]
          /\ \A u \in Tabs : home[u] \in Tabs \union {Nobody}
      BY <2>4, <2>5 DEF TypeOK
    <3>2. ASSUME NEW u \in Tabs, Present(u)', home'[u] # Nobody
          PROVE  home'[u] \notin closing' /\ u \in ports'[home'[u]]
      <4>1. CASE u = t
        BY <2>5, <3>1, <3>2, <4>1
      <4>2. CASE u # t
        BY <2>3, <2>5, <3>1, <3>2, <4>2 DEF WorkerInv, HomesInv
      <4>3. QED
        BY <4>1, <4>2
    <3>3. QED
      BY <3>2 DEF HomesInv
  <2>8. QED
    BY <2>3, <2>6, <2>7 DEF WorkerInv
<1>5. CASE Refuse(t) \/ OnRequest(t)
  <2>1. /\ Takes(t, "request") /\ UNCHANGED worker
        /\ Answer(t, "response") \/ toTab' = toTab
    BY <1>5 DEF Refuse, OnRequest
  <2>2. toTab'[t] # <<>> => tab[t] \in {"waiting", "ready"}
    BY <1>1, <2>1, AnsweredQueue DEF QueueOK
  <2>3. QED
    BY <1>2, <1>3, <2>1, <2>2, SameContexts DEF worker
<1>6. ASSUME NEW k, Takes(t, k), toTab' = toTab
      PROVE  toTab'[t] # <<>> => tab[t] \in {"waiting", "ready"}
  BY <1>1, <1>6 DEF QueueOK
<1>7. CASE OnSubscribe(t)
  <2>1. Takes(t, "subscribe") /\ UNCHANGED <<toTab, context, ports, closing, home>>
    BY <1>7 DEF OnSubscribe
  <2>2. /\ \A u \in Tabs : /\ QueueOK(u)'
                           /\ MayCome(u)' => MayCome(u) /\ u # t
                           /\ Present(u)' => Present(u)
        /\ \A u \in Tabs : Gone(u)' => Gone(u)
        /\ ~Gone(t)'
    BY <1>3, <1>6, <2>1
  <2>3. CASE context = Nobody
    <3>1. UNCHANGED <<subscriptions, portSubscriptions>>
      BY <1>7, <2>3 DEF OnSubscribe
    <3>2. QED
      BY <2>1, <2>2, <3>1, SameContexts
  <2>4. CASE context # Nobody
    <3>1. /\ context \in Tabs
          /\ subscriptions'[context] = subscriptions[context] \union {t}
          /\ \A c \in Tabs \ {context} : subscriptions'[c] = subscriptions[c]
          /\ t \in portSubscriptions'[t]
          /\ \A u \in Tabs : portSubscriptions[u] \subseteq portSubscriptions'[u]
      <4>1. /\ subscriptions' = [subscriptions EXCEPT ![context] = @ \union {t}]
            /\ portSubscriptions' = [portSubscriptions EXCEPT ![t] = @ \union {t}]
        BY <1>7, <2>4 DEF OnSubscribe
      <4>2. context \in Tabs
        BY <1>1, <2>4
      <4>3. \A u \in Tabs : portSubscriptions'[u] =
                 IF u = t THEN portSubscriptions[t] \union {t} ELSE portSubscriptions[u]
        BY <4>1 DEF TypeOK
      <4>4. QED
        BY <4>1, <4>2, <4>3 DEF TypeOK
    <3>2. subscriptions[context] \subseteq Tabs
      BY <3>1 DEF TypeOK
    <3>3. SubsInv'
      <4>1. \A u \in Tabs : MayCome(u)' => context' # u /\ subscriptions'[u] = {}
        BY <2>1, <2>2, <3>1 DEF WorkerInv, SubsInv
      <4>2. \A u \in subscriptions'[context'] : u \in portSubscriptions'[u] /\ ~Gone(u)'
        BY <2>1, <2>2, <2>4, <3>1, <3>2 DEF WorkerInv, SubsInv
      <4>3. QED
        BY <4>1, <4>2 DEF SubsInv
    <3>4. HomesInv'
      BY <2>1, <2>2 DEF WorkerInv, HomesInv
    <3>5. QED
      BY <2>2, <3>3, <3>4 DEF WorkerInv
  <2>5. QED
    BY <2>3, <2>4
<1>8. CASE OnUnsubscribe(t)
  <2>1. Takes(t, "unsubscribe") /\ UNCHANGED <<toTab, context, ports, closing, home>>
    BY <1>8 DEF OnUnsubscribe
  <2>2. /\ \A u \in Tabs : /\ QueueOK(u)'
                           /\ MayCome(u)' => MayCome(u) /\ u # t
                           /\ Present(u)' => Present(u)
        /\ \A u \in Tabs : Gone(u)' => Gone(u)
    BY <1>3, <1>6, <2>1
  <2>3. CASE context = Nobody
    <3>1. UNCHANGED <<subscriptions, portSubscriptions>>
      BY <1>8, <2>3 DEF OnUnsubscribe
    <3>2. QED
      BY <2>1, <2>2, <3>1, SameContexts
  <2>4. CASE context # Nobody
    <3>1. PICK id : /\ subscriptions' = [subscriptions EXCEPT ![context] = @ \ {id}]
                    /\ portSubscriptions' = [portSubscriptions EXCEPT ![t] = @ \ {id}]
      BY <1>8, <2>4 DEF OnUnsubscribe
    <3>2. /\ context \in Tabs
          /\ subscriptions'[context] = subscriptions[context] \ {id}
          /\ \A c \in Tabs : subscriptions'[c] \subseteq subscriptions[c]
          /\ \A u \in Tabs : portSubscriptions[u] \ {id} \subseteq portSubscriptions'[u]
          /\ subscriptions[context] \subseteq Tabs
      BY <1>1, <2>4, <3>1 DEF TypeOK
    <3>3. SubsInv'
      <4>1. \A u \in Tabs : MayCome(u)' => context' # u /\ subscriptions'[u] = {}
        BY <2>1, <2>2, <3>2 DEF WorkerInv, SubsInv
      <4>2. \A u \in subscriptions'[context'] : u \in portSubscriptions'[u] /\ ~Gone(u)'
        BY <2>1, <2>2, <2>4, <3>2 DEF WorkerInv, SubsInv
      <4>3. QED
        BY <4>1, <4>2 DEF SubsInv
    <3>4. HomesInv'
      BY <2>1, <2>2 DEF WorkerInv, HomesInv
    <3>5. QED
      BY <2>2, <3>3, <3>4 DEF WorkerInv
  <2>5. QED
    BY <2>3, <2>4
<1>9. CASE OnDispose(t)
  <2>1. Takes(t, "dispose") /\ UNCHANGED <<toTab, context, home>>
    BY <1>9 DEF OnDispose
  <2>2. /\ \A u \in Tabs : /\ QueueOK(u)'
                           /\ MayCome(u)' => MayCome(u) /\ u # t
                           /\ Present(u)' => Present(u)
        /\ \A u \in Tabs \ {t} : Gone(u)' => Gone(u)
        /\ tab[t] = "disposed" /\ tab' = tab
    BY <1>3, <1>6, <2>1
  <2>3. CASE context = Nobody
    <3>1. UNCHANGED <<ports, subscriptions, portSubscriptions, closing>>
      BY <1>9, <2>3 DEF OnDispose
    <3>2. SubsInv'
      BY <2>1, <2>2, <2>3, <3>1 DEF WorkerInv, SubsInv
    <3>3. HomesInv'
      BY <2>1, <2>2, <3>1 DEF WorkerInv, HomesInv
    <3>4. QED
      BY <2>2, <3>2, <3>3 DEF WorkerInv
  <2>4. CASE context # Nobody
    <3>1. /\ ports' = [ports EXCEPT ![context] = @ \ {t}]
          /\ subscriptions' = [subscriptions EXCEPT ![context] = @ \ portSubscriptions[t]]
          /\ portSubscriptions' = [portSubscriptions EXCEPT ![t] = {}]
          /\ closing' = IF ports[context] \ {t} = {} THEN closing \union {context} ELSE closing
      BY <1>9, <2>4 DEF OnDispose, CleanupPortSubscriptions, NoTabLeft
    <3>2. /\ context \in Tabs
          /\ subscriptions'[context] = subscriptions[context] \ portSubscriptions[t]
          /\ \A c \in Tabs : subscriptions'[c] \subseteq subscriptions[c]
          /\ \A u \in Tabs \ {t} : portSubscriptions'[u] = portSubscriptions[u]
          /\ \A c \in Tabs : ports[c] \ {t} \subseteq ports'[c]
          /\ subscriptions[context] \subseteq Tabs
          /\ \A u \in Tabs : home[u] \in Tabs \union {Nobody}
      BY <1>1, <2>4, <3>1 DEF TypeOK
    <3>3. SubsInv'
      <4>1. \A u \in Tabs : MayCome(u)' => context' # u /\ subscriptions'[u] = {}
        BY <2>1, <2>2, <3>2 DEF WorkerInv, SubsInv
      <4>2. t \notin subscriptions'[context]
        BY <2>4, <3>2 DEF WorkerInv, SubsInv
      <4>3. \A u \in subscriptions'[context'] : u \in portSubscriptions'[u] /\ ~Gone(u)'
        BY <2>1, <2>2, <2>4, <3>2, <4>2 DEF WorkerInv, SubsInv
      <4>4. QED
        BY <4>1, <4>3 DEF SubsInv
    <3>4. HomesInv'
      <4>1. ASSUME NEW u \in Tabs, Present(u)', home'[u] # Nobody
            PROVE  home'[u] \notin closing' /\ u \in ports'[home'[u]]
        <5>1. u # t
          BY <2>2, <4>1 DEF Present
        <5>2. home[u] \in Tabs /\ home'[u] = home[u] /\ home[u] \notin closing /\ u \in ports[home[u]]
          BY <2>1, <2>2, <3>2, <4>1 DEF WorkerInv, HomesInv
        <5>3. home[u] = context => ports[context] \ {t} # {}
          BY <5>1, <5>2
        <5>4. QED
          BY <3>1, <3>2, <5>1, <5>2, <5>3
      <4>2. QED
        BY <4>1 DEF HomesInv
    <3>5. QED
      BY <2>2, <3>3, <3>4 DEF WorkerInv
  <2>5. QED
    BY <2>3, <2>4
<1>10. QED
  BY <1>4, <1>5, <1>7, <1>8, <1>9 DEF WorkerTakes

LEMMA StepKeeps ==
  ASSUME WorkerAssumption, TypeOK, WorkerInv, [Next]_vars
  PROVE  WorkerInv'
<1>1. ASSUME UNCHANGED untouched PROVE WorkerInv'
  <2>1. /\ UNCHANGED <<context, ports, subscriptions, portSubscriptions, closing, home>>
        /\ UNCHANGED <<tab, toWorker, toTab>>
    BY <1>1 DEF untouched, worker, bridge
  <2>2. QED
    BY <2>1, SameQueue, SameContexts DEF WorkerInv
<1>2. ASSUME NEW t \in Tabs, RequestEnds(t) PROVE WorkerInv'
  <2>1. /\ UNCHANGED <<context, ports, subscriptions, portSubscriptions, closing, home>>
        /\ UNCHANGED <<tab, toWorker>> /\ Answer(t, "response") /\ QueueOK(t)
    BY <1>2 DEF RequestEnds, worker, bridge, WorkerInv
  <2>2. toTab'[t] # <<>> => tab[t] \in {"waiting", "ready"}
    BY <2>1, AnsweredQueue
  <2>3. \A u \in Tabs \ {t} : toTab'[u] = toTab[u]
    BY <2>1 DEF Answer, TypeOK
  <2>4. QueueOK(t)'
    BY <2>1, <2>2 DEF QueueOK, Sent
  <2>5. \A u \in Tabs : /\ QueueOK(u)' /\ MayCome(u)' = MayCome(u)
                        /\ Gone(u)' = Gone(u) /\ Present(u)' = Present(u)
    <3>1. \A u \in Tabs : MayCome(u)' = MayCome(u) /\ Gone(u)' = Gone(u) /\ Present(u)' = Present(u)
      BY <2>1 DEF MayCome, Gone, Present, Sent
    <3>2. \A u \in Tabs \ {t} : QueueOK(u)'
      BY <2>1, <2>3, SameQueue DEF WorkerInv
    <3>3. QED
      BY <2>4, <3>1, <3>2
  <2>6. QED
    BY <2>1, <2>5, SameContexts
<1>3. ASSUME NEW d \in disposals, DisposeEnds(d) PROVE WorkerInv'
  <2>1. /\ UNCHANGED <<ports, subscriptions, portSubscriptions, closing, home>>
        /\ UNCHANGED <<tab, toWorker, toTab>> /\ context' = Nobody
    BY <1>3 DEF DisposeEnds, bridge
  <2>2. \A u \in Tabs : /\ QueueOK(u)' /\ MayCome(u)' = MayCome(u)
                        /\ Gone(u)' = Gone(u) /\ Present(u)' = Present(u)
    BY <2>1, SameQueue DEF WorkerInv
  <2>3. SubsInv'
    BY <2>1, <2>2 DEF WorkerInv, SubsInv, WorkerAssumption
  <2>4. HomesInv'
    BY <2>1, <2>2 DEF WorkerInv, HomesInv
  <2>5. QED
    BY <2>2, <2>3, <2>4 DEF WorkerInv
<1>4. CASE UNCHANGED vars
  BY <1>1, <1>4 DEF vars, untouched
<1>5. QED
  BY <1>1, <1>2, <1>3, <1>4, TabKeeps, WorkerKeeps DEF Next

LEMMA InitKeeps ==
  ASSUME WorkerAssumption, Init
  PROVE  WorkerInv
<1>1. \A t \in Tabs : /\ tab[t] = "new" /\ toWorker[t] = <<>> /\ toTab[t] = <<>>
                      /\ subscriptions[t] = {} /\ home[t] = Nobody
  BY DEF Init
<1>2. context = Nobody /\ Nobody \notin Tabs
  BY DEF Init, WorkerAssumption
<1>3. \A t \in Tabs : Len(toWorker[t]) = 0 /\ \A k : Sent(t, k) = {}
  BY <1>1 DEF Sent
<1>4. \A t \in Tabs : QueueOK(t)
  BY <1>1, <1>3 DEF QueueOK
<1>5. SubsInv /\ HomesInv
  BY <1>1, <1>2 DEF SubsInv, HomesInv
<1>6. QED
  BY <1>4, <1>5 DEF WorkerInv

LEMMA WorkerCorrect == Spec => []WorkerInv
<1>1. Init => WorkerInv
  BY WorkerAssumption, InitKeeps
<1>2. TypeOK /\ WorkerInv /\ [Next]_vars => WorkerInv'
  BY WorkerAssumption, StepKeeps
<1>3. QED
  BY <1>1, <1>2, TypeCorrect, PTL DEF Spec

(* Once the worker has handled a tab's dispose, nothing in the context it  *)
(* serves still pushes to that tab's closed port: what the port subscribed *)
(* was known by the port, and its queue holds nothing behind the dispose.  *)
THEOREM SubscriptionsEnd == Spec => []SubscriptionsEndWithTab
<1>1. TypeOK /\ WorkerInv => SubscriptionsEndWithTab
  <2>1. ASSUME TypeOK, WorkerInv, context # Nobody, NEW t \in subscriptions[context]
        PROVE  tab[t] # "disposed" \/ toWorker[t] # <<>>
    <3>1. ~Gone(t)
      BY <2>1 DEF WorkerInv, SubsInv
    <3>2. QED
      BY <3>1 DEF Gone
  <2>2. QED
    BY <2>1 DEF SubscriptionsEndWithTab
<1>2. QED
  BY <1>1, TypeCorrect, WorkerCorrect, PTL

(* A tab is among the ports of the context that it joined open, and the    *)
(* worker disposes of a context only when its last port leaves: the tab's. *)
THEOREM AppsOutliveTabs == Spec => []KeepsItsApp
<1>1. WorkerInv => KeepsItsApp
  BY DEF WorkerInv, HomesInv, KeepsItsApp, Present
<1>2. QED
  BY <1>1, WorkerCorrect, PTL

=============================================================================
