------------------------ MODULE LockManagerProofs ------------------------
(***************************************************************************)
(* Theorems about the lock manager, for every set of transactions and      *)
(* resources and every client discipline.                                  *)
(***************************************************************************)
EXTENDS LockManager, NumberLemmas, TLAPS

----------------------------------------------------------------------------
(* Promotion, for any holders and any queue.                               *)

\* Granting queued requests keeps the holders well formed, takes requests from
\* the queue only, and never takes a hold away.
LEMMA PromotionShape ==
  ASSUME NEW h \in Grants, NEW q \in SUBSET Requests, NEW t \in Txns
  PROVE  /\ Promoted(h, q) \subseteq q
         /\ ReleasedHolders(h, q, t) \in Grants
         /\ ReleasedQueue(h, q, t) \subseteq q
         /\ \A u \in Txns \ {t} : h[u] # "none" => ReleasedHolders(h, q, t)[u] # "none"
BY DEF Promoted, ReleasedHolders, ReleasedQueue, HoldersAfter, WithoutHold,
       WithoutRequests, Grants, Requests

\* Each call keeps the shape of the state.
LEMMA TypeStep == TypeOK /\ [Next]_vars => TypeOK'
<1> SUFFICES ASSUME TypeOK, [Next]_vars PROVE TypeOK'
  OBVIOUS
<1> USE DEF TypeOK
<1>1. ASSUME NEW t \in Txns, NEW r \in Resources, NEW mode \in Modes,
             t \in live, Grant(t, r, mode)
      PROVE  TypeOK'
  <2>1. holders' \in [Resources -> Grants]
    BY <1>1, ModesAssumption DEF Grant, Grants
  <2> QED  BY <2>1, <1>1 DEF Grant
<1>2. ASSUME NEW t \in Txns, NEW r \in Resources, NEW mode \in Modes,
             t \in live, Enqueue(t, r, mode)
      PROVE  TypeOK'
  <2>1. PICK p \in 1..MaxTicket :
           /\ NextTicket(queue[r], p)
           /\ queue' = [queue EXCEPT ![r] =
                          @ \cup {[pos |-> p, txn |-> t, mode |-> mode]}]
    BY <1>2 DEF Enqueue
  <2>2. [pos |-> p, txn |-> t, mode |-> mode] \in Requests
    BY ModesAssumption DEF Requests
  <2>3. queue' \in [Resources -> SUBSET Requests]
    BY <2>1, <2>2
  <2>4. \A s \in Resources : \A e, f \in queue'[s] : e.pos = f.pos => e = f
    BY <2>1, <2>2, TicketAssumption DEF NextTicket, Requests
  <2>5. waitsFor' \in [Txns -> SUBSET Txns]
    BY <1>2 DEF Enqueue, Linked, OthersOf, HoldersOf
  <2> QED  BY <2>3, <2>4, <2>5, <1>2 DEF Enqueue
<1>3. ASSUME NEW t \in Txns, NEW r \in Resources, NEW mode \in Modes,
             t \in live, Refuse(t, r, mode)
      PROVE  TypeOK'
  BY <1>3 DEF Refuse
<1>4. ASSUME NEW t \in Txns, NEW r \in Resources, Release(t, r)
      PROVE  TypeOK'
  <2>1. /\ ReleasedHolders(holders[r], queue[r], t) \in Grants
        /\ ReleasedQueue(holders[r], queue[r], t) \subseteq queue[r]
    BY PromotionShape
  <2> QED  BY <2>1, <1>4 DEF Release
<1>5. ASSUME NEW t \in Txns, ReleaseAll(t)
      PROVE  TypeOK'
  <2>1. \A r \in Resources :
           /\ ReleasedHolders(holders[r], queue[r], t) \in Grants
           /\ ReleasedQueue(holders[r], queue[r], t) \subseteq queue[r]
    BY PromotionShape
  <2>2. holders' \in [Resources -> Grants]
    BY <2>1, <1>5 DEF ReleaseAll
  <2>3. /\ queue' \in [Resources -> SUBSET Requests]
        /\ \A r \in Resources : \A e, f \in queue'[r] : e.pos = f.pos => e = f
    BY <2>1, <1>5 DEF ReleaseAll
  <2>4. waitsFor' \in [Txns -> SUBSET Txns]
    BY <1>5 DEF ReleaseAll
  <2> QED  BY <2>2, <2>3, <2>4, <1>5 DEF ReleaseAll
<1>6. CASE UNCHANGED vars
  BY <1>6 DEF vars
<1> QED
  BY <1>1, <1>2, <1>3, <1>4, <1>5, <1>6 DEF Next, Acquire, TryLock, MayCall

\* The lock table keeps its shape whatever calls are made.
THEOREM TypeCorrect == Spec => []TypeOK
<1>1. Init => TypeOK
  BY DEF Init, TypeOK, Grants
<1> QED  BY <1>1, TypeStep, PTL DEF Spec

----------------------------------------------------------------------------
(* Mutual exclusion.                                                       *)

Exclusive(h) == \A t, u \in Txns : h[t] = "X" /\ h[u] # "none" => t = u

\* The promotion loop of `release` keeps an exclusive holder alone, however
\* many requests it grants: of two conflicting grants, the later one would
\* not have been grantable.
LEMMA PromotionExcludes ==
  ASSUME NEW h \in Grants, NEW q \in SUBSET Requests, Exclusive(h),
         \A e, f \in q : e.pos = f.pos => e = f
  PROVE  Exclusive(HoldersAfter(h, Promoted(h, q)))
<1> DEFINE P == Promoted(h, q)
           g == HoldersAfter(h, P)
<1> SUFFICES ASSUME NEW t \in Txns, NEW u \in Txns,
                    g[t] = "X", g[u] # "none", t # u
             PROVE  FALSE
  BY DEF Exclusive
<1>1. P \subseteq q /\ \A e \in P : e.pos \in Int /\ e.mode \in {"S", "X"} /\ e.txn \in Txns
  BY TicketAssumption DEF Promoted, Requests
<1>2. \A e \in P : Grantable(HoldersAfter(h, Before(q, e)), e)
  BY <1>1 DEF Promoted, UpTo
<1>3. \A e \in P : Before(q, e) = Before(P, e)
  BY <1>1, TicketAssumption DEF Promoted, Before, UpTo, Requests
<1>4. \A e \in P : \A v \in Txns \ {e.txn} :
         HoldersAfter(h, Before(P, e))[v] # "none"
           => e.mode = "S" /\ HoldersAfter(h, Before(P, e))[v] = "S"
  BY <1>2, <1>3 DEF Grantable, OthersOf, HoldersOf
<1>5. CASE \E e \in P : e.txn = t /\ e.mode = "X" /\ \A f \in P : f.txn = t => f.pos <= e.pos
  <2>1. PICK e \in P : e.txn = t /\ e.mode = "X" /\ \A f \in P : f.txn = t => f.pos <= e.pos
    BY <1>5
  <2>2. HoldersAfter(h, Before(P, e))[u] = "none"
    BY <1>4, <2>1
  <2>3. ~ \E f \in Before(P, e) : f.txn = u
    BY <2>2 DEF HoldersAfter
  <2>4. h[u] = "none"
    BY <2>2, <2>3 DEF HoldersAfter
  <2>5. PICK f \in P : f.txn = u
    BY <2>4 DEF HoldersAfter
  <2>6. e.pos < f.pos
    BY <2>3, <2>5, <2>1, <1>1 DEF Before
  <2>7. HoldersAfter(h, Before(P, f))[t] = "X"
    BY <2>1, <2>6, <1>1 DEF HoldersAfter, Before
  <2> QED  BY <2>7, <2>5, <1>4
<1>6. CASE h[t] = "X" /\ ~ \E e \in P : e.txn = t
  <2>1. h[u] = "none"
    BY <1>6 DEF Exclusive
  <2>2. PICK f \in P : f.txn = u
    BY <2>1 DEF HoldersAfter
  <2>3. HoldersAfter(h, Before(P, f))[t] = "X"
    BY <1>6 DEF HoldersAfter, Before
  <2> QED  BY <2>3, <2>2, <1>4
<1> QED  BY <1>5, <1>6 DEF HoldersAfter

\* An exclusive lock has one holder, whatever sequence of calls is made.
THEOREM MutuallyExclusive == Spec => []MutualExclusion
<1>1. Init => MutualExclusion
  BY DEF Init, MutualExclusion
<1>2. TypeOK /\ MutualExclusion /\ [Next]_vars => MutualExclusion'
  <2> SUFFICES ASSUME TypeOK, MutualExclusion, [Next]_vars PROVE MutualExclusion'
    OBVIOUS
  <2>1. \A r \in Resources, t \in Txns :
          Exclusive(ReleasedHolders(holders[r], queue[r], t))
    <3> TAKE r \in Resources, t \in Txns
    <3>1. WithoutHold(holders[r], t) \in Grants /\ Exclusive(WithoutHold(holders[r], t))
      BY DEF TypeOK, Grants, WithoutHold, MutualExclusion, Exclusive
    <3>2. /\ WithoutRequests(queue[r], t) \subseteq Requests
          /\ \A e, f \in WithoutRequests(queue[r], t) : e.pos = f.pos => e = f
      BY DEF TypeOK, WithoutRequests
    <3> QED  BY <3>1, <3>2, PromotionExcludes DEF ReleasedHolders
  <2>2. ASSUME NEW t \in Txns, NEW r \in Resources, NEW mode \in Modes, Grant(t, r, mode)
        PROVE  MutualExclusion'
    BY <2>2, ModesAssumption DEF Grant, GrantedAtOnce, Compatible, HoldersOf, TypeOK,
       Grants, MutualExclusion, Sufficient
  <2>3. ASSUME NEW t \in Txns, NEW r \in Resources, Release(t, r)
        PROVE  MutualExclusion'
    BY <2>1, <2>3 DEF Release, MutualExclusion, Exclusive, TypeOK
  <2>4. ASSUME NEW t \in Txns, ReleaseAll(t)
        PROVE  MutualExclusion'
    BY <2>1, <2>4 DEF ReleaseAll, MutualExclusion, Exclusive
  <2>5. CASE UNCHANGED holders
    BY <2>5 DEF MutualExclusion
  <2> QED
    BY <2>2, <2>3, <2>4, <2>5 DEF Next, Acquire, TryLock, Enqueue, Refuse, vars
<1> QED  BY <1>1, <1>2, TypeCorrect, PTL DEF Spec

----------------------------------------------------------------------------
(* No lost wake-up.                                                        *)

\* A request that heads the queue after the promotion loop is one the loop
\* stopped at.
LEMMA PromotionStopsAtHead ==
  ASSUME NEW h \in Grants, NEW q \in SUBSET Requests,
         \A e, f \in q : e.pos = f.pos => e = f,
         NEW e, IsHead(q \ Promoted(h, q), e)
  PROVE  ~ Grantable(HoldersAfter(h, Promoted(h, q)), e)
<1> DEFINE P == Promoted(h, q)
<1>1. e \in q \ P /\ \A f \in q : f.pos \in Int
  BY TicketAssumption DEF IsHead, Requests
<1>2. PICK f \in UpTo(q, e) : ~ Grantable(HoldersAfter(h, Before(q, f)), f)
  BY <1>1 DEF Promoted
<1>3. f \notin P
  BY <1>2, <1>1 DEF Promoted, UpTo
<1>4. f = e
  BY <1>1, <1>2, <1>3 DEF UpTo, IsHead
<1>5. Before(q, e) = P
  <2>1. \A g \in q : g.pos < e.pos => g \in P
    BY <1>1 DEF IsHead
  <2>2. \A g \in P : g \in q /\ g.pos < e.pos
    BY <1>1 DEF Promoted, UpTo
  <2> QED  BY <2>1, <2>2 DEF Before
<1> QED  BY <1>2, <1>4, <1>5

\* A call leaves the head of every queue ungrantable.
LEMMA HeadStep == TypeOK /\ HeadIsBlocked /\ [Next]_vars => HeadIsBlocked'
<1> SUFFICES ASSUME TypeOK, HeadIsBlocked, [Next]_vars PROVE HeadIsBlocked'
  OBVIOUS
<1>1. \A r \in Resources, t \in Txns : \A e :
        IsHead(ReleasedQueue(holders[r], queue[r], t), e)
          => ~ Grantable(ReleasedHolders(holders[r], queue[r], t), e)
  <2> TAKE r \in Resources, t \in Txns
  <2>1. WithoutHold(holders[r], t) \in Grants
    BY DEF TypeOK, Grants, WithoutHold
  <2>2. /\ WithoutRequests(queue[r], t) \subseteq Requests
        /\ \A e, f \in WithoutRequests(queue[r], t) : e.pos = f.pos => e = f
    BY DEF TypeOK, WithoutRequests
  <2> QED  BY <2>1, <2>2, PromotionStopsAtHead DEF ReleasedHolders, ReleasedQueue
<1>2. ASSUME NEW t \in Txns, NEW r \in Resources, NEW mode \in Modes, Grant(t, r, mode)
      PROVE  HeadIsBlocked'
  <2> SUFFICES ASSUME NEW s \in Resources, NEW e \in queue[s], IsHead(queue[s], e)
               PROVE  ~ Grantable(holders[s], e)'
    BY <1>2 DEF Grant, HeadIsBlocked
  <2>1. ~ Grantable(holders[s], e)
    BY DEF HeadIsBlocked
  <2>2. PICK u \in OthersOf(holders[s], e.txn) : ~ (e.mode = "S" /\ holders[s][u] = "S")
    BY <2>1 DEF Grantable
  <2>3. /\ holders'[s][u] # "none"
        /\ holders[s][u] = "X" => holders'[s][u] = "X"
        /\ holders[s][u] \in {"S", "X"}
    BY <1>2, <2>2, ModesAssumption
       DEF Grant, GrantedAtOnce, Sufficient, TypeOK, Grants, OthersOf, HoldersOf
  <2> QED  BY <2>2, <2>3 DEF Grantable, OthersOf, HoldersOf
<1>3. ASSUME NEW t \in Txns, NEW r \in Resources, NEW mode \in Modes, Enqueue(t, r, mode)
      PROVE  HeadIsBlocked'
  <2>1. PICK p \in 1..MaxTicket :
           /\ NextTicket(queue[r], p)
           /\ queue' = [queue EXCEPT ![r] =
                          @ \cup {[pos |-> p, txn |-> t, mode |-> mode]}]
    BY <1>3 DEF Enqueue
  <2> DEFINE new == [pos |-> p, txn |-> t, mode |-> mode]
  <2>2. ASSUME queue[r] = {}
        PROVE  \E u \in OthersOf(holders[r], t) : ~ (mode = "S" /\ holders[r][u] = "S")
    BY <1>3, <2>2, ModesAssumption
       DEF Enqueue, MustWait, GrantedAtOnce, Sufficient, Compatible,
           OthersOf, HoldersOf, TypeOK, Grants
  <2> SUFFICES ASSUME NEW s \in Resources, NEW e, IsHead(queue'[s], e)
               PROVE  ~ Grantable(holders[s], e)
    BY <1>3 DEF Enqueue, HeadIsBlocked
  <2>3. CASE s = r /\ e = new
    <3>1. \A f \in queue[r] : f.pos < p /\ p <= f.pos /\ f.pos \in Int
      BY <2>1, <2>3, TicketAssumption DEF IsHead, NextTicket, TypeOK, Requests
    <3>2. queue[r] = {}
      BY <3>1
    <3> QED  BY <2>2, <2>3, <3>2 DEF Grantable
  <2>4. CASE ~ (s = r /\ e = new)
    <3>1. IsHead(queue[s], e)
      BY <2>1, <2>4 DEF IsHead, TypeOK
    <3> QED  BY <3>1 DEF HeadIsBlocked, IsHead
  <2> QED  BY <2>3, <2>4
<1>4. ASSUME NEW t \in Txns, NEW r \in Resources, Release(t, r)
      PROVE  HeadIsBlocked'
  BY <1>1, <1>4 DEF Release, HeadIsBlocked, TypeOK
<1>5. ASSUME NEW t \in Txns, ReleaseAll(t)
      PROVE  HeadIsBlocked'
  BY <1>1, <1>5 DEF ReleaseAll, HeadIsBlocked
<1>6. CASE UNCHANGED <<holders, queue>>
  BY <1>6 DEF HeadIsBlocked
<1> QED
  BY <1>2, <1>3, <1>4, <1>5, <1>6 DEF Next, Acquire, TryLock, Refuse, vars

\* The head of a queue is never a request that could be granted.
THEOREM NoLostWakeup == Spec => []HeadIsBlocked
<1>1. Init => HeadIsBlocked
  BY DEF Init, HeadIsBlocked
<1> QED  BY <1>1, HeadStep, TypeCorrect, PTL DEF Spec

----------------------------------------------------------------------------
(* The waits-for graph.                                                    *)

Graphs == [Txns -> SUBSET Txns]

\* Taking edges away closes no cycle.
LEMMA FewerEdges ==
  ASSUME NEW g \in Graphs, NEW k \in Graphs, \A u \in Txns : k[u] \subseteq g[u],
         NEW t \in Txns, ~ OnCycle(g, t)
  PROVE  ~ OnCycle(k, t)
BY DEF OnCycle, Closed, Graphs

\* Edges added to one node close a cycle only through that node, so a search
\* from it alone decides whether the whole graph stays acyclic.
LEMMA SearchFromRequesterSuffices ==
  ASSUME NEW g \in Graphs, NEW k \in Graphs, NEW t \in Txns,
         \A u \in Txns \ {t} : k[u] = g[u], g[t] \subseteq k[t],
         \A u \in Txns : ~ OnCycle(g, u),
         ~ OnCycle(k, t)
  PROVE  \A u \in Txns : ~ OnCycle(k, u)
<1> SUFFICES ASSUME NEW u \in Txns, u # t PROVE ~ OnCycle(k, u)
  OBVIOUS
<1>1. PICK T \in SUBSET Txns : Closed(k, T) /\ k[t] \subseteq T /\ t \notin T
  BY DEF OnCycle
<1>2. PICK U \in SUBSET Txns : Closed(g, U) /\ g[u] \subseteq U /\ u \notin U
  BY DEF OnCycle
<1>3. CASE u \in T
  <2> DEFINE W == T \cap U
  <2>1. Closed(k, W) /\ k[u] \subseteq W /\ u \notin W /\ W \in SUBSET Txns
    BY <1>1, <1>2, <1>3 DEF Closed
  <2> QED  BY <2>1 DEF OnCycle
<1>4. CASE u \notin T
  <2> DEFINE W == T \cup U
  <2>1. Closed(k, W) /\ k[u] \subseteq W /\ u \notin W /\ W \in SUBSET Txns
    BY <1>1, <1>2, <1>4 DEF Closed
  <2> QED  BY <2>1 DEF OnCycle
<1> QED  BY <1>3, <1>4

\* The waits-for graph the manager keeps is acyclic after every call.
THEOREM GraphStaysAcyclic == Spec => []TrackedGraphAcyclic
<1>1. Init => TrackedGraphAcyclic
  <2> SUFFICES ASSUME Init, NEW t \in Txns PROVE ~ OnCycle(waitsFor, t)
    BY DEF TrackedGraphAcyclic
  <2>1. {} \in SUBSET Txns /\ Closed(waitsFor, {}) /\ waitsFor[t] \subseteq {} /\ t \notin {}
    BY DEF Init, Closed
  <2> QED  BY <2>1 DEF OnCycle
<1>2. TypeOK /\ TypeOK' /\ TrackedGraphAcyclic /\ [Next]_vars => TrackedGraphAcyclic'
  <2> SUFFICES ASSUME TypeOK, TypeOK', TrackedGraphAcyclic, [Next]_vars
               PROVE  TrackedGraphAcyclic'
    OBVIOUS
  <2>1. waitsFor \in Graphs /\ waitsFor' \in Graphs
    BY DEF TypeOK, Graphs
  <2>2. ASSUME \A u \in Txns : waitsFor'[u] \subseteq waitsFor[u]
        PROVE  TrackedGraphAcyclic'
    <3> SUFFICES ASSUME NEW t \in Txns PROVE ~ OnCycle(waitsFor', t)
      BY DEF TrackedGraphAcyclic, OnCycle, Closed
    <3>1. ~ OnCycle(waitsFor, t)
      BY DEF TrackedGraphAcyclic
    <3> QED  BY <2>1, <2>2, <3>1, FewerEdges
  <2>3. ASSUME NEW t \in Txns, NEW r \in Resources, NEW mode \in Modes, Enqueue(t, r, mode)
        PROVE  TrackedGraphAcyclic'
    <3>1. /\ waitsFor' = Linked(r, t)
          /\ ~ OnCycle(Linked(r, t), t)
      BY <2>3 DEF Enqueue, ClosesCycle
    <3>2. /\ \A u \in Txns \ {t} : waitsFor'[u] = waitsFor[u]
          /\ waitsFor[t] \subseteq waitsFor'[t]
      BY <3>1, <2>1 DEF Linked, Graphs
    <3>3. \A u \in Txns : ~ OnCycle(waitsFor, u)
      BY DEF TrackedGraphAcyclic
    <3>4. ~ OnCycle(waitsFor', t)
      BY <3>1
    <3>5. \A u \in Txns : ~ OnCycle(waitsFor', u)
      BY <2>1, <3>2, <3>3, <3>4, SearchFromRequesterSuffices
    <3> QED  BY <3>5 DEF TrackedGraphAcyclic, OnCycle, Closed
  <2>4. ASSUME NEW t \in Txns, NEW r \in Resources, NEW mode \in Modes,
               Refuse(t, r, mode)
        PROVE  \A u \in Txns : waitsFor'[u] \subseteq waitsFor[u]
    BY <2>4 DEF Refuse
  <2>5. ASSUME NEW t \in Txns, NEW r \in Resources, Release(t, r)
        PROVE  \A u \in Txns : waitsFor'[u] \subseteq waitsFor[u]
    BY <2>5 DEF Release
  <2>6. ASSUME NEW t \in Txns, ReleaseAll(t)
        PROVE  \A u \in Txns : waitsFor'[u] \subseteq waitsFor[u]
    BY <2>6 DEF ReleaseAll
  <2>7. CASE UNCHANGED waitsFor
    BY <2>2, <2>7
  <2> QED
    BY <2>2, <2>3, <2>4, <2>5, <2>6, <2>7 DEF Next, Acquire, TryLock, Grant, vars
<1> QED  BY <1>1, <1>2, TypeCorrect, PTL DEF Spec

----------------------------------------------------------------------------
(* Termination.                                                            *)

\* After release_all nothing of the transaction is left in the lock table.
LEMMA ReleasedIsGone ==
  ASSUME NEW h \in Grants, NEW q \in SUBSET Requests, NEW t \in Txns
  PROVE  /\ ReleasedHolders(h, q, t)[t] = "none"
         /\ \A e \in ReleasedQueue(h, q, t) : e.txn # t
         /\ \A u \in Txns : h[u] = "none" /\ (\A e \in q : e.txn # u)
                             => ReleasedHolders(h, q, t)[u] = "none"
BY DEF ReleasedHolders, ReleasedQueue, HoldersAfter, WithoutHold, WithoutRequests,
       Promoted, Grants

\* A terminated transaction leaves no hold, request or edge behind, and none
\* appears later.
THEOREM TerminationIsTotal == Spec => []TerminatedIsGone
<1>1. Init => TerminatedIsGone
  BY DEF Init, TerminatedIsGone
<1>2. TypeOK /\ TerminatedIsGone /\ [Next]_vars => TerminatedIsGone'
  <2> SUFFICES ASSUME TypeOK, TerminatedIsGone, [Next]_vars PROVE TerminatedIsGone'
    OBVIOUS
  <2>0. /\ live \subseteq Txns
        /\ \A r \in Resources : holders[r] \in Grants /\ queue[r] \in SUBSET Requests
    BY DEF TypeOK
  <2>1. ASSUME NEW t \in live, NEW r \in Resources, NEW mode \in Modes, Grant(t, r, mode)
        PROVE  TerminatedIsGone'
    BY <2>1 DEF Grant, TypeOK, Grants, TerminatedIsGone
  <2>2. ASSUME NEW t \in live, NEW r \in Resources, NEW mode \in Modes, Enqueue(t, r, mode)
        PROVE  TerminatedIsGone'
    BY <2>2 DEF Enqueue, Linked, OthersOf, HoldersOf, TypeOK, TerminatedIsGone
  <2>3. ASSUME NEW t \in live, NEW r \in Resources, NEW mode \in Modes, Refuse(t, r, mode)
        PROVE  TerminatedIsGone'
    BY <2>3 DEF Refuse, TypeOK, TerminatedIsGone
  <2>4. ASSUME NEW t \in live, NEW r \in Resources, Release(t, r)
        PROVE  TerminatedIsGone'
    <3>1. /\ ReleasedQueue(holders[r], queue[r], t) \subseteq queue[r]
          /\ \A u \in Txns : holders[r][u] = "none" /\ (\A e \in queue[r] : e.txn # u)
                => ReleasedHolders(holders[r], queue[r], t)[u] = "none"
      <4>1. t \in Txns /\ holders[r] \in Grants /\ queue[r] \in SUBSET Requests
        BY <2>0
      <4>2. ReleasedQueue(holders[r], queue[r], t) \subseteq queue[r]
        BY <4>1, PromotionShape
      <4>3. ASSUME NEW u \in Txns, holders[r][u] = "none", \A e \in queue[r] : e.txn # u
            PROVE  ReleasedHolders(holders[r], queue[r], t)[u] = "none"
        BY <4>1, <4>3, ReleasedIsGone
      <4> QED  BY <4>2, <4>3
    <3> QED  BY <3>1, <2>4 DEF Release, TypeOK, TerminatedIsGone
  <2>5. ASSUME NEW t \in live, ReleaseAll(t)
        PROVE  TerminatedIsGone'
    <3>1. \A r \in Resources :
            /\ ReleasedQueue(holders[r], queue[r], t) \subseteq queue[r]
            /\ ReleasedHolders(holders[r], queue[r], t)[t] = "none"
            /\ \A e \in ReleasedQueue(holders[r], queue[r], t) : e.txn # t
            /\ \A u \in Txns : holders[r][u] = "none" /\ (\A e \in queue[r] : e.txn # u)
                  => ReleasedHolders(holders[r], queue[r], t)[u] = "none"
      <4> TAKE r \in Resources
      <4>1. holders[r] \in Grants /\ queue[r] \in SUBSET Requests /\ t \in Txns
        BY <2>0
      <4>2. ReleasedQueue(holders[r], queue[r], t) \subseteq queue[r]
        BY <4>1, PromotionShape
      <4>3. /\ ReleasedHolders(holders[r], queue[r], t)[t] = "none"
            /\ \A e \in ReleasedQueue(holders[r], queue[r], t) : e.txn # t
        BY <4>1, ReleasedIsGone
      <4>4. \A u \in Txns : holders[r][u] = "none" /\ (\A e \in queue[r] : e.txn # u)
                  => ReleasedHolders(holders[r], queue[r], t)[u] = "none"
        BY <4>1, ReleasedIsGone
      <4> QED  BY <4>2, <4>3, <4>4
    <3> QED  BY <3>1, <2>5 DEF ReleaseAll, TypeOK, TerminatedIsGone
  <2>6. CASE UNCHANGED vars
    BY <2>6 DEF vars, TerminatedIsGone
  <2> QED
    <3>1. CASE \E t \in live : ReleaseAll(t)
      BY <3>1, <2>5
    <3>2. CASE \E t \in live, r \in Resources : Release(t, r)
      BY <3>2, <2>4
    <3>3. CASE \E t \in live, r \in Resources, mode \in Modes :
                  Grant(t, r, mode) \/ Enqueue(t, r, mode) \/ Refuse(t, r, mode)
      BY <3>3, <2>1, <2>2, <2>3
    <3>4. CASE UNCHANGED vars
      BY <3>4, <2>6
    <3>5. ASSUME NEW t \in Txns, ReleaseAll(t)  PROVE t \in live
      BY <3>5 DEF ReleaseAll
    <3> QED
      BY <3>1, <3>2, <3>3, <3>4, <3>5 DEF Next, Acquire, TryLock, Release, MayCall
<1> QED  BY <1>1, <1>2, TypeCorrect, PTL DEF Spec

----------------------------------------------------------------------------
(* Spurious deadlocks.                                                     *)

\* Under strict 2PL (no single `release`) every edge of the graph stands for a
\* request that a current holder blocks, however many requests a transaction
\* has queued: with GraphStaysAcyclic, Deadlock is answered only when the
\* request closes a ring of real waits.
THEOREM DeadlockIsNeverSpurious ==
  ASSUME "release" \notin Calls
  PROVE  Spec => []EdgesAreReal
<1>1. Init => EdgesAreReal
  BY DEF Init, EdgesAreReal
<1>2. TypeOK /\ EdgesAreReal /\ [Next]_vars => EdgesAreReal'
  <2> SUFFICES ASSUME TypeOK, EdgesAreReal, [Next]_vars,
                      NEW u \in Txns, NEW v \in waitsFor'[u]
               PROVE  \E r \in Resources : \E e \in queue'[r] :
                         e.txn = u /\ v \in OthersOf(holders[r], u)'
    BY DEF EdgesAreReal
  <2> DEFINE Goal == \E r \in Resources : \E e \in queue'[r] :
                         e.txn = u /\ v \in OthersOf(holders[r], u)'
  <2>0. v \in waitsFor[u] =>
          \E r \in Resources : \E e \in queue[r] :
             e.txn = u /\ v \in OthersOf(holders[r], u)
    BY DEF EdgesAreReal
  <2>1. ASSUME NEW t \in Txns, NEW r \in Resources, NEW mode \in Modes, Grant(t, r, mode)
        PROVE  Goal
    BY <2>0, <2>1, ModesAssumption DEF Grant, OthersOf, HoldersOf, TypeOK, Grants
  <2>2. ASSUME NEW t \in Txns, NEW r \in Resources, NEW mode \in Modes, Enqueue(t, r, mode)
        PROVE  Goal
    <3>1. PICK p \in 1..MaxTicket :
             queue' = [queue EXCEPT ![r] =
                         @ \cup {[pos |-> p, txn |-> t, mode |-> mode]}]
      BY <2>2 DEF Enqueue
    <3>2. v \in waitsFor[u] \/ (u = t /\ v \in OthersOf(holders[r], t))
      BY <2>2 DEF Enqueue, Linked, TypeOK
    <3>3. UNCHANGED holders
      BY <2>2 DEF Enqueue
    <3>4. CASE v \in waitsFor[u]
      BY <2>0, <3>1, <3>3, <3>4 DEF TypeOK, OthersOf, HoldersOf
    <3>5. CASE u = t /\ v \in OthersOf(holders[r], t)
      <4> DEFINE new == [pos |-> p, txn |-> t, mode |-> mode]
      <4>1. new \in queue'[r] /\ new.txn = u
        BY <3>1, <3>5 DEF TypeOK
      <4>2. v \in OthersOf(holders[r], u)'
        BY <3>3, <3>5 DEF OthersOf, HoldersOf
      <4> QED  BY <4>1, <4>2
    <3> QED  BY <3>2, <3>4, <3>5
  <2>3. ASSUME NEW t \in Txns, NEW r \in Resources, NEW mode \in Modes, Refuse(t, r, mode)
        PROVE  Goal
    <3>1. v \in waitsFor[u] /\ UNCHANGED <<queue, holders>>
      BY <2>3 DEF Refuse
    <3> QED  BY <2>0, <3>1 DEF OthersOf, HoldersOf
  <2>4. ASSUME NEW t \in Txns, ReleaseAll(t)
        PROVE  Goal
    <3>1. u # t /\ v # t /\ v \in waitsFor[u]
          /\ \A r \in Resources : v \notin ReleasedEdges(r, t, u)
      BY <2>4 DEF ReleaseAll
    <3>2. PICK r \in Resources : \E e \in queue[r] :
             e.txn = u /\ v \in OthersOf(holders[r], u)
      BY <2>0, <3>1
    <3>3. PICK e \in queue[r] : e.txn = u /\ v \in OthersOf(holders[r], u)
      BY <3>2
    <3> DEFINE h == WithoutHold(holders[r], t)
               q == WithoutRequests(queue[r], t)
    <3>4. v \in Txns \ {u} /\ h[v] # "none" /\ e \in q
      BY <3>1, <3>3 DEF OthersOf, HoldersOf, WithoutHold, WithoutRequests, TypeOK, Grants
    <3>5. HoldersAfter(h, UpTo(q, e))[v] # "none" /\ HoldersAfter(h, Promoted(h, q))[v] # "none"
      BY <3>4 DEF HoldersAfter
    <3>6. e \notin Promoted(h, q)
      BY <3>1, <3>3, <3>4, <3>5 DEF ReleasedEdges, Unlinked
    <3>7. e \in queue'[r] /\ holders'[r][v] # "none"
      BY <2>4, <3>4, <3>5, <3>6 DEF ReleaseAll, ReleasedQueue, ReleasedHolders
    <3> QED  BY <3>3, <3>4, <3>7 DEF OthersOf, HoldersOf
  <2>5. CASE UNCHANGED vars
    BY <2>0, <2>5 DEF vars, OthersOf, HoldersOf
  <2> QED
    BY <2>1, <2>2, <2>3, <2>4, <2>5 DEF Next, Acquire, TryLock, Release
<1> QED  BY <1>1, <1>2, TypeCorrect, PTL DEF Spec

----------------------------------------------------------------------------
(* First claim.                                                            *)

\* A queue that is not empty has a head.
LEMMA QueueHasHead ==
  ASSUME NEW q \in SUBSET Requests, q # {}
  PROVE  \E e \in q : IsHead(q, e)
<1> DEFINE places == {e.pos : e \in q}
<1>1. places \in SUBSET Nat /\ places # {}
  BY TicketAssumption DEF Requests
<1>2. PICK p \in places : \A y \in places : ~ (y < p)
  BY <1>1, LeastNumber
<1>3. PICK e \in q : e.pos = p
  BY <1>2
<1>4. \A f \in q : e.pos \in Int /\ f.pos \in Int /\ ~ (f.pos < e.pos)
  BY <1>1, <1>2, <1>3
<1> QED  BY <1>3, <1>4 DEF IsHead

\* No request, queued or not, overtakes the first claim of a queued one, except
\* that a sole holder strengthens its own lock past the queue.
THEOREM QueuedFirstClaimFirst == Spec => FirstClaim
<1>1. TypeOK /\ HeadIsBlocked /\ [Next]_vars => [ClaimedInOrder]_vars
  <2> DEFINE queued(r, u) ==
               \E e \in queue[r] : e.txn = u
                  /\ \A f \in queue'[r] : f \in queue[r] => f.pos > e.pos
  <2> SUFFICES ASSUME TypeOK, HeadIsBlocked, Next,
                      NEW r \in Resources, NEW u \in Txns,
                      queue[r] # {}, holders'[r][u] # holders[r][u], holders'[r][u] # "none"
               PROVE  queued(r, u) \/ (HoldersOf(holders[r]) = {u} /\ UNCHANGED queue)
    BY DEF ClaimedInOrder
  <2>1. HoldersOf(holders[r]) # {}
    <3>1. PICK e \in queue[r] : IsHead(queue[r], e)
      BY QueueHasHead DEF TypeOK
    <3>2. ~ Grantable(holders[r], e)
      BY <3>1 DEF HeadIsBlocked
    <3> QED  BY <3>2 DEF Grantable, OthersOf
  <2>2. ASSUME NEW t \in Txns, NEW mode \in Modes, NEW s \in Resources, Grant(t, s, mode)
        PROVE  HoldersOf(holders[r]) = {u} /\ UNCHANGED queue
    <3>1. s = r /\ t = u
      BY <2>2, ModesAssumption DEF Grant, TypeOK, Grants
    <3> QED  BY <2>1, <2>2, <3>1 DEF Grant, GrantedAtOnce, Compatible
  <2>3. \A t \in Txns : (holders'[r] = ReleasedHolders(holders[r], queue[r], t)
                         /\ queue'[r] = ReleasedQueue(holders[r], queue[r], t))
          => queued(r, u)
    <3> SUFFICES ASSUME NEW t \in Txns,
                        holders'[r] = ReleasedHolders(holders[r], queue[r], t),
                        queue'[r] = ReleasedQueue(holders[r], queue[r], t)
                 PROVE  queued(r, u)
      OBVIOUS
    <3> DEFINE h == WithoutHold(holders[r], t)
               q == WithoutRequests(queue[r], t)
    <3>1. /\ h[u] \in {holders[r][u], "none"}
          /\ q \subseteq queue[r] /\ \A e \in q : e.pos \in Int
      BY TicketAssumption DEF WithoutHold, WithoutRequests, TypeOK, Grants, Requests
    <3>2. PICK e \in Promoted(h, q) : e.txn = u
      BY <3>1 DEF ReleasedHolders, HoldersAfter
    <3>3. e \in q /\ \A f \in q : f.pos <= e.pos => f \in Promoted(h, q)
      BY <3>1, <3>2 DEF Promoted, UpTo
    <3> QED  BY <3>1, <3>2, <3>3 DEF ReleasedQueue
  <2>4. ASSUME NEW t \in Txns, NEW s \in Resources, Release(t, s)
        PROVE  holders'[r] = ReleasedHolders(holders[r], queue[r], t)
               /\ queue'[r] = ReleasedQueue(holders[r], queue[r], t)
    BY <2>4 DEF Release, TypeOK
  <2>5. ASSUME NEW t \in Txns, ReleaseAll(t)
        PROVE  holders'[r] = ReleasedHolders(holders[r], queue[r], t)
               /\ queue'[r] = ReleasedQueue(holders[r], queue[r], t)
    BY <2>5 DEF ReleaseAll
  <2> QED
    BY <2>2, <2>3, <2>4, <2>5 DEF Next, Acquire, TryLock, Enqueue, Refuse
<1> QED  BY <1>1, TypeCorrect, NoLostWakeup, PTL DEF Spec, FirstClaim
----------------------------------------------------------------------------
(* Strict 2PL.                                                             *)

\* A transaction that waits has one request, and one that already holds the
\* resource waits to be upgraded.
OneRequestEach ==
  \A r, s \in Resources : \A e \in queue[r], f \in queue[s] :
     e.txn = f.txn => r = s /\ e = f

HoldersUpgrade ==
  \A r \in Resources : \A e \in queue[r] :
     holders[r][e.txn] # "none" => e.mode = "X"

UpgradeInv == TypeOK /\ OneRequestEach /\ HoldersUpgrade

\* Promotion leaves the modes of others alone, but for waiters whose request
\* it grants.
LEMMA PromotionKeepsModes ==
  ASSUME NEW h, NEW q, NEW t \in Txns, NEW u \in Txns \ {t}, h \in Grants,
         ~ \E e \in Promoted(WithoutHold(h, t), WithoutRequests(q, t)) : e.txn = u
  PROVE  ReleasedHolders(h, q, t)[u] = h[u]
BY DEF ReleasedHolders, HoldersAfter, WithoutHold, Grants

\* A release keeps one request per waiter, and upgrades for holders only.
LEMMA ReleaseKeepsUpgrades ==
  ASSUME UpgradeInv, NEW t \in Txns, TypeOK',
         \A r \in Resources :
            \/ UNCHANGED <<holders[r], queue[r]>>
            \/ /\ holders'[r] = ReleasedHolders(holders[r], queue[r], t)
               /\ queue'[r] = ReleasedQueue(holders[r], queue[r], t)
  PROVE  UpgradeInv'
<1>1. \A r \in Resources : queue'[r] \subseteq queue[r]
  BY DEF ReleasedQueue, WithoutRequests
<1>2. OneRequestEach'
  BY <1>1 DEF UpgradeInv, OneRequestEach
<1>3. ASSUME NEW r \in Resources, NEW e \in queue'[r], holders'[r][e.txn] # "none"
      PROVE  e.mode = "X"
  <2>0. e \in queue[r] /\ e.txn \in Txns
    BY <1>1 DEF UpgradeInv, TypeOK, Requests
  <2>1. CASE UNCHANGED <<holders[r], queue[r]>>
    BY <2>0, <2>1, <1>3 DEF UpgradeInv, HoldersUpgrade
  <2>2. CASE /\ holders'[r] = ReleasedHolders(holders[r], queue[r], t)
             /\ queue'[r] = ReleasedQueue(holders[r], queue[r], t)
    <3>1. /\ e.txn # t
          /\ e \notin Promoted(WithoutHold(holders[r], t), WithoutRequests(queue[r], t))
      BY <2>2 DEF ReleasedQueue, WithoutRequests
    <3>2. Promoted(WithoutHold(holders[r], t), WithoutRequests(queue[r], t)) \subseteq queue[r]
      BY DEF Promoted, WithoutRequests
    <3>3. ~ \E f \in Promoted(WithoutHold(holders[r], t), WithoutRequests(queue[r], t)) :
               f.txn = e.txn
      BY <2>0, <3>1, <3>2 DEF UpgradeInv, OneRequestEach
    <3>4. holders[r] \in Grants
      BY DEF UpgradeInv, TypeOK
    <3>5. holders'[r][e.txn] = holders[r][e.txn]
      BY <2>0, <2>2, <3>1, <3>3, <3>4, PromotionKeepsModes
    <3> QED  BY <2>0, <3>5, <1>3 DEF UpgradeInv, HoldersUpgrade
  <2> QED  BY <2>1, <2>2
<1> QED  BY <1>2, <1>3 DEF UpgradeInv, HoldersUpgrade

\* Every call of a client that waits for what it queued for keeps both.
LEMMA UpgradeStep ==
  ASSUME OneAtATime, UpgradeInv, [Next]_vars, TypeOK'
  PROVE  UpgradeInv'
<1> USE DEF UpgradeInv
<1>1. ASSUME NEW t \in Txns, NEW r \in Resources, NEW mode \in Modes, ~ Waiting(t),
             Grant(t, r, mode)
      PROVE  UpgradeInv'
  <2>1. \A s \in Resources : \A e \in queue[s] :
           e.txn # t /\ holders'[s][e.txn] = holders[s][e.txn]
    BY <1>1 DEF Grant, Waiting, TypeOK, Grants, Requests
  <2> QED  BY <2>1, <1>1 DEF Grant, OneRequestEach, HoldersUpgrade
<1>2. ASSUME NEW t \in Txns, NEW r \in Resources, NEW mode \in Modes, ~ Waiting(t),
             Enqueue(t, r, mode)
      PROVE  UpgradeInv'
  <2>1. PICK p \in 1..MaxTicket :
           queue' = [queue EXCEPT ![r] =
                       @ \cup {[pos |-> p, txn |-> t, mode |-> mode]}]
    BY <1>2 DEF Enqueue
  <2> DEFINE new == [pos |-> p, txn |-> t, mode |-> mode]
  <2>2. /\ \A s \in Resources : \A e \in queue[s] : e.txn # t
        /\ \A s \in Resources : \A e \in queue'[s] : e \in queue[s] \/ (s = r /\ e = new)
        /\ new.txn = t /\ new.mode = mode
    BY <1>2, <2>1 DEF Waiting, TypeOK
  <2> HIDE DEF new
  <2>3. OneRequestEach'
    BY <2>2 DEF OneRequestEach
  <2>4. holders[r][t] # "none" => mode = "X"
    BY <1>2, ModesAssumption DEF Enqueue, MustWait, Sufficient, TypeOK, Grants
  <2>5. HoldersUpgrade'
    BY <1>2, <2>2, <2>4 DEF Enqueue, HoldersUpgrade
  <2> QED  BY <2>3, <2>5
<1>3. ASSUME NEW t \in Txns, NEW r \in Resources, Release(t, r)
      PROVE  UpgradeInv'
  <2>1. \A s \in Resources :
           \/ UNCHANGED <<holders[s], queue[s]>>
           \/ /\ holders'[s] = ReleasedHolders(holders[s], queue[s], t)
              /\ queue'[s] = ReleasedQueue(holders[s], queue[s], t)
    BY <1>3 DEF Release, TypeOK
  <2> QED  BY <2>1, ReleaseKeepsUpgrades
<1>4. ASSUME NEW t \in Txns, ReleaseAll(t)
      PROVE  UpgradeInv'
  <2>1. \A s \in Resources :
           /\ holders'[s] = ReleasedHolders(holders[s], queue[s], t)
           /\ queue'[s] = ReleasedQueue(holders[s], queue[s], t)
    BY <1>4 DEF ReleaseAll
  <2> QED  BY <2>1, ReleaseKeepsUpgrades
<1>5. CASE UNCHANGED <<holders, queue>>
  BY <1>5 DEF OneRequestEach, HoldersUpgrade
<1> QED
  BY <1>1, <1>2, <1>3, <1>4, <1>5 DEF Next, Acquire, TryLock, Refuse, MayCall, vars

\* When another transaction releases, what a transaction holds is kept or
\* strengthened.
LEMMA OthersKeepModes ==
  ASSUME UpgradeInv, NEW r \in Resources, NEW t \in Txns, NEW u \in Txns \ {t},
         holders[r][u] # "none"
  PROVE  ReleasedHolders(holders[r], queue[r], t)[u] \in {holders[r][u], "X"}
<1> DEFINE P == Promoted(WithoutHold(holders[r], t), WithoutRequests(queue[r], t))
<1>0. holders[r] \in Grants /\ queue[r] \in SUBSET Requests /\ P \subseteq queue[r]
  BY DEF UpgradeInv, TypeOK, Promoted, WithoutRequests
<1>1. CASE \E e \in P : e.txn = u
  <2>1. \A e, f \in queue[r] : e.txn = u /\ f.txn = u => e = f /\ e.mode = "X"
    BY DEF UpgradeInv, HoldersUpgrade, OneRequestEach
  <2>2. PICK e \in P : e.txn = u
    BY <1>1
  <2>3. e.mode = "X" /\ \A f \in P : f.txn = u => f.pos <= e.pos
    BY <1>0, <2>1, <2>2, TicketAssumption DEF Requests
  <2> QED  BY <2>2, <2>3 DEF ReleasedHolders, HoldersAfter
<1>2. CASE ~ \E e \in P : e.txn = u
  BY <1>0, <1>2, PromotionKeepsModes
<1> QED  BY <1>1, <1>2

\* Clients that wait for what they queued for never see a granted mode
\* weakened by what another transaction does: only their own release gives it
\* up.
THEOREM HoldsOnlyStrengthen ==
  ASSUME OneAtATime
  PROVE  Spec => HoldNeverWeakens
<1> DEFINE Kept == \A r \in Resources : \A t \in live' :
                     holders[r][t] # "none" =>
                       holders'[r][t] \in {holders[r][t], "X"} \/ Release(t, r)
<1>1. Init => UpgradeInv
  BY DEF Init, UpgradeInv, TypeOK, Grants, OneRequestEach, HoldersUpgrade
<1>2. UpgradeInv /\ [Next]_vars => UpgradeInv'
  BY UpgradeStep, TypeStep DEF UpgradeInv
<1>3. UpgradeInv /\ TypeOK' /\ [Next]_vars => [Kept]_vars
  <2> SUFFICES ASSUME UpgradeInv, TypeOK', Next,
                      NEW r \in Resources, NEW u \in live', holders[r][u] # "none"
               PROVE  holders'[r][u] \in {holders[r][u], "X"} \/ Release(u, r)
    OBVIOUS
  <2>0. u \in Txns /\ holders[r] \in Grants
    BY DEF UpgradeInv, TypeOK
  <2>1. ASSUME NEW t \in Txns, NEW s \in Resources, NEW mode \in Modes, Grant(t, s, mode)
        PROVE  holders'[r][u] \in {holders[r][u], "X"}
    BY <2>0, <2>1, ModesAssumption
       DEF Grant, GrantedAtOnce, Sufficient, UpgradeInv, TypeOK, Grants
  <2>2. ASSUME NEW t \in Txns, NEW s \in Resources, Release(t, s)
        PROVE  holders'[r][u] \in {holders[r][u], "X"} \/ Release(u, r)
    <3>1. CASE s # r
      BY <2>2, <3>1 DEF Release, UpgradeInv, TypeOK
    <3>2. CASE s = r /\ t # u
      <4>1. holders'[r] = ReleasedHolders(holders[r], queue[r], t)
        BY <2>2, <3>2 DEF Release, UpgradeInv, TypeOK
      <4> QED  BY <2>0, <3>2, <4>1, OthersKeepModes
    <3> QED  BY <2>2, <3>1, <3>2
  <2>3. ASSUME NEW t \in Txns, ReleaseAll(t)
        PROVE  holders'[r][u] \in {holders[r][u], "X"}
    <3>1. u # t /\ holders'[r] = ReleasedHolders(holders[r], queue[r], t)
      BY <2>3 DEF ReleaseAll
    <3> QED  BY <2>0, <3>1, OthersKeepModes
  <2>4. CASE UNCHANGED holders
    BY <2>4
  <2> QED
    BY <2>1, <2>2, <2>3, <2>4 DEF Next, Acquire, TryLock, Enqueue, Refuse
<1> QED  BY <1>1, <1>2, <1>3, TypeCorrect, PTL DEF Spec, HoldNeverWeakens

----------------------------------------------------------------------------
(* Deadlocks between two.                                                  *)

\* t holds or wants something.
Concerned(t) ==
  \E r \in Resources : holders[r][t] # "none" \/ \E e \in queue[r] : e.txn = t

\* However many transactions come and go, no three compete at a time.
TwoCompete ==
  \A t, u, v \in Txns :
     Concerned(t) /\ Concerned(u) /\ Concerned(v) => t = u \/ u = v \/ t = v

\* A request waits for somebody, a wait for somebody has its edge unless that
\* one has been told to give up, and who has been told so waits no more.
WaitersHaveOthers ==
  \A r \in Resources : \A e \in queue[r] : OthersOf(holders[r], e.txn) # {}

WaitsAreTracked ==
  \A r \in Resources : \A e \in queue[r] : \A u \in OthersOf(holders[r], e.txn) :
     u \in waitsFor[e.txn] \/ u \in victims

VictimsIdle == \A t \in victims : ~ Waiting(t)

PairInv ==
  /\ UpgradeInv /\ HeadIsBlocked /\ TwoCompete
  /\ WaitersHaveOthers /\ WaitsAreTracked /\ VictimsIdle

\* What t's release of some resources does.
Releases(t, R) ==
  /\ \A r \in R :
        /\ holders'[r] = ReleasedHolders(holders[r], queue[r], t)
        /\ queue'[r] = ReleasedQueue(holders[r], queue[r], t)
  /\ \A r \in Resources \ R : UNCHANGED <<holders[r], queue[r]>>
  /\ ~ \E r \in Resources : \E e \in queue'[r] : e.txn = t

\* When another transaction releases, a request that goes on waiting is not
\* overtaken by anybody, and it goes on waiting for somebody.
LEMMA WaitersGoOn ==
  ASSUME PairInv, UpgradeInv', HeadIsBlocked', TwoCompete', NEW t \in Txns,
         NEW R \in SUBSET Resources, Releases(t, R),
         NEW r \in Resources, NEW e \in queue'[r]
  PROVE  /\ e \in queue[r] /\ e.txn \in Txns \ {t}
         /\ OthersOf(holders[r], e.txn)' # {}
         /\ OthersOf(holders[r], e.txn)' \subseteq OthersOf(holders[r], e.txn)
         /\ r \in R => t \notin OthersOf(holders[r], e.txn)'
<1>1. e \in queue[r] /\ e.txn \in Txns \ {t}
  <2>1. queue'[r] \subseteq queue[r] /\ e.txn # t
    BY DEF Releases, ReleasedQueue, WithoutRequests
  <2>2. queue[r] \in SUBSET Requests
    BY DEF PairInv, UpgradeInv, TypeOK
  <2> QED  BY <2>1, <2>2 DEF Requests
<1>2. CASE r \notin R
  BY <1>1, <1>2 DEF Releases, OthersOf, HoldersOf, PairInv, WaitersHaveOthers
<1>3. CASE r \in R
  <2> DEFINE h == WithoutHold(holders[r], t)
             q == WithoutRequests(queue[r], t)
             x == e.txn
  <2>0. /\ holders[r] \in Grants /\ holders'[r] \in Grants
        /\ queue[r] \in SUBSET Requests /\ queue'[r] \in SUBSET Requests
        /\ holders'[r] = HoldersAfter(h, Promoted(h, q))
    BY <1>3 DEF PairInv, UpgradeInv, TypeOK, Releases, ReleasedHolders
  <2>1. holders'[r][t] = "none"
    <3>1. \A f \in Promoted(h, q) : f.txn # t
      BY DEF Promoted, WithoutRequests
    <3> QED  BY <2>0, <3>1 DEF HoldersAfter, WithoutHold, Grants
  <2>2. ASSUME NEW v \in Txns, v # x, holders'[r][v] # "none"
        PROVE  holders[r][v] # "none"
    <3> SUFFICES ASSUME holders[r][v] = "none" PROVE FALSE
      OBVIOUS
    <3>1. h[v] = "none"
      BY <2>0, <2>1, <2>2 DEF WithoutHold, Grants
    <3>2. PICK f \in Promoted(h, q) : f.txn = v
      BY <2>0, <2>2, <3>1 DEF HoldersAfter
    <3>3. f \in queue[r]
      BY <3>2 DEF Promoted, WithoutRequests
    <3>4. PICK w \in Txns : w # x /\ holders[r][w] # "none"
      BY <1>1 DEF PairInv, WaitersHaveOthers, OthersOf, HoldersOf
    <3>5. Concerned(v) /\ Concerned(w) /\ Concerned(x)
      BY <1>1, <3>2, <3>3, <3>4 DEF Concerned
    <3>6. w = v
      BY <1>1, <2>2, <3>4, <3>5 DEF PairInv, TwoCompete
    <3> QED  BY <3>4, <3>6
  <2>3. OthersOf(holders[r], x)' # {}
    <3>1. PICK f \in queue'[r] : IsHead(queue'[r], f)
      BY <2>0, QueueHasHead
    <3>2. PICK w \in OthersOf(holders'[r], f.txn) : TRUE
      BY <3>1 DEF HeadIsBlocked, Grantable
    <3>3. CASE w # x
      BY <3>2, <3>3 DEF OthersOf, HoldersOf
    <3>4. CASE w = x
      <4>1. f.txn \in Txns /\ f.txn # x /\ f.txn # t /\ f \in queue[r]
        BY <1>3, <2>0, <3>1, <3>2, <3>4
           DEF OthersOf, HoldersOf, Releases, ReleasedQueue, WithoutRequests, Requests
      <4>2. PICK y \in Txns : y # x /\ holders[r][y] # "none"
        BY <1>1 DEF PairInv, WaitersHaveOthers, OthersOf, HoldersOf
      <4>3. Concerned(f.txn) /\ Concerned(y) /\ Concerned(x)
        BY <1>1, <4>1, <4>2 DEF Concerned
      <4>4. y = f.txn
        BY <1>1, <4>1, <4>2, <4>3 DEF PairInv, TwoCompete
      <4>5. holders'[r][y] # "none"
        <5>1. y \in Txns \ {t} /\ holders[r][y] # "none"
          BY <4>1, <4>2, <4>4
        <5>2. ReleasedHolders(holders[r], queue[r], t)[y] # "none"
          BY <2>0, <5>1, PromotionShape
        <5> QED  BY <1>3, <5>2 DEF Releases
      <4> QED  BY <4>2, <4>5 DEF OthersOf, HoldersOf
    <3> QED  BY <3>3, <3>4
  <2> QED  BY <1>1, <2>1, <2>2, <2>3 DEF OthersOf, HoldersOf
<1> QED  BY <1>1, <1>2, <1>3

\* A release takes no edge from a transaction that goes on waiting.
LEMMA WaitersKeepEdges ==
  ASSUME PairInv, NEW t \in Txns, NEW R \in SUBSET Resources, Releases(t, R),
         NEW r \in Resources, NEW e \in queue'[r], NEW s \in R
  PROVE  ReleasedEdges(s, t, e.txn) = {}
<1> DEFINE P == Promoted(WithoutHold(holders[s], t), WithoutRequests(queue[s], t))
<1>1. e \in queue[r]
  BY DEF Releases, ReleasedQueue, WithoutRequests
<1>2. \A f \in P : f \in queue[s] /\ f \notin queue'[s]
  BY DEF Releases, ReleasedQueue, Promoted, WithoutRequests
<1>3. \A f \in P : f.txn # e.txn
  BY <1>1, <1>2 DEF PairInv, UpgradeInv, OneRequestEach
<1> QED  BY <1>3 DEF ReleasedEdges, Unlinked

\* Each call keeps the strengthened invariant while no three compete.
LEMMA PairStep ==
  ASSUME OneAtATime, VictimAborts, PairInv, [Next]_vars, TypeOK', TwoCompete'
  PROVE  PairInv'
<1>0. UpgradeInv' /\ HeadIsBlocked'
  BY UpgradeStep, HeadStep DEF PairInv, UpgradeInv
<1> DEFINE Goal == WaitersHaveOthers' /\ WaitsAreTracked' /\ VictimsIdle'
<1> SUFFICES Goal
  BY <1>0 DEF PairInv
<1>1. ASSUME NEW t \in Txns, NEW r \in Resources, NEW mode \in Modes, Grant(t, r, mode)
      PROVE  Goal
  <2>1. /\ UNCHANGED <<queue, waitsFor, victims>>
        /\ \A s \in Resources, u \in Txns :
              holders'[s][u] = IF s = r /\ u = t THEN mode ELSE holders[s][u]
    BY <1>1 DEF Grant, PairInv, UpgradeInv, TypeOK, Grants
  <2>2. mode # "none"
    BY ModesAssumption
  <2>3. ASSUME NEW s \in Resources, NEW e \in queue[s]
        PROVE  OthersOf(holders[s], e.txn)' = OthersOf(holders[s], e.txn)
    <3>1. CASE s = r
      <4>1. PICK w \in HoldersOf(holders[r]) : w # e.txn
        BY <2>3, <3>1 DEF PairInv, WaitersHaveOthers, OthersOf
      <4>2. HoldersOf(holders[r]) = {t}
        BY <1>1, <2>3, <3>1, <4>1 DEF Grant, GrantedAtOnce, Compatible
      <4> QED  BY <2>1, <2>2, <3>1, <4>2 DEF OthersOf, HoldersOf
    <3>2. CASE s # r
      BY <2>1, <3>2 DEF OthersOf, HoldersOf
    <3> QED  BY <3>1, <3>2
  <2> QED
    BY <2>1, <2>3 DEF PairInv, WaitersHaveOthers, WaitsAreTracked, VictimsIdle, Waiting
<1>2. ASSUME NEW t \in Txns, NEW r \in Resources, NEW mode \in Modes,
             t \notin victims, Enqueue(t, r, mode)
      PROVE  Goal
  <2>1. PICK p \in 1..MaxTicket :
           queue' = [queue EXCEPT ![r] =
                       @ \cup {[pos |-> p, txn |-> t, mode |-> mode]}]
    BY <1>2 DEF Enqueue
  <2>2. PICK new : new = [pos |-> p, txn |-> t, mode |-> mode]
    OBVIOUS
  <2>3. /\ \A s \in Resources : \A e \in queue'[s] : e \in queue[s] \/ (s = r /\ e = new)
        /\ new.txn = t
    BY <2>1, <2>2 DEF PairInv, UpgradeInv, TypeOK
  <2>4. /\ UNCHANGED <<holders, victims>>
        /\ \A u \in Txns : waitsFor[u] \subseteq waitsFor'[u]
        /\ OthersOf(holders[r], t) \subseteq waitsFor'[t]
    BY <1>2 DEF Enqueue, Linked, PairInv, UpgradeInv, TypeOK
  <2>5. OthersOf(holders[r], t) # {}
    BY <1>2 DEF Enqueue, MustWait, GrantedAtOnce, Compatible, OthersOf
  <2>6. \A s \in Resources : \A e \in queue'[s] : e.txn \in Txns
    BY <1>0 DEF UpgradeInv, TypeOK, Requests
  <2>7. ASSUME NEW s \in Resources, NEW e \in queue'[s]
        PROVE  /\ OthersOf(holders[s], e.txn)' # {}
               /\ \A u \in OthersOf(holders[s], e.txn)' : u \in waitsFor'[e.txn] \/ u \in victims'
    <3>1. OthersOf(holders[s], e.txn)' = OthersOf(holders[s], e.txn)
      BY <2>4 DEF OthersOf, HoldersOf
    <3>2. CASE e \in queue[s]
      BY <2>4, <2>6, <3>1, <3>2 DEF PairInv, WaitersHaveOthers, WaitsAreTracked
    <3>3. CASE s = r /\ e = new
      BY <2>3, <2>4, <2>5, <3>1, <3>3
    <3> QED  BY <2>3, <3>2, <3>3
  <2>8. VictimsIdle'
    BY <1>2, <2>3, <2>4 DEF PairInv, VictimsIdle, Waiting
  <2> QED  BY <2>7, <2>8 DEF WaitersHaveOthers, WaitsAreTracked
<1>3. ASSUME NEW t \in Txns, NEW r \in Resources, NEW mode \in Modes,
             ~ Waiting(t), Refuse(t, r, mode)
      PROVE  Goal
  <2>1. UNCHANGED <<holders, queue>> /\ victims' = victims \cup {t}
    BY <1>3 DEF Refuse
  <2>2. ASSUME NEW s \in Resources, NEW e \in queue[s]
        PROVE  e.txn # t /\ e.txn \in Txns /\ waitsFor[e.txn] \subseteq waitsFor'[e.txn] \cup {t}
    <3>1. e.txn # t /\ e.txn \in Txns
      BY <1>3 DEF Waiting, PairInv, UpgradeInv, TypeOK, Requests
    <3> QED  BY <1>3, <3>1 DEF Refuse
  <2>3. \A s \in Resources, x \in Txns : OthersOf(holders[s], x)' = OthersOf(holders[s], x)
    BY <2>1 DEF OthersOf, HoldersOf
  <2>4. WaitersHaveOthers' /\ WaitsAreTracked'
    BY <2>1, <2>2, <2>3 DEF PairInv, WaitersHaveOthers, WaitsAreTracked
  <2>5. VictimsIdle'
    BY <1>3, <2>1 DEF PairInv, VictimsIdle, Waiting
  <2> QED  BY <2>4, <2>5
<1>4. ASSUME NEW t \in Txns, NEW R \in SUBSET Resources, Releases(t, R),
             \A u \in Txns \ {t} : \A v \in waitsFor[u] :
                \/ v \in waitsFor'[u]
                \/ \E s \in R : v \in ReleasedEdges(s, t, u)
                \/ v = t /\ R = Resources,
             \A v \in victims : v \in victims' \/ (v = t /\ R = Resources),
             victims' \subseteq victims
      PROVE  Goal
  <2>1. ASSUME NEW r \in Resources, NEW e \in queue'[r]
        PROVE  /\ e \in queue[r] /\ e.txn \in Txns \ {t}
               /\ OthersOf(holders[r], e.txn)' # {}
               /\ OthersOf(holders[r], e.txn)' \subseteq OthersOf(holders[r], e.txn)
               /\ r \in R => t \notin OthersOf(holders[r], e.txn)'
    BY <1>0, <1>4, <2>1, WaitersGoOn
  <2>2. ASSUME NEW r \in Resources, NEW e \in queue'[r],
               NEW u \in OthersOf(holders[r], e.txn)'
        PROVE  u \in waitsFor'[e.txn] \/ u \in victims'
    <3>1. u \in OthersOf(holders[r], e.txn) /\ (R = Resources => u # t)
      BY <2>1, <2>2
    <3>2. u \in waitsFor[e.txn] \/ u \in victims
      BY <2>1, <3>1 DEF PairInv, WaitsAreTracked
    <3>3. \A s \in R : ReleasedEdges(s, t, e.txn) = {}
      BY <1>4, <2>2, WaitersKeepEdges
    <3> QED  BY <1>4, <2>1, <3>1, <3>2, <3>3
  <2>3. VictimsIdle'
    BY <1>4, <2>1 DEF PairInv, VictimsIdle, Waiting
  <2> QED  BY <2>1, <2>2, <2>3 DEF WaitersHaveOthers, WaitsAreTracked
<1>5. ASSUME NEW t \in Txns, NEW r \in Resources, ~ Waiting(t), Release(t, r)
      PROVE  Goal
  <2>1. Releases(t, {r})
    <3>1. \A s \in Resources : \A e \in queue'[s] : e \in queue[s]
      BY <1>5 DEF Release, ReleasedQueue, WithoutRequests, PairInv, UpgradeInv, TypeOK
    <3> QED  BY <1>5, <3>1 DEF Release, Releases, Waiting, PairInv, UpgradeInv, TypeOK
  <2>2. /\ victims' = victims
        /\ \A u \in Txns \ {t} : \A v \in waitsFor[u] :
              v \in waitsFor'[u] \/ v \in ReleasedEdges(r, t, u)
    BY <1>5 DEF Release
  <2>3. /\ {r} \in SUBSET Resources
        /\ \A u \in Txns \ {t} : \A v \in waitsFor[u] :
              v \in waitsFor'[u] \/ \E s \in {r} : v \in ReleasedEdges(s, t, u)
    BY <2>2
  <2> QED  BY <1>4, <2>1, <2>2, <2>3
<1>6. ASSUME NEW t \in Txns, ReleaseAll(t)
      PROVE  Goal
  <2>1. Releases(t, Resources)
    BY <1>6 DEF ReleaseAll, Releases, ReleasedQueue, WithoutRequests
  <2>2. /\ victims' = victims \ {t}
        /\ \A u \in Txns \ {t} : \A v \in waitsFor[u] :
              \/ v \in waitsFor'[u]
              \/ \E s \in Resources : v \in ReleasedEdges(s, t, u)
              \/ v = t
    BY <1>6 DEF ReleaseAll
  <2> QED  BY <1>4, <2>1, <2>2
<1>7. CASE UNCHANGED vars
  BY <1>7 DEF vars, PairInv, WaitersHaveOthers, WaitsAreTracked, VictimsIdle, Waiting,
     OthersOf, HoldersOf
<1> HIDE DEF Goal
<1>8. ASSUME NEW t \in Txns, NEW r \in Resources, NEW mode \in Modes,
             Acquire(t, r, mode) \/ TryLock(t, r, mode)
      PROVE  Goal
  <2>1. ~ Waiting(t) /\ t \notin victims
    BY <1>8 DEF Acquire, TryLock, MayCall
  <2>2. Grant(t, r, mode) \/ Enqueue(t, r, mode) \/ Refuse(t, r, mode)
    BY <1>8 DEF Acquire, TryLock
  <2> QED  BY <1>1, <1>2, <1>3, <2>1, <2>2
<1>9. ASSUME NEW t \in Txns, NEW r \in Resources, Release(t, r)
      PROVE  Goal
  <2>1. ~ Waiting(t)
    BY <1>9 DEF Release, MayCall
  <2> QED  BY <1>5, <1>9, <2>1
<1>10. CASE Next
  BY <1>6, <1>8, <1>9, <1>10 DEF Next
<1> QED  BY <1>7, <1>10

\* Two that wait for each other would be a cycle of the graph that is kept.
LEMMA NoPairWaits ==
  ASSUME PairInv, TrackedGraphAcyclic
  PROVE  NoUndetectedDeadlock
<1> SUFFICES ASSUME NEW t \in Txns PROVE ~ OnCycle(BlockedBy, t)
  BY DEF NoUndetectedDeadlock
<1> DEFINE B == BlockedBy
<1>1. ASSUME NEW x \in Txns, NEW y \in B[x]
      PROVE  /\ y \in Txns /\ y # x /\ Waiting(x) /\ Concerned(x) /\ Concerned(y)
             /\ y \in waitsFor[x] \/ y \in victims
  <2>1. y \in Txns /\ \E r \in Resources : \E e \in queue[r] :
           e.txn = x /\ y \in OthersOf(holders[r], x)
    BY <1>1 DEF BlockedBy
  <2>2. PICK r \in Resources : \E e \in queue[r] : e.txn = x /\ y \in OthersOf(holders[r], x)
    BY <2>1
  <2>3. PICK e \in queue[r] : e.txn = x /\ y \in OthersOf(holders[r], x)
    BY <2>2
  <2> QED
    BY <2>1, <2>3 DEF Waiting, Concerned, OthersOf, HoldersOf, PairInv, WaitsAreTracked
<1>2. \A x, y \in Txns : ~ (y \in B[x] /\ x \in B[y])
  <2> SUFFICES ASSUME NEW x \in Txns, NEW y \in Txns, y \in B[x], x \in B[y] PROVE FALSE
    OBVIOUS
  <2>1. y \in waitsFor[x] /\ x \in waitsFor[y]
    BY <1>1 DEF PairInv, VictimsIdle
  <2>2. OnCycle(waitsFor, x)
    BY <2>1 DEF OnCycle, Closed
  <2> QED  BY <2>2 DEF TrackedGraphAcyclic
<1>3. CASE B[t] = {}
  <2>1. {} \in SUBSET Txns /\ Closed(B, {}) /\ B[t] \subseteq {} /\ t \notin {}
    BY <1>3 DEF Closed
  <2> QED  BY <2>1 DEF OnCycle
<1>4. CASE B[t] # {}
  <2>1. PICK u : u \in B[t]
    BY <1>4
  <2>2. u \in Txns /\ u # t /\ B[t] \subseteq {u}
    BY <1>1, <2>1 DEF PairInv, TwoCompete
  <2>3. B[u] = {}
    BY <1>1, <1>2, <2>1, <2>2 DEF PairInv, TwoCompete
  <2>4. {u} \in SUBSET Txns /\ Closed(B, {u}) /\ t \notin {u}
    BY <2>2, <2>3 DEF Closed
  <2> QED  BY <2>2, <2>4 DEF OnCycle
<1> QED  BY <1>3, <1>4

\* While no three transactions compete for locks at a time, callers that wait
\* for what they queued for and give up when told to are never deadlocked
\* unnoticed, however many of them there are in all.
THEOREM PairsNeverDeadlock ==
  ASSUME OneAtATime, VictimAborts
  PROVE  Spec /\ []TwoCompete => []NoUndetectedDeadlock
<1>1. Init /\ TwoCompete => PairInv
  BY DEF Init, PairInv, UpgradeInv, TypeOK, Grants, OneRequestEach, HoldersUpgrade,
     HeadIsBlocked, WaitersHaveOthers, WaitsAreTracked, VictimsIdle, Waiting
<1>2. PairInv /\ TypeOK' /\ TwoCompete' /\ [Next]_vars => PairInv'
  BY PairStep
<1>3. PairInv /\ TrackedGraphAcyclic => NoUndetectedDeadlock
  BY NoPairWaits
<1> QED  BY <1>1, <1>2, <1>3, TypeCorrect, GraphStaysAcyclic, PTL DEF Spec
============================================================================
