---------------------------- MODULE LockManager ----------------------------
(***************************************************************************)
(* The strict two-phase lock manager of the kernel                         *)
(* (crates/qmind-kernel/src/lock.rs): S/X locks, one FIFO queue per        *)
(* resource, a waits-for graph searched for a cycle at every enqueue, and  *)
(* promotion of queued requests when a lock is released.                   *)
(*                                                                         *)
(* Every operation takes `&mut self`, so a call is one atomic step; the    *)
(* actors are the transactions that make the calls.  `acquire` never       *)
(* blocks its thread: it answers Ok for "granted or safely enqueued", so a *)
(* transaction with a queued request may go on calling.  What callers do   *)
(* with that freedom is a parameter (OneAtATime, VictimAborts).            *)
(***************************************************************************)
EXTENDS Integers, FiniteSets

CONSTANTS
  Txns,          \* transaction ids, each used for one transaction
  Resources,     \* the lockable names
  Modes,         \* the lock modes callers ask for, a subset of {"S", "X"}
  Calls,         \* the calls made besides release_all
  OneAtATime,    \* TRUE: a transaction with a queued request waits for it
  VictimAborts,  \* TRUE: after Deadlock the only call left is release_all
  MaxTicket      \* bound: queue places handed out before a queue drains

ASSUME ModesAssumption == Modes \subseteq {"S", "X"}
ASSUME CallsAssumption == Calls \subseteq {"acquire", "try_lock", "release"}
ASSUME TicketAssumption == MaxTicket \in Nat

VARIABLES
  holders,   \* LockEntry.holders: the granted mode of each transaction
  queue,     \* LockEntry.queue: the waiting requests, in order of `pos`
  waitsFor,  \* LockManager.waits_for; an absent key is the empty set
  nodes,     \* the keys present in waits_for
  live,      \* transactions that have not called release_all
  victims    \* transactions whose last acquire answered Deadlock

vars == <<holders, queue, waitsFor, nodes, live, victims>>

Grants == [Txns -> {"none", "S", "X"}]
Requests == [pos : 1..MaxTicket, txn : Txns, mode : {"S", "X"}]

----------------------------------------------------------------------------
(* Grant rules, for the holders h and the queue q of one resource.         *)

HoldersOf(h) == {t \in Txns : h[t] # "none"}

OthersOf(h, t) == HoldersOf(h) \ {t}

\* The rule of `release` for the queue's head: its own hold does not count.
Grantable(h, e) ==
  \A u \in OthersOf(h, e.txn) : e.mode = "S" /\ h[u] = "S"

MutantModeIgnored(h, q, mode) == HoldersOf(h) = {} \/ (mode = "S" /\ q = {})

MutantOvertaking(h, q, mode) ==
  \/ HoldersOf(h) = {}
  \/ mode = "S" /\ \A u \in HoldersOf(h) : h[u] = "S"

\* The rule of acquire and try_lock, where a shared request does not
\* overtake a queue.
Compatible(h, q, mode) ==
  \/ HoldersOf(h) = {}
  \/ mode = "S" /\ q = {} /\ \A u \in HoldersOf(h) : h[u] = "S"

MutantSameModeOnly(h, t, mode) == h[t] = mode

Sufficient(h, t, mode) == h[t] = "X" \/ h[t] = mode

GrantedAtOnce(h, q, t, mode) ==
  /\ ~ Sufficient(h, t, mode)
  /\ HoldersOf(h) = {t} \/ Compatible(h, q, mode)

----------------------------------------------------------------------------
(* Promotion: the loop at the end of `release`.                            *)

\* The holders after the requests of P, a prefix of the queue, are granted
\* in order: the last grant of a transaction decides its mode.
HoldersAfter(h, P) ==
  [t \in Txns |->
     IF \E e \in P : /\ e.txn = t /\ e.mode = "X"
                     /\ \A f \in P : f.txn = t => f.pos <= e.pos
     THEN "X"
     ELSE IF \E e \in P : e.txn = t THEN "S" ELSE h[t]]

Before(q, e) == {f \in q : f.pos < e.pos}

UpTo(q, e) == {f \in q : f.pos <= e.pos}

MutantNoPromotion(h, q) == {}

MutantPromoteOne(h, q) == {e \in q : Before(q, e) = {} /\ Grantable(h, e)}

\* The requests the loop grants: those with nothing ungrantable at or before
\* them.
Promoted(h, q) ==
  {e \in q : \A f \in UpTo(q, e) : Grantable(HoldersAfter(h, Before(q, f)), f)}

MutantEdgesKept(h, q, t, u) == {}

\* The waits-for entries the loop takes from u's set when t releases: t and
\* the holders present when u's request was granted.
Unlinked(h, q, t, u) ==
  {v \in Txns \ {u} :
     \E e \in Promoted(h, q) :
        /\ e.txn = u
        /\ v = t \/ HoldersAfter(h, UpTo(q, e))[v] # "none"}

\* Holders and queue of a resource once t's hold and requests are dropped.
WithoutHold(h, t) == [h EXCEPT ![t] = "none"]
WithoutRequests(q, t) == {e \in q : e.txn # t}

ReleasedHolders(h, q, t) ==
  HoldersAfter(WithoutHold(h, t),
               Promoted(WithoutHold(h, t), WithoutRequests(q, t)))

ReleasedQueue(h, q, t) ==
  WithoutRequests(q, t) \ Promoted(WithoutHold(h, t), WithoutRequests(q, t))

ReleasedEdges(r, t, u) ==
  Unlinked(WithoutHold(holders[r], t), WithoutRequests(queue[r], t), t, u)

----------------------------------------------------------------------------
(* Deadlock detection.                                                     *)

Closed(g, S) == \A u \in S : g[u] \subseteq S

\* find_cycle(t): t can be reached from itself, that is, every closed set
\* with t's successors in it has t in it.
OnCycle(g, t) ==
  \A S \in SUBSET Txns : Closed(g, S) /\ g[t] \subseteq S => t \in S

Linked(r, t) ==
  [waitsFor EXCEPT ![t] = @ \cup OthersOf(holders[r], t)]

MutantSearchBeforeLinking(r, t) == OnCycle(waitsFor, t)

\* Whether t, queued for r, would wait for itself.
ClosesCycle(r, t) == OnCycle(Linked(r, t), t)

----------------------------------------------------------------------------
(* The calls.  A call that changes nothing (a hold that suffices already,  *)
(* Busy from try_lock, release of a resource with no entry) is a           *)
(* stuttering step.                                                        *)

Waiting(t) == \E r \in Resources : \E e \in queue[r] : e.txn = t

MayCall(t) ==
  /\ t \in live
  /\ OneAtATime => ~ Waiting(t)
  /\ VictimAborts => t \notin victims

Grant(t, r, mode) ==
  /\ GrantedAtOnce(holders[r], queue[r], t, mode)
  /\ holders' = [holders EXCEPT ![r][t] = mode]
  /\ UNCHANGED <<queue, waitsFor, nodes, live, victims>>

MustWait(t, r, mode) ==
  /\ ~ Sufficient(holders[r], t, mode)
  /\ ~ GrantedAtOnce(holders[r], queue[r], t, mode)

MutantTicketFromLength(q, p) == p = Cardinality(q) + 1

NextTicket(q, p) ==
  /\ \A e \in q : e.pos < p
  /\ p = 1 \/ \E e \in q : e.pos = p - 1

Enqueue(t, r, mode) ==
  /\ MustWait(t, r, mode)
  /\ ~ ClosesCycle(r, t)
  /\ \E p \in 1..MaxTicket :
        /\ NextTicket(queue[r], p)
        /\ queue' = [queue EXCEPT ![r] =
                       @ \cup {[pos |-> p, txn |-> t, mode |-> mode]}]
  /\ waitsFor' = Linked(r, t)
  /\ nodes' = nodes \cup {t}
  /\ UNCHANGED <<holders, live, victims>>

\* The request is taken back, with every edge of t and with the edges to t of
\* the holders it ran into.
Refuse(t, r, mode) ==
  /\ MustWait(t, r, mode)
  /\ ClosesCycle(r, t)
  /\ waitsFor' = [u \in Txns |->
                    IF u = t THEN {}
                    ELSE IF u \in OthersOf(holders[r], t)
                         THEN waitsFor[u] \ {t}
                         ELSE waitsFor[u]]
  /\ nodes' = nodes \ {t}
  /\ victims' = victims \cup {t}
  /\ UNCHANGED <<holders, queue, live>>

Acquire(t, r, mode) ==
  /\ "acquire" \in Calls /\ MayCall(t)
  /\ \/ Grant(t, r, mode)
     \/ Enqueue(t, r, mode)
     \/ Refuse(t, r, mode)

TryLock(t, r, mode) ==
  /\ "try_lock" \in Calls /\ MayCall(t)
  /\ Grant(t, r, mode)

Release(t, r) ==
  /\ "release" \in Calls /\ MayCall(t)
  /\ HoldersOf(holders[r]) # {} \/ queue[r] # {}
  /\ holders' = [holders EXCEPT ![r] = ReleasedHolders(@, queue[r], t)]
  /\ queue' = [queue EXCEPT ![r] = ReleasedQueue(holders[r], @, t)]
  /\ waitsFor' = [u \in Txns |->
                    IF u = t THEN {} ELSE waitsFor[u] \ ReleasedEdges(r, t, u)]
  /\ UNCHANGED <<nodes, live, victims>>

\* Commit, abort or disconnect: release on every resource, then the sweep.
ReleaseAll(t) ==
  /\ t \in live
  /\ holders' = [r \in Resources |-> ReleasedHolders(holders[r], queue[r], t)]
  /\ queue' = [r \in Resources |-> ReleasedQueue(holders[r], queue[r], t)]
  /\ waitsFor' =
       [u \in Txns |->
          IF u = t THEN {}
          ELSE waitsFor[u] \ ({t} \cup UNION {ReleasedEdges(r, t, u) : r \in Resources})]
  /\ nodes' = nodes \ {t}
  /\ live' = live \ {t}
  /\ victims' = victims \ {t}

Init ==
  /\ holders = [r \in Resources |-> [t \in Txns |-> "none"]]
  /\ queue = [r \in Resources |-> {}]
  /\ waitsFor = [t \in Txns |-> {}]
  /\ nodes = {}
  /\ live = Txns
  /\ victims = {}

Next ==
  \E t \in Txns :
     \/ \E r \in Resources, mode \in Modes : Acquire(t, r, mode)
     \/ \E r \in Resources, mode \in Modes : TryLock(t, r, mode)
     \/ \E r \in Resources : Release(t, r)
     \/ ReleaseAll(t)

Spec == Init /\ [][Next]_vars

\* A transaction that is not waiting for a lock commits or aborts in the end.
Fairness == \A t \in Txns : WF_vars(~ Waiting(t) /\ ReleaseAll(t))

FairSpec == Spec /\ Fairness

----------------------------------------------------------------------------
(* Properties.                                                             *)

\* The state keeps its shape, and two waiting requests of a resource never
\* share a place in its queue.
TypeOK ==
  /\ holders \in [Resources -> Grants]
  /\ queue \in [Resources -> SUBSET Requests]
  /\ \A r \in Resources : \A e, f \in queue[r] : e.pos = f.pos => e = f
  /\ waitsFor \in [Txns -> SUBSET Txns]
  /\ nodes \subseteq Txns
  /\ live \subseteq Txns
  /\ victims \subseteq live

\* An exclusive holder is the only holder, whatever mix of direct grants,
\* upgrades and group promotions led there (lock.rs:62-117, 211-238).
MutualExclusion ==
  \A r \in Resources : \A t, u \in Txns :
    holders[r][t] = "X" /\ holders[r][u] # "none" => t = u

IsHead(q, e) == e \in q /\ \A f \in q : e.pos <= f.pos

\* No wake-up is lost: a request at the head of a queue is one the promotion
\* loop could not grant.  Grants made past the queue (upgrade of a sole
\* holder), cancelled waiters and refused requests keep it so (lock.rs:190-242).
HeadIsBlocked ==
  \A r \in Resources : \A e \in queue[r] :
    IsHead(queue[r], e) => ~ Grantable(holders[r], e)

\* The waits-for graph the manager keeps never has a cycle: the search from
\* the requester alone is enough (lock.rs:101-115).
TrackedGraphAcyclic == \A t \in Txns : ~ OnCycle(waitsFor, t)

\* A terminated transaction is gone from holders, queues and graph
\* (lock.rs:8-11, 244-259).
TerminatedIsGone ==
  \A t \in Txns \ live :
    /\ \A r \in Resources : /\ holders[r][t] = "none"
                            /\ \A e \in queue[r] : e.txn # t
    /\ waitsFor[t] = {} /\ t \notin nodes
    /\ \A u \in Txns : t \notin waitsFor[u]

\* The waits-for entries are real: each stands for a request of the waiter on
\* a resource the other still holds, so a Deadlock answer is never spurious
\* (lock.rs:225-237; docs/concepts/deadlocks.rst, "never misdetected").
EdgesAreReal ==
  \A t \in Txns : \A u \in waitsFor[t] :
    \E r \in Resources : \E e \in queue[r] : e.txn = t /\ u \in OthersOf(holders[r], t)

\* While requests wait for a resource, a transaction is granted a mode on it
\* in two ways only: it had a request in the queue, and no request that was
\* ahead of its first one is left; or it is the only holder and strengthens
\* its own lock, which passes the queue by.
ClaimedInOrder ==
  \A r \in Resources : \A t \in Txns :
    (queue[r] # {} /\ holders'[r][t] \notin {holders[r][t], "none"})
    => \/ \E e \in queue[r] :
            e.txn = t /\ \A f \in queue'[r] : f \in queue[r] => f.pos > e.pos
       \/ HoldersOf(holders[r]) = {t} /\ UNCHANGED queue

\* First claim: no later request, queued or no-wait, overtakes a queued one
\* (lock.rs:77-80, 209-223), with one exception that docs/concepts/deadlocks.rst
\* does not name at lines 103-107: the upgrade of a sole holder is granted at
\* once (lock.rs:71-74, 137-140).
FirstClaim == [][ClaimedInOrder]_vars

\* Strict 2PL: whatever others do, a granted mode is kept or strengthened until
\* the transaction itself gives it up (lock.rs:7-8).
HoldNeverWeakens ==
  [][\A r \in Resources : \A t \in live' :
       holders[r][t] # "none" =>
         holders'[r][t] \in {holders[r][t], "X"} \/ Release(t, r)]_vars

\* Whom t really waits for: the other holders of what it has queued for.
BlockedBy == [t \in Txns |->
  {u \in Txns : \E r \in Resources : \E e \in queue[r] :
                   e.txn = t /\ u \in OthersOf(holders[r], t)}]

\* No transactions wait for each other in a ring: acquire refused the request
\* that would have closed it (lock.rs:4-7, 101-115).
NoUndetectedDeadlock == \A t \in Txns : ~ OnCycle(BlockedBy, t)

\* Every wait ends: the request is granted, refused or cancelled
\* (lock.rs:57-59), provided transactions that do not wait terminate.
EveryWaitEnds == \A t \in Txns : Waiting(t) ~> ~ Waiting(t)
============================================================================
