-------------------------- MODULE ReadyQueueProofs --------------------------
(***************************************************************************)
(* Proofs about ReadyQueue: the linked list of used priorities and the     *)
(* walk of PopNextReadyThread, for any threads and number of priorities.   *)
(***************************************************************************)
EXTENDS ReadyQueue, ListProofs

\* The priorities that n, the list of successors, has linked
LinkedIn(n) == {p \in Priorities : n[p] # UnlinkedTag}

\* q is the least element of L from p on, or the null pointer if there is none
Follows(L, q, p) ==
  \/ q = nullptr /\ \A l \in L : l < p
  \/ q \in L /\ q >= p /\ \A l \in L : l >= p => q <= l

Sorted(f, n) ==
  /\ Follows(LinkedIn(n), f, 0)
  /\ \A p \in LinkedIn(n) : Follows(LinkedIn(n), n[p], p + 1)

ListTypes(f, n) == f \in Priorities \cup {nullptr} /\ n \in [Priorities -> Pointers]

Reachable(n, d, st, cp) ==
  /\ \A p \in Priorities : d[p] # <<>> => p \in LinkedIn(n)
  /\ \A t \in Threads : st[t] # "Unborn" => cp[t] \in LinkedIn(n)

ReadyAt(st, cp, p) == {t \in Threads : st[t] = "Ready" /\ cp[t] = p}

\* The ready threads of each priority, but for those in A
ReadyBut(st, cp, A) == [p \in Priorities |-> ReadyAt(st, cp, p) \ A]

\* The queues hold the threads of S, each once
QueuesHold(d, S) == d \in [Priorities -> Seq(Threads)] /\ \A p \in Priorities : Lists(d[p], S[p])

\* Thread t joins the threads of priority p, or leaves them
Joins(S, S2, p, t) ==
  /\ p \in Priorities /\ t \in Threads /\ t \notin S[p]
  /\ \A r \in Priorities : S2[r] = IF r = p THEN S[p] \cup {t} ELSE S[r]
Leaves(S, S2, p, t) ==
  p \in Priorities /\ \A r \in Priorities : S2[r] = IF r = p THEN S[p] \ {t} ELSE S[r]

\* Queues e differ from d at most at p, or are empty wherever d is
SameBut(e, d, p) == \A r \in Priorities \ {p} : e[r] = d[r]
NoFurther(e, d) == \A r \in Priorities : e[r] # <<>> => d[r] # <<>>

ThreadTypes(d, st, cp, um, ct) ==
  /\ d \in [Priorities -> Seq(Threads)]
  /\ st \in [Threads -> Status] /\ cp \in [Threads -> Priorities]
  /\ um \in [Threads -> SUBSET Modes] /\ ct \in Threads \cup {Null}

\* What holds of queues and threads while no reschedule is under way
Consistent(f, n, d, st, cp, um, ct) ==
  /\ ListTypes(f, n) /\ Sorted(f, n) /\ ThreadTypes(d, st, cp, um, ct)
  /\ Reachable(n, d, st, cp) /\ QueuesHold(d, ReadyBut(st, cp, {}))

\* The threads that a reschedule has taken out of their queues
Away ==
  IF walk = Null THEN {} ELSE {walk.next} \cup {walk.skipped[i][2] : i \in Taken}

\* A walk for a better thread stays in the list before the current thread's queue
WalkInside ==
  walk.better =>
    /\ current_thread # Null /\ status[current_thread] = "Running"
    /\ walk.op = "pop" =>
         walk.cur \in LinkedIn(next_nonempty) /\ walk.cur <= current_priority[current_thread]

\* What was taken is ready and goes back to its own queue, and what was found may run
TakenReady ==
  \A i \in Taken : /\ walk.skipped[i][1] = current_priority[walk.skipped[i][2]]
                   /\ status[walk.skipped[i][2]] = "Ready" /\ walk.skipped[i][2] # walk.next
TakenOnce == \A i, j \in Taken : walk.skipped[i][2] = walk.skipped[j][2] => i = j
Found ==
  /\ walk.op = "pop" => walk.next = Null
  /\ walk.op = "restore" => walk.it <= Len(walk.skipped)
  /\ walk.op = "restore" /\ walk.next # Null =>
       status[walk.next] = "Ready" \/ (walk.next = current_thread /\ status[walk.next] = "Running")

WalkInv == walk # Null => walk \in Walks /\ WalkInside /\ TakenReady /\ TakenOnce /\ Found

\* The state that a load brings back
SavedConsistent ==
  saved # Null =>
    Consistent(ToPointer(saved.first), [p \in Priorities |-> ToPointer(saved.next[p])], saved.data,
               saved.threads[1], saved.threads[2], saved.threads[3], saved.threads[4])

ListInv == ListTypes(first, next_nonempty) /\ Sorted(first, next_nonempty)
ThreadInv ==
  /\ ThreadTypes(data, status, current_priority, unschedule_mode, current_thread)
  /\ Reachable(next_nonempty, data, status, current_priority)
  /\ QueuesHold(data, ReadyBut(status, current_priority, Away))

ReadyInv == ListInv /\ ThreadInv /\ WalkInv /\ SavedConsistent

-----------------------------------------------------------------------------
(* Least and greatest priorities *)

(* The priorities are the naturals below the number of queues; no pointer that is not a       *)
(* priority is a number.                                                                      *)
LEMMA PriorityFacts ==
  /\ NumQueues \in Nat /\ Priorities \subseteq Nat /\ \A p \in Priorities : p < NumQueues
  /\ nullptr \notin Priorities /\ UnlinkedTag \notin Priorities /\ nullptr # UnlinkedTag
BY PointersAssumption DEF Priorities

(* The greatest of some priorities, which Max chooses.                                        *)
LEMMA MaxPriority ==
  ASSUME NEW S, S \subseteq Priorities, S # {}
  PROVE  Max(S) \in S /\ \A y \in S : y <= Max(S)
<1> DEFINE D == {NumQueues - x : x \in S}
<1>1. S \subseteq Nat /\ NumQueues \in Nat /\ \A x \in S : x < NumQueues
  BY PriorityFacts
<1>2. D \subseteq Nat /\ D # {}
  <2>1. \A x \in S : NumQueues - x \in Nat
    BY <1>1
  <2> QED
    BY <2>1
<1>3. Min(D) \in D /\ \A y \in D : Min(D) <= y
  BY <1>2, MinNat
<1>4. PICK x \in S : Min(D) = NumQueues - x
  BY <1>3
<1>5. \A y \in S : NumQueues - x <= NumQueues - y
  BY <1>3, <1>4
<1>6. \A y \in S : x >= y
  BY <1>1, <1>5
<1>7. Max(S) \in S /\ \A y \in S : Max(S) >= y
  BY <1>6 DEF Max
<1> QED
  BY <1>1, <1>7

(* NextLinked computes the element of the list that follows.                                  *)
LEMMA NextLinkedFollows ==
  ASSUME NEW p \in Nat, NEW q, Follows(LinkedSet, q, p)
  PROVE  q = NextLinked(p)
<1> DEFINE S == {r \in LinkedSet : r >= p}
<1>1. LinkedSet \subseteq Nat
  BY PriorityFacts DEF LinkedSet
<1>2. CASE q = nullptr /\ \A l \in LinkedSet : l < p
  <2>1. ~ \E r \in LinkedSet : r >= p
    BY <1>1, <1>2
  <2> QED
    BY <1>2, <2>1 DEF NextLinked
<1>3. CASE q \in LinkedSet /\ q >= p /\ \A l \in LinkedSet : l >= p => q <= l
  <2>1. q \in S /\ S \subseteq Nat /\ \A l \in S : q <= l
    BY <1>1, <1>3
  <2>2. Min(S) \in S /\ \A l \in S : Min(S) <= l
    BY <2>1, MinNat
  <2>3. Min(S) \in Nat /\ q \in Nat /\ Min(S) <= q /\ q <= Min(S)
    BY <2>1, <2>2
  <2>4. q = Min(S)
    BY <2>3
  <2>5. NextLinked(p) = Min(S)
    BY <1>3 DEF NextLinked
  <2> QED
    BY <2>4, <2>5
<1> QED
  BY <1>2, <1>3 DEF Follows

(* ThreadQueueList::link puts a priority into the list behind the nearest one before it, and  *)
(* the list stays sorted.                                                                     *)
LEMMA LinkSorts ==
  ASSUME ListInv, NEW p \in Priorities, ~Linked(p), link(p)
  PROVE  ListInv' /\ LinkedIn(next_nonempty') = LinkedIn(next_nonempty) \cup {p}
<1> DEFINE L == LinkedIn(next_nonempty)
           M == LinkedIn(next_nonempty')
<1>1. ListTypes(first, next_nonempty) /\ Sorted(first, next_nonempty)
  BY DEF ListInv
<1>2. /\ L \subseteq Priorities /\ L \subseteq Nat /\ p \in Nat /\ p \notin L
      /\ \A r \in Priorities : r \in L <=> next_nonempty[r] # UnlinkedTag
  BY PriorityFacts DEF Linked, LinkedIn
<1>3. Follows(L, first, 0) /\ \A l \in L : Follows(L, next_nonempty[l], l + 1)
  BY <1>1 DEF Sorted
<1>4. LinkedBelow(p) = {q \in L : q < p}
  BY <1>2, PriorityFacts DEF LinkedBelow, Linked, Priorities
<1> HIDE DEF L
<1>5. CASE LinkedBelow(p) = {}
  <2>1. first' = p /\ next_nonempty' = [next_nonempty EXCEPT ![p] = first]
    BY <1>5 DEF link
  <2>2. ListTypes(first', next_nonempty')
    BY <1>1, <2>1 DEF ListTypes, Pointers
  <2>3. /\ \A r \in Priorities : next_nonempty'[r] = IF r = p THEN first ELSE next_nonempty[r]
        /\ first # UnlinkedTag
    BY <1>1, <2>1, PriorityFacts DEF ListTypes
  <2>4. M = L \cup {p}
    BY <1>2, <2>3 DEF LinkedIn
  <2> HIDE DEF M
  <2>5. \A l \in L : l > p
    BY <1>2, <1>4, <1>5
  <2>6. Follows(M, first', 0)
    BY <1>2, <2>1, <2>4, <2>5 DEF Follows
  <2>7. Follows(M, next_nonempty'[p], p + 1)
    <3>1. next_nonempty'[p] = first
      BY <2>3
    <3>2. CASE first = nullptr /\ \A l \in L : l < 0
      BY <1>2, <2>4, <3>1, <3>2 DEF Follows
    <3>3. CASE first \in L /\ \A l \in L : l >= 0 => first <= l
      <4>1. first \in Nat /\ first > p /\ \A l \in L : first <= l
        BY <1>2, <2>5, <3>3
      <4> QED
        BY <1>2, <2>4, <3>1, <3>3, <4>1 DEF Follows
    <3> QED
      BY <1>3, <3>2, <3>3 DEF Follows
  <2>8. ASSUME NEW l \in L PROVE Follows(M, next_nonempty'[l], l + 1)
    <3>1. next_nonempty'[l] = next_nonempty[l] /\ Follows(L, next_nonempty[l], l + 1) /\ l > p
      BY <1>2, <1>3, <2>3, <2>5
    <3> QED
      BY <1>2, <2>4, <3>1 DEF Follows
  <2>9. Sorted(first', next_nonempty')
    <3>1. \A l \in M : Follows(M, next_nonempty'[l], l + 1)
      BY <2>4, <2>7, <2>8
    <3> QED
      BY <2>6, <3>1 DEF Sorted, M
  <2> QED
    BY <2>2, <2>4, <2>9 DEF ListInv, L, M
<1>6. CASE LinkedBelow(p) # {}
  <2> DEFINE q == Max(LinkedBelow(p))
  <2>1. LinkedBelow(p) \subseteq Priorities
    BY <1>2, <1>4
  <2>2. q \in L /\ q < p /\ \A l \in L : l < p => l <= q
    BY <1>4, <1>6, <2>1, MaxPriority
  <2>3. first' = first /\ next_nonempty' = [next_nonempty EXCEPT ![p] = next_nonempty[q], ![q] = p]
    BY <1>6 DEF link
  <2> HIDE DEF q
  <2>4. q \in Nat /\ q # p /\ q \in Priorities
    BY <1>2, <2>2
  <2>5. ListTypes(first', next_nonempty')
    BY <1>1, <2>3, <2>4 DEF ListTypes, Pointers
  <2>6. \A r \in Priorities : next_nonempty'[r] =
          IF r = q THEN p ELSE IF r = p THEN next_nonempty[q] ELSE next_nonempty[r]
    BY <1>1, <2>3, <2>4 DEF ListTypes
  <2>7. M = L \cup {p}
    <3>1. next_nonempty'[q] # UnlinkedTag /\ next_nonempty'[p] # UnlinkedTag
      BY <1>2, <2>2, <2>4, <2>6, PriorityFacts
    <3>2. ASSUME NEW r \in Priorities, r # p, r # q PROVE next_nonempty'[r] # UnlinkedTag <=> r \in L
      BY <1>2, <2>6, <3>2
    <3>3. \A r \in Priorities : next_nonempty'[r] # UnlinkedTag <=> r \in L \/ r = p
      BY <2>2, <3>1, <3>2
    <3>4. M = {r \in Priorities : r \in L \/ r = p}
      BY <3>3 DEF LinkedIn
    <3> QED
      BY <1>2, <3>4
  <2> HIDE DEF M
  <2>8. Follows(M, first', 0)
    <3>1. first \in L /\ \A l \in L : l >= 0 => first <= l
      BY <1>2, <1>3, <2>2, <2>4 DEF Follows
    <3>2. first \in Nat /\ first <= q /\ first < p
      BY <1>2, <2>2, <2>4, <3>1
    <3> QED
      BY <1>2, <2>3, <2>7, <3>1, <3>2 DEF Follows
  <2>9. Follows(M, next_nonempty'[p], p + 1)
    <3>1. next_nonempty'[p] = next_nonempty[q] /\ Follows(L, next_nonempty[q], q + 1)
      BY <1>3, <2>2, <2>4, <2>6
    <3>2. \A l \in L : l >= q + 1 => l >= p + 1
      BY <1>2, <2>2, <2>4
    <3>3. CASE next_nonempty[q] = nullptr /\ \A l \in L : l < q + 1
      BY <1>2, <2>2, <2>4, <2>7, <3>1, <3>3 DEF Follows
    <3>4. CASE next_nonempty[q] \in L /\ next_nonempty[q] >= q + 1 /\ \A l \in L : l >= q + 1 => next_nonempty[q] <= l
      <4> DEFINE x == next_nonempty[q]
      <4>1. x \in L /\ x >= q + 1 /\ \A l \in L : l >= q + 1 => x <= l
        BY <3>4
      <4>2. next_nonempty'[p] = x
        BY <3>1
      <4> HIDE DEF x
      <4>3. x \in Nat /\ x >= p + 1
        BY <1>2, <3>2, <4>1
      <4>4. \A l \in L : l >= p + 1 => x <= l
        BY <1>2, <2>2, <2>4, <4>1
      <4>5. \A l \in M : l >= p + 1 => x <= l
        BY <1>2, <2>7, <4>4
      <4> QED
        BY <2>7, <4>1, <4>2, <4>3, <4>5 DEF Follows
    <3> QED
      BY <3>1, <3>3, <3>4 DEF Follows
  <2>10. Follows(M, next_nonempty'[q], q + 1)
    <3>1. next_nonempty'[q] = p
      BY <2>4, <2>6
    <3>2. \A l \in M : l >= q + 1 => p <= l
      BY <1>2, <2>2, <2>4, <2>7
    <3> QED
      BY <1>2, <2>2, <2>4, <2>7, <3>1, <3>2 DEF Follows
  <2>11. ASSUME NEW l \in L, l # q PROVE Follows(M, next_nonempty'[l], l + 1)
    <3>1. next_nonempty'[l] = next_nonempty[l] /\ Follows(L, next_nonempty[l], l + 1) /\ l \in Nat /\ l # p
      BY <1>2, <1>3, <2>6, <2>11
    <3>2. CASE l > p
      BY <1>2, <2>7, <3>1, <3>2 DEF Follows
    <3>3. CASE l < p
      <4>1. l < q
        BY <2>2, <2>4, <2>11, <3>1, <3>3
      <4>2. next_nonempty[l] \in L /\ next_nonempty[l] >= l + 1 /\ next_nonempty[l] <= q
            /\ \A m \in L : m >= l + 1 => next_nonempty[l] <= m
        BY <1>2, <2>2, <2>4, <3>1, <4>1 DEF Follows
      <4> DEFINE x == next_nonempty[l]
      <4>3. x \in L /\ x >= l + 1 /\ x <= q /\ (\A m \in L : m >= l + 1 => x <= m) /\ next_nonempty'[l] = x
        BY <3>1, <4>2
      <4> HIDE DEF x
      <4>4. x \in Nat /\ x <= p
        BY <1>2, <2>2, <2>4, <4>3
      <4>5. \A m \in M : m >= l + 1 => x <= m
        BY <2>7, <4>3, <4>4
      <4> QED
        BY <2>7, <4>3, <4>5 DEF Follows
    <3> QED
      BY <1>2, <3>1, <3>2, <3>3
  <2>12. Sorted(first', next_nonempty')
    <3>1. \A l \in M : Follows(M, next_nonempty'[l], l + 1)
      BY <2>7, <2>9, <2>10, <2>11
    <3> QED
      BY <2>8, <3>1 DEF Sorted, M
  <2> QED
    BY <2>5, <2>7, <2>12 DEF ListInv, L, M
<1> QED
  BY <1>5, <1>6

(* Preparing a priority links it, and no other.                                               *)
LEMMA PrepareLinks ==
  ASSUME ListInv, NEW p \in Priorities, prepare(p)
  PROVE  ListInv' /\ LinkedIn(next_nonempty') = LinkedIn(next_nonempty) \cup {p}
<1>1. CASE Linked(p)
  <2>1. first' = first /\ next_nonempty' = next_nonempty
    BY <1>1 DEF prepare
  <2> QED
    BY <1>1, <2>1 DEF ListInv, Linked, LinkedIn
<1>2. CASE ~Linked(p)
  BY <1>2, LinkSorts DEF prepare
<1> QED
  BY <1>1, <1>2

-----------------------------------------------------------------------------
(* Queues *)

(* A thread that gets ready is put at an end of its queue.                                    *)
LEMMA QueuesPush ==
  ASSUME NEW d, NEW X, NEW Y, NEW p, NEW t, QueuesHold(d, X), Joins(X, Y, p, t)
  PROVE  /\ QueuesHold(push_back(d, p, t), Y) /\ QueuesHold(push_front(d, p, t), Y)
         /\ SameBut(push_back(d, p, t), d, p) /\ SameBut(push_front(d, p, t), d, p)
<1> DEFINE back == push_back(d, p, t)
           front == push_front(d, p, t)
<1>0. /\ d \in [Priorities -> Seq(Threads)] /\ p \in Priorities /\ t \in Threads /\ t \notin X[p]
      /\ \A r \in Priorities : Lists(d[r], X[r])
      /\ \A r \in Priorities : Y[r] = IF r = p THEN X[p] \cup {t} ELSE X[r]
  BY DEF QueuesHold, Joins
<1>1. /\ d[p] \in Seq(Threads) /\ Append(d[p], t) \in Seq(Threads) /\ <<t>> \o d[p] \in Seq(Threads)
  <2>1. <<t>> \in Seq(Threads)
    BY <1>0
  <2> QED
    BY <1>0, <2>1
<1>2. /\ back \in [Priorities -> Seq(Threads)] /\ front \in [Priorities -> Seq(Threads)]
      /\ \A r \in Priorities : back[r] = IF r = p THEN Append(d[p], t) ELSE d[r]
      /\ \A r \in Priorities : front[r] = IF r = p THEN <<t>> \o d[p] ELSE d[r]
  BY <1>0, <1>1 DEF push_back, push_front
<1> HIDE DEF back, front
<1>5. Lists(Append(d[p], t), X[p] \cup {t}) /\ Lists(<<t>> \o d[p], X[p] \cup {t})
  BY <1>0, <1>1, ListsAppend, ListsPush
<1>6. \A r \in Priorities : Lists(back[r], Y[r]) /\ Lists(front[r], Y[r])
  BY <1>0, <1>2, <1>5
<1>7. SameBut(back, d, p) /\ SameBut(front, d, p)
  BY <1>2 DEF SameBut
<1>8. QueuesHold(back, Y) /\ QueuesHold(front, Y)
  BY <1>2, <1>6 DEF QueuesHold
<1> QED
  BY <1>2, <1>7, <1>8 DEF back, front

(* A thread that is not to be queued any more is taken out of its queue.                      *)
LEMMA QueuesDrop ==
  ASSUME NEW d, NEW X, NEW Y, NEW p, NEW t, QueuesHold(d, X), Leaves(X, Y, p, t)
  PROVE  /\ QueuesHold(remove(d, p, t), Y)
         /\ NoFurther(remove(d, p, t), d)
<1> DEFINE e == remove(d, p, t)
           z == RemoveFirst(d[p], t)
<1>0. /\ d \in [Priorities -> Seq(Threads)] /\ p \in Priorities
      /\ \A r \in Priorities : Lists(d[r], X[r])
      /\ \A r \in Priorities : Y[r] = IF r = p THEN X[p] \ {t} ELSE X[r]
  BY DEF QueuesHold, Leaves
<1>1. d[p] \in Seq(Threads) /\ z \in Seq(Threads)
  BY <1>0, RemoveFirstType
<1>2. /\ e \in [Priorities -> Seq(Threads)]
      /\ \A r \in Priorities : e[r] = IF r = p THEN z ELSE d[r]
  BY <1>0, <1>1 DEF remove
<1> HIDE DEF e
<1>5. Lists(z, X[p] \ {t})
  BY <1>0, <1>1, ListsRemove
<1>6. d[p] = <<>> => z = <<>>
  BY DEF RemoveFirst
<1> HIDE DEF z
<1>7. \A r \in Priorities : Lists(e[r], Y[r])
  BY <1>0, <1>2, <1>5
<1>8. NoFurther(e, d)
  BY <1>2, <1>6 DEF NoFurther
<1> QED
  BY <1>2, <1>7, <1>8 DEF QueuesHold, e

-----------------------------------------------------------------------------
(* Operations between reschedules *)

\* List, queues and threads as they are
Now == Consistent(first, next_nonempty, data, status, current_priority, unschedule_mode, current_thread)

(* While no reschedule is under way the invariant is the consistency of list and queues.      *)
LEMMA IdleIsConsistent == ASSUME ReadyInv, walk = Null PROVE Now /\ Away = {}
BY DEF ReadyInv, ListInv, ThreadInv, Consistent, Now, Away

(* And consistency is enough for it.                                                          *)
LEMMA ConsistentIsInv ==
  ASSUME ReadyInv, Now', walk' = Null, saved' = saved
  PROVE  ReadyInv'
<1>1. SavedConsistent' /\ WalkInv' /\ Away' = {}
  BY DEF ReadyInv, SavedConsistent, WalkInv, Away
<1>2. ListInv' /\ ThreadTypes(data, status, current_priority, unschedule_mode, current_thread)'
      /\ Reachable(next_nonempty, data, status, current_priority)'
      /\ QueuesHold(data', ReadyBut(status', current_priority', {}))
  BY DEF Now, Consistent, ListInv
<1>3. ThreadInv'
  BY <1>1, <1>2 DEF ThreadInv
<1> QED
  BY <1>1, <1>2, <1>3 DEF ReadyInv

(* What consistency says, part by part.                                                       *)
LEMMA NowFacts ==
  ASSUME Now
  PROVE  /\ ListInv /\ data \in [Priorities -> Seq(Threads)] /\ status \in [Threads -> Status]
         /\ current_priority \in [Threads -> Priorities] /\ unschedule_mode \in [Threads -> SUBSET Modes]
         /\ current_thread \in Threads \cup {Null}
         /\ Reachable(next_nonempty, data, status, current_priority)
         /\ QueuesHold(data, ReadyBut(status, current_priority, {}))
BY DEF Now, Consistent, ThreadTypes, ListInv

(* Creating a thread links its priority, and queues the thread if it starts ready.            *)
LEMMA CreateKeeps ==
  ASSUME ReadyInv, NEW t \in Threads, NEW p \in Priorities, NEW make_ready \in BOOLEAN,
         Create(t, p, make_ready)
  PROVE  ReadyInv'
<1>1. walk = Null /\ walk' = Null /\ saved' = saved
  BY DEF Create, Idle
<1>2. Now
  BY <1>1, IdleIsConsistent
<1>3. /\ ListInv /\ data \in [Priorities -> Seq(Threads)] /\ status \in [Threads -> Status]
      /\ current_priority \in [Threads -> Priorities]
      /\ Reachable(next_nonempty, data, status, current_priority)
      /\ QueuesHold(data, ReadyBut(status, current_priority, {}))
  BY <1>2, NowFacts
<1>4. ListInv' /\ LinkedIn(next_nonempty') = LinkedIn(next_nonempty) \cup {p}
  BY <1>3, PrepareLinks DEF Create
<1>5. /\ status[t] = "Unborn"
      /\ status' = [status EXCEPT ![t] = IF make_ready THEN "Ready" ELSE "Waiting"]
      /\ current_priority' = [current_priority EXCEPT ![t] = p]
      /\ data' = IF make_ready THEN push_back(data, p, t) ELSE data
      /\ UNCHANGED <<unschedule_mode, current_thread>>
  BY DEF Create
<1> DEFINE S == ReadyBut(status, current_priority, {})
           S2 == ReadyBut(status', current_priority', {})
<1>6. make_ready => Joins(S, S2, p, t)
  BY <1>3, <1>5 DEF ReadyBut, ReadyAt, Joins
<1>7. ~make_ready => S2 = S
  BY <1>3, <1>5 DEF ReadyBut, ReadyAt
<1> HIDE DEF S, S2
<1>8. /\ QueuesHold(data', S2)
      /\ SameBut(data', data, p)
  <2>0. QueuesHold(data, S)
    BY <1>3 DEF S
  <2>1. CASE make_ready
    BY <2>0, <1>5, <1>6, <2>1, QueuesPush
  <2>2. CASE ~make_ready
    BY <2>0, <1>3, <1>5, <1>7, <2>2 DEF SameBut
  <2> QED
    BY <2>1, <2>2
<1>9. Reachable(next_nonempty', data', status', current_priority')
  BY <1>3, <1>4, <1>5, <1>8 DEF Reachable, SameBut
<1>10. ThreadTypes(data', status', current_priority', unschedule_mode', current_thread')
  BY <1>2, <1>3, <1>5, <1>8, NowFacts DEF ThreadTypes, Status, QueuesHold
<1>11. Now'
  BY <1>4, <1>8, <1>9, <1>10 DEF Now, Consistent, ListInv, S2
<1> QED
  BY <1>1, <1>11, ConsistentIsInv

(* SetPriority and BoostPriority move a ready thread to the back of its new queue.            *)
LEMMA SetPriorityKeeps ==
  ASSUME ReadyInv, NEW t \in Threads, NEW p \in Priorities, SetPriority(t, p)
  PROVE  ReadyInv'
<1>1. walk = Null /\ walk' = Null /\ saved' = saved
  BY DEF SetPriority, Idle
<1>2. Now
  BY <1>1, IdleIsConsistent
<1>3. /\ ListInv /\ data \in [Priorities -> Seq(Threads)] /\ status \in [Threads -> Status]
      /\ current_priority \in [Threads -> Priorities]
      /\ Reachable(next_nonempty, data, status, current_priority)
      /\ QueuesHold(data, ReadyBut(status, current_priority, {}))
  BY <1>2, NowFacts
<1>4. ListInv' /\ LinkedIn(next_nonempty') = LinkedIn(next_nonempty) \cup {p}
  BY <1>3, PrepareLinks DEF SetPriority
<1> DEFINE old == current_priority[t]
           taken == remove(data, old, t)
<1>5. /\ data' = IF status[t] = "Ready" THEN push_back(taken, p, t) ELSE data
      /\ current_priority' = [current_priority EXCEPT ![t] = p]
      /\ UNCHANGED <<status, unschedule_mode, current_thread>> /\ old \in Priorities
  BY <1>3 DEF SetPriority
<1>6. CASE status[t] = "Ready"
  <2> DEFINE S == ReadyBut(status, current_priority, {})
             S1 == ReadyBut(status, current_priority, {t})
             S2 == ReadyBut(status', current_priority', {})
  <2>0. QueuesHold(data, S)
    BY <1>3
  <2>1. Leaves(S, S1, old, t)
    BY <1>3, <1>5 DEF ReadyBut, ReadyAt, Leaves
  <2>2. Joins(S1, S2, p, t)
    BY <1>3, <1>5, <1>6 DEF ReadyBut, ReadyAt, Joins
  <2> HIDE DEF S, S1, S2, old
  <2>3. QueuesHold(taken, S1) /\ NoFurther(taken, data)
    BY <2>0, <2>1, QueuesDrop
  <2> HIDE DEF taken
  <2>4. QueuesHold(push_back(taken, p, t), S2) /\ SameBut(push_back(taken, p, t), taken, p)
    BY <2>2, <2>3, QueuesPush
  <2>5. /\ data' \in [Priorities -> Seq(Threads)]
        /\ QueuesHold(data', ReadyBut(status', current_priority', {}))
        /\ SameBut(data', taken, p)
    BY <1>5, <1>6, <2>4 DEF S2, QueuesHold
  <2>6. Reachable(next_nonempty', data', status', current_priority')
    BY <1>3, <1>4, <1>5, <2>3, <2>5 DEF Reachable, SameBut, NoFurther
  <2> QED
    BY <2>5, <2>6, <1>1, <1>2, <1>3, <1>4, <1>5, NowFacts, ConsistentIsInv
       DEF Now, Consistent, ListInv, ThreadTypes
<1>7. CASE status[t] # "Ready"
  <2>1. ReadyBut(status', current_priority', {}) = ReadyBut(status, current_priority, {})
    BY <1>3, <1>5, <1>7 DEF ReadyBut, ReadyAt
  <2>2. QueuesHold(data', ReadyBut(status', current_priority', {}))
    BY <1>3, <1>5, <1>7, <2>1
  <2>3. Reachable(next_nonempty', data', status', current_priority')
    BY <1>3, <1>4, <1>5, <1>7 DEF Reachable
  <2> QED
    BY <2>2, <2>3, <1>1, <1>2, <1>3, <1>4, <1>5, <1>7, NowFacts, ConsistentIsInv
       DEF Now, Consistent, ListInv, ThreadTypes
<1> QED
  BY <1>6, <1>7

(* A woken thread is queued at its priority, which is linked.                                 *)
LEMMA ResumeKeeps ==
  ASSUME ReadyInv, NEW t \in Threads, ResumeFromWait(t)
  PROVE  ReadyInv'
<1>1. walk = Null /\ walk' = Null /\ saved' = saved
  BY DEF ResumeFromWait, Idle
<1>2. Now
  BY <1>1, IdleIsConsistent
<1>3. /\ ListInv /\ data \in [Priorities -> Seq(Threads)] /\ status \in [Threads -> Status]
      /\ current_priority \in [Threads -> Priorities]
      /\ Reachable(next_nonempty, data, status, current_priority)
      /\ QueuesHold(data, ReadyBut(status, current_priority, {}))
  BY <1>2, NowFacts
<1> DEFINE p == current_priority[t]
           S == ReadyBut(status, current_priority, {})
           S2 == ReadyBut(status', current_priority', {})
<1>4. /\ status[t] = "Waiting" /\ status' = [status EXCEPT ![t] = "Ready"]
      /\ data' = push_back(data, p, t) /\ p \in Priorities /\ p \in LinkedIn(next_nonempty)
      /\ UNCHANGED <<first, next_nonempty, current_priority, unschedule_mode, current_thread>>
  BY <1>3 DEF ResumeFromWait, Reachable
<1>5. Joins(S, S2, p, t) /\ QueuesHold(data, S)
  BY <1>3, <1>4 DEF ReadyBut, ReadyAt, Joins
<1> HIDE DEF S, S2, p
<1>6. QueuesHold(data', S2) /\ SameBut(data', data, p)
  BY <1>4, <1>5, QueuesPush
<1>7. Reachable(next_nonempty', data', status', current_priority')
  BY <1>3, <1>4, <1>6 DEF Reachable, SameBut
<1>8. ThreadTypes(data', status', current_priority', unschedule_mode', current_thread')
  BY <1>2, <1>3, <1>4, <1>6, NowFacts DEF ThreadTypes, Status, QueuesHold
<1>9. Now'
  BY <1>3, <1>4, <1>6, <1>7, <1>8 DEF Now, Consistent, ListInv, S2
<1> QED
  BY <1>1, <1>9, ConsistentIsInv

(* The current thread is not queued, so beginning to wait takes it out of no queue.           *)
LEMMA WaitKeeps ==
  ASSUME ReadyInv, WaitCurrentThread
  PROVE  ReadyInv'
<1>1. walk = Null /\ walk' = Null /\ saved' = saved
  BY DEF WaitCurrentThread, Idle
<1>2. Now
  BY <1>1, IdleIsConsistent
<1>3. /\ ListInv /\ data \in [Priorities -> Seq(Threads)] /\ status \in [Threads -> Status]
      /\ current_priority \in [Threads -> Priorities] /\ current_thread \in Threads \cup {Null}
      /\ Reachable(next_nonempty, data, status, current_priority)
      /\ QueuesHold(data, ReadyBut(status, current_priority, {}))
  BY <1>2, NowFacts
<1>4. /\ current_thread \in Threads /\ status[current_thread] = "Running"
      /\ status' = [status EXCEPT ![current_thread] = "Waiting"]
      /\ UNCHANGED <<first, next_nonempty, data, current_priority, unschedule_mode, current_thread>>
  BY <1>3 DEF WaitCurrentThread, queues
<1>5. ReadyBut(status', current_priority', {}) = ReadyBut(status, current_priority, {})
  BY <1>3, <1>4 DEF ReadyBut, ReadyAt
<1>6. Reachable(next_nonempty', data', status', current_priority')
  BY <1>3, <1>4 DEF Reachable
<1>7. ThreadTypes(data', status', current_priority', unschedule_mode', current_thread')
  BY <1>2, <1>3, <1>4, NowFacts DEF ThreadTypes, Status
<1>8. Now'
  BY <1>3, <1>4, <1>5, <1>6, <1>7 DEF Now, Consistent, ListInv
<1> QED
  BY <1>1, <1>8, ConsistentIsInv

(* A thread that dies while it is ready leaves its queue.                                     *)
LEMMA StopKeeps ==
  ASSUME ReadyInv, NEW t \in Threads, Stop(t)
  PROVE  ReadyInv'
<1>1. walk = Null /\ walk' = Null /\ saved' = saved
  BY DEF Stop, Idle
<1>2. Now
  BY <1>1, IdleIsConsistent
<1>3. /\ ListInv /\ data \in [Priorities -> Seq(Threads)] /\ status \in [Threads -> Status]
      /\ current_priority \in [Threads -> Priorities]
      /\ Reachable(next_nonempty, data, status, current_priority)
      /\ QueuesHold(data, ReadyBut(status, current_priority, {}))
  BY <1>2, NowFacts
<1> DEFINE p == current_priority[t]
           S == ReadyBut(status, current_priority, {})
           S2 == ReadyBut(status', current_priority', {})
<1>4. /\ status[t] # "Unborn" /\ status' = [status EXCEPT ![t] = "Dead"] /\ p \in Priorities
      /\ data' = IF status[t] = "Ready" THEN remove(data, p, t) ELSE data
      /\ UNCHANGED <<first, next_nonempty, current_priority, unschedule_mode, current_thread>>
  BY <1>3 DEF Stop
<1>5. /\ status[t] = "Ready" => Leaves(S, S2, p, t)
      /\ status[t] # "Ready" => S2 = S
      /\ QueuesHold(data, S)
  BY <1>3, <1>4 DEF ReadyBut, ReadyAt, Leaves
<1> HIDE DEF S, S2, p
<1>6. QueuesHold(data', S2) /\ NoFurther(data', data)
  <2>1. CASE status[t] = "Ready"
    BY <1>4, <1>5, <2>1, QueuesDrop
  <2>2. CASE status[t] # "Ready"
    BY <1>4, <1>5, <2>2 DEF NoFurther
  <2> QED
    BY <2>1, <2>2
<1>7. Reachable(next_nonempty', data', status', current_priority')
  BY <1>3, <1>4, <1>6 DEF Reachable, NoFurther
<1>8. ThreadTypes(data', status', current_priority', unschedule_mode', current_thread')
  BY <1>2, <1>3, <1>4, <1>6, NowFacts DEF ThreadTypes, Status, QueuesHold
<1>9. Now'
  BY <1>3, <1>4, <1>6, <1>7, <1>8 DEF Now, Consistent, ListInv, S2
<1> QED
  BY <1>1, <1>9, ConsistentIsInv

(* svcControlProcess changes unschedule modes only.                                           *)
LEMMA ControlKeeps ==
  ASSUME ReadyInv, NEW ts \in SUBSET Threads, NEW set \in BOOLEAN, ControlProcess(ts, set)
  PROVE  ReadyInv'
<1>1. walk = Null /\ walk' = Null /\ saved' = saved
  BY DEF ControlProcess, Idle
<1>2. Now
  BY <1>1, IdleIsConsistent
<1>3. UNCHANGED <<first, next_nonempty, data, status, current_priority, current_thread>>
  BY DEF ControlProcess, queues
<1>4. unschedule_mode' \in [Threads -> SUBSET Modes]
  BY <1>2, NowFacts DEF ControlProcess, Change
<1>5. Now'
  BY <1>2, <1>3, <1>4 DEF Now, Consistent, ThreadTypes
<1> QED
  BY <1>1, <1>5, ConsistentIsInv

-----------------------------------------------------------------------------
(* A reschedule *)

(* The steps of a reschedule that leave list and threads alone.                               *)
LEMMA WalkKeeps ==
  ASSUME ReadyInv,
         UNCHANGED <<first, next_nonempty, status, current_priority, current_thread, saved>>,
         unschedule_mode' \in [Threads -> SUBSET Modes], WalkInv',
         QueuesHold(data', ReadyBut(status, current_priority, Away')),
         \A p \in Priorities : data'[p] # <<>> => p \in LinkedIn(next_nonempty)
  PROVE  ReadyInv'
<1>1. ListInv' /\ SavedConsistent'
  BY DEF ReadyInv, ListInv, SavedConsistent
<1>2. /\ ThreadTypes(data', status', current_priority', unschedule_mode', current_thread')
      /\ Reachable(next_nonempty', data', status', current_priority')
  BY DEF ReadyInv, ThreadInv, ThreadTypes, Reachable, QueuesHold
<1>3. ThreadInv'
  BY <1>2 DEF ThreadInv
<1> QED
  BY <1>1, <1>3 DEF ReadyInv

(* The list starts at or before any linked priority.                                          *)
LEMMA FirstIsBefore ==
  ASSUME ListInv, NEW p \in LinkedIn(next_nonempty)
  PROVE  first \in LinkedIn(next_nonempty) /\ first <= p
<1>1. Follows(LinkedIn(next_nonempty), first, 0) /\ LinkedIn(next_nonempty) \subseteq Nat
  BY PriorityFacts DEF ListInv, Sorted, LinkedIn
<1> QED
  BY <1>1 DEF Follows

(* And goes on from any other priority to one that is not beyond the next linked one.         *)
LEMMA NextIsBefore ==
  ASSUME ListInv, NEW q \in LinkedIn(next_nonempty), NEW p \in LinkedIn(next_nonempty), q < p
  PROVE  next_nonempty[q] \in LinkedIn(next_nonempty) /\ next_nonempty[q] <= p
<1>1. Follows(LinkedIn(next_nonempty), next_nonempty[q], q + 1) /\ LinkedIn(next_nonempty) \subseteq Nat
  BY PriorityFacts DEF ListInv, Sorted, LinkedIn
<1> QED
  BY <1>1 DEF Follows

(* PopNextReadyThread starts at the first linked priority with nothing taken.                 *)
LEMMA StartKeeps ==
  ASSUME ReadyInv, walk = Null, NEW modes, StartWalk(modes),
         UNCHANGED <<first, next_nonempty, data, status, current_priority, current_thread, saved>>,
         unschedule_mode' \in [Threads -> SUBSET Modes]
  PROVE  ReadyInv'
<1>1. Now
  BY IdleIsConsistent
<1>2. /\ ListInv /\ first \in Pointers /\ current_priority \in [Threads -> Priorities]
      /\ current_thread \in Threads \cup {Null} /\ data \in [Priorities -> Seq(Threads)]
      /\ Reachable(next_nonempty, data, status, current_priority)
      /\ QueuesHold(data, ReadyBut(status, current_priority, {}))
  BY <1>1, NowFacts DEF ListInv, ListTypes, Pointers
<1>3. PICK keeps \in BOOLEAN :
        /\ keeps => current_thread # Null /\ status[current_thread] = "Running"
        /\ walk' = [op |-> "pop", better |-> keeps, cur |-> first, skipped |-> <<>>, it |-> 0,
                    next |-> Null, before |-> data]
  BY DEF StartWalk
<1>4. walk' \in Walks /\ walk' # Null
  <2>1. <<>> \in Seq(Priorities \X Threads)
    OBVIOUS
  <2>2. walk' \in Walks
    BY <1>2, <1>3, <2>1 DEF Walks
  <2> QED
    BY <2>2, PointersAssumption
<1>5. /\ walk'.op = "pop" /\ walk'.better = keeps /\ walk'.cur = first /\ walk'.skipped = <<>>
      /\ walk'.next = Null
  BY <1>3
<1>6. Taken' = {} /\ Away' = {Null}
  BY <1>4, <1>5 DEF Taken, Away
<1>7. WalkInside'
  <2>1. ASSUME keeps PROVE first \in LinkedIn(next_nonempty) /\ first <= current_priority[current_thread]
    <3>1. current_priority[current_thread] \in LinkedIn(next_nonempty)
      BY <1>2, <1>3, <2>1 DEF Reachable
    <3> QED
      BY <1>2, <3>1, FirstIsBefore
  <2> QED
    BY <1>3, <1>5, <2>1 DEF WalkInside
<1>8. WalkInv'
  BY <1>4, <1>5, <1>6, <1>7 DEF WalkInv, TakenReady, TakenOnce, Found
<1>9. ReadyBut(status, current_priority, Away') = ReadyBut(status, current_priority, {})
  BY <1>6, PointersAssumption DEF ReadyBut, ReadyAt
<1>10. \A p \in Priorities : data'[p] # <<>> => p \in LinkedIn(next_nonempty)
  BY <1>2 DEF Reachable
<1> QED
  BY <1>2, <1>8, <1>9, <1>10, WalkKeeps

(* Process::ChangeUnscheduleMode starts a reschedule when it changed a mode.                  *)
LEMMA ChangeModeKeeps ==
  ASSUME ReadyInv, NEW ts \in SUBSET Threads, NEW set \in BOOLEAN, ChangeUnscheduleMode(ts, set)
  PROVE  ReadyInv'
<1>1. walk = Null
  BY DEF ChangeUnscheduleMode, Idle
<1>2. Now
  BY <1>1, IdleIsConsistent
<1>3. UNCHANGED <<first, next_nonempty, data, status, current_priority, current_thread, saved>>
  BY DEF ChangeUnscheduleMode, queues
<1>4. unschedule_mode' \in [Threads -> SUBSET Modes]
  BY <1>2, NowFacts DEF ChangeUnscheduleMode, Change
<1>5. CASE unschedule_mode' = unschedule_mode
  <2>1. walk' = Null
    BY <1>1, <1>5 DEF ChangeUnscheduleMode
  <2>2. Now'
    BY <1>2, <1>3, <1>5 DEF Now
  <2> QED
    BY <1>3, <2>1, <2>2, ConsistentIsInv
<1>6. CASE unschedule_mode' # unschedule_mode
  <2>1. StartWalk(unschedule_mode')
    BY <1>6 DEF ChangeUnscheduleMode
  <2> QED
    BY <1>1, <1>3, <1>4, <2>1, StartKeeps
<1> QED
  BY <1>5, <1>6

(* A reschedule starts by itself.                                                             *)
LEMMA RescheduleKeeps ==
  ASSUME ReadyInv, Reschedule
  PROVE  ReadyInv'
<1>1. walk = Null /\ StartWalk(unschedule_mode)
      /\ UNCHANGED <<first, next_nonempty, data, status, current_priority, current_thread, saved>>
      /\ unschedule_mode' = unschedule_mode
  BY DEF Reschedule, Idle, queues, threads
<1>2. unschedule_mode' \in [Threads -> SUBSET Modes]
  BY <1>1, IdleIsConsistent, NowFacts
<1> QED
  BY <1>1, <1>2, StartKeeps

(* What holds while PopNextReadyThread runs.                                                  *)
LEMMA WalkFacts ==
  ASSUME ReadyInv, walk # Null
  PROVE  /\ walk \in Walks /\ WalkInside /\ TakenReady /\ TakenOnce /\ Found /\ ListInv
         /\ walk.better \in BOOLEAN /\ walk.cur \in Pointers /\ walk.it \in Nat
         /\ walk.next \in Threads \cup {Null} /\ walk.skipped \in Seq(Priorities \X Threads)
         /\ next_nonempty \in [Priorities -> Pointers] /\ data \in [Priorities -> Seq(Threads)]
         /\ status \in [Threads -> Status] /\ current_priority \in [Threads -> Priorities]
         /\ unschedule_mode \in [Threads -> SUBSET Modes] /\ current_thread \in Threads \cup {Null}
         /\ Reachable(next_nonempty, data, status, current_priority)
         /\ QueuesHold(data, ReadyBut(status, current_priority, Away))
<1>1. walk \in Walks
  BY DEF ReadyInv, WalkInv
<1>2. /\ walk.better \in BOOLEAN /\ walk.cur \in Pointers /\ walk.it \in Nat
      /\ walk.next \in Threads \cup {Null} /\ walk.skipped \in Seq(Priorities \X Threads)
  BY <1>1 DEF Walks
<1> QED
  BY <1>1, <1>2 DEF ReadyInv, WalkInv, ThreadInv, ThreadTypes, ListInv, ListTypes

(* A queue that is empty is passed.                                                           *)
LEMMA NextQueueKeeps ==
  ASSUME ReadyInv, walk # Null, walk.op = "pop", Within, walk.cur \in Priorities, NextQueue,
         UNCHANGED <<first, next_nonempty, threads, saved>>
  PROVE  ReadyInv'
<1>1. /\ walk \in Walks /\ WalkInside /\ TakenReady /\ TakenOnce /\ Found /\ ListInv
      /\ walk.next \in Threads \cup {Null} /\ walk.skipped \in Seq(Priorities \X Threads)
      /\ next_nonempty \in [Priorities -> Pointers] /\ current_thread \in Threads \cup {Null}
      /\ status \in [Threads -> Status] /\ current_priority \in [Threads -> Priorities]
      /\ unschedule_mode \in [Threads -> SUBSET Modes]
      /\ Reachable(next_nonempty, data, status, current_priority)
      /\ QueuesHold(data, ReadyBut(status, current_priority, Away))
  BY WalkFacts
<1>2. /\ data' = data /\ walk' = [walk EXCEPT !.cur = next_nonempty[walk.cur]]
      /\ UNCHANGED <<first, next_nonempty, status, current_priority, unschedule_mode,
                     current_thread, saved>>
  BY DEF NextQueue, threads
<1>3. walk' \in Walks /\ walk' # Null
  <2>1. next_nonempty[walk.cur] \in Pointers
    BY <1>1
  <2>2. walk' \in Walks
    BY <1>1, <1>2, <2>1 DEF Walks
  <2> QED
    BY <2>2, PointersAssumption
<1>4. /\ walk'.op = walk.op /\ walk'.better = walk.better /\ walk'.skipped = walk.skipped
      /\ walk'.it = walk.it /\ walk'.next = walk.next /\ walk'.cur = next_nonempty[walk.cur]
  BY <1>1, <1>2 DEF Walks
<1>5. Taken' = Taken /\ Away' = Away
  <2>1. Taken' = Taken
    BY <1>4 DEF Taken
  <2> QED
    BY <1>3, <1>4, <2>1 DEF Away
<1>6. WalkInside'
  <2>1. ASSUME walk.better
        PROVE  /\ next_nonempty[walk.cur] \in LinkedIn(next_nonempty)
               /\ next_nonempty[walk.cur] <= current_priority[current_thread]
    <3>1. current_thread \in Threads /\ walk.cur \in LinkedIn(next_nonempty)
          /\ status[current_thread] = "Running"
      BY <1>1, <2>1 DEF WalkInside
    <3>2. current_priority[current_thread] \in LinkedIn(next_nonempty)
      BY <1>1, <3>1 DEF Reachable
    <3>3. walk.cur < current_priority[current_thread]
      BY <2>1, PriorityFacts, <1>1, <3>1 DEF Within
    <3> QED
      BY <1>1, <3>1, <3>2, <3>3, NextIsBefore
  <2> QED
    BY <1>1, <1>2, <1>4, <2>1 DEF WalkInside
<1>7. WalkInv'
  BY <1>1, <1>2, <1>3, <1>4, <1>5, <1>6 DEF WalkInv, TakenReady, TakenOnce, Found
<1>8. \A p \in Priorities : data'[p] # <<>> => p \in LinkedIn(next_nonempty)
  BY <1>1, <1>2 DEF Reachable
<1> QED
  BY <1>1, <1>2, <1>5, <1>7, <1>8, WalkKeeps

(* Popping takes the first thread out of a queue.                                             *)
LEMMA QueuesPop ==
  ASSUME NEW d, NEW S, NEW S2, NEW p, NEW t, QueuesHold(d, S), Leaves(S, S2, p, t),
         d[p] # <<>>, t = Head(d[p])
  PROVE  /\ QueuesHold([d EXCEPT ![p] = Tail(@)], S2) /\ NoFurther([d EXCEPT ![p] = Tail(@)], d)
         /\ t \in S[p] /\ t \in Threads
<1> DEFINE e == [d EXCEPT ![p] = Tail(@)]
<1>1. /\ d \in [Priorities -> Seq(Threads)] /\ p \in Priorities
      /\ \A r \in Priorities : Lists(d[r], S[r])
      /\ \A r \in Priorities : S2[r] = IF r = p THEN S[p] \ {t} ELSE S[r]
  BY DEF QueuesHold, Leaves
<1>2. d[p] \in Seq(Threads) /\ Tail(d[p]) \in Seq(Threads) /\ t \in Threads
  BY <1>1
<1>3. /\ e \in [Priorities -> Seq(Threads)]
      /\ \A r \in Priorities : e[r] = IF r = p THEN Tail(d[p]) ELSE d[r]
  BY <1>1, <1>2
<1> HIDE DEF e
<1>4. t \in S[p] /\ Lists(Tail(d[p]), S[p] \ {t})
  BY <1>1, <1>2, ListsTail
<1>5. \A r \in Priorities : Lists(e[r], S2[r])
  BY <1>1, <1>3, <1>4
<1>6. NoFurther(e, d)
  BY <1>3 DEF NoFurther
<1> QED
  BY <1>2, <1>3, <1>4, <1>5, <1>6 DEF QueuesHold, e

(* The thread in front leaves its queue: it is the one to run, or it is skipped.              *)
LEMMA PopFrontKeeps ==
  ASSUME ReadyInv, walk # Null, walk.op = "pop", Within, walk.cur \in Priorities, PopFront,
         UNCHANGED <<first, next_nonempty, threads, saved>>
  PROVE  ReadyInv'
<1>1. /\ walk \in Walks /\ WalkInside /\ TakenReady /\ TakenOnce /\ Found /\ ListInv
      /\ walk.next \in Threads \cup {Null} /\ walk.skipped \in Seq(Priorities \X Threads)
      /\ next_nonempty \in [Priorities -> Pointers] /\ current_thread \in Threads \cup {Null}
      /\ status \in [Threads -> Status] /\ current_priority \in [Threads -> Priorities]
      /\ unschedule_mode \in [Threads -> SUBSET Modes]
      /\ Reachable(next_nonempty, data, status, current_priority)
      /\ QueuesHold(data, ReadyBut(status, current_priority, Away))
  BY WalkFacts
<1> DEFINE q == walk.cur
           t == Head(data[q])
           n == Len(walk.skipped)
           S == ReadyBut(status, current_priority, Away)
           S2 == ReadyBut(status, current_priority, Away \cup {t})
<1>2. /\ data[q] # <<>> /\ data' = [data EXCEPT ![q] = Tail(@)] /\ q \in Priorities
      /\ walk' = IF CanSchedule(t)
                 THEN [walk EXCEPT !.op = "restore", !.it = Len(walk.skipped), !.next = t]
                 ELSE [walk EXCEPT !.skipped = Append(@, <<q, t>>), !.cur = first]
      /\ UNCHANGED <<first, next_nonempty, status, current_priority, unschedule_mode,
                     current_thread, saved>>
  BY DEF PopFront, threads
<1>3. Lists(data[q], S[q]) /\ data[q] \in Seq(Threads)
  BY <1>1, <1>2 DEF QueuesHold
<1>4. t \in Threads /\ status[t] = "Ready" /\ current_priority[t] = q /\ t \notin Away
  <2>1. t \in S[q]
    BY <1>2, <1>3, ListsTail
  <2> QED
    BY <1>2, <2>1 DEF ReadyBut, ReadyAt
<1> HIDE DEF t
<1>5. Leaves(S, S2, q, t)
  BY <1>1, <1>2, <1>4 DEF ReadyBut, ReadyAt, Leaves
<1>6. QueuesHold(data', S2) /\ NoFurther(data', data)
  BY <1>1, <1>2, <1>5, QueuesPop DEF t
<1>7. n \in Nat /\ Taken = 1 .. n /\ walk.next = Null
  BY <1>1 DEF Taken, Found
<1>8. Away = {Null} \cup {walk.skipped[i][2] : i \in 1 .. n}
  BY <1>7 DEF Away
<1>9. \A p \in Priorities : data'[p] # <<>> => p \in LinkedIn(next_nonempty)
  BY <1>1, <1>6 DEF Reachable, NoFurther
<1>10. t # Null
  BY <1>4, PointersAssumption
<1> HIDE DEF q, n, S2
<1>11. /\ \A i \in 1 .. n : /\ walk.skipped[i] \in Priorities \X Threads /\ walk.skipped[i][2] # t
                            /\ walk.skipped[i][1] = current_priority[walk.skipped[i][2]]
                            /\ status[walk.skipped[i][2]] = "Ready"
       /\ \A i, j \in 1 .. n : walk.skipped[i][2] = walk.skipped[j][2] => i = j
  <2>1. \A i \in 1 .. n : walk.skipped[i] \in Priorities \X Threads
    BY <1>1 DEF n
  <2>2. \A i \in 1 .. n : walk.skipped[i][2] \in Away
    BY <1>8
  <2>3. \A i, j \in 1 .. n : walk.skipped[i][2] = walk.skipped[j][2] => i = j
    BY <1>1, <1>7 DEF TakenOnce
  <2>4. \A i \in 1 .. n : /\ walk.skipped[i][1] = current_priority[walk.skipped[i][2]]
                          /\ status[walk.skipped[i][2]] = "Ready"
    BY <1>1, <1>7 DEF TakenReady
  <2> QED
    BY <1>4, <2>1, <2>2, <2>3, <2>4
<1>12. CASE CanSchedule(t)
  <2>1. walk' = [walk EXCEPT !.op = "restore", !.it = n, !.next = t]
    BY <1>2, <1>12 DEF n
  <2>2. walk' \in Walks /\ walk' # Null
    <3>1. walk' \in Walks
      BY <1>1, <1>4, <1>7, <2>1 DEF Walks
    <3> QED
      BY <3>1, PointersAssumption
  <2>3. /\ walk'.op = "restore" /\ walk'.better = walk.better /\ walk'.skipped = walk.skipped
        /\ walk'.it = n /\ walk'.next = t
    BY <1>1, <2>1 DEF Walks
  <2>4. Taken' = 1 .. n /\ Away' = {t} \cup {walk.skipped[i][2] : i \in 1 .. n}
    <3>1. Taken' = 1 .. n
      BY <2>3 DEF Taken
    <3> QED
      BY <2>2, <2>3, <3>1 DEF Away
  <2>5. ReadyBut(status, current_priority, Away') = S2
    BY <1>8, <2>4, PointersAssumption DEF ReadyBut, ReadyAt, S2
  <2>6. WalkInv'
    BY <1>1, <1>2, <1>4, <1>11, <2>2, <2>3, <2>4
       DEF WalkInv, WalkInside, TakenReady, TakenOnce, Found, n
  <2> QED
    BY <1>1, <1>2, <1>6, <1>9, <2>5, <2>6, WalkKeeps
<1>13. CASE ~CanSchedule(t)
  <2> DEFINE k == Append(walk.skipped, <<q, t>>)
  <2>1. walk' = [walk EXCEPT !.skipped = k, !.cur = first]
    BY <1>2, <1>13
  <2>2. /\ k \in Seq(Priorities \X Threads) /\ Len(k) = n + 1 /\ DOMAIN k = 1 .. n + 1
        /\ (\A i \in 1 .. n : k[i] = walk.skipped[i]) /\ k[n + 1] = <<q, t>>
    <3>1. <<q, t>> \in Priorities \X Threads
      BY <1>2, <1>4
    <3> QED
      BY <1>1, <3>1 DEF n
  <2> HIDE DEF k
  <2>3. walk' \in Walks /\ walk' # Null
    <3>1. first \in Pointers
      BY <1>1 DEF ListInv, ListTypes, Pointers
    <3>2. walk' \in Walks
      BY <1>1, <2>1, <2>2, <3>1 DEF Walks
    <3> QED
      BY <3>2, PointersAssumption
  <2>4. /\ walk'.op = "pop" /\ walk'.better = walk.better /\ walk'.skipped = k
        /\ walk'.cur = first /\ walk'.next = Null
    BY <1>1, <1>7, <2>1 DEF Walks
  <2>5. /\ 1 .. n + 1 = (1 .. n) \cup {n + 1} /\ k[n + 1][2] = t /\ k[n + 1][1] = q
    BY <1>7, <2>2
  <2>6. Taken' = 1 .. n + 1
    BY <2>2, <2>4 DEF Taken
  <2>7. Away' = Away \cup {t}
    <3>1. Away' = {Null} \cup {k[i][2] : i \in 1 .. n + 1}
      BY <2>3, <2>4, <2>6 DEF Away
    <3>2. {k[i][2] : i \in 1 .. n + 1} = {walk.skipped[i][2] : i \in 1 .. n} \cup {t}
      <4>1. \A i \in 1 .. n : k[i][2] = walk.skipped[i][2]
        BY <2>2
      <4>2. ASSUME NEW i \in 1 .. n + 1 PROVE k[i][2] \in {walk.skipped[j][2] : j \in 1 .. n} \cup {t}
        <5>1. CASE i \in 1 .. n
          BY <4>1, <5>1
        <5>2. CASE i = n + 1
          BY <2>5, <5>2
        <5> QED
          BY <2>5, <5>1, <5>2
      <4>3. ASSUME NEW j \in 1 .. n PROVE walk.skipped[j][2] \in {k[i][2] : i \in 1 .. n + 1}
        <5>1. j \in 1 .. n + 1
          BY <2>5
        <5> QED
          BY <4>1, <5>1
      <4>4. t \in {k[i][2] : i \in 1 .. n + 1}
        BY <2>5
      <4> QED
        BY <4>2, <4>3, <4>4
    <3> QED
      BY <1>8, <3>1, <3>2
  <2>8. \A i \in 1 .. n + 1 : /\ k[i][1] = current_priority[k[i][2]]
                              /\ status[k[i][2]] = "Ready" /\ k[i][2] # Null
    <3>1. \A i \in 1 .. n : k[i][2] \in Threads
      BY <1>11, <2>2
    <3> QED
      BY <1>4, <1>10, <1>11, <2>2, <2>5, <3>1, PointersAssumption
  <2>9. \A i, j \in 1 .. n + 1 : k[i][2] = k[j][2] => i = j
    BY <1>11, <2>2, <2>5
  <2>10. WalkInside'
    <3>1. ASSUME walk.better PROVE first \in LinkedIn(next_nonempty) /\ first <= current_priority[current_thread]
      <4>1. current_thread \in Threads /\ status[current_thread] = "Running"
        BY <1>1, <3>1 DEF WalkInside
      <4>2. current_priority[current_thread] \in LinkedIn(next_nonempty)
        BY <1>1, <4>1 DEF Reachable
      <4> QED
        BY <1>1, <4>2, FirstIsBefore
    <3> QED
      BY <1>1, <1>2, <2>4, <3>1 DEF WalkInside
  <2>11. WalkInv'
    <3>1. TakenReady'
      BY <1>2, <2>4, <2>6, <2>8 DEF TakenReady
    <3>2. TakenOnce'
      BY <2>4, <2>6, <2>9 DEF TakenOnce
    <3>3. Found'
      BY <2>4 DEF Found
    <3> QED
      BY <2>3, <2>10, <3>1, <3>2, <3>3 DEF WalkInv
  <2> QED
    BY <1>1, <1>2, <1>6, <1>9, <2>7, <2>11, WalkKeeps DEF S2
<1> QED
  BY <1>12, <1>13

(* One turn of the loop of PopNextReadyThread.                                                *)
LEMMA WalkStepKeeps ==
  ASSUME ReadyInv, WalkStep
  PROVE  ReadyInv'
<1>1. /\ walk # Null /\ walk.op = "pop" /\ Within /\ walk.cur \in Priorities
      /\ UNCHANGED <<first, next_nonempty, threads, saved>> /\ (NextQueue \/ PopFront)
  BY DEF WalkStep
<1> QED
  BY <1>1, NextQueueKeeps, PopFrontKeeps

(* Nothing better is queued: a running thread goes on, and it was in no queue.                *)
LEMMA WalkEndsKeeps ==
  ASSUME ReadyInv, WalkEnds
  PROVE  ReadyInv'
<1>1. walk # Null /\ walk.op = "pop"
  BY DEF WalkEnds
<1>2. /\ walk \in Walks /\ WalkInside /\ TakenReady /\ TakenOnce /\ Found
      /\ walk.skipped \in Seq(Priorities \X Threads) /\ current_thread \in Threads \cup {Null}
      /\ unschedule_mode \in [Threads -> SUBSET Modes]
      /\ Reachable(next_nonempty, data, status, current_priority)
      /\ QueuesHold(data, ReadyBut(status, current_priority, Away))
  BY <1>1, WalkFacts
<1> DEFINE n == Len(walk.skipped)
           new == IF walk.better THEN current_thread ELSE Null
<1>3. /\ walk' = [walk EXCEPT !.op = "restore", !.it = n, !.next = new]
      /\ UNCHANGED <<first, next_nonempty, data, status, current_priority, unschedule_mode,
                     current_thread, saved>>
  BY DEF WalkEnds, queues, threads
<1>4. /\ n \in Nat /\ Taken = 1 .. n /\ walk.next = Null /\ new \in Threads \cup {Null}
      /\ new # Null => new = current_thread /\ status[new] = "Running"
  BY <1>1, <1>2 DEF Taken, Found, WalkInside
<1> HIDE DEF new
<1>5. walk' \in Walks /\ walk' # Null
  <2>1. walk' \in Walks
    BY <1>2, <1>3, <1>4 DEF Walks
  <2> QED
    BY <2>1, PointersAssumption
<1>6. /\ walk'.op = "restore" /\ walk'.better = walk.better /\ walk'.skipped = walk.skipped
      /\ walk'.it = n /\ walk'.next = new
  BY <1>2, <1>3 DEF Walks
<1>7. Taken' = Taken
  BY <1>4, <1>6 DEF Taken
<1>8. ReadyBut(status, current_priority, Away') = ReadyBut(status, current_priority, Away)
  <2>1. Away = {Null} \cup {walk.skipped[i][2] : i \in Taken}
    BY <1>1, <1>4 DEF Away
  <2>2. Away' = {new} \cup {walk.skipped[i][2] : i \in Taken}
    BY <1>5, <1>6, <1>7 DEF Away
  <2>3. \A r \in Priorities : Null \notin ReadyAt(status, current_priority, r)
                              /\ new \notin ReadyAt(status, current_priority, r)
    BY <1>4, PointersAssumption DEF ReadyAt
  <2>4. \A r \in Priorities : ReadyAt(status, current_priority, r) \ Away'
                              = ReadyAt(status, current_priority, r) \ Away
    BY <2>1, <2>2, <2>3
  <2> QED
    BY <2>4 DEF ReadyBut
<1>9. WalkInv'
  <2>1. WalkInside'
    BY <1>2, <1>3, <1>6 DEF WalkInside
  <2>2. TakenReady'
    <3>1. \A i \in Taken : walk.skipped[i][2] # new
      <4>1. \A i \in Taken : status[walk.skipped[i][2]] = "Ready" /\ walk.skipped[i][2] # Null
        BY <1>2, <1>4 DEF TakenReady
      <4> QED
        BY <1>4, <4>1
    <3> QED
      BY <1>2, <1>3, <1>6, <1>7, <3>1 DEF TakenReady
  <2>3. TakenOnce'
    BY <1>2, <1>6, <1>7 DEF TakenOnce
  <2>4. Found'
    BY <1>3, <1>4, <1>6 DEF Found
  <2> QED
    BY <1>5, <2>1, <2>2, <2>3, <2>4 DEF WalkInv
<1>10. \A p \in Priorities : data'[p] # <<>> => p \in LinkedIn(next_nonempty)
  BY <1>2, <1>3 DEF Reachable
<1> QED
  BY <1>2, <1>3, <1>8, <1>9, <1>10, WalkKeeps

(* A skipped thread goes back to the front of the queue it came from.                         *)
LEMMA RestoreKeeps ==
  ASSUME ReadyInv, RestoreSkipped
  PROVE  ReadyInv'
<1>1. walk # Null /\ walk.op = "restore" /\ walk.it > 0
  BY DEF RestoreSkipped
<1>2. /\ walk \in Walks /\ WalkInside /\ TakenReady /\ TakenOnce /\ Found
      /\ walk.skipped \in Seq(Priorities \X Threads) /\ walk.it \in Nat
      /\ unschedule_mode \in [Threads -> SUBSET Modes]
      /\ status \in [Threads -> Status] /\ current_priority \in [Threads -> Priorities]
      /\ Reachable(next_nonempty, data, status, current_priority)
      /\ QueuesHold(data, ReadyBut(status, current_priority, Away))
  BY <1>1, WalkFacts
<1> DEFINE n == walk.it
           p == walk.skipped[n][1]
           t == walk.skipped[n][2]
           S == ReadyBut(status, current_priority, Away)
           S2 == ReadyBut(status, current_priority, Away')
<1>3. /\ data' = push_front(data, p, t) /\ walk' = [walk EXCEPT !.it = n - 1]
      /\ UNCHANGED <<first, next_nonempty, status, current_priority, unschedule_mode,
                     current_thread, saved>>
  BY DEF RestoreSkipped, threads
<1>4. /\ n \in Nat /\ n - 1 \in Nat /\ Taken = 1 .. n /\ n <= Len(walk.skipped)
      /\ walk.skipped[n] \in Priorities \X Threads
      /\ n \in Taken /\ 1 .. n = (1 .. n - 1) \cup {n}
  BY <1>1, <1>2 DEF Taken, Found
<1>5. /\ t \in Threads /\ p = current_priority[t] /\ status[t] = "Ready" /\ t # walk.next
      /\ p \in Priorities
  BY <1>2, <1>4 DEF TakenReady
<1>6. walk' \in Walks /\ walk' # Null
  <2>1. walk' \in Walks
    BY <1>2, <1>3, <1>4 DEF Walks
  <2> QED
    BY <2>1, PointersAssumption
<1>7. /\ walk'.op = "restore" /\ walk'.better = walk.better /\ walk'.skipped = walk.skipped
      /\ walk'.it = n - 1 /\ walk'.next = walk.next
  BY <1>1, <1>2, <1>3 DEF Walks
<1> HIDE DEF n
<1>8. Taken' = 1 .. n - 1 /\ Taken' \subseteq Taken
  BY <1>4, <1>7 DEF Taken
<1>9. Away = Away' \cup {t} /\ t \notin Away'
  <2>1. Away = {walk.next} \cup {walk.skipped[i][2] : i \in 1 .. n}
    BY <1>1, <1>4 DEF Away
  <2>2. Away' = {walk.next} \cup {walk.skipped[i][2] : i \in 1 .. n - 1}
    BY <1>6, <1>7, <1>8 DEF Away
  <2>3. \A i \in 1 .. n - 1 : walk.skipped[i][2] # t
    <3>1. \A i \in 1 .. n - 1 : i \in Taken /\ i # n
      BY <1>4
    <3> QED
      BY <1>2, <1>4, <3>1 DEF TakenOnce
  <2>4. {walk.skipped[i][2] : i \in 1 .. n} = {walk.skipped[i][2] : i \in 1 .. n - 1} \cup {t}
    <3>1. \A i \in 1 .. n : walk.skipped[i][2] \in {walk.skipped[j][2] : j \in 1 .. n - 1} \cup {t}
      BY <1>4
    <3>2. \A i \in 1 .. n - 1 : walk.skipped[i][2] \in {walk.skipped[j][2] : j \in 1 .. n}
      BY <1>4
    <3>3. t \in {walk.skipped[j][2] : j \in 1 .. n}
      BY <1>4
    <3> QED
      BY <3>1, <3>2, <3>3
  <2> QED
    BY <1>5, <2>1, <2>2, <2>3, <2>4
<1> HIDE DEF t, p
<1>10. Joins(S, S2, p, t)
  BY <1>2, <1>5, <1>9 DEF ReadyBut, ReadyAt, Joins
<1> HIDE DEF S2
<1>11. QueuesHold(data', S2) /\ SameBut(data', data, p)
  BY <1>2, <1>3, <1>10, QueuesPush
<1>12. \A r \in Priorities : data'[r] # <<>> => r \in LinkedIn(next_nonempty)
  <2>1. p \in LinkedIn(next_nonempty)
    BY <1>2, <1>5 DEF Reachable
  <2> QED
    BY <1>2, <1>11, <2>1 DEF Reachable, SameBut
<1>13. WalkInv'
  <2>1. WalkInside'
    BY <1>2, <1>3, <1>7 DEF WalkInside
  <2>2. TakenReady'
    BY <1>2, <1>3, <1>7, <1>8 DEF TakenReady
  <2>3. TakenOnce'
    BY <1>2, <1>7, <1>8 DEF TakenOnce
  <2>4. Found'
    BY <1>1, <1>2, <1>3, <1>4, <1>7 DEF Found
  <2> QED
    BY <1>6, <2>1, <2>2, <2>3, <2>4 DEF WalkInv
<1> QED
  BY <1>2, <1>3, <1>11, <1>12, <1>13, WalkKeeps DEF S2

(* SwitchContext queues the thread it preempts at the front and takes the new one out.        *)
LEMMA SwitchKeeps ==
  ASSUME ReadyInv, SwitchContext
  PROVE  ReadyInv'
<1>1. walk # Null /\ walk.op = "restore" /\ walk.it = 0
  BY DEF SwitchContext
<1>2. /\ Found /\ ListInv /\ walk.next \in Threads \cup {Null}
      /\ unschedule_mode \in [Threads -> SUBSET Modes] /\ current_thread \in Threads \cup {Null}
      /\ status \in [Threads -> Status] /\ current_priority \in [Threads -> Priorities]
      /\ Reachable(next_nonempty, data, status, current_priority)
      /\ QueuesHold(data, ReadyBut(status, current_priority, Away))
  BY <1>1, WalkFacts
<1> DEFINE c == current_thread
           new == walk.next
           stays == c # Null /\ status[c] = "Running"
           pushed == IF stays THEN push_front(data, current_priority[c], c) ELSE data
           stopped == IF stays THEN [status EXCEPT ![c] = "Ready"] ELSE status
           S == ReadyBut(status, current_priority, Away)
           S1 == ReadyBut(stopped, current_priority, {new} \ (IF stays THEN {c} ELSE {}))
           S2 == ReadyBut(status', current_priority, {})
<1>3. /\ data' = IF new = Null THEN pushed ELSE remove(pushed, current_priority[new], new)
      /\ status' = IF new = Null THEN stopped ELSE [stopped EXCEPT ![new] = "Running"]
      /\ current_thread' = new /\ walk' = Null
      /\ UNCHANGED <<first, next_nonempty, current_priority, unschedule_mode, saved>>
  BY DEF SwitchContext
<1>4. Away = {new}
  <2>1. Taken = {}
    BY <1>1 DEF Taken
  <2> QED
    BY <1>1, <2>1 DEF Away
<1>5. new # Null => new \in Threads /\ (status[new] = "Ready" \/ (new = c /\ status[new] = "Running"))
  BY <1>1, <1>2 DEF Found
<1>6. stays => c \in Threads /\ current_priority[c] \in Priorities
  BY <1>2
<1> HIDE DEF new, c
<1>7. /\ stays => Joins(S, S1, current_priority[c], c)
      /\ ~stays => S1 = S
  <2>1. ASSUME stays PROVE Joins(S, S1, current_priority[c], c)
    <3>1. S1 = ReadyBut([status EXCEPT ![c] = "Ready"], current_priority, {new} \ {c})
      BY <2>1
    <3>2. \A r \in Priorities :
            ReadyAt([status EXCEPT ![c] = "Ready"], current_priority, r) =
              IF r = current_priority[c] THEN ReadyAt(status, current_priority, r) \cup {c}
                                         ELSE ReadyAt(status, current_priority, r)
      BY <1>2, <1>6, <2>1 DEF ReadyAt
    <3>3. \A r \in Priorities : c \notin ReadyAt(status, current_priority, r)
      BY <2>1 DEF ReadyAt
    <3> DEFINE X == ReadyAt(status, current_priority, current_priority[c])
    <3>4. \A r \in Priorities : S[r] = ReadyAt(status, current_priority, r) \ {new}
      BY <1>4 DEF ReadyBut
    <3>5. \A r \in Priorities :
            S1[r] = ReadyAt([status EXCEPT ![c] = "Ready"], current_priority, r) \ ({new} \ {c})
      BY <3>1 DEF ReadyBut
    <3> HIDE DEF S, S1
    <3>6. \A r \in Priorities : r # current_priority[c] => S1[r] = S[r]
      <4> SUFFICES ASSUME NEW r \in Priorities, r # current_priority[c] PROVE S1[r] = S[r]
        OBVIOUS
      <4> DEFINE A == ReadyAt(status, current_priority, r)
      <4>1. S[r] = A \ {new} /\ S1[r] = A \ ({new} \ {c}) /\ c \notin A
        BY <3>2, <3>3, <3>4, <3>5
      <4> HIDE DEF A
      <4> QED
        BY <4>1
    <3>7. S1[current_priority[c]] = S[current_priority[c]] \cup {c} /\ c \notin S[current_priority[c]]
      <4>1. /\ S[current_priority[c]] = X \ {new} /\ c \notin X
            /\ S1[current_priority[c]] = (X \cup {c}) \ ({new} \ {c})
        BY <1>6, <2>1, <3>2, <3>3, <3>4, <3>5
      <4> HIDE DEF X
      <4> QED
        BY <4>1
    <3> QED
      BY <1>6, <2>1, <3>6, <3>7 DEF Joins
  <2>2. ASSUME ~stays PROVE S1 = S
    BY <1>4, <2>2
  <2> QED
    BY <2>1, <2>2
<1>8. stopped \in [Threads -> Status]
  BY <1>2 DEF Status
<1>9. /\ new # Null => Leaves(S1, S2, current_priority[new], new)
      /\ new = Null => S2 = S1
  <2>1. ASSUME new # Null PROVE Leaves(S1, S2, current_priority[new], new)
    <3>1. status' = [stopped EXCEPT ![new] = "Running"] /\ new \in Threads
      BY <1>3, <1>5, <2>1
    <3> HIDE DEF stopped
    <3>2. \A r \in Priorities :
            ReadyAt(status', current_priority, r) = ReadyAt(stopped, current_priority, r) \ {new}
      BY <1>8, <3>1 DEF ReadyAt
    <3>3. \A r \in Priorities : r # current_priority[new] => new \notin ReadyAt(stopped, current_priority, r)
      BY DEF ReadyAt
    <3> QED
      BY <1>2, <3>1, <3>2, <3>3 DEF ReadyBut, Leaves
  <2>2. ASSUME new = Null PROVE S2 = S1
    <3>1. status' = stopped
      BY <1>3, <2>2
    <3> HIDE DEF stopped
    <3>2. \A r \in Priorities : Null \notin ReadyAt(stopped, current_priority, r)
      BY PointersAssumption DEF ReadyAt
    <3>3. \A r \in Priorities : (ReadyAt(stopped, current_priority, r) \ ({new} \ (IF stays THEN {c} ELSE {})))
                                = ReadyAt(stopped, current_priority, r) \ {}
      BY <2>2, <3>2
    <3> QED
      BY <3>1, <3>3 DEF ReadyBut
  <2> QED
    BY <2>1, <2>2
<1>10. \A u \in Threads : status'[u] # "Unborn" => status[u] # "Unborn"
  BY <1>2, <1>3, <1>5, <1>6
<1>11. status' \in [Threads -> Status]
  BY <1>3, <1>8 DEF Status
<1> DEFINE pc == current_priority[c]
<1>12. stays => pc \in LinkedIn(next_nonempty)
  BY <1>2, <1>6 DEF Reachable
<1>13. stays => pushed = push_front(data, pc, c)
  OBVIOUS
<1>14. ~stays => pushed = data
  OBVIOUS
<1>15. QueuesHold(data, S)
  BY <1>2
<1> HIDE DEF S, S1, S2, stays, pushed, stopped, pc
<1>16. QueuesHold(pushed, S1) /\ \A r \in Priorities : pushed[r] # <<>> => r \in LinkedIn(next_nonempty)
  <2>1. CASE stays
    <3>1. Joins(S, S1, pc, c)
      BY <1>7, <2>1 DEF pc
    <3>2. QueuesHold(pushed, S1) /\ SameBut(pushed, data, pc)
      BY <1>13, <1>15, <2>1, <3>1, QueuesPush
    <3> QED
      BY <1>2, <1>12, <2>1, <3>2 DEF SameBut, Reachable
  <2>2. CASE ~stays
    BY <1>2, <1>7, <1>14, <1>15, <2>2 DEF Reachable
  <2> QED
    BY <2>1, <2>2
<1>17. QueuesHold(data', S2) /\ \A r \in Priorities : data'[r] # <<>> => r \in LinkedIn(next_nonempty)
  <2>1. CASE new = Null
    BY <1>3, <1>9, <1>16, <2>1
  <2>2. CASE new # Null
    <3>1. QueuesHold(data', S2) /\ NoFurther(data', pushed)
      BY <1>3, <1>9, <1>16, <2>2, QueuesDrop
    <3> QED
      BY <1>16, <3>1 DEF NoFurther
  <2> QED
    BY <2>1, <2>2
<1>18. Reachable(next_nonempty', data', status', current_priority')
  BY <1>2, <1>3, <1>10, <1>17 DEF Reachable
<1>19. ThreadTypes(data', status', current_priority', unschedule_mode', current_thread')
  BY <1>2, <1>3, <1>11, <1>17 DEF ThreadTypes, QueuesHold, new
<1>20. Now'
  BY <1>2, <1>3, <1>17, <1>18, <1>19 DEF Now, Consistent, ListInv, S2
<1> QED
  BY <1>3, <1>20, ConsistentIsInv

-----------------------------------------------------------------------------
(* Save states *)

(* A pointer that is written as an index is read back as the same pointer.                    *)
LEMMA PointersSurvive == \A q \in Pointers : ToPointer(ToIndex(q)) = q
BY PriorityFacts, PointersAssumption DEF Pointers, ToPointer, ToIndex

(* What is saved is consistent.                                                               *)
LEMMA SaveKeeps ==
  ASSUME ReadyInv, Save
  PROVE  ReadyInv'
<1>1. /\ walk = Null /\ walk' = Null
      /\ saved' = [first |-> ToIndex(first), next |-> [p \in Priorities |-> ToIndex(next_nonempty[p])],
                   data |-> data, threads |-> threads]
      /\ UNCHANGED <<queues, threads>>
  BY DEF Save, Idle
<1>2. Now
  BY <1>1, IdleIsConsistent
<1>3. Now'
  BY <1>1, <1>2 DEF Now, queues, threads
<1>4. first \in Pointers /\ next_nonempty \in [Priorities -> Pointers]
  BY <1>2 DEF Now, Consistent, ListTypes, Pointers
<1>5. ToPointer(saved'.first) = first
  BY <1>1, <1>4, PointersSurvive
<1>6. [p \in Priorities |-> ToPointer(saved'.next[p])] = next_nonempty
  <2>1. \A p \in Priorities : ToPointer(saved'.next[p]) = next_nonempty[p]
    BY <1>1, <1>4, PointersSurvive
  <2> QED
    BY <1>4, <2>1
<1>7. /\ saved'.data = data /\ saved'.threads[1] = status /\ saved'.threads[2] = current_priority
      /\ saved'.threads[3] = unschedule_mode /\ saved'.threads[4] = current_thread
  BY <1>1 DEF threads
<1>8. SavedConsistent'
  BY <1>2, <1>5, <1>6, <1>7 DEF SavedConsistent, Now
<1>9. ListInv' /\ ThreadInv' /\ WalkInv'
  <2>1. Away' = {}
    BY <1>1 DEF Away
  <2> QED
    BY <1>1, <1>3, <2>1 DEF Now, Consistent, ListInv, ThreadInv, WalkInv
<1> QED
  BY <1>8, <1>9 DEF ReadyInv

(* A load brings back a consistent state, or nothing.                                         *)
LEMMA LoadKeeps ==
  ASSUME ReadyInv, Load
  PROVE  ReadyInv'
<1>1. walk = Null /\ walk' = Null /\ saved' = saved /\ saved # Null
  BY DEF Load, Idle
<1>2. Now'
  BY <1>1 DEF ReadyInv, SavedConsistent, Now, Load
<1> QED
  BY <1>1, <1>2, ConsistentIsInv

-----------------------------------------------------------------------------
(* The invariant *)

(* At first no priority is linked and no thread exists.                                       *)
LEMMA InitReady == Init => ReadyInv
<1> SUFFICES ASSUME Init PROVE ReadyInv
  OBVIOUS
<1>1. LinkedIn(next_nonempty) = {}
  BY DEF Init, LinkedIn
<1>2. ListInv
  <2>1. ListTypes(first, next_nonempty)
    BY DEF Init, ListTypes, Pointers
  <2>2. Sorted(first, next_nonempty)
    BY <1>1 DEF Init, Sorted, Follows
  <2> QED
    BY <2>1, <2>2 DEF ListInv
<1>3. walk = Null /\ saved = Null /\ Away = {}
  BY DEF Init, Away
<1>4. \A p \in Priorities : data[p] = <<>> /\ ReadyBut(status, current_priority, {})[p] = {}
  BY DEF Init, ReadyBut, ReadyAt
<1>5. Lists(<<>>, {})
  BY DEF Lists, IsInjective, Range
<1>6. ThreadTypes(data, status, current_priority, unschedule_mode, current_thread)
  <2>1. 0 \in Priorities
    BY PointersAssumption DEF Priorities
  <2> QED
    BY <2>1 DEF Init, ThreadTypes, Status
<1>7. QueuesHold(data, ReadyBut(status, current_priority, {}))
  BY <1>4, <1>5, <1>6 DEF QueuesHold, ThreadTypes
<1>8. Reachable(next_nonempty, data, status, current_priority)
  BY <1>4 DEF Reachable, Init
<1> QED
  BY <1>2, <1>3, <1>6, <1>7, <1>8 DEF ReadyInv, ThreadInv, WalkInv, SavedConsistent

(* Every step keeps the invariant.                                                            *)
LEMMA NextReady == ReadyInv /\ [Next]_vars => ReadyInv'
<1> SUFFICES ASSUME ReadyInv, [Next]_vars PROVE ReadyInv'
  OBVIOUS
<1>1. ASSUME NEW t \in Threads, NEW p \in Priorities, NEW make_ready \in BOOLEAN,
             Create(t, p, make_ready)
      PROVE  ReadyInv'
  BY <1>1, CreateKeeps
<1>2. ASSUME NEW t \in Threads, NEW p \in Priorities, SetPriority(t, p) PROVE ReadyInv'
  BY <1>2, SetPriorityKeeps
<1>3. ASSUME NEW t \in Threads, ResumeFromWait(t) \/ Stop(t) PROVE ReadyInv'
  BY <1>3, ResumeKeeps, StopKeeps
<1>4. CASE WaitCurrentThread
  BY <1>4, WaitKeeps
<1>5. CASE Reschedule
  BY <1>5, RescheduleKeeps
<1>6. CASE WalkStep \/ WalkEnds
  BY <1>6, WalkStepKeeps, WalkEndsKeeps
<1>7. CASE RestoreSkipped \/ SwitchContext
  BY <1>7, RestoreKeeps, SwitchKeeps
<1>8. ASSUME NEW ts \in SUBSET Threads, NEW set \in BOOLEAN,
             ControlProcess(ts, set) \/ ChangeUnscheduleMode(ts, set)
      PROVE  ReadyInv'
  BY <1>8, ControlKeeps, ChangeModeKeeps
<1>9. CASE Save \/ Load
  BY <1>9, SaveKeeps, LoadKeeps
<1>10. CASE UNCHANGED vars
  <2>1. UNCHANGED <<first, next_nonempty, data, status, current_priority, unschedule_mode,
                    current_thread, walk, saved>>
    BY <1>10 DEF vars, queues, threads
  <2>2. Taken' = Taken /\ Away' = Away
    BY <2>1 DEF Taken, Away
  <2> QED
    BY <2>1, <2>2 DEF ReadyInv, ListInv, ThreadInv, WalkInv, SavedConsistent, WalkInside,
                      TakenReady, TakenOnce, Found
<1> QED
  BY <1>1, <1>2, <1>3, <1>4, <1>5, <1>6, <1>7, <1>8, <1>9, <1>10 DEF Next

-----------------------------------------------------------------------------
(* What follows from the invariant *)

(* A list without repetition holds each of its elements at one place.                         *)
LEMMA OnePlace ==
  ASSUME NEW T, NEW q \in Seq(T), NEW S, Lists(q, S), NEW x
  PROVE  Cardinality({i \in DOMAIN q : q[i] = x}) = IF x \in S THEN 1 ELSE 0
<1> DEFINE I == {i \in DOMAIN q : q[i] = x}
<1>1. CASE x \in S
  <2>1. PICK i \in DOMAIN q : q[i] = x
    BY <1>1 DEF Lists, Range
  <2>2. I = {i}
    BY <2>1 DEF Lists, IsInjective
  <2> QED
    BY <1>1, <2>2, FS_Singleton
<1>2. CASE x \notin S
  <2>1. I = {}
    BY <1>2 DEF Lists, Range
  <2> QED
    BY <1>2, <2>1, FS_EmptySet
<1> QED
  BY <1>1, <1>2

(* The queues and what the walk has skipped hold a ready thread once, and no other thread.    *)
LEMMA OnceQueued == ReadyInv => QueuedOnce
<1> SUFFICES ASSUME ReadyInv, NEW t \in Threads, NEW p \in Priorities
             PROVE  Entries(t, p) = IF /\ status[t] = "Ready" /\ current_priority[t] = p
                                       /\ ~ (walk # Null /\ walk.next = t)
                                    THEN 1 ELSE 0
  BY DEF QueuedOnce
<1> DEFINE S == ReadyAt(status, current_priority, p)
           D == {i \in DOMAIN data[p] : data[p][i] = t}
           K == {i \in Taken : walk.skipped[i] = <<p, t>>}
<1>1. data[p] \in Seq(Threads) /\ Lists(data[p], S \ Away)
  BY DEF ReadyInv, ThreadInv, QueuesHold, ReadyBut
<1>2. Cardinality(D) = IF t \in S \ Away THEN 1 ELSE 0
  <2> DEFINE X == S \ Away
             q == data[p]
  <2>1. q \in Seq(Threads) /\ Lists(q, X)
    BY <1>1
  <2> HIDE DEF X, q
  <2>2. Cardinality({i \in DOMAIN q : q[i] = t}) = IF t \in X THEN 1 ELSE 0
    BY <2>1, OnePlace
  <2> QED
    BY <2>2 DEF X, q
<1>3. t \in S <=> status[t] = "Ready" /\ current_priority[t] = p
  BY DEF ReadyAt
<1>4. CASE walk = Null
  <2>1. Away = {} /\ Entries(t, p) = Cardinality(D) + 0
    BY <1>4 DEF Away, Entries
  <2> QED
    BY <1>2, <1>3, <1>4, <2>1
<1>5. CASE walk # Null
  <2>1. Entries(t, p) = Cardinality(D) + Cardinality(K)
    BY <1>5 DEF Entries
  <2>2. Away = {walk.next} \cup {walk.skipped[i][2] : i \in Taken} /\ TakenReady /\ TakenOnce
    BY <1>5 DEF Away, ReadyInv, WalkInv
  <2>3. \A i \in Taken : walk.skipped[i] = <<walk.skipped[i][1], walk.skipped[i][2]>>
    <3>1. walk.skipped \in Seq(Priorities \X Threads) /\ Found
      BY <1>5, WalkFacts
    <3>2. walk.it \in Nat /\ (walk.op = "pop" \/ walk.op = "restore")
      BY <1>5, WalkFacts DEF Walks
    <3>3. \A i \in Taken : i \in DOMAIN walk.skipped
      BY <3>1, <3>2 DEF Taken, Found
    <3> QED
      BY <3>1, <3>3
  <2> HIDE DEF D, K, S
  <2>4. ASSUME NEW i \in Taken
        PROVE  walk.skipped[i] = <<p, t>> <=> t \in S /\ walk.skipped[i][2] = t
    <3>1. /\ walk.skipped[i][1] = current_priority[walk.skipped[i][2]]
          /\ status[walk.skipped[i][2]] = "Ready"
      BY <2>2 DEF TakenReady
    <3> QED
      BY <1>3, <2>3, <3>1
  <2>5. CASE t \in S /\ \E i \in Taken : walk.skipped[i][2] = t
    <3>1. PICK i \in Taken : walk.skipped[i][2] = t
      BY <2>5
    <3>2. K = {i}
      BY <2>2, <2>4, <2>5, <3>1 DEF K, TakenOnce
    <3>3. Cardinality(K) = 1
      BY <3>2, FS_Singleton
    <3>4. t \in Away /\ walk.next # t
      BY <2>2, <3>1 DEF TakenReady
    <3> QED
      BY <1>2, <1>3, <1>5, <2>1, <2>5, <3>3, <3>4
  <2>6. CASE ~(t \in S /\ \E i \in Taken : walk.skipped[i][2] = t)
    <3>1. K = {}
      BY <2>4, <2>6 DEF K
    <3>2. Cardinality(K) = 0
      BY <3>1, FS_EmptySet
    <3>3. t \in S => (t \in Away <=> walk.next = t)
      BY <2>2, <2>6
    <3> QED
      BY <1>2, <1>3, <1>5, <2>1, <3>2, <3>3
  <2> QED
    BY <2>5, <2>6
<1> QED
  BY <1>4, <1>5

(* The invariant is what the run checks of the queues, for any threads and priorities.        *)
LEMMA IntactQueues == ReadyInv => QueuesIntact
<1> SUFFICES ASSUME ReadyInv PROVE QueuesIntact
  OBVIOUS
<1>1. LinkedSet = LinkedIn(next_nonempty) /\ LinkedSet \subseteq Nat
  BY PriorityFacts DEF LinkedSet, LinkedIn, Linked
<1>2. /\ ListTypes(first, next_nonempty) /\ Sorted(first, next_nonempty)
      /\ ThreadTypes(data, status, current_priority, unschedule_mode, current_thread)
      /\ Reachable(next_nonempty, data, status, current_priority) /\ WalkInv
  BY DEF ReadyInv, ListInv, ThreadInv
<1>3. TypeOK
  BY <1>2 DEF TypeOK, ListTypes, ThreadTypes, WalkInv
<1>4. ListSorted
  <2>1. first = NextLinked(0)
    BY <1>1, <1>2, NextLinkedFollows DEF Sorted
  <2>2. ASSUME NEW p \in LinkedSet PROVE next_nonempty[p] = NextLinked(p + 1)
    <3>1. p + 1 \in Nat /\ Follows(LinkedSet, next_nonempty[p], p + 1)
      BY <1>1, <1>2 DEF Sorted
    <3> QED
      BY <3>1, NextLinkedFollows
  <2> QED
    BY <2>1, <2>2 DEF ListSorted
<1>5. QueuedIsReachable
  BY <1>2 DEF QueuedIsReachable, Reachable, LinkedIn, Linked
<1>6. WalkStaysInList
  BY <1>1, <1>2 DEF WalkStaysInList, WalkInv, WalkInside
<1>7. SwitchAssert
  BY <1>2 DEF SwitchAssert, WalkInv, Found
<1> QED
  BY <1>3, <1>4, <1>5, <1>6, <1>7, OnceQueued DEF QueuesIntact

(* Through boosts, skips, saves and loads the list of used priorities stays sorted, every     *)
(* ready thread is queued once where the scheduler finds it, and the walk of                  *)
(* PopNextReadyThread neither leaves the list nor switches to a thread that is not ready.     *)
THEOREM QueuesAlwaysIntact == Spec => []QueuesIntact
<1>1. Init => ReadyInv
  BY InitReady
<1>2. ReadyInv /\ [Next]_vars => ReadyInv'
  BY NextReady
<1>3. ReadyInv => QueuesIntact
  BY IntactQueues
<1> QED
  BY <1>1, <1>2, <1>3, PTL DEF Spec

-----------------------------------------------------------------------------
(* The search of a reschedule *)

\* The threads that may not be scheduled
Barred == Unscheduled(unschedule_mode)

\* The current thread may go on
GoesOn ==
  current_thread # Null /\ status[current_thread] = "Running" /\ unschedule_mode[current_thread] = {}

\* Queue s is what is left of q when threads of B have been popped from its front
LeftOf(s, q, B) ==
  \E m \in Nat : /\ Len(q) = m + Len(s) /\ \A j \in 1 .. m : q[j] \in B
                 /\ \A j \in 1 .. Len(s) : s[j] = q[m + j]

\* In queues b the thread at place i of priority p is the first that is not in B
FirstBut(b, p, i, B) ==
  /\ b[p][i] \notin B /\ \A j \in 1 .. i - 1 : b[p][j] \in B
  /\ \A q \in 0 .. p - 1 : Range(b[q]) \subseteq B

\* The queues before the one the walk looks at are empty, and only barred threads were skipped
Searched ==
  walk.op = "pop" =>
    /\ walk.cur \in LinkedIn(next_nonempty) \cup {nullptr}
    /\ \A p \in Priorities : walk.cur = nullptr \/ p < walk.cur => data[p] = <<>>
    /\ \A p \in Priorities : LeftOf(data[p], walk.before[p], Barred)

\* The thread to run was popped, that is, it is not the current one
Popped == walk.next # Null /\ status[walk.next] = "Ready"

\* The priorities that the search looks at
Better(p) == walk.better => p < current_priority[current_thread]

\* The thread to run is the first of the queues, or none of them is better than the current one
FoundBest ==
  walk.op = "restore" =>
    /\ Popped =>
         /\ Better(current_priority[walk.next])
         /\ \E i \in DOMAIN walk.before[current_priority[walk.next]] :
              /\ walk.before[current_priority[walk.next]][i] = walk.next
              /\ FirstBut(walk.before, current_priority[walk.next], i, Barred)
    /\ ~Popped =>
         /\ walk.next = IF walk.better THEN current_thread ELSE Null
         /\ \A p \in Priorities : Better(p) => Range(walk.before[p]) \subseteq Barred

\* How many of the skipped threads are out of their queues
Out == IF walk.op = "pop" THEN Len(walk.skipped) ELSE walk.it

\* D[i] are the queues when the first i of the skipped threads are out of them
Trail(D) ==
  /\ D[0] = walk.before
  /\ \A i \in DOMAIN walk.skipped :
       D[i - 1] = push_front(D[i], walk.skipped[i][1], walk.skipped[i][2])
  /\ data = IF Popped THEN remove(D[Out], current_priority[walk.next], walk.next) ELSE D[Out]

SearchInv ==
  walk # Null =>
    /\ walk.better <=> GoesOn
    /\ Searched /\ FoundBest
    /\ \E D \in [Nat -> [Priorities -> Seq(Threads)]] : Trail(D)

(* The list has nothing linked before its first priority.                                     *)
LEMMA FirstLinked ==
  ASSUME ListInv
  PROVE  /\ first \in LinkedIn(next_nonempty) \cup {nullptr}
         /\ \A p \in Priorities : first = nullptr \/ p < first => p \notin LinkedIn(next_nonempty)
<1>1. Follows(LinkedIn(next_nonempty), first, 0) /\ LinkedIn(next_nonempty) \subseteq Nat
  BY PriorityFacts DEF ListInv, Sorted, LinkedIn
<1>2. LinkedIn(next_nonempty) \subseteq Priorities /\ Priorities \subseteq Nat /\ nullptr \notin Priorities
  BY PriorityFacts DEF LinkedIn
<1> QED
  BY <1>1, <1>2 DEF Follows

(* And nothing between a linked priority and the next one.                                    *)
LEMMA NextLinks ==
  ASSUME ListInv, NEW q \in LinkedIn(next_nonempty)
  PROVE  /\ next_nonempty[q] \in LinkedIn(next_nonempty) \cup {nullptr}
         /\ \A p \in Priorities : (next_nonempty[q] = nullptr \/ p < next_nonempty[q]) /\ q < p
                                    => p \notin LinkedIn(next_nonempty)
<1>1. Follows(LinkedIn(next_nonempty), next_nonempty[q], q + 1) /\ LinkedIn(next_nonempty) \subseteq Nat
  BY PriorityFacts DEF ListInv, Sorted, LinkedIn
<1>2. LinkedIn(next_nonempty) \subseteq Priorities /\ Priorities \subseteq Nat /\ nullptr \notin Priorities
  BY PriorityFacts DEF LinkedIn
<1> QED
  BY <1>1, <1>2 DEF Follows

(* A queue that has become empty held only threads that were popped.                          *)
LEMMA LeftNothing ==
  ASSUME NEW q \in Seq(Threads), NEW B, LeftOf(<<>>, q, B)
  PROVE  Range(q) \subseteq B
<1>1. PICK m \in Nat : Len(q) = m + Len(<<>>) /\ \A j \in 1 .. m : q[j] \in B
  BY DEF LeftOf
<1>2. Len(<<>>) = 0
  OBVIOUS
<1>3. Len(q) = m /\ DOMAIN q = 1 .. Len(q)
  BY <1>1, <1>2
<1> QED
  BY <1>1, <1>3 DEF Range

(* Popping one more.                                                                          *)
LEMMA LeftTail ==
  ASSUME NEW s \in Seq(Threads), NEW q \in Seq(Threads), NEW B, LeftOf(s, q, B), s # <<>>, Head(s) \in B
  PROVE  LeftOf(Tail(s), q, B)
<1>1. PICK m \in Nat : /\ Len(q) = m + Len(s) /\ \A j \in 1 .. m : q[j] \in B
                       /\ \A j \in 1 .. Len(s) : s[j] = q[m + j]
  BY DEF LeftOf
<1> DEFINE z == Tail(s)
<1>2. /\ z \in Seq(Threads) /\ Len(z) = Len(s) - 1 /\ \A j \in 1 .. Len(z) : z[j] = s[j + 1]
  BY HeadTailProperties
<1>3. Len(s) \in Nat /\ Len(s) >= 1 /\ s[1] \in B
  OBVIOUS
<1> HIDE DEF z
<1>4. Len(q) = (m + 1) + Len(z) /\ m + 1 \in Nat
  BY <1>1, <1>2, <1>3
<1>5. \A j \in 1 .. m + 1 : q[j] \in B
  <2>1. q[m + 1] = s[1]
    BY <1>1, <1>3
  <2> QED
    BY <1>1, <1>3, <2>1
<1>6. \A j \in 1 .. Len(z) : z[j] = q[(m + 1) + j]
  BY <1>1, <1>2, <1>3
<1>7. LeftOf(z, q, B)
  BY <1>4, <1>5, <1>6 DEF LeftOf
<1> QED
  BY <1>7 DEF z

(* The first thread of what is left is the first of the queue that was not popped.            *)
LEMMA LeftHead ==
  ASSUME NEW s \in Seq(Threads), NEW q \in Seq(Threads), NEW B, LeftOf(s, q, B), s # <<>>
  PROVE  \E i \in DOMAIN q : q[i] = Head(s) /\ \A j \in 1 .. i - 1 : q[j] \in B
<1>1. PICK m \in Nat : /\ Len(q) = m + Len(s) /\ \A j \in 1 .. m : q[j] \in B
                       /\ \A j \in 1 .. Len(s) : s[j] = q[m + j]
  BY DEF LeftOf
<1>2. Len(s) \in Nat /\ Len(s) >= 1 /\ s[1] = Head(s)
  OBVIOUS
<1>3. m + 1 \in DOMAIN q /\ q[m + 1] = Head(s)
  BY <1>1, <1>2
<1>4. \A j \in 1 .. (m + 1) - 1 : q[j] \in B
  BY <1>1
<1> QED
  BY <1>3, <1>4

(* A popped thread that is pushed to the front again is where it was.                         *)
LEMMA PopPush ==
  ASSUME NEW d \in [Priorities -> Seq(Threads)], NEW p \in Priorities, d[p] # <<>>
  PROVE  /\ [d EXCEPT ![p] = Tail(@)] \in [Priorities -> Seq(Threads)]
         /\ push_front([d EXCEPT ![p] = Tail(@)], p, Head(d[p])) = d
         /\ remove(d, p, Head(d[p])) = [d EXCEPT ![p] = Tail(@)]
<1> DEFINE s == d[p]
           z == Tail(s)
           e == [d EXCEPT ![p] = z]
           h == <<Head(s)>> \o z
<1>1. s \in Seq(Threads) /\ s # <<>>
  OBVIOUS
<1>2. /\ z \in Seq(Threads) /\ Len(z) = Len(s) - 1 /\ Head(s) \in Threads
      /\ \A j \in 1 .. Len(z) : z[j] = s[j + 1]
  BY <1>1, HeadTailProperties
<1>3. e \in [Priorities -> Seq(Threads)] /\ \A r \in Priorities : e[r] = IF r = p THEN z ELSE d[r]
  BY <1>2
<1>4. h = s
  <2> HIDE DEF s, z
  <2>1. /\ h \in Seq(Threads) /\ Len(h) = Len(z) + 1
        /\ \A i \in 1 .. Len(z) + 1 : h[i] = IF i = 1 THEN Head(s) ELSE z[i - 1]
    BY <1>2
  <2>2. Len(s) \in Nat /\ Len(s) >= 1 /\ s[1] = Head(s)
    BY <1>1
  <2> HIDE DEF h
  <2>3. ASSUME NEW i \in 1 .. Len(h) PROVE h[i] = s[i]
    <3>1. CASE i = 1
      BY <2>1, <2>2, <3>1
    <3>2. CASE i # 1
      <4>1. i - 1 \in 1 .. Len(z) /\ i - 1 + 1 = i
        BY <1>2, <2>1, <2>2, <3>2
      <4> QED
        BY <1>2, <2>1, <3>2, <4>1
    <3> QED
      BY <3>1, <3>2
  <2>4. Len(h) = Len(s)
    BY <1>2, <2>1, <2>2
  <2> QED
    BY <1>1, <2>1, <2>3, <2>4, SeqEqual
<1>5. push_front(e, p, Head(s)) = [e EXCEPT ![p] = h]
  BY <1>3 DEF push_front
<1> HIDE DEF e, h, z
<1>6. [e EXCEPT ![p] = h] = d
  BY <1>3, <1>4
<1>7. remove(d, p, Head(s)) = [d EXCEPT ![p] = z]
  BY <1>1, RemoveEnds DEF remove, z
<1> QED
  BY <1>3, <1>5, <1>6, <1>7 DEF e, z

(* Removing one thread and pushing another to the front may change places.                    *)
LEMMA PushRemove ==
  ASSUME NEW d \in [Priorities -> Seq(Threads)], NEW p \in Priorities, NEW r \in Priorities,
         NEW t \in Threads, NEW x, t # x
  PROVE  push_front(remove(d, r, x), p, t) = remove(push_front(d, p, t), r, x)
<1> DEFINE s == d[r]
           z == RemoveFirst(s, x)
           e == remove(d, r, x)
           f == push_front(d, p, t)
<1>1. e = [d EXCEPT ![r] = z] /\ f = [d EXCEPT ![p] = <<t>> \o d[p]]
  BY DEF remove, push_front
<1>2. push_front(e, p, t) = [e EXCEPT ![p] = <<t>> \o e[p]]
  BY DEF push_front
<1>3. remove(f, r, x) = [f EXCEPT ![r] = RemoveFirst(f[r], x)]
  BY DEF remove
<1>4. CASE p = r
  <2>1. RemoveFirst(<<t>> \o s, x) = <<t>> \o z
    <3>1. s \in Seq(Threads)
      OBVIOUS
    <3> HIDE DEF s
    <3> QED
      BY <3>1, RemoveBehind, Zenon
  <2>2. e[p] = z /\ f[r] = <<t>> \o s
    BY <1>1, <1>4
  <2> HIDE DEF e, f, s, z
  <2>3. push_front(e, p, t) = [e EXCEPT ![p] = <<t>> \o z]
    BY <1>2, <2>2
  <2>4. remove(f, r, x) = [f EXCEPT ![r] = <<t>> \o z]
    BY <1>3, <2>1, <2>2
  <2>5. [e EXCEPT ![p] = <<t>> \o z] = [f EXCEPT ![r] = <<t>> \o z]
    BY <1>1, <1>4
  <2> QED
    BY <2>3, <2>4, <2>5 DEF e, f
<1>5. CASE p # r
  <2>1. e[p] = d[p] /\ f[r] = d[r]
    BY <1>1, <1>5
  <2> HIDE DEF e, f
  <2>2. push_front(e, p, t) = [e EXCEPT ![p] = <<t>> \o d[p]] /\ remove(f, r, x) = [f EXCEPT ![r] = z]
    BY <1>2, <1>3, <2>1
  <2>3. [e EXCEPT ![p] = <<t>> \o d[p]] = [f EXCEPT ![r] = z]
    BY <1>1, <1>5
  <2> QED
    BY <2>2, <2>3 DEF e, f
<1> QED
  BY <1>4, <1>5

\* In queues d, removing x from the queue of r and pushing t to that of p may change places
ChangePlaces(d, r, x, p, t) ==
  push_front(remove(d, r, x), p, t) = remove(push_front(d, p, t), r, x)

(* PushRemove, as one word.                                                                   *)
LEMMA PlacesChange ==
  \A d \in [Priorities -> Seq(Threads)], p \in Priorities, r \in Priorities, t \in Threads :
    \A x : t # x => ChangePlaces(d, r, x, p, t)
<1> SUFFICES ASSUME NEW d \in [Priorities -> Seq(Threads)], NEW p \in Priorities,
                    NEW r \in Priorities, NEW t \in Threads, NEW x, t # x
             PROVE  ChangePlaces(d, r, x, p, t)
  OBVIOUS
<1> QED
  BY PushRemove DEF ChangePlaces

(* At the start of a search nothing is skipped, and the queues before the first are empty.    *)
LEMMA StartSearches ==
  ASSUME ReadyInv, walk = Null, StartWalk(unschedule_mode'),
         UNCHANGED <<first, next_nonempty, data, status, current_priority, current_thread>>
  PROVE  SearchInv' /\ walk' # Null /\ walk'.before = data
<1>1. Now
  BY IdleIsConsistent
<1>2. /\ ListInv /\ first \in Pointers /\ data \in [Priorities -> Seq(Threads)]
      /\ Reachable(next_nonempty, data, status, current_priority)
  BY <1>1, NowFacts DEF ListInv, ListTypes, Pointers
<1> DEFINE keeps == /\ current_thread # Null /\ status[current_thread] = "Running"
                    /\ unschedule_mode'[current_thread] = {}
<1>3. walk' = [op |-> "pop", better |-> keeps, cur |-> first, skipped |-> <<>>, it |-> 0,
               next |-> Null, before |-> data]
  BY DEF StartWalk
<1>4. GoesOn' <=> keeps
  BY DEF GoesOn
<1> HIDE DEF keeps
<1>5. /\ walk'.op = "pop" /\ walk'.better = keeps /\ walk'.cur = first /\ walk'.skipped = <<>>
      /\ walk'.next = Null /\ walk'.before = data
  BY <1>3
<1>6. walk' # Null
  <2>1. <<>> \in Seq(Priorities \X Threads) /\ keeps \in BOOLEAN
    BY DEF keeps
  <2>2. walk' \in Walks
    BY <1>2, <1>3, <2>1 DEF Walks
  <2> QED
    BY <2>2, PointersAssumption
<1>7. walk'.better <=> GoesOn'
  BY <1>4, <1>5, Zenon
<1>8. Searched'
  <2>1. \A p \in Priorities : first = nullptr \/ p < first => data[p] = <<>>
    BY <1>2, FirstLinked DEF Reachable
  <2>2. ASSUME NEW s \in Seq(Threads), NEW B PROVE LeftOf(s, s, B)
    <3>1. /\ 0 \in Nat /\ Len(s) = 0 + Len(s) /\ \A j \in 1 .. 0 : s[j] \in B
          /\ \A j \in 1 .. Len(s) : s[j] = s[0 + j]
      OBVIOUS
    <3> QED
      BY ONLY <3>1 DEF LeftOf
  <2>3. \A p \in Priorities : LeftOf(data[p], data[p], Barred')
    BY <1>2, <2>2
  <2>4. first \in LinkedIn(next_nonempty) \cup {nullptr}
    BY <1>2, FirstLinked
  <2> QED
    BY <1>5, <2>1, <2>3, <2>4 DEF Searched
<1>9. FoundBest'
  BY <1>5 DEF FoundBest
<1>10. \E D \in [Nat -> [Priorities -> Seq(Threads)]] : Trail(D)'
  <2> DEFINE D == [i \in Nat |-> data]
  <2>1. D \in [Nat -> [Priorities -> Seq(Threads)]]
    BY <1>2
  <2>2. Out' = 0 /\ ~Popped'
    BY <1>5 DEF Out, Popped
  <2>3. DOMAIN walk'.skipped = {}
    BY <1>5
  <2>4. Trail(D)'
    BY <1>5, <2>2, <2>3 DEF Trail
  <2> QED
    BY <2>1, <2>4
<1>11. SearchInv'
  BY <1>7, <1>8, <1>9, <1>10 DEF SearchInv
<1> QED
  BY <1>5, <1>6, <1>11

\* F is D with e behind its first n entries
Extends(F, D, n, e) == F[n + 1] = e /\ \A i \in 0 .. n : F[i] = D[i]

(* The queues without one more skipped thread are one more step of the trail.                 *)
LEMMA OneMoreStep ==
  ASSUME NEW T, NEW D \in [Nat -> T], NEW n \in Nat, NEW e \in T
  PROVE  \E F \in [Nat -> T] : Extends(F, D, n, e)
<1> WITNESS [D EXCEPT ![n + 1] = e] \in [Nat -> T]
<1> QED
  BY DEF Extends

(* What holds of the search and of what it started from.                                      *)
LEMMA SearchFacts ==
  ASSUME ReadyInv, SearchInv, walk # Null
  PROVE  /\ walk.better <=> GoesOn
         /\ Searched /\ FoundBest /\ walk.before \in [Priorities -> Seq(Threads)]
         /\ \E D \in [Nat -> [Priorities -> Seq(Threads)]] : Trail(D)
<1>1. walk.before \in [Priorities -> Seq(Threads)]
  BY WalkFacts DEF Walks
<1> QED
  BY <1>1 DEF SearchInv

(* The steps of a search start from the same queues and answer the same question.             *)
LEMMA SearchKeeps ==
  ASSUME ReadyInv, SearchInv, walk # Null, UNCHANGED <<status, unschedule_mode, current_thread>>,
         walk'.better = walk.better, Searched', FoundBest',
         \E D \in [Nat -> [Priorities -> Seq(Threads)]] : Trail(D)'
  PROVE  SearchInv'
<1>1. GoesOn' <=> GoesOn
  BY DEF GoesOn
<1>2. walk'.better <=> GoesOn'
  BY <1>1 DEF SearchInv
<1> QED
  BY <1>2 DEF SearchInv

(* A queue that is empty is passed.                                                           *)
LEMMA NextQueueSearches ==
  ASSUME ReadyInv, SearchInv, walk # Null, walk.op = "pop", walk.cur \in Priorities, NextQueue,
         UNCHANGED <<first, next_nonempty, threads, saved>>
  PROVE  SearchInv' /\ walk' # Null /\ walk'.before = walk.before
<1>1. /\ walk \in Walks /\ ListInv /\ Searched /\ walk.before \in [Priorities -> Seq(Threads)]
      /\ next_nonempty \in [Priorities -> Pointers]
      /\ Reachable(next_nonempty, data, status, current_priority)
  BY WalkFacts, SearchFacts
<1>2. /\ data' = data /\ walk' = [walk EXCEPT !.cur = next_nonempty[walk.cur]]
      /\ data[walk.cur] = <<>>
      /\ UNCHANGED <<first, next_nonempty, status, current_priority, unschedule_mode,
                     current_thread, saved>>
  BY DEF NextQueue, threads
<1>3. walk' # Null
  <2>1. walk' \in Walks
    BY <1>1, <1>2 DEF Walks
  <2> QED
    BY <2>1, PointersAssumption
<1>4. /\ walk'.op = walk.op /\ walk'.better = walk.better /\ walk'.skipped = walk.skipped
      /\ walk'.it = walk.it /\ walk'.next = walk.next /\ walk'.cur = next_nonempty[walk.cur]
      /\ walk'.before = walk.before
  BY <1>1, <1>2 DEF Walks
<1>5. Searched'
  <2> DEFINE n == next_nonempty[walk.cur]
  <2>1. walk.cur \in LinkedIn(next_nonempty)
    BY <1>1, PriorityFacts DEF Searched
  <2>2. /\ n \in LinkedIn(next_nonempty) \cup {nullptr}
        /\ \A p \in Priorities : (n = nullptr \/ p < n) /\ walk.cur < p => p \notin LinkedIn(next_nonempty)
    BY <1>1, <2>1, NextLinks
  <2> HIDE DEF n
  <2>3. ASSUME NEW p \in Priorities, n = nullptr \/ p < n PROVE data[p] = <<>>
    <3>1. p \in Nat /\ walk.cur \in Nat
      BY PriorityFacts
    <3>2. CASE p < walk.cur
      BY <1>1, <3>2 DEF Searched
    <3>3. CASE p = walk.cur
      BY <1>2, <3>3
    <3>4. CASE walk.cur < p
      BY <1>1, <2>2, <2>3, <3>4 DEF Reachable
    <3> QED
      BY <3>1, <3>2, <3>3, <3>4
  <2>4. /\ walk'.cur = n /\ LinkedIn(next_nonempty)' = LinkedIn(next_nonempty) /\ Barred' = Barred
    BY <1>2, <1>4 DEF n, LinkedIn, Barred
  <2>5. \A p \in Priorities : LeftOf(data[p], walk.before[p], Barred)
    BY <1>1 DEF Searched
  <2> QED
    BY <1>2, <1>4, <2>2, <2>3, <2>4, <2>5 DEF Searched
<1>6. FoundBest'
  BY <1>4 DEF FoundBest
<1>7. \E D \in [Nat -> [Priorities -> Seq(Threads)]] : Trail(D)'
  <2>1. PICK D \in [Nat -> [Priorities -> Seq(Threads)]] : Trail(D)
    BY SearchFacts
  <2>2. Out' = Out /\ (Popped' <=> Popped)
    BY <1>2, <1>4 DEF Out, Popped
  <2>3. Trail(D)'
    BY <1>2, <1>4, <2>1, <2>2 DEF Trail
  <2> QED
    BY <2>3
<1> QED
  BY <1>2, <1>3, <1>4, <1>5, <1>6, <1>7, SearchKeeps

(* What is below a priority is one.                                                           *)
LEMMA LesserPriority == \A q \in Priorities : \A p \in 0 .. q - 1 : p \in Priorities /\ p < q
BY PriorityFacts DEF Priorities

(* The front thread is the one to run, or it is barred and skipped.                           *)
LEMMA PopFrontSearches ==
  ASSUME ReadyInv, SearchInv, walk # Null, walk.op = "pop", Within, walk.cur \in Priorities, PopFront,
         UNCHANGED <<first, next_nonempty, threads, saved>>
  PROVE  SearchInv' /\ walk' # Null /\ walk'.before = walk.before
<1>1. /\ walk \in Walks /\ ListInv /\ Searched /\ walk.before \in [Priorities -> Seq(Threads)]
      /\ walk.skipped \in Seq(Priorities \X Threads) /\ Found
      /\ data \in [Priorities -> Seq(Threads)] /\ current_priority \in [Threads -> Priorities]
      /\ Reachable(next_nonempty, data, status, current_priority)
      /\ QueuesHold(data, ReadyBut(status, current_priority, Away))
      /\ WalkInside /\ current_thread \in Threads \cup {Null}
  BY WalkFacts, SearchFacts
<1> DEFINE q == walk.cur
           t == Head(data[q])
           n == Len(walk.skipped)
           e == [data EXCEPT ![q] = Tail(@)]
<1>2. /\ data[q] # <<>> /\ data' = e /\ q \in Priorities
      /\ walk' = IF CanSchedule(t)
                 THEN [walk EXCEPT !.op = "restore", !.it = Len(walk.skipped), !.next = t]
                 ELSE [walk EXCEPT !.skipped = Append(@, <<q, t>>), !.cur = first]
      /\ UNCHANGED <<first, next_nonempty, status, current_priority, unschedule_mode,
                     current_thread, saved>>
  BY DEF PopFront, threads
<1>3. t \in Threads /\ status[t] = "Ready" /\ current_priority[t] = q /\ t # Null
  <2>1. Lists(data[q], ReadyBut(status, current_priority, Away)[q]) /\ data[q] \in Seq(Threads)
    BY <1>1, <1>2 DEF QueuesHold
  <2>2. t \in ReadyBut(status, current_priority, Away)[q]
    BY <1>2, <2>1, ListsTail
  <2> QED
    BY <1>2, <2>2, PointersAssumption DEF ReadyBut, ReadyAt
<1>4. PICK D \in [Nat -> [Priorities -> Seq(Threads)]] : Trail(D)
  BY SearchFacts
<1>5. n \in Nat /\ walk.next = Null /\ ~Popped /\ Out = n /\ data = D[n] /\ D[0] = walk.before
  <2>1. n \in Nat
    BY <1>1
  <2>2. walk.next = Null
    BY <1>1 DEF Found
  <2>3. ~Popped /\ Out = n
    BY <2>2 DEF Popped, Out
  <2> QED
    BY <1>4, <2>1, <2>2, <2>3 DEF Trail
<1>a. DOMAIN walk.skipped = 1 .. n
  BY <1>1
<1> HIDE DEF n
<1>6. \A i \in 1 .. n : D[i - 1] = push_front(D[i], walk.skipped[i][1], walk.skipped[i][2])
  BY <1>4, <1>a DEF Trail
<1>7. e \in [Priorities -> Seq(Threads)] /\ push_front(e, q, t) = data /\ remove(data, q, t) = e
      /\ \A p \in Priorities : e[p] = IF p = q THEN Tail(data[q]) ELSE data[p]
  <2>1. e \in [Priorities -> Seq(Threads)] /\ push_front(e, q, t) = data /\ remove(data, q, t) = e
    BY <1>1, <1>2, PopPush
  <2> QED
    BY <1>1, <1>2, <2>1
<1>8. /\ \A p \in Priorities : LeftOf(data[p], walk.before[p], Barred)
      /\ \A p \in Priorities : p < q => data[p] = <<>>
      /\ \A p \in Priorities : data[p] \in Seq(Threads) /\ walk.before[p] \in Seq(Threads)
      /\ Barred' = Barred
  BY <1>1, <1>2 DEF Searched, Barred
<1> HIDE DEF t, n, e, q
<1>9. CASE CanSchedule(t)
  <2>1. walk' = [walk EXCEPT !.op = "restore", !.it = n, !.next = t]
    BY <1>2, <1>9 DEF n
  <2>2. /\ walk'.op = "restore" /\ walk'.better = walk.better /\ walk'.skipped = walk.skipped
        /\ walk'.it = n /\ walk'.next = t /\ walk'.before = walk.before
    BY <1>1, <2>1 DEF Walks
  <2>3. walk' # Null
    <3>1. walk' \in Walks
      BY <1>1, <1>3, <1>5, <2>1 DEF Walks
    <3> QED
      BY <3>1, PointersAssumption
  <2>4. Popped' /\ Out' = n
    BY <1>2, <1>3, <2>2 DEF Popped, Out
  <2>5. Searched'
    BY <2>2 DEF Searched
  <2>6. PICK m \in DOMAIN walk.before[q] :
          walk.before[q][m] = t /\ \A j \in 1 .. m - 1 : walk.before[q][j] \in Barred
    BY <1>2, <1>8, LeftHead DEF t
  <2>7. FirstBut(walk.before, q, m, Barred)
    <3>1. t \notin Barred
      BY <1>9 DEF CanSchedule, Barred, Unscheduled
    <3>2. ASSUME NEW p \in 0 .. q - 1 PROVE Range(walk.before[p]) \subseteq Barred
      <4>1. p \in Priorities /\ p < q
        BY <1>2, LesserPriority, Zenon
      <4>2. LeftOf(<<>>, walk.before[p], Barred) /\ walk.before[p] \in Seq(Threads)
        BY <1>8, <4>1
      <4> QED
        BY <4>2, LeftNothing
    <3> QED
      BY <2>6, <3>1, <3>2 DEF FirstBut
  <2>8. walk.better => q < current_priority[current_thread]
    <3>1. ASSUME walk.better PROVE q \in 0 .. current_priority[current_thread] - 1
      BY <1>2, <3>1, PriorityFacts DEF Within, q
    <3>2. walk.better => current_priority[current_thread] \in Nat
      BY <1>1, PriorityFacts DEF WalkInside
    <3> QED
      BY <1>2, <3>1, <3>2, PriorityFacts
  <2>9. FoundBest'
    <3>1. walk'.next = t /\ current_priority'[walk'.next] = q
      BY <1>2, <1>3, <2>2
    <3>2. walk'.better => q < current_priority'[current_thread']
      <4>1. current_priority' = current_priority /\ current_thread' = current_thread
        BY <1>2
      <4> QED
        BY <2>2, <2>8, <4>1
    <3>3. Better(current_priority[walk.next])'
      BY <3>1, <3>2 DEF Better
    <3>4. /\ m \in DOMAIN walk'.before[current_priority'[walk'.next]]
          /\ walk'.before[current_priority'[walk'.next]][m] = walk'.next
          /\ FirstBut(walk'.before, current_priority'[walk'.next], m, Barred')
      BY <1>8, <2>2, <2>6, <2>7, <3>1
    <3> QED
      BY <2>2, <2>4, <3>3, <3>4 DEF FoundBest
  <2>10. Trail(D)'
    <3>1. data' = remove(D[n], current_priority[t], t)
      BY <1>2, <1>3, <1>5, <1>7
    <3>2. \A i \in DOMAIN walk.skipped : D[i - 1] = push_front(D[i], walk.skipped[i][1], walk.skipped[i][2])
      BY <1>4 DEF Trail
    <3> QED
      BY <1>2, <1>5, <2>2, <2>4, <3>1, <3>2 DEF Trail
  <2> QED
    BY <1>2, <2>2, <2>3, <2>5, <2>9, <2>10, SearchKeeps
<1>10. CASE ~CanSchedule(t)
  <2>0. <<q, t>> \in Priorities \X Threads
    BY <1>2, <1>3
  <2>a. PICK k \in Seq(Priorities \X Threads) :
          /\ k = Append(walk.skipped, <<q, t>>) /\ Len(k) = n + 1 /\ DOMAIN k = 1 .. n + 1
          /\ \A i \in 1 .. n : k[i] = walk.skipped[i]
          /\ k[n + 1] = <<q, t>>
    <3>1. PICK z \in Seq(Priorities \X Threads) : z = walk.skipped
      BY <1>1
    <3>2. PICK x \in Priorities \X Threads : x = <<q, t>>
      BY <2>0
    <3>3. Len(z) = n /\ n \in Nat
      BY <1>5, <3>1 DEF n
    <3>4. /\ Append(z, x) \in Seq(Priorities \X Threads) /\ Len(Append(z, x)) = n + 1
          /\ (\A i \in 1 .. n : Append(z, x)[i] = z[i]) /\ Append(z, x)[n + 1] = x
      <4>1. /\ Append(z, x) \in Seq(Priorities \X Threads) /\ Len(Append(z, x)) = Len(z) + 1
            /\ (\A i \in 1 .. Len(z) : Append(z, x)[i] = z[i]) /\ Append(z, x)[Len(z) + 1] = x
        OBVIOUS
      <4> QED
        BY <3>3, <4>1, Zenon
    <3>5. DOMAIN Append(z, x) = 1 .. n + 1
      BY <3>3, <3>4
    <3> QED
      BY <3>1, <3>2, <3>4, <3>5, Zenon
  <2>1. walk' = [walk EXCEPT !.skipped = k, !.cur = first]
    BY <1>2, <1>10, <2>a
  <2>2. /\ k \in Seq(Priorities \X Threads) /\ Len(k) = n + 1 /\ DOMAIN k = 1 .. n + 1
        /\ (\A i \in 1 .. n : k[i] = walk.skipped[i]) /\ k[n + 1] = <<q, t>>
    BY <2>a
  <2>3. walk' # Null
    <3>1. first \in Pointers
      BY <1>1 DEF ListInv, ListTypes, Pointers
    <3>2. walk' \in Walks
      BY <1>1, <2>1, <2>2, <3>1 DEF Walks
    <3> QED
      BY <3>2, PointersAssumption
  <2>4. /\ walk'.op = "pop" /\ walk'.better = walk.better /\ walk'.skipped = k
        /\ walk'.cur = first /\ walk'.next = Null /\ walk'.before = walk.before
    BY <1>1, <1>5, <2>1 DEF Walks
  <2>5. ~Popped' /\ Out' = n + 1
    BY <2>2, <2>4 DEF Popped, Out
  <2>6. FoundBest'
    BY <2>4 DEF FoundBest
  <2>7. Searched'
    <3>1. first \in LinkedIn(next_nonempty) \cup {nullptr}
      BY <1>1, FirstLinked
    <3>2. ASSUME NEW p \in Priorities, first = nullptr \/ p < first PROVE e[p] = <<>>
      <4>1. data[p] = <<>>
        BY <1>1, <3>2, FirstLinked DEF Reachable
      <4>2. p # q
        BY <1>2, <4>1
      <4> QED
        BY <1>7, <4>1, <4>2
    <3>3. ASSUME NEW p \in Priorities PROVE LeftOf(e[p], walk.before[p], Barred)
      <4>1. CASE p = q
        <5>1. Head(data[q]) \in Barred
          BY <1>3, <1>10 DEF CanSchedule, Barred, Unscheduled, t
        <5>2. LeftOf(Tail(data[q]), walk.before[q], Barred)
          BY <1>2, <1>8, <5>1, LeftTail
        <5> QED
          BY <1>7, <4>1, <5>2
      <4>2. CASE p # q
        BY <1>7, <1>8, <4>2
      <4> QED
        BY <4>1, <4>2
    <3>4. LinkedIn(next_nonempty)' = LinkedIn(next_nonempty)
      BY <1>2 DEF LinkedIn
    <3> QED
      BY <1>2, <1>8, <2>4, <3>1, <3>2, <3>3, <3>4 DEF Searched
  <2>b. PICK F \in [Nat -> [Priorities -> Seq(Threads)]] : Extends(F, D, n, e)
    <3>1. n \in Nat /\ e \in [Priorities -> Seq(Threads)]
      BY <1>5, <1>7
    <3> QED
      BY <3>1, OneMoreStep, Zenon
  <2>8. F[n + 1] = e /\ \A i \in 0 .. n : F[i] = D[i]
    BY <2>b DEF Extends
  <2>9. Trail(F)'
    <3>0. n \in Nat /\ data = D[n]
      BY <1>5
    <3>1. F[0] = walk.before /\ F[n + 1] = e
      <4>1. 0 \in 0 .. n
        BY <3>0
      <4> QED
        BY <1>5, <2>8, <4>1, Zenon
    <3>2. ASSUME NEW i \in 1 .. n + 1 PROVE F[i - 1] = push_front(F[i], k[i][1], k[i][2])
      <4>1. CASE i = n + 1
        <5>1. n \in 0 .. n /\ (n + 1) - 1 = n
          BY <3>0
        <5>2. F[i - 1] = data /\ F[i] = e
          BY <2>8, <3>0, <4>1, <5>1, Zenon
        <5>3. k[i][1] = q /\ k[i][2] = t
          <6>1. k[i] = <<q, t>>
            BY <2>2, <4>1, Zenon
          <6> QED
            BY <6>1
        <5> QED
          BY <1>7, <5>2, <5>3
      <4>2. CASE i # n + 1
        <5>1. i \in 1 .. n /\ i \in 0 .. n /\ i - 1 \in 0 .. n
          BY <3>0, <4>2
        <5>2. F[i - 1] = D[i - 1] /\ F[i] = D[i] /\ k[i] = walk.skipped[i]
          BY <2>2, <2>8, <5>1, Zenon
        <5> QED
          BY <1>6, <5>1, <5>2
      <4> QED
        BY <4>1, <4>2
    <3>3. \A i \in DOMAIN k : F[i - 1] = push_front(F[i], k[i][1], k[i][2])
      BY <2>2, <3>2, Zenon
    <3>4. data' = F[Out'] /\ walk'.skipped = k /\ walk'.before = F[0] /\ ~Popped'
      BY <1>2, <2>4, <2>5, <3>1, Zenon
    <3> QED
      BY <3>3, <3>4, Zenon DEF Trail
  <2> QED
    BY <1>2, <2>3, <2>4, <2>6, <2>7, <2>8, <2>9, SearchKeeps
<1> QED
  BY <1>9, <1>10

(* Nothing better is left: every queue that was looked at holds barred threads only.          *)
LEMMA WalkEndsSearches ==
  ASSUME ReadyInv, SearchInv, WalkEnds
  PROVE  SearchInv' /\ walk' # Null /\ walk'.before = walk.before
<1>0. walk # Null /\ walk.op = "pop" /\ ~Within
  BY DEF WalkEnds
<1>1. /\ walk \in Walks /\ Searched /\ walk.before \in [Priorities -> Seq(Threads)]
      /\ walk.skipped \in Seq(Priorities \X Threads) /\ Found /\ WalkInside
      /\ current_thread \in Threads \cup {Null} /\ current_priority \in [Threads -> Priorities]
  BY <1>0, WalkFacts, SearchFacts
<1> DEFINE n == Len(walk.skipped)
           new == IF walk.better THEN current_thread ELSE Null
<1>2. /\ walk' = [walk EXCEPT !.op = "restore", !.it = n, !.next = new]
      /\ UNCHANGED <<first, next_nonempty, data, status, current_priority, unschedule_mode,
                     current_thread, saved>>
  BY DEF WalkEnds, queues, threads
<1>3. /\ n \in Nat /\ walk.next = Null /\ new \in Threads \cup {Null}
      /\ new # Null => status[new] = "Running"
  BY <1>0, <1>1 DEF Found, WalkInside
<1> HIDE DEF new
<1>4. walk' # Null
  <2>1. walk' \in Walks
    BY <1>1, <1>2, <1>3 DEF Walks
  <2> QED
    BY <2>1, PointersAssumption
<1>5. /\ walk'.op = "restore" /\ walk'.better = walk.better /\ walk'.skipped = walk.skipped
      /\ walk'.it = n /\ walk'.next = new /\ walk'.before = walk.before
  BY <1>1, <1>2 DEF Walks
<1> HIDE DEF n
<1>6. ~Popped' /\ Out' = n /\ ~Popped /\ Out = n
  BY <1>0, <1>2, <1>3, <1>5 DEF Popped, Out, n
<1>7. Searched'
  BY <1>5 DEF Searched
<1>8. ASSUME NEW p \in Priorities, Better(p) PROVE Range(walk.before[p]) \subseteq Barred
  <2>1. walk.cur = nullptr \/ p < walk.cur
    <3>1. CASE walk.better
      <4>1. /\ walk.cur \in Nat /\ current_priority[current_thread] \in Nat /\ p \in Nat
            /\ walk.cur \notin 0 .. current_priority[current_thread] - 1
            /\ p < current_priority[current_thread]
        BY <1>0, <1>1, <1>8, <3>1, PriorityFacts DEF WalkInside, Within, LinkedIn, Better
      <4> QED
        BY <4>1
    <3>2. CASE ~walk.better
      BY <1>0, <3>2 DEF Within
    <3> QED
      BY <3>1, <3>2
  <2>2. data[p] = <<>> /\ LeftOf(data[p], walk.before[p], Barred)
    BY <1>0, <1>1, <2>1 DEF Searched
  <2>3. walk.before[p] \in Seq(Threads)
    BY <1>1
  <2> QED
    BY <2>2, <2>3, LeftNothing
<1>9. FoundBest'
  <2>1. Barred' = Barred /\ walk'.next = IF walk'.better THEN current_thread' ELSE Null
    BY <1>2, <1>5 DEF Barred, new
  <2>2. \A p \in Priorities : Better(p)' <=> Better(p)
    BY <1>2, <1>5 DEF Better
  <2>3. \A p \in Priorities : Better(p)' => Range(walk'.before[p]) \subseteq Barred'
    BY <1>5, <1>8, <2>1, <2>2
  <2> QED
    BY <1>6, <2>1, <2>3 DEF FoundBest
<1>10. \E D \in [Nat -> [Priorities -> Seq(Threads)]] : Trail(D)'
  <2>1. PICK D \in [Nat -> [Priorities -> Seq(Threads)]] : Trail(D)
    BY <1>0, SearchFacts
  <2>2. Trail(D)'
    BY <1>2, <1>5, <1>6, <2>1 DEF Trail
  <2> QED
    BY <2>2
<1> QED
  BY <1>0, <1>2, <1>4, <1>5, <1>7, <1>9, <1>10, SearchKeeps

(* A skipped thread that goes back is one step back on the trail.                             *)
LEMMA RestoreSearches ==
  ASSUME ReadyInv, SearchInv, RestoreSkipped
  PROVE  SearchInv' /\ walk' # Null /\ walk'.before = walk.before
<1>0. walk # Null /\ walk.op = "restore" /\ walk.it > 0
  BY DEF RestoreSkipped
<1>1. /\ walk \in Walks /\ FoundBest /\ walk.before \in [Priorities -> Seq(Threads)]
      /\ walk.skipped \in Seq(Priorities \X Threads) /\ Found /\ TakenReady /\ walk.it \in Nat
      /\ current_priority \in [Threads -> Priorities] /\ walk.next \in Threads \cup {Null}
  BY <1>0, WalkFacts, SearchFacts
<1> DEFINE n == walk.it
           p == walk.skipped[n][1]
           t == walk.skipped[n][2]
           r == current_priority[walk.next]
<1>2. /\ data' = push_front(data, p, t) /\ walk' = [walk EXCEPT !.it = n - 1]
      /\ UNCHANGED <<first, next_nonempty, status, current_priority, unschedule_mode,
                     current_thread, saved>>
  BY DEF RestoreSkipped, threads
<1>3. n \in Nat /\ n - 1 \in Nat /\ n \in DOMAIN walk.skipped /\ n \in Taken
  BY <1>0, <1>1 DEF Found, Taken
<1>4. p \in Priorities /\ t \in Threads /\ t # walk.next
  BY <1>1, <1>3 DEF TakenReady
<1>5. walk' # Null
  <2>1. walk' \in Walks
    BY <1>1, <1>2, <1>3 DEF Walks
  <2> QED
    BY <2>1, PointersAssumption
<1>6. /\ walk'.op = "restore" /\ walk'.better = walk.better /\ walk'.skipped = walk.skipped
      /\ walk'.it = n - 1 /\ walk'.next = walk.next /\ walk'.before = walk.before
  BY <1>0, <1>1, <1>2 DEF Walks
<1> HIDE DEF n, p, t, r
<1>7. (Popped' <=> Popped) /\ Out' = n - 1 /\ Out = n
  BY <1>0, <1>2, <1>6 DEF Popped, Out, n
<1>8. Searched'
  BY <1>6 DEF Searched
<1>9. FoundBest'
  <2>1. Barred' = Barred /\ \A q : Better(q)' <=> Better(q)
    BY <1>2, <1>6 DEF Barred, Better
  <2>2. current_priority' = current_priority /\ current_thread' = current_thread
    BY <1>2
  <2>3. Better(current_priority[walk.next])' <=> Better(current_priority[walk.next])
    BY <1>6, <2>1, <2>2 DEF Better
  <2> QED
    BY <1>0, <1>1, <1>6, <1>7, <2>1, <2>2, <2>3 DEF FoundBest
<1>10. \E D \in [Nat -> [Priorities -> Seq(Threads)]] : Trail(D)'
  <2>1. PICK D \in [Nat -> [Priorities -> Seq(Threads)]] : Trail(D)
    BY <1>0, SearchFacts
  <2>2. /\ D[0] = walk.before /\ D[n - 1] = push_front(D[n], p, t)
        /\ data = IF Popped THEN remove(D[n], r, walk.next) ELSE D[n]
    BY <1>3, <1>7, <2>1 DEF Trail, p, t, r
  <2>3. data' = IF Popped THEN remove(D[n - 1], r, walk.next) ELSE D[n - 1]
    <3>1. CASE Popped
      <4>1. D[n] \in [Priorities -> Seq(Threads)] /\ r \in Priorities
        BY <1>1, <1>3, <3>1 DEF Popped, r
      <4>2. ChangePlaces(D[n], r, walk.next, p, t)
        BY <1>4, <4>1, PlacesChange, Zenon
      <4>3. push_front(remove(D[n], r, walk.next), p, t) = remove(push_front(D[n], p, t), r, walk.next)
        BY <4>2, Zenon DEF ChangePlaces
      <4> QED
        BY <1>2, <2>2, <3>1, <4>3
    <3>2. CASE ~Popped
      BY <1>2, <2>2, <3>2
    <3> QED
      BY <3>1, <3>2
  <2>4. \A i \in DOMAIN walk.skipped :
          D[i - 1] = push_front(D[i], walk.skipped[i][1], walk.skipped[i][2])
    BY <2>1 DEF Trail
  <2>5. current_priority'[walk'.next] = r /\ walk'.next = walk.next
    BY <1>2, <1>6 DEF r
  <2>6. Trail(D)'
    BY <1>6, <1>7, <2>2, <2>3, <2>4, <2>5 DEF Trail
  <2> QED
    BY <2>6
<1> QED
  BY <1>0, <1>2, <1>5, <1>6, <1>8, <1>9, <1>10, SearchKeeps

(* The steps of the walk keep the search, and the queues it started from.                     *)
LEMMA WalkSearches ==
  ASSUME ReadyInv, SearchInv, WalkStep \/ WalkEnds \/ RestoreSkipped
  PROVE  SearchInv' /\ walk # Null /\ walk' # Null /\ walk'.before = walk.before
<1>1. CASE WalkStep
  <2>1. /\ walk # Null /\ walk.op = "pop" /\ Within /\ walk.cur \in Priorities
        /\ UNCHANGED <<first, next_nonempty, threads, saved>> /\ (NextQueue \/ PopFront)
    BY <1>1 DEF WalkStep
  <2> QED
    BY <2>1, NextQueueSearches, PopFrontSearches
<1>2. CASE WalkEnds
  <2>1. walk # Null
    BY <1>2 DEF WalkEnds
  <2> QED
    BY <1>2, <2>1, WalkEndsSearches
<1>3. CASE RestoreSkipped
  <2>1. walk # Null
    BY <1>3 DEF RestoreSkipped
  <2> QED
    BY <1>3, <2>1, RestoreSearches
<1> QED
  BY <1>1, <1>2, <1>3

(* A reschedule starts a search; the debugger does when it changed a mode.                    *)
LEMMA SearchStarts ==
  ASSUME ReadyInv, Reschedule \/ \E ts \in SUBSET Threads, set \in BOOLEAN : ChangeUnscheduleMode(ts, set)
  PROVE  /\ SearchInv' /\ walk = Null /\ (walk' # Null => walk'.before = data)
         /\ UNCHANGED <<data, status, current_priority, current_thread, saved>>
<1>1. /\ walk = Null
      /\ UNCHANGED <<first, next_nonempty, data, status, current_priority, current_thread, saved>>
      /\ StartWalk(unschedule_mode') \/ walk' = Null
  BY DEF Reschedule, ChangeUnscheduleMode, Idle, queues, threads
<1>2. CASE walk' = Null
  BY <1>1, <1>2 DEF SearchInv
<1>3. CASE StartWalk(unschedule_mode')
  BY <1>1, <1>3, StartSearches
<1> QED
  BY <1>1, <1>2, <1>3

(* Every step keeps the search: the others happen outside a reschedule, or end it.            *)
LEMMA NextSearches == ReadyInv /\ SearchInv /\ [Next]_vars => SearchInv'
<1> SUFFICES ASSUME ReadyInv, SearchInv, [Next]_vars PROVE SearchInv'
  OBVIOUS
<1>1. CASE walk' = Null
  BY <1>1 DEF SearchInv
<1>2. CASE WalkStep \/ WalkEnds \/ RestoreSkipped
  BY <1>2, WalkSearches
<1>3. CASE Reschedule \/ \E ts \in SUBSET Threads, set \in BOOLEAN : ChangeUnscheduleMode(ts, set)
  BY <1>3, SearchStarts
<1>4. CASE UNCHANGED vars
  <2>1. UNCHANGED <<first, next_nonempty, data, status, current_priority, unschedule_mode,
                    current_thread, walk, saved>>
    BY <1>4 DEF vars, queues, threads
  <2>2. GoesOn' = GoesOn /\ Searched' = Searched /\ FoundBest' = FoundBest /\ Popped' = Popped
        /\ Out' = Out /\ Barred' = Barred
    BY <2>1 DEF GoesOn, Searched, FoundBest, Popped, Better, Out, Barred
  <2>3. ASSUME NEW D, Trail(D) PROVE Trail(D)'
    BY <2>1, <2>2, <2>3 DEF Trail
  <2> QED
    BY <2>1, <2>2, <2>3 DEF SearchInv
<1>5. \/ \E t \in Threads, p \in Priorities :
           (\E make_ready \in BOOLEAN : Create(t, p, make_ready)) \/ SetPriority(t, p)
      \/ \E t \in Threads : ResumeFromWait(t) \/ Stop(t)
      \/ WaitCurrentThread \/ SwitchContext \/ Save \/ Load
      \/ \E ts \in SUBSET Threads, set \in BOOLEAN : ControlProcess(ts, set)
      => walk' = Null
  BY DEF Create, SetPriority, ResumeFromWait, Stop, WaitCurrentThread, SwitchContext, Save, Load,
         ControlProcess, Idle
<1> QED
  BY <1>1, <1>2, <1>3, <1>4, <1>5 DEF Next

(* At first no search is under way.                                                           *)
LEMMA InitSearch == Init => SearchInv
BY DEF Init, SearchInv

-----------------------------------------------------------------------------
(* Each step as a step of PriorityScheduler *)

\* What the abstract scheduler sees of the steps that change queues and threads only
AbstractKeeps ==
  Unscheduled(unschedule_mode)' = Unscheduled(unschedule_mode) /\ AbstractSaved' = AbstractSaved

(* The instance has its own names for the operators on sequences.                             *)
LEMMA SameOperators ==
  /\ \A q, x : Abstract!RemoveFirst(q, x) = RemoveFirst(q, x)
  /\ \A q : Abstract!Range(q) = Range(q)
BY DEF Abstract!RemoveFirst, RemoveFirst, Abstract!RemoveAt, RemoveAt, Abstract!SelectInSeq,
       SelectInSeq, Abstract!Min, Min, Abstract!Range, Range

(* Outside a reschedule the abstract queues are the queues.                                   *)
LEMMA IdleReady == walk = Null => AbstractReady = data
BY DEF AbstractReady

(* Modes and save states that do not change do not change for the abstract scheduler.         *)
LEMMA KeepsAbstract == UNCHANGED <<unschedule_mode, saved>> => AbstractKeeps
BY DEF AbstractKeeps, AbstractSaved, Unscheduled

(* Creating a thread.                                                                         *)
LEMMA CreateStep ==
  ASSUME NEW t \in Threads, NEW p \in Priorities, NEW make_ready \in BOOLEAN, Create(t, p, make_ready)
  PROVE  Abstract!Create(t, p, make_ready)
<1>1. /\ status[t] = "Unborn" /\ AbstractReady = data /\ AbstractReady' = data'
      /\ status' = [status EXCEPT ![t] = IF make_ready THEN "Ready" ELSE "Waiting"]
      /\ current_priority' = [current_priority EXCEPT ![t] = p]
      /\ data' = IF make_ready THEN push_back(data, p, t) ELSE data
      /\ UNCHANGED <<unschedule_mode, current_thread, saved>>
  BY DEF Create, Idle, AbstractReady
<1>2. AbstractKeeps
  BY <1>1, KeepsAbstract
<1> QED
  BY <1>1, <1>2 DEF Abstract!Create, AbstractKeeps, push_back

(* Changing a priority.                                                                       *)
LEMMA SetPriorityStep ==
  ASSUME NEW t \in Threads, NEW p \in Priorities, SetPriority(t, p)
  PROVE  Abstract!SetPriority(t, p)
<1>1. /\ status[t] \in {"Ready", "Running", "Waiting"} /\ AbstractReady = data /\ AbstractReady' = data'
      /\ current_priority' = [current_priority EXCEPT ![t] = p]
      /\ data' = IF status[t] = "Ready"
                 THEN push_back(remove(data, current_priority[t], t), p, t)
                 ELSE data
      /\ UNCHANGED <<status, unschedule_mode, current_thread, saved>>
  BY DEF SetPriority, Idle, AbstractReady
<1>2. AbstractKeeps
  BY <1>1, KeepsAbstract
<1> QED
  BY <1>1, <1>2, SameOperators DEF Abstract!SetPriority, Abstract!Without, AbstractKeeps, push_back, remove

(* A waiting thread becomes ready.                                                            *)
LEMMA ResumeStep ==
  ASSUME NEW t \in Threads, ResumeFromWait(t)
  PROVE  Abstract!Resume(t)
<1>1. /\ status[t] = "Waiting" /\ AbstractReady = data /\ AbstractReady' = data'
      /\ status' = [status EXCEPT ![t] = "Ready"]
      /\ data' = push_back(data, current_priority[t], t)
      /\ UNCHANGED <<current_priority, unschedule_mode, current_thread, saved>>
  BY DEF ResumeFromWait, Idle, AbstractReady
<1>2. AbstractKeeps
  BY <1>1, KeepsAbstract
<1> QED
  BY <1>1, <1>2 DEF Abstract!Resume, AbstractKeeps, push_back

(* The current thread begins to wait.                                                        *)
LEMMA BlockStep ==
  ASSUME WaitCurrentThread
  PROVE  Abstract!Block
<1>1. /\ current_thread # Null /\ status[current_thread] = "Running" /\ AbstractReady' = AbstractReady
      /\ status' = [status EXCEPT ![current_thread] = "Waiting"]
      /\ UNCHANGED <<current_priority, unschedule_mode, current_thread, saved>>
  BY DEF WaitCurrentThread, Idle, AbstractReady, queues
<1>2. AbstractKeeps
  BY <1>1, KeepsAbstract
<1> QED
  BY <1>1, <1>2 DEF Abstract!Block, AbstractKeeps

(* Stopping a thread.                                                                         *)
LEMMA StopStep ==
  ASSUME NEW t \in Threads, Stop(t)
  PROVE  Abstract!Stop(t)
<1>1. /\ status[t] \in {"Ready", "Running", "Waiting"} /\ AbstractReady = data /\ AbstractReady' = data'
      /\ status' = [status EXCEPT ![t] = "Dead"]
      /\ data' = IF status[t] = "Ready" THEN remove(data, current_priority[t], t) ELSE data
      /\ UNCHANGED <<current_priority, unschedule_mode, current_thread, saved>>
  BY DEF Stop, Idle, AbstractReady
<1>2. AbstractKeeps
  BY <1>1, KeepsAbstract
<1> QED
  BY <1>1, <1>2, SameOperators DEF Abstract!Stop, Abstract!Without, AbstractKeeps, remove

(* The turns of a search are invisible.                                                       *)
LEMMA SearchStep ==
  ASSUME ReadyInv, SearchInv, WalkStep \/ WalkEnds \/ RestoreSkipped
  PROVE  UNCHANGED Abstract!vars
<1>1. AbstractReady' = AbstractReady
  BY WalkSearches DEF AbstractReady
<1>2. UNCHANGED <<status, current_priority, unschedule_mode, current_thread, saved>>
  BY DEF WalkStep, WalkEnds, RestoreSkipped, threads
<1>3. AbstractKeeps
  BY <1>2, KeepsAbstract
<1> QED
  BY <1>1, <1>2, <1>3 DEF Abstract!vars, AbstractKeeps

(* What may change modes changes nothing else: a search starts from the queues as they are.    *)
LEMMA ModesStep ==
  ASSUME ReadyInv,
         \/ Reschedule
         \/ \E ts \in SUBSET Threads, set \in BOOLEAN :
              ControlProcess(ts, set) \/ ChangeUnscheduleMode(ts, set)
  PROVE  Abstract!SetModes
<1>1. AbstractReady' = AbstractReady /\ UNCHANGED <<status, current_priority, current_thread, saved>>
  <2>1. CASE Reschedule \/ \E ts \in SUBSET Threads, set \in BOOLEAN : ChangeUnscheduleMode(ts, set)
    BY <2>1, SearchStarts DEF AbstractReady
  <2>2. CASE \E ts \in SUBSET Threads, set \in BOOLEAN : ControlProcess(ts, set)
    BY <2>2 DEF ControlProcess, AbstractReady, queues
  <2> QED
    BY <2>1, <2>2
<1>2. AbstractSaved' = AbstractSaved
  BY <1>1 DEF AbstractSaved
<1>3. Unscheduled(unschedule_mode)' \in SUBSET Threads
  BY DEF Unscheduled
<1> QED
  BY <1>1, <1>2, <1>3 DEF Abstract!SetModes

(* Saving.                                                                                    *)
LEMMA SaveStep ==
  ASSUME ReadyInv, Save
  PROVE  Abstract!Save
<1>1. /\ walk = Null /\ walk' = Null
      /\ saved' = [first |-> ToIndex(first), next |-> [p \in Priorities |-> ToIndex(next_nonempty[p])],
                   data |-> data, threads |-> threads]
      /\ UNCHANGED <<data, status, current_priority, unschedule_mode, current_thread>>
  BY DEF Save, Idle, queues, threads
<1>2. Now
  BY <1>1, IdleIsConsistent
<1>3. saved' # Null
  <2>1. \A q \in Pointers : ToIndex(q) \in Int
    BY PriorityFacts DEF Pointers, ToIndex
  <2>2. first \in Pointers /\ next_nonempty \in [Priorities -> Pointers]
    BY <1>2 DEF Now, Consistent, ListTypes, Pointers
  <2>3. threads \in [Threads -> Status] \X [Threads -> Priorities] \X [Threads -> SUBSET Modes]
                    \X (Threads \cup {Null})
    BY <1>2, NowFacts DEF threads
  <2>4. ToIndex(first) \in Int /\ [p \in Priorities |-> ToIndex(next_nonempty[p])] \in [Priorities -> Int]
    BY <2>1, <2>2
  <2>5. data \in [Priorities -> Seq(Threads)]
    BY <1>2, NowFacts
  <2>6. saved' \in Saves
    BY <1>1, <2>3, <2>4, <2>5 DEF Saves
  <2> QED
    BY <2>6, PointersAssumption
<1>4. AbstractSaved' = [ready |-> data, status |-> status, current_priority |-> current_priority,
                        unscheduled |-> Unscheduled(unschedule_mode), current_thread |-> current_thread]
  BY <1>1, <1>3 DEF AbstractSaved, threads
<1>5. AbstractReady = data /\ AbstractReady' = data
  BY <1>1 DEF AbstractReady
<1>6. Unscheduled(unschedule_mode)' = Unscheduled(unschedule_mode)
  BY <1>1 DEF Unscheduled
<1> QED
  BY <1>1, <1>4, <1>5, <1>6 DEF Abstract!Save

(* Loading.                                                                                   *)
LEMMA LoadStep ==
  ASSUME ReadyInv, Load
  PROVE  Abstract!Load
<1>1. /\ walk = Null /\ walk' = Null /\ saved # Null /\ saved' = saved
      /\ data' = saved.data /\ status' = saved.threads[1] /\ current_priority' = saved.threads[2]
      /\ unschedule_mode' = saved.threads[3] /\ current_thread' = saved.threads[4]
  BY DEF Load, Idle
<1>2. ThreadTypes(saved.data, saved.threads[1], saved.threads[2], saved.threads[3], saved.threads[4])
  BY <1>1 DEF ReadyInv, SavedConsistent, Consistent
<1>3. AbstractSaved = [ready |-> saved.data, status |-> saved.threads[1],
                       current_priority |-> saved.threads[2],
                       unscheduled |-> Unscheduled(saved.threads[3]),
                       current_thread |-> saved.threads[4]]
  BY <1>1 DEF AbstractSaved
<1>4. AbstractSaved # Null
  <2>1. AbstractSaved \in AbstractSaves
    BY <1>2, <1>3 DEF ThreadTypes, AbstractSaves, Unscheduled
  <2> QED
    BY <2>1, PointersAssumption
<1>5. AbstractReady' = saved.data /\ AbstractSaved' = AbstractSaved
  BY <1>1 DEF AbstractReady, AbstractSaved
<1>6. Unscheduled(unschedule_mode)' = Unscheduled(saved.threads[3])
  BY <1>1
<1> QED
  BY <1>1, <1>3, <1>4, <1>5, <1>6 DEF Abstract!Load

\* The switch, from queues b in which thread t still is
Switched(b, t) ==
  LET c == current_thread
      stays == c # Null /\ status[c] = "Running"
      put == IF stays THEN push_front(b, current_priority[c], c) ELSE b
      stopped == IF stays THEN [status EXCEPT ![c] = "Ready"] ELSE status
  IN /\ data' = IF t = Null THEN put ELSE remove(put, current_priority[t], t)
     /\ status' = IF t = Null THEN stopped ELSE [stopped EXCEPT ![t] = "Running"]
     /\ current_thread' = t

(* A thread that is not queued is not removed.                                                *)
LEMMA NothingToRemove ==
  ASSUME NEW d \in [Priorities -> Seq(Threads)], NEW r \in Priorities, NEW x, x \notin Range(d[r])
  PROVE  remove(d, r, x) = d
<1>1. d[r] \in Seq(Threads) /\ DOMAIN d[r] = 1 .. Len(d[r])
  OBVIOUS
<1>2. \A i \in 1 .. Len(d[r]) : d[r][i] # x
  BY <1>1 DEF Range
<1>3. RemoveFirst(d[r], x) = d[r]
  BY <1>1, <1>2, RemoveEnds
<1> QED
  BY <1>3 DEF remove

(* Pushing another thread queues no new one but it.                                           *)
LEMMA PushedAnother ==
  ASSUME NEW d \in [Priorities -> Seq(Threads)], NEW p \in Priorities, NEW r \in Priorities,
         NEW t \in Threads, NEW x, t # x, x \notin Range(d[r])
  PROVE  /\ push_front(d, p, t) \in [Priorities -> Seq(Threads)]
         /\ x \notin Range(push_front(d, p, t)[r])
<1>1. d[r] \in Seq(Threads) /\ <<t>> \in Seq(Threads) /\ <<t>> \o d[r] \in Seq(Threads)
  OBVIOUS
<1>2. Range(<<t>> \o d[r]) = Range(<<t>>) \cup Range(d[r])
  <2>1. \A X, Y \in Seq(Threads) : Range(X \o Y) = Range(X) \cup Range(Y)
    BY RangeConcat
  <2> QED
    BY <1>1, <2>1
<1>3. Range(<<t>>) = {t}
  BY RangeSingle
<1>4. x \notin Range(<<t>> \o d[r])
  BY <1>2, <1>3
<1>5. push_front(d, p, t)[r] = IF r = p THEN <<t>> \o d[r] ELSE d[r]
  BY DEF push_front
<1>6. push_front(d, p, t) \in [Priorities -> Seq(Threads)]
  BY DEF push_front
<1> QED
  BY <1>4, <1>5, <1>6

(* The switch is one from the queues before the search, whether the thread was popped or not. *)
LEMMA SwitchFromBefore ==
  ASSUME ReadyInv, SearchInv, SwitchContext
  PROVE  /\ walk # Null /\ walk.op = "restore" /\ walk' = Null
         /\ UNCHANGED <<current_priority, unschedule_mode, saved>>
         /\ Switched(walk.before, walk.next)
<1> DEFINE b == walk.before
           c == current_thread
           new == walk.next
           r == current_priority[new]
           pc == current_priority[c]
           stays == c # Null /\ status[c] = "Running"
           pushed == IF stays THEN push_front(data, pc, c) ELSE data
           put == IF stays THEN push_front(b, pc, c) ELSE b
           stopped == IF stays THEN [status EXCEPT ![c] = "Ready"] ELSE status
<1>1. walk # Null /\ walk.op = "restore" /\ walk.it = 0 /\ walk' = Null
  BY DEF SwitchContext
<1>2. /\ data' = IF new = Null THEN pushed ELSE remove(pushed, r, new)
      /\ status' = IF new = Null THEN stopped ELSE [stopped EXCEPT ![new] = "Running"]
      /\ current_thread' = new /\ UNCHANGED <<current_priority, unschedule_mode, saved>>
  BY DEF SwitchContext
<1>3. /\ b \in [Priorities -> Seq(Threads)] /\ data \in [Priorities -> Seq(Threads)]
      /\ new \in Threads \cup {Null} /\ c \in Threads \cup {Null}
      /\ current_priority \in [Threads -> Priorities]
      /\ QueuesHold(data, ReadyBut(status, current_priority, Away))
  BY <1>1, WalkFacts, SearchFacts
<1>4. data = IF Popped THEN remove(b, r, new) ELSE b
  <2>1. PICK D \in [Nat -> [Priorities -> Seq(Threads)]] : Trail(D)
    BY <1>1, SearchFacts
  <2>2. Out = 0
    BY <1>1 DEF Out
  <2> QED
    BY <2>1, <2>2 DEF Trail
<1>5. stays => c \in Threads /\ pc \in Priorities
  BY <1>3
<1> HIDE DEF b, pc, r, stopped
<1>6. CASE Popped
  <2>1. new \in Threads /\ r \in Priorities /\ new # Null /\ (stays => c # new)
    BY <1>3, <1>6 DEF Popped, r
  <2>2. new \notin Range(data[r])
    <3>1. new \in Away
      BY <1>1 DEF Away
    <3>2. Range(data[r]) = ReadyBut(status, current_priority, Away)[r]
      BY <1>3, <2>1 DEF QueuesHold, Lists
    <3> QED
      BY <2>1, <3>1, <3>2 DEF ReadyBut
  <2>3. remove(pushed, r, new) = pushed
    <3>1. CASE stays
      <4>1. pushed = push_front(data, pc, c)
        BY <3>1
      <4>2. c \in Threads /\ pc \in Priorities /\ c # new
        BY <1>5, <2>1, <3>1
      <4> HIDE DEF pushed, new, c, stays
      <4>3. pushed \in [Priorities -> Seq(Threads)] /\ new \notin Range(pushed[r])
        BY <1>3, <2>1, <2>2, <4>1, <4>2, PushedAnother
      <4> QED
        BY <2>1, <4>3, NothingToRemove
    <3>2. CASE ~stays
      BY <1>3, <2>1, <2>2, <3>2, NothingToRemove
    <3> QED
      BY <3>1, <3>2
  <2>4. pushed = remove(put, r, new)
    <3>1. CASE stays
      <4>1. /\ pushed = push_front(remove(b, r, new), pc, c) /\ put = push_front(b, pc, c)
            /\ c \in Threads /\ pc \in Priorities /\ c # new
        BY <1>4, <1>5, <1>6, <2>1, <3>1
      <4> HIDE DEF pushed, put, new, c, stays
      <4>2. ChangePlaces(b, r, new, pc, c)
        BY <1>3, <2>1, <4>1, PlacesChange, Zenon
      <4> QED
        BY <4>1, <4>2 DEF ChangePlaces
    <3>2. CASE ~stays
      BY <1>4, <1>6, <3>2
    <3> QED
      BY <3>1, <3>2
  <2>5. data' = remove(put, r, new)
    BY <1>2, <2>1, <2>3, <2>4
  <2> QED
    BY <1>1, <1>2, <2>1, <2>5 DEF Switched, b, r, pc, stopped
<1>7. CASE ~Popped
  <2>1. pushed = put
    BY <1>4, <1>7
  <2> QED
    BY <1>1, <1>2, <2>1 DEF Switched, b, r, pc, stopped
<1> QED
  BY <1>6, <1>7

(* It is the abstract switch.                                                                 *)
LEMMA SwitchGives ==
  ASSUME walk # Null, walk' = Null, UNCHANGED <<current_priority, unschedule_mode, saved>>,
         NEW t, Switched(walk.before, t)
  PROVE  Abstract!GiveCoreTo(t)
<1>1. AbstractReady = walk.before /\ AbstractReady' = data'
  BY DEF AbstractReady
<1>2. AbstractKeeps
  BY KeepsAbstract
<1> QED
  BY <1>1, <1>2, SameOperators
     DEF Switched, Abstract!GiveCoreTo, Abstract!Runs, AbstractKeeps, push_front, remove

(* The search decided as the abstract scheduler does.                                         *)
LEMMA SwitchStep ==
  ASSUME ReadyInv, SearchInv, SwitchContext
  PROVE  Abstract!Reschedule
<1> DEFINE b == walk.before
           new == walk.next
           r == current_priority[new]
<1>1. /\ walk # Null /\ walk.op = "restore" /\ walk' = Null
      /\ UNCHANGED <<current_priority, unschedule_mode, saved>> /\ Switched(b, new)
  BY SwitchFromBefore
<1>2. /\ walk.better <=> GoesOn
      /\ FoundBest /\ b \in [Priorities -> Seq(Threads)] /\ new \in Threads \cup {Null}
      /\ current_thread \in Threads \cup {Null} /\ current_priority \in [Threads -> Priorities]
  BY <1>1, WalkFacts, SearchFacts
<1>3. Abstract!GiveCoreTo(new)
  BY <1>1, SwitchGives
<1>4. AbstractReady = b
  BY <1>1 DEF AbstractReady
<1>5. Abstract!Keeps(current_thread) <=> walk.better
  BY <1>2 DEF Abstract!Keeps, Abstract!Runs, GoesOn, Unscheduled
<1>6. \A p : (Abstract!Keeps(current_thread) => p < current_priority[current_thread]) <=> Better(p)
  BY <1>5 DEF Better
<1>7. CASE Popped
  <2>1. new \in Threads /\ r \in Priorities
    BY <1>2, <1>7 DEF Popped
  <2>2. PICK i \in DOMAIN b[r] : b[r][i] = new /\ FirstBut(b, r, i, Barred)
    BY <1>1, <1>2, <1>7 DEF FoundBest
  <2>3. Abstract!IsBest(r, i)
    BY <1>4, <2>2, SameOperators DEF FirstBut, Abstract!IsBest, Barred
  <2>4. Abstract!Keeps(current_thread) => r < current_priority[current_thread]
    BY <1>1, <1>2, <1>6, <1>7 DEF FoundBest
  <2>5. Abstract!GiveCoreTo(AbstractReady[r][i])
    BY <1>3, <1>4, <2>2
  <2>6. r \in Abstract!Priorities /\ i \in DOMAIN AbstractReady[r]
    BY <1>4, <2>1, <2>2 DEF Abstract!Priorities, Priorities
  <2> QED
    BY <2>3, <2>4, <2>5, <2>6 DEF Abstract!Reschedule
<1>8. CASE ~Popped
  <2>1. /\ new = IF walk.better THEN current_thread ELSE Null
        /\ \A p \in Priorities : Better(p) => Range(b[p]) \subseteq Barred
    BY <1>1, <1>2, <1>8 DEF FoundBest
  <2>2. \A p \in Abstract!Priorities :
          (Abstract!Keeps(current_thread) => p < current_priority[current_thread])
            => Abstract!Range(AbstractReady[p]) \subseteq Unscheduled(unschedule_mode)
    BY <1>4, <1>6, <2>1, SameOperators DEF Abstract!Priorities, Priorities, Barred
  <2>3. IF Abstract!Keeps(current_thread) THEN Abstract!GiveCoreTo(current_thread)
                                          ELSE Abstract!GiveCoreTo(Null)
    BY <1>3, <1>5, <2>1
  <2> QED
    BY <2>2, <2>3 DEF Abstract!Reschedule
<1> QED
  BY <1>7, <1>8

(* Every step is a step of the abstract scheduler, or invisible to it.                        *)
LEMMA StepsImplement ==
  ReadyInv /\ SearchInv /\ [Next]_vars => [Abstract!Next]_(Abstract!vars)
<1> SUFFICES ASSUME ReadyInv, SearchInv, [Next]_vars PROVE Abstract!Next \/ UNCHANGED Abstract!vars
  OBVIOUS
<1>0. Abstract!Priorities = Priorities
  BY DEF Abstract!Priorities, Priorities
<1>1. ASSUME NEW t \in Threads, NEW p \in Priorities, NEW make_ready \in BOOLEAN,
             Create(t, p, make_ready)
      PROVE  Abstract!Next
  <2>1. Abstract!Create(t, p, make_ready)
    BY <1>1, CreateStep
  <2> QED
    BY <1>0, <2>1 DEF Abstract!Next
<1>2. ASSUME NEW t \in Threads, NEW p \in Priorities, SetPriority(t, p) PROVE Abstract!Next
  <2>1. Abstract!SetPriority(t, p)
    BY <1>2, SetPriorityStep
  <2> QED
    BY <1>0, <2>1 DEF Abstract!Next
<1>3. ASSUME NEW t \in Threads, ResumeFromWait(t) \/ Stop(t) PROVE Abstract!Next
  <2>1. Abstract!Resume(t) \/ Abstract!Stop(t)
    BY <1>3, ResumeStep, StopStep
  <2> QED
    BY <2>1 DEF Abstract!Next
<1>4. CASE WaitCurrentThread
  BY <1>4, BlockStep DEF Abstract!Next
<1>5. CASE WalkStep \/ WalkEnds \/ RestoreSkipped
  BY <1>5, SearchStep
<1>6. CASE \/ Reschedule
           \/ \E ts \in SUBSET Threads, set \in BOOLEAN :
                ControlProcess(ts, set) \/ ChangeUnscheduleMode(ts, set)
  BY <1>6, ModesStep DEF Abstract!Next
<1>7. CASE SwitchContext
  BY <1>7, SwitchStep DEF Abstract!Next
<1>8. CASE Save \/ Load
  BY <1>8, SaveStep, LoadStep DEF Abstract!Next
<1>9. CASE UNCHANGED vars
  <2>1. UNCHANGED <<data, status, current_priority, unschedule_mode, current_thread, walk, saved>>
    BY <1>9 DEF vars, queues, threads
  <2>2. AbstractKeeps /\ AbstractReady' = AbstractReady
    BY <2>1, KeepsAbstract DEF AbstractReady
  <2> QED
    BY <2>1, <2>2 DEF Abstract!vars, AbstractKeeps
<1> QED
  BY <1>1, <1>2, <1>3, <1>4, <1>5, <1>6, <1>7, <1>8, <1>9 DEF Next

(* At first both have nothing queued.                                                         *)
LEMMA InitImplements == Init => Abstract!Init
<1> SUFFICES ASSUME Init PROVE Abstract!Init
  OBVIOUS
<1>1. Unscheduled(unschedule_mode) = {}
  BY DEF Init, Unscheduled
<1>2. AbstractReady = data /\ AbstractSaved = Null
  BY DEF Init, AbstractReady, AbstractSaved
<1> QED
  BY <1>1, <1>2 DEF Init, Abstract!Init, Abstract!Priorities, Priorities

(* The list, the walk that skips threads and puts them back, and the save states implement    *)
(* PriorityScheduler, for any threads, number of priorities and unschedule modes.             *)
THEOREM SchedulerIsImplemented == Spec => ImplementsPriorityScheduler
<1>1. Init => ReadyInv /\ SearchInv /\ Abstract!Init
  BY InitReady, InitSearch, InitImplements
<1>2. ReadyInv /\ SearchInv /\ [Next]_vars => (ReadyInv /\ SearchInv)'
  BY NextReady, NextSearches
<1>3. ReadyInv /\ SearchInv /\ [Next]_vars => [Abstract!Next]_(Abstract!vars)
  BY StepsImplement
<1> QED
  BY <1>1, <1>2, <1>3, PTL DEF Spec, ImplementsPriorityScheduler, Abstract!Spec
=============================================================================
