-------------------------- MODULE HostQueueProofs --------------------------
(***************************************************************************)
(* The queues between threads of the host, for any number of producers,    *)
(* any capacity and any width of the indices.                              *)
(***************************************************************************)
EXTENDS BoundedQueue, TLAPS, SequenceTheorems

-----------------------------------------------------------------------------
(* Remainders *)

(* A number is a multiple of the divisor and its remainder.                                   *)
LEMMA Division ==
  ASSUME NEW C \in Nat \ {0}, NEW a \in Int
  PROVE  a \div C \in Int /\ a % C \in 0 .. C - 1 /\ a % C = a - C * (a \div C)
<1>1. a \div C \in Int /\ a % C \in 0 .. C - 1
  OBVIOUS
<1>2. a % C = a - C * (a \div C)
  OBVIOUS
<1> QED
  BY <1>1, <1>2

(* Multiplication distributes over sums.                                                      *)
LEMMA Distributes ==
  ASSUME NEW C \in Int, NEW x \in Int, NEW y \in Int
  PROVE  /\ C * x \in Int /\ C * (x + y) = C * x + C * y /\ C * (x - y) = C * x - C * y
  OBVIOUS

(* A multiple that is less than the divisor in size is none.                                  *)
LEMMA NoMultiple ==
  ASSUME NEW C \in Nat \ {0}, NEW k \in Int, NEW d \in Int, d = C * k, d < C, -C < d
  PROVE  k = 0 /\ d = 0
<1>1. k = 0
  OBVIOUS
<1> QED
  BY <1>1

(* A multiple of the divisor does not change the remainder.                                   *)
LEMMA RemainderShifts ==
  ASSUME NEW C \in Nat \ {0}, NEW a \in Int, NEW k \in Int
  PROVE  (a + C * k) % C = a % C
<1> DEFINE b == a + C * k
           x == a \div C
           y == b \div C
<1>0. b \in Int
  BY Distributes
<1>1. x \in Int /\ a % C \in 0 .. C - 1 /\ a % C = a - C * x
  BY Division
<1> HIDE DEF b
<1>2. y \in Int /\ b % C \in 0 .. C - 1 /\ b % C = b - C * y
  BY <1>0, Division
<1> HIDE DEF x, y
<1>3. (b % C) - (a % C) = C * (k + x - y)
  <2>1. (b % C) - (a % C) = C * k + C * x - C * y
    BY <1>1, <1>2, Distributes DEF b
  <2>2. C * (k + x - y) = C * (k + x) - C * y /\ C * (k + x) = C * k + C * x
    BY <1>1, <1>2, Distributes
  <2>3. C * k \in Int /\ C * x \in Int /\ C * y \in Int /\ C * (k + x) \in Int
    BY <1>1, <1>2, Distributes
  <2> HIDE DEF b
  <2> QED
    BY ONLY <2>1, <2>2, <2>3
<1>4. k + x - y \in Int /\ (b % C) - (a % C) < C /\ -C < (b % C) - (a % C)
  BY <1>1, <1>2
<1>5. (b % C) - (a % C) = 0
  <2> DEFINE d == (b % C) - (a % C)
  <2>1. d \in Int /\ d = C * (k + x - y) /\ d < C /\ -C < d
    BY <1>1, <1>2, <1>3, <1>4
  <2> HIDE DEF d
  <2>2. d = 0
    BY <1>4, <2>1, NoMultiple
  <2> QED
    BY <2>2 DEF d
<1>6. b % C = a % C
  BY <1>1, <1>2, <1>5
<1> QED
  BY <1>6 DEF b

(* Nor does the divisor itself.                                                               *)
LEMMA RemainderRound == ASSUME NEW C \in Nat \ {0}, NEW a \in Int PROVE (a + C) % C = a % C
<1>1. PICK k \in Int : k = 1
  OBVIOUS
<1>2. (a + C * k) % C = a % C
  BY RemainderShifts
<1>3. C * k = C
  BY <1>1
<1> QED
  BY <1>2, <1>3

(* Numbers closer than the divisor have different remainders.                                 *)
LEMMA RemaindersApart ==
  ASSUME NEW C \in Nat \ {0}, NEW a \in Int, NEW b \in Int, a < b, b < a + C
  PROVE  a % C # b % C
<1> DEFINE x == a \div C
           y == b \div C
<1>1. /\ x \in Int /\ a % C \in 0 .. C - 1 /\ a % C = a - C * x
      /\ y \in Int /\ b % C \in 0 .. C - 1 /\ b % C = b - C * y
  BY Division
<1> HIDE DEF x, y
<1>2. ASSUME a % C = b % C PROVE FALSE
  <2>1. b - a = C * (y - x)
    BY <1>1, <1>2, Distributes
  <2> QED
    BY <1>1, <2>1, NoMultiple
<1> QED
  BY <1>2

(* What is less than the divisor is its own remainder.                                        *)
LEMMA RemainderSmall == ASSUME NEW C \in Nat \ {0}, NEW a \in 0 .. C - 1 PROVE a % C = a
  OBVIOUS

(* Wrapping at a multiple of the divisor is not seen in the remainder.                        *)
LEMMA RemainderWraps ==
  ASSUME NEW C \in Nat \ {0}, NEW W \in Nat \ {0}, W % C = 0, NEW a \in Int, NEW b \in Int
  PROVE  ((a % W) + b) % C = (a + b) % C
<1> DEFINE x == a \div W
           z == W \div C
           c == a % W
<1>1. x \in Int /\ c \in Int /\ c = a - W * x
  <2>1. x \in Int /\ c \in 0 .. W - 1 /\ c = a - W * x
    BY Division
  <2> HIDE DEF x, c
  <2> QED
    BY <2>1
<1>2. z \in Int /\ W % C = W - C * z
  BY Division
<1> HIDE DEF x, z, c
<1>3. W = C * z
  BY <1>2, Distributes
<1>4. W * x = C * (z * x) /\ z * x \in Int
  BY <1>1, <1>2, <1>3
<1>5. c + b = (a + b) + C * (0 - z * x)
  <2>1. C * (0 - z * x) = C * 0 - C * (z * x) /\ C * 0 = 0 /\ C * (z * x) \in Int
    BY <1>4, Distributes
  <2> QED
    BY <1>1, <1>4, <2>1
<1>6. (c + b) % C = (a + b) % C
  <2> DEFINE e == a + b
             k == 0 - z * x
  <2>1. k \in Int /\ e \in Int /\ c + b = e + C * k
    BY <1>4, <1>5
  <2> HIDE DEF e, k
  <2>2. (e + C * k) % C = e % C
    BY <2>1, RemainderShifts
  <2> QED
    BY <2>1, <2>2 DEF e
<1> QED
  BY <1>6 DEF c

-----------------------------------------------------------------------------
(* The indices of the ring *)

\* The indices, which wrap at Width, and the slot of an index
Indices == 0 .. Width - 1
After(i) == (i + 1) % Width
Dist(r, w) == (w - r) % Width
Slot(i) == i % Capacity

(* An index and a distance of indices, without remainders.                                    *)
LEMMA IndexFacts ==
  ASSUME BoundedQueueAssumption, NEW r \in Indices, NEW w \in Indices
  PROVE  /\ After(r) = IF r + 1 = Width THEN 0 ELSE r + 1
         /\ Dist(r, w) = IF w >= r THEN w - r ELSE w - r + Width
<1>1. Width \in Nat \ {0} /\ r \in Int /\ w \in Int
  BY DEF BoundedQueueAssumption, Indices
<1>2. After(r) = IF r + 1 = Width THEN 0 ELSE r + 1
  <2>1. CASE r + 1 = Width
    <3>1. (0 + Width) % Width = 0 % Width /\ 0 % Width = 0
      BY <1>1, RemainderRound, RemainderSmall
    <3> QED
      BY <1>1, <2>1, <3>1 DEF After
  <2>2. CASE r + 1 # Width
    <3>1. r + 1 \in 0 .. Width - 1
      BY <1>1, <2>2 DEF Indices
    <3>2. (r + 1) % Width = r + 1
      BY <1>1, <3>1, RemainderSmall
    <3> QED
      BY <2>2, <3>2 DEF After
  <2> QED
    BY <2>1, <2>2
<1>3. Dist(r, w) = IF w >= r THEN w - r ELSE w - r + Width
  <2>1. CASE w >= r
    <3>1. w - r \in 0 .. Width - 1
      BY <1>1, <2>1 DEF Indices
    <3>2. (w - r) % Width = w - r
      BY <1>1, <3>1, RemainderSmall
    <3> QED
      BY <2>1, <3>2 DEF Dist
  <2>2. CASE ~(w >= r)
    <3> DEFINE d == w - r
    <3>1. d + Width \in 0 .. Width - 1 /\ d + Width = w - r + Width /\ d \in Int
      BY <1>1, <2>2 DEF Indices
    <3> HIDE DEF d
    <3>2. (d + Width) % Width = d % Width
      BY <1>1, <3>1, RemainderRound
    <3>3. (d + Width) % Width = d + Width
      BY <1>1, <3>1, RemainderSmall
    <3> QED
      BY <2>2, <3>1, <3>2, <3>3 DEF Dist, d
  <2> QED
    BY <2>1, <2>2
<1> QED
  BY <1>2, <1>3

(* Writing makes the distance one longer and reading one shorter.                             *)
LEMMA DistanceFacts ==
  ASSUME BoundedQueueAssumption, NEW r \in Indices, NEW w \in Indices
  PROVE  /\ Dist(r, w) \in Indices /\ After(r) \in Indices /\ After(w) \in Indices
         /\ Dist(r, w) + 1 < Width => Dist(r, After(w)) = Dist(r, w) + 1
         /\ Dist(r, w) # 0 => Dist(After(r), w) = Dist(r, w) - 1
<1>1. Width \in Nat /\ Width > 0 /\ r \in Int /\ w \in Int /\ 0 <= r /\ 0 <= w /\ r < Width /\ w < Width
  BY DEF BoundedQueueAssumption, Indices
<1>2. /\ After(r) = IF r + 1 = Width THEN 0 ELSE r + 1
      /\ After(w) = IF w + 1 = Width THEN 0 ELSE w + 1
      /\ Dist(r, w) = IF w >= r THEN w - r ELSE w - r + Width
  BY IndexFacts
<1>3. After(r) \in Indices /\ After(w) \in Indices
  BY <1>1, <1>2 DEF Indices
<1>4. /\ Dist(r, After(w)) = IF After(w) >= r THEN After(w) - r ELSE After(w) - r + Width
      /\ Dist(After(r), w) = IF w >= After(r) THEN w - After(r) ELSE w - After(r) + Width
  BY <1>3, IndexFacts
<1>5. Dist(r, w) \in Indices
  BY <1>1, <1>2 DEF Indices
<1>6. Dist(r, w) + 1 < Width => Dist(r, After(w)) = Dist(r, w) + 1
  BY <1>1, <1>2, <1>4
<1>7. Dist(r, w) # 0 => Dist(After(r), w) = Dist(r, w) - 1
  BY <1>1, <1>2, <1>4
<1> QED
  BY <1>3, <1>5, <1>6, <1>7

(* The slots: the next to be written is a distance behind the next to be read, wrapping is not *)
(* seen in a slot, and slots less than the capacity apart differ.                             *)
LEMMA SlotFacts ==
  ASSUME BoundedQueueAssumption, NEW r \in Indices, NEW w \in Indices
  PROVE  /\ Slot(w) = Slot(r + Dist(r, w))
         /\ \A k \in Int : Slot(After(r) + k) = Slot(r + 1 + k)
         /\ \A i \in Int : Slot(i) \in Positions
         /\ \A i, j \in Int : i < j /\ j < i + Capacity => Slot(i) # Slot(j)
<1>1. /\ Capacity \in Nat \ {0} /\ Width \in Nat \ {0} /\ Width % Capacity = 0
      /\ r \in Int /\ w \in Int
  BY DEF BoundedQueueAssumption, Indices
<1>2. Slot(w) = Slot(r + Dist(r, w))
  <2> DEFINE d == w - r
  <2>1. d \in Int /\ d + r = w
    BY <1>1
  <2> HIDE DEF d
  <2>2. ((d % Width) + r) % Capacity = (d + r) % Capacity
    <3>1. /\ Capacity \in Nat \ {0} /\ Width \in Nat \ {0} /\ Width % Capacity = 0
          /\ d \in Int /\ r \in Int
      BY <1>1, <2>1
    <3> QED
      BY ONLY <3>1, RemainderWraps
  <2>3. d % Width \in Int
    BY <1>1, <2>1, Division
  <2>4. (d % Width) + r = r + (d % Width)
    BY <1>1, <2>3
  <2> QED
    BY <2>1, <2>2, <2>4 DEF Slot, Dist, d
<1>3. ASSUME NEW k \in Int PROVE Slot(After(r) + k) = Slot(r + 1 + k)
  <2> DEFINE v == r + 1
  <2>1. v \in Int
    BY <1>1
  <2> HIDE DEF v
  <2>2. ((v % Width) + k) % Capacity = (v + k) % Capacity
    <3>1. /\ Capacity \in Nat \ {0} /\ Width \in Nat \ {0} /\ Width % Capacity = 0
          /\ v \in Int /\ k \in Int
      BY <1>1, <2>1
    <3> QED
      BY ONLY <3>1, RemainderWraps
  <2> QED
    BY <2>2 DEF Slot, After, v
<1>4. \A i \in Int : Slot(i) \in Positions
  BY <1>1, Division DEF Slot, Positions
<1>5. \A i, j \in Int : i < j /\ j < i + Capacity => Slot(i) # Slot(j)
  BY <1>1, RemaindersApart DEF Slot
<1> QED
  BY <1>2, <1>3, <1>4, <1>5

-----------------------------------------------------------------------------
(* The invariant of BoundedQueue *)

Waits == {"lock", "locked", "sleepy", "asleep", "woken"}

\* Who pushes has write_mutex, and a value left to push
Turns ==
  \A p \in Producers :
    /\ pc[p] # "idle" <=> write_mutex = p
    /\ mode[p] \in {"try", "wait"}
    /\ pc[p] \in Waits \cup {"copy"} => pushed[p] < Pushes
    /\ pc[p] = "publish" => pushed[p] # 0

\* A producer past its wait has room, and a consumer past its wait a value
Places ==
  /\ Used <= Capacity
  /\ \A p \in Producers : pc[p] \in {"copy", "publish"} => Used < Capacity
  /\ \A p \in Producers : pc[p] = "publish" => m_data[Slot(m_write_index)] = <<p, pushed[p]>>
  /\ pc[Consumer] \in {"copy", "publish"} => Used # 0

\* What was published and not popped is a value
Filled == \A k \in 0 .. Used - 1 : m_data[Slot(m_read_index + k)] \in Values

RingInv == TypeOK /\ Turns /\ Places /\ Filled

\* What the program counter of a thread may be
Steps == Waits \cup {"idle", "copy", "publish", "notify"}

(* The types, with names for sets of them.                                                    *)
LEMMA RingFacts ==
  ASSUME BoundedQueueAssumption, RingInv
  PROVE  /\ m_read_index \in Indices /\ m_write_index \in Indices
         /\ m_data \in [Positions -> Values \cup {Null}] /\ write_mutex \in Producers \cup {Nobody}
         /\ pc \in [Threads -> Steps] /\ pushed \in [Producers -> 0 .. Pushes]
         /\ Used = Dist(m_read_index, m_write_index) /\ Used \in Nat /\ Capacity \in Nat \ {0}
         /\ Capacity < Width /\ Width \in Nat /\ Consumer \in Threads /\ Consumer \notin Producers
         /\ Producers \subseteq Threads
<1>1. /\ m_read_index \in Indices /\ m_write_index \in Indices
      /\ m_data \in [Positions -> Values \cup {Null}] /\ write_mutex \in Producers \cup {Nobody}
      /\ pc \in [Threads -> Steps] /\ pushed \in [Producers -> 0 .. Pushes]
  BY DEF RingInv, TypeOK, Indices, Steps, Waits
<1>2. Used = Dist(m_read_index, m_write_index)
  BY DEF Used, Dist
<1>3. Used \in Nat
  BY <1>1, <1>2, DistanceFacts DEF Indices
<1> QED
  BY <1>1, <1>2, <1>3 DEF BoundedQueueAssumption, Threads

(* A thread goes on to wait, to copy when it may, or to be idle.                              *)
LEMMA MoveKeeps ==
  ASSUME BoundedQueueAssumption, RingInv, NEW t \in Threads, NEW x \in Waits \cup {"idle", "copy"},
         pc' = [pc EXCEPT ![t] = x], UNCHANGED <<ring, write_mutex, pushed, received>>,
         x = "copy" => Ready(t), t # Consumer => pc[t] \in Waits /\ x # "idle",
         cv_mutex' \in [{"producer", "consumer"} -> Threads \cup {Nobody}],
         mode' \in [Threads -> {"try", "wait", "stop"}], \A p \in Producers : mode'[p] = mode[p],
         stop_requested' \in BOOLEAN
  PROVE  RingInv'
<1>1. /\ m_read_index' = m_read_index /\ m_write_index' = m_write_index /\ m_data' = m_data
      /\ write_mutex' = write_mutex /\ pushed' = pushed /\ received' = received
  BY DEF ring
<1>2. /\ pc \in [Threads -> Steps] /\ Consumer \in Threads /\ Consumer \notin Producers
      /\ Producers \subseteq Threads
  BY RingFacts
<1>3. pc' \in [Threads -> Steps] /\ \A u \in Threads : pc'[u] = IF u = t THEN x ELSE pc[u]
  BY <1>2 DEF Steps
<1>4. Used' = Used
  BY <1>1 DEF Used
<1>5. TypeOK'
  BY <1>1, <1>3 DEF RingInv, TypeOK, Steps, Waits
<1>6. Turns'
  <2> SUFFICES ASSUME NEW p \in Producers
               PROVE  /\ pc'[p] # "idle" <=> write_mutex' = p
                      /\ mode'[p] \in {"try", "wait"}
                      /\ pc'[p] \in Waits \cup {"copy"} => pushed'[p] < Pushes
                      /\ pc'[p] = "publish" => pushed'[p] # 0
    BY DEF Turns
  <2> QED
    BY <1>1, <1>2, <1>3 DEF RingInv, Turns, Waits
<1>7. Places'
  <2>1. \A p \in Producers : pc'[p] \in {"copy", "publish"} => Used < Capacity
    BY <1>2, <1>3 DEF RingInv, Places, Ready, HasRoom, Waits
  <2>2. \A p \in Producers : pc'[p] = "publish" => m_data[Slot(m_write_index)] = <<p, pushed[p]>>
    BY <1>2, <1>3 DEF RingInv, Places, Waits
  <2>3. pc'[Consumer] \in {"copy", "publish"} => Used # 0
    BY <1>2, <1>3 DEF RingInv, Places, Ready, Waits
  <2> QED
    BY <1>1, <1>4, <2>1, <2>2, <2>3 DEF RingInv, Places
<1>8. Filled'
  BY <1>1, <1>4 DEF RingInv, Filled
<1> QED
  BY <1>5, <1>6, <1>7, <1>8 DEF RingInv

-----------------------------------------------------------------------------
(* Pushing *)

(* A producer that takes its turn keeps the invariant.                                        *)
LEMMA StartPushKeeps ==
  ASSUME BoundedQueueAssumption, RingInv, NEW p \in Producers, StartPush(p)
  PROVE  RingInv'
<1>1. PICK m \in PushModes :
        /\ m = "try" => HasRoom
        /\ Goto(p, {"idle"}, IF m = "try" THEN "copy" ELSE "lock")
        /\ mode' = [mode EXCEPT ![p] = m]
  BY DEF StartPush
<1> DEFINE x == IF m = "try" THEN "copy" ELSE "lock"
<1>2. /\ m_read_index' = m_read_index /\ m_write_index' = m_write_index /\ m_data' = m_data
      /\ cv_mutex' = cv_mutex /\ pushed' = pushed /\ received' = received
      /\ stop_requested' = stop_requested /\ write_mutex = Nobody /\ write_mutex' = p
      /\ pushed[p] < Pushes /\ m \in {"try", "wait"} /\ Nobody \notin Producers
  BY DEF StartPush, ring, BoundedQueueAssumption
<1>3. /\ pc \in [Threads -> Steps] /\ mode \in [Threads -> {"try", "wait", "stop"}]
      /\ Consumer \in Threads /\ Consumer \notin Producers /\ Producers \subseteq Threads
  BY RingFacts DEF RingInv, TypeOK
<1>4. /\ pc' \in [Threads -> Steps] /\ \A u \in Threads : pc'[u] = IF u = p THEN x ELSE pc[u]
      /\ mode' \in [Threads -> {"try", "wait", "stop"}]
      /\ \A u \in Threads : mode'[u] = IF u = p THEN m ELSE mode[u]
  BY <1>1, <1>2, <1>3 DEF Goto, Steps, Waits
<1>5. \A q \in Producers : pc[q] = "idle"
  BY <1>2 DEF RingInv, Turns
<1>6. Used' = Used
  BY <1>2 DEF Used
<1>7. TypeOK'
  BY <1>2, <1>4 DEF RingInv, TypeOK, Steps, Waits
<1>8. Turns'
  <2> SUFFICES ASSUME NEW q \in Producers
               PROVE  /\ pc'[q] # "idle" <=> write_mutex' = q
                      /\ mode'[q] \in {"try", "wait"}
                      /\ pc'[q] \in Waits \cup {"copy"} => pushed'[q] < Pushes
                      /\ pc'[q] = "publish" => pushed'[q] # 0
    BY DEF Turns
  <2> QED
    BY <1>2, <1>3, <1>4, <1>5 DEF RingInv, Turns, Waits
<1>9. Places'
  <2>1. \A q \in Producers : pc'[q] \in {"copy", "publish"} => Used < Capacity
    BY <1>1, <1>3, <1>4, <1>5 DEF HasRoom
  <2>2. \A q \in Producers : pc'[q] # "publish"
    BY <1>3, <1>4, <1>5
  <2> QED
    BY <1>2, <1>3, <1>4, <1>6, <2>1, <2>2 DEF RingInv, Places
<1>10. Filled'
  BY <1>2, <1>6 DEF RingInv, Filled
<1> QED
  BY <1>7, <1>8, <1>9, <1>10 DEF RingInv

(* The value goes to the slot behind the values in use, and to no slot in use.                *)
LEMMA EmplaceApart ==
  ASSUME BoundedQueueAssumption, RingInv, NEW p \in Producers, Emplace(p)
  PROVE  /\ Slot(m_write_index) \in Positions /\ Used < Capacity
         /\ m_data' = [m_data EXCEPT ![Slot(m_write_index)] = <<p, pushed[p] + 1>>]
         /\ \A k \in 0 .. Used - 1 : /\ Slot(m_read_index + k) \in Positions
                                     /\ Slot(m_read_index + k) # Slot(m_write_index)
<1>1. /\ m_read_index \in Indices /\ m_write_index \in Indices /\ Width \in Nat
      /\ Used = Dist(m_read_index, m_write_index) /\ Used \in Nat /\ Capacity \in Nat
      /\ pushed \in [Producers -> 0 .. Pushes]
  BY RingFacts
<1>2. Used < Capacity
  BY DEF RingInv, Places, Emplace, Goto
<1>3. m_data' = [m_data EXCEPT ![Slot(m_write_index)] = <<p, pushed[p] + 1>>]
  BY <1>1 DEF Emplace, Slot
<1>4. m_read_index \in Int /\ m_write_index \in Int
  BY <1>1 DEF Indices
<1>5. /\ Slot(m_write_index) = Slot(m_read_index + Used)
      /\ \A i \in Int : Slot(i) \in Positions
      /\ \A i, j \in Int : i < j /\ j < i + Capacity => Slot(i) # Slot(j)
  BY <1>1, SlotFacts
<1>6. ASSUME NEW k \in 0 .. Used - 1
      PROVE  Slot(m_read_index + k) \in Positions /\ Slot(m_read_index + k) # Slot(m_write_index)
  <2> DEFINE i == m_read_index + k
             j == m_read_index + Used
  <2>1. i \in Int /\ j \in Int /\ i < j /\ j < i + Capacity
    BY <1>1, <1>2, <1>4
  <2> HIDE DEF i, j
  <2>2. Slot(i) \in Positions /\ Slot(i) # Slot(j)
    BY <1>5, <2>1
  <2> QED
    BY <1>5, <2>2 DEF i, j
<1> QED
  BY <1>2, <1>3, <1>4, <1>5, <1>6

(* A value put into its slot keeps the invariant.                                             *)
LEMMA EmplaceKeeps ==
  ASSUME BoundedQueueAssumption, RingInv, NEW p \in Producers, Emplace(p)
  PROVE  RingInv'
<1>1. /\ m_read_index' = m_read_index /\ m_write_index' = m_write_index /\ mode' = mode
      /\ cv_mutex' = cv_mutex /\ received' = received /\ stop_requested' = stop_requested
      /\ write_mutex' = write_mutex /\ pushed' = [pushed EXCEPT ![p] = @ + 1] /\ pc[p] = "copy"
      /\ pc' = [pc EXCEPT ![p] = "publish"]
  BY DEF Emplace, Goto
<1>2. /\ pc \in [Threads -> Steps] /\ pushed \in [Producers -> 0 .. Pushes] /\ Pushes \in Nat
      /\ m_data \in [Positions -> Values \cup {Null}]
      /\ Consumer \in Threads /\ Consumer \notin Producers /\ Producers \subseteq Threads
  BY RingFacts DEF BoundedQueueAssumption
<1>3. /\ Slot(m_write_index) \in Positions /\ Used < Capacity
      /\ m_data' = [m_data EXCEPT ![Slot(m_write_index)] = <<p, pushed[p] + 1>>]
      /\ \A k \in 0 .. Used - 1 : /\ Slot(m_read_index + k) \in Positions
                                  /\ Slot(m_read_index + k) # Slot(m_write_index)
  BY EmplaceApart
<1>4. pushed[p] < Pushes /\ write_mutex = p
  BY <1>1 DEF RingInv, Turns
<1>5. pushed' \in [Producers -> 0 .. Pushes] /\ pushed'[p] = pushed[p] + 1 /\ pushed'[p] # 0
  BY <1>1, <1>2, <1>4
<1>6. <<p, pushed[p] + 1>> \in Values
  BY <1>2, <1>4 DEF Values
<1>7. /\ pc' \in [Threads -> Steps] /\ \A u \in Threads : pc'[u] = IF u = p THEN "publish" ELSE pc[u]
  BY <1>1, <1>2 DEF Steps
<1>8. \A q \in Producers : q # p => pc[q] = "idle" /\ pushed'[q] = pushed[q]
  BY <1>1, <1>2, <1>4 DEF RingInv, Turns
<1>9. Used' = Used /\ Slot(m_write_index)' = Slot(m_write_index)
  BY <1>1 DEF Used, Slot
<1>10. m_data' \in [Positions -> Values \cup {Null}]
  BY <1>2, <1>3, <1>6
<1>11. TypeOK'
  BY <1>1, <1>5, <1>7, <1>10 DEF RingInv, TypeOK, Steps, Waits
<1>12. Turns'
  <2> SUFFICES ASSUME NEW q \in Producers
               PROVE  /\ pc'[q] # "idle" <=> write_mutex' = q
                      /\ mode'[q] \in {"try", "wait"}
                      /\ pc'[q] \in Waits \cup {"copy"} => pushed'[q] < Pushes
                      /\ pc'[q] = "publish" => pushed'[q] # 0
    BY DEF Turns
  <2> QED
    BY <1>1, <1>2, <1>4, <1>5, <1>7, <1>8 DEF RingInv, Turns, Waits
<1>13. Places'
  <2>1. ASSUME NEW q \in Producers, pc'[q] = "publish"
        PROVE  m_data'[Slot(m_write_index)] = <<q, pushed'[q]>>
    <3>1. q = p
      BY <1>2, <1>7, <1>8, <2>1
    <3> QED
      BY <1>2, <1>3, <1>5, <3>1
  <2>2. pc'[Consumer] = pc[Consumer]
    BY <1>2, <1>7
  <2> QED
    BY <1>1, <1>3, <1>9, <2>1, <2>2 DEF RingInv, Places
<1>14. Filled'
  <2> SUFFICES ASSUME NEW k \in 0 .. Used - 1 PROVE m_data'[Slot(m_read_index + k)] \in Values
    BY <1>1, <1>9 DEF Filled, Slot
  <2> QED
    BY <1>2, <1>3 DEF RingInv, Filled
<1> QED
  BY <1>11, <1>12, <1>13, <1>14 DEF RingInv

(* Publishing puts the slot that was written behind the values in use.                        *)
LEMMA PublishWriteAdds ==
  ASSUME BoundedQueueAssumption, RingInv, NEW p \in Producers, PublishWrite(p)
  PROVE  /\ m_write_index' \in Indices /\ Used' = Used + 1 /\ Used < Capacity
         /\ m_data[Slot(m_read_index + Used)] = <<p, pushed[p]>> /\ <<p, pushed[p]>> \in Values
<1>1. /\ m_read_index \in Indices /\ m_write_index \in Indices /\ Width \in Nat
      /\ Used = Dist(m_read_index, m_write_index) /\ Used \in Nat /\ Capacity \in Nat
      /\ pushed \in [Producers -> 0 .. Pushes] /\ Capacity < Width
  BY RingFacts
<1>2. /\ pc[p] = "publish" /\ m_read_index' = m_read_index
      /\ m_write_index' = After(m_write_index)
  BY DEF PublishWrite, Goto, After
<1>3. /\ Used < Capacity /\ m_data[Slot(m_write_index)] = <<p, pushed[p]>> /\ pushed[p] # 0
  BY <1>2 DEF RingInv, Places, Turns
<1>4. Slot(m_write_index) = Slot(m_read_index + Used)
  BY <1>1, SlotFacts
<1>5. Used' = Dist(m_read_index, After(m_write_index))
  BY <1>2 DEF Used, Dist
<1>6. Dist(m_read_index, m_write_index) + 1 < Width
  BY <1>1, <1>3
<1>7. After(m_write_index) \in Indices /\ Used' = Used + 1
  BY <1>1, <1>5, <1>6, DistanceFacts
<1>8. <<p, pushed[p]>> \in Values
  BY <1>1, <1>3 DEF Values
<1> QED
  BY <1>2, <1>3, <1>4, <1>7, <1>8

(* A value that is published keeps the invariant.                                             *)
LEMMA PublishWriteKeeps ==
  ASSUME BoundedQueueAssumption, RingInv, NEW p \in Producers, PublishWrite(p)
  PROVE  RingInv'
<1>1. /\ m_read_index' = m_read_index /\ m_data' = m_data /\ mode' = mode
      /\ cv_mutex' = cv_mutex /\ received' = received /\ stop_requested' = stop_requested
      /\ write_mutex' = write_mutex /\ pushed' = pushed /\ pc[p] = "publish"
      /\ pc' = [pc EXCEPT ![p] = "notify"]
  BY DEF PublishWrite, Goto
<1>2. /\ pc \in [Threads -> Steps] /\ Used \in Nat /\ Capacity \in Nat
      /\ Consumer \in Threads /\ Consumer \notin Producers /\ Producers \subseteq Threads
  BY RingFacts
<1>3. /\ m_write_index' \in Indices /\ Used' = Used + 1 /\ Used < Capacity
      /\ m_data[Slot(m_read_index + Used)] = <<p, pushed[p]>> /\ <<p, pushed[p]>> \in Values
  BY PublishWriteAdds
<1>4. /\ pc' \in [Threads -> Steps] /\ \A u \in Threads : pc'[u] = IF u = p THEN "notify" ELSE pc[u]
  BY <1>1, <1>2 DEF Steps
<1>5. \A q \in Producers : q # p => pc[q] = "idle"
  BY <1>1 DEF RingInv, Turns
<1>6. TypeOK'
  BY <1>1, <1>3, <1>4 DEF RingInv, TypeOK, Steps, Waits, Indices
<1>7. Turns'
  <2> SUFFICES ASSUME NEW q \in Producers
               PROVE  /\ pc'[q] # "idle" <=> write_mutex' = q
                      /\ mode'[q] \in {"try", "wait"}
                      /\ pc'[q] \in Waits \cup {"copy"} => pushed'[q] < Pushes
                      /\ pc'[q] = "publish" => pushed'[q] # 0
    BY DEF Turns
  <2> QED
    BY <1>1, <1>2, <1>4, <1>5 DEF RingInv, Turns, Waits
<1>8. Places'
  <2>1. \A q \in Producers : pc'[q] \notin {"copy", "publish"}
    BY <1>2, <1>4, <1>5
  <2>2. Used' <= Capacity /\ Used' # 0
    BY <1>2, <1>3
  <2> QED
    BY <2>1, <2>2 DEF Places
<1>9. Filled'
  <2> SUFFICES ASSUME NEW k \in 0 .. Used PROVE m_data[Slot(m_read_index + k)] \in Values
    BY <1>1, <1>2, <1>3 DEF Filled, Slot
  <2>1. CASE k = Used
    BY <1>3, <2>1
  <2>2. CASE k # Used
    <3>1. k \in 0 .. Used - 1
      BY <1>2, <2>2
    <3> QED
      BY <3>1 DEF RingInv, Filled
  <2> QED
    BY <2>1, <2>2
<1> QED
  BY <1>6, <1>7, <1>8, <1>9 DEF RingInv

-----------------------------------------------------------------------------
(* Popping *)

(* A consumer that begins to pop keeps the invariant.                                         *)
LEMMA StartPopKeeps == ASSUME BoundedQueueAssumption, RingInv, StartPop PROVE RingInv'
<1>1. PICK m \in PopModes :
        /\ m = "try" => Used # 0
        /\ Goto(Consumer, {"idle"}, IF m = "try" THEN "copy" ELSE "lock")
        /\ mode' = [mode EXCEPT ![Consumer] = m]
  BY DEF StartPop
<1> DEFINE x == IF m = "try" THEN "copy" ELSE "lock"
<1>2. /\ UNCHANGED <<ring, write_mutex, pushed, received>> /\ cv_mutex' = cv_mutex
      /\ stop_requested' = stop_requested /\ pc' = [pc EXCEPT ![Consumer] = x]
  BY <1>1 DEF StartPop, Goto
<1>3. /\ Consumer \in Threads /\ Consumer \notin Producers /\ Producers \subseteq Threads
      /\ mode \in [Threads -> {"try", "wait", "stop"}]
  BY RingFacts DEF RingInv, TypeOK
<1>4. /\ mode' \in [Threads -> {"try", "wait", "stop"}]
      /\ \A p \in Producers : mode'[p] = mode[p]
  BY <1>1, <1>3 DEF BoundedQueueAssumption
<1>5. x \in Waits \cup {"idle", "copy"} /\ (x = "copy" => Ready(Consumer))
  BY <1>1 DEF Waits, Ready
<1>6. cv_mutex' \in [{"producer", "consumer"} -> Threads \cup {Nobody}] /\ stop_requested' \in BOOLEAN
  BY <1>2 DEF RingInv, TypeOK
<1> HIDE DEF x
<1> QED
  BY <1>2, <1>3, <1>4, <1>5, <1>6, MoveKeeps

(* A value that is popped is the first of those in use.                                       *)
LEMMA PopTakes ==
  ASSUME BoundedQueueAssumption, RingInv, Pop
  PROVE  Used # 0 /\ Used \in Nat /\ received' = Append(received, m_data[Slot(m_read_index)])
         /\ m_data[Slot(m_read_index)] \in Values
<1>1. Used # 0 /\ Used \in Nat /\ m_read_index \in Indices
  BY RingFacts DEF Pop, Goto, RingInv, Places
<1>2. m_data[Slot(m_read_index + 0)] \in Values
  BY <1>1 DEF RingInv, Filled
<1>3. m_read_index + 0 = m_read_index
  BY <1>1 DEF Indices
<1> QED
  BY <1>1, <1>2, <1>3 DEF Pop, Slot

(* A value that is popped keeps the invariant.                                                *)
LEMMA PopKeeps == ASSUME BoundedQueueAssumption, RingInv, Pop PROVE RingInv'
<1>1. /\ m_read_index' = m_read_index /\ m_write_index' = m_write_index /\ m_data' = m_data
      /\ mode' = mode /\ cv_mutex' = cv_mutex /\ stop_requested' = stop_requested
      /\ write_mutex' = write_mutex /\ pushed' = pushed /\ pc[Consumer] = "copy"
      /\ pc' = [pc EXCEPT ![Consumer] = "publish"]
  BY DEF Pop, Goto, ring
<1>2. /\ pc \in [Threads -> Steps] /\ Consumer \in Threads /\ Consumer \notin Producers
      /\ Producers \subseteq Threads
  BY RingFacts
<1>3. Used # 0 /\ received' \in Seq(Values)
  <2>1. /\ Used # 0 /\ received' = Append(received, m_data[Slot(m_read_index)])
        /\ m_data[Slot(m_read_index)] \in Values
    BY PopTakes
  <2>2. received \in Seq(Values)
    BY DEF RingInv, TypeOK
  <2> QED
    BY <2>1, <2>2, AppendProperties
<1>4. /\ pc' \in [Threads -> Steps]
      /\ \A u \in Threads : pc'[u] = IF u = Consumer THEN "publish" ELSE pc[u]
  BY <1>1, <1>2 DEF Steps
<1>5. Used' = Used
  BY <1>1 DEF Used
<1>6. TypeOK'
  BY <1>1, <1>3, <1>4 DEF RingInv, TypeOK, Steps, Waits
<1>7. \A p \in Producers : pc'[p] = pc[p]
  BY <1>2, <1>4
<1>8. Turns' /\ Places' /\ Filled'
  BY <1>1, <1>3, <1>5, <1>7 DEF RingInv, Turns, Places, Filled, Slot
<1> QED
  BY <1>6, <1>8 DEF RingInv

(* Publishing gives the first slot in use back.                                               *)
LEMMA PublishReadFrees ==
  ASSUME BoundedQueueAssumption, RingInv, PublishRead
  PROVE  /\ m_read_index' \in Indices /\ Used # 0 /\ Used' = Used - 1 /\ Used \in Nat
         /\ \A k \in Int : Slot(m_read_index' + k) = Slot(m_read_index + 1 + k)
<1>1. /\ m_read_index \in Indices /\ m_write_index \in Indices
      /\ Used = Dist(m_read_index, m_write_index) /\ Used \in Nat
  BY RingFacts
<1>2. /\ pc[Consumer] = "publish" /\ m_write_index' = m_write_index
      /\ m_read_index' = After(m_read_index)
  BY DEF PublishRead, Goto, After
<1>3. Used # 0
  BY <1>2 DEF RingInv, Places
<1>4. Used' = Dist(After(m_read_index), m_write_index)
  BY <1>2 DEF Used, Dist
<1>5. After(m_read_index) \in Indices /\ Used' = Used - 1
  BY <1>1, <1>3, <1>4, DistanceFacts
<1>6. \A k \in Int : Slot(After(m_read_index) + k) = Slot(m_read_index + 1 + k)
  BY <1>1, SlotFacts
<1> QED
  BY <1>1, <1>2, <1>3, <1>5, <1>6

(* A slot that is given back keeps the invariant.                                             *)
LEMMA PublishReadKeeps == ASSUME BoundedQueueAssumption, RingInv, PublishRead PROVE RingInv'
<1>1. /\ m_write_index' = m_write_index /\ m_data' = m_data /\ received' = received
      /\ mode' = mode /\ cv_mutex' = cv_mutex /\ stop_requested' = stop_requested
      /\ write_mutex' = write_mutex /\ pushed' = pushed
      /\ pc' = [pc EXCEPT ![Consumer] = "notify"]
  BY DEF PublishRead, Goto
<1>2. /\ pc \in [Threads -> Steps] /\ Consumer \in Threads /\ Consumer \notin Producers
      /\ Producers \subseteq Threads /\ Capacity \in Nat /\ m_read_index \in Indices
  BY RingFacts
<1>3. /\ m_read_index' \in Indices /\ Used # 0 /\ Used' = Used - 1 /\ Used \in Nat
      /\ \A k \in Int : Slot(m_read_index' + k) = Slot(m_read_index + 1 + k)
  BY PublishReadFrees
<1>4. /\ pc' \in [Threads -> Steps]
      /\ \A u \in Threads : pc'[u] = IF u = Consumer THEN "notify" ELSE pc[u]
  BY <1>1, <1>2 DEF Steps
<1>5. \A p \in Producers : pc'[p] = pc[p]
  BY <1>2, <1>4
<1>6. TypeOK'
  BY <1>1, <1>3, <1>4 DEF RingInv, TypeOK, Steps, Waits, Indices
<1>7. Turns'
  BY <1>1, <1>5 DEF RingInv, Turns
<1>8. Places'
  <2>1. Used' <= Capacity /\ (Used < Capacity => Used' < Capacity)
    BY <1>2, <1>3 DEF RingInv, Places
  <2>2. pc'[Consumer] = "notify"
    BY <1>2, <1>4
  <2>3. \A p \in Producers : pc'[p] \in {"copy", "publish"} => Used' < Capacity
    BY <1>5, <2>1 DEF RingInv, Places
  <2>4. \A p \in Producers : pc'[p] = "publish" => m_data'[Slot(m_write_index')] = <<p, pushed'[p]>>
    BY <1>1, <1>5 DEF RingInv, Places
  <2> QED
    BY <2>1, <2>2, <2>3, <2>4 DEF Places, Slot
<1>9. Filled'
  <2> SUFFICES ASSUME NEW k \in 0 .. Used - 2 PROVE m_data[Slot(m_read_index' + k)] \in Values
    BY <1>1, <1>3 DEF Filled, Slot
  <2>1. k + 1 \in 0 .. Used - 1 /\ m_read_index + 1 + k = m_read_index + (k + 1) /\ k \in Int
    BY <1>2, <1>3 DEF Indices
  <2>2. Slot(m_read_index' + k) = Slot(m_read_index + (k + 1))
    BY <1>3, <2>1
  <2> QED
    BY <2>1, <2>2 DEF RingInv, Filled
<1> QED
  BY <1>6, <1>7, <1>8, <1>9 DEF RingInv

-----------------------------------------------------------------------------
(* Waiting *)

(* A wait, of either side, keeps the invariant: a producer does not give its wait up.         *)
LEMMA WaitKeeps ==
  ASSUME BoundedQueueAssumption, RingInv, NEW t \in Threads, Wait(t) \/ WakeSpuriously(t)
  PROVE  RingInv'
<1>1. /\ UNCHANGED <<ring, write_mutex, pushed, received>> /\ mode' = mode
      /\ stop_requested' = stop_requested
  BY DEF Wait, Lock, EndWait, LookInVain, Sleep, WakeSpuriously
<1>2. cv_mutex \in [{"producer", "consumer"} -> Threads \cup {Nobody}] /\ Side(t) \in {"producer", "consumer"}
  BY DEF RingInv, TypeOK, Side
<1>3. cv_mutex' \in [{"producer", "consumer"} -> Threads \cup {Nobody}]
  BY <1>2 DEF Wait, Lock, EndWait, LookInVain, Sleep, WakeSpuriously
<1>4. t # Consumer => ~Stopped(t)
  BY DEF RingInv, Turns, Stopped, Threads
<1>5. \E x \in Waits \cup {"idle", "copy"} :
        /\ pc' = [pc EXCEPT ![t] = x] /\ pc[t] \in Waits
        /\ (x = "copy" => Ready(t)) /\ (x = "idle" => Stopped(t))
  <2>1. CASE Lock(t)
    BY <2>1 DEF Lock, Goto, Waits
  <2>2. CASE EndWait(t)
    <3>1. CASE Stopped(t)
      BY <2>2, <3>1 DEF EndWait, Goto, Waits
    <3>2. CASE ~Stopped(t)
      BY <2>2, <3>2 DEF EndWait, Goto, Waits
    <3> QED
      BY <3>1, <3>2
  <2>3. CASE LookInVain(t)
    BY <2>3 DEF LookInVain, Goto, Waits
  <2>4. CASE Sleep(t)
    <3>1. PICK x \in {"woken", "asleep"} : pc' = [pc EXCEPT ![t] = x]
      BY <2>4 DEF Sleep, Goto
    <3>2. pc[t] \in Waits /\ x \in Waits /\ x # "copy" /\ x # "idle"
      BY <2>4 DEF Sleep, Goto, Waits
    <3> QED
      BY <3>1, <3>2
  <2>5. CASE WakeSpuriously(t)
    BY <2>5 DEF WakeSpuriously, Goto, Waits
  <2> QED
    BY <2>1, <2>2, <2>3, <2>4, <2>5 DEF Wait
<1>6. PICK x \in Waits \cup {"idle", "copy"} :
        /\ pc' = [pc EXCEPT ![t] = x] /\ pc[t] \in Waits
        /\ (x = "copy" => Ready(t)) /\ (x = "idle" => Stopped(t))
  BY <1>5
<1>7. mode' \in [Threads -> {"try", "wait", "stop"}] /\ stop_requested' \in BOOLEAN
  BY <1>1 DEF RingInv, TypeOK
<1>8. \A p \in Producers : mode'[p] = mode[p]
  BY <1>1
<1>9. x = "copy" => Ready(t)
  BY <1>6
<1>10. t # Consumer => pc[t] \in Waits /\ x # "idle"
  BY <1>4, <1>6
<1> QED
  BY <1>1, <1>3, <1>6, <1>7, <1>8, <1>9, <1>10, MoveKeeps

(* A stop that is requested keeps the invariant.                                              *)
LEMMA RequestStopKeeps == ASSUME BoundedQueueAssumption, RingInv, RequestStop PROVE RingInv'
<1> DEFINE x == IF pc[Consumer] = "asleep" /\ mode[Consumer] = "stop" THEN "woken" ELSE pc[Consumer]
<1>1. /\ m_read_index' = m_read_index /\ m_write_index' = m_write_index /\ m_data' = m_data
      /\ mode' = mode /\ cv_mutex' = cv_mutex /\ stop_requested' = TRUE /\ received' = received
      /\ write_mutex' = write_mutex /\ pushed' = pushed /\ pc' = [pc EXCEPT ![Consumer] = x]
  BY DEF RequestStop, ring
<1>2. /\ pc \in [Threads -> Steps] /\ Consumer \in Threads /\ Consumer \notin Producers
      /\ Producers \subseteq Threads
  BY RingFacts
<1>3. /\ pc' \in [Threads -> Steps] /\ \A p \in Producers : pc'[p] = pc[p]
      /\ pc'[Consumer] \in {"copy", "publish"} => pc[Consumer] \in {"copy", "publish"}
  BY <1>1, <1>2 DEF Steps, Waits
<1>4. Used' = Used
  BY <1>1 DEF Used
<1>5. TypeOK'
  BY <1>1, <1>3 DEF RingInv, TypeOK, Steps, Waits
<1>6. Turns' /\ Places' /\ Filled'
  BY <1>1, <1>3, <1>4 DEF RingInv, Turns, Places, Filled, Slot
<1> QED
  BY <1>5, <1>6 DEF RingInv

(* A thread that notifies the other side is done, and a producer gives its turn up.           *)
LEMMA NotifyKeeps ==
  ASSUME BoundedQueueAssumption, RingInv, NEW t \in Threads, Notify(t)
  PROVE  RingInv'
<1>1. /\ m_read_index' = m_read_index /\ m_write_index' = m_write_index /\ m_data' = m_data
      /\ mode' = mode /\ cv_mutex' = cv_mutex /\ stop_requested' = stop_requested
      /\ pushed' = pushed /\ received' = received /\ pc[t] = "notify"
      /\ write_mutex' = IF t = write_mutex THEN Nobody ELSE write_mutex
  BY DEF Notify, ring
<1>2. /\ pc \in [Threads -> Steps] /\ Consumer \in Threads /\ Consumer \notin Producers
      /\ Producers \subseteq Threads /\ Nobody \notin Producers
      /\ write_mutex \in Producers \cup {Nobody}
  BY RingFacts DEF BoundedQueueAssumption
<1>3. /\ pc' \in [Threads -> Steps] /\ pc'[t] = "idle"
      /\ \A u \in Threads : u # t => pc'[u] = pc[u] \/ (pc[u] = "asleep" /\ pc'[u] = "woken")
  BY <1>2 DEF Notify, Sleeping, Steps, Waits
<1>4. Used' = Used
  BY <1>1 DEF Used
<1>5. TypeOK'
  BY <1>1, <1>2, <1>3 DEF RingInv, TypeOK, Steps, Waits
<1>6. \A u \in Threads : pc'[u] \in {"copy", "publish"} => pc'[u] = pc[u]
  BY <1>3
<1>7. Turns'
  <2> SUFFICES ASSUME NEW q \in Producers
               PROVE  /\ pc'[q] # "idle" <=> write_mutex' = q
                      /\ mode'[q] \in {"try", "wait"}
                      /\ pc'[q] \in Waits \cup {"copy"} => pushed'[q] < Pushes
                      /\ pc'[q] = "publish" => pushed'[q] # 0
    BY DEF Turns
  <2>1. pc'[q] # "idle" <=> write_mutex' = q
    <3>1. CASE q = t
      BY <1>1, <1>2, <1>3, <3>1 DEF RingInv, Turns
    <3>2. CASE q # t
      <4>1. pc'[q] # "idle" <=> pc[q] # "idle"
        BY <1>2, <1>3, <3>2
      <4>2. write_mutex' = q <=> write_mutex = q
        BY <1>1, <1>2, <3>2
      <4> QED
        BY <4>1, <4>2 DEF RingInv, Turns
    <3> QED
      BY <3>1, <3>2
  <2>2. pc'[q] \in Waits \cup {"copy"} => pc[q] \in Waits \cup {"copy"}
    BY <1>2, <1>3 DEF Waits
  <2>3. pc'[q] = "publish" => pc[q] = "publish"
    BY <1>2, <1>3
  <2> QED
    BY <1>1, <2>1, <2>2, <2>3 DEF RingInv, Turns
<1>8. Places'
  <2>1. \A p \in Producers : pc'[p] \in {"copy", "publish"} => Used < Capacity
    BY <1>2, <1>6 DEF RingInv, Places
  <2>2. \A p \in Producers : pc'[p] = "publish" => m_data[Slot(m_write_index)] = <<p, pushed[p]>>
    BY <1>2, <1>6 DEF RingInv, Places
  <2>3. pc'[Consumer] \in {"copy", "publish"} => Used # 0
    BY <1>2, <1>6 DEF RingInv, Places
  <2> QED
    BY <1>1, <1>4, <2>1, <2>2, <2>3 DEF RingInv, Places
<1>9. Filled'
  BY <1>1, <1>4 DEF RingInv, Filled
<1> QED
  BY <1>5, <1>7, <1>8, <1>9 DEF RingInv

-----------------------------------------------------------------------------
(* The ring is a queue *)

(* The invariant holds of an empty ring.                                                      *)
LEMMA RingBegins == ASSUME BoundedQueueAssumption, Init PROVE RingInv
<1>1. /\ Width \in Nat \ {0} /\ Capacity \in Nat \ {0} /\ Pushes \in Nat
      /\ Consumer \in Threads /\ Consumer \notin Producers /\ Producers \subseteq Threads
      /\ Nobody \notin Producers
  BY DEF BoundedQueueAssumption, Threads
<1>2. Used = 0
  BY <1>1, RemainderSmall DEF Init, Used
<1>3. TypeOK
  <2>1. m_read_index \in 0 .. Width - 1 /\ m_write_index \in 0 .. Width - 1
    BY <1>1 DEF Init
  <2>2. received \in Seq(Values)
    BY EmptySeq DEF Init
  <2>3. pushed \in [Producers -> 0 .. Pushes]
    BY <1>1 DEF Init
  <2> QED
    BY <2>1, <2>2, <2>3 DEF Init, TypeOK
<1>4. Turns
  BY <1>1 DEF Init, Turns, Waits
<1>5. Places
  BY <1>1, <1>2 DEF Init, Places
<1>6. Filled
  BY <1>2 DEF Filled
<1> QED
  BY <1>3, <1>4, <1>5, <1>6 DEF RingInv

(* Every step keeps the invariant.                                                            *)
LEMMA RingStays ==
  ASSUME BoundedQueueAssumption, RingInv, [Next]_vars
  PROVE  RingInv'
<1>1. Producers \subseteq Threads /\ Consumer \in Threads
  BY DEF Threads
<1>2. ASSUME NEW p \in Producers, ProducerNext(p) PROVE RingInv'
  <2>1. p \in Threads
    BY <1>1
  <2> QED
    BY <1>2, <2>1, StartPushKeeps, EmplaceKeeps, PublishWriteKeeps, WaitKeeps, NotifyKeeps
    DEF ProducerNext
<1>3. CASE ConsumerNext
  BY <1>1, <1>3, StartPopKeeps, PopKeeps, PublishReadKeeps, WaitKeeps, NotifyKeeps DEF ConsumerNext
<1>4. ASSUME NEW t \in Threads, WakeSpuriously(t) PROVE RingInv'
  BY <1>4, WaitKeeps
<1>5. CASE RequestStop
  BY <1>5, RequestStopKeeps
<1>6. CASE UNCHANGED vars
  <2>1. /\ m_read_index' = m_read_index /\ m_write_index' = m_write_index /\ m_data' = m_data
        /\ mode' = mode /\ cv_mutex' = cv_mutex /\ stop_requested' = stop_requested
        /\ write_mutex' = write_mutex /\ pushed' = pushed /\ pc' = pc /\ received' = received
    BY <1>6 DEF vars, ring
  <2> QED
    BY <2>1 DEF RingInv, TypeOK, Turns, Places, Filled, Used, Slot
<1> QED
  BY <1>2, <1>3, <1>4, <1>5, <1>6 DEF Next

(* A producer past its wait does not write where the consumer reads.                          *)
LEMMA SlotsAreApart == ASSUME BoundedQueueAssumption, RingInv PROVE SlotsApart
<1> SUFFICES ASSUME NEW p \in Producers, pc[p] = "copy", pc[Consumer] \in {"copy", "publish"}
             PROVE  m_write_index % Capacity # m_read_index % Capacity
  BY DEF SlotsApart
<1>1. /\ m_read_index \in Indices /\ m_write_index \in Indices
      /\ Used = Dist(m_read_index, m_write_index) /\ Used \in Nat /\ Capacity \in Nat
  BY RingFacts
<1>2. Used < Capacity /\ Used # 0
  BY DEF RingInv, Places
<1> DEFINE i == m_read_index
           j == m_read_index + Used
<1>3. i \in Int /\ j \in Int /\ i < j /\ j < i + Capacity
  BY <1>1, <1>2 DEF Indices
<1>4. Slot(m_write_index) = Slot(j)
  BY <1>1, SlotFacts
<1>5. Slot(i) # Slot(j)
  <2> HIDE DEF i, j
  <2> QED
    BY <1>1, <1>3, SlotFacts
<1> QED
  BY <1>4, <1>5 DEF Slot

(* Whatever the number of producers, the capacity and the width of the indices, a producer    *)
(* never writes the slot that the consumer reads, though neither looks at the other's index   *)
(* again between its wait and its copy.                                                       *)
THEOREM SlotsAlwaysApart == BoundedQueueAssumption => (Spec => [](TypeOK /\ SlotsApart))
<1> SUFFICES ASSUME BoundedQueueAssumption PROVE Spec => [](TypeOK /\ SlotsApart)
  OBVIOUS
<1>1. Init => RingInv
  BY RingBegins
<1>2. RingInv /\ [Next]_vars => RingInv'
  BY RingStays
<1>3. RingInv => TypeOK /\ SlotsApart
  BY SlotsAreApart DEF RingInv
<1> QED
  BY <1>1, <1>2, <1>3, PTL DEF Spec

-----------------------------------------------------------------------------
(* The refinement *)

\* The values that a ring holds: n from index r on, of which z were popped
Held(r, n, z, data) == [i \in 1 .. n - z |-> data[(r + z + i - 1) % Capacity]]

\* The n slots from index r on hold values
Full(r, n, data) == \A k \in 0 .. n - 1 : data[Slot(r + k)] \in Values

\* Those values, but for the first z, in order
InOrder(q, r, n, z, data) ==
  /\ q \in Seq(Values) /\ Len(q) = n - z
  /\ \A i \in 1 .. n - z : /\ z + i - 1 \in 0 .. n - 1
                           /\ q[i] = data[Slot(r + (z + i - 1))]

(* What a ring holds is a sequence of values.                                                 *)
LEMMA HeldFacts ==
  ASSUME BoundedQueueAssumption, NEW r \in Int, NEW n \in Nat, NEW z \in Nat, z <= n, NEW data,
         Full(r, n, data)
  PROVE  InOrder(Held(r, n, z, data), r, n, z, data)
<1> DEFINE q == Held(r, n, z, data)
<1>1. n - z \in Nat
  OBVIOUS
<1>2. ASSUME NEW i \in 1 .. n - z
      PROVE  z + i - 1 \in 0 .. n - 1 /\ q[i] = data[Slot(r + (z + i - 1))]
  <2>1. z + i - 1 \in 0 .. n - 1 /\ r + z + i - 1 = r + (z + i - 1)
    OBVIOUS
  <2>2. q[i] = data[(r + z + i - 1) % Capacity]
    BY DEF Held
  <2> QED
    BY <2>1, <2>2 DEF Slot
<1>3. q \in [1 .. n - z -> Values]
  <2>1. \A i \in 1 .. n - z : q[i] \in Values
    BY <1>2 DEF Full
  <2>2. q = [i \in 1 .. n - z |-> q[i]]
    BY DEF Held
  <2> HIDE DEF q
  <2> QED
    BY <2>1, <2>2
<1> HIDE DEF q
<1>4. q \in Seq(Values)
  BY <1>1, <1>3, SeqDef
<1>5. Len(q) = n - z
  BY <1>1, <1>3, <1>4, LenProperties
<1> QED
  BY <1>2, <1>4, <1>5 DEF q, InOrder

\* The queue that the ring is
Queue == Held(m_read_index, Used, Popping, m_data)

(* The queue holds the slots in use but for the one that is being popped.                     *)
LEMMA QueueFacts ==
  ASSUME BoundedQueueAssumption, RingInv
  PROVE  /\ m_read_index \in Int /\ Used \in Nat /\ Popping \in {0, 1} /\ Popping <= Used
         /\ Queue \in Seq(Values) /\ Len(Queue) = Used - Popping
         /\ \A i \in 1 .. Used - Popping :
              /\ Popping + i - 1 \in 0 .. Used - 1
              /\ Queue[i] = m_data[Slot(m_read_index + (Popping + i - 1))]
<1>1. m_read_index \in Int /\ Used \in Nat
  BY RingFacts DEF Indices
<1>2. Popping \in {0, 1} /\ Popping <= Used
  BY <1>1 DEF Popping, RingInv, Places
<1>3. \A k \in 0 .. Used - 1 : m_data[Slot(m_read_index + k)] \in Values
  BY DEF RingInv, Filled
<1> DEFINE r == m_read_index
           n == Used
           z == Popping
<1>4. /\ r \in Int /\ n \in Nat /\ z \in Nat /\ z <= n
      /\ Full(r, n, m_data)
  BY <1>1, <1>2, <1>3 DEF Full
<1> HIDE DEF r, n, z
<1>5. InOrder(Held(r, n, z, m_data), r, n, z, m_data)
  BY <1>4, HeldFacts
<1> QED
  BY <1>1, <1>2, <1>5 DEF Queue, InOrder, r, n, z

\* A step that is none of the queue
Stutters == Queue' = Queue /\ received' = received

(* A step that leaves the ring alone, and the consumer where it was, is none of the queue.    *)
LEMMA SameQueue ==
  ASSUME UNCHANGED <<ring, received>>, pc'[Consumer] = "publish" <=> pc[Consumer] = "publish"
  PROVE  Stutters
<1>1. m_read_index' = m_read_index /\ m_write_index' = m_write_index /\ m_data' = m_data
  BY DEF ring
<1>2. Popping' = Popping /\ Used' = Used
  BY <1>1 DEF Popping, Used
<1> QED
  BY <1>1, <1>2 DEF Stutters, Queue, Held

(* A value is put where the queue is not.                                                     *)
LEMMA EmplaceStutters ==
  ASSUME BoundedQueueAssumption, RingInv, NEW p \in Producers, Emplace(p)
  PROVE  Stutters
<1>1. /\ pc \in [Threads -> Steps] /\ m_data \in [Positions -> Values \cup {Null}]
      /\ Consumer \in Threads /\ Consumer \notin Producers
  BY RingFacts
<1>2. /\ m_read_index' = m_read_index /\ m_write_index' = m_write_index /\ received' = received
      /\ pc' = [pc EXCEPT ![p] = "publish"]
  BY DEF Emplace, Goto
<1>3. Used' = Used /\ Popping' = Popping
  BY <1>1, <1>2 DEF Used, Popping
<1>4. /\ m_data' = [m_data EXCEPT ![Slot(m_write_index)] = <<p, pushed[p] + 1>>]
      /\ \A k \in 0 .. Used - 1 : /\ Slot(m_read_index + k) \in Positions
                                  /\ Slot(m_read_index + k) # Slot(m_write_index)
  BY EmplaceApart
<1>5. \A k \in 0 .. Used - 1 : m_data'[Slot(m_read_index + k)] = m_data[Slot(m_read_index + k)]
  BY <1>1, <1>4
<1>6. /\ m_read_index \in Int /\ Used \in Nat /\ Popping \in {0, 1} /\ Popping <= Used
      /\ Queue \in Seq(Values) /\ Len(Queue) = Used - Popping
      /\ \A i \in 1 .. Used - Popping :
           /\ Popping + i - 1 \in 0 .. Used - 1
           /\ Queue[i] = m_data[Slot(m_read_index + (Popping + i - 1))]
  BY QueueFacts
<1>7. \A k \in 0 .. Used - 1 : m_data'[Slot(m_read_index + k)] \in Values
  BY <1>5 DEF RingInv, Filled
<1> DEFINE q == Held(m_read_index, Used, Popping, m_data')
<1>8. /\ q \in Seq(Values) /\ Len(q) = Used - Popping
      /\ \A i \in 1 .. Used - Popping : q[i] = m_data'[Slot(m_read_index + (Popping + i - 1))]
  <2> DEFINE r == m_read_index
             n == Used
             z == Popping
             d == m_data'
  <2>1. /\ r \in Int /\ n \in Nat /\ z \in Nat /\ z <= n
        /\ Full(r, n, d)
    BY <1>6, <1>7 DEF Full
  <2> HIDE DEF r, n, z, d
  <2>2. InOrder(Held(r, n, z, d), r, n, z, d)
    BY <2>1, HeldFacts
  <2> QED
    BY <2>2 DEF InOrder, r, n, z, d
<1>9. Queue' = q
  BY <1>2, <1>3 DEF Queue, Held
<1> HIDE DEF q
<1>10. q = Queue
  <2>1. \A i \in 1 .. Len(q) : q[i] = Queue[i]
    BY <1>5, <1>6, <1>8
  <2> QED
    BY <1>6, <1>8, <2>1, SeqEqual
<1> QED
  BY <1>2, <1>9, <1>10 DEF Stutters

(* Giving the slot back takes from the queue what already left it.                            *)
LEMMA PublishReadStutters ==
  ASSUME BoundedQueueAssumption, RingInv, RingInv', PublishRead
  PROVE  Stutters
<1>1. /\ pc \in [Threads -> Steps] /\ Consumer \in Threads
  BY RingFacts
<1>2. /\ pc[Consumer] = "publish" /\ pc' = [pc EXCEPT ![Consumer] = "notify"]
      /\ received' = received /\ m_data' = m_data
  BY DEF PublishRead, Goto
<1>3. Popping = 1 /\ Popping' = 0
  BY <1>1, <1>2 DEF Popping
<1>4. /\ m_read_index' \in Indices /\ Used # 0 /\ Used' = Used - 1 /\ Used \in Nat
      /\ \A k \in Int : Slot(m_read_index' + k) = Slot(m_read_index + 1 + k)
  BY PublishReadFrees
<1>5. /\ m_read_index \in Int /\ Queue \in Seq(Values) /\ Len(Queue) = Used - Popping
      /\ \A i \in 1 .. Used - Popping :
           Queue[i] = m_data[Slot(m_read_index + (Popping + i - 1))]
  BY QueueFacts
<1>6. \A k \in 0 .. Used - 2 : m_data[Slot(m_read_index' + k)] \in Values
  BY <1>2, <1>4 DEF RingInv, Filled, Slot
<1> DEFINE r == m_read_index'
           n == Used - 1
           q == Held(r, n, 0, m_data)
<1>7. /\ q \in Seq(Values) /\ Len(q) = n
      /\ \A i \in 1 .. n : q[i] = m_data[Slot(r + (i - 1))]
  <2>0. r \in Int /\ n \in Nat
    BY <1>4 DEF Indices
  <2>1. r \in Int /\ n \in Nat /\ 0 <= n /\ Full(r, n, m_data)
    <3>1. n - 1 = Used - 2
      BY <1>4
    <3> QED
      BY <1>6, <2>0, <3>1 DEF Full
  <2> HIDE DEF r, n
  <2>2. InOrder(q, r, n, 0, m_data)
    BY <2>1, HeldFacts
  <2>3. n - 0 = n /\ \A i \in 1 .. n : 0 + i - 1 = i - 1
    BY <2>1
  <2> QED
    BY <2>2, <2>3 DEF InOrder
<1>8. Queue' = q
  BY <1>2, <1>3, <1>4 DEF Queue, Held
<1>9. ASSUME NEW i \in 1 .. n PROVE q[i] = Queue[i]
  <2>1. i - 1 \in Int /\ m_read_index + 1 + (i - 1) = m_read_index + (1 + i - 1)
    BY <1>4, <1>5
  <2>2. Slot(r + (i - 1)) = Slot(m_read_index + (1 + i - 1))
    BY <1>4, <2>1
  <2> QED
    BY <1>3, <1>5, <1>7, <2>2
<1> HIDE DEF q
<1>10. q = Queue
  BY <1>3, <1>5, <1>7, <1>9, SeqEqual
<1> QED
  BY <1>2, <1>8, <1>10 DEF Stutters

(* Publishing a value puts it at the end of the queue.                                        *)
LEMMA PublishWritePushes ==
  ASSUME BoundedQueueAssumption, RingInv, RingInv', NEW p \in Producers, PublishWrite(p)
  PROVE  Abstract!Next
<1> DEFINE v == <<p, pushed[p]>>
           n == Used + 1
           q == Held(m_read_index, n, Popping, m_data)
<1>1. /\ pc \in [Threads -> Steps] /\ Consumer \in Threads /\ Consumer \notin Producers
      /\ Capacity \in Nat
  BY RingFacts
<1>2. /\ m_read_index' = m_read_index /\ m_data' = m_data /\ received' = received
      /\ pc' = [pc EXCEPT ![p] = "notify"]
  BY DEF PublishWrite, Goto
<1>3. Popping' = Popping
  BY <1>1, <1>2 DEF Popping
<1>4. /\ Used' = Used + 1 /\ Used < Capacity
      /\ m_data[Slot(m_read_index + Used)] = v /\ v \in Values
  BY PublishWriteAdds
<1>5. /\ m_read_index \in Int /\ Used \in Nat /\ Popping \in {0, 1} /\ Popping <= Used
      /\ Queue \in Seq(Values) /\ Len(Queue) = Used - Popping
      /\ \A i \in 1 .. Used - Popping :
           Queue[i] = m_data[Slot(m_read_index + (Popping + i - 1))]
  BY QueueFacts
<1> HIDE DEF v
<1>6. Queue' = q
  BY <1>2, <1>3, <1>4 DEF Queue, Held
<1>7. /\ q \in Seq(Values) /\ Len(q) = n - Popping
      /\ \A i \in 1 .. n - Popping : q[i] = m_data[Slot(m_read_index + (Popping + i - 1))]
  <2> DEFINE r == m_read_index
             z == Popping
  <2>1. ASSUME NEW k \in 0 .. n - 1 PROVE m_data[Slot(m_read_index + k)] \in Values
    <3>1. CASE k = Used
      BY <1>4, <3>1
    <3>2. CASE k # Used
      <4>1. Used \in Int /\ k \in 0 .. Used
        BY <1>5
      <4>2. k \in 0 .. Used - 1
        BY <3>2, <4>1
      <4> QED
        BY <4>2 DEF RingInv, Filled
    <3> QED
      BY <3>1, <3>2
  <2>2. /\ r \in Int /\ n \in Nat /\ z \in Nat /\ z <= n
        /\ Full(r, n, m_data)
    BY <1>5, <2>1 DEF Full
  <2> HIDE DEF r, n, z
  <2>3. InOrder(Held(r, n, z, m_data), r, n, z, m_data)
    BY <2>2, HeldFacts
  <2> QED
    BY <2>3 DEF InOrder, r, z
<1> HIDE DEF q
<1>8. q = Append(Queue, v)
  <2>1. /\ Append(Queue, v) \in Seq(Values) /\ Len(Append(Queue, v)) = Len(Queue) + 1
        /\ \A i \in 1 .. Len(Queue) : Append(Queue, v)[i] = Queue[i]
        /\ Append(Queue, v)[Len(Queue) + 1] = v
    BY <1>4, <1>5, AppendProperties
  <2>2. Len(q) = Len(Queue) + 1
    BY <1>5, <1>7
  <2>3. ASSUME NEW i \in 1 .. Len(q) PROVE q[i] = Append(Queue, v)[i]
    <3>1. CASE i = Len(q)
      <4>1. Popping + i - 1 = Used
        BY <1>5, <1>7, <3>1
      <4>2. q[i] = v
        BY <1>4, <1>7, <4>1
      <4> QED
        BY <2>1, <2>2, <3>1, <4>2
    <3>2. CASE i # Len(q)
      <4>1. i \in 1 .. Len(Queue) /\ i \in 1 .. Used - Popping /\ i \in 1 .. n - Popping
        BY <1>5, <1>7, <2>2, <3>2
      <4> QED
        BY <1>5, <1>7, <2>1, <4>1
    <3> QED
      BY <3>1, <3>2
  <2> QED
    BY <1>7, <2>1, <2>2, <2>3, SeqEqual
<1>9. Len(Queue) < Capacity
  BY <1>1, <1>4, <1>5
<1>10. PICK x \in Values : x = v
  BY <1>4
<1>11. Abstract!Push(x)
  BY <1>2, <1>6, <1>8, <1>9, <1>10 DEF Abstract!Push, Queue, Held
<1> QED
  BY <1>11 DEF Abstract!Next

(* Popping takes the value at the front of the queue.                                         *)
LEMMA PopPops == ASSUME BoundedQueueAssumption, RingInv, RingInv', Pop PROVE Abstract!Next
<1>1. /\ pc \in [Threads -> Steps] /\ Consumer \in Threads
  BY RingFacts
<1>2. /\ m_read_index' = m_read_index /\ m_write_index' = m_write_index /\ m_data' = m_data
      /\ pc[Consumer] = "copy" /\ pc' = [pc EXCEPT ![Consumer] = "publish"]
  BY DEF Pop, Goto, ring
<1>3. Popping = 0 /\ Popping' = 1 /\ Used' = Used
  BY <1>1, <1>2 DEF Popping, Used
<1>4. Used # 0 /\ received' = Append(received, m_data[Slot(m_read_index)])
  BY PopTakes
<1>5. /\ m_read_index \in Int /\ Used \in Nat
      /\ Queue \in Seq(Values) /\ Len(Queue) = Used
      /\ \A i \in 1 .. Used : Queue[i] = m_data[Slot(m_read_index + (i - 1))]
  <2>1. /\ m_read_index \in Int /\ Used \in Nat
        /\ Queue \in Seq(Values) /\ Len(Queue) = Used - 0
        /\ \A i \in 1 .. Used - 0 : Queue[i] = m_data[Slot(m_read_index + (0 + i - 1))]
    BY <1>3, QueueFacts
  <2>2. Used - 0 = Used /\ \A i \in 1 .. Used : 0 + i - 1 = i - 1
    BY <2>1
  <2> QED
    BY <2>1, <2>2
<1> DEFINE q == Held(m_read_index, Used, 1, m_data)
<1>6. Queue' = q
  BY <1>2, <1>3 DEF Queue, Held
<1>7. /\ q \in Seq(Values) /\ Len(q) = Used - 1
      /\ \A i \in 1 .. Used - 1 : q[i] = m_data[Slot(m_read_index + i)]
  <2> DEFINE r == m_read_index
             n == Used
  <2>1. /\ r \in Int /\ n \in Nat /\ 1 <= n
        /\ Full(r, n, m_data)
    BY <1>4, <1>5 DEF RingInv, Filled, Full
  <2> HIDE DEF r, n
  <2>2. InOrder(Held(r, n, 1, m_data), r, n, 1, m_data)
    BY <2>1, HeldFacts
  <2>3. \A i \in 1 .. n - 1 : 1 + i - 1 = i
    BY <2>1
  <2>4. \A i \in 1 .. n - 1 : Held(r, n, 1, m_data)[i] = m_data[Slot(r + i)]
    BY <2>2, <2>3 DEF InOrder
  <2> QED
    BY <2>2, <2>4 DEF InOrder, r, n
<1> HIDE DEF q
<1>8. Queue # <<>>
  BY <1>4, <1>5, EmptySeq
<1>9. q = Tail(Queue)
  <2>1. /\ Tail(Queue) \in Seq(Values) /\ Len(Tail(Queue)) = Used - 1
        /\ \A i \in 1 .. Used - 1 : Tail(Queue)[i] = Queue[i + 1]
    BY <1>5, <1>8, HeadTailProperties
  <2>2. ASSUME NEW i \in 1 .. Used - 1 PROVE q[i] = Tail(Queue)[i]
    <3>1. PICK j \in 1 .. Used : j = i + 1 /\ j - 1 = i
      BY <1>5
    <3>2. Queue[j] = m_data[Slot(m_read_index + (j - 1))]
      BY <1>5
    <3>3. Tail(Queue)[i] = Queue[j] /\ q[i] = m_data[Slot(m_read_index + i)]
      BY <1>7, <2>1, <3>1
    <3> QED
      BY <3>1, <3>2, <3>3
  <2> QED
    BY <1>7, <2>1, <2>2, SeqEqual
<1>10. Head(Queue) = m_data[Slot(m_read_index)]
  <2>1. Head(Queue) = Queue[1]
    BY <1>5, <1>8
  <2>2. 1 \in 1 .. Used /\ m_read_index + (1 - 1) = m_read_index
    BY <1>4, <1>5
  <2> QED
    BY <1>5, <2>1, <2>2
<1>11. Abstract!Pop
  BY <1>4, <1>6, <1>8, <1>9, <1>10 DEF Abstract!Pop, Queue, Held
<1> QED
  BY <1>11 DEF Abstract!Next

(* Every step of the ring is a step of the queue, or none.                                    *)
LEMMA RingSteps ==
  ASSUME BoundedQueueAssumption, RingInv, RingInv', [Next]_vars
  PROVE  Abstract!Next \/ Stutters
<1>0. /\ pc \in [Threads -> Steps] /\ Consumer \in Threads /\ Consumer \notin Producers
      /\ Producers \subseteq Threads
  BY RingFacts
<1>1. ASSUME NEW t \in Threads, Wait(t) \/ WakeSpuriously(t) PROVE Stutters
  <2>1. UNCHANGED <<ring, received>>
    BY <1>1 DEF Wait, Lock, EndWait, LookInVain, Sleep, WakeSpuriously
  <2>2. pc'[Consumer] = "publish" <=> pc[Consumer] = "publish"
    BY <1>0, <1>1 DEF Wait, Lock, EndWait, LookInVain, Sleep, WakeSpuriously, Goto
  <2> QED
    BY <2>1, <2>2, SameQueue
<1>2. ASSUME NEW t \in Threads, Notify(t) PROVE Stutters
  <2>1. UNCHANGED <<ring, received>>
    BY <1>2 DEF Notify
  <2>2. pc'[Consumer] = "publish" <=> pc[Consumer] = "publish"
    BY <1>0, <1>2 DEF Notify, Sleeping
  <2> QED
    BY <2>1, <2>2, SameQueue
<1>3. ASSUME NEW p \in Producers, StartPush(p) PROVE Stutters
  <2>1. UNCHANGED <<ring, received>>
    BY <1>3 DEF StartPush
  <2>2. pc'[Consumer] = pc[Consumer]
    BY <1>0, <1>3 DEF StartPush, Goto
  <2> QED
    BY <2>1, <2>2, SameQueue
<1>4. CASE StartPop
  <2>1. UNCHANGED <<ring, received>>
    BY <1>4 DEF StartPop
  <2>2. pc'[Consumer] # "publish" /\ pc[Consumer] # "publish"
    BY <1>0, <1>4 DEF StartPop, Goto
  <2> QED
    BY <2>1, <2>2, SameQueue
<1>5. CASE RequestStop
  <2>1. UNCHANGED <<ring, received>>
    BY <1>5 DEF RequestStop
  <2>2. pc'[Consumer] = "publish" <=> pc[Consumer] = "publish"
    BY <1>0, <1>5 DEF RequestStop
  <2> QED
    BY <2>1, <2>2, SameQueue
<1>6. CASE UNCHANGED vars
  <2>1. UNCHANGED <<ring, received>> /\ pc' = pc
    BY <1>6 DEF vars
  <2> QED
    BY <2>1, SameQueue
<1>7. ASSUME NEW p \in Producers, ProducerNext(p) PROVE Abstract!Next \/ Stutters
  BY <1>0, <1>1, <1>2, <1>3, <1>7, EmplaceStutters, PublishWritePushes DEF ProducerNext
<1>8. CASE ConsumerNext
  BY <1>0, <1>1, <1>2, <1>4, <1>8, PopPops, PublishReadStutters DEF ConsumerNext
<1> QED
  BY <1>1, <1>5, <1>6, <1>7, <1>8 DEF Next

(* Whatever the number of producers, the capacity and the width of the indices, the ring is a  *)
(* queue of that capacity: values come out once, in the order in which they were published,    *)
(* however producers, the consumer, their waits and a stop interleave.                         *)
THEOREM RingIsFifo == BoundedQueueAssumption => (Spec => RefinesFifo)
<1> SUFFICES ASSUME BoundedQueueAssumption PROVE Spec => RefinesFifo
  OBVIOUS
<1>1. Init => RingInv
  BY RingBegins
<1>2. RingInv /\ [Next]_vars => RingInv'
  BY RingStays
<1>3. Init => Abstract!Init
  <2> SUFFICES ASSUME Init PROVE Abstract!Init
    OBVIOUS
  <2>1. RingInv
    BY RingBegins
  <2>2. Width \in Nat \ {0} /\ 0 \in 0 .. Width - 1
    BY DEF BoundedQueueAssumption
  <2>3. Used = 0 /\ received = <<>>
    BY <2>2, RemainderSmall DEF Init, Used
  <2>4. Popping = 0
    BY DEF Init, Popping, Threads
  <2>5. Queue \in Seq(Values) /\ Len(Queue) = 0
    BY <2>1, <2>3, <2>4, QueueFacts
  <2>6. Queue = <<>>
    BY <2>5, EmptySeq
  <2> QED
    BY <2>3, <2>6 DEF Abstract!Init, Queue, Held
<1>4. RingInv /\ RingInv' /\ [Next]_vars => [Abstract!Next]_<<Queue, received>>
  BY RingSteps DEF Stutters
<1> QED
  BY <1>1, <1>2, <1>3, <1>4, PTL DEF Spec, RefinesFifo, Abstract!Spec, Queue, Held
=============================================================================
