---------------------------- MODULE MCKernelSync ----------------------------
(* Small instances of KernelSync for TLC: threads t1 to t3, mutexes m1 and *)
(* m2, semaphore s1, event e1 and timer k1.  t1 is the main thread.        *)
EXTENDS KernelSync

CONSTANTS t1, t2, t3, m1, m2, s1, e1, k1

OneCore == [t \in Threads |-> 0]
TwoCores == [t \in Threads |-> IF t = t2 THEN 1 ELSE 0]

OneProcess == [t \in Threads |-> t1]
TwoProcesses == [t \in Threads |-> IF t = t3 THEN t3 ELSE t1]

\* The main thread is the least urgent one, so the threads it creates preempt it
Ranked == [t \in Threads |-> IF t = t1 THEN 2 ELSE IF t = t2 THEN 1 ELSE 0]
Descending == [t \in Threads |-> IF t = t1 THEN 1 ELSE 0]

NoJoin == [t \in Threads |-> {}]
OthersJoin == [t \in Threads |-> IF t = t2 THEN {t3} ELSE {t2}]

NoLists == {}
MutexAndEvent == {<<m1, e1>>}
MixedLists == {<<m1, e1>>, <<s1, k1>>}
TwiceSame == {<<e1, e1>>}
=============================================================================
