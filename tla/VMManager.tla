----------------------------- MODULE VMManager ------------------------------
(***************************************************************************)
(* The map of an address space (vm_manager.cpp), as operators on a set M   *)
(* of areas: [base, size, perms, state, backing], in pages, where the      *)
(* state is "Free" exactly for the type Free and an area that is not free  *)
(* is backed by the frames from backing on.                                *)
(***************************************************************************)
EXTENDS Integers, FiniteSets, SequencesExt

CONSTANT MAX_ADDRESS

VMManagerAssumption == MAX_ADDRESS \in Nat \ {0}

FreeArea(base, size) ==
  [base |-> base, size |-> size, perms |-> {}, state |-> "Free", backing |-> -1]

\* Reset
EmptyMap == {FreeArea(0, MAX_ADDRESS)}

End(v) == v.base + v.size
FindVMA(M, a) == CHOOSE v \in M : v.base <= a /\ a < End(v)
Overlapping(M, target, size) == {v \in M : v.base < target + size /\ target < End(v)}

CanBeMergedWith(v, w) ==
  /\ v.perms = w.perms /\ v.state = w.state
  /\ v.state # "Free" => v.backing + v.size = w.backing

\* Faulty: the right side keeps the backing memory of the whole area.
SplitVMAUnshifted(M, v, offset) ==
  (M \ {v}) \cup {[v EXCEPT !.size = offset],
                  [v EXCEPT !.base = @ + offset, !.size = @ - offset]}

SplitVMA(M, v, offset) ==
  (M \ {v}) \cup {[v EXCEPT !.size = offset],
                  [v EXCEPT !.base = @ + offset, !.size = @ - offset,
                            !.backing = IF v.state = "Free" THEN @ ELSE @ + offset]}

SplitAt(M, a) ==
  IF a = MAX_ADDRESS \/ FindVMA(M, a).base = a THEN M
  ELSE SplitVMA(M, FindVMA(M, a), a - FindVMA(M, a).base)

\* CarveVMA, CarveVMARange: M with areas that end at both ends of the range, where a range is
\* carved from one free area, or from areas none of which is free.
CanCarveVMA(M, base, size) ==
  LET v == FindVMA(M, base) IN v.state = "Free" /\ base + size <= End(v)
CanCarveVMARange(M, target, size) ==
  \A v \in Overlapping(M, target, size) : v.state # "Free"
Carved(M, target, size) == SplitAt(SplitAt(M, target + size), target)

\* The area at base b and the one after it as one, if they are alike.
JoinedWithNext(M, b) ==
  LET pairs == {vw \in M \X M : /\ vw[1].base = b /\ vw[2].base = End(vw[1])
                                /\ CanBeMergedWith(vw[1], vw[2])}
  IN IF pairs = {} THEN M
     ELSE LET vw == CHOOSE vw \in pairs : TRUE
          IN (M \ {vw[1], vw[2]}) \cup {[vw[1] EXCEPT !.size = @ + vw[2].size]}

MergeAdjacent(M, b) ==
  LET N == JoinedWithNext(M, b)
      before == {v \in N : End(v) = b}
  IN IF before = {} THEN N ELSE JoinedWithNext(N, (CHOOSE v \in before : TRUE).base)

MapBackingMemory(M, target, backing, size, state) ==
  LET N == Carved(M, target, size)
      v == FindVMA(N, target)
  IN MergeAdjacent((N \ {v}) \cup {[v EXCEPT !.perms = {"R", "W"}, !.state = state,
                                             !.backing = backing]}, target)

\* The loop over the areas of a range: each is changed and merged; one that was merged with
\* the area before it has been dealt with.
ForRange(M, target, size, Change(_)) ==
  LET N == Carved(M, target, size)
      bases == SetToSortSeq({v.base : v \in Overlapping(N, target, size)}, <)
      step(L, b) == LET here == {v \in L : v.base = b}
                    IN IF here = {} THEN L
                       ELSE MergeAdjacent((L \ here) \cup {Change(v) : v \in here}, b)
  IN FoldLeft(step, N, bases)

CanChangeMemoryState(M, target, size, state, perms) ==
  \A v \in Overlapping(M, target, size) : v.state = state /\ perms \subseteq v.perms
ChangeMemoryState(M, target, size, state, perms) ==
  ForRange(M, target, size, LAMBDA v : [v EXCEPT !.state = state, !.perms = perms])

UnmapRange(M, target, size) ==
  ForRange(M, target, size, LAMBDA v : FreeArea(v.base, v.size))

ReprotectRange(M, target, size, perms) ==
  ForRange(M, target, size, LAMBDA v : [v EXCEPT !.perms = perms])

\* The area that holds a, all of it.
Reprotect(M, a, perms) ==
  LET v == FindVMA(M, a)
  IN MergeAdjacent((M \ {v}) \cup {[v EXCEPT !.perms = perms]}, v.base)

\* The runs of frames behind a range, in the order of its addresses.
GetBackingBlocksForRange(M, target, size) ==
  LET areas == SetToSortSeq(Overlapping(M, target, size), LAMBDA v, w : v.base < w.base)
      from(v) == IF v.base < target THEN target ELSE v.base
      to(v) == IF End(v) > target + size THEN target + size ELSE End(v)
  IN [i \in DOMAIN areas |->
        [frame |-> areas[i].backing + from(areas[i]) - areas[i].base,
         size |-> to(areas[i]) - from(areas[i])]]

\* What is at address a.
PageAt(M, a) ==
  LET v == FindVMA(M, a)
  IN [state |-> v.state, perms |-> v.perms,
      frame |-> IF v.state = "Free" THEN -1 ELSE v.backing + a - v.base]

=============================================================================
