---------------------------- MODULE AddressSpace ----------------------------
(***************************************************************************)
(* What the memory calls of a process promise, page by page: a call        *)
(* changes the pages of its own ranges and no others, and a page that is   *)
(* given to a process is one that nobody had.  There are no areas here to  *)
(* split and merge, and no choice of which free page is given first.       *)
(***************************************************************************)
EXTENDS Integers, FiniteSets

CONSTANTS Processes, Addresses, Frames

VARIABLES
  page,   \* of each process and address: [state, perms, frame]
  free    \* frames nobody has

vars == <<page, free>>

ReadWrite == {"R", "W"}
Unmapped == [state |-> "Free", perms |-> {}, frame |-> -1]

Init ==
  /\ page = [p \in Processes |-> [a \in Addresses |-> Unmapped]]
  /\ free = Frames

Range(a, n) == a .. a + n - 1
IsFree(p, T) == \A a \in T : page[p][a] = Unmapped
IsMapped(p, T) == \A a \in T : page[p][a] # Unmapped

\* The pages of T become f, those of other addresses and processes stay.
Becomes(p, T, f) == page' = [page EXCEPT ![p] = [a \in Addresses |-> IF a \in T THEN f[a] ELSE @[a]]]

Permissions == SUBSET ReadWrite

Commit(p, T, state) ==
  /\ IsFree(p, T)
  /\ Cardinality(free \ free') = Cardinality(T) /\ free' \subseteq free
  /\ \E f \in [T -> free \ free'], perms \in Permissions :
       /\ \A a, b \in T : a # b => f[a] # f[b]
       /\ Becomes(p, T, [a \in T |-> [state |-> state, perms |-> perms, frame |-> f[a]]])

Release(p, T) ==
  /\ IsMapped(p, T)
  /\ free' = free \cup {page[p][a].frame : a \in T}
  /\ Becomes(p, T, [a \in T |-> Unmapped])

\* The pages at source are marked and appear a second time at target.
Alias(p, target, source, n, marked, held, state) ==
  LET T == Range(target, n)
      S == Range(source, n)
  IN /\ UNCHANGED free
     /\ IsFree(p, T)
     /\ \A a \in S : page[p][a].state = "Private" /\ ReadWrite \subseteq page[p][a].perms
     /\ \E perms \in Permissions :
          Becomes(p, T \cup S,
            [a \in T \cup S |->
               IF a \in S THEN [page[p][a] EXCEPT !.state = marked, !.perms = held]
               ELSE [state |-> state, perms |-> perms, frame |-> page[p][a - target + source].frame]])

Unalias(p, target, source, n, marked) ==
  LET T == Range(target, n)
      S == Range(source, n)
  IN /\ UNCHANGED free
     /\ IsMapped(p, T)
     /\ \A a \in S : page[p][a].state = marked
     /\ \E perms \in Permissions :
          Becomes(p, T \cup S,
            [a \in T \cup S |->
               IF a \in S THEN [page[p][a] EXCEPT !.state = "Private", !.perms = perms]
               ELSE Unmapped])

Restate(p, T, from, to) ==
  /\ UNCHANGED free
  /\ \A a \in T : page[p][a].state = from
  /\ \E perms \in Permissions :
       Becomes(p, T, [a \in T |-> [page[p][a] EXCEPT !.state = to, !.perms = perms]])

Protect(p, T) ==
  /\ UNCHANGED free
  /\ IsMapped(p, T)
  /\ \E perms \in Permissions :
       Becomes(p, T, [a \in T |-> [page[p][a] EXCEPT !.perms = perms]])

\* The process ends, and what it had is free.
Exit(p) ==
  /\ page' = [page EXCEPT ![p] = [a \in Addresses |-> Unmapped]]
  /\ free' = free \cup {page[p][a].frame : a \in {b \in Addresses : page[p][b] # Unmapped}}

Sizes == 1 .. Cardinality(Addresses)
Ranges(n) == {a \in Addresses : Range(a, n) \subseteq Addresses}

Next ==
  \E p \in Processes :
    \/ Exit(p)
    \/ \E n \in Sizes : \E t \in Ranges(n) :
         \/ \E s \in {"Private", "Continuous"} : Commit(p, Range(t, n), s)
         \/ Release(p, Range(t, n))
         \/ Protect(p, Range(t, n))
         \/ Restate(p, Range(t, n), "Private", "AliasCode")
         \/ Restate(p, Range(t, n), "AliasCode", "Private")
         \/ \E s \in {s \in Ranges(n) : Range(s, n) \cap Range(t, n) = {}} :
              \/ Alias(p, t, s, n, "Aliased", ReadWrite, "Alias")
              \/ Alias(p, t, s, n, "Locked", {}, "AliasCode")
              \/ Unalias(p, t, s, n, "Aliased")
              \/ Unalias(p, t, s, n, "Locked")

Spec == Init /\ [][Next]_vars

=============================================================================
