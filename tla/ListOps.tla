------------------------------- MODULE ListOps -------------------------------
(***************************************************************************)
(* An operation on lists that several components share.                    *)
(***************************************************************************)
EXTENDS Naturals, Sequences

\* The list without the elements that are gone from it, the others in their order (the loops
\* and std::remove calls of RemoveWaitingThread and UnscheduleEvent)
Without(list, gone) ==
  LET kept[n \in 0 .. Len(list)] ==
        IF n = 0 THEN <<>>
        ELSE IF list[n] \in gone THEN kept[n - 1] ELSE Append(kept[n - 1], list[n])
  IN kept[Len(list)]
=============================================================================
