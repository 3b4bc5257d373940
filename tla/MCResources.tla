----------------------------- MODULE MCResources ----------------------------
(***************************************************************************)
(* Instances of HandleTable, SaveStateFile, ProcessMemory and              *)
(* GameDatabase.  A behaviour is one of a handle table ("handles"); of     *)
(* save states on a card where rename does not replace a file ("saves") or *)
(* does ("replacing"); of the memory of one process with all its calls     *)
(* ("pages"), of one with a larger heap ("areas"), of two processes        *)
(* ("shared"); or of the database of games, where rename replaces a file   *)
(* and the program may end ("renamed"), where it does not ("copied"), and  *)
(* with faults of all kinds ("faults").  What it is not of stays as it was *)
(* in the beginning.                                                       *)
(***************************************************************************)
EXTENDS HandleTable, SaveStateFile, GameDatabase

CONSTANTS p1, p2, r1, r2

VARIABLES
  part,
  vma_map, free_blocks, holding_memory, memory_used, committed, crash

memory_vars == <<vma_map, free_blocks, holding_memory, memory_used, committed, crash>>

\* Save states where rename replaces a file
Replacing == INSTANCE SaveStateFile WITH RenameReplaces <- TRUE

ReadWriteOnly == {{"R", "W"}}
ReadOrWrite == {{"R", "W"}, {"R"}}

Pages == INSTANCE ProcessMemory WITH
  Processes <- {p1}, HeapPages <- 3, Fcram <- 2, MAX_ADDRESS <- 6, AllocPerms <- ReadWriteOnly,
  UnmapPerms <- ReadOrWrite, ProtectPerms <- ReadOrWrite, Careful <- TRUE

Areas == INSTANCE ProcessMemory WITH
  Processes <- {p1}, HeapPages <- 4, Fcram <- 3, MAX_ADDRESS <- 8, AllocPerms <- ReadWriteOnly,
  UnmapPerms <- ReadOrWrite, ProtectPerms <- {}, Careful <- TRUE

Shared == INSTANCE ProcessMemory WITH
  Processes <- {p1, p2}, HeapPages <- 2, Fcram <- 3, MAX_ADDRESS <- 6, AllocPerms <- ReadWriteOnly,
  UnmapPerms <- ReadWriteOnly, ProtectPerms <- ReadWriteOnly, Careful <- TRUE

\* The constants of the module are those of a change that may be cut short
Copied == INSTANCE GameDatabase WITH Misreads <- 0, Errors <- 0, Endings <- 0

Faults == INSTANCE GameDatabase WITH Changes <- 4, Misreads <- 1, Errors <- 2, LateErrors <- 1, Endings <- 1

ASSUME
  /\ Replacing!SaveAssumption
  /\ Pages!VMManagerAssumption /\ Areas!VMManagerAssumption /\ Shared!VMManagerAssumption
  /\ Pages!ProcessMemoryAssumption /\ Areas!ProcessMemoryAssumption /\ Shared!ProcessMemoryAssumption
  /\ Copied!DatabaseAssumption /\ Faults!DatabaseAssumption

AllInit ==
  /\ part \in {"handles", "saves", "replacing", "pages", "areas", "shared",
               "renamed", "copied", "faults"}
  /\ TableInit
  /\ Init
  /\ CASE part = "areas" -> Areas!Init [] part = "shared" -> Shared!Init [] OTHER -> Pages!Init
  /\ DatabaseInit /\ replaces = (part = "renamed")

AllNext ==
  /\ UNCHANGED part
  /\ \/ /\ part = "handles" /\ TableNext
        /\ UNCHANGED <<vars, memory_vars, database_vars>>
     \/ /\ \/ part = "saves" /\ Next
           \/ part = "replacing" /\ Replacing!Next
        /\ UNCHANGED <<table_vars, memory_vars, database_vars>>
     \/ /\ \/ part = "pages" /\ Pages!Next
           \/ part = "areas" /\ Areas!Next
           \/ part = "shared" /\ Shared!Next
        /\ UNCHANGED <<table_vars, vars, database_vars>>
     \/ /\ \/ part = "renamed" /\ DatabaseNext
           \/ part = "copied" /\ Copied!DatabaseNext
           \/ part = "faults" /\ Faults!DatabaseNext
        /\ UNCHANGED <<table_vars, vars, memory_vars>>

AllSpec == AllInit /\ [][AllNext]_<<part, table_vars, vars, memory_vars, database_vars>>

-----------------------------------------------------------------------------
(* The areas, frames and counts of the processes have their types.                                 *)
MemoryTypeOK ==
  CASE part = "areas" -> Areas!TypeOK [] part = "shared" -> Shared!TypeOK [] OTHER -> Pages!TypeOK

(* vm_manager.h: the areas of a map follow one another with neither gap nor overlap, through every *)
(* split and merge.                                                                                *)
AreasTile == part = "areas" => Areas!Tiling

(* vm_manager.h: "regions which are mergeable must always be merged", as long as the program does  *)
(* not change the permissions of its pages.                                                        *)
AreasMerged == part = "areas" => Areas!Merged

(* A process holds exactly the frames its address space shows, none of them is free or held by     *)
(* another, and the counts of pages of the region, the process and the resource limit agree,        *)
(* through aliases, partial frees and exits.                                                       *)
HoldsWhatItMaps == part = "shared" => Shared!HoldsWhatItMaps

(* A page is at two addresses only as the source and the target of a Map, so that to free what is    *)
(* Private takes no page away that is seen elsewhere.                                               *)
PrivateSeenOnce == part = "shared" => Shared!PrivateSeenOnce

\* The address space of the process of "pages", page by page; of other parts, an empty one
Promised == INSTANCE AddressSpace WITH
  Processes <- {p1}, Addresses <- 0 .. 5, Frames <- 0 .. 1,
  page <- [p \in {p1} |-> [a \in 0 .. 5 |->
             IF part = "pages" THEN Pages!At(p, a) ELSE [state |-> "Free", perms |-> {}, frame |-> -1]]],
  free <- IF part = "pages" THEN free_blocks ELSE 0 .. 1

(* ControlMemory: every call changes the pages of its own ranges only, and gives a page that nobody  *)
(* had, although the areas of the map are split, changed and merged again on the way.               *)
RefinesAddressSpace == Promised!Spec

-----------------------------------------------------------------------------

(* VMManager, Process: areas cover the address space once and are merged; frames have one      *)
(* owner, are counted in three places alike, and are seen twice only as an alias.              *)
MemorySound == MemoryTypeOK /\ AreasTile /\ AreasMerged /\ HoldsWhatItMaps /\ PrivateSeenOnce
=============================================================================
