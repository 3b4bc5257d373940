---------------------------- MODULE GameDatabase ----------------------------
(***************************************************************************)
(* The database of games of the Switch frontend (game_db.cpp): each change *)
(* reads the whole file, changes records, writes a temporary file and      *)
(* renames it over the database; where that fails the database is          *)
(* truncated and the temporary file copied into it.  A file that cannot be *)
(* parsed is no array in memory: to add or remove a record then throws,    *)
(* which nobody catches, and to change them all writes it back unparsable. *)
(* Operations may fail, what is left in a buffer may fail to be written as *)
(* the file is closed, and the program may end between any two steps.      *)
(* Both paths of the database name the same file; of a record only its     *)
(* presence is kept.                                                       *)
(***************************************************************************)
EXTENDS Integers

CONSTANTS
  Roms,
  Changes,        \* bound: changes
  Misreads,       \* bound: times an existing database cannot be opened to be read
  Errors,         \* bound: operations of WriteDatabase that fail and say so
  LateErrors,     \* bound: writes that fail as the file is closed
  Endings         \* bound: times the program ends

ASSUME DatabaseAssumption == {Changes, Misreads, Errors, LateErrors, Endings} \subseteq Nat

Absent == [state |-> "absent", records |-> {}]
Unparsable == [state |-> "unparsable", records |-> {}]
Complete(records) == [state |-> "complete", records |-> records]

VARIABLES
  replaces,          \* whether rename replaces an existing file: the file system's choice
  path, temporary,   \* the two files
  step, data,        \* of the change in progress, and what it writes
  change,            \* the records that the change in progress saves and removes
  known,             \* history: records whose saving was reported and that no removal followed
  removed,           \* history: records whose removal was reported and that no saving followed
  cut,               \* history: a file was cut short as it was closed, or the copy over the database
  changes, misreads, errors, late_errors, endings

card == <<replaces, path, temporary>>
counts == <<changes, misreads, errors, late_errors, endings>>
history == <<known, removed, cut>>
database_vars == <<card, step, data, change, history, counts>>

NoChange == [saves |-> {}, removes |-> {}]

DatabaseInit ==
  /\ replaces \in BOOLEAN /\ path = Absent /\ temporary = Absent
  /\ step = "idle" /\ data = Absent /\ change = NoChange
  /\ known = {} /\ removed = {} /\ cut = FALSE
  /\ changes = 0 /\ misreads = 0 /\ errors = 0 /\ late_errors = 0 /\ endings = 0

-----------------------------------------------------------------------------
\* LoadWritableDatabase: an array, unless a file was read that cannot be parsed
Loaded == IF path = Absent THEN Complete({}) ELSE path

Called ==
  /\ step = "idle" /\ changes < Changes /\ changes' = changes + 1
  /\ UNCHANGED <<card, cut, errors, late_errors, endings>>

\* A database d is loaded: that of the file, or an empty one if the file is not there or not opened
Load(d) ==
  /\ Called
  /\ \/ d = Loaded /\ UNCHANGED misreads
     \/ path # Absent /\ d = Complete({}) /\ misreads < Misreads /\ misreads' = misreads + 1

Begin(saves, removes, new) ==
  /\ step' = "open" /\ change' = [saves |-> saves, removes |-> removes] /\ data' = new
  /\ known' = known \ removes /\ removed' = removed \ saves

\* SaveDisplaySettings, SaveInstalledGameRecord, UpdatePlayStats: a record is changed or added
SaveRecord(rom, d) ==
  /\ Load(d) /\ d # Unparsable
  /\ Begin({rom}, {}, Complete(d.records \cup {rom}))

\* RemoveInstalledGameRecord; without such a record it reports success and writes nothing
RemoveRecord(rom, d) ==
  /\ Load(d) /\ d # Unparsable
  /\ \/ rom \in d.records /\ Begin({}, {rom}, Complete(d.records \ {rom}))
     \/ /\ rom \notin d.records /\ known' = known \ {rom} /\ removed' = removed \cup {rom}
        /\ UNCHANGED <<step, data, change>>

\* push_back and erase throw on what is no array: the change is lost and the program ends
ChangeThrows == Called /\ Loaded = Unparsable /\ UNCHANGED <<misreads, step, data, change, known, removed>>

\* LoadGameRecord finds the records of a file that can be parsed
Found == path.records

\* All records get the same settings; what is no array is written as such
SyncDisplaySettings(d) == Load(d) /\ Begin({}, {}, d)

-----------------------------------------------------------------------------
(* WriteDatabase *)

Return(saved) ==
  /\ step' = "idle" /\ change' = NoChange /\ data' = Absent
  /\ known' = IF saved THEN known \cup change.saves ELSE known
  /\ removed' = IF saved THEN removed \cup change.removes ELSE removed

Continue(next) == step' = next /\ UNCHANGED <<data, change, known, removed>>

Error == errors < Errors /\ errors' = errors + 1
LateError == late_errors < LateErrors /\ late_errors' = late_errors + 1

\* Faulty: a temporary file that was left behind is not truncated
OpenKept ==
  /\ step = "open"
  /\ \/ temporary' = (IF temporary = Absent THEN Unparsable ELSE temporary) /\ Continue("write") /\ UNCHANGED errors
     \/ Error /\ Return(FALSE) /\ UNCHANGED temporary
  /\ UNCHANGED <<replaces, path, cut, changes, misreads, late_errors, endings>>

\* The temporary file is truncated, or cannot be opened
OpenTemporary ==
  /\ step = "open"
  /\ \/ temporary' = Unparsable /\ Continue("write") /\ UNCHANGED errors
     \/ Error /\ Return(FALSE) /\ UNCHANGED temporary
  /\ UNCHANGED <<replaces, path, cut, changes, misreads, late_errors, endings>>

\* The stream is looked at before it is closed, so the failure of the last write goes unseen
WriteTemporary ==
  /\ step = "write"
  /\ \/ temporary' = data /\ Continue("rename") /\ UNCHANGED <<cut, errors, late_errors>>
     \/ Error /\ Return(FALSE) /\ UNCHANGED <<temporary, cut, late_errors>>
     \/ LateError /\ Continue("rename") /\ cut' = TRUE /\ UNCHANGED <<temporary, errors>>
  /\ UNCHANGED <<replaces, path, changes, misreads, endings>>

Rename ==
  /\ step = "rename" /\ (replaces \/ path = Absent)
  /\ path' = temporary /\ temporary' = Absent
  /\ Return(TRUE)
  /\ UNCHANGED <<replaces, cut, counts>>

\* The file is there and not replaced, or rename fails for another reason
RenameRefused ==
  /\ step = "rename"
  /\ \/ ~replaces /\ path # Absent /\ UNCHANGED errors
     \/ Error
  /\ Continue("truncate")
  /\ UNCHANGED <<card, cut, changes, misreads, late_errors, endings>>

\* The database is truncated, or cannot be opened and the temporary file is removed all the same
TruncateDatabase ==
  /\ step = "truncate"
  /\ \/ path' = Unparsable /\ Continue("copy") /\ UNCHANGED <<temporary, errors>>
     \/ Error /\ Return(FALSE) /\ temporary' = Absent /\ UNCHANGED path
  /\ UNCHANGED <<replaces, cut, changes, misreads, late_errors, endings>>

\* The temporary file is copied, the streams looked at, closed, and the temporary file removed; to
\* copy one that is empty is taken for a failure
Copy ==
  /\ step = "copy"
  /\ \/ /\ path' = temporary /\ UNCHANGED <<cut, errors, late_errors>>
        /\ Return(TRUE) \/ (temporary = Unparsable /\ Return(FALSE))
     \/ Error /\ Return(FALSE) /\ cut' = TRUE /\ UNCHANGED <<path, late_errors>>
     \/ LateError /\ Return(TRUE) /\ cut' = TRUE /\ UNCHANGED <<path, errors>>
  /\ temporary' = Absent
  /\ UNCHANGED <<replaces, changes, misreads, endings>>

ProgramEnds ==
  /\ step # "idle" /\ endings < Endings /\ endings' = endings + 1
  /\ Return(FALSE)
  /\ cut' = (cut \/ step = "copy")
  /\ UNCHANGED <<card, changes, misreads, errors, late_errors>>

-----------------------------------------------------------------------------
DatabaseNext ==
  \/ \E d \in {Loaded, Complete({})} :
       \/ \E rom \in Roms : SaveRecord(rom, d) \/ RemoveRecord(rom, d)
       \/ SyncDisplaySettings(d)
  \/ ChangeThrows
  \/ OpenTemporary \/ WriteTemporary \/ Rename \/ RenameRefused \/ TruncateDatabase \/ Copy
  \/ ProgramEnds

DatabaseSpec == DatabaseInit /\ [][DatabaseNext]_database_vars

-----------------------------------------------------------------------------
DatabaseTypeOK ==
  /\ replaces \in BOOLEAN
  /\ {path, temporary, data} \subseteq
       [state : {"absent", "unparsable", "complete"}, records : SUBSET Roms]
  /\ step \in {"idle", "open", "write", "rename", "truncate", "copy"}
  /\ change \in [saves : SUBSET Roms, removes : SUBSET Roms]
  /\ {known, removed} \subseteq SUBSET Roms /\ cut \in BOOLEAN
  /\ {changes, misreads, errors, late_errors, endings} \subseteq Nat

(* The database keeps all or nothing: while its file can be parsed, every record whose saving *)
(* was reported and that was not removed is in it, whatever failed and whenever the program   *)
(* ended, also where rename does not replace a file.  Only a database that could not be opened *)
(* is written anew without them.                                                               *)
RecordsKept == misreads = 0 /\ path # Unparsable => known \subseteq Found

(* A record whose removal was reported does not come back by itself, not even from a          *)
(* temporary file that a crash or a failure left behind.                                      *)
RemovedStaysRemoved == misreads = 0 => removed \cap Found = {}

(* Between changes the file can be parsed, so that no change throws, whatever failed and      *)
(* whenever the program ended, unless a file was cut short as it was closed, or the copy over *)
(* the database was: no other step leaves the database in part.                               *)
StaysParsable == step # "copy" /\ path = Unparsable => cut

(* WriteDatabase: the database is never left with some of its records, and it is left with    *)
(* none only where the copy over it, or a write as a file is closed, went wrong.              *)
DatabaseSound == DatabaseTypeOK /\ RecordsKept /\ RemovedStaysRemoved /\ StaysParsable

\* What a step that reports "save ok" shows
SavedIsThereStep == \A rom \in Roms : rom \notin known /\ rom \in known' => rom \in Found'

(* A change that reports "save ok" has left its record in the database.                       *)
SavedIsThere == [][SavedIsThereStep]_database_vars
=============================================================================
