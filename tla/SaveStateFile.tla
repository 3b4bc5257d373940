--------------------------- MODULE SaveStateFile ---------------------------
(***************************************************************************)
(* How a save state reaches the card on the Switch (System::SaveState): it *)
(* is written to a temporary file, the old state is renamed to a backup,   *)
(* the temporary file is renamed to the path of the slot, and the backup   *)
(* is deleted.  Every operation on a file may fail, and the program may    *)
(* end between any two of them.  Load reads the path of the slot only.     *)
(***************************************************************************)
EXTENDS Integers

CONSTANTS
  RenameReplaces,   \* whether rename replaces an existing file: the file system's choice
  Saves,            \* bound: states that are saved
  Failures,         \* bound: operations on files that fail
  Crashes           \* bound: times the program ends

ASSUME SaveAssumption ==
  /\ RenameReplaces \in BOOLEAN
  /\ Saves \in Nat /\ Failures \in Nat /\ Crashes \in Nat

Names == {"path", "temp", "backup"}
NoFile == -1
Partial == 0
States == 1 .. Saves      \* a complete file holds the state with this number

VARIABLES
  files,
  pc, backup_created,     \* of SaveState
  number,                 \* of the state that is saved, or was saved last
  saved,                  \* the last state whose saving returned
  message,                \* of the last exception
  failures, crashes

vars == <<files, pc, backup_created, number, saved, message, failures, crashes>>
counters == <<number, saved, crashes>>

TypeOK ==
  /\ files \in [Names -> {NoFile, Partial} \cup States]
  /\ pc \in {"idle", "write", "delete", "backup", "replace", "restore", "exit", "undo", "done"}
  /\ backup_created \in BOOLEAN
  /\ number \in 0 .. Saves /\ saved \in 0 .. number
  /\ message \in {"none", "failed", "kept"}
  /\ failures \in 0 .. Failures /\ crashes \in 0 .. Crashes

Init ==
  /\ files = [f \in Names |-> NoFile]
  /\ pc = "idle" /\ backup_created = FALSE
  /\ number = 0 /\ saved = 0 /\ message = "none"
  /\ failures = 0 /\ crashes = 0

-----------------------------------------------------------------------------
(* Files *)

Fault == failures < Failures /\ failures' = failures + 1

Exists(f) == files[f] # NoFile

CanRename(src, dst) == Exists(src) /\ (RenameReplaces \/ ~Exists(dst))

Renamed(src, dst) ==
  /\ CanRename(src, dst)
  /\ files' = [files EXCEPT ![dst] = files[src], ![src] = NoFile]
  /\ UNCHANGED failures

RenameFails(src, dst) ==
  /\ UNCHANGED files
  /\ IF CanRename(src, dst) THEN Fault ELSE UNCHANGED failures

\* FileUtil::Delete, whose result no caller looks at
Delete(f) ==
  \/ files' = [files EXCEPT ![f] = NoFile] /\ UNCHANGED failures
  \/ Exists(f) /\ UNCHANGED files /\ Fault

-----------------------------------------------------------------------------
(* System::SaveState *)

\* The temporary file is opened, which truncates it
Open ==
  /\ pc = "idle" /\ number < Saves
  /\ number' = number + 1
  /\ backup_created' = FALSE
  /\ \/ files' = [files EXCEPT !["temp"] = Partial] /\ pc' = "write" /\ message' = "none" /\ UNCHANGED failures
     \/ pc' = "exit" /\ message' = "failed" /\ Fault /\ UNCHANGED files
  /\ UNCHANGED <<saved, crashes>>

\* Faulty: a failed write goes unnoticed
WriteUnchecked ==
  /\ pc = "write"
  /\ pc' = "delete"
  /\ \/ files' = [files EXCEPT !["temp"] = number] /\ UNCHANGED failures
     \/ Fault /\ UNCHANGED files
  /\ UNCHANGED <<backup_created, message, counters>>

\* Header, stream, flush, Finish and Close
Write ==
  /\ pc = "write"
  /\ \/ files' = [files EXCEPT !["temp"] = number] /\ pc' = "delete" /\ UNCHANGED <<failures, message>>
     \/ pc' = "exit" /\ message' = "failed" /\ Fault /\ UNCHANGED files
  /\ UNCHANGED <<backup_created, counters>>

DeleteBackup ==
  /\ pc = "delete"
  /\ Delete("backup")
  /\ pc' = "backup"
  /\ UNCHANGED <<backup_created, message, counters>>

Backup ==
  /\ pc = "backup"
  /\ \/ ~Exists("path") /\ pc' = "replace" /\ UNCHANGED <<files, failures, backup_created, message>>
     \/ Exists("path") /\ Renamed("path", "backup") /\ pc' = "replace" /\ backup_created' = TRUE /\ UNCHANGED message
     \/ Exists("path") /\ RenameFails("path", "backup") /\ pc' = "exit" /\ message' = "failed" /\ UNCHANGED backup_created
  /\ UNCHANGED counters

Replace ==
  /\ pc = "replace"
  /\ \/ Renamed("temp", "path") /\ pc' = "done"
     \/ RenameFails("temp", "path") /\ pc' = "restore"
  /\ UNCHANGED <<backup_created, message, counters>>

\* Faulty: the guard is told that the backup is back in either case
RestoreForgets ==
  /\ pc = "restore"
  /\ pc' = "exit"
  /\ backup_created' = FALSE
  /\ \/ backup_created /\ Renamed("backup", "path") /\ message' = "failed"
     \/ backup_created /\ RenameFails("backup", "path") /\ message' = "failed"
     \/ ~backup_created /\ message' = "kept" /\ UNCHANGED <<files, failures>>
  /\ UNCHANGED counters

Restore ==
  /\ pc = "restore"
  /\ pc' = "exit"
  /\ \/ backup_created /\ Renamed("backup", "path") /\ backup_created' = FALSE /\ message' = "failed"
     \/ backup_created /\ RenameFails("backup", "path") /\ backup_created' = TRUE /\ message' = "kept"
     \/ ~backup_created /\ backup_created' = TRUE /\ message' = "kept" /\ UNCHANGED <<files, failures>>
  /\ UNCHANGED counters

\* The scope guard, in two steps
Exit ==
  /\ pc = "exit"
  /\ Delete("temp")
  /\ pc' = "undo"
  /\ UNCHANGED <<backup_created, message, counters>>

Undo ==
  /\ pc = "undo"
  /\ pc' = "idle"
  /\ IF backup_created /\ ~Exists("path")
       THEN Renamed("backup", "path") \/ RenameFails("backup", "path")
       ELSE UNCHANGED <<files, failures>>
  /\ UNCHANGED <<backup_created, message, counters>>

Done ==
  /\ pc = "done"
  /\ pc' = "idle"
  /\ saved' = number
  /\ IF backup_created THEN Delete("backup") ELSE UNCHANGED <<files, failures>>
  /\ UNCHANGED <<backup_created, message, number, crashes>>

\* The program ends; what was renamed or written stays
Crash ==
  /\ pc # "idle" /\ crashes < Crashes
  /\ crashes' = crashes + 1
  /\ pc' = "idle" /\ message' = "none"
  /\ UNCHANGED <<files, backup_created, number, saved, failures>>

-----------------------------------------------------------------------------
Next ==
  \/ Open \/ Write \/ DeleteBackup \/ Backup \/ Replace \/ Restore
  \/ Exit \/ Undo \/ Done \/ Crash

Spec == Init /\ [][Next]_vars

-----------------------------------------------------------------------------
(* A load never meets a file that was written in part, whatever fails and whenever the        *)
(* program ends: loading tears the running system down before it reads the file.              *)
PathComplete == files["path"] # Partial

Holds(f) == files[f] > 0 /\ files[f] >= saved

(* The last state that was saved, or a later one, exists in some file at every moment.        *)
StateKept == saved # 0 => \E f \in Names : Holds(f)

(* Between saves it can be loaded, or the user was told that it is in the backup.             *)
Loadable ==
  pc = "idle" /\ saved # 0 => Holds("path") \/ (message = "kept" /\ Holds("backup"))

(* SaveState: a state that was saved outlives three operations that fail, and can be loaded   *)
(* between saves, or the user was told where it is; and it outlives the end of the program    *)
(* at any one moment.                                                                         *)
StatesKept ==
  /\ TypeOK
  /\ crashes = 0 /\ failures <= 3 => Loadable /\ StateKept
  /\ crashes <= 1 /\ failures = 0 => StateKept

(* "(old state kept at ...)": when a save says so, the old state is in the backup, or is back *)
(* at its path.                                                                               *)
KeptIsKept ==
  pc = "idle" /\ message = "kept" /\ saved # 0 => Holds("backup") \/ Holds("path")
=============================================================================
