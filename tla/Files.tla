-------------------------------- MODULE Files --------------------------------
(***************************************************************************)
(* Settings on disk: atomicWrite of system.c, which writes a file of another *)
(* name, closes it and renames it. The process may be killed or the power    *)
(* fail between any two calls. A build with HAVE_FSYNC makes data and names  *)
(* durable on the way, one with FSYNC_WORKAROUND_ENABLED at the end; the     *)
(* Makefiles of the repository set neither. A build for Windows, which       *)
(* renames to no name that is taken, removes the old file first.             *)
(***************************************************************************)
EXTENDS Naturals

CONSTANTS
    Partly,     \* contents that are not whole
    MaxWrites   \* bound: atomicWrite is called so often

\* What is not whole can be told from every version.
ASSUME WritesAssumption == MaxWrites \in Nat /\ Partly \notin 0 .. MaxWrites

VARIABLES
    build,      \* "plain", "fsync", "sync" (the workaround) or "windows"
    pc,         \* the next call of atomicWrite; "off" when the process is gone
    version,    \* what is being written, or was last
    names,      \* in memory of the system: the files that the two names stand for
    data,       \* in memory: what each file holds
    diskNames, diskData,    \* on disk
    result,     \* of the last atomicWrite
    outage      \* history: the power failed once

vars == <<build, pc, version, names, data, diskNames, diskData, result, outage>>

\* A file that no name stands for, in memory or on disk, is used again.
Inodes == 1 .. 4
NoFile == 0
Contents == {Partly} \cup 0 .. MaxWrites

Builds == {"plain", "fsync", "sync", "windows"}

Init ==
    /\ build \in Builds
    /\ pc = "idle" /\ version = 0 /\ result = "ok" /\ outage = FALSE
    /\ names = [file |-> 1, new |-> NoFile] /\ data = [i \in Inodes |-> IF i = 1 THEN 0 ELSE Partly]
    /\ diskNames = names /\ diskData = data

TypeOK ==
    /\ build \in Builds /\ outage \in BOOLEAN /\ result \in {"ok", "failed", "running"}
    /\ pc \in {"idle", "fwrite", "fsync", "remove", "rename", "sync", "opendir", "off"}
    /\ version \in 0 .. MaxWrites
    /\ names \in [file : Inodes \cup {NoFile}, new : Inodes \cup {NoFile}] /\ data \in [Inodes -> Contents]
    /\ diskNames \in [file : Inodes \cup {NoFile}, new : Inodes \cup {NoFile}] /\ diskData \in [Inodes -> Contents]

\* An error is Lua's to report; the new file stays where it is.
Fail(call) ==
    /\ pc = call
    /\ pc' = "idle" /\ result' = "failed"
    /\ UNCHANGED <<build, version, names, data, diskNames, diskData, outage>>

\* fopen with "w" empties a file that an earlier attempt left, or makes one.
Fopen ==
    /\ pc = "idle" /\ version < MaxWrites
    /\ version' = version + 1
    /\ \/ /\ pc' = "fwrite"
          /\ LET inode == IF names.new # NoFile THEN names.new
                       ELSE CHOOSE i \in Inodes \ {names.file, diskNames.file, diskNames.new} : TRUE
             IN  /\ names' = [names EXCEPT !.new = inode]
                 /\ data' = [data EXCEPT ![inode] = Partly]
       \/ pc' = "idle" /\ UNCHANGED <<names, data>>
    /\ result' = (IF pc' = "idle" THEN "failed" ELSE "running")
    /\ UNCHANGED <<build, diskNames, diskData, outage>>

\* The data may reach the disk after the name.
Fwrite_Unsynced ==
    /\ pc = "fwrite"
    /\ data' = [data EXCEPT ![names.new] = version]
    /\ pc' = IF build = "windows" THEN "remove" ELSE "rename"
    /\ UNCHANGED <<build, version, names, diskNames, diskData, result, outage>>

\* fwrite until all is written, and fflush
Fwrite ==
    /\ pc = "fwrite"
    /\ data' = [data EXCEPT ![names.new] = version]
    /\ pc' = CASE build = "fsync" -> "fsync" [] build = "windows" -> "remove" [] OTHER -> "rename"
    /\ UNCHANGED <<build, version, names, diskNames, diskData, result, outage>>

\* fsync of the file: its data are on disk.
Fsync ==
    /\ pc = "fsync"
    /\ diskData' = [diskData EXCEPT ![names.new] = data[names.new]]
    /\ pc' = "rename"
    /\ UNCHANGED <<build, version, names, data, diskNames, result, outage>>

\* For Windows, fclose and remove: until the rename no name stands for the settings.
Remove ==
    /\ pc = "remove"
    /\ names' = [names EXCEPT !.file = NoFile]
    /\ pc' = "rename"
    /\ UNCHANGED <<build, version, data, diskNames, diskData, result, outage>>

\* fclose and rename
Rename ==
    /\ pc = "rename"
    /\ names' = [file |-> names.new, new |-> NoFile]
    /\ pc' = CASE build = "fsync" -> "opendir" [] build = "sync" -> "sync" [] OTHER -> "idle"
    /\ result' = IF pc' = "idle" THEN "ok" ELSE result
    /\ UNCHANGED <<build, version, data, diskNames, diskData, outage>>

\* sync: all that is in memory is on disk.
Sync ==
    /\ pc = "sync"
    /\ diskNames' = names /\ diskData' = data
    /\ pc' = "idle" /\ result' = "ok"
    /\ UNCHANGED <<build, version, names, data, outage>>

\* opendir, fsync and closedir of the directory: the names are on disk.
FsyncDirectory ==
    /\ pc = "opendir"
    /\ diskNames' = names
    /\ pc' = "idle" /\ result' = "ok"
    /\ UNCHANGED <<build, version, names, data, diskData, outage>>

-----------------------------------------------------------------------------
(* The system *)

\* It writes back what it likes, when it likes; the names all at once.
WriteBack ==
    /\ \/ \E i \in Inodes : diskData' = [diskData EXCEPT ![i] = data[i]] /\ UNCHANGED diskNames
       \/ diskNames' = names /\ UNCHANGED diskData
    /\ UNCHANGED <<build, pc, version, names, data, result, outage>>

\* The process is killed, or leaves in the middle.
Killed ==
    /\ pc # "off"
    /\ pc' = "off"
    /\ UNCHANGED <<build, version, names, data, diskNames, diskData, result, outage>>

\* The power fails: what was in memory only is gone.
PowerFails ==
    /\ names' = diskNames /\ data' = diskData
    /\ pc' = "off" /\ outage' = TRUE
    /\ UNCHANGED <<build, version, diskNames, diskData, result>>

Restart ==
    /\ pc = "off"
    /\ pc' = "idle" /\ result' = (IF result = "running" THEN "failed" ELSE result)
    /\ UNCHANGED <<build, version, names, data, diskNames, diskData, outage>>

Next ==
    \/ Fopen \/ Fwrite \/ Fsync \/ Remove \/ Rename \/ Sync \/ FsyncDirectory
    \/ \E call \in {"fwrite", "fsync", "remove", "rename", "opendir"} : Fail(call)
    \/ WriteBack \/ Killed \/ PowerFails \/ Restart

Spec == Init /\ [][Next]_vars

-----------------------------------------------------------------------------
(* Properties *)

\* Whenever the process is killed or a call fails, the file holds the settings of one
\* atomicWrite or the other, whole, and what atomicWrite reported as written is there;
\* with fsync even if the power fails, with sync what was reported. Only the build for
\* Windows may leave no file, when atomicWrite was interrupted or failed after it had
\* removed the old one (system_atomic_write).
FileSurvives ==
    /\ TypeOK
    /\ build = "fsync" \/ ~outage =>
          /\ IF names.file = NoFile THEN build = "windows" /\ result # "ok" ELSE data[names.file] # Partly
          /\ result = "ok" => data[names.file] = version
    /\ build = "fsync" => diskNames.file # NoFile /\ diskData[diskNames.file] # Partly
    /\ build \in {"fsync", "sync"} /\ result = "ok" =>
          diskNames.file # NoFile /\ diskData[diskNames.file] = version
=============================================================================
