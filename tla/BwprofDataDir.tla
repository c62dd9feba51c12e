---------------------------- MODULE BwprofDataDir ----------------------------
(***************************************************************************)
(* The data directory of bwprof record: prepareDataDirectory() moves the   *)
(* last recording aside, a new directory is made, bwprof.csv is opened in  *)
(* it by name, and info.txt, once the command has been forked, by name     *)
(* again.  Each test and each file system call is a step; a recorder can   *)
(* be killed between any two of them, and PCM or fork() may fail after the *)
(* directories have been changed.  The removal of the old backup goes file *)
(* by file, and the file system may refuse it at any of them.              *)
(***************************************************************************)
EXTENDS Naturals

CONSTANTS
    Recorders,   \* bwprof record commands, each run once
    Earlier,     \* directories that earlier recordings may have left
    None         \* no directory under a name

Directories == Recorders \cup Earlier

ASSUME DataDirAssumption == /\ None \notin Directories
                            /\ Recorders \cap Earlier = {}

VARIABLES
    slashed,  \* recorders given -d with a slash at the end of the name
    step,     \* where each recorder is
    data,     \* external: the directory called bwprof.data, by who made it
    old,      \* external: the directory called bwprof.data.old
    damaged,  \* external: directories that have lost files
    csv,      \* the directory each recorder has its bwprof.csv open in
    info,     \* the directory each recorder has written its info.txt into
    found,    \* history: what the recorder started last found under bwprof.data
    overlaps  \* history: how often one was started while another one was at work

vars == <<slashed, step, data, old, damaged, csv, info, found, overlaps>>

Over == {"recorded", "failed", "killed"}

AtWork == {r \in Recorders : step[r] \notin Over \cup {"waiting"}}

Goto(r, s) == step' = [step EXCEPT ![r] = s]

-----------------------------------------------------------------------------
\* Mutant: an existing directory is used as it is.
StartInPlace(r) ==
    /\ step[r] = "waiting"
    /\ overlaps' = IF AtWork = {} THEN overlaps ELSE overlaps + 1
    /\ found' = data
    /\ Goto(r, IF data # None THEN "pcm" ELSE "create")
    /\ UNCHANGED <<data, old, damaged, csv, info>>

\* Mutant: the file is opened without a directory.
OpenAnywhere(r) ==
    /\ step[r] = "open"
    /\ csv' = [csv EXCEPT ![r] = step[r]] /\ Goto(r, "fork")
    /\ UNCHANGED <<data, old, damaged, info, found, overlaps>>

Start(r) ==
    /\ step[r] = "waiting"
    /\ overlaps' = IF AtWork = {} THEN overlaps ELSE overlaps + 1
    /\ found' = data
    /\ Goto(r, IF data # None THEN "backup" ELSE "create")
    /\ UNCHANGED <<data, old, damaged, csv, info>>

\* With a slash the backup is called bwprof.data/.old: nothing puts it there.
Backup(r) == IF r \in slashed THEN None ELSE old

CheckBackup(r) ==
    /\ step[r] = "backup"
    /\ Goto(r, IF Backup(r) # None THEN "remove" ELSE "rename")
    /\ UNCHANGED <<data, old, damaged, csv, info, found, overlaps>>

\* Mutant: what is removed is the recording, not the backup.
RemoveData(r) ==
    /\ step[r] = "remove"
    /\ data' = None
    /\ Goto(r, "create")
    /\ UNCHANGED <<old, damaged, csv, info, found, overlaps>>

\* Mutant: remove_all() is not called.
KeepBackup(r) ==
    /\ step[r] = "remove"
    /\ Goto(r, "rename")
    /\ UNCHANGED <<data, old, damaged, csv, info, found, overlaps>>

RemoveBackup(r) ==
    /\ step[r] = "remove"
    /\ old' = None
    /\ Goto(r, "rename")
    /\ UNCHANGED <<data, damaged, csv, info, found, overlaps>>

\* remove_all() on its way ...
RemoveSome(r) ==
    /\ step[r] = "remove" /\ old # None
    /\ damaged' = damaged \cup {old}
    /\ UNCHANGED <<step, data, old, csv, info, found, overlaps>>

\* ... and stopped by the file system: what is left stays where it is.
RemoveFails(r) ==
    /\ step[r] = "remove" /\ old # None
    /\ Goto(r, "failed")
    /\ UNCHANGED <<data, old, damaged, csv, info, found, overlaps>>

\* rename(2) needs its source, which must not be above its target, and replaces an
\* empty directory only.
Empty(d) == d \in Recorders /\ \A q \in Recorders : csv[q] # d /\ info[q] # d

RenameData(r) ==
    /\ step[r] = "rename"
    /\ \/ /\ r \notin slashed /\ data # None
          /\ old = None \/ Empty(old) \/ old \in damaged
          /\ old' = data /\ data' = None /\ Goto(r, "create")
       \/ /\ r \in slashed \/ data = None \/ (old # None /\ ~Empty(old))
          /\ UNCHANGED <<data, old>> /\ Goto(r, "failed")
    /\ UNCHANGED <<damaged, csv, info, found, overlaps>>

\* createDir() fails when the directory is there already.
CreateData(r) ==
    /\ step[r] = "create"
    /\ IF data = None
       THEN data' = r /\ Goto(r, "pcm")
       ELSE UNCHANGED data /\ Goto(r, "failed")
    /\ UNCHANGED <<old, damaged, csv, info, found, overlaps>>

InitializePCM(r) ==
    /\ step[r] = "pcm"
    /\ \E s \in {"open", "failed"} : Goto(r, s)
    /\ UNCHANGED <<data, old, damaged, csv, info, found, overlaps>>

OpenCSVFile(r) ==
    /\ step[r] = "open"
    /\ IF data # None
       THEN csv' = [csv EXCEPT ![r] = data] /\ Goto(r, "fork")
       ELSE UNCHANGED csv /\ Goto(r, "failed")
    /\ UNCHANGED <<data, old, damaged, info, found, overlaps>>

ExecuteCommand(r) ==
    /\ step[r] = "fork"
    /\ \E s \in {"info", "failed"} : Goto(r, s)
    /\ UNCHANGED <<data, old, damaged, csv, info, found, overlaps>>

CollectAndSave(r) ==
    /\ step[r] = "info"
    /\ IF data # None
       THEN info' = [info EXCEPT ![r] = data] /\ Goto(r, "recording")
       ELSE UNCHANGED info /\ Goto(r, "failed")
    /\ UNCHANGED <<data, old, damaged, csv, found, overlaps>>

Finish(r) ==
    /\ step[r] = "recording"
    /\ Goto(r, "recorded")
    /\ UNCHANGED <<data, old, damaged, csv, info, found, overlaps>>

Killed(r) ==
    /\ step[r] \notin Over \cup {"waiting"}
    /\ Goto(r, "killed")
    /\ UNCHANGED <<data, old, damaged, csv, info, found, overlaps>>

-----------------------------------------------------------------------------
Init ==
    /\ slashed \in SUBSET Recorders
    /\ step = [r \in Recorders |-> "waiting"]
    /\ data \in Earlier \cup {None}
    /\ old \in (Earlier \ {data}) \cup {None}
    /\ damaged = {}
    /\ csv = [r \in Recorders |-> None]
    /\ info = [r \in Recorders |-> None]
    /\ found = None
    /\ overlaps = 0

Next == /\ \E r \in Recorders :
              \/ Start(r) \/ CheckBackup(r) \/ RemoveSome(r) \/ RemoveBackup(r)
              \/ RemoveFails(r) \/ RenameData(r) \/ CreateData(r) \/ InitializePCM(r)
              \/ OpenCSVFile(r) \/ ExecuteCommand(r) \/ CollectAndSave(r) \/ Finish(r)
              \/ Killed(r)
        /\ UNCHANGED slashed

Spec == Init /\ [][Next]_vars

-----------------------------------------------------------------------------
TypeOK ==
    /\ slashed \subseteq Recorders
    /\ step \in [Recorders -> Over \cup {"waiting", "backup", "remove", "rename", "create",
                                         "pcm", "open", "fork", "info", "recording"}]
    /\ {data, old, found} \subseteq Directories \cup {None}
    /\ damaged \subseteq Directories
    /\ {csv, info} \subseteq [Recorders -> Directories \cup {None}]
    /\ overlaps \in Nat

\* Recorders that run one after the other: the directory a recorder finds is the
\* last one made, and a recorder that is killed or fails at any step, in the middle of
\* removing the old backup too, leaves it whole and under one of the two names.  Only
\* what was in the backup before is ever given up.
LastRecordingKept == overlaps = 0 /\ found # None => found \in {data, old} \ damaged

\* Recorders that run one after the other: each writes both of its files into the
\* directory it made itself, whatever its predecessors left behind.
RecordsInOwnDirectory ==
    overlaps = 0 => \A r \in Recorders :
        /\ {csv[r], info[r]} \subseteq {None, r}
        /\ step[r] \in {"recording", "recorded"} => csv[r] = r /\ info[r] = r

\* A recorder that runs on its own, and was given no name with a slash at its end, is
\* never stopped by the directories it finds or by what has become of them: only PCM,
\* fork() and a file system that refuses to remove the backup can do that, and a backup
\* that was removed in part is no obstacle to the next one.
StartsOverAnything ==
    [][overlaps' = 0 => \A r \in Recorders \ slashed :
           step'[r] = "failed" => step[r] \in {"remove", "pcm", "fork", "failed"}]_vars

\* Recorders that overlap once: one more bwprof record, whatever becomes of it, does
\* not remove the directory a running one is writing into, nor a file of it.  A third
\* one would, since there is only one backup.
LiveRecordingKept ==
    overlaps <= 1 => \A r \in Recorders :
        step[r] \in {"fork", "info", "recording"} => csv[r] \in {data, old} \ damaged
=============================================================================
