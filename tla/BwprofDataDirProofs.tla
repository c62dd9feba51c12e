------------------------- MODULE BwprofDataDirProofs -------------------------
(***************************************************************************)
(* Proofs about the data directory of bwprof record, for any number of     *)
(* recorders and whatever earlier recordings have left behind.             *)
(***************************************************************************)
EXTENDS BwprofDataDir, TLAPS

-----------------------------------------------------------------------------
(* Type correctness. *)
Steps == Over \cup {"waiting", "backup", "remove", "rename", "create",
                    "pcm", "open", "fork", "info", "recording"}

LEMMA GotoType ==
    ASSUME TypeOK, NEW r \in Recorders, NEW s \in Steps, Goto(r, s)
    PROVE  step' \in [Recorders -> Steps]
  BY DEF TypeOK, Goto, Steps

LEMMA NextType == TypeOK /\ [Next]_vars => TypeOK'
<1> SUFFICES ASSUME TypeOK, [Next]_vars PROVE TypeOK'
  OBVIOUS
<1> USE DEF Steps, Over
<1>0. slashed' = slashed
  BY DEF Next, vars
<1>1. CASE UNCHANGED vars
  BY <1>1 DEF vars, TypeOK
<1>2. ASSUME NEW r \in Recorders, Start(r) PROVE TypeOK'
  BY <1>0, <1>2 DEF Start, Goto, TypeOK
<1>3. ASSUME NEW r \in Recorders, CheckBackup(r) \/ RemoveBackup(r) PROVE TypeOK'
  BY <1>0, <1>3 DEF CheckBackup, RemoveBackup, Goto, TypeOK
<1>4. ASSUME NEW r \in Recorders, RenameData(r) \/ CreateData(r) PROVE TypeOK'
  BY <1>0, <1>4 DEF RenameData, CreateData, Goto, TypeOK, Directories
<1>5. ASSUME NEW r \in Recorders, InitializePCM(r) \/ ExecuteCommand(r) PROVE TypeOK'
  BY <1>0, <1>5 DEF InitializePCM, ExecuteCommand, Goto, TypeOK
<1>6. ASSUME NEW r \in Recorders, OpenCSVFile(r) PROVE TypeOK'
  BY <1>0, <1>6 DEF OpenCSVFile, Goto, TypeOK
<1>7. ASSUME NEW r \in Recorders, CollectAndSave(r) PROVE TypeOK'
  BY <1>0, <1>7 DEF CollectAndSave, Goto, TypeOK
<1>8. ASSUME NEW r \in Recorders, Finish(r) \/ Killed(r) PROVE TypeOK'
  BY <1>0, <1>8 DEF Finish, Killed, Goto, TypeOK
<1>9. ASSUME NEW r \in Recorders, RemoveSome(r) \/ RemoveFails(r) PROVE TypeOK'
  BY <1>0, <1>9 DEF RemoveSome, RemoveFails, Goto, TypeOK
<1>10. QED
  BY <1>1, <1>2, <1>3, <1>4, <1>5, <1>6, <1>7, <1>8, <1>9 DEF Next

\* Type correctness: the two names always stand for directories that were made.
THEOREM TypeCorrect == Spec => []TypeOK
<1>1. Init => TypeOK
  BY DEF Init, TypeOK, Over, Directories
<1>2. QED
  BY <1>1, NextType, PTL DEF Spec

-----------------------------------------------------------------------------
(* The directory under the first name is not the backup and has never been *)
(* one: it is whole.  A recorder's own directory is nowhere before it has  *)
(* been made.                                                              *)
Before == {"waiting", "backup", "remove", "rename", "create"}

NamesInv ==
    /\ data # None => data # old /\ data \notin damaged
    /\ \A r \in Recorders : step[r] \in Before => r \notin {data, old} \cup damaged

LEMMA NextNames == TypeOK /\ NamesInv /\ [Next]_vars => NamesInv'
<1> SUFFICES ASSUME TypeOK, NamesInv, [Next]_vars PROVE NamesInv'
  OBVIOUS
<1> USE DataDirAssumption DEF NamesInv, TypeOK, Before, Over, Goto, Directories
<1>1. CASE UNCHANGED vars
  BY <1>1 DEF vars
<1>2. ASSUME NEW r \in Recorders, Start(r) \/ CheckBackup(r) PROVE NamesInv'
  BY <1>2 DEF Start, CheckBackup
<1>3. ASSUME NEW r \in Recorders, RemoveSome(r) PROVE NamesInv'
  BY <1>3 DEF RemoveSome
<1>4. ASSUME NEW r \in Recorders, RemoveBackup(r) \/ RemoveFails(r) PROVE NamesInv'
  BY <1>4 DEF RemoveBackup, RemoveFails
<1>5. ASSUME NEW r \in Recorders, RenameData(r) PROVE NamesInv'
  BY <1>5 DEF RenameData
<1>6. ASSUME NEW r \in Recorders, CreateData(r) PROVE NamesInv'
  BY <1>6 DEF CreateData
<1>7. ASSUME NEW r \in Recorders, InitializePCM(r) \/ ExecuteCommand(r) PROVE NamesInv'
  BY <1>7 DEF InitializePCM, ExecuteCommand
<1>8. ASSUME NEW r \in Recorders, OpenCSVFile(r) \/ CollectAndSave(r) PROVE NamesInv'
  BY <1>8 DEF OpenCSVFile, CollectAndSave
<1>9. ASSUME NEW r \in Recorders, Finish(r) \/ Killed(r) PROVE NamesInv'
  BY <1>9 DEF Finish, Killed
<1>10. QED
  BY <1>1, <1>2, <1>3, <1>4, <1>5, <1>6, <1>7, <1>8, <1>9 DEF Next

LEMMA NamesCorrect == Spec => []NamesInv
<1>1. Init => NamesInv
  BY DataDirAssumption DEF Init, NamesInv, Directories
<1>2. QED
  BY <1>1, TypeCorrect, NextNames, PTL DEF Spec

-----------------------------------------------------------------------------
(* Recorders that run one after the other. *)
Working(s) == s \notin Over \cup {"waiting"}
Written    == {"recording", "recorded"}
Opened     == {"fork", "info"} \cup Written
Created    == {"pcm", "open", "fork", "info", "recording"}

\* What each step of the only recorder at work has established about the two names.
AloneInv ==
    overlaps = 0 =>
        /\ \A r, q \in Recorders : Working(step[r]) /\ Working(step[q]) => r = q
        /\ found # None => found \in {data, old} \ damaged
        /\ \A r \in Recorders :
              /\ step[r] \in {"backup", "remove", "rename"} => data # None /\ data = found
              /\ step[r] = "rename" /\ r \notin slashed => old = None
              /\ step[r] = "create" => data = None
              /\ step[r] \in Created => data = r
              /\ {csv[r], info[r]} \subseteq {None, r}
              /\ step[r] \in Opened => csv[r] = r
              /\ step[r] \in Written => info[r] = r

LEMMA NextAlone == TypeOK /\ NamesInv /\ AloneInv /\ [Next]_vars => AloneInv'
<1> SUFFICES ASSUME TypeOK, NamesInv, AloneInv, [Next]_vars PROVE AloneInv'
  OBVIOUS
<1> USE DataDirAssumption DEF AloneInv, TypeOK, Working, Written, Opened, Created, Over, Goto,
        Directories
<1>0. slashed' = slashed
  BY DEF Next, vars
<1>1. CASE UNCHANGED vars
  BY <1>1 DEF vars
<1>2. ASSUME NEW r \in Recorders, Start(r) PROVE AloneInv'
  BY <1>0, <1>2 DEF Start, AtWork, NamesInv
<1>3. ASSUME NEW r \in Recorders, CheckBackup(r) PROVE AloneInv'
  BY <1>0, <1>3 DEF CheckBackup, Backup
<1>4. ASSUME NEW r \in Recorders, RemoveBackup(r) PROVE AloneInv'
  BY <1>0, <1>4 DEF RemoveBackup
<1>5. ASSUME NEW r \in Recorders, RenameData(r) PROVE AloneInv'
  BY <1>0, <1>5 DEF RenameData
<1>6. ASSUME NEW r \in Recorders, CreateData(r) PROVE AloneInv'
  BY <1>0, <1>6 DEF CreateData
<1>7. ASSUME NEW r \in Recorders, InitializePCM(r) PROVE AloneInv'
  BY <1>0, <1>7 DEF InitializePCM
<1>8. ASSUME NEW r \in Recorders, OpenCSVFile(r) PROVE AloneInv'
  BY <1>0, <1>8 DEF OpenCSVFile
<1>9. ASSUME NEW r \in Recorders, ExecuteCommand(r) PROVE AloneInv'
  BY <1>0, <1>9 DEF ExecuteCommand
<1>10. ASSUME NEW r \in Recorders, CollectAndSave(r) PROVE AloneInv'
  BY <1>0, <1>10 DEF CollectAndSave
<1>11. ASSUME NEW r \in Recorders, Finish(r) PROVE AloneInv'
  BY <1>0, <1>11 DEF Finish
<1>12. ASSUME NEW r \in Recorders, Killed(r) PROVE AloneInv'
  BY <1>0, <1>12 DEF Killed
<1>13. ASSUME NEW r \in Recorders, RemoveSome(r) PROVE AloneInv'
  BY <1>0, <1>13 DEF RemoveSome, NamesInv
<1>14. ASSUME NEW r \in Recorders, RemoveFails(r) PROVE AloneInv'
  BY <1>0, <1>14 DEF RemoveFails
<1>15. QED
  BY <1>1, <1>2, <1>3, <1>4, <1>5, <1>6, <1>7, <1>8, <1>9, <1>10, <1>11, <1>12, <1>13, <1>14
     DEF Next

LEMMA AloneCorrect == Spec => []AloneInv
<1>1. Init => AloneInv
  BY DataDirAssumption DEF Init, AloneInv, Working, Written, Opened, Created, Over
<1>2. QED
  BY <1>1, TypeCorrect, NamesCorrect, NextAlone, PTL DEF Spec

\* Recorders that run one after the other, any number of them: the directory the last
\* one found is whole and under one of the two names at every step, whatever becomes
\* of it and however far the removal of the old backup gets.
THEOREM LastRecordingIsKept == Spec => []LastRecordingKept
<1>1. AloneInv => LastRecordingKept
  BY DEF AloneInv, LastRecordingKept
<1>2. QED
  BY <1>1, AloneCorrect, PTL

\* Recorders that run one after the other, any number of them: each writes both of
\* its files into the directory it made itself.
THEOREM RecordsInTheirOwn == Spec => []RecordsInOwnDirectory
<1>1. AloneInv => RecordsInOwnDirectory
  BY DEF AloneInv, RecordsInOwnDirectory, Opened, Written
<1>2. QED
  BY <1>1, AloneCorrect, PTL

\* A recorder that runs on its own, whose directory was named without a slash at its
\* end, is stopped by nothing but PCM, fork() and a backup it is not let remove.
THEOREM AlwaysStarts == Spec => StartsOverAnything
<1> DEFINE A == overlaps' = 0 => \A r \in Recorders \ slashed :
                    step'[r] = "failed" => step[r] \in {"remove", "pcm", "fork", "failed"}
<1>1. TypeOK /\ AloneInv /\ [Next]_vars => [A]_vars
  <2> SUFFICES ASSUME TypeOK, AloneInv, [Next]_vars, overlaps' = 0,
                      NEW q \in Recorders \ slashed, step'[q] = "failed"
               PROVE  step[q] \in {"remove", "pcm", "fork", "failed"} \/ UNCHANGED vars
    OBVIOUS
  <2> USE DataDirAssumption DEF TypeOK, Goto, Directories
  <2>1. CASE UNCHANGED vars
    BY <2>1
  <2>2. ASSUME NEW r \in Recorders, Start(r) PROVE step[q] = "failed"
    BY <2>2 DEF Start
  <2>3. ASSUME NEW r \in Recorders, CheckBackup(r) \/ RemoveBackup(r) PROVE step[q] = "failed"
    BY <2>3 DEF CheckBackup, RemoveBackup
  <2>4. ASSUME NEW r \in Recorders, RenameData(r) PROVE step[q] = "failed"
    BY <2>4 DEF RenameData, AloneInv
  <2>5. ASSUME NEW r \in Recorders, CreateData(r) PROVE step[q] = "failed"
    BY <2>5 DEF CreateData, AloneInv
  <2>6. ASSUME NEW r \in Recorders, InitializePCM(r) \/ ExecuteCommand(r)
        PROVE  step[q] \in {"pcm", "fork", "failed"}
    BY <2>6 DEF InitializePCM, ExecuteCommand
  <2>7. ASSUME NEW r \in Recorders, OpenCSVFile(r) PROVE step[q] = "failed"
    BY <2>7 DEF OpenCSVFile, AloneInv, Created
  <2>8. ASSUME NEW r \in Recorders, CollectAndSave(r) PROVE step[q] = "failed"
    BY <2>8 DEF CollectAndSave, AloneInv, Created
  <2>9. ASSUME NEW r \in Recorders, Finish(r) \/ Killed(r) PROVE step[q] = "failed"
    BY <2>9 DEF Finish, Killed
  <2>10. ASSUME NEW r \in Recorders, RemoveSome(r) \/ RemoveFails(r)
         PROVE  step[q] \in {"remove", "failed"}
    BY <2>10 DEF RemoveSome, RemoveFails
  <2>11. QED
    BY <2>1, <2>2, <2>3, <2>4, <2>5, <2>6, <2>7, <2>8, <2>9, <2>10 DEF Next
<1>2. QED
  BY <1>1, TypeCorrect, AloneCorrect, PTL DEF Spec, StartsOverAnything

-----------------------------------------------------------------------------
(* Recorders that overlap once.  Two are at work at most, and the newer one can only  *)
(* still have the backup to remove while the older one is under the first name.       *)
Live(r) == step[r] \in {"fork", "info", "recording"}

OverlapInv ==
    overlaps <= 1 =>
        /\ \A p, q, r \in Recorders :
              Working(step[p]) /\ Working(step[q]) /\ Working(step[r]) => p = q \/ q = r \/ p = r
        /\ \A r \in Recorders : Live(r) => csv[r] # None /\ csv[r] \in {data, old} \ damaged
        /\ \A r, q \in Recorders :
              Live(r) /\ step[q] \in {"backup", "remove"} => csv[r] = data

LEMMA StartOverlap ==
    ASSUME TypeOK, NamesInv, AloneInv, OverlapInv, NEW n \in Recorders, Start(n)
    PROVE  OverlapInv'
<1> USE DataDirAssumption DEF TypeOK, Working, Live, Over, Goto, Directories
<1> SUFFICES ASSUME overlaps' <= 1
             PROVE  /\ (\A p, q, r \in Recorders :
                          Working(step[p]) /\ Working(step[q]) /\ Working(step[r])
                             => p = q \/ q = r \/ p = r)'
                    /\ (\A r \in Recorders : Live(r) => csv[r] # None /\ csv[r] \in {data, old} \ damaged)'
                    /\ (\A r, q \in Recorders :
                          Live(r) /\ step[q] \in {"backup", "remove"} => csv[r] = data)'
  BY DEF OverlapInv
<1>1. overlaps <= 1
  BY DEF Start
<1>2. CASE AtWork = {}
  BY <1>1, <1>2 DEF Start, AtWork, OverlapInv
<1>3. CASE AtWork # {}
  <2>1. overlaps = 0
    BY <1>3 DEF Start
  <2>2. \A r \in Recorders : Live(r) => csv[r] = r /\ data = r /\ r \notin damaged
    BY <2>1 DEF AloneInv, Created, Opened, Written, NamesInv
  <2>3. \A r, q \in Recorders : Working(step[r]) /\ Working(step[q]) => r = q
    BY <2>1 DEF AloneInv
  <2>4. QED
    BY <2>2, <2>3 DEF Start
<1>4. QED
  BY <1>2, <1>3

LEMMA RenameOverlap ==
    ASSUME TypeOK, NamesInv, OverlapInv, NEW n \in Recorders, RenameData(n)
    PROVE  OverlapInv'
  BY DataDirAssumption DEF TypeOK, NamesInv, OverlapInv, Working, Live, Over, Goto, Directories,
     RenameData, Empty

LEMMA NextOverlap == TypeOK /\ NamesInv /\ AloneInv /\ OverlapInv /\ [Next]_vars => OverlapInv'
<1> SUFFICES ASSUME TypeOK, NamesInv, AloneInv, OverlapInv, [Next]_vars PROVE OverlapInv'
  OBVIOUS
<1> USE DataDirAssumption DEF OverlapInv, TypeOK, Working, Live, Over, Goto, Directories
<1>1. CASE UNCHANGED vars
  BY <1>1 DEF vars
<1>3. ASSUME NEW r \in Recorders, CheckBackup(r) PROVE OverlapInv'
  BY <1>3 DEF CheckBackup
<1>4. ASSUME NEW r \in Recorders, RemoveBackup(r) PROVE OverlapInv'
  BY <1>4 DEF RemoveBackup
<1>6. ASSUME NEW r \in Recorders, CreateData(r) PROVE OverlapInv'
  BY <1>6 DEF CreateData
<1>7. ASSUME NEW r \in Recorders, InitializePCM(r) PROVE OverlapInv'
  BY <1>7 DEF InitializePCM
<1>8. ASSUME NEW r \in Recorders, OpenCSVFile(r) PROVE OverlapInv'
  BY <1>8 DEF OpenCSVFile, NamesInv
<1>9. ASSUME NEW r \in Recorders, ExecuteCommand(r) PROVE OverlapInv'
  BY <1>9 DEF ExecuteCommand
<1>10. ASSUME NEW r \in Recorders, CollectAndSave(r) PROVE OverlapInv'
  BY <1>10 DEF CollectAndSave
<1>11. ASSUME NEW r \in Recorders, Finish(r) PROVE OverlapInv'
  BY <1>11 DEF Finish
<1>12. ASSUME NEW r \in Recorders, Killed(r) PROVE OverlapInv'
  BY <1>12 DEF Killed
<1>13. ASSUME NEW r \in Recorders, RemoveSome(r) PROVE OverlapInv'
  BY <1>13 DEF RemoveSome, NamesInv
<1>14. ASSUME NEW r \in Recorders, RemoveFails(r) PROVE OverlapInv'
  BY <1>14 DEF RemoveFails
<1>15. QED
  BY <1>1, <1>3, <1>4, <1>6, <1>7, <1>8, <1>9, <1>10, <1>11, <1>12, <1>13, <1>14,
     StartOverlap, RenameOverlap DEF Next

\* Recorders that overlap once: the directory a running one writes into keeps one of
\* the two names and every file in it, whatever the other one does in between and whatever came before.
THEOREM LiveRecordingIsKept == Spec => []LiveRecordingKept
<1>1. Init => OverlapInv
  BY DEF Init, OverlapInv, Working, Live, Over
<1>2. OverlapInv => LiveRecordingKept
  BY DEF OverlapInv, LiveRecordingKept, Live
<1>3. QED
  BY <1>1, <1>2, TypeCorrect, NamesCorrect, AloneCorrect, NextOverlap, PTL DEF Spec
=============================================================================
