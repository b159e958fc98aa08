------------------------------- MODULE Backup -------------------------------
(***************************************************************************)
(* The audit log of a hub and the file its snapshots are written to: the   *)
(* hub goes on while snapshot.WriteFile stores what it exported, the       *)
(* process is killed or the machine loses power, a new hub begins with an  *)
(* empty log, and a snapshot that is read back (ReadFile, ImportSnapshot)  *)
(* brings the records in the file with it.                                 *)
(***************************************************************************)
EXTENDS Persist, Integers, Sequences

CONSTANTS
  Cap,       \* NewLog's cap; 0 or less is replaced by DefaultCap
  What,      \* what a record says, apart from its number
  Imported,  \* what the record of an import says
  MaxSeq,    \* bound: the highest number given out
  Foreign    \* bound: the audit parts of snapshots of other hubs

ASSUME CapAssumption == Cap \in Nat \ {0} /\ MaxSeq \in Nat /\ Imported \in What

VARIABLES buf, head, len, seq

Audit == INSTANCE AuditLog WITH Contents <- What

ASSUME ForeignAssumption == Foreign \subseteq Audit!Exported

auditVars == <<buf, head, len, seq>>

backupVars == <<vars, auditVars>>

(* The audit parts a snapshot of this log can have.                        *)
Trails == {recs \in Audit!Exported : Len(recs) <= Cap}

ASSUME ContentsAssumption == Contents = Trails

BackupInit == Init /\ Audit!Init

(* Anything else the hub does that leaves a record.                        *)
Operation == (\E what \in What \ {Imported} : Audit!Log(what)) /\ UNCHANGED vars

(* Bound: the file that is there has reached the disk with its directory   *)
(* before the next snapshot is begun.                                      *)
Settled == named = {file}

(* WriteFile(path, ExportSnapshot())                                       *)
SaveSnapshot(w) == Settled /\ Begin(w, Audit!All) /\ UNCHANGED auditVars

FileStep == (Settle \/ \E w \in Writers : WriterStep(w)) /\ UNCHANGED auditVars

(* ReadFile, Decode and ImportSnapshot.  Decode refuses a torn file; from  *)
(* one without records it makes a snapshot without a list of them.         *)
Restore ==
  /\ file # NoFile /\ file.whole
  /\ \/ file.data = <<>> /\ Audit!ImportBare
     \/ file.data # <<>> /\ Audit!Import(file.data)
  /\ UNCHANGED vars

(* The snapshot of another hub, or one that was written by hand: without a *)
(* list of records, or with one, which may be empty.                       *)
ImportForeign ==
  /\ Audit!ImportBare \/ \E recs \in Foreign : Audit!Import(recs)
  /\ UNCHANGED vars

Crash == (Kill \/ PowerLoss) /\ Audit!Restart

BackupNext ==
  \/ Operation
  \/ \E w \in Writers : SaveSnapshot(w)
  \/ FileStep
  \/ Restore
  \/ ImportForeign
  \/ Crash

BackupSpec == BackupInit /\ [][BackupNext]_backupVars

-----------------------------------------------------------------------------
(* Properties, beside those of Persist.                                    *)

(* The ring, however often it wrapped round or was refilled from a file,   *)
(* holds exactly the newest Cap records.                                   *)
ImplementsTrail == Audit!ImplementsTrail

QueryNewestFirst == Audit!QueryNewestFirst
=============================================================================
