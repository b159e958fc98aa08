------------------------------ MODULE Persist ------------------------------
(***************************************************************************)
(* store.AtomicWriteFile (internal/store/persist.go), one step per system  *)
(* call, each of which may fail; callers that write the same path at the   *)
(* same time (the hub under its lock, snapshot.WriteFile under none); a    *)
(* process that is killed and a machine that loses power between any two   *)
(* steps.  AtomicFile says what it is for.                                 *)
(*                                                                         *)
(* The file system is the usual one: what was written but not synced may   *)
(* be gone or torn after a power loss, a rename is one step but need not   *)
(* be on the disk yet, and a name that CreateTemp returned is not in use.  *)
(***************************************************************************)
CONSTANTS
  Writers,   \* the calls that may be under way
  Contents,  \* bound: what they write
  NoFile,    \* there is no file
  Half       \* what a reader makes of a torn file

ASSUME NoFileAssumption == NoFile \notin Contents /\ Half \notin Contents

VARIABLES
  pc,        \* writer -> the step it makes next
  want,      \* writer -> what it writes, NoFile while it does not
  tmp,       \* writer -> its temporary file
  file,      \* what the path names
  named,     \* what the path may name after a power loss
  litter     \* a temporary file was left that nobody will remove

vars == <<pc, want, tmp, file, named, litter>>

File == [data : Contents, whole : BOOLEAN, synced : BOOLEAN]

ASSUME FileAssumption == NoFile \notin File

Init ==
  /\ pc = [w \in Writers |-> "idle"]
  /\ want = [w \in Writers |-> NoFile]
  /\ tmp = [w \in Writers |-> NoFile]
  /\ file = NoFile
  /\ named = {NoFile}
  /\ litter = FALSE

Goto(w, there) == pc' = [pc EXCEPT ![w] = there]

SetTmp(w, f) == tmp' = [tmp EXCEPT ![w] = f]

-----------------------------------------------------------------------------
(* The steps of one call.                                                  *)

Begin(w, c) ==
  /\ pc[w] = "idle"
  /\ Goto(w, "create")
  /\ want' = [want EXCEPT ![w] = c]
  /\ UNCHANGED <<tmp, file, named, litter>>

(* MkdirAll and CreateTemp; nothing is to be removed yet if they fail.     *)
Create(w) ==
  /\ pc[w] = "create"
  /\ \/ Goto(w, "write") /\ SetTmp(w, [data |-> want[w], whole |-> FALSE, synced |-> FALSE])
     \/ Goto(w, "err") /\ UNCHANGED tmp
  /\ UNCHANGED <<want, file, named, litter>>

(* tmp.Write                                                               *)
Write(w) ==
  /\ pc[w] = "write"
  /\ \/ Goto(w, "sync") /\ tmp' = [tmp EXCEPT ![w].whole = TRUE]
     \/ Goto(w, "remove") /\ UNCHANGED tmp
  /\ UNCHANGED <<want, file, named, litter>>

(* mutant: the data is not synced before the rename *)
SyncSkipped(w) ==
  /\ pc[w] = "sync"
  /\ Goto(w, "close")
  /\ UNCHANGED <<tmp, want, file, named, litter>>

(* tmp.Sync                                                                *)
Sync(w) ==
  /\ pc[w] = "sync"
  /\ \/ Goto(w, "close") /\ tmp' = [tmp EXCEPT ![w].synced = TRUE]
     \/ Goto(w, "remove") /\ UNCHANGED tmp
  /\ UNCHANGED <<want, file, named, litter>>

(* tmp.Close                                                               *)
CloseTmp(w) ==
  /\ pc[w] = "close"
  /\ Goto(w, "rename") \/ Goto(w, "remove")
  /\ UNCHANGED <<tmp, want, file, named, litter>>

(* os.Rename                                                               *)
Rename(w) ==
  /\ pc[w] = "rename"
  /\ \/ /\ Goto(w, "ok")
        /\ file' = tmp[w]
        /\ named' = named \cup {tmp[w]}
        /\ SetTmp(w, NoFile)
     \/ Goto(w, "remove") /\ UNCHANGED <<tmp, file, named>>
  /\ UNCHANGED <<want, litter>>

(* mutant: `ok` is set before the file is renamed *)
RemoveForgotten(w) ==
  /\ pc[w] = "remove"
  /\ Goto(w, "err")
  /\ UNCHANGED <<tmp, want, file, named, litter>>

(* The deferred Remove, whose own error is dropped.                        *)
Remove(w) ==
  /\ pc[w] = "remove"
  /\ Goto(w, "err")
  /\ SetTmp(w, NoFile)
  /\ litter' \in {litter, TRUE}
  /\ UNCHANGED <<want, file, named>>

(* The caller goes on with the answer.                                     *)
Finish(w) ==
  /\ pc[w] \in {"ok", "err"}
  /\ Goto(w, "idle")
  /\ want' = [want EXCEPT ![w] = NoFile]
  /\ UNCHANGED <<tmp, file, named, litter>>

-----------------------------------------------------------------------------
(* The machine.                                                            *)

(* The kernel writes the directory to the disk when it likes.              *)
Settle == named' = {file} /\ UNCHANGED <<pc, want, tmp, file, litter>>

Forget ==
  /\ pc' = [w \in Writers |-> "idle"]
  /\ want' = [w \in Writers |-> NoFile]
  /\ tmp' = [w \in Writers |-> NoFile]
  /\ litter' = (litter \/ \E w \in Writers : tmp[w] # NoFile)

(* The process is killed: what it wrote stays.                             *)
Kill == Forget /\ UNCHANGED <<file, named>>

(* What is left of a file whose data had not reached the disk.             *)
AfterLoss(f) ==
  IF f = NoFile \/ f.synced THEN {f}
  ELSE {[f EXCEPT !.whole = whole, !.synced = TRUE] : whole \in {FALSE, f.whole}}

PowerLoss ==
  /\ Forget
  /\ \E f \in named : file' \in AfterLoss(f)
  /\ named' = {file'}

WriterStep(w) ==
  Create(w) \/ Write(w) \/ Sync(w) \/ CloseTmp(w) \/ Rename(w) \/ Remove(w) \/ Finish(w)

Next ==
  \/ \E w \in Writers : WriterStep(w) \/ \E c \in Contents : Begin(w, c)
  \/ Settle
  \/ Kill
  \/ PowerLoss

Spec == Init /\ [][Next]_vars

-----------------------------------------------------------------------------
(* Properties.                                                             *)

Underway == {"write", "sync", "close", "rename", "remove"}

TypeOK ==
  /\ pc \in [Writers -> Underway \cup {"idle", "create", "ok", "err"}]
  /\ want \in [Writers -> Contents \cup {NoFile}]
  /\ tmp \in [Writers -> File \cup {NoFile}]
  /\ file \in File \cup {NoFile}
  /\ named \subseteq File \cup {NoFile}
  /\ litter \in BOOLEAN

(* A temporary file lives no longer than its call, whichever of its steps  *)
(* fails: only a crash, or a Remove that fails itself, leaves one behind.  *)
TempRemoved == \A w \in Writers : tmp[w] # NoFile => pc[w] \in Underway

(* What a reader of the path gets.                                         *)
Seen(f) == IF f = NoFile THEN NoFile ELSE IF f.whole THEN f.data ELSE Half

Progress(there) ==
  IF there \in Underway \cup {"create"} THEN "writing" ELSE there

(* However writers, failing calls and crashes interleave, nobody ever      *)
(* reads half a file, an error means that nothing was replaced, and a      *)
(* power loss brings back one of the latest whole files (comment on        *)
(* AtomicWriteFile).                                                       *)
Promise == INSTANCE AtomicFile WITH
  file <- Seen(file),
  past <- {Seen(f) : f \in named},
  state <- [w \in Writers |-> Progress(pc[w])]

ImplementsFile == Promise!Spec
=============================================================================
