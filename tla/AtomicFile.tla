----------------------------- MODULE AtomicFile -----------------------------
(***************************************************************************)
(* What store.AtomicWriteFile promises (its comment: never half a          *)
(* snapshot): the file holds what some call wrote, the whole of it; a call *)
(* that answers with an error left it alone; and after a power loss it is  *)
(* one of the contents it had since its directory last reached the disk.   *)
(***************************************************************************)
CONSTANTS
  Writers,   \* the calls that may be under way
  Contents,  \* what they write
  NoFile     \* there is no file

VARIABLES
  file,      \* what the path holds
  past,      \* what it may hold after a power loss
  state,     \* writer -> how far its call is
  want       \* writer -> what it writes, NoFile while it does not

vars == <<file, past, state, want>>

Init ==
  /\ file = NoFile
  /\ past = {NoFile}
  /\ state = [w \in Writers |-> "idle"]
  /\ want = [w \in Writers |-> NoFile]

Begin(w) ==
  /\ state[w] = "idle"
  /\ state' = [state EXCEPT ![w] = "writing"]
  /\ want'[w] \in Contents
  /\ want' = [want EXCEPT ![w] = want'[w]]
  /\ UNCHANGED <<file, past>>

(* The one moment at which a call takes effect.                            *)
Install(w) ==
  /\ state[w] = "writing"
  /\ state' = [state EXCEPT ![w] = "ok"]
  /\ file' = want[w]
  /\ past' = past \cup {want[w]}
  /\ UNCHANGED want

Fail(w) ==
  /\ state[w] = "writing"
  /\ state' = [state EXCEPT ![w] = "err"]
  /\ UNCHANGED <<file, past, want>>

Finish(w) ==
  /\ state[w] \in {"ok", "err"}
  /\ state' = [state EXCEPT ![w] = "idle"]
  /\ want' = [want EXCEPT ![w] = NoFile]
  /\ UNCHANGED <<file, past>>

(* The directory reaches the disk.                                         *)
Settle == past' = {file} /\ UNCHANGED <<file, state, want>>

(* The process ends; with a power loss the file may be an earlier one.     *)
Crash ==
  /\ state' = [w \in Writers |-> "idle"]
  /\ want' = [w \in Writers |-> NoFile]
  /\ \/ UNCHANGED <<file, past>>
     \/ file' \in past /\ past' = {file'}

Next ==
  \/ \E w \in Writers : Install(w) \/ Fail(w) \/ Finish(w) \/ Begin(w)
  \/ Settle
  \/ Crash

Spec == Init /\ [][Next]_vars
=============================================================================
