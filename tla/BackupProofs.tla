---------------------------- MODULE BackupProofs ----------------------------
(***************************************************************************)
(* Theorems about Persist and Backup: the file that a path names, for any  *)
(* number of writers, and the audit log with its files, for any capacity,  *)
(* any records and any number of imports and crashes.                      *)
(***************************************************************************)
EXTENDS Backup, InductionProofs


Steps == Underway \cup {"idle", "create", "ok", "err"}

(* A file under the path, or one that may come back, is whole and on disk. *)
Good(f) == f = NoFile \/ (f \in File /\ f.whole /\ f.synced)

(* The temporary file of a call holds what the call wants to write, and    *)
(* more of it is certain with every step.                                  *)
TmpMatches(w) ==
  /\ pc[w] \in Underway =>
       /\ tmp[w] \in File
       /\ tmp[w].data = want[w]
  /\ pc[w] \in {"sync", "close", "rename"} => tmp[w].whole
  /\ pc[w] \in {"close", "rename"} => tmp[w].synced
  /\ tmp[w] # NoFile => pc[w] \in Underway
  /\ pc[w] # "idle" => want[w] \in Contents

PersistInv ==
  /\ pc \in [Writers -> Steps]
  /\ DOMAIN want = Writers
  /\ DOMAIN tmp = Writers
  /\ want = [w \in Writers |-> want[w]]
  /\ tmp = [w \in Writers |-> tmp[w]]
  /\ file \in named
  /\ \A f \in named : Good(f)
  /\ \A w \in Writers : TmpMatches(w)

-----------------------------------------------------------------------------
LEMMA PersistInit == Init => PersistInv
  BY DEF Init, PersistInv, Steps, Underway, Good, TmpMatches

(* A step of one writer that leaves the path alone.                        *)
LEMMA OthersKeep ==
  ASSUME PersistInv, NEW w \in Writers, NEW there \in Steps,
         pc' = [pc EXCEPT ![w] = there],
         DOMAIN want' = Writers, want' = [x \in Writers |-> want'[x]],
         DOMAIN tmp' = Writers, tmp' = [x \in Writers |-> tmp'[x]],
         \A x \in Writers : x # w => want'[x] = want[x] /\ tmp'[x] = tmp[x],
         file' \in named', \A f \in named' : Good(f),
         TmpMatches(w)'
  PROVE  PersistInv'
<1>1. ASSUME NEW x \in Writers, x # w PROVE TmpMatches(x)'
  <2>1. pc'[x] = pc[x]
    BY <1>1 DEF PersistInv
  <2> QED BY <1>1, <2>1 DEF PersistInv, TmpMatches
<1> QED BY <1>1 DEF PersistInv

LEMMA WriterKeepsInv ==
  ASSUME PersistInv, NEW w \in Writers, WriterStep(w)
  PROVE  PersistInv'
<1> USE DEF Steps, Underway
<1>0. /\ pc \in [Writers -> Steps] /\ TmpMatches(w)
      /\ file \in named /\ \A f \in named : Good(f)
  BY DEF PersistInv
<1>1. CASE Create(w)
  <2>1. CASE Goto(w, "write") /\ SetTmp(w, [data |-> want[w], whole |-> FALSE, synced |-> FALSE])
    <3>1. pc'[w] = "write" /\ tmp'[w] = [data |-> want[w], whole |-> FALSE, synced |-> FALSE] /\ want[w] \in Contents
      BY <1>0, <1>1, <2>1 DEF Create, Goto, SetTmp, TmpMatches, PersistInv
    <3>2. TmpMatches(w)'
      BY <1>1, <3>1, FileAssumption DEF Create, TmpMatches, File
    <3> QED BY <1>0, <1>1, <2>1, <3>2, OthersKeep DEF Create, Goto, SetTmp, PersistInv
  <2>2. CASE Goto(w, "err") /\ UNCHANGED tmp
    <3>1. TmpMatches(w)'
      BY <1>0, <1>1, <2>2 DEF Create, Goto, TmpMatches
    <3> QED BY <1>0, <1>1, <2>2, <3>1, OthersKeep DEF Create, Goto, PersistInv
  <2> QED BY <1>1, <2>1, <2>2 DEF Create
<1>2. CASE Write(w)
  <2>1. CASE Goto(w, "sync") /\ tmp' = [tmp EXCEPT ![w].whole = TRUE]
    <3>1. pc'[w] = "sync" /\ tmp'[w] = [tmp[w] EXCEPT !.whole = TRUE] /\ tmp[w] \in File /\ tmp[w].data = want[w]
      BY <1>0, <1>2, <2>1 DEF Write, Goto, TmpMatches, PersistInv
    <3>2. tmp'[w] \in File /\ tmp'[w].data = want[w] /\ tmp'[w].whole
      BY <3>1 DEF File
    <3>3. TmpMatches(w)'
      BY <1>0, <1>2, <3>1, <3>2 DEF Write, TmpMatches
    <3> QED BY <1>0, <1>2, <2>1, <3>3, OthersKeep DEF Write, Goto, PersistInv
  <2>2. CASE Goto(w, "remove") /\ UNCHANGED tmp
    <3>1. TmpMatches(w)'
      BY <1>0, <1>2, <2>2 DEF Write, Goto, TmpMatches
    <3> QED BY <1>0, <1>2, <2>2, <3>1, OthersKeep DEF Write, Goto, PersistInv
  <2> QED BY <1>2, <2>1, <2>2 DEF Write
<1>3. CASE Sync(w)
  <2>1. CASE Goto(w, "close") /\ tmp' = [tmp EXCEPT ![w].synced = TRUE]
    <3>1. pc'[w] = "close" /\ tmp'[w] = [tmp[w] EXCEPT !.synced = TRUE] /\ tmp[w] \in File
          /\ tmp[w].data = want[w] /\ tmp[w].whole
      BY <1>0, <1>3, <2>1 DEF Sync, Goto, TmpMatches, PersistInv
    <3>2. tmp'[w] \in File /\ tmp'[w].data = want[w] /\ tmp'[w].whole /\ tmp'[w].synced
      BY <3>1 DEF File
    <3>3. TmpMatches(w)'
      BY <1>0, <1>3, <3>1, <3>2 DEF Sync, TmpMatches
    <3> QED BY <1>0, <1>3, <2>1, <3>3, OthersKeep DEF Sync, Goto, PersistInv
  <2>2. CASE Goto(w, "remove") /\ UNCHANGED tmp
    <3>1. TmpMatches(w)'
      BY <1>0, <1>3, <2>2 DEF Sync, Goto, TmpMatches
    <3> QED BY <1>0, <1>3, <2>2, <3>1, OthersKeep DEF Sync, Goto, PersistInv
  <2> QED BY <1>3, <2>1, <2>2 DEF Sync
<1>4. CASE CloseTmp(w)
  <2>1. PICK there \in {"rename", "remove"} : Goto(w, there)
    BY <1>4 DEF CloseTmp
  <2>2. TmpMatches(w)'
    BY <1>0, <1>4, <2>1 DEF CloseTmp, Goto, TmpMatches
  <2> QED BY <1>0, <1>4, <2>1, <2>2, OthersKeep DEF CloseTmp, Goto, PersistInv
<1>5. CASE Rename(w)
  <2>1. CASE Goto(w, "ok") /\ file' = tmp[w] /\ named' = named \cup {tmp[w]} /\ SetTmp(w, NoFile)
    <3>1. Good(tmp[w])
      BY <1>0, <1>5 DEF Rename, TmpMatches, Good
    <3>2. TmpMatches(w)'
      BY <1>0, <1>5, <2>1 DEF Rename, Goto, SetTmp, TmpMatches, PersistInv
    <3> QED BY <1>0, <1>5, <2>1, <3>1, <3>2, OthersKeep DEF Rename, Goto, SetTmp, PersistInv
  <2>2. CASE Goto(w, "remove") /\ UNCHANGED <<tmp, file, named>>
    <3>1. TmpMatches(w)'
      BY <1>0, <1>5, <2>2 DEF Rename, Goto, TmpMatches
    <3> QED BY <1>0, <1>5, <2>2, <3>1, OthersKeep DEF Rename, Goto, PersistInv
  <2> QED BY <1>5, <2>1, <2>2 DEF Rename
<1>6. CASE Remove(w)
  <2>1. TmpMatches(w)'
    BY <1>0, <1>6 DEF Remove, Goto, SetTmp, TmpMatches, PersistInv
  <2> QED BY <1>0, <1>6, <2>1, OthersKeep DEF Remove, Goto, SetTmp, PersistInv
<1>7. CASE Finish(w)
  <2>1. TmpMatches(w)'
    BY <1>0, <1>7 DEF Finish, Goto, TmpMatches, PersistInv
  <2> QED BY <1>0, <1>7, <2>1, OthersKeep DEF Finish, Goto, PersistInv
<1> QED BY <1>1, <1>2, <1>3, <1>4, <1>5, <1>6, <1>7 DEF WriterStep

LEMMA BeginKeepsInv ==
  ASSUME PersistInv, NEW w \in Writers, NEW c \in Contents, Begin(w, c)
  PROVE  PersistInv'
<1> USE DEF Steps, Underway
<1>1. TmpMatches(w) /\ file \in named /\ \A f \in named : Good(f)
  BY DEF PersistInv
<1>2. TmpMatches(w)'
  BY <1>1 DEF Begin, Goto, TmpMatches, PersistInv
<1> QED BY <1>1, <1>2, OthersKeep DEF Begin, Goto, PersistInv

LEMMA MachineKeepsInv ==
  ASSUME PersistInv, Settle \/ Kill \/ PowerLoss
  PROVE  PersistInv'
<1>1. CASE Settle
  BY <1>1 DEF Settle, PersistInv, TmpMatches
<1>2. ASSUME Forget PROVE /\ pc' \in [Writers -> Steps]
                          /\ DOMAIN want' = Writers
                          /\ DOMAIN tmp' = Writers
                          /\ want' = [w \in Writers |-> want'[w]]
                          /\ tmp' = [w \in Writers |-> tmp'[w]]
                          /\ \A w \in Writers : TmpMatches(w)'
  BY <1>2 DEF Forget, TmpMatches, Steps, Underway
<1>3. CASE Kill
  BY <1>2, <1>3 DEF Kill, PersistInv
<1>4. CASE PowerLoss
  <2>1. PICK f \in named : file' \in AfterLoss(f)
    BY <1>4 DEF PowerLoss
  <2>2. file' = f /\ Good(f)
    BY <2>1 DEF PersistInv, Good, AfterLoss
  <2> QED BY <1>2, <1>4, <2>2 DEF PowerLoss, PersistInv
<1> QED BY <1>1, <1>3, <1>4

LEMMA PersistStep == PersistInv /\ [Next]_vars => PersistInv'
<1> SUFFICES ASSUME PersistInv, [Next]_vars PROVE PersistInv'
  OBVIOUS
<1>1. CASE UNCHANGED vars
  BY <1>1 DEF vars, PersistInv, TmpMatches
<1> QED BY <1>1, WriterKeepsInv, BeginKeepsInv, MachineKeepsInv DEF Next

LEMMA PersistAlways == Spec => []PersistInv
  BY PersistInit, PersistStep, PTL DEF Spec

(* A temporary file lives no longer than its call, whichever of its steps  *)
(* fails, for any contents that are written.                               *)
THEOREM CallsTidyUp == Spec => []TempRemoved
<1>1. PersistInv => TempRemoved
  BY DEF PersistInv, TmpMatches, TempRemoved
<1> QED BY <1>1, PersistAlways, PTL

-----------------------------------------------------------------------------
(* The refinement.                                                         *)
State == [w \in Writers |-> Progress(pc[w])]
Past == {Seen(f) : f \in named}

(* The state of the abstract writer moves with the step of its call.       *)
LEMMA StateMoves ==
  ASSUME DOMAIN pc = Writers, NEW w \in Writers, NEW there,
         pc' = [pc EXCEPT ![w] = there]
  PROVE  State' = [State EXCEPT ![w] = Progress(there)]
  BY DEF State

LEMMA StateStays ==
  ASSUME DOMAIN pc = Writers, NEW w \in Writers, NEW there,
         pc' = [pc EXCEPT ![w] = there], Progress(there) = Progress(pc[w])
  PROVE  State' = State
  BY DEF State

LEMMA InitImplements == Init => Promise!Init
  BY DEF Init, Promise!Init, Seen, Progress, Underway

(* What is under the path is read as a whole.                              *)
LEMMA SeenWhole ==
  ASSUME NEW f \in File, f.whole
  PROVE  Seen(f) = f.data
  BY FileAssumption DEF Seen

LEMMA WriterImplements ==
  ASSUME PersistInv, NEW w \in Writers, WriterStep(w)
  PROVE  Promise!Install(w) \/ Promise!Fail(w) \/ Promise!Finish(w) \/ UNCHANGED Promise!vars
<1> USE DEF Underway
<1>0. /\ DOMAIN pc = Writers /\ TmpMatches(w)
      /\ State[w] = Progress(pc[w])
  BY DEF PersistInv, Steps, State
<1>1. ASSUME pc[w] \in Underway \cup {"create"}, Goto(w, "err"), UNCHANGED <<want, file, named>>
      PROVE  Promise!Fail(w)
  <2>1. State' = [State EXCEPT ![w] = "err"]
    BY <1>0, <1>1, StateMoves DEF Goto, Progress
  <2>2. State[w] = "writing"
    BY <1>0, <1>1 DEF Progress
  <2> QED BY <1>1, <2>1, <2>2 DEF Promise!Fail, State
<1>2. ASSUME pc[w] \in Underway \cup {"create"}, NEW there \in Underway, Goto(w, there),
             UNCHANGED <<want, file, named>>
      PROVE  UNCHANGED Promise!vars
  <2>1. State' = State
    BY <1>0, <1>2, StateStays DEF Goto, Progress
  <2> QED BY <1>2, <2>1 DEF Promise!vars, State
<1>3. CASE Rename(w) /\ Goto(w, "ok")
  <2>1. /\ file' = tmp[w] /\ named' = named \cup {tmp[w]} /\ UNCHANGED want
        /\ tmp[w] \in File /\ tmp[w].whole /\ tmp[w].data = want[w]
    BY <1>0, <1>3 DEF Rename, Goto, TmpMatches, PersistInv, Steps
  <2>2. Seen(tmp[w]) = want[w]
    BY <2>1, SeenWhole
  <2>3. State' = [State EXCEPT ![w] = "ok"]
    BY <1>0, <1>3, StateMoves DEF Goto, Progress
  <2>4. State[w] = "writing"
    BY <1>0, <1>3 DEF Rename, Progress
  <2>5. Past' = Past \cup {want[w]}
    BY <2>1, <2>2 DEF Past
  <2> QED BY <2>1, <2>2, <2>3, <2>4, <2>5 DEF Promise!Install, State, Past
<1>4. CASE Finish(w)
  <2>1. State' = [State EXCEPT ![w] = "idle"]
    BY <1>0, <1>4, StateMoves DEF Finish, Goto, Progress
  <2>2. State[w] \in {"ok", "err"}
    BY <1>0, <1>4 DEF Finish, Progress
  <2> QED BY <1>4, <2>1, <2>2 DEF Finish, Promise!Finish, State
<1>5. CASE Create(w)
  BY <1>1, <1>2, <1>5 DEF Create
<1>6. CASE Write(w)
  BY <1>2, <1>6 DEF Write
<1>7. CASE Sync(w)
  BY <1>2, <1>7 DEF Sync
<1>8. CASE CloseTmp(w)
  BY <1>2, <1>8 DEF CloseTmp
<1>9. CASE Rename(w) /\ Goto(w, "remove") /\ UNCHANGED <<file, named>>
  BY <1>2, <1>9 DEF Rename
<1>10. CASE Remove(w)
  BY <1>1, <1>10 DEF Remove
<1> QED BY <1>3, <1>4, <1>5, <1>6, <1>7, <1>8, <1>9, <1>10 DEF WriterStep, Rename

LEMMA BeginImplements ==
  ASSUME PersistInv, NEW w \in Writers, NEW c \in Contents, Begin(w, c)
  PROVE  Promise!Begin(w)
<1>1. DOMAIN pc = Writers /\ State[w] = Progress(pc[w])
  BY DEF PersistInv, State
<1>2. State' = [State EXCEPT ![w] = "writing"]
  BY <1>1, StateMoves DEF Begin, Goto, Progress
<1>3. State[w] = "idle"
  BY <1>1 DEF Begin, Progress, Underway
<1>4. want'[w] = c
  BY DEF Begin, PersistInv
<1> QED BY <1>2, <1>3, <1>4 DEF Begin, Promise!Begin, State

LEMMA MachineImplements ==
  ASSUME PersistInv, Settle \/ Kill \/ PowerLoss
  PROVE  Promise!Settle \/ Promise!Crash
<1>1. CASE Settle
  BY <1>1 DEF Settle, Promise!Settle
<1>2. Forget => /\ State' = [w \in Writers |-> "idle"]
                /\ want' = [w \in Writers |-> NoFile]
  BY DEF Forget, State, Progress, Underway
<1>3. CASE Kill
  BY <1>2, <1>3 DEF Kill, Promise!Crash, State
<1>4. CASE PowerLoss
  <2>1. PICK f \in named : file' \in AfterLoss(f)
    BY <1>4 DEF PowerLoss
  <2>2. file' = f
    BY <2>1 DEF PersistInv, Good, AfterLoss
  <2>3. Seen(file)' \in Past /\ Past' = {Seen(file)'}
    BY <1>4, <2>2 DEF PowerLoss, Past, Seen
  <2> QED BY <1>2, <1>4, <2>3 DEF PowerLoss, Promise!Crash, State, Past
<1> QED BY <1>1, <1>3, <1>4

LEMMA StepImplements == PersistInv /\ [Next]_vars => [Promise!Next]_Promise!vars
<1> SUFFICES ASSUME PersistInv, [Next]_vars PROVE [Promise!Next]_Promise!vars
  OBVIOUS
<1>1. CASE UNCHANGED vars
  BY <1>1 DEF vars, Promise!vars, Seen
<1>2. ASSUME NEW w \in Writers, WriterStep(w) PROVE [Promise!Next]_Promise!vars
  BY <1>2, WriterImplements DEF Promise!Next
<1>3. ASSUME NEW w \in Writers, NEW c \in Contents, Begin(w, c) PROVE [Promise!Next]_Promise!vars
  BY <1>3, BeginImplements DEF Promise!Next
<1>4. ASSUME Settle \/ Kill \/ PowerLoss PROVE [Promise!Next]_Promise!vars
  BY <1>4, MachineImplements DEF Promise!Next
<1> QED BY <1>1, <1>2, <1>3, <1>4 DEF Next

(* However calls, failures and crashes interleave, the path is read as     *)
(* what one call wrote, and an error means that nothing was replaced.      *)
THEOREM FileImplemented == Spec => ImplementsFile
<1>1. PersistInv /\ [Next]_vars => [Promise!Next]_Promise!vars
  BY StepImplements
<1> QED BY <1>1, InitImplements, PersistAlways, PTL DEF Spec, ImplementsFile, Promise!Spec

-----------------------------------------------------------------------------
(* The ring.                                                               *)

RingType == [buf : [Audit!Places -> Audit!Record \cup {Audit!NoRecord}],
             head : Audit!Places, len : 0..Cap]

(* Where its i-th place is, counted from the oldest.                       *)
Place(r, i) == (r.head + i - 1) % Cap

(* The records of a ring, oldest first.                                    *)
Content(r) == [i \in 1..r.len |-> r.buf[Place(r, i)]]

LEMMA PlaceIs ==
  ASSUME NEW r \in RingType, NEW i \in 1..Cap + 1
  PROVE  /\ Place(r, i) = IF r.head + i <= Cap THEN r.head + i - 1 ELSE r.head + i - 1 - Cap
         /\ Place(r, i) \in Audit!Places
<1>1. r.head \in 0..Cap - 1 /\ Cap \in Nat \ {0}
  BY CapAssumption DEF RingType, Audit!Places
<1>2. ASSUME NEW x \in 0..2 * Cap - 1 PROVE x % Cap = IF x < Cap THEN x ELSE x - Cap
  BY <1>1
<1> DEFINE x == r.head + i - 1
<1>3. x \in 0..2 * Cap - 1
  BY <1>1
<1>4. x % Cap = IF x < Cap THEN x ELSE x - Cap
  <2> HIDE DEF x
  <2> QED BY <1>2, <1>3
<1> QED BY <1>1, <1>4 DEF Place, Audit!Places

(* A record that enters a ring is its newest, and only the oldest one goes *)
(* for it.                                                                 *)
LEMMA PushShows ==
  ASSUME NEW r \in RingType, NEW rec \in Audit!Record, NEW p, p = Audit!Push(r, rec)
  PROVE  /\ p \in RingType
         /\ p.len = IF r.len < Cap THEN r.len + 1 ELSE Cap
         /\ Content(p)[p.len] = rec
         /\ \A i \in 1..p.len - 1 :
              Content(p)[i] = Content(r)[IF r.len < Cap THEN i ELSE i + 1]
<1>0. /\ Cap \in Nat \ {0} /\ r.len \in 0..Cap /\ r.head \in 0..Cap - 1
      /\ r.buf \in [Audit!Places -> Audit!Record \cup {Audit!NoRecord}]
  BY CapAssumption DEF RingType, Audit!Places
<1>1. CASE r.len < Cap
  <2> DEFINE at == Place(r, r.len + 1)
  <2>1. at \in Audit!Places
    BY <1>0, <1>1, PlaceIs
  <2>2. p.buf = [r.buf EXCEPT ![at] = rec] /\ p.len = r.len + 1 /\ p.head = r.head /\ p \in RingType
    <3>1. at = (r.head + r.len) % Cap
      BY <1>0 DEF Place
    <3>2. p = [r EXCEPT !.buf[at] = rec, !.len = @ + 1]
      BY <1>1, <3>1 DEF Audit!Push
    <3> HIDE DEF at
    <3>3. p.buf = [r.buf EXCEPT ![at] = rec] /\ p.len = r.len + 1 /\ p.head = r.head
      BY <3>2 DEF RingType
    <3>4. p = [buf |-> p.buf, head |-> p.head, len |-> p.len]
      BY <3>2 DEF RingType
    <3>5. p.buf \in [Audit!Places -> Audit!Record \cup {Audit!NoRecord}]
      BY <1>0, <3>3
    <3>6. p.len \in 0..Cap /\ p.head \in Audit!Places
      BY <1>0, <1>1, <3>3 DEF Audit!Places
    <3> QED BY <3>3, <3>4, <3>5, <3>6 DEF RingType
  <2>3. ASSUME NEW i \in 1..r.len PROVE Content(p)[i] = Content(r)[i]
    <3>1. Place(p, i) = Place(r, i)
      BY <2>2 DEF Place
    <3>2. Place(r, i) # at /\ Place(r, i) \in Audit!Places
      BY <1>0, <1>1, PlaceIs
    <3>3. p.buf[Place(p, i)] = r.buf[Place(r, i)]
      BY <1>0, <2>2, <3>1, <3>2
    <3>4. i \in 1..p.len
      BY <1>0, <2>2
    <3> QED BY <3>3, <3>4 DEF Content
  <2>4. Content(p)[p.len] = rec
    <3>1. Place(p, p.len) = at /\ p.len \in 1..p.len
      BY <1>0, <2>2 DEF Place
    <3> QED BY <1>0, <2>1, <2>2, <3>1 DEF Content
  <2> HIDE DEF at
  <2> QED BY <1>0, <1>1, <2>2, <2>3, <2>4
<1>2. CASE r.len = Cap
  <2>1. p.buf = [r.buf EXCEPT ![r.head] = rec] /\ p.len = Cap /\ p.head = (r.head + 1) % Cap
    BY <1>0, <1>2 DEF Audit!Push, RingType
  <2>2. p.head = IF r.head + 1 = Cap THEN 0 ELSE r.head + 1
    BY <1>0, <2>1
  <2>3. p \in RingType
    <3>1. p.head \in Audit!Places /\ r.head \in Audit!Places
      BY <1>0, <2>2 DEF Audit!Places
    <3>2. p.buf \in [Audit!Places -> Audit!Record \cup {Audit!NoRecord}]
      BY <1>0, <2>1
    <3>3. p = [buf |-> p.buf, head |-> p.head, len |-> p.len]
      BY <1>2 DEF Audit!Push, RingType
    <3> QED BY <1>0, <2>1, <3>1, <3>2, <3>3 DEF RingType
  <2>4. ASSUME NEW i \in 1..Cap - 1 PROVE Content(p)[i] = Content(r)[i + 1]
    <3>1. Place(p, i) = Place(r, i + 1)
      BY <1>0, <2>2, <2>3, PlaceIs
    <3>2. Place(r, i + 1) # r.head /\ Place(r, i + 1) \in Audit!Places
      BY <1>0, PlaceIs
    <3>3. p.buf[Place(p, i)] = r.buf[Place(r, i + 1)]
      BY <1>0, <2>1, <3>1, <3>2
    <3>4. i \in 1..p.len /\ i + 1 \in 1..r.len
      BY <1>0, <1>2, <2>1
    <3> QED BY <3>3, <3>4 DEF Content
  <2>5. Content(p)[p.len] = rec
    <3>1. Place(p, Cap) = r.head /\ Cap \in 1..p.len
      <4>1. Cap \in 1..Cap + 1
        BY <1>0
      <4>2. Place(p, Cap) = IF p.head + Cap <= Cap THEN p.head + Cap - 1 ELSE p.head + Cap - 1 - Cap
        BY <2>3, <4>1, PlaceIs
      <4>3. p.len = Cap
        BY <2>1
      <4>4. CASE r.head + 1 = Cap
        <5>1. p.head = 0 /\ Cap \in Nat \ {0}
          BY <1>0, <2>2, <4>4
        <5>2. Place(p, Cap) = Cap - 1
          BY <4>2, <5>1
        <5> QED BY <1>0, <4>3, <4>4, <5>2
      <4>5. CASE r.head + 1 # Cap
        <5>1. p.head = r.head + 1 /\ r.head \in 0..Cap - 2 /\ Cap \in Nat \ {0}
          BY <1>0, <2>2, <4>5
        <5>2. Place(p, Cap) = p.head + Cap - 1 - Cap
          BY <4>2, <5>1
        <5> QED BY <4>3, <5>1, <5>2
      <4> QED BY <4>4, <4>5
    <3>2. r.head \in Audit!Places
      BY <1>0 DEF Audit!Places
    <3> QED BY <1>0, <2>1, <3>1, <3>2 DEF Content
  <2> QED BY <1>0, <1>2, <2>1, <2>3, <2>4, <2>5
<1> QED BY <1>0, <1>1, <1>2

-----------------------------------------------------------------------------
(* The numbers of the records in a ring go up by one and end at s.         *)
RunsTo(r, s) ==
  /\ r \in RingType /\ s \in 0..MaxSeq
  /\ \A i \in 1..r.len : Content(r)[i] \in Audit!Record /\ Content(r)[i].seq = s - r.len + i

LEMMA PushRuns ==
  ASSUME NEW r, NEW s, RunsTo(r, s) \/ (r \in RingType /\ r.len = 0 /\ s \in Nat),
         NEW rec \in Audit!Record, rec.seq = s + 1
  PROVE  RunsTo(Audit!Push(r, rec), s + 1)
<1> DEFINE p == Audit!Push(r, rec)
<1>1. /\ Cap \in Nat \ {0} /\ r \in RingType /\ r.len \in 0..Cap /\ s \in Nat /\ s + 1 \in 0..MaxSeq
      /\ \A i \in 1..r.len : Content(r)[i] \in Audit!Record /\ Content(r)[i].seq = s - r.len + i
  BY CapAssumption DEF RunsTo, RingType, Audit!Record
<1>2. /\ p \in RingType
      /\ p.len = IF r.len < Cap THEN r.len + 1 ELSE Cap
      /\ Content(p)[p.len] = rec
      /\ \A i \in 1..p.len - 1 : Content(p)[i] = Content(r)[IF r.len < Cap THEN i ELSE i + 1]
  BY <1>1, PushShows
<1> HIDE DEF p
<1>3. ASSUME NEW i \in 1..p.len
      PROVE  Content(p)[i] \in Audit!Record /\ Content(p)[i].seq = (s + 1) - p.len + i
  <2>1. CASE i = p.len
    BY <1>1, <1>2, <2>1
  <2>2. CASE i # p.len /\ r.len < Cap
    <3>1. i \in 1..r.len /\ Content(p)[i] = Content(r)[i]
      BY <1>1, <1>2, <2>2
    <3> QED BY <1>1, <1>2, <2>2, <3>1
  <2>3. CASE i # p.len /\ r.len = Cap
    <3>1. i + 1 \in 1..r.len /\ Content(p)[i] = Content(r)[i + 1]
      BY <1>1, <1>2, <2>3
    <3> QED BY <1>1, <1>2, <2>3, <3>1
  <2> QED BY <1>1, <2>1, <2>2, <2>3
<1> QED BY <1>1, <1>2, <1>3 DEF RunsTo, p

(* The records of a snapshot have numbers that go up by one.               *)
LEMMA ExportedRuns ==
  ASSUME NEW recs \in Audit!Exported
  PROVE  \E from \in Nat :
           /\ recs \in Seq(Audit!Record)
           /\ \A i \in 1..Len(recs) : recs[i].seq = from + i
<1> DEFINE OfLength(n) == {[i \in 1..n |-> [seq |-> run[1] + i, what |-> run[2][i]]] :
                             run \in (0..MaxSeq - n) \X [1..n -> What]}
<1>a. Audit!Exported = UNION {OfLength(n) : n \in 0..Cap + 1}
  BY DEF Audit!Exported
<1> HIDE DEF OfLength
<1>b. PICK n \in 0..Cap + 1 : recs \in OfLength(n)
  BY <1>a
<1>c. PICK run \in (0..MaxSeq - n) \X [1..n -> What] :
        recs = [i \in 1..n |-> [seq |-> run[1] + i, what |-> run[2][i]]]
  BY <1>b DEF OfLength
<1> DEFINE from == run[1]
           says == run[2]
<1>1. /\ from \in 0..MaxSeq - n /\ says \in [1..n -> What]
      /\ recs = [i \in 1..n |-> [seq |-> from + i, what |-> says[i]]]
  BY <1>c
<1> HIDE DEF from, says
<1>2. n \in Nat /\ from \in Nat /\ from + n <= MaxSeq /\ MaxSeq \in Nat
  BY <1>1, CapAssumption
<1>3. ASSUME NEW i \in 1..n PROVE [seq |-> from + i, what |-> says[i]] \in Audit!Record
  <2>1. says[i] \in What
    BY <1>1
  <2>2. from + i \in 1..MaxSeq
    BY <1>2
  <2> QED BY <2>1, <2>2 DEF Audit!Record
<1>4. recs \in [1..n -> Audit!Record]
  BY <1>1, <1>3
<1>5. recs \in Seq(Audit!Record) /\ Len(recs) = n
  BY <1>2, <1>4
<1> QED BY <1>1, <1>2, <1>5

(* A record of ReplaceAll goes where Append would put it.                  *)
LEMMA RefillIsPush ==
  ASSUME NEW r \in RingType, r.len < Cap => r.head = 0, NEW rec \in Audit!Record
  PROVE  /\ Audit!Refill(r, rec) = Audit!Push(r, rec)
         /\ Audit!Push(r, rec).len < Cap => Audit!Push(r, rec).head = 0
<1>1. r.len \in 0..Cap /\ r.head \in 0..Cap - 1 /\ Cap \in Nat \ {0}
  BY CapAssumption DEF RingType, Audit!Places
<1>2. CASE r.len < Cap
  <2>0. \A x \in 0..Cap - 1 : x % Cap = x
    BY <1>1
  <2>1. (r.head + r.len) % Cap = r.len
    <3>1. r.head + r.len = r.len /\ r.len \in 0..Cap - 1
      BY <1>1, <1>2
    <3> QED BY <2>0, <3>1
  <2>2. Audit!Refill(r, rec) = Audit!Push(r, rec)
    BY <1>2, <2>1 DEF Audit!Refill, Audit!Push
  <2>3. Audit!Push(r, rec).head = r.head
    BY <1>2 DEF Audit!Push, RingType
  <2> QED BY <1>2, <2>2, <2>3
<1>3. CASE r.len = Cap
  <2>1. Audit!Refill(r, rec) = Audit!Push(r, rec)
    BY <1>1, <1>3 DEF Audit!Refill, Audit!Push
  <2>2. Audit!Push(r, rec).len = Cap
    BY <1>1, <1>3, PushShows
  <2> QED BY <1>1, <2>1, <2>2
<1> QED BY <1>1, <1>2, <1>3

LEMMA RefilledRuns ==
  ASSUME Audit!Ring \in RingType, NEW recs \in Seq(Audit!Record), NEW from \in Nat,
         \A i \in 1..Len(recs) : recs[i].seq = from + i, recs # <<>>
  PROVE  RunsTo(Audit!Refilled(recs), from + Len(recs))
<1> DEFINE n == Len(recs)
           base == [buf |-> buf, head |-> 0, len |-> 0]
           After(g) == g = [i \in 0..n |-> IF i = 0 THEN base ELSE Audit!Refill(g[i - 1], recs[i])]
           after == CHOOSE g : After(g)
           R == {r \in RingType : r.len < Cap => r.head = 0}
           F == [x \in (1..n) \X R |-> Audit!Refill(x[2], recs[x[1]])]
<1>1. n \in Nat /\ n # 0 /\ \A i \in 1..n : recs[i] \in Audit!Record
  OBVIOUS
<1>2. base \in R /\ base.len = 0
  <2>2. 0 \in 0..Cap /\ 0 \in Audit!Places
    BY CapAssumption DEF Audit!Places
  <2>3. buf \in [Audit!Places -> Audit!Record \cup {Audit!NoRecord}]
    BY DEF RingType, Audit!Ring
  <2> QED BY <2>2, <2>3 DEF RingType
<1>3. ASSUME NEW i \in 1..n, NEW r \in R
      PROVE  Audit!Refill(r, recs[i]) = Audit!Push(r, recs[i]) /\ Audit!Refill(r, recs[i]) \in R
  <2>1. recs[i] \in Audit!Record
    BY <1>1
  <2>2. r \in RingType /\ (r.len < Cap => r.head = 0)
    OBVIOUS
  <2>3. /\ Audit!Refill(r, recs[i]) = Audit!Push(r, recs[i])
        /\ Audit!Push(r, recs[i]).len < Cap => Audit!Push(r, recs[i]).head = 0
    BY <2>1, <2>2, RefillIsPush
  <2>4. Audit!Push(r, recs[i]) \in RingType
    BY <2>1, <2>2, PushShows
  <2> QED BY <2>3, <2>4
<1>4. \E g : After(g)
  <2>1. F \in [(1..n) \X R -> R]
    BY <1>3
  <2>2. PICK g \in [0..n -> R] : Unfolds(g, n, base, F)
    <3> HIDE DEF n, base, R, F
    <3> QED BY <1>1, <1>2, <2>1, UnfoldExists
  <2>3. ASSUME NEW i \in 0..n PROVE g[i] = IF i = 0 THEN base ELSE Audit!Refill(g[i - 1], recs[i])
    <3>1. g[i] = IF i = 0 THEN base ELSE F[<<i, g[i - 1]>>]
      <4> HIDE DEF F, base
      <4> QED BY <2>2 DEF Unfolds
    <3>2. i # 0 => g[i - 1] \in R /\ i \in 1..n
      <4>1. i # 0 => i \in 1..n /\ i - 1 \in 0..n
        BY <1>1
      <4>2. g \in [0..n -> R]
        BY <2>2
      <4> HIDE DEF R, n
      <4> QED BY <4>1, <4>2
    <3>3. i # 0 => F[<<i, g[i - 1]>>] = Audit!Refill(g[i - 1], recs[i])
      <4> HIDE DEF R
      <4> QED BY <3>2
    <3> HIDE DEF F, base
    <3> QED BY <3>1, <3>3
  <2>4. g = [i \in 0..n |-> g[i]]
    OBVIOUS
  <2> HIDE DEF base
  <2> QED BY <2>3, <2>4
<1>5. After(after)
  <2> HIDE DEF After
  <2> QED BY <1>4
<1>6. Audit!Refilled(recs) = after[n]
  BY DEF Audit!Refilled
<1>7. \A i \in 0..n : after[i] = IF i = 0 THEN base ELSE Audit!Refill(after[i - 1], recs[i])
  <2> HIDE DEF after, base
  <2> QED BY <1>5
<1> HIDE DEF after, base
<1> DEFINE G == {i \in Nat : i < n => after[i + 1] \in R /\ RunsTo(after[i + 1], from + (i + 1))}
<1>8. ASSUME NEW i \in 1..n, NEW r \in R, after[i - 1] = r,
             RunsTo(r, from + (i - 1)) \/ r.len = 0
      PROVE  after[i] \in R /\ RunsTo(after[i], from + i)
  <2>1. after[i] = Audit!Push(r, recs[i]) /\ after[i] \in R
    <3>1. after[i] = Audit!Refill(r, recs[i])
      <4> HIDE DEF R
      <4> QED BY <1>7, <1>8
    <3> QED BY <1>3, <3>1
  <2>2. recs[i] \in Audit!Record /\ recs[i].seq = (from + (i - 1)) + 1 /\ from + (i - 1) \in Nat
    BY <1>1
  <2>3. RunsTo(Audit!Push(r, recs[i]), (from + (i - 1)) + 1)
    BY <1>8, <2>2, PushRuns
  <2>4. (from + (i - 1)) + 1 = from + i
    OBVIOUS
  <2> QED BY <2>1, <2>3, <2>4
<1>9. 0 \in G
  <2>1. 1 \in 1..n /\ after[1 - 1] = base
    BY <1>1, <1>7
  <2>2. after[1] \in R /\ RunsTo(after[1], from + 1)
    BY <1>2, <1>8, <2>1
  <2> HIDE DEF R
  <2> QED BY <2>2
<1>10. ASSUME NEW i \in Nat, i \in G PROVE i + 1 \in G
  <2> SUFFICES ASSUME i + 1 < n
               PROVE  after[(i + 1) + 1] \in R /\ RunsTo(after[(i + 1) + 1], from + ((i + 1) + 1))
    OBVIOUS
  <2> DEFINE j == (i + 1) + 1
  <2>1. after[i + 1] \in R /\ RunsTo(after[i + 1], from + (i + 1))
    BY <1>1, <1>10
  <2>2. j \in 1..n /\ j - 1 = i + 1
    BY <1>1
  <2> HIDE DEF j, R
  <2>3. after[j] \in R /\ RunsTo(after[j], from + j)
    BY <1>8, <2>1, <2>2
  <2> QED BY <2>3 DEF j
<1>11. n - 1 \in G /\ n - 1 \in Nat
  <2>1. \A i \in Nat : i \in G
    <3> HIDE DEF G
    <3> QED BY <1>9, <1>10, NumberInduction
  <2> QED BY <1>1, <2>1
<1>12. (n - 1) + 1 = n
  BY <1>1
<1> QED BY <1>6, <1>11, <1>12

-----------------------------------------------------------------------------
(* The log.                                                                *)

(* A list without records leaves an empty ring.                            *)
LEMMA RefilledFromNothing ==
  ASSUME Audit!Ring \in RingType
  PROVE  RunsTo(Audit!Refilled(<<>>), 0)
<1> DEFINE base == [buf |-> buf, head |-> 0, len |-> 0]
           none == <<>>
           After(g) == g = [i \in 0..0 |-> IF i = 0 THEN base ELSE Audit!Refill(g[i - 1], none[i])]
           after == CHOOSE g : After(g)
<1>1. After([i \in 0..0 |-> base])
  <2> HIDE DEF base
  <2> QED OBVIOUS
<1>2. After(after)
  <2> HIDE DEF After
  <2> QED BY <1>1
<1>3. Audit!Refilled(none) = after[0]
  <2>1. Len(none) = 0
    OBVIOUS
  <2> QED BY <2>1 DEF Audit!Refilled
<1>4. after[0] = base
  <2> HIDE DEF after, base
  <2> QED BY <1>2
<1>5. base \in RingType
  <2>1. 0 \in 0..Cap /\ 0 \in Audit!Places
    BY CapAssumption DEF Audit!Places
  <2>2. buf \in [Audit!Places -> Audit!Record \cup {Audit!NoRecord}]
    BY DEF RingType, Audit!Ring
  <2> QED BY <2>1, <2>2 DEF RingType
<1>6. RunsTo(base, 0)
  BY <1>5, CapAssumption DEF RunsTo
<1> QED BY <1>3, <1>4, <1>6

LogInv == RunsTo(Audit!Ring, seq)

LEMMA AllIs == Audit!All = Content(Audit!Ring)
BY DEF Audit!All, Content, Place, Audit!Ring

LEMMA AllAfter == ASSUME NEW r, Audit!Become(r) PROVE Audit!All' = Content(r) /\ Audit!Ring' = [buf |-> r.buf, head |-> r.head, len |-> r.len]
BY DEF Audit!Become, Audit!All, Content, Place, Audit!Ring

LEMMA RingAfter ==
  ASSUME NEW r, NEW s, RunsTo(r, s), Audit!Become(r), seq' = s
  PROVE  LogInv' /\ Audit!All' = Content(r)
<1>1. Audit!Ring' = r
  BY AllAfter DEF RunsTo, RingType
<1>2. RunsTo(r, s)' <=> RunsTo(r, s)
  BY DEF RunsTo
<1> QED BY <1>1, AllAfter DEF LogInv

LEMMA LogInvInit == Audit!Init => LogInv
<1> SUFFICES ASSUME Audit!Init PROVE LogInv
  OBVIOUS
<1>1. Audit!Ring = [buf |-> [i \in Audit!Places |-> Audit!NoRecord], head |-> 0, len |-> 0] /\ seq = 0
  BY DEF Audit!Init, Audit!Ring
<1>2. 0 \in Audit!Places /\ 0 \in 0..Cap /\ 0 \in 0..MaxSeq
  BY CapAssumption DEF Audit!Places
<1>3. Audit!Ring \in RingType
  BY <1>1, <1>2 DEF RingType
<1> QED BY <1>1, <1>2, <1>3 DEF LogInv, RunsTo

(* The trail of the ring is a sequence of records.                         *)
LEMMA TrailType ==
  ASSUME NEW r, NEW s, RunsTo(r, s)
  PROVE  Content(r) \in Seq(Audit!Record) /\ Len(Content(r)) = r.len /\ r.len \in 0..Cap
<1>1. r.len \in 0..Cap /\ Cap \in Nat
  BY CapAssumption DEF RunsTo, RingType
<1>2. Content(r) \in [1..r.len -> Audit!Record]
  BY DEF RunsTo, Content
<1> QED BY <1>1, <1>2

LEMMA LogImplements ==
  ASSUME LogInv, NEW what \in What, Audit!Log(what)
  PROVE  LogInv' /\ Audit!Trail!Log(what)
<1> DEFINE r == Audit!Ring
           rec == [seq |-> seq + 1, what |-> what]
           p == Audit!Push(r, rec)
           t == Append(Content(r), rec)
<1>0. RunsTo(r, seq) /\ Cap \in Nat \ {0} /\ MaxSeq \in Nat
  BY CapAssumption DEF LogInv
<1> HIDE DEF r
<1>1. /\ Cap \in Nat \ {0} /\ r.len \in 0..Cap /\ r \in RingType /\ seq \in Nat
      /\ Content(r) \in Seq(Audit!Record) /\ Len(Content(r)) = r.len
  <2>1. r \in RingType /\ seq \in Nat
    BY <1>0 DEF RunsTo
  <2> QED BY <1>0, <2>1, TrailType
<1> USE DEF r
<1>2. rec \in Audit!Record /\ rec.seq = seq + 1
  BY <1>1, CapAssumption DEF Audit!Log, Audit!Record
<1>3. seq < MaxSeq /\ seq' = seq + 1 /\ Audit!Become(p)
  BY DEF Audit!Log
<1>4. RunsTo(p, seq + 1)
  <2> HIDE DEF r, rec
  <2> QED BY <1>2, PushRuns DEF LogInv, r
<1>5. LogInv' /\ Audit!All' = Content(p)
  <2> HIDE DEF p
  <2> QED BY <1>3, <1>4, RingAfter
<1>6. /\ p.len = IF r.len < Cap THEN r.len + 1 ELSE Cap
      /\ Content(p)[p.len] = rec
      /\ \A i \in 1..p.len - 1 : Content(p)[i] = Content(r)[IF r.len < Cap THEN i ELSE i + 1]
  <2> HIDE DEF r, rec
  <2> QED BY <1>1, <1>2, PushShows
<1>7. Content(p) \in Seq(Audit!Record) /\ Len(Content(p)) = p.len
  <2> HIDE DEF p
  <2> QED BY <1>4, TrailType
<1>8. /\ t \in Seq(Audit!Record) /\ Len(t) = r.len + 1 /\ t[r.len + 1] = rec
      /\ \A i \in 1..r.len : t[i] = Content(r)[i]
  <2> HIDE DEF r, rec
  <2> QED BY <1>1, <1>2
<1>9. Content(p) = Audit!Trail!Newest(t)
  <2> HIDE DEF p, t, r, rec
  <2>1. CASE r.len < Cap
    <3>1. Audit!Trail!Newest(t) = t
      BY <1>1, <1>8, <2>1 DEF Audit!Trail!Newest
    <3>2. ASSUME NEW i \in 1..Len(t) PROVE Content(p)[i] = t[i]
      BY <1>1, <1>6, <1>8, <2>1
    <3>3. Len(Content(p)) = Len(t)
      BY <1>6, <1>7, <1>8, <2>1
    <3> QED BY <1>7, <1>8, <3>1, <3>2, <3>3
  <2>2. CASE r.len = Cap
    <3>1. Audit!Trail!Newest(t) = SubSeq(t, 2, Cap + 1)
      <4>1. Len(t) = Cap + 1 /\ Len(t) - Cap + 1 = 2 /\ ~(Len(t) <= Cap)
        BY <1>1, <1>8, <2>2
      <4> QED BY <4>1 DEF Audit!Trail!Newest
    <3>2. SubSeq(t, 2, Cap + 1) \in Seq(Audit!Record) /\ Len(SubSeq(t, 2, Cap + 1)) = Cap
      BY <1>1, <1>8, <2>2
    <3>3. ASSUME NEW i \in 1..Cap PROVE SubSeq(t, 2, Cap + 1)[i] = t[i + 1]
      BY <1>1, <1>8, <2>2
    <3>4. ASSUME NEW i \in 1..Cap PROVE Content(p)[i] = t[i + 1]
      BY <1>1, <1>6, <1>8, <2>2
    <3>5. Len(Content(p)) = Cap
      BY <1>1, <1>6, <1>7, <2>2
    <3> QED BY <1>7, <3>1, <3>2, <3>3, <3>4, <3>5
  <2> QED BY <1>1, <2>1, <2>2
<1>10. Audit!All' = Audit!Trail!Newest(Append(Audit!All, rec))
  BY <1>5, <1>9, AllIs
<1> QED BY <1>3, <1>5, <1>10 DEF Audit!Trail!Log

(* What an import leaves.                                                  *)
LEMMA EnterImplements ==
  ASSUME NEW ring, NEW from, RunsTo(ring, from), Audit!Enter(ring, from)
  PROVE  LogInv' /\ Audit!Trail!Import
<1> DEFINE rec == [seq |-> from + 1, what |-> Imported]
           p == Audit!Push(ring, rec)
<1>1. from < MaxSeq /\ seq' = from + 1 /\ Audit!Become(p)
  BY DEF Audit!Enter
<1>2. RunsTo(ring, from)
  OBVIOUS
<1>3. rec \in Audit!Record /\ rec.seq = from + 1 /\ rec.what = Imported
  BY <1>1, <1>2, CapAssumption DEF RunsTo, Audit!Record
<1>4. RunsTo(p, from + 1) /\ p.len \in 1..Cap /\ Content(p)[p.len] = rec
  <2> HIDE DEF rec
  <2>1. RunsTo(p, from + 1)
    BY <1>2, <1>3, PushRuns
  <2>2. ring \in RingType /\ ring.len \in 0..Cap /\ Cap \in Nat \ {0}
    BY <1>2, CapAssumption DEF RunsTo, RingType
  <2> QED BY <1>3, <2>1, <2>2, PushShows
<1> HIDE DEF p
<1>5. LogInv' /\ Audit!All' = Content(p)
  BY <1>1, <1>4, RingAfter
<1>6. Content(p) \in Seq(Audit!Record) /\ Len(Content(p)) = p.len
  BY <1>4, TrailType
<1>7. ASSUME NEW i \in 1..p.len - 1 PROVE Content(p)[i + 1].seq = Content(p)[i].seq + 1
  <2>1. i \in 1..p.len /\ i + 1 \in 1..p.len /\ from \in Nat
    BY <1>2, <1>4 DEF RunsTo
  <2>2. Content(p)[i].seq = (from + 1) - p.len + i /\ Content(p)[i + 1].seq = (from + 1) - p.len + (i + 1)
    BY <1>4, <2>1 DEF RunsTo
  <2> QED BY <1>4, <2>1, <2>2
<1>8. Audit!Record = Audit!Trail!Record
  BY DEF Audit!Record, Audit!Trail!Record
<1>9. Audit!Trail!Run(Content(p))
  BY <1>6, <1>7, <1>8 DEF Audit!Trail!Run
<1>10. Content(p)[Len(Content(p))] = [seq |-> seq', what |-> Imported] /\ Len(Content(p)) \in 1..Cap
  BY <1>1, <1>4, <1>6
<1> QED BY <1>5, <1>9, <1>10 DEF Audit!Trail!Import

LEMMA BareImplements ==
  ASSUME LogInv, Audit!ImportBare
  PROVE  LogInv' /\ Audit!Trail!Import
BY EnterImplements DEF LogInv, Audit!ImportBare

LEMMA ImportImplements ==
  ASSUME LogInv, NEW recs \in Audit!Exported, Audit!Import(recs)
  PROVE  LogInv' /\ Audit!Trail!Import
<1>1. Audit!Enter(Audit!Refilled(recs), Audit!Highest(recs))
  BY DEF Audit!Import
<1>2. Audit!Ring \in RingType
  BY DEF LogInv, RunsTo
<1>3. RunsTo(Audit!Refilled(recs), Audit!Highest(recs))
  <2>1. CASE recs = <<>>
    <3>1. Audit!Highest(recs) = 0
      BY <2>1 DEF Audit!Highest
    <3> QED BY <1>2, <2>1, <3>1, RefilledFromNothing
  <2>2. CASE recs # <<>>
    <3>1. PICK low \in Nat : /\ recs \in Seq(Audit!Record)
                             /\ \A i \in 1..Len(recs) : recs[i].seq = low + i
      BY ExportedRuns
    <3>2. Len(recs) \in Nat \ {0} /\ DOMAIN recs = 1..Len(recs)
      BY <2>2, <3>1
    <3> DEFINE S == {recs[i].seq : i \in DOMAIN recs}
    <3>3. Audit!Sets!Max(S) = low + Len(recs)
      <4>1. low + Len(recs) \in S
        BY <3>1, <3>2
      <4>2. \A y \in S : y \in Int /\ low + Len(recs) >= y
        BY <3>1, <3>2
      <4> HIDE DEF S
      <4>3. \A x \in S : (\A y \in S : x >= y) => x = low + Len(recs)
        BY <3>2, <4>1, <4>2
      <4>4. Audit!Sets!Max(S) = CHOOSE x \in S : \A y \in S : x >= y
        BY DEF Audit!Sets!Max
      <4> QED BY <4>1, <4>2, <4>3, <4>4
    <3>4. Audit!Highest(recs) = low + Len(recs)
      BY <2>2, <3>3 DEF Audit!Highest
    <3>5. RunsTo(Audit!Refilled(recs), low + Len(recs))
      BY <1>2, <2>2, <3>1, RefilledRuns
    <3> QED BY <3>4, <3>5
  <2> QED BY <2>1, <2>2
<1> QED BY <1>1, <1>3, EnterImplements

(* A new hub, and what leaves the log alone.                               *)
LEMMA RestartImplements ==
  ASSUME Audit!Restart
  PROVE  LogInv' /\ Audit!Trail!Restart
<1>1. /\ Audit!Ring' = [buf |-> [i \in Audit!Places |-> Audit!NoRecord], head |-> 0, len |-> 0]
      /\ seq' = 0
  BY DEF Audit!Restart, Audit!Ring
<1>2. 0 \in Audit!Places /\ 0 \in 0..Cap /\ 0 \in 0..MaxSeq
  BY CapAssumption DEF Audit!Places
<1>3. Audit!Ring' \in RingType
  BY <1>1, <1>2 DEF RingType
<1>4. LogInv'
  BY <1>1, <1>2, <1>3 DEF LogInv, RunsTo
<1>5. Audit!All' = <<>>
  BY DEF Audit!All, Audit!Restart
<1> QED BY <1>1, <1>4, <1>5 DEF Audit!Trail!Restart

LEMMA LogStays ==
  ASSUME UNCHANGED auditVars
  PROVE  (LogInv => LogInv') /\ UNCHANGED Audit!Trail!vars
<1>1. Audit!Ring' = Audit!Ring /\ Audit!All' = Audit!All /\ seq' = seq
  BY DEF auditVars, Audit!Ring, Audit!All
<1> QED BY <1>1 DEF LogInv, RunsTo, Audit!Trail!vars

(* A snapshot of the log is one of the things a file can hold.             *)
LEMMA SnapshotIsTrail == LogInv => Audit!All \in Contents
<1> SUFFICES ASSUME LogInv PROVE Audit!All \in Trails
  BY ContentsAssumption
<1> DEFINE r == Audit!Ring
<1>1. RunsTo(r, seq) /\ Cap \in Nat \ {0} /\ MaxSeq \in Nat
  BY CapAssumption DEF LogInv
<1>2. Audit!All = Content(r)
  BY AllIs
<1> HIDE DEF r
<1>3. /\ Content(r) = [i \in 1..r.len |-> Content(r)[i]]
      /\ \A i \in 1..r.len : Content(r)[i] \in Audit!Record /\ Content(r)[i].seq = seq - r.len + i
      /\ seq \in 0..MaxSeq
  BY <1>1 DEF RunsTo, Content
<1>4. r.len \in 0..Cap /\ Len(Content(r)) = r.len
  BY <1>1, TrailType
<1> DEFINE from == IF r.len = 0 THEN 0 ELSE seq - r.len
           says == [i \in 1..r.len |-> Content(r)[i].what]
<1>5. from \in 0..MaxSeq - r.len
  <2>1. CASE r.len = 0
    BY <1>1, <2>1
  <2>2. CASE r.len # 0
    <3>1. 1 \in 1..r.len
      BY <1>1, <1>4, <2>2
    <3>2. Content(r)[1].seq \in 1..MaxSeq /\ Content(r)[1].seq = seq - r.len + 1
      BY <1>3, <3>1 DEF Audit!Record
    <3> QED BY <1>1, <1>3, <1>4, <2>2, <3>2
  <2> QED BY <2>1, <2>2
<1>6. says \in [1..r.len -> What]
  BY <1>3 DEF Audit!Record
<1>7. ASSUME NEW i \in 1..r.len PROVE Content(r)[i] = [seq |-> from + i, what |-> says[i]]
  <2>1. from = seq - r.len
    BY <1>1, <1>4
  <2>2. Content(r)[i] \in Audit!Record /\ Content(r)[i].seq = from + i /\ Content(r)[i].what = says[i]
    BY <1>3, <2>1
  <2> HIDE DEF from, says
  <2> QED BY <2>2 DEF Audit!Record
<1> HIDE DEF from, says
<1>8. Content(r) = [i \in 1..r.len |-> [seq |-> from + i, what |-> says[i]]]
  BY <1>3, <1>7
<1>9. r.len \in 0..Cap + 1
  BY <1>1, <1>4
<1>10. Content(r) \in Audit!Exported
  <2> DEFINE OfLength(n) == {[i \in 1..n |-> [seq |-> run[1] + i, what |-> run[2][i]]] :
                               run \in (0..MaxSeq - n) \X [1..n -> What]}
             run == <<from, says>>
  <2>1. Audit!Exported = UNION {OfLength(n) : n \in 0..Cap + 1}
    BY DEF Audit!Exported
  <2>2. run \in (0..MaxSeq - r.len) \X [1..r.len -> What] /\ run[1] = from /\ run[2] = says
    BY <1>5, <1>6
  <2>3. Content(r) = [i \in 1..r.len |-> [seq |-> run[1] + i, what |-> run[2][i]]]
    BY <1>8, <2>2
  <2> HIDE DEF run
  <2>4. Content(r) \in OfLength(r.len)
    BY <2>2, <2>3
  <2> HIDE DEF OfLength
  <2> QED BY <1>9, <2>1, <2>4
<1> QED BY <1>1, <1>2, <1>4, <1>10 DEF Trails

-----------------------------------------------------------------------------
(* The log and its files.                                                  *)

BackupInv == PersistInv /\ LogInv

LEMMA BackupInitInv == BackupInit => BackupInv
  BY PersistInit, LogInvInit DEF BackupInit, BackupInv

(* To the file, all that a hub does is a step of a writer, of the machine, *)
(* or nothing.                                                             *)
LEMMA FileSteps ==
  ASSUME LogInv, [BackupNext]_backupVars
  PROVE  [Next]_vars
<1>1. ASSUME NEW w \in Writers, SaveSnapshot(w) PROVE Next
  BY <1>1, SnapshotIsTrail DEF SaveSnapshot, Next
<1>2. CASE FileStep
  BY <1>2 DEF FileStep, Next
<1>3. CASE Crash
  BY <1>3 DEF Crash, Next
<1>4. CASE Operation \/ Restore \/ ImportForeign
  BY <1>4 DEF Operation, Restore, ImportForeign
<1>5. CASE UNCHANGED backupVars
  BY <1>5 DEF backupVars
<1> QED BY <1>1, <1>2, <1>3, <1>4, <1>5 DEF BackupNext

(* To the log, it is a record, an import, a new beginning, or nothing.     *)
LEMMA LogSteps ==
  ASSUME BackupInv, [BackupNext]_backupVars
  PROVE  LogInv' /\ [Audit!Trail!Next]_Audit!Trail!vars
<1>0. PersistInv /\ LogInv
  BY DEF BackupInv
<1>1. CASE Operation
  BY <1>0, <1>1, LogImplements DEF Operation, Audit!Trail!Next
<1>2. CASE Restore
  <2>1. file.data \in Audit!Exported
    BY <1>0, <1>2, ContentsAssumption DEF Restore, PersistInv, Good, File, Trails
  <2> QED BY <1>0, <1>2, <2>1, BareImplements, ImportImplements DEF Restore, Audit!Trail!Next
<1>3. CASE ImportForeign
  BY <1>0, <1>3, ForeignAssumption, BareImplements, ImportImplements
    DEF ImportForeign, Audit!Trail!Next
<1>4. CASE Crash
  BY <1>4, RestartImplements DEF Crash, Audit!Trail!Next
<1>5. CASE UNCHANGED auditVars
  BY <1>0, <1>5, LogStays
<1>6. FileStep \/ (\E w \in Writers : SaveSnapshot(w)) \/ UNCHANGED backupVars => UNCHANGED auditVars
  BY DEF FileStep, SaveSnapshot, backupVars
<1> QED BY <1>1, <1>2, <1>3, <1>4, <1>5, <1>6 DEF BackupNext

LEMMA BackupAlways == BackupSpec => []BackupInv
<1>1. BackupInv /\ [BackupNext]_backupVars => BackupInv'
  BY FileSteps, LogSteps, PersistStep DEF BackupInv
<1> QED BY <1>1, BackupInitInv, PTL DEF BackupSpec

(* A temporary file lives no longer than its call, also when what is       *)
(* written is the snapshot of a log that goes on.                          *)
THEOREM TempFilesGo == BackupSpec => []TempRemoved
<1>1. BackupInv => TempRemoved
  BY DEF BackupInv, PersistInv, TmpMatches, TempRemoved
<1> QED BY <1>1, BackupAlways, PTL

(* Whatever the hub does, and however calls, failures and crashes          *)
(* interleave, the path is read as the whole of one snapshot.              *)
THEOREM SnapshotFileImplemented == BackupSpec => ImplementsFile
<1>1. BackupInit => Promise!Init
  BY InitImplements DEF BackupInit
<1>2. BackupInv /\ [BackupNext]_backupVars => [Promise!Next]_Promise!vars
  BY FileSteps, StepImplements DEF BackupInv
<1> QED BY <1>1, <1>2, BackupAlways, PTL DEF BackupSpec, ImplementsFile, Promise!Spec

(* However often the ring wrapped round, was refilled from a file or began *)
(* anew, it holds exactly the newest Cap records, in their order.          *)
THEOREM TrailImplemented == BackupSpec => ImplementsTrail
<1>1. BackupInit => Audit!Trail!Init
  BY DEF BackupInit, Audit!Init, Audit!All, Audit!Trail!Init
<1>2. BackupInv /\ [BackupNext]_backupVars => [Audit!Trail!Next]_Audit!Trail!vars
  BY LogSteps
<1> QED BY <1>1, <1>2, BackupAlways, PTL
        DEF BackupSpec, ImplementsTrail, Audit!ImplementsTrail, Audit!Trail!Spec

-----------------------------------------------------------------------------
(* Queries.                                                                *)

(* The records at the places above n - i that a filter lets through.       *)
Latest(trail, n, wanted, i) == {j \in 1..n : j > n - i /\ trail[j].what \in wanted}

(* What a query has found when it looked at the i newest of n records.     *)
FoundSoFar(q, trail, n, wanted, limit, i) ==
  LET m == Latest(trail, n, wanted, i) IN
  /\ q \in Seq(Audit!Record)
  /\ IsFiniteSet(m)
  /\ Len(q) = IF Cardinality(m) < limit THEN Cardinality(m) ELSE limit
  /\ \A a, b \in 1..Len(q) : a < b => q[a].seq > q[b].seq
  /\ \A a \in 1..Len(q) : q[a].what \in wanted
  /\ \A a \in 1..Len(q) : \A j \in 1..n : j <= n - i => q[a].seq > trail[j].seq
  /\ \A j \in m : (\E b \in 1..Len(q) : q[b].seq <= trail[j].seq) \/ Len(q) < limit
                    => \E b \in 1..Len(q) : q[b] = trail[j]

(* One more record that the filter does not let through.                   *)
LEMMA PassesBy ==
  ASSUME NEW n \in Nat, NEW trail \in [1..n -> Audit!Record], NEW wanted, NEW limit \in Nat,
         NEW i \in 0..n - 1, NEW q, FoundSoFar(q, trail, n, wanted, limit, i),
         trail[n - i].what \notin wanted
  PROVE  FoundSoFar(q, trail, n, wanted, limit, i + 1)
<1>1. Latest(trail, n, wanted, i + 1) = Latest(trail, n, wanted, i)
  <2>1. ASSUME NEW j \in 1..n, trail[j].what \in wanted PROVE j > n - (i + 1) <=> j > n - i
    <3>1. j # n - i
      BY <2>1
    <3> QED BY <3>1
  <2> QED BY <2>1 DEF Latest
<1>2. \A j \in 1..n : j <= n - (i + 1) => j <= n - i
  OBVIOUS
<1> QED BY <1>1, <1>2 DEF FoundSoFar

(* One more that it does.                                                  *)
LEMMA OneMore ==
  ASSUME NEW n \in Nat, NEW trail \in [1..n -> Audit!Record], NEW wanted, NEW i \in 0..n - 1,
         trail[n - i].what \in wanted, IsFiniteSet(Latest(trail, n, wanted, i))
  PROVE  /\ Latest(trail, n, wanted, i + 1) = Latest(trail, n, wanted, i) \cup {n - i}
         /\ IsFiniteSet(Latest(trail, n, wanted, i + 1))
         /\ Cardinality(Latest(trail, n, wanted, i)) \in Nat
         /\ Cardinality(Latest(trail, n, wanted, i + 1)) = Cardinality(Latest(trail, n, wanted, i)) + 1
<1> DEFINE m == Latest(trail, n, wanted, i)
<1>1. Latest(trail, n, wanted, i + 1) = m \cup {n - i}
  <2>1. \A j \in 1..n : j > n - (i + 1) <=> (j > n - i \/ j = n - i)
    OBVIOUS
  <2>2. n - i \in 1..n
    OBVIOUS
  <2> QED BY <2>1, <2>2 DEF Latest
<1>2. n - i \notin m
  BY DEF Latest
<1> HIDE DEF m
<1>3. IsFiniteSet(m)
  BY DEF m
<1>4. Cardinality(m) \in Nat
  BY <1>3, FS_CardinalityType
<1>5. IsFiniteSet(m \cup {n - i}) /\ Cardinality(m \cup {n - i}) = Cardinality(m) + 1
  BY <1>2, <1>3, FS_AddElement
<1> QED BY <1>1, <1>4, <1>5 DEF m

LEMMA LooksAtOneMore ==
  ASSUME NEW n \in Nat, NEW trail \in [1..n -> Audit!Record], NEW wanted, NEW limit \in Nat,
         \A j, k \in 1..n : j < k => trail[j].seq < trail[k].seq,
         NEW i \in 0..n - 1, NEW q, FoundSoFar(q, trail, n, wanted, limit, i)
  PROVE  FoundSoFar(IF trail[n - i].what \in wanted /\ Len(q) < limit
                    THEN Append(q, trail[n - i]) ELSE q, trail, n, wanted, limit, i + 1)
<1> DEFINE k == n - i
           m == Latest(trail, n, wanted, i)
           more == Latest(trail, n, wanted, i + 1)
<1>0. CASE trail[k].what \notin wanted
  BY <1>0, PassesBy
<1>1. ASSUME trail[k].what \in wanted
      PROVE  /\ more = m \cup {k} /\ IsFiniteSet(more)
             /\ Cardinality(m) \in Nat /\ Cardinality(more) = Cardinality(m) + 1
  BY <1>1, OneMore DEF FoundSoFar
<1>2. /\ q \in Seq(Audit!Record) /\ Len(q) \in Nat
      /\ Len(q) = IF Cardinality(m) < limit THEN Cardinality(m) ELSE limit
      /\ \A a, b \in 1..Len(q) : a < b => q[a].seq > q[b].seq
      /\ \A a \in 1..Len(q) : q[a].what \in wanted
      /\ \A a \in 1..Len(q) : \A j \in 1..n : j <= k => q[a].seq > trail[j].seq
      /\ \A j \in m : (\E b \in 1..Len(q) : q[b].seq <= trail[j].seq) \/ Len(q) < limit
                        => \E b \in 1..Len(q) : q[b] = trail[j]
  BY DEF FoundSoFar
<1>3. k \in 1..n /\ trail[k] \in Audit!Record /\ trail[k].seq \in Int
  BY CapAssumption DEF Audit!Record
<1>4. \A a \in 1..Len(q) : q[a] \in Audit!Record /\ q[a].seq \in Int
  <2>1. \A a \in 1..Len(q) : q[a] \in Audit!Record
    BY <1>2
  <2>2. \A rec \in Audit!Record : rec.seq \in Int
    BY CapAssumption DEF Audit!Record
  <2> QED BY <2>1, <2>2
<1>5. \A j \in 1..n : (j <= n - (i + 1) => j < k) /\ trail[j].seq \in Int
  BY CapAssumption DEF Audit!Record
<1>6. CASE trail[k].what \in wanted /\ Len(q) < limit
  <2> DEFINE p == Append(q, trail[k])
  <2>1. /\ p \in Seq(Audit!Record) /\ Len(p) = Len(q) + 1 /\ p[Len(q) + 1] = trail[k]
        /\ \A a \in 1..Len(q) : p[a] = q[a]
    BY <1>2, <1>3
  <2> HIDE DEF p, m, more, k
  <2>2. Len(p) = IF Cardinality(more) < limit THEN Cardinality(more) ELSE limit
    BY <1>1, <1>2, <1>6, <2>1
  <2>3. ASSUME NEW a \in 1..Len(p), NEW b \in 1..Len(p), a < b PROVE p[a].seq > p[b].seq
    <3>1. a \in 1..Len(q)
      BY <1>2, <2>1, <2>3
    <3>2. CASE b \in 1..Len(q)
      BY <1>2, <2>1, <2>3, <3>1, <3>2
    <3>3. CASE b = Len(q) + 1
      <4>1. q[a].seq > trail[k].seq
        BY <1>2, <1>3, <3>1
      <4> QED BY <2>1, <3>1, <3>3, <4>1
    <3> QED BY <1>2, <2>1, <3>2, <3>3
  <2>4. ASSUME NEW a \in 1..Len(p)
        PROVE  /\ p[a].what \in wanted
               /\ \A j \in 1..n : j <= n - (i + 1) => p[a].seq > trail[j].seq
    <3>1. CASE a \in 1..Len(q)
      <4>1. \A j \in 1..n : j < k => j <= k
        BY DEF k
      <4> QED BY <1>2, <1>5, <2>1, <3>1, <4>1
    <3>2. CASE a = Len(q) + 1
      BY <1>3, <1>5, <1>6, <2>1, <3>2
    <3> QED BY <1>2, <2>1, <3>1, <3>2
  <2>5. ASSUME NEW j \in more PROVE \E b \in 1..Len(p) : p[b] = trail[j]
    <3>1. CASE j \in m
      <4>1. PICK b \in 1..Len(q) : q[b] = trail[j]
        BY <1>2, <1>6, <3>1
      <4>2. b \in 1..Len(p) /\ p[b] = trail[j]
        BY <1>2, <2>1, <4>1
      <4> QED BY <4>2
    <3>2. CASE j = k
      BY <1>2, <2>1, <3>2
    <3> QED BY <1>1, <1>6, <2>5, <3>1, <3>2
  <2>6. FoundSoFar(p, trail, n, wanted, limit, i + 1)
    BY <1>1, <1>6, <2>1, <2>2, <2>3, <2>4, <2>5 DEF FoundSoFar, more
  <2> QED BY <1>6, <2>6 DEF p, k
<1>7. CASE trail[k].what \in wanted /\ ~(Len(q) < limit)
  <2> HIDE DEF m, more, k
  <2>1. Len(q) = IF Cardinality(more) < limit THEN Cardinality(more) ELSE limit
    BY <1>1, <1>2, <1>7
  <2>2. \A a \in 1..Len(q) : \A j \in 1..n : j <= n - (i + 1) => q[a].seq > trail[j].seq
    <3>1. \A j \in 1..n : j < k => j <= k
      BY DEF k
    <3> QED BY <1>2, <1>5, <3>1
  <2>3. ASSUME NEW j \in more, \E b \in 1..Len(q) : q[b].seq <= trail[j].seq
        PROVE  \E b \in 1..Len(q) : q[b] = trail[j]
    <3>1. j # k
      <4>1. \A b \in 1..Len(q) : q[b].seq > trail[k].seq
        <5>1. k <= k
          BY <1>3
        <5> QED BY <1>2, <1>3, <5>1
      <4> QED BY <1>3, <1>4, <2>3, <4>1
    <3>2. j \in m
      BY <1>1, <1>7, <2>3, <3>1
    <3> QED BY <1>2, <2>3, <3>2
  <2>4. FoundSoFar(q, trail, n, wanted, limit, i + 1)
    BY <1>1, <1>2, <1>7, <2>1, <2>2, <2>3 DEF FoundSoFar, more
  <2> QED BY <1>7, <2>4 DEF k
<1> QED BY <1>0, <1>6, <1>7

LEMMA NothingLooksAt ==
  ASSUME NEW n \in Nat, NEW trail, NEW wanted, NEW limit \in Nat
  PROVE  FoundSoFar(<<>>, trail, n, wanted, limit, 0)
<1>1. Latest(trail, n, wanted, 0) = {}
  BY DEF Latest
<1>2. IsFiniteSet({}) /\ Cardinality({}) = 0
  BY FS_EmptySet
<1>3. <<>> \in Seq(Audit!Record) /\ Len(<<>>) = 0
  OBVIOUS
<1> QED BY <1>1, <1>2, <1>3 DEF FoundSoFar

(* The loop of Query, from the newest record to the oldest.                *)
LEMMA QueryFinds ==
  ASSUME LogInv, NEW wanted, NEW limit \in Int
  PROVE  FoundSoFar(Audit!Query(wanted, limit), Audit!All, len, wanted, Audit!Most(limit), len)
<1> DEFINE n == len
           trail == Audit!All
           most == Audit!Most(limit)
           Grow(q, rec) == IF rec.what \in wanted /\ Len(q) < most THEN Append(q, rec) ELSE q
           At(i) == buf[(head + n - i) % Cap]
           After(g) == g = [i \in 0..n |-> IF i = 0 THEN <<>> ELSE Grow(g[i - 1], At(i))]
           found == CHOOSE g : After(g)
           R == Seq(Audit!Record)
           F == [x \in (1..n) \X R |-> Grow(x[2], trail[n - x[1] + 1])]
<1>0. most \in Nat
  BY DEF Audit!Most
<1> HIDE DEF most
<1>1. /\ n \in Nat /\ head \in Nat
      /\ trail \in [1..n -> Audit!Record]
      /\ \A j \in 1..n : trail[j].seq = seq - n + j
      /\ seq \in Int
  <2> DEFINE r == Audit!Ring
  <2>1. r.len = n /\ r.head = head
    BY DEF Audit!Ring
  <2>2. RunsTo(r, seq)
    BY DEF LogInv
  <2>3. trail = Content(r)
    BY AllIs
  <2> HIDE DEF r, n, trail
  <2>4. r.len \in 0..Cap /\ r.head \in 0..Cap - 1 /\ Cap \in Nat
    BY <2>2, CapAssumption DEF RunsTo, RingType, Audit!Places
  <2>5. Content(r) \in [1..r.len -> Audit!Record]
    BY <2>2 DEF RunsTo, Content
  <2>6. \A j \in 1..r.len : Content(r)[j].seq = seq - r.len + j
    BY <2>2 DEF RunsTo
  <2>7. seq \in Int
    BY <2>2 DEF RunsTo
  <2> QED BY <2>1, <2>3, <2>4, <2>5, <2>6, <2>7
<1>2. ASSUME NEW i \in 1..n PROVE At(i) = trail[n - i + 1] /\ trail[n - i + 1] \in Audit!Record
  <2>1. n - i + 1 \in 1..len /\ head + (n - i + 1) - 1 = head + n - i
    BY <1>1
  <2>2. trail[n - i + 1] = buf[(head + (n - i + 1) - 1) % Cap]
    BY <2>1 DEF Audit!All
  <2> HIDE DEF trail
  <2> QED BY <1>1, <2>1, <2>2
<1>3. \A j, k \in 1..n : j < k => trail[j].seq < trail[k].seq
  <2> HIDE DEF trail, n
  <2> QED BY <1>1
<1> HIDE DEF trail, At
<1>4. \E g : After(g)
  <2>1. ASSUME NEW x \in (1..n) \X R PROVE Grow(x[2], trail[n - x[1] + 1]) \in R
    <3>1. trail[n - x[1] + 1] \in Audit!Record /\ x[2] \in R
      BY <1>2
    <3> QED BY <3>1
  <2>2. F \in [(1..n) \X R -> R]
    <3> HIDE DEF Grow, R
    <3> QED BY <2>1
  <2>3. <<>> \in R
    OBVIOUS
  <2>4. PICK g \in [0..n -> R] : Unfolds(g, n, <<>>, F)
    <3> HIDE DEF n, R, F
    <3> QED BY <1>1, <2>2, <2>3, UnfoldExists
  <2>5. ASSUME NEW i \in 0..n PROVE g[i] = IF i = 0 THEN <<>> ELSE Grow(g[i - 1], At(i))
    <3> HIDE DEF Grow, R
    <3>1. g[i] = IF i = 0 THEN <<>> ELSE F[<<i, g[i - 1]>>]
      <4> HIDE DEF F
      <4> QED BY <2>4 DEF Unfolds
    <3>2. i # 0 => i \in 1..n /\ i - 1 \in 0..n
      BY <1>1
    <3>3. g \in [0..n -> R]
      BY <2>4
    <3>4. i # 0 => F[<<i, g[i - 1]>>] = Grow(g[i - 1], trail[n - i + 1])
      <4> HIDE DEF n
      <4> QED BY <3>2, <3>3
    <3> HIDE DEF F, n
    <3> QED BY <1>2, <3>1, <3>2, <3>4
  <2> HIDE DEF Grow
  <2>6. g = [i \in 0..n |-> g[i]]
    OBVIOUS
  <2> QED BY <2>5, <2>6
<1>5. After(found)
  <2> HIDE DEF After
  <2> QED BY <1>4
<1>6. Audit!Query(wanted, limit) = found[n]
  BY DEF Audit!Query, At, most
<1>7. \A i \in 0..n : found[i] = IF i = 0 THEN <<>> ELSE Grow(found[i - 1], At(i))
  <2> HIDE DEF found, Grow
  <2> QED BY <1>5
<1> HIDE DEF found, n
<1> DEFINE G == {i \in Nat : i <= n => FoundSoFar(found[i], trail, n, wanted, most, i)}
<1>8. 0 \in G
  <2>1. found[0] = <<>>
    BY <1>1, <1>7
  <2> QED BY <1>0, <1>1, <2>1, NothingLooksAt
<1>9. ASSUME NEW i \in Nat, i \in G PROVE i + 1 \in G
  <2> SUFFICES ASSUME i + 1 <= n PROVE FoundSoFar(found[i + 1], trail, n, wanted, most, i + 1)
    OBVIOUS
  <2>1. i + 1 \in 1..n /\ i \in 0..n - 1 /\ (i + 1) - 1 = i /\ n - (i + 1) + 1 = n - i /\ i + 1 # 0
    BY <1>1
  <2>2. FoundSoFar(found[i], trail, n, wanted, most, i)
    BY <1>1, <1>9, <2>1
  <2>3. found[i + 1] = Grow(found[i], trail[n - i])
    <3>1. found[i + 1] = Grow(found[(i + 1) - 1], At(i + 1))
      <4> HIDE DEF Grow
      <4> QED BY <1>7, <2>1
    <3>2. At(i + 1) = trail[n - (i + 1) + 1]
      BY <1>2, <2>1
    <3> HIDE DEF Grow
    <3> QED BY <2>1, <3>1, <3>2
  <2>4. FoundSoFar(Grow(found[i], trail[n - i]), trail, n, wanted, most, i + 1)
    BY <1>0, <1>1, <1>3, <2>1, <2>2, LooksAtOneMore
  <2> HIDE DEF Grow
  <2> QED BY <2>3, <2>4
<1>10. n \in G
  <2>1. \A i \in Nat : i \in G
    <3> HIDE DEF G
    <3> QED BY <1>8, <1>9, NumberInduction
  <2> QED BY <1>1, <2>1
<1> QED BY <1>1, <1>6, <1>10 DEF n, trail, most

LEMMA SameCardinality == \A S : Audit!Cardinality(S) = Cardinality(S)
BY DEF Audit!Cardinality, Cardinality

(* A query never answers with an older record while a newer one that its   *)
(* filter lets through is missing, whatever the filter and the limit.      *)
THEOREM QueriesAreNewestFirst == BackupSpec => []QueryNewestFirst
<1>1. LogInv => QueryNewestFirst
  <2> SUFFICES ASSUME LogInv, NEW wanted \in SUBSET What, NEW limit \in 0..Cap + 1
               PROVE  LET q == Audit!Query(wanted, limit)
                          matching == {i \in 1..len : Audit!All[i].what \in wanted}
                      IN  /\ Len(q) = IF Cardinality(matching) < Audit!Most(limit)
                                      THEN Cardinality(matching) ELSE Audit!Most(limit)
                          /\ \A i, j \in DOMAIN q : i < j => q[i].seq > q[j].seq
                          /\ \A i \in DOMAIN q : q[i].what \in wanted
                          /\ \A i \in matching :
                               (\E j \in DOMAIN q : q[j].seq <= Audit!All[i].seq)
                                 => \E j \in DOMAIN q : q[j] = Audit!All[i]
    BY SameCardinality, Zenon DEF QueryNewestFirst, Audit!QueryNewestFirst
  <2> DEFINE q == Audit!Query(wanted, limit)
             matching == {i \in 1..len : Audit!All[i].what \in wanted}
  <2>1. limit \in Int
    BY CapAssumption
  <2>2. FoundSoFar(q, Audit!All, len, wanted, Audit!Most(limit), len)
    BY <2>1, QueryFinds
  <2>3. Latest(Audit!All, len, wanted, len) = matching
    <3>1. len \in Nat
      BY CapAssumption DEF LogInv, RunsTo, RingType, Audit!Ring
    <3> QED BY <3>1 DEF Latest
  <2>4. q \in Seq(Audit!Record) /\ DOMAIN q = 1..Len(q)
    BY <2>2 DEF FoundSoFar
  <2>5. /\ Len(q) = IF Cardinality(matching) < Audit!Most(limit)
                                      THEN Cardinality(matching) ELSE Audit!Most(limit)
        /\ \A i, j \in DOMAIN q : i < j => q[i].seq > q[j].seq
        /\ \A i \in DOMAIN q : q[i].what \in wanted
        /\ \A i \in matching :
             (\E j \in DOMAIN q : q[j].seq <= Audit!All[i].seq) => \E j \in DOMAIN q : q[j] = Audit!All[i]
    <3> HIDE DEF q, matching
    <3> QED BY <2>2, <2>3, <2>4 DEF FoundSoFar
  <2> QED BY <2>5
<1> QED BY <1>1, BackupAlways, PTL DEF BackupInv
=============================================================================
