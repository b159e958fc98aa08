----------------------------- MODULE WatchProofs -----------------------------
(***************************************************************************)
(* Theorems about WatchHub, for any number of watchers, polls, namespaces  *)
(* and events, and any capacity of the channels.                           *)
(***************************************************************************)
EXTENDS WatchHub, SequenceTheorems, TLAPS

(* A poll waits for one key, and keeps to it.                              *)
PollsTopic == \A p \in Pollers : pc[p] # "idle" => filter[p] \in PollTopics

Publishing == pub.pc \in {"next", "send", "drop", "resend"}

TypeInv == TypeOK /\ PollsTopic /\ (Publishing => Current \in Positions)

USE NamesAssumption, CallsAssumption, BufCapAssumption, KindsAssumption,
    MaxEventsAssumption, BoundsAssumption

LEMMA TypeInit == Init => TypeInv
<1> SUFFICES ASSUME Init PROVE TypeInv
  OBVIOUS
<1>1. log \in Seq(Event) /\ Len(log) <= MaxEvents
  BY DEF Init
<1>2. /\ chain \in [Topics -> [len : 0..MaxEvents, head : 0..MaxEvents]]
      /\ last \in [Topics -> 0..MaxEvents]
  BY DEF Init
<1>3. /\ filter \in [Calls -> Filters]
      /\ since \in [Pollers -> {0} \cup SinceRevs]
      /\ pc \in [Calls -> CallPC]
      /\ result \in [Pollers -> Result]
      /\ from \in [Calls -> 0..MaxEvents]
  BY DEF Init, Filters, CallPC, Result, Pending
<1>4. /\ ch \in [Calls -> Seq(Positions)] /\ \A c \in Calls : Len(ch[c]) <= BufCap
      /\ got \in [Watchers -> Seq(Positions)]
  BY DEF Init
<1>5. /\ pub \in [pc : PubPC, todo : SUBSET Calls, cur : Calls \cup {NoCall}]
      /\ ~Publishing
  BY DEF Init, PubPC, Publishing
<1>6. /\ subs \subseteq Calls /\ closed \subseteq Calls /\ chanClosed \subseteq Calls
      /\ hubClosed \in BOOLEAN /\ panicked \in BOOLEAN /\ missed \subseteq Calls
      /\ PollsTopic
  BY DEF Init, PollsTopic, Calls
<1> QED BY <1>1, <1>2, <1>3, <1>4, <1>5, <1>6 DEF TypeInv, TypeOK

(* Sequences of positions, as channels and as what was received.           *)
LEMMA TailAndAppend ==
  ASSUME NEW S, NEW q \in Seq(S), NEW e \in S
  PROVE  /\ Append(q, e) \in Seq(S) /\ Len(Append(q, e)) = Len(q) + 1
         /\ q # <<>> => Tail(q) \in Seq(S) /\ Len(Tail(q)) = Len(q) - 1 /\ Head(q) \in S
OBVIOUS

LEMMA TypePublishBegin ==
  ASSUME TypeInv, NEW t \in Topics, NEW kind \in Kinds, NEW rev \in Revs, PublishBegin(t, kind, rev)
  PROVE  TypeInv'
<1> USE DEF TypeInv, TypeOK, PollsTopic
<1>1. UNCHANGED <<subs, ch, closed, chanClosed, hubClosed, panicked, missed, filter, since, pc, got, result, from>>
  BY DEF PublishBegin, callVars
<1>2. log' \in Seq(Event) /\ Len(log') <= MaxEvents /\ Len(log') \in Positions
  BY DEF PublishBegin, Event, Revs, Positions
<1>3. chain' \in [Topics -> [len : 0..MaxEvents, head : 0..MaxEvents]]
  <2>1. chain[t] \in [len : 0..MaxEvents, head : 0..MaxEvents]
    OBVIOUS
  <2>2. \E e \in [len : 0..MaxEvents, head : 0..MaxEvents] : chain' = [chain EXCEPT ![t] = e]
    BY <2>1 DEF PublishBegin, Change, Revs
  <2> QED BY <2>2
<1>4. last' \in [Topics -> 0..MaxEvents]
  BY DEF PublishBegin
<1>5. pub' \in [pc : PubPC, todo : SUBSET Calls, cur : Calls \cup {NoCall}]
  BY DEF PublishBegin, PubPC
<1> QED BY <1>1, <1>2, <1>3, <1>4, <1>5 DEF Current

(* The steps of the holder of the lock other than the start of a           *)
(* publication, and what they leave alone.                                 *)
LEMMA TypeHolder ==
  ASSUME TypeInv, CloseBegin \/ HolderStep
  PROVE  TypeInv' /\ UNCHANGED <<log, chain, last, callVars>>
<1> USE DEF TypeInv, TypeOK, PollsTopic
<1> DEFINE Rest == UNCHANGED <<log, chain, last, callVars>>
           PubType == pub' \in [pc : PubPC, todo : SUBSET Calls, cur : Calls \cup {NoCall}]
           PubRest == PubType /\ (Publishing' => Publishing)
<1>0. ASSUME Rest, PubRest,
             ch' \in [Calls -> Seq(Positions)], \A c \in Calls : Len(ch'[c]) <= BufCap,
             subs' \subseteq Calls, closed' \subseteq Calls, chanClosed' \subseteq Calls,
             hubClosed' \in BOOLEAN, panicked' \in BOOLEAN, missed' \subseteq Calls
      PROVE  TypeInv'
  BY <1>0 DEF callVars, Current
<1>1. CASE CloseBegin
  <2>1. Rest /\ UNCHANGED <<ch, closed, chanClosed, panicked, missed>>
    BY <1>1 DEF CloseBegin
  <2>2. subs' = {} /\ hubClosed' = TRUE
    BY <1>1 DEF CloseBegin
  <2>3. PubRest
    BY <1>1 DEF CloseBegin, PubPC, Publishing
  <2> HIDE DEF PubRest
  <2>4. ch' \in [Calls -> Seq(Positions)] /\ \A c \in Calls : Len(ch'[c]) <= BufCap
    BY <2>1
  <2>5. /\ subs' \subseteq Calls /\ closed' \subseteq Calls /\ chanClosed' \subseteq Calls
        /\ hubClosed' \in BOOLEAN /\ panicked' \in BOOLEAN /\ missed' \subseteq Calls
    BY <2>1, <2>2
  <2> HIDE DEF TypeInv, TypeOK, PollsTopic
  <2> QED BY <1>0, <2>1, <2>3, <2>4, <2>5
<1>2. CASE PublishEnd \/ CloseEnd
  BY <1>0, <1>2 DEF PublishEnd, CloseEnd, PubPC, Publishing
<1>3. ASSUME NEW s \in Calls, SendBegin(s) PROVE TypeInv' /\ Rest
  <2>1. PubRest
    BY <1>3 DEF SendBegin, PubPC, Publishing
  <2> QED BY <1>0, <1>3, <2>1 DEF SendBegin
<1>4. ASSUME Panic, UNCHANGED <<log, chain, last, subs, closed, chanClosed, hubClosed, callVars>>
      PROVE  TypeInv' /\ Rest
  BY <1>0, <1>4 DEF Panic, PubPC, Publishing
<1>5. ASSUME NEW s \in Calls, Room(s), Deliver(s), Publishing,
             UNCHANGED <<log, chain, last, subs, closed, chanClosed, hubClosed, callVars>>
      PROVE  TypeInv' /\ Rest
  <2>1. ch' \in [Calls -> Seq(Positions)] /\ \A c \in Calls : Len(ch'[c]) <= BufCap
    BY <1>5, TailAndAppend DEF Deliver, Room
  <2>2. PubRest
    BY <1>5 DEF Deliver, PubPC, Publishing
  <2> QED BY <1>0, <1>5, <2>1, <2>2 DEF Deliver
<1>6. ASSUME NEW s \in Calls, SendTry(s) \/ SendRetry(s) PROVE TypeInv' /\ Rest
  <2>1. Publishing
    BY <1>6 DEF SendTry, SendRetry, Publishing
  <2>2. ASSUME UNCHANGED <<ch, panicked, missed>>,
               \/ pub' = [pub EXCEPT !.pc = "drop"]
               \/ pub' = [pub EXCEPT !.pc = "next", !.cur = NoCall]
        PROVE  TypeInv' /\ Rest
    <3>1. PubRest
      BY <2>1, <2>2 DEF PubPC, Publishing
    <3> QED BY <1>0, <1>6, <2>2, <3>1 DEF SendTry, SendRetry
  <2> QED BY <1>4, <1>5, <1>6, <2>1, <2>2 DEF SendTry, SendRetry
<1>7. ASSUME NEW s \in Calls, SendDrop(s) PROVE TypeInv' /\ Rest
  <2>1. ch' \in [Calls -> Seq(Positions)] /\ \A c \in Calls : Len(ch'[c]) <= BufCap
    BY <1>7, TailAndAppend DEF SendDrop
  <2>2. PubRest
    BY <1>7 DEF SendDrop, PubPC, Publishing
  <2> QED BY <1>0, <1>7, <2>1, <2>2 DEF SendDrop
<1>8. ASSUME NEW s \in Calls, CloseFlag(s) \/ CloseChan(s) PROVE TypeInv' /\ Rest
  <2>1. PubRest
    <3>1. CASE CloseFlag(s)
      BY <1>8, <3>1 DEF CloseFlag, PubPC, Publishing
    <3>2. CASE CloseChan(s)
      BY <1>8, <3>2 DEF CloseChan, PubPC, Publishing
    <3> QED BY <1>8, <3>1, <3>2
  <2> QED BY <1>0, <1>8, <2>1 DEF CloseFlag, CloseChan
<1> QED BY <1>1, <1>2, <1>3, <1>6, <1>7, <1>8 DEF HolderStep

(* The steps of a call, whoever it is.                                     *)
CallStep ==
  \/ \E w \in Watchers : Receive(w) \/ \E f \in WatchFilters : Watch(w, f)
  \/ \E p \in Pollers : WaitStep(p) \/ \E t \in PollTopics, r \in SinceRevs : WaitBegin(p, t, r)
  \/ \E c \in Calls : LeaveStep(c)

LEMMA TypeCall ==
  ASSUME TypeInv, CallStep
  PROVE  TypeInv' /\ UNCHANGED pubVars
<1> USE DEF TypeInv, TypeOK
<1> DEFINE Rest == UNCHANGED pubVars
<1>0. ASSUME Rest, PollsTopic',
             filter' \in [Calls -> Filters], since' \in [Pollers -> {0} \cup SinceRevs],
             ch' \in [Calls -> Seq(Positions)], \A c \in Calls : Len(ch'[c]) <= BufCap,
             got' \in [Watchers -> Seq(Positions)],
             subs' \subseteq Calls, closed' \subseteq Calls, chanClosed' \subseteq Calls,
             pc' \in [Calls -> CallPC], result' \in [Pollers -> Result],
             from' \in [Calls -> 0..MaxEvents]
      PROVE  TypeInv' /\ Rest
  BY <1>0 DEF pubVars, Publishing, Current
<1>1. ASSUME NEW w \in Watchers, Receive(w) PROVE TypeInv' /\ Rest
  <2>1. w \in Calls
    BY DEF Calls
  <2>2. ch' \in [Calls -> Seq(Positions)] /\ \A c \in Calls : Len(ch'[c]) <= BufCap
    BY <1>1, <2>1, TailAndAppend DEF Receive
  <2>3. got' \in [Watchers -> Seq(Positions)]
    BY <1>1, <2>1, TailAndAppend DEF Receive
  <2>4. PollsTopic'
    BY <1>1 DEF Receive, PollsTopic
  <2> QED BY <1>0, <1>1, <2>2, <2>3, <2>4 DEF Receive
<1>2. ASSUME NEW w \in Watchers, NEW f \in WatchFilters, Watch(w, f) PROVE TypeInv' /\ Rest
  <2>1. w \in Calls /\ w \notin Pollers /\ f \in Filters
    BY DEF Calls
  <2>2. filter' \in [Calls -> Filters] /\ pc' \in [Calls -> CallPC] /\ subs' \subseteq Calls
    BY <1>2, <2>1 DEF Watch, Subscribe, CallPC
  <2>3. from' \in [Calls -> 0..MaxEvents]
    BY <1>2, <2>1 DEF Watch
  <2>4. PollsTopic'
    BY <1>2, <2>1 DEF Watch, Subscribe, PollsTopic, Calls
  <2> QED BY <1>0, <1>2, <2>2, <2>3, <2>4 DEF Watch
<1>3. ASSUME NEW p \in Pollers, NEW t \in PollTopics, NEW r \in SinceRevs, WaitBegin(p, t, r)
      PROVE  TypeInv' /\ Rest
  <2>1. p \in Calls /\ t \in Filters /\ t \in Topics
    BY DEF Calls, Filters, Topics
  <2>2. filter' \in [Calls -> Filters] /\ since' \in [Pollers -> {0} \cup SinceRevs]
    BY <1>3, <2>1 DEF WaitBegin
  <2>3. from' \in [Calls -> 0..MaxEvents]
    BY <1>3, <2>1 DEF WaitBegin
  <2>4. \E to \in CallPC : pc' = [pc EXCEPT ![p] = to]
    <3>1. \/ pc' = [pc EXCEPT ![p] = "done"] \/ pc' = [pc EXCEPT ![p] = "subscribe"]
      BY <1>3, Zenon DEF WaitBegin
    <3> QED BY <3>1 DEF CallPC
  <2>5. result' \in [Pollers -> Result]
    <3>1. [kind |-> "event", pos |-> last[t]] \in Result
      BY <2>1 DEF Result
    <3>2. \/ result' = [result EXCEPT ![p] = [kind |-> "event", pos |-> last[t]]]
          \/ result' = result
      BY <1>3, Zenon DEF WaitBegin
    <3> QED BY <3>1, <3>2
  <2>6. pc' \in [Calls -> CallPC] /\ \A q \in Pollers \ {p} : pc'[q] = pc[q]
    BY <2>1, <2>4 DEF Calls
  <2>7. PollsTopic'
    <3>1. filter' = [filter EXCEPT ![p] = t]
      BY <1>3 DEF WaitBegin
    <3> QED BY <2>1, <2>6, <3>1 DEF PollsTopic, Calls
  <2> QED BY <1>0, <1>3, <2>2, <2>3, <2>5, <2>6, <2>7 DEF WaitBegin
<1>4. ASSUME NEW p \in Pollers, WaitSubscribe(p) PROVE TypeInv' /\ Rest
  <2>1. p \in Calls
    BY DEF Calls
  <2>2. filter' = filter /\ pc' \in [Calls -> CallPC] /\ subs' \subseteq Calls
    BY <1>4, <2>1 DEF WaitSubscribe, Subscribe, CallPC
  <2>3. PollsTopic'
    BY <1>4, <2>1, <2>2 DEF WaitSubscribe, Subscribe, PollsTopic, Calls
  <2> QED BY <1>0, <1>4, <2>2, <2>3 DEF WaitSubscribe
<1>5. ASSUME NEW p \in Pollers, NEW res \in Result, pc[p] # "idle", Return(p, res)
      PROVE  PollsTopic' \/ filter' # filter
  BY <1>5 DEF Return, PollsTopic, Calls
<1>6. ASSUME NEW p \in Pollers, NEW res \in Result, Return(p, res)
      PROVE  pc' \in [Calls -> CallPC] /\ result' \in [Pollers -> Result]
  BY <1>6 DEF Return, CallPC
<1>7. ASSUME NEW p \in Pollers, WaitReceive(p) PROVE TypeInv' /\ Rest
  <2>1. p \in Calls
    BY DEF Calls
  <2>2. ch' \in [Calls -> Seq(Positions)] /\ \A c \in Calls : Len(ch'[c]) <= BufCap
    BY <1>7, <2>1, TailAndAppend DEF WaitReceive
  <2>3. [kind |-> "event", pos |-> Head(ch[p])] \in Result
    BY <1>7, <2>1, TailAndAppend DEF WaitReceive, Result, Positions
  <2>4. pc' \in [Calls -> CallPC] /\ result' \in [Pollers -> Result]
    BY <1>6, <1>7, <2>3 DEF WaitReceive
  <2>5. PollsTopic'
    BY <1>5, <1>7, <2>3 DEF WaitReceive, PollsTopic
  <2> QED BY <1>0, <1>7, <2>2, <2>4, <2>5 DEF WaitReceive
<1>8. ASSUME NEW p \in Pollers, WaitClosed(p) PROVE TypeInv' /\ Rest
  <2>1. [kind |-> "closed", pos |-> 0] \in Result
    BY DEF Result
  <2> QED BY <1>0, <1>5, <1>6, <1>8, <2>1 DEF WaitClosed
<1>9. ASSUME NEW p \in Pollers, WaitTimeout(p) PROVE TypeInv' /\ Rest
  <2>1. filter[p] \in Topics
    BY <1>9 DEF WaitTimeout, PollsTopic
  <2>2. /\ [kind |-> "event", pos |-> last[filter[p]]] \in Result
        /\ [kind |-> "timeout", pos |-> Len(log)] \in Result
    BY <2>1 DEF Result
  <2>3. PICK res \in Result : Return(p, res)
    <3>1. CASE Newer(filter[p], since[p])
      <4>1. Return(p, [kind |-> "event", pos |-> last[filter[p]]])
        BY <1>9, <3>1 DEF WaitTimeout
      <4> QED BY <2>2, <4>1
    <3>2. CASE ~Newer(filter[p], since[p])
      <4>1. Return(p, [kind |-> "timeout", pos |-> Len(log)])
        BY <1>9, <3>2 DEF WaitTimeout
      <4> QED BY <2>2, <4>1
    <3> QED BY <3>1, <3>2
  <2>4. UNCHANGED <<subs, filter, since, ch, closed, chanClosed, got, from, pubVars>>
    BY <1>9 DEF WaitTimeout
  <2>5. pc' \in [Calls -> CallPC] /\ result' \in [Pollers -> Result]
    BY <1>6, <2>3
  <2>6. PollsTopic'
    <3>1. pc[p] # "idle"
      BY <1>9 DEF WaitTimeout
    <3> QED BY <1>5, <2>3, <2>4, <3>1
  <2> QED BY <1>0, <2>4, <2>5, <2>6
<1>10. ASSUME NEW c \in Calls, LeaveStep(c) PROVE TypeInv' /\ Rest
  <2>0. \E s \in CallPC : pc' = [pc EXCEPT ![c] = s] /\ pc[c] # "idle"
    BY <1>10 DEF LeaveStep, Unsubscribe, Flag, CloseOwn, CallPC
  <2>1. pc' \in [Calls -> CallPC] /\ \A p \in Pollers : pc'[p] # "idle" => pc[p] # "idle"
    BY <2>0 DEF TypeInv, TypeOK, Calls
  <2>2. subs' \subseteq Calls /\ closed' \subseteq Calls /\ chanClosed' \subseteq Calls
    BY <1>10 DEF LeaveStep, Unsubscribe, Flag, CloseOwn
  <2>3. UNCHANGED <<filter, since, ch, got, result, from, pubVars>>
    BY <1>10 DEF LeaveStep, Unsubscribe, Flag, CloseOwn
  <2>4. PollsTopic'
    BY <2>1, <2>3 DEF PollsTopic
  <2> QED BY <1>0, <2>1, <2>2, <2>3, <2>4
<1> QED BY <1>1, <1>2, <1>3, <1>4, <1>7, <1>8, <1>9, <1>10 DEF CallStep, WaitStep

LEMMA TypeNext == TypeInv /\ [Next]_vars => TypeInv'
<1> SUFFICES ASSUME TypeInv, [Next]_vars PROVE TypeInv'
  OBVIOUS
<1>1. CASE UNCHANGED vars
  BY <1>1 DEF vars, TypeInv, TypeOK, PollsTopic, Publishing, Current
<1>2. CASE Next
  BY <1>1, <1>2, TypePublishBegin, TypeHolder, TypeCall DEF Next, CallStep, Finished
<1> QED BY <1>1, <1>2

(* Every reachable state has its types, and no channel ever holds more     *)
(* than its capacity, whatever it is.                                      *)
THEOREM TypeCorrect == Spec => []TypeOK
<1>1. TypeInv => TypeOK
  BY DEF TypeInv
<1> QED BY <1>1, TypeInit, TypeNext, PTL DEF Spec

-----------------------------------------------------------------------------
(* The life of a subscription.  Whoever takes it out of the map marks it,  *)
(* and only then closes its channel; Publish runs only while the hub is    *)
(* open, and then nobody but the call itself takes it out, so that a call  *)
(* that returned has a closed channel if a Publish still holds it.         *)

(* The subscription a Publish is about to send to, and those it will.      *)
Targets == pub.todo \cup (IF pub.pc \in {"send", "drop", "resend"} THEN {pub.cur} ELSE {})

Closing == pub.pc \in {"closing", "flagged"}
Begun(c) == pc[c] \notin {"idle", "subscribe"}

LifeOf(c) ==
  /\ c \in subs => pc[c] \in {"select", "leave"}
  /\ c \in closed => c \notin subs /\ Begun(c)
  /\ c \in chanClosed => c \in closed
  /\ pc[c] = "flagged" => c \in closed

LifeOpen(c) == /\ pc[c] \in {"select", "leave"} => c \in subs
               /\ c \in closed => pc[c] \in {"flagged", "done"}

LifePub ==
  /\ Closing => hubClosed /\ \A c \in pub.todo : c \notin subs /\ Begun(c)
  /\ pub.pc = "flagged" => pub.cur \in closed
  /\ pub.pc \in {"send", "drop", "resend"} => pub.cur \notin pub.todo
  /\ Publishing => /\ ~hubClosed
                   /\ \A c \in Targets : Begun(c) /\ (pc[c] = "done" => c \in chanClosed)

LifeInv ==
  /\ \A c \in Calls : LifeOf(c) /\ (~hubClosed => LifeOpen(c))
  /\ LifePub

LEMMA LifeInit == Init => LifeInv
BY DEF Init, LifeInv, LifeOf, LifeOpen, LifePub, Closing, Publishing

(* A step of a send under way adds no target.                              *)
LEMMA SendKeepsTargets ==
  ASSUME TypeInv, NEW s \in Calls, SendTry(s) \/ SendDrop(s) \/ SendRetry(s)
  PROVE  /\ pub.pc \in {"send", "drop", "resend"} /\ s = pub.cur
         /\ Targets' \subseteq Targets /\ pub'.pc \in {"idle", "next", "send", "drop", "resend"}
         /\ pub'.todo \subseteq pub.todo
         /\ pub'.pc \in {"send", "drop", "resend"} => pub'.cur = pub.cur
<1>1. \/ pub' = [pc |-> "idle", todo |-> {}, cur |-> NoCall]
      \/ pub' = [pub EXCEPT !.pc = "next", !.cur = NoCall]
      \/ pub' = [pub EXCEPT !.pc = "drop"] /\ pub.pc = "send"
      \/ pub' = [pub EXCEPT !.pc = "resend"] /\ pub.pc = "drop"
  BY DEF SendTry, SendDrop, SendRetry, Panic, Deliver
<1>2. pub \in [pc : PubPC, todo : SUBSET Calls, cur : Calls \cup {NoCall}]
  BY DEF TypeInv, TypeOK
<1>3. pub.pc \in {"send", "drop", "resend"} /\ s = pub.cur
  BY DEF SendTry, SendDrop, SendRetry
<1>4. CASE pub' = [pc |-> "idle", todo |-> {}, cur |-> NoCall]
  BY <1>3, <1>4 DEF Targets
<1>5. CASE pub' = [pub EXCEPT !.pc = "next", !.cur = NoCall]
  BY <1>2, <1>3, <1>5 DEF Targets
<1>6. CASE pub' = [pub EXCEPT !.pc = "drop"] /\ pub.pc = "send"
  BY <1>2, <1>3, <1>6 DEF Targets
<1>7. CASE pub' = [pub EXCEPT !.pc = "resend"] /\ pub.pc = "drop"
  BY <1>2, <1>3, <1>7 DEF Targets
<1> QED BY <1>1, <1>4, <1>5, <1>6, <1>7

LEMMA LifeHolder ==
  ASSUME TypeInv, LifeInv,
         \/ \E t \in Topics, kind \in Kinds, rev \in Revs : PublishBegin(t, kind, rev)
         \/ CloseBegin \/ HolderStep
  PROVE  LifeInv'
<1>1. CASE \E t \in Topics, kind \in Kinds, rev \in Revs : PublishBegin(t, kind, rev)
  <2>1. /\ pub' = [pc |-> "next", todo |-> subs, cur |-> NoCall] /\ ~hubClosed
        /\ UNCHANGED <<subs, closed, chanClosed, hubClosed, pc>>
    BY <1>1 DEF PublishBegin, callVars
  <2>2. Targets' = subs
    BY <2>1 DEF Targets
  <2> QED BY <2>1, <2>2 DEF TypeInv, TypeOK, LifeInv, LifeOf, LifeOpen, LifePub, Closing,
                           Publishing, Begun
<1>2. CASE CloseBegin
  <2>1. /\ hubClosed' = TRUE /\ subs' = {} /\ ~hubClosed
        /\ pub'.pc = "closing" /\ pub'.todo = subs
        /\ UNCHANGED <<closed, chanClosed, pc>>
    BY <1>2 DEF CloseBegin, callVars
  <2>2. ASSUME NEW c \in Calls PROVE LifeOf(c)'
    <3>1. LifeOf(c)
      BY DEF LifeInv
    <3> QED BY <2>1, <3>1 DEF LifeOf, Begun
  <2>3. \A c \in subs : c \in Calls /\ Begun(c)
    <3>1. subs \subseteq Calls
      BY DEF TypeInv, TypeOK
    <3> QED BY <3>1 DEF LifeInv, LifeOf, Begun
  <2>4. \A c \in pub'.todo : c \notin subs' /\ Begun(c)'
    BY <2>1, <2>3 DEF Begun
  <2>5. LifePub'
    BY <2>1, <2>4 DEF LifePub, Closing, Publishing
  <2>6. \A c \in Calls : LifeOf(c)' /\ (~hubClosed' => LifeOpen(c)')
    BY <2>1, <2>2
  <2> QED BY <2>5, <2>6 DEF LifeInv
<1>3. CASE PublishEnd \/ CloseEnd
  <2>1. pub'.pc = "idle" /\ UNCHANGED <<subs, closed, chanClosed, hubClosed, pc>>
    <3>1. CASE PublishEnd
      BY <3>1 DEF PublishEnd, callVars
    <3>2. CASE CloseEnd
      BY <3>2 DEF CloseEnd, callVars
    <3> QED BY <1>3, <3>1, <3>2
  <2>2. LifePub'
    BY <2>1 DEF LifePub, Closing, Publishing
  <2> QED BY <2>1, <2>2 DEF LifeInv, LifeOf, LifeOpen, Begun
<1>4. ASSUME Publishing, Targets' \subseteq Targets, pub'.pc \in {"idle", "next", "send", "drop", "resend"},
             pub'.pc \in {"send", "drop", "resend"} => pub'.cur \notin pub'.todo,
             UNCHANGED <<subs, closed, chanClosed, hubClosed, pc>>
      PROVE  LifeInv'
  BY <1>4 DEF LifeInv, LifeOf, LifeOpen, LifePub, Closing, Publishing, Begun
<1>5. ASSUME NEW s \in Calls, SendBegin(s) PROVE LifeInv'
  <2>1. /\ Targets' \subseteq Targets /\ pub'.pc \in {"next", "send"}
        /\ pub'.pc = "send" => pub'.cur \notin pub'.todo
    BY <1>5 DEF SendBegin, Targets
  <2> QED BY <1>4, <1>5, <2>1 DEF SendBegin, callVars, Publishing
<1>6. ASSUME NEW s \in Calls, SendTry(s) \/ SendDrop(s) \/ SendRetry(s) PROVE LifeInv'
  <2>1. /\ Targets' \subseteq Targets /\ pub'.pc \in {"idle", "next", "send", "drop", "resend"}
        /\ pub'.pc \in {"send", "drop", "resend"} => pub'.cur \notin pub'.todo
        /\ Publishing
    BY <1>6, SendKeepsTargets DEF Publishing, LifeInv, LifePub
  <2> QED BY <1>4, <1>6, <2>1 DEF SendTry, SendDrop, SendRetry, callVars
<1>7. ASSUME NEW s \in Calls, CloseFlag(s) PROVE LifeInv'
  BY <1>7 DEF TypeInv, TypeOK, CloseFlag, callVars, LifeInv, LifeOf, LifeOpen, LifePub,
              Closing, Publishing, Targets, Begun
<1>8. ASSUME NEW s \in Calls, CloseChan(s) PROVE LifeInv'
  BY <1>8 DEF TypeInv, TypeOK, CloseChan, callVars, LifeInv, LifeOf, LifeOpen, LifePub,
              Closing, Publishing, Targets, Begun
<1> QED BY <1>1, <1>2, <1>3, <1>5, <1>6, <1>7, <1>8 DEF HolderStep

(* Only the call itself moves, and what it does to its own subscription.   *)
LEMMA LifeCall ==
  ASSUME TypeInv, LifeInv, CallStep
  PROVE  LifeInv'
<1> USE DEF TypeInv, TypeOK
<1>1. UNCHANGED <<pub, hubClosed>>
  BY TypeCall DEF pubVars
<1> USE DEF LifeInv, LifeOf, LifeOpen, LifePub, Closing, Publishing, Begun
<1>3. ASSUME NEW w \in Watchers, Receive(w) PROVE LifeInv'
  BY <1>1, <1>3 DEF Receive, Targets
<1>4. ASSUME NEW c \in Calls, pc[c] \in {"idle", "subscribe"}, pc' = [pc EXCEPT ![c] = "select"],
             subs' = subs \cup {c}, UNCHANGED <<closed, chanClosed>>
      PROVE  LifeInv'
  BY <1>1, <1>4 DEF Targets
<1>5. ASSUME NEW w \in Watchers, NEW f \in WatchFilters, Watch(w, f) PROVE LifeInv'
  BY <1>4, <1>5 DEF Watch, Subscribe, Calls
<1>6. ASSUME NEW p \in Pollers, WaitSubscribe(p) PROVE LifeInv'
  BY <1>4, <1>6 DEF WaitSubscribe, Subscribe, Calls
<1>7. ASSUME NEW p \in Pollers, NEW t \in PollTopics, NEW r \in SinceRevs, WaitBegin(p, t, r)
      PROVE  LifeInv'
  <2>1. \/ pc' = [pc EXCEPT ![p] = "done"] \/ pc' = [pc EXCEPT ![p] = "subscribe"]
    BY <1>7, Zenon DEF WaitBegin
  <2>2. pc[p] = "idle" /\ p \in Calls /\ UNCHANGED <<subs, closed, chanClosed>>
    BY <1>7 DEF WaitBegin, Calls
  <2>3. CASE pc' = [pc EXCEPT ![p] = "done"]
    BY <1>1, <2>2, <2>3 DEF Targets
  <2>4. CASE pc' = [pc EXCEPT ![p] = "subscribe"]
    BY <1>1, <2>2, <2>4 DEF Targets
  <2> QED BY <2>1, <2>3, <2>4
<1>8. ASSUME NEW p \in Pollers, WaitReceive(p) \/ WaitClosed(p) \/ WaitTimeout(p) PROVE LifeInv'
  <2>1. /\ pc[p] = "select" /\ p \in Calls /\ UNCHANGED <<subs, closed, chanClosed>>
        /\ pc' = pc \/ pc' = [pc EXCEPT ![p] = "leave"]
    BY <1>8 DEF WaitReceive, WaitClosed, WaitTimeout, Return, Calls
  <2>2. CASE pc' = pc
    BY <1>1, <2>1, <2>2 DEF Targets
  <2>3. CASE pc' = [pc EXCEPT ![p] = "leave"]
    BY <1>1, <2>1, <2>3 DEF Targets
  <2> QED BY <2>1, <2>2, <2>3
<1>9. ASSUME NEW c \in Calls, Unsubscribe(c) PROVE LifeInv'
  BY <1>1, <1>9 DEF Unsubscribe, Targets
<1>10. ASSUME NEW c \in Calls, Flag(c) PROVE LifeInv'
  BY <1>1, <1>10 DEF Flag, Targets
<1>11. ASSUME NEW c \in Calls, CloseOwn(c) PROVE LifeInv'
  BY <1>1, <1>11 DEF CloseOwn, Targets
<1> QED BY <1>3, <1>5, <1>6, <1>7, <1>8, <1>9, <1>10, <1>11 DEF CallStep, WaitStep, LeaveStep

LEMMA LifeNext == TypeInv /\ LifeInv /\ [Next]_vars => LifeInv'
<1> SUFFICES ASSUME TypeInv, LifeInv, [Next]_vars PROVE LifeInv'
  OBVIOUS
<1>1. CASE UNCHANGED vars
  BY <1>1 DEF vars, LifeInv, LifeOf, LifeOpen, LifePub, Closing, Publishing, Targets, Begun
<1>2. CASE Next
  BY <1>1, <1>2, LifeHolder, LifeCall DEF Next, CallStep, Finished
<1> QED BY <1>1, <1>2

LEMMA LifeAlways == Spec => [](TypeInv /\ LifeInv)
<1>1. Init => TypeInv /\ LifeInv
  BY TypeInit, LifeInit
<1>2. TypeInv /\ LifeInv /\ [Next]_vars => (TypeInv /\ LifeInv)'
  BY TypeNext, LifeNext
<1> QED BY <1>1, <1>2, PTL DEF Spec

(* A subscription is marked closed only after it left the map, and its     *)
(* channel is closed only after the mark: whichever of cancel, a poll that *)
(* returns and Close takes it out.                                         *)
THEOREM ClosedAfterRemoval == Spec => []ClosedIsRemoved
<1>1. TypeInv /\ LifeInv => ClosedIsRemoved
  BY DEF TypeInv, TypeOK, LifeInv, LifeOf, ClosedIsRemoved
<1> QED BY <1>1, LifeAlways, PTL

(* Once a call has returned, no step puts an event into its channel: not   *)
(* even one of a Publish that holds the subscription in its copy of the    *)
(* list, because the channel is closed by then.                            *)
THEOREM NothingAfterReturn == Spec => SilentAfterCancel
<1>1. ASSUME TypeInv, LifeInv, [Next]_vars, NEW c \in Calls, pc[c] = "done"
      PROVE  Len(ch'[c]) <= Len(ch[c])
  <2> USE DEF TypeInv, TypeOK
  <2>1. CASE ch' = ch
    BY <2>1
  <2>2. ASSUME NEW s \in Calls, Deliver(s), Publishing, s = pub.cur, s \notin chanClosed,
               pub.pc \in {"send", "resend"}
        PROVE  Len(ch'[c]) <= Len(ch[c])
    <3>1. s # c
      BY <1>1, <2>2 DEF LifeInv, LifePub, Targets
    <3> QED BY <1>1, <2>2, <3>1 DEF Deliver
  <2>3. ASSUME NEW s \in Calls, SendTry(s) \/ SendRetry(s)
        PROVE  ch' = ch \/ (Deliver(s) /\ Publishing /\ s = pub.cur /\ s \notin chanClosed
                                       /\ pub.pc \in {"send", "resend"})
    BY <2>3 DEF SendTry, SendRetry, Panic, Publishing
  <2>4. ASSUME NEW s \in Calls, ch[s] # <<>>, ch' = [ch EXCEPT ![s] = Tail(@)]
        PROVE  Len(ch'[c]) <= Len(ch[c])
    BY <1>1, <2>4, TailAndAppend
  <2>5. ASSUME NEW s \in Calls, SendDrop(s)
        PROVE  ch' = ch \/ (ch[s] # <<>> /\ ch' = [ch EXCEPT ![s] = Tail(@)])
    <3>1. CASE ch[s] = <<>>
      BY <1>1, <2>5, <3>1 DEF SendDrop
    <3>2. CASE ch[s] # <<>>
      BY <2>5, <3>2 DEF SendDrop
    <3> QED BY <3>1, <3>2
  <2>6. CASE HolderStep
    BY <2>1, <2>2, <2>3, <2>4, <2>5, <2>6
       DEF HolderStep, PublishEnd, CloseEnd, SendBegin, CloseFlag, CloseChan
  <2>7. ASSUME CallStep
        PROVE  ch' = ch \/ \E s \in Calls : ch[s] # <<>> /\ ch' = [ch EXCEPT ![s] = Tail(@)]
    BY <2>7 DEF CallStep, WaitStep, LeaveStep, Receive, Watch, WaitSubscribe, WaitReceive, WaitClosed,
                WaitTimeout, WaitBegin, Unsubscribe, Flag, CloseOwn, Calls
  <2>8. CASE CallStep
    BY <2>1, <2>4, <2>7, <2>8
  <2>9. ASSUME \/ \E t \in Topics, kind \in Kinds, rev \in Revs : PublishBegin(t, kind, rev)
               \/ CloseBegin \/ UNCHANGED vars
        PROVE  ch' = ch
    BY <2>9 DEF PublishBegin, CloseBegin, vars
  <2> QED BY <1>1, <2>1, <2>6, <2>8, <2>9 DEF Next, CallStep, Finished
<1>2. TypeInv /\ LifeInv /\ [Next]_vars
        => [\A c \in Calls : pc[c] = "done" => Len(ch'[c]) <= Len(ch[c])]_vars
  BY <1>1
<1> QED BY <1>2, LifeAlways, PTL DEF Spec, SilentAfterCancel

-----------------------------------------------------------------------------
(* The order of events.  What a call was handed, followed by what is in    *)
(* its channel, grows from left to right, and while a Publish holds the    *)
(* call among its targets everything in there is older than its event.     *)

Elems(q) == {q[i] : i \in DOMAIN q}
Increasing(q) == \A i, j \in DOMAIN q : i < j => q[i] < q[j]

LEMMA AppendElems ==
  ASSUME NEW q \in Seq(Nat), NEW e \in Nat
  PROVE  /\ Elems(Append(q, e)) = Elems(q) \cup {e}
         /\ Increasing(q) /\ (\A x \in Elems(q) : x < e) => Increasing(Append(q, e))
<1>1. Elems(Append(q, e)) \subseteq Elems(q) \cup {e}
  BY DEF Elems
<1>2. e \in Elems(Append(q, e))
  <2>1. /\ Len(q) + 1 \in DOMAIN Append(q, e)
        /\ Append(q, e)[Len(q) + 1] = e
    OBVIOUS
  <2> QED BY <2>1 DEF Elems
<1>3. ASSUME NEW i \in DOMAIN q PROVE q[i] \in Elems(Append(q, e))
  <2>1. i \in DOMAIN Append(q, e) /\ Append(q, e)[i] = q[i]
    OBVIOUS
  <2> QED BY <2>1 DEF Elems
<1>4. ASSUME Increasing(q), \A x \in Elems(q) : x < e PROVE Increasing(Append(q, e))
  <2>1. \A i \in DOMAIN q : q[i] < e
    BY <1>4 DEF Elems
  <2> QED BY <1>4, <2>1 DEF Increasing
<1> QED BY <1>1, <1>2, <1>3, <1>4 DEF Elems

LEMMA TailElems ==
  ASSUME NEW q \in Seq(Nat), q # <<>>
  PROVE  /\ Elems(q) = {Head(q)} \cup Elems(Tail(q))
         /\ Increasing(q) => Increasing(Tail(q)) /\ \A x \in Elems(Tail(q)) : Head(q) < x
<1>1. /\ Len(q) \in Nat \ {0} /\ DOMAIN q = 1..Len(q) /\ q[1] = Head(q)
      /\ DOMAIN Tail(q) = 1..(Len(q) - 1)
      /\ \A i \in DOMAIN Tail(q) : i + 1 \in DOMAIN q /\ Tail(q)[i] = q[i + 1]
  OBVIOUS
<1>2. ASSUME NEW i \in DOMAIN q PROVE q[i] \in {Head(q)} \cup Elems(Tail(q))
  <2>1. CASE i = 1
    BY <1>1, <2>1
  <2>2. CASE i # 1
    <3>1. i - 1 \in DOMAIN Tail(q) /\ Tail(q)[i - 1] = q[i]
      BY <1>1, <2>2
    <3> QED BY <3>1 DEF Elems
  <2> QED BY <2>1, <2>2
<1>3. {Head(q)} \cup Elems(Tail(q)) \subseteq Elems(q)
  BY <1>1 DEF Elems
<1>4. ASSUME Increasing(q) PROVE Increasing(Tail(q))
  BY <1>1, <1>4 DEF Increasing
<1>5. ASSUME Increasing(q), NEW i \in DOMAIN Tail(q) PROVE Head(q) < Tail(q)[i]
  <2>1. 1 \in DOMAIN q /\ i + 1 \in DOMAIN q /\ 1 < i + 1
    BY <1>1
  <2> QED BY <1>1, <1>5, <2>1 DEF Increasing
<1> QED BY <1>2, <1>3, <1>4, <1>5 DEF Elems

Handed(c) == IF c \in Watchers THEN got[c] ELSE <<>>
Seen(c) == Elems(Handed(c)) \cup Elems(ch[c])

OrderOf(c) ==
  /\ Increasing(Handed(c)) /\ Increasing(ch[c])
  /\ \A x \in Elems(Handed(c)), y \in Elems(ch[c]) : x < y

Sending == pub.pc \in {"send", "drop", "resend"}

FlowOf(c) ==
  /\ OrderOf(c)
  /\ from[c] <= Len(log)
  /\ \A e \in Seen(c) : e \in 1..Len(log) /\ from[c] < e /\ Match(filter[c], log[e].topic)
  /\ ~Begun(c) => Seen(c) = {}
  /\ Publishing /\ c \in Targets => from[c] < Len(log) /\ \A e \in Seen(c) : e < Len(log)
  /\ Sending /\ c = pub.cur => Match(filter[c], log[Len(log)].topic)

FlowInv == \A c \in Calls : FlowOf(c)

LEMMA FlowInit == Init => FlowInv
BY DEF Init, FlowInv, FlowOf, OrderOf, Seen, Handed, Elems, Increasing, Publishing, Sending, Calls

(* What the queues of a call become in the four steps that touch them.     *)
LEMMA QueueTypes ==
  ASSUME TypeInv, NEW c \in Calls
  PROVE  /\ ch[c] \in Seq(Nat) /\ Handed(c) \in Seq(Nat)
         /\ ch[c] # <<>> => Head(ch[c]) \in Nat
         /\ Seen(c) \subseteq Nat
<1>1. Positions \subseteq Nat
  BY DEF Positions
<1>2. ch[c] \in Seq(Positions) /\ Handed(c) \in Seq(Positions)
  BY DEF TypeInv, TypeOK, Handed
<1>3. ch[c] \in Seq(Nat) /\ Handed(c) \in Seq(Nat)
  BY <1>1, <1>2, SeqMonotonic
<1> QED BY <1>3 DEF Seen, Elems

LEMMA QueueDrop ==
  ASSUME TypeInv, NEW s \in Calls, ch[s] # <<>>, ch' = [ch EXCEPT ![s] = Tail(@)], got' = got,
         NEW c \in Calls, OrderOf(c)
  PROVE  OrderOf(c)' /\ Seen(c)' \subseteq Seen(c)
<1>1. Handed(c)' = Handed(c)
  BY DEF Handed
<1>2. CASE c = s
  <2>1. ch'[c] = Tail(ch[c])
    BY <1>2 DEF TypeInv, TypeOK
  <2>2. Elems(Tail(ch[c])) \subseteq Elems(ch[c]) /\ Increasing(Tail(ch[c]))
    BY <1>2, QueueTypes, TailElems DEF OrderOf
  <2> QED BY <1>1, <2>1, <2>2 DEF OrderOf, Seen
<1>3. CASE c # s
  <2>1. ch'[c] = ch[c]
    BY <1>3 DEF TypeInv, TypeOK
  <2> QED BY <1>1, <2>1 DEF OrderOf, Seen
<1> QED BY <1>2, <1>3

LEMMA QueueReceive ==
  ASSUME TypeInv, NEW w \in Watchers, Receive(w), NEW c \in Calls, OrderOf(c)
  PROVE  OrderOf(c)' /\ Seen(c)' = Seen(c)
<1>1. w \in Calls
  BY DEF Calls
<1>2. CASE c = w
  <2>1. ch'[c] = Tail(ch[c]) /\ Handed(c)' = Append(Handed(c), Head(ch[c]))
    BY <1>1, <1>2 DEF Receive, Handed, TypeInv, TypeOK
  <2>2. ch[c] # <<>> /\ ch[c] \in Seq(Nat) /\ Handed(c) \in Seq(Nat) /\ Head(ch[c]) \in Nat
    BY <1>2, QueueTypes DEF Receive
  <2>3. /\ Elems(ch[c]) = {Head(ch[c])} \cup Elems(Tail(ch[c]))
        /\ Increasing(Tail(ch[c])) /\ \A x \in Elems(Tail(ch[c])) : Head(ch[c]) < x
    BY <2>2, TailElems DEF OrderOf
  <2>4. /\ Elems(Append(Handed(c), Head(ch[c]))) = Elems(Handed(c)) \cup {Head(ch[c])}
        /\ Increasing(Append(Handed(c), Head(ch[c])))
    BY <2>2, <2>3, AppendElems DEF OrderOf
  <2> QED BY <2>1, <2>3, <2>4 DEF OrderOf, Seen
<1>3. CASE c # w
  <2>1. ch'[c] = ch[c] /\ Handed(c)' = Handed(c)
    BY <1>3 DEF Receive, Handed, TypeInv, TypeOK
  <2> QED BY <2>1 DEF OrderOf, Seen
<1> QED BY <1>2, <1>3

LEMMA QueueDeliver ==
  ASSUME TypeInv, Publishing, NEW s \in Calls, Deliver(s), got' = got,
         NEW c \in Calls, OrderOf(c), c = s => \A e \in Seen(c) : e < Current
  PROVE  OrderOf(c)' /\ Seen(c)' = IF c = s THEN Seen(c) \cup {Current} ELSE Seen(c)
<1>1. Handed(c)' = Handed(c)
  BY DEF Handed
<1>2. CASE c = s
  <2>1. ch'[c] = Append(ch[c], Current)
    BY <1>2 DEF Deliver, TypeInv, TypeOK
  <2>2. ch[c] \in Seq(Nat) /\ Current \in Nat
    BY QueueTypes DEF TypeInv, Positions
  <2>3. Elems(ch'[c]) = Elems(ch[c]) \cup {Current} /\ Increasing(ch'[c])
    BY <1>2, <2>1, <2>2, AppendElems DEF OrderOf, Seen
  <2> QED BY <1>1, <1>2, <2>3 DEF OrderOf, Seen
<1>3. CASE c # s
  <2>1. ch'[c] = ch[c]
    BY <1>3 DEF Deliver, TypeInv, TypeOK
  <2> QED BY <1>1, <1>3, <2>1 DEF OrderOf, Seen
<1> QED BY <1>2, <1>3

(* A step that leaves the log and the filters alone and adds no target     *)
(* keeps the flow, if it neither adds nor reorders what a call has.        *)
LEMMA FlowKept ==
  ASSUME TypeInv, FlowInv, LifeInv, UNCHANGED <<log, filter, from>>, NEW c \in Calls,
         OrderOf(c)', Seen(c)' \subseteq Seen(c), Begun(c) => Begun(c)',
         Publishing' /\ c \in Targets' => Publishing /\ c \in Targets,
         Sending' /\ c = pub'.cur => \/ Sending /\ c = pub.cur
                                     \/ Match(filter[c], log[Len(log)].topic)
  PROVE  FlowOf(c)'
BY DEF FlowInv, FlowOf, Match

LEMMA FlowPublishBegin ==
  ASSUME TypeInv, FlowInv, LifeInv, NEW t \in Topics, NEW kind \in Kinds, NEW rev \in Revs,
         PublishBegin(t, kind, rev)
  PROVE  FlowInv'
<1>1. /\ pub' = [pc |-> "next", todo |-> subs, cur |-> NoCall]
      /\ UNCHANGED <<subs, filter, from, pc, ch, got>>
  BY DEF PublishBegin, callVars
<1>2. /\ Len(log) \in Nat /\ Len(log') = Len(log) + 1
      /\ \A e \in 1..Len(log) : e \in 1..Len(log') /\ log'[e] = log[e]
  <2>1. log \in Seq(Event) /\ \E e : log' = Append(log, e)
    BY DEF PublishBegin, TypeInv, TypeOK
  <2> QED BY <2>1
<1>3. ASSUME NEW c \in Calls PROVE FlowOf(c)'
  <2>1. OrderOf(c)' /\ Seen(c)' = Seen(c)
    BY <1>1 DEF FlowInv, FlowOf, OrderOf, Seen, Handed
  <2>2. from[c] \in Nat
    BY DEF TypeInv, TypeOK
  <2>3. ~Sending'
    BY <1>1 DEF Sending
  <2>4. from'[c] <= Len(log')
    BY <1>1, <1>2, <2>2 DEF FlowInv, FlowOf
  <2>5. \A e \in Seen(c)' : e \in 1..Len(log') /\ from'[c] < e /\ Match(filter'[c], log'[e].topic)
    BY <1>1, <1>2, <2>1 DEF FlowInv, FlowOf, Match
  <2>6. from'[c] < Len(log') /\ \A e \in Seen(c)' : e < Len(log')
    BY <1>1, <1>2, <2>1, <2>2 DEF FlowInv, FlowOf
  <2>7. Begun(c)' <=> Begun(c)
    BY <1>1 DEF Begun
  <2> QED BY <2>1, <2>3, <2>4, <2>5, <2>6, <2>7 DEF FlowInv, FlowOf, Match
<1> QED BY <1>3 DEF FlowInv

(* Whoever has a send under way is among the targets.                      *)
LEMMA SendingTargets == Sending => Publishing /\ pub.cur \in Targets
BY DEF Sending, Publishing, Targets

LEMMA DropEffect ==
  ASSUME TypeInv, NEW s \in Calls, SendDrop(s)
  PROVE  ch' = ch \/ (ch[s] # <<>> /\ ch' = [ch EXCEPT ![s] = Tail(@)])
<1>1. CASE ch[s] = <<>>
  BY <1>1 DEF SendDrop, TypeInv, TypeOK
<1>2. CASE ch[s] # <<>>
  BY <1>2 DEF SendDrop
<1> QED BY <1>1, <1>2

LEMMA FlowHolder ==
  ASSUME TypeInv, FlowInv, LifeInv, CloseBegin \/ HolderStep
  PROVE  FlowInv'
<1>1. UNCHANGED <<log, filter, from, pc, got>>
  BY TypeHolder DEF callVars
<1>2. ASSUME NEW c \in Calls PROVE Begun(c)' <=> Begun(c)
  BY <1>1 DEF Begun
<1>3. ASSUME ch' = ch, NEW c \in Calls PROVE OrderOf(c)' /\ Seen(c)' = Seen(c)
  BY <1>1, <1>3 DEF FlowInv, FlowOf, OrderOf, Seen, Handed
<1>4. ASSUME pub'.pc \in {"idle", "closing", "flagged"}, ch' = ch PROVE FlowInv'
  <2>1. ~Publishing' /\ ~Sending'
    BY <1>4 DEF Publishing, Sending
  <2> QED BY <1>1, <1>2, <1>3, <1>4, <2>1, FlowKept DEF FlowInv
<1>5. CASE CloseBegin \/ PublishEnd \/ CloseEnd
  <2>1. ch' = ch
    BY <1>5 DEF CloseBegin, PublishEnd, CloseEnd
  <2>2. pub \in [pc : PubPC, todo : SUBSET Calls, cur : Calls \cup {NoCall}]
    BY DEF TypeInv, TypeOK
  <2>3. \/ pub' = [pc |-> "closing", todo |-> subs, cur |-> NoCall]
        \/ pub' = [pub EXCEPT !.pc = "idle"]
        \/ pub' = [pub EXCEPT !.pc = "idle", !.cur = NoCall]
    BY <1>5, Zenon DEF CloseBegin, PublishEnd, CloseEnd
  <2>4. CASE pub' = [pc |-> "closing", todo |-> subs, cur |-> NoCall]
    BY <1>4, <2>1, <2>4
  <2>5. CASE pub' = [pub EXCEPT !.pc = "idle"]
    BY <1>4, <2>1, <2>2, <2>5
  <2>6. CASE pub' = [pub EXCEPT !.pc = "idle", !.cur = NoCall]
    BY <1>4, <2>1, <2>2, <2>6
  <2> QED BY <2>3, <2>4, <2>5, <2>6
<1>6. ASSUME NEW s \in Calls, CloseFlag(s) \/ CloseChan(s) PROVE FlowInv'
  <2>1. ch' = ch
    BY <1>6 DEF CloseFlag, CloseChan
  <2>2. pub \in [pc : PubPC, todo : SUBSET Calls, cur : Calls \cup {NoCall}]
    BY DEF TypeInv, TypeOK
  <2>3. CASE CloseFlag(s)
    BY <1>4, <2>1, <2>3 DEF CloseFlag
  <2>4. CASE CloseChan(s)
    <3>1. pub' = [pub EXCEPT !.pc = "closing", !.cur = NoCall]
      BY <2>4 DEF CloseChan
    <3> QED BY <1>4, <2>1, <2>2, <3>1
  <2> QED BY <1>6, <2>3, <2>4
<1>7. ASSUME NEW s \in Calls, SendBegin(s) PROVE FlowInv'
  <2>1. /\ Targets' \subseteq Targets /\ Publishing /\ ch' = ch
        /\ Sending' => pub'.cur = s /\ Match(filter[s], log[Len(log)].topic)
    BY <1>7 DEF SendBegin, SendSkip, Current, Targets, Sending, Publishing
  <2> QED BY <1>1, <1>2, <1>3, <2>1, FlowKept DEF FlowInv
<1>8. ASSUME NEW s \in Calls, SendTry(s) \/ SendDrop(s) \/ SendRetry(s),
             \A c \in Calls : OrderOf(c)' /\ Seen(c)' \subseteq Seen(c)
      PROVE  FlowInv'
  <2>1. /\ Publishing /\ Sending /\ Targets' \subseteq Targets
        /\ Sending' => pub'.cur = pub.cur
    BY <1>8, SendKeepsTargets DEF Sending, Publishing
  <2> QED BY <1>1, <1>2, <1>8, <2>1, FlowKept DEF FlowInv
<1>9. ASSUME NEW s \in Calls, SendDrop(s) PROVE FlowInv'
  <2>1. ch' = ch \/ (ch[s] # <<>> /\ ch' = [ch EXCEPT ![s] = Tail(@)])
    BY <1>9, DropEffect
  <2>2. \A c \in Calls : OrderOf(c)' /\ Seen(c)' \subseteq Seen(c)
    BY <1>1, <1>3, <2>1, QueueDrop DEF FlowInv, FlowOf
  <2> QED BY <1>8, <1>9, <2>2
<1>10. ASSUME NEW s \in Calls, SendTry(s) \/ SendRetry(s), ch' = ch PROVE FlowInv'
  BY <1>3, <1>8, <1>10
<1>11. ASSUME NEW s \in Calls, SendTry(s) \/ SendRetry(s), Deliver(s) PROVE FlowInv'
  <2>1. Publishing /\ Sending /\ s = pub.cur /\ s \in Targets
    BY <1>11, SendKeepsTargets, SendingTargets DEF Sending, Publishing
  <2>2. /\ from[s] < Current /\ \A e \in Seen(s) : e < Current
        /\ Match(filter[s], log[Current].topic) /\ Current \in 1..Len(log)
    BY <2>1 DEF FlowInv, FlowOf, Current, TypeInv, Positions
  <2>3. pub'.pc = "next" /\ pub'.todo = pub.todo /\ s \notin pub.todo
    BY <1>11, <2>1 DEF Deliver, LifeInv, LifePub, Sending
  <2>4. Targets' = pub.todo /\ Targets' \subseteq Targets /\ ~Sending'
    BY <2>3 DEF Targets, Sending
  <2>5. \A c \in Calls : OrderOf(c)' /\ Seen(c)' = IF c = s THEN Seen(c) \cup {Current} ELSE Seen(c)
    BY <1>1, <1>11, <2>1, <2>2, QueueDeliver DEF FlowInv, FlowOf
  <2>6. ASSUME NEW c \in Calls, c # s PROVE FlowOf(c)'
    <3>1. OrderOf(c)' /\ Seen(c)' \subseteq Seen(c)
      BY <2>5, <2>6
    <3> QED BY <1>1, <1>2, <2>1, <2>4, <3>1, FlowKept
  <2>7. FlowOf(s)'
    <3>1. OrderOf(s)' /\ Seen(s)' = Seen(s) \cup {Current} /\ s \notin Targets'
      BY <2>3, <2>4, <2>5
    <3>2. Begun(s)'
      BY <1>2, <2>1 DEF LifeInv, LifePub
    <3>3. \A e \in Seen(s)' : e \in 1..Len(log') /\ from'[s] < e /\ Match(filter'[s], log'[e].topic)
      <4>1. ASSUME NEW e \in Seen(s) \cup {Current}
            PROVE  e \in 1..Len(log) /\ from[s] < e /\ Match(filter[s], log[e].topic)
        BY <2>2 DEF FlowInv, FlowOf
      <4> QED BY <1>1, <3>1, <4>1
    <3>4. from'[s] <= Len(log')
      BY <1>1 DEF FlowInv, FlowOf
    <3> QED BY <2>4, <3>1, <3>2, <3>3, <3>4 DEF FlowOf
  <2> QED BY <2>6, <2>7 DEF FlowInv
<1>12. ASSUME NEW s \in Calls, SendTry(s) \/ SendRetry(s) PROVE ch' = ch \/ Deliver(s)
  BY <1>12 DEF SendTry, SendRetry, Panic
<1> QED BY <1>5, <1>6, <1>7, <1>9, <1>10, <1>11, <1>12 DEF HolderStep

LEMMA FlowCall ==
  ASSUME TypeInv, FlowInv, LifeInv, CallStep
  PROVE  FlowInv'
<1>1. UNCHANGED <<log, pub>>
  BY TypeCall DEF pubVars
<1>2. /\ Publishing' <=> Publishing
      /\ Targets' = Targets
      /\ Sending' => Sending
  BY <1>1 DEF Publishing, Targets, Sending
<1>3. ASSUME UNCHANGED <<filter, from>>,
             \A c \in Calls : /\ OrderOf(c)' /\ Seen(c)' \subseteq Seen(c)
                              /\ Begun(c) => Begun(c)'
      PROVE  FlowInv'
  BY <1>1, <1>2, <1>3, FlowKept DEF FlowInv
<1>4. ASSUME UNCHANGED <<ch, got>>, NEW c \in Calls PROVE OrderOf(c)' /\ Seen(c)' = Seen(c)
  BY <1>4 DEF FlowInv, FlowOf, OrderOf, Seen, Handed
<1>5. ASSUME UNCHANGED <<ch, got, filter, from>>, \A c \in Calls : Begun(c) => Begun(c)' PROVE FlowInv'
  BY <1>3, <1>4, <1>5
<1>6. ASSUME NEW w \in Watchers, Receive(w) PROVE FlowInv'
  <2>1. \A c \in Calls : OrderOf(c)' /\ Seen(c)' = Seen(c)
    BY <1>6, QueueReceive DEF FlowInv, FlowOf
  <2>2. UNCHANGED <<filter, from>> /\ \A c \in Calls : Begun(c) => Begun(c)'
    BY <1>6 DEF Receive, Begun
  <2> QED BY <1>3, <2>1, <2>2
<1>7. ASSUME NEW p \in Pollers, WaitReceive(p) PROVE FlowInv'
  <2>1. p \in Calls /\ ch[p] # <<>> /\ ch' = [ch EXCEPT ![p] = Tail(@)] /\ got' = got
    BY <1>7 DEF WaitReceive, Calls
  <2>2. \A c \in Calls : OrderOf(c)' /\ Seen(c)' \subseteq Seen(c)
    BY <2>1, QueueDrop DEF FlowInv, FlowOf
  <2>3. UNCHANGED <<filter, from>> /\ (pc' = pc \/ pc' = [pc EXCEPT ![p] = "leave"])
    BY <1>7 DEF WaitReceive, Return
  <2>4. \A c \in Calls : Begun(c) => Begun(c)'
    BY <2>3 DEF Begun, TypeInv, TypeOK
  <2> QED BY <1>3, <2>2, <2>3, <2>4
<1>8. ASSUME NEW c \in Calls, NEW f \in Filters, pc[c] = "idle", UNCHANGED <<ch, got>>,
             filter' = [filter EXCEPT ![c] = f], from' = [from EXCEPT ![c] = Len(log)],
             \A d \in Calls \ {c} : Begun(d) => Begun(d)'
      PROVE  FlowInv'
  <2>1. ~Begun(c) /\ Seen(c) = {} /\ (Publishing => c \notin Targets)
    BY <1>8 DEF Begun, FlowInv, FlowOf, LifeInv, LifePub
  <2>2. Sending => c # pub.cur
    BY <2>1, SendingTargets
  <2>3. from'[c] = Len(log) /\ Len(log) \in Nat
    BY <1>8 DEF TypeInv, TypeOK
  <2>4. FlowOf(c)'
    <3>1. OrderOf(c)' /\ Seen(c)' = {}
      BY <1>4, <1>8, <2>1
    <3> QED BY <1>1, <1>2, <2>1, <2>2, <2>3, <3>1 DEF FlowOf
  <2>5. ASSUME NEW d \in Calls \ {c} PROVE FlowOf(d)'
    <3>1. filter'[d] = filter[d] /\ from'[d] = from[d]
      BY <1>8 DEF TypeInv, TypeOK
    <3>2. OrderOf(d)' /\ Seen(d)' = Seen(d)
      BY <1>4, <1>8
    <3> QED BY <1>1, <1>2, <1>8, <3>1, <3>2 DEF FlowInv, FlowOf, Match
  <2> QED BY <2>4, <2>5 DEF FlowInv
<1>9. ASSUME NEW w \in Watchers, NEW f \in WatchFilters, Watch(w, f) PROVE FlowInv'
  <2>1. w \in Calls /\ f \in Filters
    BY DEF Calls
  <2>2. \A d \in Calls \ {w} : Begun(d) => Begun(d)'
    BY <1>9 DEF Watch, Subscribe, Begun, TypeInv, TypeOK
  <2> QED BY <1>8, <1>9, <2>1, <2>2 DEF Watch, Subscribe
<1>10. ASSUME NEW p \in Pollers, NEW t \in PollTopics, NEW r \in SinceRevs, WaitBegin(p, t, r)
      PROVE  FlowInv'
  <2>1. p \in Calls /\ t \in Filters
    BY DEF Calls, Filters, Topics
  <2>2. \/ pc' = [pc EXCEPT ![p] = "done"] \/ pc' = [pc EXCEPT ![p] = "subscribe"]
    BY <1>10, Zenon DEF WaitBegin
  <2>3. \A d \in Calls \ {p} : Begun(d) => Begun(d)'
    BY <2>2 DEF Begun, TypeInv, TypeOK
  <2> QED BY <1>8, <1>10, <2>1, <2>3 DEF WaitBegin
<1>11. ASSUME NEW p \in Pollers, WaitSubscribe(p) PROVE FlowInv'
  <2>1. filter' = filter /\ \A c \in Calls : Begun(c) => Begun(c)'
    BY <1>11 DEF WaitSubscribe, Subscribe, Begun, TypeInv, TypeOK, Calls
  <2> QED BY <1>5, <1>11, <2>1 DEF WaitSubscribe
<1>12. ASSUME NEW p \in Pollers, WaitClosed(p) \/ WaitTimeout(p) PROVE FlowInv'
  <2>1. \A c \in Calls : Begun(c) => Begun(c)'
    BY <1>12 DEF WaitClosed, WaitTimeout, Return, Begun, TypeInv, TypeOK
  <2> QED BY <1>5, <1>12, <2>1 DEF WaitClosed, WaitTimeout
<1>13. ASSUME NEW c \in Calls, LeaveStep(c) PROVE FlowInv'
  <2>1. \A d \in Calls : Begun(d) => Begun(d)'
    BY <1>13 DEF LeaveStep, Unsubscribe, Flag, CloseOwn, Begun, TypeInv, TypeOK
  <2> QED BY <1>5, <1>13, <2>1 DEF LeaveStep, Unsubscribe, Flag, CloseOwn
<1> QED BY <1>6, <1>7, <1>9, <1>10, <1>11, <1>12, <1>13 DEF CallStep, WaitStep

LEMMA FlowNext == TypeInv /\ LifeInv /\ FlowInv /\ [Next]_vars => FlowInv'
<1> SUFFICES ASSUME TypeInv, LifeInv, FlowInv, [Next]_vars PROVE FlowInv'
  OBVIOUS
<1>1. CASE UNCHANGED vars
  BY <1>1 DEF vars, FlowInv, FlowOf, OrderOf, Seen, Handed, Begun, Publishing, Targets, Sending
<1>2. CASE Next
  BY <1>1, <1>2, FlowPublishBegin, FlowHolder, FlowCall DEF Next, CallStep, Finished
<1> QED BY <1>1, <1>2

LEMMA FlowAlways == Spec => [](TypeInv /\ LifeInv /\ FlowInv)
<1>1. TypeInv /\ LifeInv /\ FlowInv /\ [Next]_vars => FlowInv'
  BY FlowNext
<1> QED BY <1>1, FlowInit, LifeAlways, PTL DEF Spec

(* The events a call received or can still receive, one by one.            *)
LEMMA ReceivedSeen ==
  ASSUME TypeInv, NEW c \in Calls
  PROVE  /\ \A i \in DOMAIN Received(c) : Received(c)[i] \in Seen(c)
         /\ \A x \in Seen(c) : \E i \in DOMAIN Received(c) : Received(c)[i] = x
         /\ OrderOf(c) => Increasing(Received(c))
<1> DEFINE h == Handed(c)
           q == ch[c]
           r == h \o q
<1>1. Received(c) = r
  BY DEF Received, Handed
<1>2. h \in Seq(Nat) /\ q \in Seq(Nat)
  BY QueueTypes
<1>3. /\ DOMAIN r = 1..Len(h) + Len(q) /\ Len(h) \in Nat /\ Len(q) \in Nat
      /\ DOMAIN h = 1..Len(h) /\ DOMAIN q = 1..Len(q)
      /\ \A i \in 1..Len(h) : r[i] = h[i]
      /\ \A i \in Len(h) + 1..Len(h) + Len(q) : i - Len(h) \in DOMAIN q /\ r[i] = q[i - Len(h)]
      /\ \A i \in 1..Len(q) : r[Len(h) + i] = q[i]
  BY <1>2
<1> HIDE DEF r, h, q
<1>4. ASSUME NEW i \in DOMAIN r PROVE r[i] \in Seen(c)
  BY <1>3 DEF Seen, Elems, h, q
<1>5. ASSUME NEW x \in Seen(c) PROVE \E i \in DOMAIN r : r[i] = x
  <2>1. CASE \E i \in DOMAIN h : h[i] = x
    BY <1>3, <2>1
  <2>2. CASE \E i \in DOMAIN q : q[i] = x
    <3>1. PICK i \in DOMAIN q : q[i] = x
      BY <2>2
    <3>2. Len(h) + i \in DOMAIN r /\ r[Len(h) + i] = x
      BY <1>3, <3>1
    <3> QED BY <3>2
  <2> QED BY <1>5, <2>1, <2>2 DEF Seen, Elems, h, q
<1>6. ASSUME OrderOf(c), NEW i \in DOMAIN r, NEW j \in DOMAIN r, i < j PROVE r[i] < r[j]
  <2>1. Increasing(h) /\ Increasing(q) /\ \A x \in Elems(h), y \in Elems(q) : x < y
    BY <1>6 DEF OrderOf, h, q
  <2>2. CASE j <= Len(h)
    BY <1>3, <1>6, <2>1, <2>2 DEF Increasing
  <2>3. CASE i > Len(h)
    <3>1. /\ i - Len(h) \in DOMAIN q /\ j - Len(h) \in DOMAIN q /\ i - Len(h) < j - Len(h)
          /\ r[i] = q[i - Len(h)] /\ r[j] = q[j - Len(h)]
      BY <1>3, <1>6, <2>3
    <3> QED BY <2>1, <3>1 DEF Increasing
  <2>4. CASE i <= Len(h) /\ j > Len(h)
    <3>1. i \in DOMAIN h /\ r[i] = h[i] /\ j - Len(h) \in DOMAIN q /\ r[j] = q[j - Len(h)]
      BY <1>3, <2>4
    <3>2. r[i] \in Elems(h) /\ r[j] \in Elems(q)
      BY <3>1 DEF Elems
    <3> QED BY <2>1, <3>2
  <2> QED BY <1>3, <1>6, <2>2, <2>3, <2>4
<1> QED BY <1>1, <1>4, <1>5, <1>6 DEF Increasing

(* Each subscriber, whatever its channel dropped, sees events in the order *)
(* they were published, none twice, only those its filter names and none   *)
(* from before its call.                                                   *)
THEOREM EventsInOrder == Spec => []InOrder
<1>1. ASSUME TypeInv, FlowInv, NEW c \in Calls
      PROVE  LET r == Received(c) IN
               /\ \A i, j \in DOMAIN r : i < j => r[i] < r[j]
               /\ \A i \in DOMAIN r : /\ r[i] > from[c]
                                      /\ filter[c][1] \in {Wild, log[r[i]].topic[1]}
                                      /\ filter[c][2] \in {Wild, log[r[i]].topic[2]}
  <2>1. OrderOf(c) /\ \A e \in Seen(c) : from[c] < e /\ Match(filter[c], log[e].topic)
    BY <1>1 DEF FlowInv, FlowOf
  <2> QED BY <1>1, <2>1, ReceivedSeen DEF Match, Increasing
<1>2. TypeInv /\ FlowInv => InOrder
  BY <1>1 DEF InOrder
<1> QED BY <1>2, FlowAlways, PTL

-----------------------------------------------------------------------------
(* What a poll returns.  `last` points at the newest event of its topic;   *)
(* and where a key is only ever published to, that event has the highest   *)
(* revision of all.                                                        *)

LastOf(t) == last[t] <= Len(log) /\ (last[t] # 0 => log[last[t]].topic = t)

OnlyPublished == Kinds = {"publish"}

RevsGrow ==
  /\ \A i \in 1..Len(log) : log[i].rev <= chain[log[i].topic].len
  /\ \A t \in Topics : last[t] # 0 => log[last[t]].rev = chain[t].len

NewsInv ==
  /\ \A t \in Topics : LastOf(t)
  /\ \A i \in 1..Len(log) : i <= last[log[i].topic]
  /\ OnlyPublished => RevsGrow

Fresh(p, i) ==
  /\ i \in 1..Len(log) /\ log[i].topic = filter[p] /\ log[i].rev > since[p]
  /\ \A j \in 1..from[p] : log[j].topic = filter[p] => j <= i

Quiet(p, n) ==
  n <= Len(log) /\ \A i \in 1..n : log[i].topic = filter[p] => log[i].rev <= since[p]

PollOf(p) ==
  /\ pc[p] = "idle" => result[p].kind = "pending"
  /\ result[p].kind = "event" => Fresh(p, result[p].pos)
  /\ OnlyPublished /\ result[p].kind = "timeout" => Quiet(p, result[p].pos)

PollInv == NewsInv /\ \A p \in Pollers : PollOf(p)

LEMMA PollInit == Init => PollInv
BY DEF Init, PollInv, PollOf, NewsInv, LastOf, RevsGrow, Pending

LEMMA LogTypes ==
  ASSUME TypeInv
  PROVE  /\ Len(log) \in Nat
         /\ \A i \in 1..Len(log) : log[i].topic \in Topics /\ log[i].rev \in Nat
         /\ \A t \in Topics : last[t] \in Nat /\ chain[t].len \in Nat
<1>1. log \in Seq(Event)
  BY DEF TypeInv, TypeOK
<1>2. ASSUME NEW i \in 1..Len(log) PROVE log[i].topic \in Topics /\ log[i].rev \in Nat
  <2>1. log[i] \in Event
    BY <1>1
  <2> QED BY <2>1 DEF Event, Revs
<1>3. ASSUME NEW t \in Topics PROVE last[t] \in Nat /\ chain[t].len \in Nat
  <2>1. last[t] \in 0..MaxEvents /\ chain[t] \in [len : 0..MaxEvents, head : 0..MaxEvents]
    BY DEF TypeInv, TypeOK
  <2> QED BY <2>1
<1> QED BY <1>1, <1>2, <1>3

LEMMA LogGrows ==
  ASSUME TypeInv, NEW t \in Topics, NEW kind \in Kinds, NEW rev \in Revs, PublishBegin(t, kind, rev)
  PROVE  /\ Len(log') = Len(log) + 1
         /\ \A e \in 1..Len(log) : e \in 1..Len(log') /\ log'[e] = log[e]
         /\ log'[Len(log) + 1].topic = t /\ log'[Len(log) + 1].rev = rev
<1>1. log \in Seq(Event) /\ log' = Append(log, [topic |-> t, rev |-> rev, kind |-> kind])
  BY DEF PublishBegin, TypeInv, TypeOK
<1> QED BY <1>1

LEMMA NewsPublishBegin ==
  ASSUME TypeInv, NewsInv, NEW t \in Topics, NEW kind \in Kinds, NEW rev \in Revs,
         PublishBegin(t, kind, rev)
  PROVE  NewsInv'
<1>1. last' = [last EXCEPT ![t] = Len(log) + 1] /\ Change(t, kind, rev)
  BY DEF PublishBegin
<1>2. last'[t] = Len(log) + 1 /\ \A u \in Topics \ {t} : last'[u] = last[u]
  BY <1>1 DEF TypeInv, TypeOK
<1>3. ASSUME NEW u \in Topics PROVE LastOf(u)'
  <2>1. CASE u = t
    BY <1>2, <2>1, LogGrows DEF LastOf
  <2>2. CASE u # t
    <3>1. last[u] = 0 \/ last[u] \in 1..Len(log)
      BY LogTypes DEF NewsInv, LastOf
    <3> QED BY <1>2, <2>2, <3>1, LogGrows, LogTypes DEF NewsInv, LastOf
  <2> QED BY <2>1, <2>2
<1>4. ASSUME NEW i \in 1..Len(log') PROVE i <= last'[log'[i].topic]
  <2>1. CASE i = Len(log) + 1
    BY <1>2, <2>1, LogGrows, LogTypes
  <2>2. CASE i \in 1..Len(log)
    BY <1>2, <2>2, LogGrows, LogTypes DEF NewsInv
  <2> QED BY <2>1, <2>2, LogGrows, LogTypes
<1>5. ASSUME OnlyPublished PROVE RevsGrow'
  <2>1. rev = chain[t].len + 1 /\ chain' = [chain EXCEPT ![t] = [len |-> rev, head |-> rev]]
    BY <1>1, <1>5 DEF Change, OnlyPublished
  <2>2. chain'[t].len = rev /\ \A u \in Topics \ {t} : chain'[u].len = chain[u].len
    BY <2>1 DEF TypeInv, TypeOK
  <2>3. RevsGrow
    BY <1>5 DEF NewsInv
  <2>4. ASSUME NEW i \in 1..Len(log') PROVE log'[i].rev <= chain'[log'[i].topic].len
    <3>1. CASE i = Len(log) + 1
      BY <2>2, <3>1, LogGrows DEF Revs
    <3>2. CASE i \in 1..Len(log)
      BY <2>1, <2>2, <2>3, <3>2, LogGrows, LogTypes DEF RevsGrow
    <3> QED BY <3>1, <3>2, LogGrows, LogTypes
  <2>5. ASSUME NEW u \in Topics, last'[u] # 0 PROVE log'[last'[u]].rev = chain'[u].len
    <3>1. CASE u = t
      BY <1>2, <2>2, <3>1, LogGrows
    <3>2. CASE u # t
      <4>1. last[u] \in 1..Len(log) /\ last'[u] = last[u]
        BY <1>2, <2>5, <3>2, LogTypes DEF NewsInv, LastOf
      <4> QED BY <2>2, <2>3, <2>5, <3>2, <4>1, LogGrows DEF RevsGrow
    <3> QED BY <3>1, <3>2
  <2> QED BY <2>4, <2>5 DEF RevsGrow
<1> QED BY <1>3, <1>4, <1>5 DEF NewsInv, OnlyPublished

(* A poll that a step does not touch keeps what it returned.               *)
LEMMA PollKept ==
  ASSUME TypeInv, FlowInv, NEW p \in Pollers, PollOf(p), Len(log) <= Len(log'),
         \A e \in 1..Len(log) : e \in 1..Len(log') /\ log'[e] = log[e],
         filter'[p] = filter[p], since'[p] = since[p], from'[p] = from[p], result'[p] = result[p],
         pc'[p] = "idle" => pc[p] = "idle", Len(log') \in Nat
  PROVE  PollOf(p)'
<1>1. p \in Calls /\ from[p] \in Nat /\ from[p] <= Len(log) /\ Len(log) \in Nat
  BY DEF Calls, TypeInv, TypeOK, FlowInv, FlowOf
<1>2. result[p].pos \in Nat
  BY DEF TypeInv, TypeOK, Result
<1>3. Fresh(p, result[p].pos) => Fresh(p, result[p].pos)'
  BY <1>1, <1>2 DEF Fresh
<1>4. Quiet(p, result[p].pos) => Quiet(p, result[p].pos)'
  BY <1>1, <1>2 DEF Quiet
<1> QED BY <1>3, <1>4 DEF PollOf, OnlyPublished

(* The two looks a poll takes at `last`.                                   *)
LEMMA PollLook ==
  ASSUME TypeInv, FlowInv, NewsInv, NEW p \in Pollers, filter[p] \in Topics
  PROVE  /\ Newer(filter[p], since[p]) => Fresh(p, last[filter[p]])
         /\ OnlyPublished /\ ~Newer(filter[p], since[p]) => Quiet(p, Len(log))
<1> DEFINE t == filter[p]
<1>1. p \in Calls /\ from[p] \in Nat /\ from[p] <= Len(log)
  BY DEF Calls, TypeInv, TypeOK, FlowInv, FlowOf
<1>2. since[p] \in Nat
  <2>1. since[p] \in {0} \cup SinceRevs
    BY DEF TypeInv, TypeOK
  <2>2. \A n \in SinceRevs : n \in Nat
    BY BoundsAssumption, Zenon
  <2>3. CASE since[p] = 0
    BY <2>3
  <2>4. CASE since[p] \in SinceRevs
    BY <2>2, <2>4, Zenon
  <2> QED BY <2>1, <2>3, <2>4, Zenon
<1>3. ASSUME Newer(t, since[p]) PROVE Fresh(p, last[t])
  <2>1. last[t] \in 1..Len(log) /\ log[last[t]].topic = t /\ log[last[t]].rev > since[p]
    BY <1>3, LogTypes DEF Newer, NewsInv, LastOf
  <2>2. \A j \in 1..from[p] : log[j].topic = t => j <= last[t]
    BY <1>1, LogTypes DEF NewsInv
  <2> QED BY <2>1, <2>2 DEF Fresh
<1>4. ASSUME OnlyPublished, ~Newer(t, since[p]) PROVE Quiet(p, Len(log))
  <2>1. last[t] = 0 \/ (last[t] \in 1..Len(log) /\ chain[t].len <= since[p])
    BY <1>1, <1>2, <1>4, LogTypes DEF Newer, NewsInv, LastOf, RevsGrow
  <2>2. ASSUME NEW i \in 1..Len(log), log[i].topic = t PROVE log[i].rev <= since[p]
    BY <1>1, <1>2, <1>4, <2>1, <2>2, LogTypes DEF NewsInv, RevsGrow
  <2> QED BY <2>2, LogTypes DEF Quiet
<1> QED BY <1>3, <1>4

LEMMA PollCall ==
  ASSUME TypeInv, LifeInv, FlowInv, PollInv, CallStep
  PROVE  PollInv'
<1>1. UNCHANGED <<log, chain, last>> /\ NewsInv'
  BY TypeCall DEF pubVars, PollInv, NewsInv, LastOf, RevsGrow
<1>2. ASSUME NEW p \in Pollers, filter'[p] = filter[p], since'[p] = since[p], from'[p] = from[p],
             result'[p] = result[p], pc'[p] = "idle" => pc[p] = "idle"
      PROVE  PollOf(p)'
  BY <1>1, <1>2, PollKept, LogTypes DEF PollInv
<1>3. ASSUME UNCHANGED <<filter, since, from, result>>,
             \A p \in Pollers : pc'[p] = "idle" => pc[p] = "idle"
      PROVE  PollInv'
  BY <1>1, <1>2, <1>3 DEF PollInv
<1>4. ASSUME NEW c \in Calls, LeaveStep(c) PROVE PollInv'
  <2>1. \A p \in Pollers : pc'[p] = "idle" => pc[p] = "idle"
    BY <1>4 DEF LeaveStep, Unsubscribe, Flag, CloseOwn, TypeInv, TypeOK, Calls
  <2> QED BY <1>3, <1>4, <2>1 DEF LeaveStep, Unsubscribe, Flag, CloseOwn
<1>5. ASSUME NEW w \in Watchers, Receive(w) PROVE PollInv'
  BY <1>3, <1>5 DEF Receive
<1>6. ASSUME NEW w \in Watchers, NEW f \in WatchFilters, Watch(w, f) PROVE PollInv'
  <2>1. \A p \in Pollers : /\ filter'[p] = filter[p] /\ from'[p] = from[p]
                           /\ pc'[p] = "idle" => pc[p] = "idle"
    BY <1>6 DEF Watch, Subscribe, TypeInv, TypeOK, Calls
  <2> QED BY <1>1, <1>2, <1>6, <2>1 DEF Watch, PollInv
<1>7. ASSUME NEW p \in Pollers, WaitSubscribe(p) PROVE PollInv'
  <2>1. filter' = filter /\ \A q \in Pollers : pc'[q] = "idle" => pc[q] = "idle"
    BY <1>7 DEF WaitSubscribe, Subscribe, TypeInv, TypeOK, Calls
  <2> QED BY <1>3, <1>7, <2>1 DEF WaitSubscribe
<1>8. ASSUME NEW p \in Pollers, NEW res, Return(p, res), UNCHANGED <<filter, since, from>>,
             res.kind = "event" => Fresh(p, res.pos),
             OnlyPublished /\ res.kind = "timeout" => Quiet(p, res.pos)
      PROVE  PollInv'
  <2>1. /\ result'[p] = res /\ pc'[p] = "leave"
        /\ \A q \in Pollers \ {p} : result'[q] = result[q] /\ pc'[q] = pc[q]
    BY <1>8 DEF Return, TypeInv, TypeOK, Calls
  <2>2. PollOf(p)'
    BY <1>1, <1>8, <2>1 DEF PollOf, Fresh, Quiet, OnlyPublished
  <2> QED BY <1>1, <1>2, <1>8, <2>1, <2>2 DEF PollInv
<1>9. ASSUME NEW p \in Pollers, WaitReceive(p) PROVE PollInv'
  <2>1. p \in Calls /\ pc[p] = "select" /\ ch[p] # <<>> /\ filter[p] \in Topics
    BY <1>9 DEF WaitReceive, Calls, TypeInv, PollsTopic
  <2> DEFINE e == Head(ch[p])
  <2>2. UNCHANGED <<filter, since, from>>
    BY <1>9 DEF WaitReceive
  <2>3. CASE log[e].rev > since[p]
    <3>1. e \in Seen(p) /\ from[p] \in Nat
      <4>1. ch[p] \in Seq(Nat)
        BY <2>1, QueueTypes
      <4>2. e \in Elems(ch[p])
        BY <2>1, <4>1, TailElems
      <4>3. from[p] \in Nat
        BY <2>1 DEF TypeInv, TypeOK
      <4> QED BY <4>2, <4>3 DEF Seen
    <3>2. e \in 1..Len(log) /\ from[p] < e /\ Match(filter[p], log[e].topic)
      BY <2>1, <3>1 DEF FlowInv, FlowOf
    <3>3. log[e].topic = filter[p]
      BY <2>1, <3>2, LogTypes DEF Match, Topics
    <3>4. Fresh(p, e)
      BY <2>3, <3>1, <3>2, <3>3 DEF Fresh
    <3>5. Return(p, [kind |-> "event", pos |-> e])
      BY <1>9, <2>3 DEF WaitReceive
    <3> QED BY <1>8, <2>2, <3>4, <3>5
  <2>4. CASE ~(log[e].rev > since[p])
    BY <1>3, <1>9, <2>2, <2>4 DEF WaitReceive
  <2> QED BY <2>3, <2>4
<1>10. ASSUME NEW p \in Pollers, WaitClosed(p) PROVE PollInv'
  BY <1>8, <1>10 DEF WaitClosed
<1>11. ASSUME NEW p \in Pollers, WaitTimeout(p) PROVE PollInv'
  <2>1. filter[p] \in Topics /\ UNCHANGED <<filter, since, from>>
    BY <1>11 DEF WaitTimeout, TypeInv, PollsTopic
  <2>2. CASE Newer(filter[p], since[p])
    <3>1. Return(p, [kind |-> "event", pos |-> last[filter[p]]])
      BY <1>11, <2>2 DEF WaitTimeout
    <3> QED BY <1>8, <2>1, <2>2, <3>1, PollLook DEF PollInv
  <2>3. CASE ~Newer(filter[p], since[p])
    <3>1. Return(p, [kind |-> "timeout", pos |-> Len(log)])
      BY <1>11, <2>3 DEF WaitTimeout
    <3> QED BY <1>8, <2>1, <2>3, <3>1, PollLook DEF PollInv
  <2> QED BY <2>2, <2>3
<1>12. ASSUME NEW p \in Pollers, NEW t \in PollTopics, NEW r \in SinceRevs, WaitBegin(p, t, r)
       PROVE  PollInv'
  <2>1. /\ p \in Calls /\ t \in Topics /\ pc[p] = "idle"
        /\ filter'[p] = t /\ since'[p] = r /\ from'[p] = Len(log)
        /\ \A q \in Pollers \ {p} : filter'[q] = filter[q] /\ since'[q] = since[q] /\ from'[q] = from[q]
    BY <1>12 DEF WaitBegin, Calls, TypeInv, TypeOK
  <2>2. CASE Newer(t, r)
    <3>1. /\ result' = [result EXCEPT ![p] = [kind |-> "event", pos |-> last[t]]]
          /\ pc' = [pc EXCEPT ![p] = "done"]
      BY <1>12, <2>2 DEF WaitBegin
    <3>2. last[t] \in 1..Len(log) /\ log[last[t]].topic = t /\ log[last[t]].rev > r
      BY <2>1, <2>2, LogTypes DEF Newer, PollInv, NewsInv, LastOf
    <3>3. \A j \in 1..Len(log) : log[j].topic = t => j <= last[t]
      BY DEF PollInv, NewsInv
    <3>4. Fresh(p, last[t])'
      BY <1>1, <2>1, <3>2, <3>3 DEF Fresh
    <3>5. /\ result'[p] = [kind |-> "event", pos |-> last[t]] /\ pc'[p] = "done"
          /\ \A q \in Pollers \ {p} : result'[q] = result[q] /\ pc'[q] = pc[q]
      BY <2>1, <3>1 DEF TypeInv, TypeOK, Calls
    <3>6. PollOf(p)'
      BY <1>1, <3>4, <3>5 DEF PollOf
    <3> QED BY <1>1, <1>2, <2>1, <3>5, <3>6 DEF PollInv
  <2>3. CASE ~Newer(t, r)
    <3>1. result' = result /\ pc' = [pc EXCEPT ![p] = "subscribe"]
      BY <1>12, <2>3 DEF WaitBegin
    <3>2. result[p].kind = "pending"
      BY <2>1 DEF PollInv, PollOf
    <3>3. pc'[p] = "subscribe" /\ \A q \in Pollers \ {p} : pc'[q] = pc[q]
      BY <2>1, <3>1 DEF TypeInv, TypeOK, Calls
    <3>4. PollOf(p)'
      BY <3>1, <3>2, <3>3 DEF PollOf
    <3> QED BY <1>1, <1>2, <2>1, <3>1, <3>3, <3>4 DEF PollInv
  <2> QED BY <2>2, <2>3
<1> QED BY <1>4, <1>5, <1>6, <1>7, <1>9, <1>10, <1>11, <1>12 DEF CallStep, WaitStep

LEMMA PollNext == TypeInv /\ LifeInv /\ FlowInv /\ PollInv /\ [Next]_vars => PollInv'
<1> SUFFICES ASSUME TypeInv, LifeInv, FlowInv, PollInv, [Next]_vars PROVE PollInv'
  OBVIOUS
<1>1. CASE UNCHANGED vars
  BY <1>1 DEF vars, PollInv, PollOf, NewsInv, LastOf, RevsGrow, Fresh, Quiet
<1>2. CASE CloseBegin \/ HolderStep
  <2>1. UNCHANGED <<log, chain, last, filter, since, pc, result, from>>
    BY <1>2, TypeHolder DEF callVars
  <2> QED BY <2>1 DEF PollInv, PollOf, NewsInv, LastOf, RevsGrow, Fresh, Quiet
<1>3. ASSUME NEW t \in Topics, NEW kind \in Kinds, NEW rev \in Revs, PublishBegin(t, kind, rev)
      PROVE  PollInv'
  <2>1. UNCHANGED <<filter, since, pc, result, from>>
    BY <1>3 DEF PublishBegin, callVars
  <2>2. Len(log') \in Nat /\ Len(log) <= Len(log')
    BY <1>3, LogGrows, LogTypes
  <2>3. \A p \in Pollers : PollOf(p)'
    BY <1>3, <2>1, <2>2, LogGrows, PollKept DEF PollInv
  <2> QED BY <1>3, <2>3, NewsPublishBegin DEF PollInv
<1>4. CASE Next
  BY <1>1, <1>2, <1>3, <1>4, PollCall DEF Next, CallStep, Finished
<1> QED BY <1>1, <1>4

LEMMA PollAlways == Spec => [](TypeInv /\ LifeInv /\ FlowInv /\ PollInv)
<1>1. TypeInv /\ LifeInv /\ FlowInv /\ PollInv /\ [Next]_vars => PollInv'
  BY PollNext
<1> QED BY <1>1, PollInit, FlowAlways, PTL DEF Spec

(* A poll that returns an event returns one of its key, newer than the     *)
(* revision it had seen, and none older than the newest at its call.       *)
THEOREM PollsReturnFresh == Spec => []WaitFresh
<1>1. TypeInv /\ FlowInv /\ PollInv => WaitFresh
  <2> SUFFICES ASSUME TypeInv, FlowInv, PollInv, NEW p \in Pollers, result[p].kind = "event"
               PROVE  /\ result[p].pos \in DOMAIN log
                      /\ log[result[p].pos].topic = filter[p]
                      /\ log[result[p].pos].rev > since[p]
                      /\ \A j \in 1..from[p] : log[j].topic = filter[p] => j <= result[p].pos
    BY DEF WaitFresh
  <2>1. Fresh(p, result[p].pos)
    BY DEF PollInv, PollOf
  <2>2. DOMAIN log = 1..Len(log)
    BY DEF TypeInv, TypeOK
  <2> QED BY <2>1, <2>2 DEF Fresh
<1> QED BY <1>1, PollAlways, PTL

(* Where keys are only published to, a poll that times out missed nothing, *)
(* although its first look and its subscription are two steps.             *)
THEOREM TimeoutsMissNothing == ASSUME Kinds = {"publish"} PROVE Spec => []TimeoutSound
<1>1. PollInv => TimeoutSound
  BY DEF PollInv, PollOf, Quiet, OnlyPublished, TimeoutSound
<1> QED BY <1>1, PollAlways, PTL

-----------------------------------------------------------------------------
(* The newest event is never the one that is lost.  A watcher that is not  *)
(* a target has the newest event it asked for; one that is still to be     *)
(* sent to has the newest of those before; and the one a send is under way *)
(* to may have lost the oldest it had, but then there is room for the new. *)

HasNewest(w, W) == W = {} \/ \E x \in Seen(w) : \A j \in W : j <= x

KeptOf(w) ==
  w \in subs /\ w \notin missed =>
    /\ Publishing /\ w \in pub.todo => HasNewest(w, Wanted(w) \ {Len(log)})
    /\ ~(Publishing /\ w \in Targets) => HasNewest(w, Wanted(w))

KeptInv ==
  /\ pub.pc = "resend" => Len(ch[pub.cur]) < BufCap
  /\ \A w \in Watchers : KeptOf(w)

LEMMA KeptInit == Init => KeptInv
BY DEF Init, KeptInv, KeptOf

LEMMA WantedTypes ==
  ASSUME TypeInv, NEW w \in Watchers
  PROVE  /\ Wanted(w) \subseteq from[w] + 1..Len(log) /\ from[w] \in Nat /\ Len(log) \in Nat
         /\ Wanted(w) = {i \in from[w] + 1..Len(log) : Match(filter[w], log[i].topic)}
BY DEF Wanted, Match, TypeInv, TypeOK, Calls

(* A step that leaves a watcher's events and wishes alone.                 *)
LEMMA KeptWatcher ==
  ASSUME TypeInv, KeptInv, NEW w \in Watchers,
         w \in subs' => w \in subs, w \in missed => w \in missed',
         UNCHANGED log, filter'[w] = filter[w], from'[w] = from[w], Seen(w)' = Seen(w),
         Publishing' /\ w \in pub'.todo => Publishing /\ w \in pub.todo,
         ~(Publishing' /\ w \in Targets') => \/ ~(Publishing /\ w \in Targets)
                                             \/ w \notin subs' \/ w \in missed'
                                             \/ HasNewest(w, Wanted(w))
  PROVE  KeptOf(w)'
<1>1. Wanted(w)' = Wanted(w)
  BY DEF Wanted
<1> QED BY <1>1 DEF KeptInv, KeptOf, HasNewest

LEMMA KeptPublishBegin ==
  ASSUME TypeInv, KeptInv, NEW t \in Topics, NEW kind \in Kinds, NEW rev \in Revs,
         PublishBegin(t, kind, rev)
  PROVE  KeptInv'
<1>1. /\ pub.pc = "idle" /\ pub' = [pc |-> "next", todo |-> subs, cur |-> NoCall]
      /\ UNCHANGED <<subs, filter, from, ch, got, missed>>
  BY DEF PublishBegin, callVars
<1>2. ~Publishing
  BY <1>1 DEF Publishing
<1>3. ASSUME NEW w \in Watchers, w \in subs, w \notin missed PROVE KeptOf(w)'
  <2>1. HasNewest(w, Wanted(w))
    BY <1>2, <1>3 DEF KeptInv, KeptOf
  <2>2. Seen(w)' = Seen(w)
    BY <1>1 DEF Seen, Handed
  <2>3. Wanted(w)' \ {Len(log')} \subseteq Wanted(w)
    <3>1. ASSUME NEW i \in Wanted(w)', i # Len(log') PROVE i \in Wanted(w)
      <4>1. i \in from[w] + 1..Len(log) /\ log'[i] = log[i]
        BY <1>1, <3>1, LogGrows, WantedTypes DEF Wanted
      <4> QED BY <1>1, <3>1, <4>1 DEF Wanted
    <3> QED BY <3>1
  <2>4. HasNewest(w, Wanted(w) \ {Len(log)})'
    BY <2>1, <2>2, <2>3 DEF HasNewest
  <2>5. w \in Targets' /\ Publishing'
    BY <1>1, <1>3 DEF Targets, Publishing
  <2> QED BY <2>4, <2>5 DEF KeptOf
<1>4. \A w \in Watchers : KeptOf(w)'
  BY <1>1, <1>3 DEF KeptOf
<1> QED BY <1>1, <1>4 DEF KeptInv

LEMMA KeptHolder ==
  ASSUME TypeInv, LifeInv, FlowInv, KeptInv, CloseBegin \/ HolderStep
  PROVE  KeptInv'
<1>1. UNCHANGED <<log, filter, from, got>>
  BY TypeHolder DEF callVars
<1>2. ASSUME ch' = ch, NEW w PROVE Seen(w)' = Seen(w)
  BY <1>1, <1>2 DEF Seen, Handed
<1>3. pub \in [pc : PubPC, todo : SUBSET Calls, cur : Calls \cup {NoCall}]
  BY DEF TypeInv, TypeOK
<1>4. CASE CloseBegin
  BY <1>4 DEF CloseBegin, KeptInv, KeptOf
<1>5. ASSUME ch' = ch, UNCHANGED <<subs, missed>>, ~Publishing', pub'.pc # "resend",
             ~Publishing \/ Targets = {}
      PROVE  KeptInv'
  BY <1>1, <1>2, <1>5, KeptWatcher DEF KeptInv
<1>6. CASE PublishEnd
  <2>1. pub'.pc = "idle" /\ UNCHANGED <<ch, subs, missed>> /\ Targets = {}
    BY <1>3, <1>6 DEF PublishEnd, Targets
  <2> QED BY <1>5, <2>1 DEF Publishing
<1>7. CASE CloseEnd
  <2>1. pub.pc = "closing" /\ pub'.pc = "idle" /\ UNCHANGED <<ch, subs, missed>>
    BY <1>3, <1>7 DEF CloseEnd
  <2> QED BY <1>5, <2>1 DEF Publishing
<1>8. ASSUME NEW s \in Calls, CloseFlag(s) PROVE KeptInv'
  <2>1. pub.pc = "closing" /\ pub'.pc \in {"closing", "flagged"} /\ UNCHANGED <<ch, subs, missed>>
    BY <1>8 DEF CloseFlag
  <2> QED BY <1>5, <2>1 DEF Publishing
<1>9. ASSUME NEW s \in Calls, CloseChan(s) PROVE KeptInv'
  <2>1. pub.pc = "flagged" /\ pub'.pc = "closing" /\ UNCHANGED <<ch, subs, missed>>
    BY <1>3, <1>9 DEF CloseChan
  <2> QED BY <1>5, <2>1 DEF Publishing
<1>10. ASSUME NEW s \in Calls, SendBegin(s) PROVE KeptInv'
  <2>1. /\ UNCHANGED <<ch, subs, missed>> /\ pub.pc = "next" /\ s \in pub.todo
        /\ pub'.pc # "resend" /\ pub'.todo = pub.todo \ {s}
        /\ Publishing /\ Publishing'
    BY <1>10 DEF SendBegin, Publishing
  <2>2. Targets = pub.todo /\ Targets' = IF SendSkip(s) THEN pub.todo \ {s} ELSE pub.todo
    BY <1>10, <2>1 DEF SendBegin, Targets
  <2>3. ASSUME NEW w \in Watchers, w # s PROVE KeptOf(w)'
    BY <1>1, <1>2, <2>1, <2>2, <2>3, KeptWatcher
  <2>4. ASSUME s \in Watchers PROVE KeptOf(s)'
    <3>1. ASSUME s \in subs, s \notin missed, SendSkip(s) PROVE HasNewest(s, Wanted(s))
      <4>1. ~Match(filter[s], log[Len(log)].topic)
        BY <3>1 DEF SendSkip, LifeInv, LifeOf, Current
      <4>2. Wanted(s) \ {Len(log)} = Wanted(s)
        BY <2>4, <4>1, WantedTypes
      <4> QED BY <2>1, <2>4, <3>1, <4>2 DEF KeptInv, KeptOf
    <3> QED BY <1>1, <1>2, <2>1, <2>2, <2>4, <3>1, KeptWatcher
  <2> QED BY <2>1, <2>3, <2>4 DEF KeptInv
<1>11. ASSUME NEW s \in Calls, SendTry(s) \/ SendDrop(s) \/ SendRetry(s)
       PROVE  /\ Sending /\ Publishing /\ s = pub.cur /\ s \notin pub.todo
              /\ Targets = pub.todo \cup {s} /\ UNCHANGED subs
  <2>1. Sending /\ s = pub.cur /\ UNCHANGED subs
    BY <1>11 DEF SendTry, SendDrop, SendRetry, Sending
  <2> QED BY <2>1 DEF Sending, Publishing, Targets, LifeInv, LifePub
<1>12. ASSUME NEW s \in Calls, SendDrop(s) PROVE KeptInv'
  <2>1. /\ ch' = [ch EXCEPT ![s] = IF @ = <<>> THEN @ ELSE Tail(@)]
        /\ pub' = [pub EXCEPT !.pc = "resend"] /\ missed' = missed
    BY <1>12 DEF SendDrop
  <2>2. pub'.pc = "resend" /\ pub'.cur = s /\ pub'.todo = pub.todo /\ Publishing' /\ Targets' = Targets
    BY <1>3, <1>11, <1>12, <2>1 DEF Publishing, Targets
  <2>3. Len(ch'[s]) < BufCap
    <3>1. ch[s] \in Seq(Positions) /\ Len(ch[s]) <= BufCap /\ BufCap \in Nat \ {0}
      BY DEF TypeInv, TypeOK
    <3>2. ch'[s] = IF ch[s] = <<>> THEN ch[s] ELSE Tail(ch[s])
      BY <2>1 DEF TypeInv, TypeOK
    <3> QED BY <3>1, <3>2
  <2>4. ASSUME NEW w \in Watchers, w # s PROVE KeptOf(w)'
    <3>1. w \in Calls /\ ch'[w] = ch[w]
      BY <2>1, <2>4 DEF TypeInv, TypeOK, Calls
    <3>2. Seen(w)' = Seen(w)
      BY <1>1, <3>1 DEF Seen, Handed
    <3> QED BY <1>1, <1>11, <1>12, <2>1, <2>2, <3>2, KeptWatcher
  <2>5. KeptOf(s)'
    BY <1>11, <1>12, <2>2 DEF KeptOf
  <2> QED BY <2>2, <2>3, <2>4, <2>5 DEF KeptInv
<1>13. ASSUME NEW s \in Calls, SendTry(s) \/ SendRetry(s), s \in chanClosed, Panic PROVE KeptInv'
  <2>1. /\ ch' = ch /\ missed' = missed \cup pub.todo /\ pub'.pc = "idle"
        /\ s \notin subs
    BY <1>13 DEF Panic, LifeInv, LifeOf
  <2>2. ~Publishing'
    BY <2>1 DEF Publishing
  <2>3. ASSUME NEW w \in Watchers PROVE KeptOf(w)'
    BY <1>1, <1>2, <1>11, <1>13, <2>1, <2>2, KeptWatcher
  <2> QED BY <2>1, <2>3 DEF KeptInv
<1>14. ASSUME NEW s \in Calls, SendTry(s) \/ SendRetry(s), Deliver(s) PROVE KeptInv'
  <2>1. /\ pub'.pc = "next" /\ pub'.todo = pub.todo /\ missed' = missed
        /\ Publishing' /\ Targets' = pub.todo
    BY <1>3, <1>14 DEF Deliver, Publishing, Targets
  <2>2. /\ \A w \in Calls : w # s => Seen(w)' = Seen(w)
        /\ Seen(s)' = Seen(s) \cup {Len(log)}
    BY <1>1, <1>11, <1>14, QueueDeliver DEF FlowInv, FlowOf, Current
  <2>3. ASSUME NEW w \in Watchers, w # s PROVE KeptOf(w)'
    BY <1>1, <1>11, <1>14, <2>1, <2>2, <2>3, KeptWatcher DEF Calls
  <2>4. ASSUME s \in Watchers PROVE KeptOf(s)'
    <3>1. Wanted(s)' = Wanted(s)
      BY <1>1 DEF Wanted
    <3>2. \A j \in Wanted(s) : j <= Len(log)
      BY <2>4, WantedTypes
    <3> QED BY <1>11, <1>14, <2>1, <2>2, <3>1, <3>2 DEF KeptOf, HasNewest
  <2> QED BY <2>1, <2>3, <2>4 DEF KeptInv
<1>15. ASSUME NEW s \in Calls, SendTry(s), ~Room(s), UNCHANGED <<ch, missed>>,
              pub' = [pub EXCEPT !.pc = "drop"]
       PROVE  KeptInv'
  <2>1. pub'.pc = "drop" /\ pub'.todo = pub.todo /\ Publishing' /\ Targets' = Targets
    BY <1>3, <1>11, <1>15 DEF Publishing, Targets, Sending
  <2>2. ASSUME NEW w \in Watchers PROVE KeptOf(w)'
    BY <1>1, <1>2, <1>11, <1>15, <2>1, KeptWatcher
  <2> QED BY <2>1, <2>2 DEF KeptInv
<1>16. ASSUME NEW s \in Calls, SendTry(s) PROVE KeptInv'
  BY <1>13, <1>14, <1>15, <1>16 DEF SendTry
<1>17. ASSUME NEW s \in Calls, SendRetry(s) PROVE KeptInv'
  <2>1. Room(s)
    BY <1>17 DEF SendRetry, KeptInv, Room
  <2> QED BY <1>13, <1>14, <1>17, <2>1 DEF SendRetry
<1> QED BY <1>4, <1>6, <1>7, <1>8, <1>9, <1>10, <1>12, <1>16, <1>17 DEF HolderStep

LEMMA KeptCall ==
  ASSUME TypeInv, LifeInv, FlowInv, KeptInv, CallStep
  PROVE  KeptInv'
<1>1. UNCHANGED <<log, pub, missed>>
  BY TypeCall DEF pubVars
<1>2. /\ Publishing' <=> Publishing
      /\ Targets' = Targets
  BY <1>1 DEF Publishing, Targets
<1>3. ASSUME NEW w \in Watchers, w \in subs' => w \in subs, filter'[w] = filter[w],
             from'[w] = from[w], Seen(w)' = Seen(w)
      PROVE  KeptOf(w)'
  BY <1>1, <1>2, <1>3, KeptWatcher
<1>4. ASSUME ch' = ch, \A w \in Watchers : KeptOf(w)' PROVE KeptInv'
  BY <1>1, <1>4 DEF KeptInv
<1>5. ASSUME ch' = ch, UNCHANGED <<got, from>>,
             \A w \in Watchers : filter'[w] = filter[w] /\ (w \in subs' => w \in subs)
      PROVE  KeptInv'
  BY <1>3, <1>4, <1>5 DEF Seen, Handed
<1>6. ASSUME NEW c \in Calls, ch[c] # <<>>, ch' = [ch EXCEPT ![c] = Tail(@)],
             \A w \in Watchers : KeptOf(w)'
      PROVE  KeptInv'
  <2>1. ASSUME pub.pc = "resend" PROVE Len(ch'[pub.cur]) < BufCap
    <3>1. pub.cur \in Calls => ch'[pub.cur] \in Seq(Positions) /\ Len(ch'[pub.cur]) <= Len(ch[pub.cur])
      BY <1>6, TailAndAppend DEF TypeInv, TypeOK
    <3>2. pub.cur \notin Calls => ch'[pub.cur] = ch[pub.cur]
      BY <1>6
    <3>3. Len(ch[pub.cur]) < BufCap
      BY <2>1 DEF KeptInv
    <3>4. pub.cur \in Calls => Len(ch[pub.cur]) \in Nat /\ Len(ch'[pub.cur]) \in Nat
      BY <3>1 DEF TypeInv, TypeOK
    <3> QED BY <3>1, <3>2, <3>3, <3>4, BufCapAssumption
  <2> QED BY <1>1, <1>6, <2>1 DEF KeptInv
<1>7. ASSUME NEW w \in Watchers, Receive(w) PROVE KeptInv'
  <2>1. w \in Calls /\ ch[w] # <<>> /\ ch' = [ch EXCEPT ![w] = Tail(@)]
    BY <1>7 DEF Receive, Calls
  <2>2. \A v \in Watchers : Seen(v)' = Seen(v)
    BY <1>7, QueueReceive DEF FlowInv, FlowOf, Calls
  <2>3. \A v \in Watchers : KeptOf(v)'
    BY <1>3, <1>7, <2>2 DEF Receive
  <2> QED BY <1>6, <2>1, <2>3
<1>8. ASSUME NEW w \in Watchers, NEW f \in WatchFilters, Watch(w, f) PROVE KeptInv'
  <2>1. /\ w \in Calls /\ pc[w] = "idle" /\ subs' = subs \cup {w} /\ UNCHANGED <<ch, got>>
        /\ filter' = [filter EXCEPT ![w] = f] /\ from' = [from EXCEPT ![w] = Len(log)]
    BY <1>8 DEF Watch, Subscribe, Calls
  <2>2. ASSUME NEW v \in Watchers, v # w PROVE KeptOf(v)'
    <3>1. filter'[v] = filter[v] /\ from'[v] = from[v] /\ Seen(v)' = Seen(v)
      BY <2>1, <2>2 DEF Seen, Handed, TypeInv, TypeOK
    <3> QED BY <1>3, <2>1, <2>2, <3>1
  <2>3. KeptOf(w)'
    <3>1. from'[w] = Len(log) /\ Len(log) \in Nat
      BY <2>1 DEF TypeInv, TypeOK
    <3>2. Wanted(w)' = {}
      BY <1>1, <3>1 DEF Wanted
    <3> QED BY <3>2 DEF KeptOf, HasNewest
  <2> QED BY <1>4, <2>1, <2>2, <2>3
<1>9. ASSUME NEW p \in Pollers, WaitReceive(p) PROVE KeptInv'
  <2>1. /\ p \in Calls /\ ch[p] # <<>> /\ ch' = [ch EXCEPT ![p] = Tail(@)]
        /\ UNCHANGED <<subs, filter, got, from>>
    BY <1>9 DEF WaitReceive, Calls
  <2>2. ASSUME NEW w \in Watchers PROVE Seen(w)' = Seen(w)
    <3>1. w \in Calls /\ w # p
      BY DEF Calls
    <3> QED BY <2>1, <3>1 DEF Seen, Handed, TypeInv, TypeOK
  <2>3. \A w \in Watchers : KeptOf(w)'
    BY <1>3, <2>1, <2>2
  <2> QED BY <1>6, <2>1, <2>3
<1>10. ASSUME NEW p \in Pollers, NEW t \in PollTopics, NEW r \in SinceRevs, WaitBegin(p, t, r)
       PROVE  KeptInv'
  <2>1. /\ UNCHANGED <<ch, got, subs>>
        /\ \A w \in Watchers : filter'[w] = filter[w] /\ from'[w] = from[w]
    BY <1>10 DEF WaitBegin, Calls, TypeInv, TypeOK
  <2>2. \A w \in Watchers : Seen(w)' = Seen(w)
    BY <2>1 DEF Seen, Handed
  <2> QED BY <1>3, <1>4, <2>1, <2>2
<1>11. ASSUME NEW p \in Pollers, WaitSubscribe(p) PROVE KeptInv'
  <2>1. \A w \in Watchers : filter'[w] = filter[w] /\ (w \in subs' => w \in subs)
    BY <1>11 DEF WaitSubscribe, Subscribe, TypeInv, TypeOK, Calls
  <2> QED BY <1>5, <1>11, <2>1 DEF WaitSubscribe
<1>12. ASSUME NEW p \in Pollers, WaitClosed(p) \/ WaitTimeout(p) PROVE KeptInv'
  BY <1>5, <1>12 DEF WaitClosed, WaitTimeout
<1>13. ASSUME NEW c \in Calls, LeaveStep(c) PROVE KeptInv'
  BY <1>5, <1>13 DEF LeaveStep, Unsubscribe, Flag, CloseOwn
<1> QED BY <1>7, <1>8, <1>9, <1>10, <1>11, <1>12, <1>13 DEF CallStep, WaitStep

LEMMA KeptNext == TypeInv /\ LifeInv /\ FlowInv /\ KeptInv /\ [Next]_vars => KeptInv'
<1> SUFFICES ASSUME TypeInv, LifeInv, FlowInv, KeptInv, [Next]_vars PROVE KeptInv'
  OBVIOUS
<1>1. CASE UNCHANGED vars
  BY <1>1 DEF vars, KeptInv, KeptOf, HasNewest, Wanted, Seen, Handed, Publishing, Targets
<1>2. CASE Next
  BY <1>1, <1>2, KeptPublishBegin, KeptHolder, KeptCall DEF Next, CallStep, Finished
<1> QED BY <1>1, <1>2

(* However slow a watcher is, the newest event it asked for is in its      *)
(* channel or in its hands, unless a Publish is still on its way to it or  *)
(* was aborted by a panic before it got there.                             *)
THEOREM NewestNeverLost == Spec => []NewestKept
<1>1. TypeInv /\ LifeInv /\ FlowInv /\ KeptInv /\ [Next]_vars => KeptInv'
  BY KeptNext
<1>2. TypeInv /\ KeptInv => NewestKept
  <2> SUFFICES ASSUME TypeInv, KeptInv, NEW w \in Watchers, w \in subs, w \notin missed,
                      Wanted(w) # {}, ~OnTheWay(w)
               PROVE  \E i \in DOMAIN Received(w) : \A j \in Wanted(w) : j <= Received(w)[i]
    BY DEF NewestKept
  <2>1. ~(Publishing /\ w \in Targets)
    BY DEF OnTheWay, Publishing, Targets
  <2>2. PICK x \in Seen(w) : \A j \in Wanted(w) : j <= x
    BY <2>1 DEF KeptInv, KeptOf, HasNewest
  <2>3. \E i \in DOMAIN Received(w) : Received(w)[i] = x
    BY <2>2, ReceivedSeen, CallsAssumption DEF Calls
  <2> QED BY <2>2, <2>3
<1> QED BY <1>1, <1>2, KeptInit, FlowAlways, PTL DEF Spec
=============================================================================
