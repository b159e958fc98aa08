------------------------------ MODULE WatchHub ------------------------------
(***************************************************************************)
(* The watch hub of go-confhub (internal/watch): subscriptions on          *)
(* (namespace, key), bounded channels that drop their oldest event, and    *)
(* long polls built on top of a subscription.                              *)
(*                                                                         *)
(* Processes: the holder of confhub.Hub.mu, the only caller of Publish and *)
(* Close (so at most one of them is under way); the callers of Watch, who  *)
(* receive from their channel and cancel it; and the callers of Wait.  The *)
(* critical sections of watch.Hub.mu, every channel operation and every    *)
(* load or swap of the atomic `closed` is one step.                        *)
(*                                                                         *)
(* A call gets a fresh subscription id that is never used again, so a      *)
(* subscription is named by the call that made it.  An event is named by   *)
(* its place in `log`, the sequence of everything that was published.      *)
(***************************************************************************)
EXTENDS Integers, Sequences, FiniteSets

CONSTANTS
  Namespaces, Keys,   \* the names events are about
  Wild,               \* the empty string of a filter: no restriction
  Watchers,           \* calls of Watch
  Pollers,            \* calls of Wait
  WatchFilters,       \* bound: the filters Watch is called with
  PollTopics,         \* bound: the keys Wait is called for
  SinceRevs,          \* bound: the revisions Wait is called with
  BufCap,             \* capacity of a subscription's channel (bufSize)
  Kinds,              \* the kinds of events the holder of the lock publishes
  MaxEvents           \* bound: how many events are published

Topics == Namespaces \X Keys
Filters == (Namespaces \cup {Wild}) \X (Keys \cup {Wild})

ASSUME NamesAssumption == Wild \notin Namespaces \cup Keys
ASSUME CallsAssumption == Watchers \cap Pollers = {}
ASSUME BufCapAssumption == BufCap \in Nat \ {0}
ASSUME KindsAssumption == Kinds \subseteq {"publish", "rollback", "delete"}
ASSUME MaxEventsAssumption == MaxEvents \in Nat
ASSUME BoundsAssumption ==
  WatchFilters \subseteq Filters /\ PollTopics \subseteq Topics /\ SinceRevs \subseteq Nat

Calls == Watchers \cup Pollers
Revs == 0..MaxEvents
Positions == 1..MaxEvents
Event == [topic: Topics, rev: Revs, kind: {"publish", "rollback", "delete"}]

VARIABLES
  log,         \* every event published so far, in order
  chain,       \* topic -> length and head of its version chain in the store
  last,        \* watch.Hub.last: topic -> position of its newest event, or 0
  subs,        \* watch.Hub.subs
  filter,      \* subscription -> what it matches
  since,       \* poller -> the revision it has seen
  ch,          \* subscription -> contents of its channel
  closed,      \* subscriptions whose atomic flag is set
  chanClosed,  \* subscriptions whose channel is closed
  pub,         \* the holder of confhub.Hub.mu
  hubClosed,   \* confhub.Hub.closed
  pc,          \* call -> where it is
  got,         \* watcher -> the positions it received from its channel
  result,      \* poller -> what Wait returned
  from,        \* call -> Len(log) when it subscribed (Watch) or began (Wait)
  panicked,    \* a send met a closed channel
  missed       \* subscriptions an aborted Publish never reached

vars == <<log, chain, last, subs, filter, since, ch, closed, chanClosed, pub,
          hubClosed, pc, got, result, from, panicked, missed>>

pubVars == <<log, chain, last, pub, hubClosed, panicked, missed>>
callVars == <<filter, since, pc, got, result, from>>

CallPC == {"idle", "subscribe", "select", "leave", "unsubscribed", "flagged", "done"}
PubPC == {"idle", "next", "send", "drop", "resend", "closing", "flagged"}
NoCall == "none"
Pending == [kind |-> "pending", pos |-> 0]

MatchNamespace(f, topic) == f[1] \in {Wild, topic[1]} \* mutant: the key is ignored

(* A topic is matched by a filter that names it or leaves it open.         *)
Match(f, topic) == f[1] \in {Wild, topic[1]} /\ f[2] \in {Wild, topic[2]}

(* The newest event of topic t, if it is newer than revision r: the guard  *)
(* both of Wait's early return and of its check after the timer fired.     *)
Newer(t, r) == last[t] # 0 /\ log[last[t]].rev > r

-----------------------------------------------------------------------------
Init ==
  /\ log = <<>>
  /\ chain = [t \in Topics |-> [len |-> 0, head |-> 0]]
  /\ last = [t \in Topics |-> 0]
  /\ subs = {}
  /\ filter = [c \in Calls |-> <<Wild, Wild>>]
  /\ since = [p \in Pollers |-> 0]
  /\ ch = [c \in Calls |-> <<>>]
  /\ closed = {}
  /\ chanClosed = {}
  /\ pub = [pc |-> "idle", todo |-> {}, cur |-> NoCall]
  /\ hubClosed = FALSE
  /\ pc = [c \in Calls |-> "idle"]
  /\ got = [w \in Watchers |-> <<>>]
  /\ result = [p \in Pollers |-> Pending]
  /\ from = [c \in Calls |-> 0]
  /\ panicked = FALSE
  /\ missed = {}

-----------------------------------------------------------------------------
(* The holder of confhub.Hub.mu.                                           *)

(* What Put, Rollback and DeleteKey do to the chain of a topic before they *)
(* publish: the event always carries the head they left behind, or had.    *)
Change(t, kind, rev) ==
  \/ /\ kind = "publish"
     /\ rev = chain[t].len + 1
     /\ chain' = [chain EXCEPT ![t] = [len |-> rev, head |-> rev]]
  \/ /\ kind = "rollback"
     /\ rev \in 1..chain[t].len
     /\ chain' = [chain EXCEPT ![t].head = rev]
  \/ /\ kind = "delete"
     /\ chain[t].len > 0
     /\ rev = chain[t].head
     /\ chain' = [chain EXCEPT ![t] = [len |-> 0, head |-> 0]]

(* Publish up to the unlock: remember the event, copy the subscriptions.   *)
PublishBegin(t, kind, rev) ==
  /\ pub.pc = "idle" /\ ~hubClosed
  /\ Len(log) < MaxEvents
  /\ Change(t, kind, rev)
  /\ log' = Append(log, [topic |-> t, rev |-> rev, kind |-> kind])
  /\ last' = [last EXCEPT ![t] = Len(log) + 1]
  /\ pub' = [pc |-> "next", todo |-> subs, cur |-> NoCall]
  /\ UNCHANGED <<subs, ch, closed, chanClosed, hubClosed, panicked, missed, callVars>>

Current == Len(log)   \* the event being published is the newest one

(* The loop of Publish ends: the lock is released.                         *)
PublishEnd ==
  /\ pub.pc = "next" /\ pub.todo = {}
  /\ pub' = [pub EXCEPT !.pc = "idle"]
  /\ UNCHANGED <<log, chain, last, subs, ch, closed, chanClosed, hubClosed, panicked, missed, callVars>>

(* send loads the flag; it returns if it is set or the event is filtered.  *)
SendSkip(s) == s \in closed \/ ~Match(filter[s], log[Current].topic)

SendBegin(s) ==
  /\ pub.pc = "next" /\ s \in pub.todo
  /\ pub' = [pc   |-> IF SendSkip(s) THEN "next" ELSE "send",
             todo |-> pub.todo \ {s},
             cur  |-> IF SendSkip(s) THEN NoCall ELSE s]
  /\ UNCHANGED <<log, chain, last, subs, ch, closed, chanClosed, hubClosed, panicked, missed, callVars>>

(* A send on a closed channel panics: the goroutine unwinds, the deferred  *)
(* unlock releases Hub.mu, and the rest of the list is never visited.      *)
Panic ==
  /\ panicked' = TRUE
  /\ missed' = missed \cup pub.todo
  /\ pub' = [pc |-> "idle", todo |-> {}, cur |-> NoCall]
  /\ UNCHANGED ch

(* mutant: a send that succeeded is tried once more *)
DeliverAgain(s) ==
  /\ ch' = [ch EXCEPT ![s] = Append(@, Current)]
  /\ pub' = [pub EXCEPT !.pc = "resend"]
  /\ UNCHANGED <<panicked, missed>>

(* `case s.ch <- ev`: enabled while there is room.                         *)
Deliver(s) ==
  /\ ch' = [ch EXCEPT ![s] = Append(@, Current)]
  /\ pub' = [pub EXCEPT !.pc = "next", !.cur = NoCall]
  /\ UNCHANGED <<panicked, missed>>

RoomAlways(s) == TRUE \* mutant: the channel is taken for unbounded

Room(s) == Len(ch[s]) < BufCap

(* mutant: the send blocks while the channel is full *)
SendBlocking(s) ==
  /\ pub.pc = "send" /\ s = pub.cur
  /\ \/ s \in chanClosed /\ Panic
     \/ s \notin chanClosed /\ Room(s) /\ Deliver(s)
  /\ UNCHANGED <<log, chain, last, subs, closed, chanClosed, hubClosed, callVars>>

(* The first select of send.                                               *)
SendTry(s) ==
  /\ pub.pc = "send" /\ s = pub.cur
  /\ \/ s \in chanClosed /\ Panic
     \/ s \notin chanClosed /\ Room(s) /\ Deliver(s)
     \/ /\ s \notin chanClosed /\ ~Room(s)
        /\ pub' = [pub EXCEPT !.pc = "drop"]
        /\ UNCHANGED <<ch, panicked, missed>>
  /\ UNCHANGED <<log, chain, last, subs, closed, chanClosed, hubClosed, callVars>>

(* mutant: nothing is dropped, so the new event finds no room again *)
SendKeepOldest(s) ==
  /\ pub.pc = "drop" /\ s = pub.cur
  /\ pub' = [pub EXCEPT !.pc = "resend"]
  /\ UNCHANGED <<log, chain, last, subs, ch, closed, chanClosed, hubClosed, panicked, missed, callVars>>

(* The second select: drop the oldest event, if there still is one.        *)
SendDrop(s) ==
  /\ pub.pc = "drop" /\ s = pub.cur
  /\ ch' = [ch EXCEPT ![s] = IF @ = <<>> THEN @ ELSE Tail(@)]
  /\ pub' = [pub EXCEPT !.pc = "resend"]
  /\ UNCHANGED <<log, chain, last, subs, closed, chanClosed, hubClosed, panicked, missed, callVars>>

(* The third select: send again, and give up if there is no room.          *)
SendRetry(s) ==
  /\ pub.pc = "resend" /\ s = pub.cur
  /\ \/ s \in chanClosed /\ Panic
     \/ s \notin chanClosed /\ Room(s) /\ Deliver(s)
     \/ /\ s \notin chanClosed /\ ~Room(s)
        /\ pub' = [pub EXCEPT !.pc = "next", !.cur = NoCall]
        /\ UNCHANGED <<ch, panicked, missed>>
  /\ UNCHANGED <<log, chain, last, subs, closed, chanClosed, hubClosed, callVars>>

(* mutant: the map is emptied before the list is taken from it *)
CloseForgetsList ==
  /\ pub.pc = "idle" /\ ~hubClosed
  /\ hubClosed' = TRUE
  /\ subs' = {}
  /\ pub' = [pc |-> "closing", todo |-> {}, cur |-> NoCall]
  /\ UNCHANGED <<log, chain, last, ch, closed, chanClosed, panicked, missed, callVars>>

(* Close, under Hub.mu: empty the map, then close what was in it.          *)
CloseBegin ==
  /\ pub.pc = "idle" /\ ~hubClosed
  /\ hubClosed' = TRUE
  /\ subs' = {}
  /\ pub' = [pc |-> "closing", todo |-> subs, cur |-> NoCall]
  /\ UNCHANGED <<log, chain, last, ch, closed, chanClosed, panicked, missed, callVars>>

CloseFlag(s) ==
  /\ pub.pc = "closing" /\ s \in pub.todo
  /\ pub' = [pc |-> IF s \in closed THEN "closing" ELSE "flagged",
             todo |-> pub.todo \ {s}, cur |-> s]
  /\ closed' = closed \cup {s}
  /\ UNCHANGED <<log, chain, last, subs, ch, chanClosed, hubClosed, panicked, missed, callVars>>

CloseChan(s) ==
  /\ pub.pc = "flagged" /\ s = pub.cur
  /\ chanClosed' = chanClosed \cup {s}
  /\ pub' = [pub EXCEPT !.pc = "closing", !.cur = NoCall]
  /\ UNCHANGED <<log, chain, last, subs, ch, closed, hubClosed, panicked, missed, callVars>>

CloseEnd ==
  /\ pub.pc = "closing" /\ pub.todo = {}
  /\ pub' = [pub EXCEPT !.pc = "idle", !.cur = NoCall]
  /\ UNCHANGED <<log, chain, last, subs, ch, closed, chanClosed, hubClosed, panicked, missed, callVars>>

HolderStep ==
  \/ PublishEnd \/ CloseEnd
  \/ \E s \in Calls : \/ SendBegin(s) \/ SendTry(s) \/ SendDrop(s) \/ SendRetry(s)
                      \/ CloseFlag(s) \/ CloseChan(s)

-----------------------------------------------------------------------------
(* Calls of Watch and of Wait.                                             *)

(* SubscribeBuf: a fresh id enters the map.  The hub being closed is not   *)
(* looked at.                                                              *)
Subscribe(c, f) ==
  /\ subs' = subs \cup {c}
  /\ filter' = [filter EXCEPT ![c] = f]
  /\ pc' = [pc EXCEPT ![c] = "select"]

Watch(w, f) ==
  /\ pc[w] = "idle"
  /\ Subscribe(w, f)
  /\ from' = [from EXCEPT ![w] = Len(log)]
  /\ UNCHANGED <<since, ch, closed, chanClosed, got, result, pubVars>>

(* The watcher takes the oldest event of its channel; a channel that is    *)
(* closed still hands out what it holds.                                   *)
Receive(w) ==
  /\ pc[w] # "idle" /\ ch[w] # <<>>
  /\ got' = [got EXCEPT ![w] = Append(@, Head(ch[w]))]
  /\ ch' = [ch EXCEPT ![w] = Tail(@)]
  /\ UNCHANGED <<subs, filter, since, closed, chanClosed, pc, result, from, pubVars>>

(* The first check of Wait, under watch.Hub.mu.                            *)
WaitBegin(p, t, r) ==
  /\ pc[p] = "idle"
  /\ since' = [since EXCEPT ![p] = r]
  /\ filter' = [filter EXCEPT ![p] = t]
  /\ from' = [from EXCEPT ![p] = Len(log)]
  /\ IF Newer(t, r)
     THEN /\ result' = [result EXCEPT ![p] = [kind |-> "event", pos |-> last[t]]]
          /\ pc' = [pc EXCEPT ![p] = "done"]
     ELSE /\ pc' = [pc EXCEPT ![p] = "subscribe"]
          /\ UNCHANGED result
  /\ UNCHANGED <<subs, ch, closed, chanClosed, got, pubVars>>

WaitSubscribe(p) ==
  /\ pc[p] = "subscribe"
  /\ Subscribe(p, filter[p])
  /\ UNCHANGED <<since, ch, closed, chanClosed, got, result, from, pubVars>>

Return(p, res) ==
  /\ result' = [result EXCEPT ![p] = res]
  /\ pc' = [pc EXCEPT ![p] = "leave"]

(* The select of Wait takes an event: it returns it if it is new enough    *)
(* and goes round the loop otherwise.                                      *)
WaitReceive(p) ==
  /\ pc[p] = "select" /\ ch[p] # <<>>
  /\ ch' = [ch EXCEPT ![p] = Tail(@)]
  /\ LET e == Head(ch[p]) IN
       IF log[e].rev > since[p]
       THEN Return(p, [kind |-> "event", pos |-> e])
       ELSE UNCHANGED <<result, pc>>
  /\ UNCHANGED <<subs, filter, since, closed, chanClosed, got, from, pubVars>>

(* The channel was closed under the poll, by Close.                        *)
WaitClosed(p) ==
  /\ pc[p] = "select" /\ ch[p] = <<>> /\ p \in chanClosed
  /\ Return(p, [kind |-> "closed", pos |-> 0])
  /\ UNCHANGED <<subs, filter, since, ch, closed, chanClosed, got, from, pubVars>>

(* mutant: no second look at `last` when the timer fires *)
TimeoutUnchecked(p) ==
  /\ pc[p] = "select"
  /\ Return(p, [kind |-> "timeout", pos |-> Len(log)])
  /\ UNCHANGED <<subs, filter, since, ch, closed, chanClosed, got, from, pubVars>>

(* mutant: a timer that finds nothing new is waited for again *)
TimeoutRetries(p) ==
  /\ pc[p] = "select"
  /\ Newer(filter[p], since[p])
  /\ Return(p, [kind |-> "event", pos |-> last[filter[p]]])
  /\ UNCHANGED <<subs, filter, since, ch, closed, chanClosed, got, from, pubVars>>

(* The timer fired and the select chose it: look at `last` once more.  The *)
(* timer may fire at any moment after the select was reached.              *)
WaitTimeout(p) ==
  /\ pc[p] = "select"
  /\ Return(p, IF Newer(filter[p], since[p])
               THEN [kind |-> "event", pos |-> last[filter[p]]]
               ELSE [kind |-> "timeout", pos |-> Len(log)])
  /\ UNCHANGED <<subs, filter, since, ch, closed, chanClosed, got, from, pubVars>>

(* mutant: the subscription is closed but stays in the map *)
UnsubscribeKeepsEntry(c) ==
  /\ pc[c] = IF c \in Watchers THEN "select" ELSE "leave"
  /\ pc' = [pc EXCEPT ![c] = IF c \in subs THEN "unsubscribed" ELSE "done"]
  /\ UNCHANGED <<subs, filter, since, ch, closed, chanClosed, got, result, from, pubVars>>

(* unsubscribe: by cancel for a Watch, deferred for a Wait.  Whoever takes *)
(* the subscription out of the map is the one that closes it.              *)
Unsubscribe(c) ==
  /\ pc[c] = IF c \in Watchers THEN "select" ELSE "leave"
  /\ subs' = subs \ {c}
  /\ pc' = [pc EXCEPT ![c] = IF c \in subs THEN "unsubscribed" ELSE "done"]
  /\ UNCHANGED <<filter, since, ch, closed, chanClosed, got, result, from, pubVars>>

(* close: swap the flag, and close the channel if it was not set.          *)
Flag(c) ==
  /\ pc[c] = "unsubscribed"
  /\ closed' = closed \cup {c}
  /\ pc' = [pc EXCEPT ![c] = IF c \in closed THEN "done" ELSE "flagged"]
  /\ UNCHANGED <<subs, filter, since, ch, chanClosed, got, result, from, pubVars>>

(* mutant: the flag is set and the channel is left open *)
FlagOnly(c) ==
  /\ pc[c] = "flagged"
  /\ pc' = [pc EXCEPT ![c] = "done"]
  /\ UNCHANGED <<subs, filter, since, ch, closed, chanClosed, got, result, from, pubVars>>

CloseOwn(c) ==
  /\ pc[c] = "flagged"
  /\ chanClosed' = chanClosed \cup {c}
  /\ pc' = [pc EXCEPT ![c] = "done"]
  /\ UNCHANGED <<subs, filter, since, ch, closed, got, result, from, pubVars>>

WaitStep(p) ==
  \/ WaitSubscribe(p) \/ WaitReceive(p) \/ WaitClosed(p) \/ WaitTimeout(p)

LeaveStep(c) == Unsubscribe(c) \/ Flag(c) \/ CloseOwn(c)

(* Nothing is left to do: the events are used up and every call returned.  *)
Finished ==
  /\ pub.pc = "idle"
  /\ \A c \in Calls : pc[c] = "done"
  /\ UNCHANGED vars

Next ==
  \/ \E t \in Topics, kind \in Kinds, rev \in Revs : PublishBegin(t, kind, rev)
  \/ CloseBegin
  \/ HolderStep
  \/ \E w \in Watchers : Receive(w) \/ \E f \in WatchFilters : Watch(w, f)
  \/ \E p \in Pollers : WaitStep(p) \/ \E t \in PollTopics, r \in SinceRevs : WaitBegin(p, t, r)
  \/ \E c \in Calls : LeaveStep(c)
  \/ Finished

Spec == Init /\ [][Next]_vars

(* The code schedules what it has begun: the holder of the lock runs on, a *)
(* Wait runs to its return (its timer fires), and a cancel that took the   *)
(* subscription out of the map closes it.  Whoever watches is free to      *)
(* receive, to cancel, or to do neither.                                   *)
Fairness ==
  /\ WF_vars(HolderStep)
  /\ \A p \in Pollers : WF_vars(WaitSubscribe(p)) /\ WF_vars(WaitTimeout(p) \/ WaitReceive(p) \/ WaitClosed(p))
  /\ \A p \in Pollers : WF_vars(LeaveStep(p))
  /\ \A w \in Watchers : WF_vars(Flag(w) \/ CloseOwn(w))

FairSpec == Spec /\ Fairness
-----------------------------------------------------------------------------
(* Properties.                                                             *)

Result == [kind : {"pending", "event", "closed", "timeout"}, pos : 0..MaxEvents]

(* What a watcher was handed, and what is still in the channel of a call.  *)
Received(c) == (IF c \in Watchers THEN got[c] ELSE <<>>) \o ch[c]

(* The state has its types and no channel holds more than its capacity.    *)
TypeOK ==
  /\ log \in Seq(Event) /\ Len(log) <= MaxEvents
  /\ chain \in [Topics -> [len : 0..MaxEvents, head : 0..MaxEvents]]
  /\ last \in [Topics -> 0..MaxEvents]
  /\ subs \subseteq Calls /\ closed \subseteq Calls /\ chanClosed \subseteq Calls
  /\ filter \in [Calls -> Filters]
  /\ since \in [Pollers -> {0} \cup SinceRevs]
  /\ ch \in [Calls -> Seq(Positions)] /\ \A c \in Calls : Len(ch[c]) <= BufCap
  /\ got \in [Watchers -> Seq(Positions)]
  /\ pub \in [pc : PubPC, todo : SUBSET Calls, cur : Calls \cup {NoCall}]
  /\ hubClosed \in BOOLEAN /\ panicked \in BOOLEAN
  /\ pc \in [Calls -> CallPC]
  /\ result \in [Pollers -> Result]
  /\ from \in [Calls -> 0..MaxEvents]
  /\ missed \subseteq Calls

(* Each subscriber sees events in the order they were published, none      *)
(* twice, only events its filter names, and none from before its call:     *)
(* Publish sends outside watch.Hub.mu and drops from a channel that its    *)
(* reader is emptying, so the order rests on there being one publisher.    *)
InOrder ==
  \A c \in Calls :
    LET r == Received(c) IN
      /\ \A i, j \in DOMAIN r : i < j => r[i] < r[j]
      /\ \A i \in DOMAIN r :
           /\ r[i] > from[c]
           /\ filter[c][1] \in {Wild, log[r[i]].topic[1]}
           /\ filter[c][2] \in {Wild, log[r[i]].topic[2]}

(* Positions published since w subscribed that its filter names.           *)
Wanted(w) ==
  {i \in from[w] + 1..Len(log) : /\ filter[w][1] \in {Wild, log[i].topic[1]}
                                 /\ filter[w][2] \in {Wild, log[i].topic[2]}}

(* Publish is still on its way to s.                                       *)
OnTheWay(s) == pub.pc \in {"next", "send", "drop", "resend"} /\ s \in pub.todo \cup {pub.cur}

(* However slow a watcher is, the newest event it asked for is in its      *)
(* channel or in its hands: a full channel loses the oldest event, never   *)
(* the newest (send, the comment in its default branch).  The only way to  *)
(* lose it is a Publish that was aborted by a panic.                       *)
NewestKept ==
  \A w \in Watchers \cap subs :
    (w \notin missed /\ Wanted(w) # {} /\ ~OnTheWay(w)) =>
      \E i \in DOMAIN Received(w) :
        \A j \in Wanted(w) : j <= Received(w)[i]

(* A subscription is marked closed only after it left the map, and its     *)
(* channel is closed only after the mark (comment on watch.Hub).           *)
ClosedIsRemoved == closed \cap subs = {} /\ chanClosed \subseteq closed

(* Once cancel has returned nothing more enters the channel (comment on    *)
(* watch.Hub: no delivery after cancel), whichever of cancel and Close took *)
(* the subscription out and whatever Publish was under way.                *)
SilentAfterCancel ==
  [][\A c \in Calls : pc[c] = "done" => Len(ch'[c]) <= Len(ch[c])]_vars

(* A poll that returns an event returns one of its own key, newer than the *)
(* revision it had seen, and never an event older than the one that was    *)
(* the newest of that key when the poll began.                             *)
WaitFresh ==
  \A p \in Pollers :
    result[p].kind = "event" =>
      LET i == result[p].pos IN
        /\ i \in DOMAIN log
        /\ log[i].topic = filter[p]
        /\ log[i].rev > since[p]
        /\ \A j \in 1..from[p] : log[j].topic = filter[p] => j <= i

(* When revisions only grow (a key that is only published to), a poll that *)
(* times out missed nothing: no event newer than what it had seen was      *)
(* published before its last look.  The gap between Wait's check and its   *)
(* subscription is made good by the check after the timer.                 *)
TimeoutSound ==
  \A p \in Pollers :
    result[p].kind = "timeout" =>
      \A i \in 1..result[p].pos : log[i].topic = filter[p] => log[i].rev <= since[p]

(* No reader, however slow or stopped, holds a Publish up (send, the       *)
(* comment in its default branch).                                         *)
PublishFinishes == pub.pc = "next" ~> pub.pc = "idle"

(* Every long poll returns.                                                *)
WaitReturns == \A p \in Pollers : pc[p] # "idle" ~> pc[p] = "done"

(* If the hub is ever closed, whoever had subscribed before finds its      *)
(* channel closed.                                                         *)
CloseReachesAll ==
  \A c \in Calls : (c \in subs /\ ~hubClosed) ~> (c \in chanClosed \/ []~hubClosed)

(* The comment on watch.Hub, "取消后不得再投递（channel 关闭且从集合移除）":   *)
(* nothing is sent to a subscription once it was cancelled, so no send     *)
(* ever meets a closed channel.                                            *)
NeverSendsOnClosed == ~panicked

(* The comment on Wait, "若已有 rev>since 的事件则立即返回，否则等到超时": a      *)
(* poll is parked on an empty channel, with no Publish on its way to it,   *)
(* only while no event newer than `since` is known for its key.            *)
ParkedMeansNothingNew ==
  \A p \in Pollers :
    (pc[p] = "select" /\ ch[p] = <<>> /\ p \notin chanClosed /\ pub.pc = "idle" /\ ~panicked)
      => ~Newer(filter[p], since[p])
=============================================================================
