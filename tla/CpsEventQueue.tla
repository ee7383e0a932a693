--------------------------- MODULE CpsEventQueue ---------------------------
(***************************************************************************)
(* The event queue of a CPS process (src/src/db/cps_api_db_events.cpp).    *)
(*                                                                         *)
(* cps_db::publish appends an event to the vector _events.  The thread     *)
(* CPS-Event-Sync ("push" below) swaps the vector out, walks it entry by   *)
(* entry without the mutex and puts it back in front of _events when the   *)
(* walk is halted.  A static destructor ("exit" below) walks whatever is   *)
(* in _events when the process ends, while the push thread still runs.     *)
(*                                                                         *)
(* A walk appends PUBLISH commands to the output buffer of one Redis       *)
(* connection at a time, and flushes and drains that connection when the   *)
(* address changes and at the end.  When the flush or the drain fails the  *)
(* socket is dropped: what the node had read of it may still be processed, *)
(* at any later time, and the rest is gone.                                *)
(*                                                                         *)
(* Time is abstracted: the condition variable's back-off only decides how  *)
(* long a non-empty queue waits before the push thread takes it, and every *)
(* wait ends.  The Redis node is external.                                 *)
(***************************************************************************)
EXTENDS Naturals, Sequences, FiniteSets

CONSTANTS
    Addrs,         \* addresses of the Redis nodes events are published to
    NoAddr,        \* the empty address: a walk that holds no connection
    MaxInflight,   \* _TOTAL_MAX_INFLIGHT_EVENTS
    Redline,       \* _TOTAL_MAX_INFLIGHT_EVENTS_REDLINE
    MaxPublished,  \* bound: number of events accepted in a behaviour
    Faults         \* which of the failures below the environment may cause

FaultKinds ==
    { "connect",     \* ProcessDBEvents().get() finds no node to talk to
      "append",      \* _send_event is refused, the connection is kept
      "reconnect",   \* operation() reconnects: what was buffered is dropped
      "flush" }      \* flush() or the drain of the replies fails

ASSUME EventQueueAssumption ==
    /\ MaxInflight \in Nat
    /\ Redline \in Nat
    /\ MaxPublished \in Nat
    /\ NoAddr \notin Addrs
    /\ Faults \subseteq FaultKinds

VARIABLES
    events,     \* *_events: entries [addr, obj]; obj 0 is a null pointer
    published,  \* _published; the n-th accepted event is called n
    pushed,     \* _pushed
    pc,         \* where each walker is
    list,       \* the vector a walker walks (_current of the push thread)
    ix,         \* the walker's next entry
    conn,       \* current_addr of the walk
    buffer,     \* output buffer of the connection: events [obj, seq]
    stamp,      \* the value of _pushed stamped on the entry at ix
    late,       \* per node: what it still may read from dropped sockets
    delivered,  \* per node: what it received, in order
    lossy       \* history: an accepted event may have been thrown away or lost

walkVars == <<pc, list, ix, conn, buffer, stamp>>
nodeVars == <<late, delivered>>
vars == <<events, published, pushed, walkVars, nodeVars, lossy>>

Walkers == {"push", "exit"}

NULL == 0
Entry == [addr : Addrs, obj : Nat]
Message == [obj : Nat \ {NULL}, seq : Nat]
Receipt == [obj : Nat \ {NULL}, seq : Nat, dropped : BOOLEAN]

\* The object of a sent entry is freed and a null pointer left in its place ...
SentLeftInPlace(lst, i) == lst
Sent(lst, i) == [lst EXCEPT ![i].obj = NULL]
\* ... and so is the object of an entry there is no connection for.
DiscardedLater(lst, i) == lst
Discarded(lst, i) == [lst EXCEPT ![i].obj = NULL]

\* The list of a halted walk and what was published during the walk.
RequeuedBehind(halted, newer) == newer \o halted
RequeuedNever(halted, newer) == newer
Requeued(halted, newer) == halted \o newer

\* The destructor locks __mutex and never unlocks it.
MutexFree == pc["exit"] = "idle"
Exiting == ~MutexFree
\* The threads stop when the destructors have run.
Running == pc["exit"] # "done"

-----------------------------------------------------------------------------
Init ==
    /\ events = <<>>
    /\ published = 0
    /\ pushed = 0
    /\ pc = [w \in Walkers |-> "idle"]
    /\ list = [w \in Walkers |-> <<>>]
    /\ ix = [w \in Walkers |-> 1]
    /\ conn = [w \in Walkers |-> NoAddr]
    /\ buffer = [w \in Walkers |-> <<>>]
    /\ stamp = [w \in Walkers |-> 0]
    /\ late = [a \in Addrs |-> {}]
    /\ delivered = [a \in Addrs |-> <<>>]
    /\ lossy = FALSE

\* cps_db::publish: a full queue refuses the event after one millisecond.
Publish(a) ==
    /\ MutexFree
    /\ published < MaxPublished
    /\ Len(events) <= MaxInflight
    /\ published' = published + 1
    /\ events' = Append(events, [addr |-> a, obj |-> published + 1])
    /\ UNCHANGED <<pushed, walkVars, nodeVars, lossy>>

\* Start of _process_list on the whole of _events.
StartWalk(w) ==
    /\ pc' = [pc EXCEPT ![w] = "walk"]
    /\ list' = [list EXCEPT ![w] = events]
    /\ ix' = [ix EXCEPT ![w] = 1]
    /\ events' = <<>>
    /\ UNCHANGED <<published, pushed, conn, buffer, stamp, nodeVars, lossy>>

\* __thread_main_loop wakes up to a non-empty queue and swaps it out.
Take ==
    /\ MutexFree
    /\ pc["push"] = "idle"
    /\ events # <<>>
    /\ StartWalk("push")

\* ~_cps_event_flush, whatever the push thread is in the middle of.
ExitFlush ==
    /\ MutexFree
    /\ StartWalk("exit")

\* Socket w is given up: the node has read the first n commands of the buffer
\* and may yet read those up to m.  Without a fault it has read them all.
GiveUpSocket(w, thrown) ==
    \E n \in 0..Len(buffer[w]), m \in 0..Len(buffer[w]) :
        /\ n <= m
        /\ n = Len(buffer[w]) \/ "flush" \in Faults
        /\ delivered' = [delivered EXCEPT ![conn[w]] =
               @ \o [i \in 1..n |-> [obj     |-> buffer[w][i].obj,
                                     seq     |-> buffer[w][i].seq,
                                     dropped |-> FALSE]]]
        /\ late' = [late EXCEPT ![conn[w]] =
               IF n < m THEN @ \cup {SubSeq(buffer[w], n + 1, m)} ELSE @]
        /\ lossy' = (lossy \/ thrown \/ n < Len(buffer[w]))

\* The first half of _change_connection: flush, drain and put back (thrown says
\* whether the caller throws away an event besides).
LeaveConnection(w, thrown) ==
    /\ buffer' = [buffer EXCEPT ![w] = <<>>]
    /\ IF conn[w] = NoAddr
       THEN lossy' = (lossy \/ thrown) /\ UNCHANGED nodeVars
       ELSE GiveUpSocket(w, thrown)

AtEntry(w) == pc[w] = "walk" /\ ix[w] <= Len(list[w]) /\ Running

\* The loop head of _process_list skips the entries already sent.
SkipNull(w) ==
    /\ AtEntry(w)
    /\ list[w][ix[w]].obj = NULL
    /\ ix' = [ix EXCEPT ![w] = @ + 1]
    /\ UNCHANGED <<events, published, pushed, pc, list, conn, buffer, stamp, nodeVars, lossy>>

\* _process_list meets another address and _change_connection gets a connection.
ChangeConnection(w) ==
    /\ AtEntry(w)
    /\ list[w][ix[w]].obj # NULL
    /\ conn[w] # list[w][ix[w]].addr
    /\ LeaveConnection(w, FALSE)
    /\ conn' = [conn EXCEPT ![w] = list[w][ix[w]].addr]
    /\ UNCHANGED <<events, published, pushed, pc, list, ix, stamp>>

\* ... or gets none: this event is thrown away and the walk is halted.
NoConnection(w) ==
    /\ AtEntry(w)
    /\ "connect" \in Faults
    /\ list[w][ix[w]].obj # NULL
    /\ conn[w] # list[w][ix[w]].addr
    /\ LeaveConnection(w, TRUE)
    /\ conn' = [conn EXCEPT ![w] = NoAddr]
    /\ list' = [list EXCEPT ![w] = Discarded(@, ix[w])]
    /\ pc' = [pc EXCEPT ![w] = "halted"]
    /\ UNCHANGED <<events, published, pushed, ix, stamp>>

\* The event gets the process's sequence number (_pushed) ...
Sequence(w) == pushed

StampEvent(w) ==
    /\ AtEntry(w)
    /\ list[w][ix[w]].obj # NULL
    /\ conn[w] = list[w][ix[w]].addr
    /\ pc' = [pc EXCEPT ![w] = "send"]
    /\ stamp' = [stamp EXCEPT ![w] = Sequence(w)]
    /\ UNCHANGED <<events, published, pushed, list, ix, conn, buffer, nodeVars, lossy>>

\* ... and is appended to the connection's output.  ++_pushed is not guarded:
\* when both walkers run, the increment of the other one may be lost.
SendEvent(w) ==
    /\ pc[w] = "send"
    /\ Running
    /\ \E kept \in BOOLEAN :
        /\ kept \/ "reconnect" \in Faults
        /\ buffer' = [buffer EXCEPT ![w] =
               Append(IF kept THEN @ ELSE <<>>,
                      [obj |-> list[w][ix[w]].obj, seq |-> stamp[w]])]
        /\ lossy' = (lossy \/ (~kept /\ buffer[w] # <<>>))
    /\ \E seen \in {stamp[w], pushed} : pushed' = seen + 1
    /\ list' = [list EXCEPT ![w] = Sent(@, ix[w])]
    /\ ix' = [ix EXCEPT ![w] = @ + 1]
    /\ pc' = [pc EXCEPT ![w] = "walk"]
    /\ UNCHANGED <<events, published, conn, stamp, nodeVars>>

\* _send_event fails: the event stays in the list and the walk is halted.
SendFails(w) ==
    /\ pc[w] = "send"
    /\ Running
    /\ \/ /\ "append" \in Faults
          /\ UNCHANGED <<buffer, lossy>>
       \/ /\ "reconnect" \in Faults
          /\ buffer' = [buffer EXCEPT ![w] = <<>>]
          /\ lossy' = (lossy \/ buffer[w] # <<>>)
    /\ pc' = [pc EXCEPT ![w] = "halted"]
    /\ UNCHANGED <<events, published, pushed, list, ix, conn, stamp, nodeVars>>

\* The end of _process_list: the last connection is flushed and put back.
EndWalk(w) ==
    /\ Running
    /\ pc[w] = "halted" \/ (pc[w] = "walk" /\ ix[w] > Len(list[w]))
    /\ LeaveConnection(w, FALSE)
    /\ conn' = [conn EXCEPT ![w] = NoAddr]
    /\ pc' = [pc EXCEPT ![w] = IF w = "exit" THEN "done"
                               ELSE IF @ = "halted" THEN "failed" ELSE "idle"]
    /\ list' = [list EXCEPT ![w] = IF pc'[w] = "failed" THEN @ ELSE <<>>]
    /\ UNCHANGED <<events, published, pushed, ix, stamp>>

-----------------------------------------------------------------------------
\* _limit, with the arguments of its call of _remove_x_events as they are.
Limit(lst, limit) ==
    IF Len(lst) > limit THEN SubSeq(lst, 1, Len(lst) - limit) ELSE lst

\* The second limit is an unsigned difference: below zero it limits nothing.
LimitRest(lst, taken) ==
    IF taken > MaxInflight THEN lst ELSE Limit(lst, MaxInflight - taken)

\* A halted list goes back in front of what was published meanwhile.
PutBack ==
    /\ MutexFree
    /\ pc["push"] = "failed"
    /\ LET over == Len(events) > Redline
           kept == IF over THEN Limit(list["push"], MaxInflight) ELSE list["push"]
           rest == IF over THEN LimitRest(events, Len(kept)) ELSE events
       IN /\ events' = Requeued(kept, rest)
          /\ lossy' = (lossy \/ kept # list["push"] \/ rest # events)
    /\ list' = [list EXCEPT !["push"] = <<>>]
    /\ pc' = [pc EXCEPT !["push"] = "idle"]
    /\ UNCHANGED <<published, pushed, ix, conn, buffer, stamp, nodeVars>>

-----------------------------------------------------------------------------
\* External: a node processes a command left in a dropped socket ...
LateDelivery(a) ==
    \E s \in late[a] :
        /\ delivered' = [delivered EXCEPT ![a] =
               Append(@, [obj |-> Head(s).obj, seq |-> Head(s).seq, dropped |-> TRUE])]
        /\ late' = [late EXCEPT ![a] =
               (@ \ {s}) \cup (IF Len(s) > 1 THEN {Tail(s)} ELSE {})]
        /\ UNCHANGED <<events, published, pushed, walkVars, lossy>>

\* ... or finds the socket reset.
LateLoss(a) ==
    \E s \in late[a] :
        /\ late' = [late EXCEPT ![a] = @ \ {s}]
        /\ UNCHANGED <<events, published, pushed, walkVars, delivered, lossy>>

\* The process is gone and no socket of it is left.
Terminated ==
    /\ ~Running
    /\ \A a \in Addrs : late[a] = {}
    /\ UNCHANGED vars

Walk(w) ==
    \/ SkipNull(w)
    \/ ChangeConnection(w)
    \/ NoConnection(w)
    \/ StampEvent(w)
    \/ SendEvent(w)
    \/ SendFails(w)
    \/ EndWalk(w)

Next ==
    \/ \E a \in Addrs : Publish(a)
    \/ Take
    \/ PutBack
    \/ ExitFlush
    \/ \E w \in Walkers : Walk(w)
    \/ \E a \in Addrs : LateDelivery(a) \/ LateLoss(a)
    \/ Terminated

Spec == Init /\ [][Next]_vars

\* The push thread and the exiting thread are never starved, and appending to
\* a connection does not fail for ever.  Publishers, nodes and the end of the
\* process owe nothing.
Fairness ==
    /\ WF_vars(Take)
    /\ WF_vars(PutBack)
    /\ \A w \in Walkers : WF_vars(Walk(w)) /\ SF_vars(SendEvent(w))

FairSpec == Spec /\ Fairness

-----------------------------------------------------------------------------
(* Where the accepted events are. *)

Live(lst) == {lst[i].obj : i \in DOMAIN lst} \ {NULL}
Waiting == Live(events) \cup UNION {Live(list[w]) : w \in Walkers}
Buffered == UNION {{buffer[w][i].obj : i \in DOMAIN buffer[w]} : w \in Walkers}
Received == UNION {{delivered[a][i].obj : i \in DOMAIN delivered[a]} : a \in Addrs}
Receipts == UNION {{delivered[a][i] : i \in DOMAIN delivered[a]} : a \in Addrs}

(* What cps_api_event_stats reports as "Remaining to be pushed". *)
Remaining == published - pushed

-----------------------------------------------------------------------------
(* Properties *)

TypeOK ==
    /\ events \in Seq(Entry)
    /\ published \in 0..MaxPublished
    /\ pushed \in Nat
    /\ pc \in [Walkers -> {"idle", "walk", "send", "halted", "failed", "done"}]
    /\ list \in [Walkers -> Seq(Entry)]
    /\ ix \in [Walkers -> Nat \ {0}]
    /\ conn \in [Walkers -> Addrs \cup {NoAddr}]
    /\ buffer \in [Walkers -> Seq(Message)]
    /\ stamp \in [Walkers -> Nat]
    /\ late \in [Addrs -> SUBSET (Seq(Message) \ {<<>>})]
    /\ delivered \in [Addrs -> Seq(Receipt)]
    /\ lossy \in BOOLEAN

\* No node receives an event twice, whatever is retried, dropped or flushed at
\* exit: an entry is nulled as soon as its command is in an output buffer, and
\* nothing is ever sent again from a buffer (_process_list, lines 312-319).
DeliveredOnce ==
    \A a, b \in Addrs :
        \A i \in DOMAIN delivered[a], j \in DOMAIN delivered[b] :
            delivered[a][i].obj = delivered[b][j].obj => a = b /\ i = j

\* While the process runs, the one way for a node to receive an event after a
\* younger one is through a socket that was given up during its drain: putting
\* a halted list back in front (line 411) keeps the order of publication, and
\* the sequence attribute tells it, across retries and across nodes.
OrderedDelivery ==
    MutexFree =>
        /\ \A a \in Addrs :
               \A i, j \in DOMAIN delivered[a] :
                   i < j /\ ~delivered[a][j].dropped
                       => delivered[a][i].obj < delivered[a][j].obj
        /\ \A r, s \in Receipts : r.obj < s.obj => r.seq < s.seq

\* Until an event is thrown away for lack of a connection or at the red line, or
\* a connection with commands in it is lost, no accepted event disappears,
\* however often lists are taken, halted and put back, and what
\* cps_api_event_stats reports as remaining is the number of events still queued.
NothingLost ==
    ~lossy /\ MutexFree =>
        /\ 1..published \subseteq Waiting \cup Buffered \cup Received
        /\ Remaining = Cardinality(Waiting)

\* Every accepted event leaves the queue, be it sent or thrown away, unless
\* the process ends first: a dead node does not block the others for ever,
\* because each halt for lack of a connection uses up the event it halts at.
EveryEventLeaves ==
    \A n \in 1..MaxPublished : (n \in Waiting) ~> (n \notin Waiting \/ Exiting)
=============================================================================
