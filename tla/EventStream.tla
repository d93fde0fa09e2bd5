----------------------------- MODULE EventStream -----------------------------
(***************************************************************************)
(* The events of one workflow on their way to the browsers:                *)
(* DashboardEventAdapter.handle_event and EventBroadcaster, with its        *)
(* WebSockets and its bounded queues for SSE.  Whoever emits an event       *)
(* (the planner, the orchestrator, a task's coroutine) awaits all of it.    *)
(***************************************************************************)
EXTENDS Naturals, FiniteSets, Sequences, SequencesExt

CONSTANTS
  Emitters,
  Sockets,      \* WebSocket connections
  Streams,      \* SSE requests for the workflow
  QueueSize     \* 256

ASSUME StreamAssumption ==
  /\ QueueSize \in Nat \ {0}
  /\ Emitters \cap Sockets = {} /\ Sockets \cap Streams = {}

VARIABLES
  emitted,    \* how many events each emitter has begun
  outbox,     \* the event an emitter awaits
  stage,      \* "idle", "handling", "waiting", "sending" or "raised"
  line,       \* who has or awaits _lock, in order
  socket,     \* "out", "connecting", "in", "leaving" or "gone"
  unsent,     \* the sockets left to send to, in the broadcast under way
  dead,       \* those a send failed on, discarded
  place,      \* of a stream: "out", "in", "done" or "left"
  queue,
  listed,     \* the streams whose queues are in _workflow_queues
  \* What happened, for the properties; forgotten of those who are gone:
  sent,       \* the events broadcast
  heard, got, \* by a socket, by a stream
  since       \* Len(sent) when a socket or a stream was added

socketVars == <<socket, unsent, dead, heard>>
streamVars == <<place, queue, listed, got>>
stageVars == <<emitted, outbox, stage>>
eventVars == <<stageVars, line, socketVars, streamVars, sent, since>>

(* Three kinds of events matter: "usage" and "planned" write a row before   *)
(* they are broadcast, and "completed" ends the streams.                    *)
NoEvent == [by |-> "nobody", n |-> 0, type |-> "none"]
Event(em, type) == [by |-> em, n |-> emitted[em] + 1, type |-> type]

(* The payload of workflow.planned has no workflow_id of its own, so that   *)
(* broadcast takes it to no stream.                                         *)
Addressed(event) == event.type # "planned"
ToStreams(events) ==
  FlattenSeq([i \in DOMAIN events |-> IF Addressed(events[i]) THEN <<events[i]>> ELSE <<>>])

EventInit ==
  /\ emitted = [em \in Emitters |-> 0] /\ outbox = [em \in Emitters |-> NoEvent]
  /\ stage = [em \in Emitters |-> "idle"] /\ line = <<>>
  /\ socket = [ws \in Sockets |-> "out"] /\ unsent = {} /\ dead = {}
  /\ place = [s \in Streams |-> "out"] /\ queue = [s \in Streams |-> <<>>]
  /\ listed = {}
  /\ sent = <<>> /\ heard = [ws \in Sockets |-> <<>>] /\ got = [s \in Streams |-> <<>>]
  /\ since = [x \in Sockets \cup Streams |-> 0]

-----------------------------------------------------------------------------
(* The emitters *)

Free(em) == stage[em] = "idle"

Emit(em, type) ==
  /\ Free(em)
  /\ emitted' = [emitted EXCEPT ![em] = @ + 1]
  /\ outbox' = [outbox EXCEPT ![em] = Event(em, type)]
  /\ stage' = [stage EXCEPT ![em] = "handling"]
  /\ UNCHANGED <<line, socketVars, streamVars, sent, since>>

(* An emitter goes on after its event raised.                               *)
Recover(em) ==
  /\ stage[em] = "raised"
  /\ stage' = [stage EXCEPT ![em] = "idle"]
  /\ UNCHANGED <<emitted, outbox, line, socketVars, streamVars, sent, since>>

(* handle_event: the handler of the type, then the broadcast.  The handlers *)
(* of llm.usage and workflow.planned write a row and may raise; what the    *)
(* others do besides is best effort.                                        *)
Handle(em) ==
  /\ stage[em] = "handling"
  /\ \/ /\ stage' = [stage EXCEPT ![em] = "waiting"]
        /\ line' = Append(line, em)
        /\ UNCHANGED outbox
     \/ /\ outbox[em].type \in {"usage", "planned"}
        /\ stage' = [stage EXCEPT ![em] = "raised"]
        /\ outbox' = [outbox EXCEPT ![em] = NoEvent]
        /\ UNCHANGED line
  /\ UNCHANGED <<emitted, socketVars, streamVars, sent, since>>

(* broadcast: under _lock, send to one socket after the other.              *)
Connected == {ws \in Sockets : socket[ws] \in {"in", "leaving"}}

StartSending(em) ==
  /\ stage[em] = "waiting" /\ Head(line) = em
  /\ stage' = [stage EXCEPT ![em] = "sending"]
  /\ unsent' = Connected \ dead
  /\ UNCHANGED <<emitted, outbox, line, socket, dead, heard, streamVars, sent, since>>

Send(em) ==
  /\ stage[em] = "sending"
  /\ \E ws \in unsent :
       /\ unsent' = unsent \ {ws}
       /\ \/ /\ heard' = [heard EXCEPT ![ws] = Append(@, outbox[em])]
             /\ UNCHANGED <<dead, since>>
          \/ /\ dead' = dead \cup {ws}
             /\ heard' = [heard EXCEPT ![ws] = <<>>] /\ since' = [since EXCEPT ![ws] = 0]
  /\ UNCHANGED <<stageVars, line, socket, streamVars, sent>>

(* A slip: a full queue misses the event and stays listed. *)
DispatchedSkipping(event) ==
  /\ queue' = [s \in Streams |->
                 IF s \in listed /\ Len(queue[s]) < QueueSize
                 THEN Append(queue[s], event) ELSE queue[s]]
  /\ UNCHANGED listed

(* A stream whose queue is full is taken off the list, for good.            *)
Dispatched(event) ==
  LET open == {s \in listed : Len(queue[s]) < QueueSize}
  IN  /\ queue' = [s \in Streams |-> IF s \in open THEN Append(queue[s], event) ELSE queue[s]]
      /\ listed' = open

(* After the last socket, dead ones are discarded and the queues filled,    *)
(* without another await: nobody holds _queue_lock across one.              *)
Dispatch(em) ==
  /\ stage[em] = "sending" /\ unsent = {}
  /\ IF Addressed(outbox[em]) THEN Dispatched(outbox[em]) ELSE UNCHANGED <<queue, listed>>
  /\ sent' = Append(sent, outbox[em])
  /\ line' = Tail(line)
  /\ stage' = [stage EXCEPT ![em] = "idle"]
  /\ outbox' = [outbox EXCEPT ![em] = NoEvent]
  /\ UNCHANGED <<emitted, socketVars, place, got, since>>

Delivery(em) == Handle(em) \/ StartSending(em) \/ Send(em) \/ Dispatch(em)

-----------------------------------------------------------------------------
(* WebSockets: connect and disconnect take _lock as well. *)

Knock(ws) ==
  /\ \/ socket[ws] = "out" /\ socket' = [socket EXCEPT ![ws] = "connecting"]
     \/ socket[ws] = "in" /\ socket' = [socket EXCEPT ![ws] = "leaving"]
  /\ line' = Append(line, ws)
  /\ UNCHANGED <<stageVars, unsent, dead, heard, streamVars, sent, since>>

Admitted(ws) ==
  /\ line # <<>> /\ Head(line) = ws
  /\ line' = Tail(line)
  /\ IF socket[ws] = "connecting"
     THEN /\ socket' = [socket EXCEPT ![ws] = "in"]
          /\ since' = [since EXCEPT ![ws] = Len(sent)]
          /\ UNCHANGED heard
     ELSE /\ socket' = [socket EXCEPT ![ws] = "gone"]
          /\ since' = [since EXCEPT ![ws] = 0] /\ heard' = [heard EXCEPT ![ws] = <<>>]
  /\ UNCHANGED <<stageVars, unsent, dead, streamVars, sent>>

-----------------------------------------------------------------------------
(* SSE: subscribe is a generator with a queue of its own. *)

Subscribe(s) ==
  /\ place[s] = "out"
  /\ place' = [place EXCEPT ![s] = "in"]
  /\ listed' = listed \cup {s}
  /\ since' = [since EXCEPT ![s] = Len(sent)]
  /\ UNCHANGED <<stageVars, line, socketVars, queue, got, sent>>

(* Its finally block; the queue was its own.                                *)
Unlisted(s) ==
  /\ listed' = listed \ {s}
  /\ queue' = [queue EXCEPT ![s] = <<>>] /\ got' = [got EXCEPT ![s] = <<>>]
  /\ since' = [since EXCEPT ![s] = 0]

(* A slip: the generator does not return. *)
TakeOn(s) ==
  /\ place[s] = "in" /\ queue[s] # <<>>
  /\ got' = [got EXCEPT ![s] = Append(@, Head(queue[s]))]
  /\ queue' = [queue EXCEPT ![s] = Tail(@)]
  /\ UNCHANGED <<stageVars, line, socketVars, place, listed, sent, since>>

Take(s) ==
  /\ place[s] = "in" /\ queue[s] # <<>>
  /\ IF Head(queue[s]).type = "completed"
     THEN place' = [place EXCEPT ![s] = "done"] /\ Unlisted(s)
     ELSE /\ got' = [got EXCEPT ![s] = Append(@, Head(queue[s]))]
          /\ queue' = [queue EXCEPT ![s] = Tail(@)]
          /\ UNCHANGED <<place, listed, since>>
  /\ UNCHANGED <<stageVars, line, socketVars, sent>>

(* The browser goes away.                                                   *)
Leave(s) ==
  /\ place[s] = "in"
  /\ place' = [place EXCEPT ![s] = "left"]
  /\ Unlisted(s)
  /\ UNCHANGED <<stageVars, line, socketVars, sent>>

EventStep ==
  \/ \E em \in Emitters : Delivery(em)
  \/ \E ws \in Sockets : Knock(ws) \/ Admitted(ws)
  \/ \E s \in Streams : Subscribe(s) \/ Take(s) \/ Leave(s)

(* Handlers, sends and reads end; lock and queue wake their waiters.        *)
EventFairness ==
  /\ \A em \in Emitters : WF_eventVars(Delivery(em))
  /\ \A ws \in Sockets : WF_eventVars(Admitted(ws))
  /\ \A s \in Streams : WF_eventVars(Take(s))

-----------------------------------------------------------------------------
(* Nobody misses an event in the middle, or sees two in another order:      *)
(* what a stream has and is about to get is a stretch of what was broadcast *)
(* to streams since it subscribed, up to the present as long as it is       *)
(* listed; a socket hears a stretch of everything; and the events of one    *)
(* emitter keep their order (events.py:34-61, event_adapter.py:37-51).      *)
Since(x) == SubSeq(sent, since[x] + 1, Len(sent))
Sending == {em \in Emitters : stage[em] = "sending"}
EventsInOrder ==
  /\ \A s \in Streams :
       LET seen == got[s] \o queue[s]
           all == ToStreams(Since(s))
       IN  IsPrefix(seen, all) /\ (s \in listed => seen = all)
  /\ \A ws \in Sockets :
       \/ IsPrefix(heard[ws], Since(ws))
       \/ \E em \in Sending : IsPrefix(heard[ws], Append(Since(ws), outbox[em]))
  /\ \A i, j \in DOMAIN sent : (i < j /\ sent[i].by = sent[j].by) => sent[i].n < sent[j].n

(* Whoever is listed when the workflow completes ends by itself, however    *)
(* slow it, its neighbours and the sockets are (events.py:34-84).           *)
Completing == \E em \in Emitters : stage[em] = "sending" /\ outbox[em].type = "completed"
StreamsEnd ==
  \A s \in Streams :
    (Completing /\ s \in listed /\ Len(queue[s]) < QueueSize) ~> (place[s] \in {"done", "left"})
=============================================================================
