----------------------------- MODULE EventStream -----------------------------
(***************************************************************************)
(* The event journal of src/daemon/store.py (ingest, delete_session,       *)
(* clear_all) and the stream of src/daemon/server.py that shows it to the  *)
(* dashboards (subscribe, publish, stream_state).                          *)
(*                                                                         *)
(* What a dashboard shows is a version: the number of journal writes the   *)
(* state it got stands for.  A handler writes under the store lock, and    *)
(* hands the state it read there to every queue afterwards, outside it.    *)
(* The queues carry other messages too: of Review Runs, code reviews,      *)
(* automatic review, the model provider and knowledge records.             *)
(***************************************************************************)
EXTENDS Integers, Sequences, FiniteSets, FiniteSetsExt

CONSTANTS Sessions, Dashboards, Publishers, NoMessage,
          Retention,     \* events kept per session
          PruneEvery,    \* PRUNE_EVERY_INGESTS
          QueueSize,     \* maxsize of a subscriber queue
          MaxWrites, MaxRestarts    \* bounds of the model

VARIABLES kept,          \* rows of table events, per session
          sincePrune,    \* _ingests_since_prune, of this process
          version,       \* writes of the journal so far
          restarts,
          publisher,     \* the message a handler is delivering, and to whom
          phase,         \* a dashboard: away, subscribed or streaming
          queue, view,   \* its queue of states, and the state it shows
          announced,     \* the newest state publish() was called with
          slipped        \* dashboards whose last state was lost, overtaken or pushed out

streamVars == <<kept, sincePrune, version, restarts, publisher, phase,
                queue, view, announced, slipped>>
journal == <<kept, sincePrune>>
screens == <<phase, queue, view, slipped>>

\* A message is the version of its state, or News when it carries none.
News == 0

Broadcasts == [state : 0..MaxWrites, left : SUBSET Dashboards, gone : BOOLEAN,
               step : {"call", "put", "room", "again"},
               to : Dashboards \cup {NoMessage}]

ASSUME StreamAssumption ==
    /\ NoMessage \notin Broadcasts /\ NoMessage \notin Dashboards
    /\ \A n \in {Retention, PruneEvery, QueueSize} : n \in Nat \ {0}
    /\ MaxWrites \in Nat /\ MaxRestarts \in Nat

StreamTypeOK ==
    /\ kept \in [Sessions -> Nat]
    /\ sincePrune \in 0..PruneEvery - 1
    /\ version \in 0..MaxWrites /\ announced \in 0..version
    /\ publisher \in [Publishers -> Broadcasts \cup {NoMessage}]
    /\ phase \in [Dashboards -> {"away", "subscribed", "streaming"}]
    /\ \A d \in Dashboards : Len(queue[d]) <= QueueSize /\ view[d] <= version
    /\ slipped \subseteq Dashboards

StreamInit ==
    /\ kept = [s \in Sessions |-> 0]
    /\ sincePrune = 0 /\ version = 0 /\ restarts = 0
    /\ publisher = [h \in Publishers |-> NoMessage]
    /\ phase = [d \in Dashboards |-> "away"]
    /\ queue = [d \in Dashboards |-> <<>>]
    /\ view = [d \in Dashboards |-> 0]
    /\ announced = 0 /\ slipped = {}

----------------------------------------------------------------------------
(* The journal.                                                            *)

Pruned(rows) == [s \in Sessions |-> Min({rows[s], Retention})]
(* (Mutant: only the session of the event is pruned.) *)
prune_own_session(rows) ==
    [s \in Sessions |-> IF rows[s] > kept[s] THEN Min({rows[s], Retention})
                                             ELSE rows[s]]

(* Pruning follows every PruneEvery-th event of any session, by rank within *)
(* each session; the counter starts anew with the process.                  *)
PruneRows(rows) == Pruned(rows)

ingest(s) ==
    LET rows == [kept EXCEPT ![s] = @ + 1]
        due == sincePrune + 1 >= PruneEvery
    IN  /\ kept' = IF due THEN PruneRows(rows) ELSE rows
        /\ sincePrune' = IF due THEN 0 ELSE sincePrune + 1

delete_session(s) ==
    /\ kept' = [kept EXCEPT ![s] = 0]
    /\ UNCHANGED sincePrune

clear_all ==
    /\ kept' = [s \in Sessions |-> 0]
    /\ UNCHANGED sincePrune

Calling(h, message) ==
    publisher' = [publisher EXCEPT ![h] =
        [state |-> message, left |-> {}, gone |-> FALSE, step |-> "call", to |-> NoMessage]]

(* A handler writes and keeps the state it read under the same lock. *)
Write(h) ==
    /\ publisher[h] = NoMessage /\ version < MaxWrites
    /\ \/ \E s \in Sessions : ingest(s) \/ delete_session(s)
       \/ clear_all
    /\ version' = version + 1
    /\ Calling(h, version')
    /\ UNCHANGED <<restarts, announced, screens>>

(* A drive, a review worker, a watcher or a handler tells of something else. *)
TellNews(h) ==
    /\ publisher[h] = NoMessage
    /\ Calling(h, News)
    /\ UNCHANGED <<journal, version, restarts, announced, screens>>

(* The project monitor writes its events to the store and tells no one. *)
MonitorEvent ==
    /\ version < MaxWrites
    /\ \E s \in Sessions : ingest(s)
    /\ version' = version + 1
    /\ UNCHANGED <<restarts, publisher, announced, screens>>

----------------------------------------------------------------------------
(* publish: a copy of the subscribers, then one queue after the other.  The  *)
(* queue of a dashboard that has left takes messages nobody reads; the model  *)
(* only remembers that a copy has one.                                        *)

Remaining(delivery) == IF delivery.left = {} THEN NoMessage
                       ELSE [delivery EXCEPT !.step = "put", !.to = NoMessage]
Without(delivery, d) == Remaining([delivery EXCEPT !.left = @ \ {d}])
InStep(h, step) == publisher[h] # NoMessage /\ publisher[h].step = step
Delivers(h, delivery) == publisher' = [publisher EXCEPT ![h] = delivery]
IsFull(d) == Len(queue[d]) >= QueueSize
Subscribers == {d \in Dashboards : phase[d] \in {"subscribed", "streaming"}}

(* The message does not reach these: nothing is missing there unless it is a state. *)
Lost(h, dashboards) ==
    slipped' = IF publisher[h].state = News THEN slipped ELSE slipped \cup dashboards

publish(h) ==
    /\ InStep(h, "call")
    /\ Delivers(h, Remaining([publisher[h] EXCEPT !.left = Subscribers]))
    /\ announced' = Max({announced, publisher[h].state})
    /\ UNCHANGED <<journal, version, restarts, screens>>

Put(h, d) ==
    /\ queue' = [queue EXCEPT ![d] = Append(@, publisher[h].state)]
    /\ slipped' = IF publisher[h].state = News THEN slipped
                  ELSE IF publisher[h].state < announced THEN slipped \cup {d}
                  ELSE slipped \ {d}
    /\ Delivers(h, Without(publisher[h], d))

MakeRoom(h, d) ==
    /\ Delivers(h, [publisher[h] EXCEPT !.step = "room", !.to = d])
    /\ UNCHANGED <<queue, slipped>>

put_nowait(h, d) ==
    /\ InStep(h, "put") /\ d \in publisher[h].left
    /\ IF IsFull(d) THEN MakeRoom(h, d) ELSE Put(h, d)
    /\ UNCHANGED <<journal, version, restarts, announced, phase, view>>

(* The oldest message makes room, whatever it is: the last state in the queue may be   *)
(* pushed out by News.  If the dashboard emptied its queue in the meantime,             *)
(* queue.Empty ends the attempt and the message is lost.                                *)
LastState(d) ==
    /\ Head(queue[d]) # News
    /\ \A n \in 2..Len(queue[d]) : queue[d][n] = News

get_nowait(h) ==
    /\ InStep(h, "room")
    /\ LET d == publisher[h].to
       IN  IF queue[d] = <<>>
           THEN /\ Delivers(h, Without(publisher[h], d))
                /\ Lost(h, {d})
                /\ UNCHANGED queue
           ELSE /\ Delivers(h, [publisher[h] EXCEPT !.step = "again"])
                /\ queue' = [queue EXCEPT ![d] = Tail(@)]
                /\ slipped' = IF LastState(d) THEN slipped \cup {d} ELSE slipped
    /\ UNCHANGED <<journal, version, restarts, announced, phase, view>>

(* If another handler took the room, queue.Full ends the whole delivery. *)
PutAgain(h) ==
    /\ InStep(h, "again")
    /\ LET d == publisher[h].to
       IN  IF IsFull(d)
           THEN /\ Delivers(h, NoMessage)
                /\ Lost(h, publisher[h].left)
                /\ UNCHANGED queue
           ELSE Put(h, d)
    /\ UNCHANGED <<journal, version, restarts, announced, phase, view>>

(* The same race for a queue nobody reads ends the delivery to the others. *)
DepartedQueueFull(h) ==
    /\ InStep(h, "put") /\ publisher[h].gone
    /\ Delivers(h, NoMessage)
    /\ Lost(h, publisher[h].left)
    /\ UNCHANGED <<journal, version, restarts, announced, phase, queue, view>>

----------------------------------------------------------------------------
(* A dashboard *)

Enters(d, p) == phase' = [phase EXCEPT ![d] = p]
EmptyQueue(d) == queue' = [queue EXCEPT ![d] = <<>>] /\ slipped' = slipped \ {d}
ReadState(d) == view' = [view EXCEPT ![d] = version]

(* It subscribes, and then reads the state it starts from. *)
(* (Mutant: the other way round.)                          *)
read_before_subscribe(d) ==
    \/ phase[d] = "away" /\ ReadState(d) /\ Enters(d, "reading") /\ UNCHANGED <<queue, slipped>>
    \/ phase[d] = "reading" /\ EmptyQueue(d) /\ Enters(d, "streaming") /\ UNCHANGED view
stream_state(d) ==
    \/ phase[d] = "away" /\ EmptyQueue(d) /\ Enters(d, "subscribed") /\ UNCHANGED view
    \/ phase[d] = "subscribed" /\ ReadState(d) /\ Enters(d, "streaming")
       /\ UNCHANGED <<queue, slipped>>

Connect(d) ==
    /\ stream_state(d)
    /\ UNCHANGED <<journal, version, restarts, publisher, announced>>

write_sse(d) ==
    /\ phase[d] = "streaming" /\ queue[d] # <<>>
    /\ view' = IF Head(queue[d]) = News THEN view ELSE [view EXCEPT ![d] = Head(queue[d])]
    /\ queue' = [queue EXCEPT ![d] = Tail(@)]
    /\ UNCHANGED <<journal, version, restarts, publisher, phase, announced, slipped>>

(* Whoever delivers to another queue goes on there. *)
Forgotten(delivery, d) ==
    IF delivery = NoMessage \/ d \notin delivery.left THEN delivery
    ELSE LET rest == [delivery EXCEPT !.left = @ \ {d}, !.gone = TRUE]
         IN  IF delivery.to \in rest.left THEN rest ELSE Remaining(rest)

unsubscribe(d) ==
    /\ phase[d] # "away"
    /\ Enters(d, "away")
    /\ EmptyQueue(d)
    /\ publisher' = [h \in Publishers |-> Forgotten(publisher[h], d)]
    /\ UNCHANGED <<journal, version, restarts, view, announced>>

(* The journal survives a restart; handlers, streams and the counter do not. *)
StreamRestart ==
    /\ restarts < MaxRestarts
    /\ restarts' = restarts + 1
    /\ sincePrune' = 0
    /\ publisher' = [h \in Publishers |-> NoMessage]
    /\ phase' = [d \in Dashboards |-> "away"]
    /\ queue' = [d \in Dashboards |-> <<>>]
    /\ slipped' = {}
    /\ UNCHANGED <<kept, version, view, announced>>

StreamNext ==
    \/ \E h \in Publishers : \/ Write(h) \/ TellNews(h) \/ publish(h) \/ get_nowait(h) \/ PutAgain(h)
                             \/ DepartedQueueFull(h)
                             \/ \E d \in Dashboards : put_nowait(h, d)
    \/ MonitorEvent
    \/ \E d \in Dashboards : Connect(d) \/ write_sse(d) \/ unsubscribe(d)
    \/ StreamRestart

StreamSpec == StreamInit /\ [][StreamNext]_streamVars

----------------------------------------------------------------------------
(* Correctness *)

Serving(d) ==
    \E h \in Publishers :
        publisher[h] # NoMessage /\ publisher[h].state # News /\ d \in publisher[h].left

(* A dashboard that joined at any moment, of whatever handlers were delivering, and *)
(* has shown all its queue holds, shows the newest state publish() was called with, *)
(* unless the last state for it was lost to the race for the room in a full queue,   *)
(* overtaken by a newer one, or pushed out of the full queue by messages of other    *)
(* kinds (slipped).  A queue that states alone fill loses only older ones.           *)
ViewIsCurrent ==
    \A d \in Dashboards :
        phase[d] = "streaming" /\ queue[d] = <<>> /\ ~Serving(d) /\ d \notin slipped
            => view[d] >= announced

(* The journal stays bounded although pruning runs only on every PruneEvery-th event *)
(* of any session and its counter is lost with the process: beyond Retention rows a  *)
(* session there are only those that came after the last pruning of a process.       *)
Excess(s) == Max({0, kept[s] - Retention})
EventsBounded ==
    MapThenSumSet(Excess, Sessions) <= (restarts + 1) * (PruneEvery - 1)
=============================================================================
