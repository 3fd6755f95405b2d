----------------------------- MODULE LiveStream -----------------------------
(***************************************************************************)
(* The live path from the warm store to one browser view: the pub/sub of   *)
(* RingBufferStore (backend/app/ingestion/store.py), the WebSocket handler *)
(* (backend/app/ws/hub.py), and the client that reconnects and keeps a     *)
(* window of samples (frontend/src/api/ws.ts, useWellStream.ts).           *)
(*                                                                         *)
(* The samples of a well's curve are numbered in the order in which they   *)
(* were read.  Every WebSocket has its own server-side handler: the one of *)
(* an abandoned socket lives on until it notices, while the client is      *)
(* already on another.  A frame is written to the transport as soon as it  *)
(* is sent; a slow client only delays what is sent after it.               *)
(***************************************************************************)
EXTENDS Integers, SequencesExt

CONSTANTS
    Wells,
    Conns,        \* WebSocket connections that can exist at the same time
    None,
    MaxSample,    \* bound: samples read per well
    QueueSize,    \* maxsize of a subscriber queue
    NetSize,      \* frames a transport takes before drain() waits
    SnapLimit,    \* samples of a snapshot frame
    WindowSize,   \* samples the view keeps
    MaxEvents     \* bound: losses of a connection, switches and restarts

ASSUME StreamConstants ==
    /\ {MaxSample, QueueSize, NetSize, SnapLimit, WindowSize, MaxEvents} \subseteq Nat \ {0}
    /\ SnapLimit =< WindowSize
    /\ None \notin Wells \cup Conns

VARIABLES
    oldest, newest,  \* store: a well's buffer holds the samples oldest+1..newest
    subs,            \* store: _subscribers, as pairs <<well, connection>>
    queue,           \* store: the queue of each such pair
    link,            \* connection: "free", "open", or "gone" (closed by the client)
    handler,         \* its ws_endpoint: "none", "receive", or "snapshot" (sending it)
    current,         \* its current_well
    drain,           \* does its drain task exist?
    up, down,        \* frames in flight, to and from the server
    sock,            \* client: the connection it listens to
    wanted,          \* client: the well it subscribes to
    view,            \* client: the window of samples it shows
    events,          \* how many losses, switches and restarts there were
    lossy,           \* ghost: did a queue ever overflow, or the API restart?
    reread           \* ghost: did a restarted API resume from an older cursor?

store == <<oldest, newest, subs, queue>>
server == <<handler, current, drain>>
net == <<link, up, down>>
client == <<sock, wanted, view>>
vars == <<store, server, net, client, events, lossy, reread>>

Init ==
    /\ oldest = [w \in Wells |-> 0] /\ newest = [w \in Wells |-> 0]
    /\ subs = {} /\ queue = [p \in Wells \X Conns |-> <<>>]
    /\ link = [k \in Conns |-> "free"] /\ handler = [k \in Conns |-> "none"]
    /\ current = [k \in Conns |-> None] /\ drain = [k \in Conns |-> FALSE]
    /\ up = [k \in Conns |-> <<>>] /\ down = [k \in Conns |-> <<>>]
    /\ sock = None /\ wanted \in Wells /\ view = <<>>
    /\ events = 0 /\ lossy = FALSE /\ reread = FALSE

Frame(kind, w, from, to) == [kind |-> kind, well |-> w, from |-> from, to |-> to]

-----------------------------------------------------------------------------
(* The store. *)

\* Mutant: a full queue refuses the new frame.
PutRefused(q, frame) == IF Len(q) = QueueSize THEN q ELSE Append(q, frame)

\* Mutant: the queue has no bound.
PutUnbounded(q, frame) == Append(q, frame)

\* publish to one queue: a full queue loses its oldest frame.
Put(q, frame) == Append(IF Len(q) = QueueSize THEN Tail(q) ELSE q, frame)

\* The scheduler reads a sample of the well: append, then publish, without an
\* await between them.
Ingest(w) ==
    LET n == newest[w] + 1
    IN  /\ n =< MaxSample
        /\ newest' = [newest EXCEPT ![w] = n]
        /\ queue' = [p \in Wells \X Conns |->
                        IF p[1] = w /\ p \in subs
                        THEN Put(queue[p], Frame("data", w, n, n)) ELSE queue[p]]
        /\ lossy' = (lossy \/ \E p \in subs : p[1] = w /\ Len(queue[p]) = QueueSize)
        /\ UNCHANGED <<oldest, subs, server, net, client, events, reread>>

\* Mutant: the snapshot misses the sample that has just been appended.
SnapshotFrameStale(w) ==
    LET last == IF newest[w] > oldest[w] THEN newest[w] - 1 ELSE newest[w]
        from == IF last - oldest[w] > SnapLimit THEN last - SnapLimit + 1 ELSE oldest[w] + 1
    IN  Frame("snapshot", w, from, last)

\* get_recent(well, limit): the last samples of the buffer.
SnapshotFrame(w) ==
    LET from == IF newest[w] - oldest[w] > SnapLimit
                THEN newest[w] - SnapLimit + 1 ELSE oldest[w] + 1
    IN  Frame("snapshot", w, from, newest[w])

-----------------------------------------------------------------------------
(* ws_endpoint *)

\* Mutant: the queue of the previous well stays registered.
ReleasedNothing(k) == subs

\* _release: the subscriptions that are left, ...
Released(k) == subs \ {<<current[k], k>>}

\* ... and their queues; a queue that is no longer registered is garbage.
Kept(pairs) == [p \in Wells \X Conns |-> IF p \in pairs THEN queue[p] ELSE <<>>]

\* A subscribe frame: release, register a new queue, and send the snapshot
\* taken in the same step.
ReceiveSubscribe(k) ==
    /\ handler[k] = "receive" /\ up[k] # <<>> /\ Head(up[k]) \in Wells
    /\ LET w == Head(up[k])
       IN  /\ subs' = Released(k) \cup {<<w, k>>}
           /\ queue' = [Kept(Released(k)) EXCEPT ![<<w, k>>] = <<>>]
           /\ current' = [current EXCEPT ![k] = w]
           /\ down' = [down EXCEPT ![k] = IF link[k] = "open"
                                          THEN Append(@, SnapshotFrame(w)) ELSE @]
    /\ drain' = [drain EXCEPT ![k] = FALSE]
    /\ handler' = [handler EXCEPT ![k] = "snapshot"]
    /\ up' = [up EXCEPT ![k] = Tail(@)]
    /\ UNCHANGED <<oldest, newest, link, client, events, lossy, reread>>

\* An unsubscribe frame, whichever well it names.
ReceiveUnsubscribe(k) ==
    /\ handler[k] = "receive" /\ up[k] # <<>> /\ Head(up[k]) = "unsubscribe"
    /\ subs' = Released(k) /\ queue' = Kept(subs')
    /\ current' = [current EXCEPT ![k] = None]
    /\ drain' = [drain EXCEPT ![k] = FALSE]
    /\ up' = [up EXCEPT ![k] = Tail(@)]
    /\ UNCHANGED <<oldest, newest, handler, link, down, client, events, lossy, reread>>

\* The snapshot has been sent: only now is the drain task created.
SnapshotSent(k) ==
    /\ handler[k] = "snapshot"
    /\ Len(down[k]) =< NetSize
    /\ handler' = [handler EXCEPT ![k] = "receive"]
    /\ drain' = [drain EXCEPT ![k] = TRUE]
    /\ UNCHANGED <<store, current, net, client, events, lossy, reread>>

\* _drain: forward one frame; the next waits until the transport has drained.
DrainOne(k) ==
    LET p == <<current[k], k>>
    IN  /\ drain[k] /\ link[k] = "open"
        /\ queue[p] # <<>> /\ Len(down[k]) < NetSize
        /\ down' = [down EXCEPT ![k] = Append(@, Head(queue[p]))]
        /\ queue' = [queue EXCEPT ![p] = Tail(@)]
        /\ UNCHANGED <<oldest, newest, subs, server, link, up, client, events, lossy, reread>>

\* receive_json or the snapshot's send_json raises on a closed socket: the
\* finally clause releases the subscription.
Disconnect(k) ==
    /\ link[k] = "gone"
    /\ handler[k] = "receive" => up[k] = <<>>
    /\ subs' = Released(k) /\ queue' = Kept(subs')
    /\ current' = [current EXCEPT ![k] = None]
    /\ drain' = [drain EXCEPT ![k] = FALSE]
    /\ handler' = [handler EXCEPT ![k] = "none"]
    /\ link' = [link EXCEPT ![k] = "free"]
    /\ up' = [up EXCEPT ![k] = <<>>]
    /\ UNCHANGED <<oldest, newest, down, client, events, lossy, reread>>

-----------------------------------------------------------------------------
(* The client. *)

\* The socket opens (at first, or by the reconnect timer), and onopen sends the
\* subscription.
Open(k) ==
    /\ sock = None /\ link[k] = "free"
    /\ sock' = k
    /\ link' = [link EXCEPT ![k] = "open"]
    /\ handler' = [handler EXCEPT ![k] = "receive"]
    /\ up' = [up EXCEPT ![k] = <<wanted>>]
    /\ UNCHANGED <<store, current, drain, down, wanted, view, events, lossy, reread>>

\* Mutant: a snapshot is appended like a delta.
ShownAppended(frame) ==
    LET pts == [n \in 1..(frame.to - frame.from + 1) |-> frame.from + n - 1]
        all == view \o pts
        cut == IF Len(all) > WindowSize THEN Len(all) - WindowSize ELSE 0
    IN  SubSeq(all, cut + 1, Len(all))

\* appendWindowed: a snapshot replaces the window, unless it has no samples.
Shown(frame) ==
    LET pts == [n \in 1..(frame.to - frame.from + 1) |-> frame.from + n - 1]
        all == (IF frame.kind = "snapshot" /\ pts # <<>> THEN <<>> ELSE view) \o pts
        cut == IF Len(all) > WindowSize THEN Len(all) - WindowSize ELSE 0
    IN  SubSeq(all, cut + 1, Len(all))

\* onmessage: frames of another well are ignored.
Deliver ==
    /\ sock # None /\ down[sock] # <<>>
    /\ LET frame == Head(down[sock])
       IN  view' = IF frame.well = wanted THEN Shown(frame) ELSE view
    /\ down' = [down EXCEPT ![sock] = Tail(@)]
    /\ UNCHANGED <<store, server, link, up, sock, wanted, events, lossy, reread>>

Event == events < MaxEvents /\ events' = events + 1

\* What is on its way to the client is lost with the connection.
Abandon(k) ==
    /\ link' = [link EXCEPT ![k] = "gone"]
    /\ down' = [down EXCEPT ![k] = <<>>]
    /\ sock' = None

\* The connection breaks; the view stays.
LoseConnection ==
    /\ Event /\ sock # None
    /\ Abandon(sock)
    /\ UNCHANGED <<store, server, up, wanted, view, lossy, reread>>

\* The hook's effect for another well: a new socket, an empty view, and the old
\* socket unsubscribed and closed.
ViewWell(w) ==
    /\ Event /\ w # wanted
    /\ wanted' = w /\ view' = <<>>
    /\ IF sock = None THEN UNCHANGED <<link, down, up, sock>>
       ELSE Abandon(sock) /\ up' = [up EXCEPT ![sock] = Append(@, "unsubscribe")]
    /\ UNCHANGED <<store, server, lossy, reread>>

\* The same on an open socket: unsubscribe and subscribe again.  The protocol allows
\* it and the hub handles it; the hook itself always opens a new socket.
SwitchWell(w) ==
    /\ Event /\ w # wanted /\ sock # None
    /\ wanted' = w /\ view' = <<>>
    /\ up' = [up EXCEPT ![sock] = @ \o <<"unsubscribe", w>>]
    /\ UNCHANGED <<store, server, link, down, sock, lossy, reread>>

\* The API process is restarted: buffers and subscriptions are gone, and it
\* resumes each well from the cursor that had been saved.
Restart ==
    /\ Event
    /\ \E saved \in [Wells -> 0..MaxSample] :
           /\ \A w \in Wells : saved[w] =< newest[w]
           /\ oldest' = saved /\ newest' = saved
           /\ reread' = (reread \/ saved # newest)
    /\ subs' = {} /\ queue' = [p \in Wells \X Conns |-> <<>>]
    /\ link' = [k \in Conns |-> "free"] /\ handler' = [k \in Conns |-> "none"]
    /\ current' = [k \in Conns |-> None] /\ drain' = [k \in Conns |-> FALSE]
    /\ up' = [k \in Conns |-> <<>>] /\ down' = [k \in Conns |-> <<>>]
    /\ sock' = None
    /\ UNCHANGED <<wanted, view>>
    /\ lossy' = TRUE

-----------------------------------------------------------------------------
Handler(k) ==
    \/ ReceiveSubscribe(k) \/ ReceiveUnsubscribe(k)
    \/ SnapshotSent(k) \/ DrainOne(k) \/ Disconnect(k)

Next ==
    \/ \E w \in Wells : Ingest(w) \/ ViewWell(w) \/ SwitchWell(w)
    \/ \E k \in Conns : Handler(k) \/ Open(k)
    \/ Deliver \/ LoseConnection \/ Restart

\* The event loop runs every handler and drain task that can go on, the client
\* keeps trying to connect, and delivers what has arrived.
Fairness ==
    /\ \A k \in Conns :
           /\ WF_vars(ReceiveSubscribe(k) \/ ReceiveUnsubscribe(k))
           /\ WF_vars(SnapshotSent(k)) /\ WF_vars(DrainOne(k)) /\ WF_vars(Disconnect(k))
    /\ WF_vars(\E k \in Conns : Open(k))
    /\ WF_vars(Deliver)

Spec == Init /\ [][Next]_vars /\ Fairness

-----------------------------------------------------------------------------
(* Properties. *)

\* The hub's, the store's and the client's variables hold what the code can
\* put in them; queues and the window stay within their bounds.
TypeOK ==
    /\ oldest \in [Wells -> 0..MaxSample] /\ newest \in [Wells -> 0..MaxSample]
    /\ subs \subseteq Wells \X Conns
    /\ \A p \in Wells \X Conns : Len(queue[p]) =< QueueSize
    /\ link \in [Conns -> {"free", "open", "gone"}]
    /\ handler \in [Conns -> {"none", "receive", "snapshot"}]
    /\ current \in [Conns -> Wells \cup {None}]
    /\ drain \in [Conns -> BOOLEAN]
    /\ sock \in Conns \cup {None} /\ wanted \in Wells
    /\ Len(view) =< WindowSize

\* The store publishes to exactly the wells the live handlers are subscribed
\* to: one socket, one well, and no queue survives its handler.
NoLeakedSubscriber ==
    /\ subs = {<<current[k], k>> : k \in {c \in Conns : current[c] # None}}
    /\ \A k \in Conns : link[k] = "free" => current[k] = None /\ ~drain[k]

\* The samples the view shows are in order and none is shown twice, through
\* overflow, reconnects, switches of the well and restarts of the API, unless a
\* restarted API reads samples again (its empty snapshot does not replace the
\* window they are appended to).
ViewInOrder == ~reread => \A n \in 1..(Len(view) - 1) : view[n] < view[n + 1]

\* The view has no hole as long as no subscriber queue has overflowed and the
\* API has not been restarted: through reconnects and switches, the snapshot
\* and the deltas that follow it meet exactly.
ViewHasNoGaps == ~lossy => \A n \in 1..(Len(view) - 1) : view[n + 1] = view[n] + 1

\* Once samples stop arriving, and connections stop breaking, the view ends
\* with the newest sample of the well: a slow client loses old deltas, never
\* the last one.
EventuallyCurrent ==
    <>[](newest[wanted] > oldest[wanted] => view # <<>> /\ Last(view) = newest[wanted])
=============================================================================
