----------------------------- MODULE RunEvents -----------------------------
(* RunEventService: bounded in-memory event streams with replay, live        *)
(* subscriptions and cleanup of idle streams.  Every operation runs under the *)
(* service's asyncio lock, so each is one action; what happens between two    *)
(* operations of one request is free.  Time is abstracted to one bit per      *)
(* stream: whether its idle, or after its end its retention, time has passed. *)
EXTENDS Integers, Sequences, FiniteSets

CONSTANTS
    Streams,       \* stream ids
    Users,         \* X-User-Id values
    Queues,        \* identities for the subscriptions' queues
    Publishers,    \* requests that publish to a stream
    HistoryLimit,  \* history_limit
    StreamLimit,   \* stream_limit
    MaxEvents,     \* bound on the events of one life of a stream
    MaxLives       \* bound on how often a stream id is created

ASSUME EventsAssumption ==
    /\ Streams # {} /\ Users # {}
    /\ HistoryLimit \in Nat \ {0} /\ StreamLimit \in Nat \ {0}
    /\ MaxEvents \in Nat /\ MaxLives \in Nat

VARIABLES
    streams,       \* _streams: live stream id -> its state
    lives,         \* stream id -> how often it was created
    subs,          \* subscription -> its stream, user and asyncio.Queue
    pub            \* publisher -> its stream, user and state

svcVars == <<streams, lives, subs, pub>>

\* Of the fifteen event types three are terminal; the life of the stream is
\* recorded to tell the events of a recreated stream from those before.
Event == [n : Nat, terminal : BOOLEAN, life : Nat, user : Users]

StreamEnd == [n |-> 0, terminal |-> TRUE, life |-> 0, user |-> CHOOSE u \in Users : TRUE]

StreamState ==
    [owner : Users, history : Seq(Event), subscribers : SUBSET Queues,
     next : Nat, ended : BOOLEAN, aged : BOOLEAN, life : Nat]

\* A RunEventSubscription: what is queued, and the last number it yielded.
Subscription ==
    [state : {"free", "open", "closing"}, stream : Streams, user : Users,
     items : Seq(Event \cup {StreamEnd}), sent : Nat]

Free == [state |-> "free", stream |-> CHOOSE s \in Streams : TRUE,
         user |-> CHOOSE u \in Users : TRUE, items |-> <<>>, sent |-> 0]

Idle == [state |-> "idle", stream |-> CHOOSE s \in Streams : TRUE,
         user |-> CHOOSE u \in Users : TRUE]

SvcInit ==
    /\ streams = <<>>
    /\ lives = [s \in Streams |-> 0]
    /\ subs = [q \in Queues |-> Free]
    /\ pub = [p \in Publishers |-> Idle]

\* asyncio.Queue(maxsize=history_limit + 1)
QueueSize == HistoryLimit + 1

\* updated_at = clock(); the end of a stream is not moved by it.
Touched(stream) == [stream EXCEPT !.aged = stream.ended /\ stream.aged]

\* _cleanup_locked: streams without a subscriber whose time has passed.
Cleaned(all) ==
    [s \in {t \in DOMAIN all : all[t].subscribers # {} \/ ~all[t].aged} |-> all[s]]

\* idle_seconds or retention_seconds pass.
TimePasses(s) ==
    /\ s \in DOMAIN streams
    /\ ~streams[s].aged
    /\ streams' = [streams EXCEPT ![s].aged = TRUE]
    /\ UNCHANGED <<lives, subs, pub>>

-----------------------------------------------------------------------------
\* open_stream creates the stream or refreshes it for its owner.
OpenStream(s, u) ==
    LET all == Cleaned(streams) IN
    /\ \/ /\ s \in DOMAIN all /\ all[s].owner = u
          /\ streams' = [all EXCEPT ![s] = Touched(@)]
          /\ UNCHANGED lives
       \/ /\ s \notin DOMAIN all
          /\ Cardinality(DOMAIN all) < StreamLimit
          /\ lives[s] < MaxLives
          /\ lives' = [lives EXCEPT ![s] = @ + 1]
          /\ streams' = [t \in DOMAIN all \cup {s} |->
                IF t # s THEN all[t]
                ELSE [owner |-> u, history |-> <<>>, subscribers |-> {}, next |-> 1,
                      ended |-> FALSE, aged |-> FALSE, life |-> lives[s] + 1]]
    /\ UNCHANGED <<subs, pub>>

\* EventStreamAccessDeniedError: the cleanup has been done all the same.
Denied(s, u) ==
    LET all == Cleaned(streams) IN
    /\ s \in DOMAIN all /\ all[s].owner # u
    /\ streams' = all
    /\ UNCHANGED <<lives, subs, pub>>

\* EventStreamCapacityError
CapacityReached(s) ==
    LET all == Cleaned(streams) IN
    /\ s \notin DOMAIN all
    /\ Cardinality(DOMAIN all) >= StreamLimit
    /\ streams' = all
    /\ UNCHANGED <<lives, subs, pub>>

\* EventStreamNotFoundError of subscribe: the stream was removed between the two
\* calls of the endpoint.
NotFound(s) ==
    LET all == Cleaned(streams) IN
    /\ s \notin DOMAIN all
    /\ streams' = all
    /\ UNCHANGED <<lives, subs, pub>>

\* The history holds everything after last_event_id; a first subscription takes
\* what there is.
MutReplayAnything(stream, last) == TRUE
Replayable(stream, last) ==
    last # 0 /\ stream.history # <<>> => last >= Head(stream.history).n - 1

\* The elements of s that are wanted, in their order.
Selected(s, wanted) ==
    LET kept[i \in 0 .. Len(s)] ==
            IF i = 0 THEN <<>>
            ELSE IF s[i] \in wanted THEN Append(kept[i - 1], s[i]) ELSE kept[i - 1]
    IN  kept[Len(s)]

ReplayOf(stream, last) == Selected(stream.history, {e \in Event : e.n > last})

\* EventReplayUnavailableError
ReplayUnavailable(s, u, last) ==
    LET all == Cleaned(streams) IN
    /\ s \in DOMAIN all /\ all[s].owner = u
    /\ ~Replayable(all[s], last)
    /\ streams' = all
    /\ UNCHANGED <<lives, subs, pub>>

\* subscribe: the replay and the registration in one critical section; an ended
\* stream only replays.
Subscribe(q, s, u, last) ==
    LET all == Cleaned(streams)
        stream == all[s]
        replay == ReplayOf(stream, last)
    IN
    /\ subs[q].state = "free"
    /\ s \in DOMAIN all /\ stream.owner = u
    /\ Replayable(stream, last)
    /\ subs' = [subs EXCEPT ![q] =
          [state |-> "open", stream |-> s, user |-> u, sent |-> 0,
           items |-> IF stream.ended THEN Append(replay, StreamEnd) ELSE replay]]
    /\ streams' = [all EXCEPT ![s] = Touched(
          [stream EXCEPT !.subscribers = IF stream.ended THEN @ ELSE @ \cup {q}])]
    /\ UNCHANGED <<lives, pub>>

\* iter_sse takes the next item; the end marker or a terminal event ends it.
Yield(q) ==
    LET item == Head(subs[q].items) IN
    /\ subs[q].state = "open"
    /\ subs[q].items # <<>>
    /\ subs' = [subs EXCEPT ![q].items = Tail(@),
                            ![q].sent = IF item = StreamEnd THEN @ ELSE item.n,
                            ![q].state = IF item.terminal THEN "closing" ELSE @]
    /\ UNCHANGED <<streams, lives, pub>>

\* is_disconnected, or the cancellation of the response.
Disconnected(q) ==
    /\ subs[q].state = "open"
    /\ subs' = [subs EXCEPT ![q].state = "closing"]
    /\ UNCHANGED <<streams, lives, pub>>

\* close and remove_subscription, which refreshes whatever stream has the id now
\* and cleans up.
RemoveSubscription(q) ==
    LET s == subs[q].stream IN
    /\ subs[q].state = "closing"
    /\ subs' = [subs EXCEPT ![q] = Free]
    /\ streams' = IF s \in DOMAIN streams
                  THEN Cleaned([streams EXCEPT ![s] = Touched(
                          [streams[s] EXCEPT !.subscribers = @ \ {q}])])
                  ELSE streams
    /\ UNCHANGED <<lives, pub>>

-----------------------------------------------------------------------------
\* publisher: only for an existing, unfinished stream of the user.
BindPublisher(p, s, u) ==
    LET all == Cleaned(streams) IN
    /\ pub[p].state = "idle"
    /\ streams' = all
    /\ pub' = [pub EXCEPT ![p] =
          [state |-> IF s \in DOMAIN all /\ all[s].owner = u /\ ~all[s].ended
                     THEN "bound" ELSE "failed",
           stream |-> s, user |-> u]]
    /\ UNCHANGED <<lives, subs>>

MutOwnerUnchecked(p) ==
    /\ pub[p].stream \in DOMAIN streams
    /\ ~streams[pub[p].stream].ended
CanPublish(p) ==
    /\ pub[p].stream \in DOMAIN streams
    /\ streams[pub[p].stream].owner = pub[p].user
    /\ ~streams[pub[p].stream].ended

\* The most recent HistoryLimit events, as deque(maxlen) keeps them.
Remembered(history, e) ==
    LET all == Append(history, e) IN
    IF Len(all) > HistoryLimit THEN Tail(all) ELSE all

\* put_nowait of the event and, after a terminal one, of the end marker as far
\* as it fits.
Offered(items, e) ==
    LET room == QueueSize - Len(items) IN
    IF room <= 0 THEN items
    ELSE IF e.terminal /\ room > 1 THEN items \o <<e, StreamEnd>>
    ELSE Append(items, e)

\* QueueFull: a slow consumer loses its subscription.
MutSlowConsumerKept(stream) == {}
Overflowed(stream) == {q \in stream.subscribers : Len(subs[q].items) >= QueueSize}

\* publish: the sequence number, the history and the broadcast in one critical
\* section.
Publish(p, terminal) ==
    LET s == pub[p].stream
        stream == streams[s]
        e == [n |-> stream.next, terminal |-> terminal, life |-> stream.life,
              user |-> pub[p].user]
    IN
    /\ pub[p].state = "bound"
    /\ CanPublish(p)
    /\ stream.next <= MaxEvents
    /\ streams' = [streams EXCEPT ![s] =
          [stream EXCEPT !.next = @ + 1, !.ended = terminal, !.aged = FALSE,
                         !.history = Remembered(@, e),
                         !.subscribers = IF terminal THEN {} ELSE @ \ Overflowed(stream)]]
    /\ subs' = [q \in Queues |-> IF q \in stream.subscribers
                                 THEN [subs[q] EXCEPT !.items = Offered(@, e)]
                                 ELSE subs[q]]
    /\ pub' = [pub EXCEPT ![p] = IF terminal THEN [Idle EXCEPT !.state = "done"] ELSE @]
    /\ UNCHANGED lives

\* EventStreamNotFoundError or EventStreamAccessDeniedError leaves publish and,
\* where no caller handles it, ends the request.
PublishRaises(p) ==
    /\ pub[p].state = "bound"
    /\ ~CanPublish(p)
    /\ pub' = [pub EXCEPT ![p] = [Idle EXCEPT !.state = "failed"]]
    /\ UNCHANGED <<streams, lives, subs>>

\* close, when the application stops: requests and their publishers end with it.
CloseService ==
    /\ DOMAIN streams # {}
    /\ subs' = [q \in Queues |->
          IF (\E s \in DOMAIN streams : q \in streams[s].subscribers)
             /\ Len(subs[q].items) < QueueSize
          THEN [subs[q] EXCEPT !.items = Append(@, StreamEnd)] ELSE subs[q]]
    /\ streams' = <<>>
    /\ pub' = [p \in Publishers |-> IF pub[p].state = "bound"
                                    THEN [Idle EXCEPT !.state = "failed"] ELSE pub[p]]
    /\ UNCHANGED lives

-----------------------------------------------------------------------------
SvcTypeOK ==
    /\ DOMAIN streams \subseteq Streams
    /\ \A s \in DOMAIN streams : /\ streams[s] \in StreamState
                                 /\ Len(streams[s].history) <= HistoryLimit
    /\ Cardinality(DOMAIN streams) <= StreamLimit
    /\ lives \in [Streams -> Nat]
    /\ subs \in [Queues -> Subscription]
    /\ pub \in [Publishers -> [state : {"idle", "bound", "done", "failed"},
                               stream : Streams, user : Users]]

Pending(q) == Selected(subs[q].items, Event \ {StreamEnd})

\* put_nowait in subscribe cannot raise: the longest history and the end marker
\* fit the queue, and publish never exceeds it.
QueueWithinBound == \A q \in Queues : Len(subs[q].items) <= QueueSize

\* What a subscription yields has no gap and no repetition, across the seam of
\* replay and live events, truncation of the history and overflow of its queue;
\* and a subscription that is still registered is up to date.
ConnectionContiguous ==
    QueueWithinBound /\ \A q \in Queues : subs[q].state = "open" =>
        LET items == Pending(q) IN
        /\ \A i \in 1 .. Len(items) - 1 : items[i + 1].n = items[i].n + 1
        /\ subs[q].sent # 0 /\ items # <<>> => items[1].n = subs[q].sent + 1
        /\ \A s \in DOMAIN streams : q \in streams[s].subscribers =>
              CASE items # <<>> -> items[Len(items)].n = streams[s].next - 1
                [] items = <<>> /\ subs[q].sent # 0 -> subs[q].sent = streams[s].next - 1
                [] OTHER -> TRUE

\* An event reaches only the user whose request published it, even when a stream
\* id is removed as idle and taken over by another user in between.
OwnerIsolation ==
    \A q \in Queues : \A i \in 1 .. Len(subs[q].items) :
        subs[q].items[i] # StreamEnd => subs[q].items[i].user = subs[q].user

-----------------------------------------------------------------------------
\* What makes the properties above inductive.

\* The history holds the latest numbers of this life of the stream.
HistoryKept(s) ==
    LET stream == streams[s]
        h == stream.history
    IN
    /\ stream.life = lives[s]
    /\ Len(h) < stream.next
    /\ stream.next > 1 => h # <<>>
    /\ \A i \in 1 .. Len(h) : /\ h[i].n = stream.next - 1 - Len(h) + i
                              /\ h[i].life = stream.life
                              /\ h[i].user = stream.owner

\* A queue holds consecutive events of one life of its stream, then at most the
\* end marker, and follows what the subscription has yielded.
QueueKept(q) ==
    LET items == subs[q].items IN
    /\ Len(items) <= QueueSize
    /\ \A i \in 1 .. Len(items) : items[i] # StreamEnd =>
          /\ items[i].n > 0
          /\ items[i].user = subs[q].user
          /\ items[i].life <= lives[subs[q].stream]
    /\ \A i \in 1 .. Len(items) - 1 :
          /\ items[i] # StreamEnd
          /\ items[i + 1] # StreamEnd => /\ items[i + 1].n = items[i].n + 1
                                         /\ items[i + 1].life = items[i].life
    /\ subs[q].sent # 0 /\ items # <<>> /\ items[1] # StreamEnd => items[1].n = subs[q].sent + 1

\* Items of the present life of the stream have numbers already given.
QueueBehind(q) ==
    LET s == subs[q].stream
        items == subs[q].items
    IN  s \in DOMAIN streams => \A i \in 1 .. Len(items) :
            items[i] # StreamEnd /\ items[i].life = lives[s] => items[i].n < streams[s].next

\* A registered queue belongs to the owner and has seen everything.
Attached(s, q) ==
    LET items == subs[q].items IN
    /\ ~streams[s].ended
    /\ subs[q].state # "free" /\ subs[q].stream = s /\ subs[q].user = streams[s].owner
    /\ items # <<>> => /\ items[Len(items)] # StreamEnd
                       /\ items[Len(items)].n = streams[s].next - 1
                       /\ items[Len(items)].life = lives[s]
    /\ items = <<>> /\ subs[q].sent # 0 => subs[q].sent = streams[s].next - 1

SvcIInv ==
    /\ SvcTypeOK
    /\ IsFiniteSet(DOMAIN streams)
    /\ \A s \in DOMAIN streams : /\ HistoryKept(s)
                                 /\ \A q \in streams[s].subscribers : Attached(s, q)
    /\ \A q \in Queues : QueueKept(q) /\ QueueBehind(q)
=============================================================================
