-------------------------- MODULE RunEventClient --------------------------
(* openRunEventStream of the web console against RunEventService: connect,   *)
(* read, reconnect with Last-Event-ID, give up.  The endpoint makes its two   *)
(* service calls one after the other, and the server notices a lost           *)
(* connection only later, so an old subscription may outlive its client.      *)
EXTENDS RunEvents

CONSTANTS
    Clients,        \* open streams of browser pages
    StreamOf,       \* client -> its stream id
    UserOf,         \* client -> its user
    MaxReconnects   \* maxReconnectAttempts

ASSUME ClientAssumption ==
    /\ StreamOf \in [Clients -> Streams] /\ UserOf \in [Clients -> Users]
    /\ MaxReconnects \in Nat

VARIABLES
    phase,          \* client -> "idle", "opening", "subscribing", "reading", ...
    attempt,        \* client -> reconnectAttempt, which is never reset
    lastId,         \* client -> lastEventId, 0 before the first event
    link,           \* client -> the subscription it reads, while "reading"
    shown,          \* client -> the events passed to onEvent
    skipped         \* client -> the events ignored as already seen

clientVars == <<phase, attempt, lastId, link, shown, skipped>>
vars == <<svcVars, clientVars>>

Init ==
    /\ SvcInit
    /\ phase = [k \in Clients |-> "idle"]
    /\ attempt = [k \in Clients |-> 0]
    /\ lastId = [k \in Clients |-> 0]
    /\ link = [k \in Clients |-> CHOOSE q \in Queues : TRUE]
    /\ shown = [k \in Clients |-> {}]
    /\ skipped = [k \in Clients |-> {}]

Enter(k, p) ==
    /\ phase' = [phase EXCEPT ![k] = p]
    /\ UNCHANGED <<attempt, lastId, link, shown, skipped>>

\* A retryable error uses up an attempt, any other ends the client.
Reconnect(k) ==
    IF attempt[k] < MaxReconnects
    THEN /\ phase' = [phase EXCEPT ![k] = "opening"]
         /\ attempt' = [attempt EXCEPT ![k] = @ + 1]
    ELSE /\ phase' = [phase EXCEPT ![k] = "failed"]
         /\ UNCHANGED attempt

Retry(k) == Reconnect(k) /\ UNCHANGED <<lastId, link, shown, skipped>>

Start(k) ==
    /\ phase[k] = "idle"
    /\ Enter(k, "opening")
    /\ UNCHANGED svcVars

\* The first call of subscribe_run_events.
Connect(k) ==
    /\ phase[k] = "opening"
    /\ \/ OpenStream(StreamOf[k], UserOf[k]) /\ Enter(k, "subscribing")
       \/ Denied(StreamOf[k], UserOf[k]) /\ Enter(k, "failed")
       \/ CapacityReached(StreamOf[k]) /\ Retry(k)

\* The second call: 403, 404 and 409 are not retryable.
Attach(k) ==
    /\ phase[k] = "subscribing"
    /\ \/ \E q \in Queues :
            /\ Subscribe(q, StreamOf[k], UserOf[k], lastId[k])
            /\ phase' = [phase EXCEPT ![k] = "reading"]
            /\ link' = [link EXCEPT ![k] = q]
            /\ UNCHANGED <<attempt, lastId, shown, skipped>>
       \/ /\ \/ Denied(StreamOf[k], UserOf[k])
             \/ NotFound(StreamOf[k])
             \/ ReplayUnavailable(StreamOf[k], UserOf[k], lastId[k])
          /\ Enter(k, "failed")

Reading(k) == phase[k] = "reading"

\* onEvent: ignore an old number, refuse a gap, else show the event; a terminal
\* event closes the client.  The server ends the response after a terminal event
\* even if the client ignored it.
OnEvent(k, e) ==
    \/ /\ e.n <= lastId[k]
       /\ skipped' = [skipped EXCEPT ![k] = @ \cup {e}]
       /\ IF e.terminal THEN Reconnect(k) ELSE UNCHANGED <<phase, attempt>>
       /\ UNCHANGED <<lastId, link, shown>>
    \/ /\ e.n > lastId[k] /\ lastId[k] > 0 /\ e.n # lastId[k] + 1
       /\ Enter(k, "failed")
    \/ /\ e.n > lastId[k] /\ (lastId[k] = 0 \/ e.n = lastId[k] + 1)
       /\ shown' = [shown EXCEPT ![k] = @ \cup {e}]
       /\ lastId' = [lastId EXCEPT ![k] = e.n]
       /\ phase' = [phase EXCEPT ![k] = IF e.terminal THEN "closed" ELSE @]
       /\ UNCHANGED <<attempt, link, skipped>>

\* The next item of the subscription arrives.  The end of the response without a
\* terminal event is a retryable error.
Read(k) ==
    LET item == Head(subs[link[k]].items) IN
    /\ Reading(k)
    /\ Yield(link[k])
    /\ IF item = StreamEnd THEN Retry(k) ELSE OnEvent(k, item)

\* The network fails, or the connection is not confirmed in time.
Break(k) ==
    /\ phase[k] \in {"opening", "subscribing", "reading"}
    /\ Retry(k)
    /\ UNCHANGED svcVars

\* close()
CloseClient(k) ==
    /\ phase[k] \in {"opening", "subscribing", "reading"}
    /\ Enter(k, "closed")
    /\ UNCHANGED svcVars

\* A subscription without a client goes on yielding until the server notices.
Orphan(q) == \A k \in Clients : ~(Reading(k) /\ link[k] = q)

ServerStep(q) ==
    /\ \/ Orphan(q) /\ Yield(q)
       \/ Orphan(q) /\ Disconnected(q)
       \/ RemoveSubscription(q)
    /\ UNCHANGED clientVars

\* Other pages open streams and take up capacity, or the very id once it is
\* free; requests of any user publish; time passes; the application restarts.
Environment ==
    /\ \/ \E s \in Streams, u \in Users : OpenStream(s, u)
       \/ \E p \in Publishers, k \in Clients, u \in Users : BindPublisher(p, StreamOf[k], u)
       \/ \E p \in Publishers : \/ Publish(p, FALSE)
                                \/ Publish(p, TRUE)
                                \/ PublishRaises(p)
       \/ \E s \in Streams : TimePasses(s)
       \/ CloseService
    /\ UNCHANGED clientVars

Next ==
    \/ \E k \in Clients :
          Start(k) \/ Connect(k) \/ Attach(k) \/ Read(k) \/ Break(k) \/ CloseClient(k)
    \/ \E q \in Queues : ServerStep(q)
    \/ Environment

Spec == Init /\ [][Next]_vars

-----------------------------------------------------------------------------
\* Over all its connections the client never meets the sequence gap it treats
\* as fatal and is sent no event twice; and it withholds an event from the page
\* only if its stream was removed and began again, below a number shown of an
\* earlier life.  So within one life what it is sent after a reconnection
\* continues where it stopped, or it is refused.  A page that goes on with a new
\* life does miss its first events, a terminal one too: nothing rules that out.
ResumedWithinLife ==
    \A k \in Clients :
        /\ skipped[k] \cap shown[k] = {}
        /\ \A f \in skipped[k] : \E e \in shown[k] : e.life < f.life /\ f.n <= e.n
        /\ Reading(k) =>
              LET items == Pending(link[k]) IN
              items # <<>> /\ lastId[k] # 0 => items[1].n <= lastId[k] + 1

-----------------------------------------------------------------------------
\* What makes it inductive.

ClientTypeOK ==
    /\ phase \in [Clients -> {"idle", "opening", "subscribing", "reading", "closed", "failed"}]
    /\ attempt \in [Clients -> 0 .. MaxReconnects]
    /\ lastId \in [Clients -> Nat]
    /\ DOMAIN link = Clients
    /\ shown \in [Clients -> SUBSET Event]
    /\ skipped \in [Clients -> SUBSET Event]

\* A client reads an open subscription to its stream, and no other client does.
Linked(k) == Reading(k) =>
    /\ link[k] \in Queues
    /\ subs[link[k]].state = "open"
    /\ subs[link[k]].stream = StreamOf[k] /\ subs[link[k]].user = UserOf[k]
    /\ \A j \in Clients \ {k} : Reading(j) => link[j] # link[k]

\* What was skipped in a life of the stream came before anything shown of it, and
\* after an earlier life had gone as far.
Seen(k) ==
    /\ lastId[k] # 0 => \E e \in shown[k] : e.n = lastId[k]
    /\ \A f \in skipped[k] : \E e \in shown[k] : e.life < f.life /\ f.n <= e.n
    /\ \A e \in shown[k] \cup skipped[k] : e.n <= lastId[k] /\ e.life <= lives[StreamOf[k]]
    /\ \A e \in shown[k], f \in skipped[k] : e.life = f.life => f.n < e.n

\* Once an event of the present life is shown, lastId is a number of that life.
Fresh(k) ==
    StreamOf[k] \in DOMAIN streams /\ (\E e \in shown[k] : e.life = lives[StreamOf[k]])
        => lastId[k] < streams[StreamOf[k]].next

\* What is queued for a client, or will be, continues what it has seen.
Continues(k) == Reading(k) =>
    LET items == subs[link[k]].items
        s == StreamOf[k]
    IN
    /\ items # <<>> /\ items[1] # StreamEnd =>
          /\ lastId[k] # 0 => items[1].n <= lastId[k] + 1
          /\ \A e \in shown[k] : /\ e.life <= items[1].life
                                 /\ e.life = items[1].life => items[1].n > lastId[k]
    /\ items = <<>> /\ lastId[k] # 0 /\ s \in DOMAIN streams /\ link[k] \in streams[s].subscribers
          => streams[s].next <= lastId[k] + 1

ClientInv(k) == Linked(k) /\ Seen(k) /\ Fresh(k) /\ Continues(k)

EventsIInv == SvcIInv /\ ClientTypeOK /\ \A k \in Clients : ClientInv(k)
=============================================================================
