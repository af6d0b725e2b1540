-------------------------- MODULE RunEventsProofs --------------------------
(* The properties of RunEventService and of its clients for any number of     *)
(* streams, users, subscriptions, publishers and clients, and any limits.      *)
EXTENDS RunEventClient, SequenceTheorems, FiniteSetTheorems, WellFoundedInduction, TLAPS

\* Every set of numbers that is not empty has a least one.
LEMMA NatMin ==
  ASSUME NEW S \in SUBSET Nat, S # {}
  PROVE  \E m \in S : \A k \in S : m <= k
<1>1. IsWellFoundedOn(OpToRel(<,Nat), Nat)
  BY NatLessThanWellFounded
<1>2. \E m \in S : \A k \in S : ~ (<<k, m>> \in OpToRel(<,Nat))
  BY <1>1, WFMin
<1>3. ASSUME NEW m \in S, NEW k \in S, ~ (<<k, m>> \in OpToRel(<,Nat))
      PROVE  m <= k
  BY <1>3 DEF OpToRel
<1> QED BY <1>2, <1>3

\* kept, as far as n, with the function written out.
Keeps(f, s, wanted, n) ==
  f = [i \in 0 .. n |->
         IF i = 0 THEN <<>>
         ELSE IF s[i] \in wanted THEN Append(f[i - 1], s[i]) ELSE f[i - 1]]

\* The recursive function of Selected exists.
LEMMA KeepsExists ==
  ASSUME NEW s, NEW wanted, NEW n \in Nat
  PROVE  \E f : Keeps(f, s, wanted, n)
<1> DEFINE Bad == {k \in Nat : ~ \E f : Keeps(f, s, wanted, k)}
<1> SUFFICES ASSUME Bad # {} PROVE FALSE
  OBVIOUS
<1>1. PICK m \in Bad : \A k \in Bad : m <= k
  BY NatMin
<1>2. m # 0
  <2> DEFINE g == [i \in 0 .. 0 |-> <<>>]
  <2>1. Keeps(g, s, wanted, 0)
    BY DEF Keeps
  <2> QED BY <2>1
<1>3. m - 1 \in Nat /\ m - 1 \notin Bad
  BY <1>1, <1>2
<1>4. PICK f : Keeps(f, s, wanted, m - 1)
  BY <1>3
<1> DEFINE g == [i \in 0 .. m |->
                   IF i < m THEN f[i]
                   ELSE IF s[i] \in wanted THEN Append(f[i - 1], s[i]) ELSE f[i - 1]]
<1>5. \A i \in 0 .. m - 1 : g[i] = f[i]
  BY <1>3
<1>6. Keeps(g, s, wanted, m)
  <2>1. ASSUME NEW i \in 0 .. m
        PROVE  g[i] = IF i = 0 THEN <<>>
                      ELSE IF s[i] \in wanted THEN Append(g[i - 1], s[i]) ELSE g[i - 1]
    <3>1. CASE i < m
      <4>1. i \in 0 .. m - 1 /\ (i # 0 => i - 1 \in 0 .. m - 1)
        BY <1>3, <3>1
      <4>2. f[i] = IF i = 0 THEN <<>>
                      ELSE IF s[i] \in wanted THEN Append(f[i - 1], s[i]) ELSE f[i - 1]
        BY <1>4, <4>1 DEF Keeps
      <4> HIDE DEF g
      <4> QED BY <1>5, <4>1, <4>2
    <3>2. CASE i = m
      <4>1. g[i] = IF s[i] \in wanted THEN Append(f[i - 1], s[i]) ELSE f[i - 1]
        BY <3>2
      <4>2. g[i - 1] = f[i - 1]
        BY <1>5, <1>3, <3>2
      <4> QED BY <4>1, <4>2, <1>2, <3>2
    <3> QED BY <3>1, <3>2, <1>3
  <2> QED BY <2>1 DEF Keeps
<1> QED BY <1>6

\* If the wanted elements are those at a .. b, Selected is that subsequence.
LEMMA SelectedRange ==
  ASSUME NEW T, NEW s \in Seq(T), NEW wanted,
         NEW a \in 1 .. Len(s) + 1, NEW b \in a - 1 .. Len(s),
         \A i \in 1 .. Len(s) : s[i] \in wanted <=> i \in a .. b
  PROVE  Selected(s, wanted) = SubSeq(s, a, b)
<1>l. Len(s) \in Nat
  BY LenProperties
<1>n. Len(s) \in Nat /\ a \in Nat /\ b \in Nat /\ 1 <= a /\ a - 1 <= b /\ b <= Len(s)
  BY <1>l
<1> DEFINE f == CHOOSE g : Keeps(g, s, wanted, Len(s))
<1>1. Keeps(f, s, wanted, Len(s))
  <2>1. \E g : Keeps(g, s, wanted, Len(s))
    BY KeepsExists, <1>n
  <2> QED BY <2>1, Zenon
<1>2. Selected(s, wanted) = f[Len(s)]
  BY DEF Selected, Keeps
<1> HIDE DEF f
<1>e. f[0] = << >>
  BY <1>1, <1>n DEF Keeps
<1>s. \A i \in 1 .. Len(s) :
        f[i] = IF i \in a .. b THEN Append(f[i - 1], s[i]) ELSE f[i - 1]
  <2> SUFFICES ASSUME NEW i \in 1 .. Len(s)
               PROVE  f[i] = IF i \in a .. b THEN Append(f[i - 1], s[i]) ELSE f[i - 1]
    OBVIOUS
  <2>1. i \in 0 .. Len(s) /\ i # 0
    BY <1>n
  <2>2. f[i] = IF s[i] \in wanted THEN Append(f[i - 1], s[i]) ELSE f[i - 1]
    BY <1>1, <2>1 DEF Keeps
  <2> QED BY <2>2
<1> DEFINE Goal(i) == /\ i < a => f[i] = << >>
                      /\ i \in a .. b => f[i] = SubSeq(s, a, i)
                      /\ i > b => f[i] = SubSeq(s, a, b)
           Bad == {i \in 0 .. Len(s) : ~Goal(i)}
<1>z. \A j \in Nat : j < a => SubSeq(s, a, j) = << >>
  BY SubSeqEmpty, <1>n
<1>3. Goal(0)
  BY <1>e
<1>4. ASSUME NEW m \in 1 .. Len(s), Goal(m - 1)
      PROVE  Goal(m)
  <2>0. f[m] = IF m \in a .. b THEN Append(f[m - 1], s[m]) ELSE f[m - 1]
    BY <1>s
  <2>1. m \in a .. b => SubSeq(s, a, m) = SubSeq(s, a, m - 1) \o <<s[m]>>
    BY SubSeqRecursiveSecond
  <2>2. m \in a .. b => SubSeq(s, a, m) = Append(SubSeq(s, a, m - 1), s[m])
    <3>1. m \in a .. b => SubSeq(s, a, m - 1) \in Seq(T) /\ s[m] \in T
      BY SubSeqProperties, ElementOfSeq
    <3> QED BY <2>1, <3>1, AppendIsConcat
  <2>3. m < a => f[m] = << >>
    BY <2>0, <1>4
  <2>4. m \in a .. b => f[m - 1] = SubSeq(s, a, m - 1)
    <3>1. CASE m = a
      <4>1. m - 1 \in Nat /\ m - 1 < a
        BY <3>1, <1>n
      <4> QED BY <1>4, <1>z, <4>1
    <3>2. CASE m > a
      BY <1>4, <3>2, <1>n
    <3> QED BY <3>1, <3>2, <1>n
  <2>5. m > b => f[m - 1] = SubSeq(s, a, b)
    <3>1. CASE b = a - 1 /\ m = a
      <4>1. m - 1 \in Nat /\ m - 1 < a /\ b < a
        BY <3>1, <1>n
      <4> QED BY <1>4, <1>z, <4>1, <1>n
    <3>2. CASE m - 1 > b
      BY <1>4, <3>2, <1>n
    <3>3. CASE m - 1 = b /\ a <= b
      BY <1>4, <3>3, <1>n
    <3>4. CASE m <= b
      BY <3>4, <1>n
    <3> QED BY <3>1, <3>2, <3>3, <3>4, <1>n
  <2>6. m \in a .. b => f[m] = SubSeq(s, a, m)
    BY <2>0, <2>2, <2>4
  <2>7. m > b => f[m] = SubSeq(s, a, b)
    <3>1. m > b => m \notin a .. b
      BY <1>n
    <3> QED BY <2>0, <2>5, <3>1
  <2> QED BY <2>3, <2>6, <2>7
<1> HIDE DEF Goal
<1>5. Bad = {}
  <2> SUFFICES ASSUME Bad # {} PROVE FALSE
    OBVIOUS
  <2>1. Bad \in SUBSET Nat
    BY <1>n
  <2>2. PICK m \in Bad : \A k \in Bad : m <= k
    <3> HIDE DEF Bad
    <3> QED BY <2>1, NatMin
  <2>3. m \in 1 .. Len(s)
    BY <1>3, <1>n
  <2>4. Goal(m - 1)
    BY <2>2, <2>3, <1>n
  <2> QED BY <1>4, <2>3, <2>4
<1>6. Goal(Len(s))
  BY <1>5, <1>n
<1>7. CASE a <= b
  BY <1>2, <1>6, <1>n, <1>7 DEF Goal
<1>8. CASE b = a - 1 /\ a = Len(s) + 1
  <2>1. b < a /\ Len(s) < a
    BY <1>8, <1>n
  <2> QED BY <1>2, <1>6, <1>n, <2>1, <1>z DEF Goal
<1>9. CASE b = a - 1 /\ a <= Len(s)
  BY <1>2, <1>6, <1>n, <1>9 DEF Goal
<1> QED BY <1>7, <1>8, <1>9, <1>n

-----------------------------------------------------------------------------
\* The end marker is told from an event by its number.
LEMMA EndIs == StreamEnd \in Event /\ StreamEnd.n = 0 /\ Event \cup {StreamEnd} = Event
<1>1. (CHOOSE u \in Users : TRUE) \in Users
  BY EventsAssumption
<1>2. StreamEnd \in Event /\ StreamEnd.n = 0
  BY <1>1 DEF StreamEnd, Event
<1> QED BY <1>2

Publications == [state : {"idle", "bound", "done", "failed"}, stream : Streams, user : Users]

\* A free subscription and an idle publisher have their types.
LEMMA BlanksTyped ==
    /\ Free \in Subscription /\ Free.items = <<>> /\ Free.state = "free" /\ Free.sent = 0
    /\ Idle \in Publications
    /\ \A b \in {"done", "failed"} : [Idle EXCEPT !.state = b] \in Publications
<1>1. (CHOOSE u \in Users : TRUE) \in Users /\ (CHOOSE s \in Streams : TRUE) \in Streams
  BY EventsAssumption
<1>2. << >> \in Seq(Event \cup {StreamEnd})
  BY EmptySeq
<1> QED BY <1>1, <1>2 DEF Free, Idle, Subscription, Publications

\* Stream y is stream x, but for its age.
Refreshed(x, y) ==
    /\ y \in StreamState
    /\ y.owner = x.owner /\ y.history = x.history /\ y.subscribers = x.subscribers
    /\ y.next = x.next /\ y.ended = x.ended /\ y.life = x.life

\* What a step keeps for the readers of stream s: its numbers go on in the same
\* life, or it has another life.
LivesOn(s) ==
    /\ lives'[s] >= lives[s]
    /\ s \in DOMAIN streams' =>
          \/ s \in DOMAIN streams /\ lives'[s] = lives[s] /\ streams'[s].next >= streams[s].next
          \/ lives'[s] > lives[s]

Registered(q) == subs[q].stream \in DOMAIN streams /\ q \in streams[subs[q].stream].subscribers

\* What a step does to a subscription it is not about: at most, it queues more.
FollowsOn(q) ==
    LET s == subs[q].stream
        old == subs[q].items
        new == subs'[q].items
    IN
    /\ subs'[q].state = subs[q].state /\ subs'[q].stream = s /\ subs'[q].user = subs[q].user
    /\ \/ /\ new = old
          /\ Registered(q)' /\ old = <<>> => Registered(q) /\ streams'[s].next = streams[s].next
       \/ old # <<>> /\ new # <<>> /\ new[1] = old[1]
       \/ /\ old = <<>> /\ new # <<>>
          /\ new[1] # StreamEnd =>
                Registered(q) /\ new[1].n = streams[s].next /\ new[1].life = lives[s]

\* The effect of a service operation about the subscriptions in acted.
SvcEffect(acted) ==
    /\ SvcIInv'
    /\ \A s \in Streams : LivesOn(s)
    /\ \A q \in Queues \ acted : FollowsOn(q)

\* A step that only removes streams, or registrations, and makes no others.
LEMMA Fewer ==
    ASSUME IsFiniteSet(DOMAIN streams), DOMAIN streams' \subseteq DOMAIN streams,
           Cardinality(DOMAIN streams) <= StreamLimit
    PROVE  IsFiniteSet(DOMAIN streams') /\ Cardinality(DOMAIN streams') <= StreamLimit
<1>1. IsFiniteSet(DOMAIN streams') /\ Cardinality(DOMAIN streams') <= Cardinality(DOMAIN streams)
  BY FS_Subset
<1>2. Cardinality(DOMAIN streams') \in Nat /\ Cardinality(DOMAIN streams) \in Nat
  BY <1>1, FS_CardinalityType
<1> QED BY <1>1, <1>2, EventsAssumption

LEMMA QuietKeeps ==
    ASSUME SvcIInv, UNCHANGED <<lives, subs>>,
           DOMAIN streams' \subseteq DOMAIN streams,
           \A s \in DOMAIN streams' : Refreshed(streams[s], streams'[s]),
           pub' \in [Publishers -> Publications]
    PROVE  SvcEffect({})
<1> USE DEF SvcIInv
<1>1. SvcTypeOK'
  <2>1. \A s \in DOMAIN streams' : /\ streams'[s] \in StreamState
                                   /\ Len(streams'[s].history) <= HistoryLimit
    BY DEF SvcTypeOK, Refreshed
  <2> QED BY <2>1, Fewer DEF SvcTypeOK, Publications
<1>2. IsFiniteSet(DOMAIN streams)'
  BY Fewer DEF SvcTypeOK
<1>3. ASSUME NEW s \in DOMAIN streams'
      PROVE  HistoryKept(s)' /\ \A q \in streams'[s].subscribers : Attached(s, q)'
  BY <1>3 DEF Refreshed, HistoryKept, Attached
<1>4. ASSUME NEW q \in Queues
      PROVE  QueueKept(q)' /\ QueueBehind(q)'
  BY <1>4 DEF Refreshed, QueueKept, QueueBehind
<1>5. ASSUME NEW s \in Streams PROVE LivesOn(s)
  BY <1>5 DEF Refreshed, LivesOn, SvcTypeOK, StreamState
<1>6. ASSUME NEW q \in Queues PROVE FollowsOn(q)
  BY <1>6 DEF Refreshed, FollowsOn, Registered
<1> QED BY <1>1, <1>2, <1>3, <1>4, <1>5, <1>6 DEF SvcEffect

\* _cleanup_locked removes streams and changes none.
LEMMA CleanedIs ==
    ASSUME NEW all
    PROVE  /\ DOMAIN Cleaned(all) \subseteq DOMAIN all
           /\ \A s \in DOMAIN Cleaned(all) : Cleaned(all)[s] = all[s]
           /\ \A s \in DOMAIN all : all[s].subscribers # {} => s \in DOMAIN Cleaned(all)
BY DEF Cleaned

LEMMA TouchedIs ==
    ASSUME NEW x \in StreamState
    PROVE  Refreshed(x, Touched(x)) /\ Refreshed(x, x) /\ Refreshed(x, [x EXCEPT !.aged = TRUE])
BY DEF Refreshed, Touched, StreamState

\* Time, refused requests, binding a publisher and its errors.
LEMMA QuietSteps ==
    ASSUME SvcIInv,
           \/ \E s \in Streams : TimePasses(s)
           \/ \E s \in Streams, u \in Users : Denied(s, u)
           \/ \E s \in Streams : CapacityReached(s) \/ NotFound(s)
           \/ \E s \in Streams, u \in Users, last \in Nat : ReplayUnavailable(s, u, last)
           \/ \E p \in Publishers, s \in Streams, u \in Users : BindPublisher(p, s, u)
           \/ \E p \in Publishers : PublishRaises(p)
           \/ UNCHANGED svcVars
    PROVE  SvcEffect({})
<1> DEFINE Types == \A s \in DOMAIN streams : streams[s] \in StreamState
<1>t. Types /\ pub \in [Publishers -> Publications]
  BY DEF SvcIInv, SvcTypeOK, Publications
<1>r. \A s \in DOMAIN streams : Refreshed(streams[s], streams[s])
  BY <1>t, TouchedIs
<1>c. streams' = Cleaned(streams) =>
        /\ DOMAIN streams' \subseteq DOMAIN streams
        /\ \A s \in DOMAIN streams' : Refreshed(streams[s], streams'[s])
  BY <1>r, CleanedIs
<1>1. CASE \E s \in Streams : TimePasses(s)
  <2>1. PICK s \in Streams : TimePasses(s)
    BY <1>1
  <2>2. \A t \in DOMAIN streams' : Refreshed(streams[t], streams'[t])
    BY <2>1, <1>t, <1>r, TouchedIs DEF TimePasses
  <2> QED BY <2>1, <2>2, <1>t, QuietKeeps DEF TimePasses
<1>2. CASE \/ \E s \in Streams, u \in Users : Denied(s, u)
           \/ \E s \in Streams : CapacityReached(s) \/ NotFound(s)
           \/ \E s \in Streams, u \in Users, last \in Nat : ReplayUnavailable(s, u, last)
  <2>1. streams' = Cleaned(streams) /\ UNCHANGED <<lives, subs, pub>>
    BY <1>2 DEF Denied, CapacityReached, NotFound, ReplayUnavailable
  <2> QED BY <2>1, <1>c, <1>t, QuietKeeps
<1>3. CASE \E p \in Publishers, s \in Streams, u \in Users : BindPublisher(p, s, u)
  <2>1. PICK p \in Publishers, s \in Streams, u \in Users : BindPublisher(p, s, u)
    BY <1>3
  <2>2. pub' \in [Publishers -> Publications]
    BY <2>1, <1>t DEF BindPublisher, Publications
  <2> QED BY <2>1, <2>2, <1>c, QuietKeeps DEF BindPublisher
<1>4. CASE \E p \in Publishers : PublishRaises(p)
  <2>1. PICK p \in Publishers : PublishRaises(p)
    BY <1>4
  <2>2. pub' \in [Publishers -> Publications]
    BY <2>1, <1>t, BlanksTyped DEF PublishRaises
  <2> QED BY <2>1, <2>2, <1>r, QuietKeeps DEF PublishRaises
<1>5. CASE UNCHANGED svcVars
  BY <1>5, <1>r, <1>t, QuietKeeps DEF svcVars
<1> QED BY <1>1, <1>2, <1>3, <1>4, <1>5

\* A stream is refreshed, or a new life of it begins.
LEMMA OpenStreamKeeps ==
    ASSUME SvcIInv, NEW s \in Streams, NEW u \in Users, OpenStream(s, u)
    PROVE  SvcEffect({})
<1> DEFINE all == Cleaned(streams)
<1>t. /\ \A t \in DOMAIN streams : streams[t] \in StreamState
      /\ pub \in [Publishers -> Publications] /\ lives \in [Streams -> Nat]
  BY DEF SvcIInv, SvcTypeOK, Publications
<1>c. /\ DOMAIN all \subseteq DOMAIN streams
      /\ \A t \in DOMAIN all : all[t] = streams[t]
      /\ \A t \in DOMAIN streams : streams[t].subscribers # {} => t \in DOMAIN all
  BY CleanedIs
<1>u. UNCHANGED <<subs, pub>>
  BY DEF OpenStream
<1> HIDE DEF all
<1>1. CASE /\ s \in DOMAIN all
           /\ streams' = [all EXCEPT ![s] = Touched(@)]
           /\ UNCHANGED lives
  <2>1. DOMAIN streams' \subseteq DOMAIN streams
    BY <1>1, <1>c
  <2>2. \A t \in DOMAIN streams' : Refreshed(streams[t], streams'[t])
    BY <1>1, <1>c, <1>t, TouchedIs
  <2> QED BY <2>1, <2>2, <1>1, <1>t, <1>u, QuietKeeps
<1>2. CASE /\ s \notin DOMAIN all
           /\ Cardinality(DOMAIN all) < StreamLimit
           /\ lives' = [lives EXCEPT ![s] = @ + 1]
           /\ streams' = [t \in DOMAIN all \cup {s} |->
                IF t # s THEN all[t]
                ELSE [owner |-> u, history |-> <<>>, subscribers |-> {}, next |-> 1,
                      ended |-> FALSE, aged |-> FALSE, life |-> lives[s] + 1]]
  <2> DEFINE x == [owner |-> u, history |-> <<>>, subscribers |-> {}, next |-> 1,
                   ended |-> FALSE, aged |-> FALSE, life |-> lives[s] + 1]
  <2>1. /\ DOMAIN streams' = DOMAIN all \cup {s} /\ streams'[s] = x
        /\ \A t \in DOMAIN streams' : t # s => t \in DOMAIN all /\ streams'[t] = streams[t]
    BY <1>2, <1>c
  <2>2. /\ lives' \in [Streams -> Nat] /\ lives'[s] = lives[s] + 1
        /\ \A t \in Streams : t # s => lives'[t] = lives[t]
    BY <1>2, <1>t
  <2>3. x \in StreamState
    <3>1. << >> \in Seq(Event)
      BY EmptySeq
    <3> QED BY <1>t, <3>1 DEF StreamState
  <2>4. IsFiniteSet(DOMAIN streams') /\ Cardinality(DOMAIN streams') <= StreamLimit
    <3>1. IsFiniteSet(DOMAIN all) /\ Cardinality(DOMAIN all) \in Nat
      BY <1>c, FS_Subset, FS_CardinalityType DEF SvcIInv
    <3>2. /\ IsFiniteSet(DOMAIN all \cup {s})
          /\ Cardinality(DOMAIN all \cup {s}) = Cardinality(DOMAIN all) + 1
      BY <3>1, <1>2, FS_AddElement
    <3> QED BY <2>1, <3>1, <3>2, <1>2, EventsAssumption
  <2>n. \A q \in Queues, t \in DOMAIN streams : q \in streams[t].subscribers => subs[q].stream = t
    BY DEF SvcIInv, Attached
  <2>m. \A q \in Queues : subs[q].stream = s => ~Registered(q)
    BY <1>2, <1>c DEF Registered
  <2>5. SvcTypeOK'
    <3>1. DOMAIN streams' \subseteq Streams
      BY <2>1, <1>c DEF SvcIInv, SvcTypeOK
    <3>2. ASSUME NEW t \in DOMAIN streams'
          PROVE  streams'[t] \in StreamState /\ Len(streams'[t].history) <= HistoryLimit
      <4>1. CASE t = s
        BY <4>1, <2>1, <2>3, EventsAssumption
      <4>2. CASE t # s
        BY <4>2, <2>1, <1>c DEF SvcIInv, SvcTypeOK
      <4> QED BY <4>1, <4>2
    <3> QED BY <3>1, <3>2, <2>2, <2>4, <1>u DEF SvcIInv, SvcTypeOK
  <2>6. ASSUME NEW t \in DOMAIN streams'
        PROVE  HistoryKept(t)' /\ \A q \in streams'[t].subscribers : Attached(t, q)'
    <3>1. CASE t = s
      BY <3>1, <2>1, <2>2 DEF HistoryKept
    <3>2. CASE t # s
      <4>1. t \in DOMAIN streams /\ streams'[t] = streams[t] /\ lives'[t] = lives[t]
        BY <3>2, <2>1, <2>2, <1>c DEF SvcIInv, SvcTypeOK
      <4> QED BY <4>1, <1>u DEF HistoryKept, Attached, SvcIInv
    <3> QED BY <3>1, <3>2
  <2>7. ASSUME NEW q \in Queues PROVE QueueKept(q)' /\ QueueBehind(q)'
    <3>1. /\ subs[q].items \in Seq(Event) /\ subs[q].stream \in Streams
          /\ QueueKept(q) /\ QueueBehind(q)
      BY EndIs DEF SvcIInv, SvcTypeOK, Subscription
    <3>2. \A i \in 1 .. Len(subs[q].items) : subs[q].items[i] \in Event
      BY <3>1, ElementOfSeq
    <3>3. QueueKept(q)'
      <4>1. lives[subs[q].stream] \in Nat /\ lives'[subs[q].stream] \in Nat
            /\ lives'[subs[q].stream] >= lives[subs[q].stream]
        BY <3>1, <2>2, <1>t, SMTT(60)
      <4>2. \A i \in 1 .. Len(subs[q].items) :
               /\ subs[q].items[i].life \in Nat
               /\ subs[q].items[i].life <= lives[subs[q].stream]
                      => subs[q].items[i].life <= lives'[subs[q].stream]
        BY <4>1, <3>2 DEF Event
      <4> QED BY <3>1, <4>2, <1>u DEF QueueKept
    <3>4. QueueBehind(q)'
      <4>1. CASE subs[q].stream = s
        BY <4>1, <3>1, <3>2, <2>2, <1>t, <1>u, SMTT(60) DEF QueueKept, QueueBehind, Event
      <4>2. CASE subs[q].stream # s
        BY <4>2, <3>1, <2>1, <2>2, <1>c, <1>u DEF QueueBehind
      <4> QED BY <4>1, <4>2
    <3> QED BY <3>3, <3>4
  <2>8. ASSUME NEW t \in Streams PROVE LivesOn(t)
    <3>1. CASE t = s
      BY <3>1, <2>2, <1>t DEF LivesOn
    <3>2. CASE t # s
      BY <3>2, <2>1, <2>2, <1>t, <1>c DEF LivesOn, StreamState
    <3> QED BY <3>1, <3>2
  <2>9. ASSUME NEW q \in Queues PROVE FollowsOn(q)
    <3>1. CASE subs[q].stream = s
      BY <3>1, <2>1, <1>u DEF FollowsOn, Registered
    <3>2. CASE subs[q].stream # s
      BY <3>2, <2>1, <1>c, <1>u DEF FollowsOn, Registered
    <3> QED BY <3>1, <3>2
  <2> QED BY <2>4, <2>5, <2>6, <2>7, <2>8, <2>9 DEF SvcEffect, SvcIInv
<1> QED BY <1>1, <1>2 DEF OpenStream, all

\* Taking an item off the queue.
LEMMA YieldKeeps ==
    ASSUME SvcIInv, NEW r \in Queues, Yield(r)
    PROVE  SvcEffect({r})
<1> DEFINE items == subs[r].items
           item == Head(items)
<1>t. subs \in [Queues -> Subscription] /\ subs[r] \in Subscription
  BY DEF SvcIInv, SvcTypeOK
<1>u. UNCHANGED <<streams, lives, pub>> /\ subs[r].state = "open" /\ items # << >>
  BY DEF Yield
<1>i. items \in Seq(Event)
  BY <1>t, EndIs DEF Subscription
<1>h. PICK n \in Nat : n = Len(items)
  BY <1>i, LenProperties
<1>a. /\ n > 0 /\ item = items[1] /\ item \in Event
      /\ Tail(items) \in Seq(Event) /\ Len(Tail(items)) = n - 1
      /\ \A i \in 1 .. n - 1 : Tail(items)[i] = items[i + 1]
      /\ \A i \in 1 .. n : items[i] \in Event
      /\ n = 1 => Tail(items) = << >>
  <2>1. n > 0
    BY <1>i, <1>h, <1>u, EmptySeq
  <2>2. item = items[1] /\ item \in Event
    BY <1>i, <1>u, HeadTailProperties
  <2>3. Tail(items) \in Seq(Event) /\ Len(Tail(items)) = n - 1 /\ \A i \in 1 .. n - 1 : Tail(items)[i] = items[i + 1]
    BY <1>i, <1>u, <1>h, HeadTailProperties
  <2>4. \A i \in 1 .. n : items[i] \in Event
    BY <1>i, <1>h, ElementOfSeq
  <2> QED BY <2>1, <2>2, <2>3, <2>4, EmptySeq
<1>b. PICK tail : tail = Tail(items)
  OBVIOUS
<1>y. PICK y : y = subs'[r]
  OBVIOUS
<1>e. /\ subs' = [subs EXCEPT ![r] = y]
      /\ y \in Subscription
      /\ y.items = tail /\ y.stream = subs[r].stream /\ y.user = subs[r].user
      /\ y.sent = IF item = StreamEnd THEN subs[r].sent ELSE item.n
      /\ y.state # "free"
  BY <1>t, <1>a, <1>b, <1>y, EndIs DEF Yield, Subscription, Event
<1>q. \A q \in Queues : q # r => subs'[q] = subs[q]
  BY <1>e, <1>t
<1>k. QueueKept(r) /\ QueueBehind(r)
  BY DEF SvcIInv
<1>1. SvcTypeOK'
  <2>1. subs' \in [Queues -> Subscription]
    BY <1>e, <1>t
  <2> QED BY <2>1, <1>u DEF SvcIInv, SvcTypeOK
<1>2. QueueKept(r)'
  <2>1. /\ n <= QueueSize
        /\ \A i \in 1 .. n : items[i] # StreamEnd =>
              /\ items[i].n > 0 /\ items[i].user = subs[r].user
              /\ items[i].life <= lives[subs[r].stream]
        /\ \A i \in 1 .. n - 1 :
              /\ items[i] # StreamEnd
              /\ items[i + 1] # StreamEnd => /\ items[i + 1].n = items[i].n + 1
                                             /\ items[i + 1].life = items[i].life
    BY <1>k, <1>h DEF QueueKept
  <2>2. Len(tail) = n - 1 /\ \A i \in 1 .. n - 1 : tail[i] = items[i + 1]
    BY <1>a, <1>b
  <2>3. n - 1 <= QueueSize
    BY <2>1, EventsAssumption DEF QueueSize
  <2>4. \A i \in 1 .. n - 1 : tail[i] # StreamEnd =>
              /\ tail[i].n > 0 /\ tail[i].user = subs[r].user
              /\ tail[i].life <= lives[subs[r].stream]
    <3>1. \A i \in 1 .. n - 1 : i + 1 \in 1 .. n
      OBVIOUS
    <3> QED BY <3>1, <2>1, <2>2
  <2>5. \A i \in 1 .. n - 1 - 1 :
              /\ tail[i] # StreamEnd
              /\ tail[i + 1] # StreamEnd => /\ tail[i + 1].n = tail[i].n + 1
                                            /\ tail[i + 1].life = tail[i].life
    <3>1. \A i \in 1 .. n - 1 - 1 : i \in 1 .. n - 1 /\ i + 1 \in 1 .. n - 1
      OBVIOUS
    <3> QED BY <3>1, <2>1, <2>2
  <2>6. y.sent # 0 /\ tail # << >> /\ tail[1] # StreamEnd => tail[1].n = y.sent + 1
    <3>1. tail # << >> => 1 \in 1 .. n - 1
      BY <1>a, <1>b
    <3>2. tail # << >> => items[1] # StreamEnd /\ tail[1] = items[1 + 1]
      BY <3>1, <2>1, <2>2
    <3> QED BY <3>1, <3>2, <2>1, <1>a, <1>e
  <2>7. /\ subs'[r].items = tail /\ subs'[r].user = subs[r].user
        /\ subs'[r].stream = subs[r].stream /\ subs'[r].sent = y.sent
        /\ lives' = lives
    BY <1>e, <1>y, <1>u
  <2>8. \A i \in 1 .. n - 1 : tail[i] # StreamEnd =>
              /\ tail[i].n > 0 /\ tail[i].user = subs'[r].user
              /\ tail[i].life <= lives'[subs'[r].stream]
    BY <2>4, <2>7
  <2> QED BY ZenonT(60), <2>2, <2>3, <2>5, <2>6, <2>7, <2>8 DEF QueueKept
<1>3. QueueBehind(r)'
  <2>1. \A i \in 1 .. n - 1 : i + 1 \in 1 .. n
    OBVIOUS
  <2>2. Len(tail) = n - 1 /\ \A i \in 1 .. n - 1 : tail[i] = items[i + 1]
    BY <1>a, <1>b
  <2>3. subs[r].stream \in DOMAIN streams => \A i \in 1 .. n :
           items[i] # StreamEnd /\ items[i].life = lives[subs[r].stream]
               => items[i].n < streams[subs[r].stream].next
    BY <1>k, <1>h DEF QueueBehind
  <2>4. subs[r].stream \in DOMAIN streams => \A i \in 1 .. n - 1 :
           tail[i] # StreamEnd /\ tail[i].life = lives[subs[r].stream]
               => tail[i].n < streams[subs[r].stream].next
    BY <2>1, <2>2, <2>3
  <2>5. /\ subs'[r].items = tail /\ subs'[r].stream = subs[r].stream
        /\ lives' = lives /\ streams' = streams
    BY <1>e, <1>y, <1>u
  <2> QED BY <2>2, <2>4, <2>5 DEF QueueBehind
<1>4. ASSUME NEW s \in DOMAIN streams', NEW q \in streams'[s].subscribers
      PROVE  Attached(s, q)'
  <2>1. s \in DOMAIN streams /\ q \in streams[s].subscribers /\ Attached(s, q)
    BY <1>u DEF SvcIInv
  <2>2. CASE q = r
    <3>1. /\ ~streams[s].ended /\ subs[r].stream = s /\ subs[r].user = streams[s].owner
          /\ items[n] # StreamEnd /\ items[n].n = streams[s].next - 1 /\ items[n].life = lives[s]
      BY <2>1, <2>2, <1>h, <1>u DEF Attached
    <3>2. tail # << >> => tail[n - 1] = items[n] /\ Len(tail) = n - 1
      <4>1. tail # << >> => n - 1 \in 1 .. n - 1
        BY <1>a, <1>b
      <4> QED BY <4>1, <1>a, <1>b, SMTT(60)
    <3>3. tail = << >> => n = 1
      <4>1. tail = << >> => Len(tail) = 0
        BY EmptySeq
      <4> QED BY <4>1, <1>a, <1>b
    <3>4. tail = << >> => y.sent = streams[s].next - 1
      BY <3>1, <3>3, <1>a, <1>e
    <3> QED BY <3>1, <3>2, <3>4, <2>2, <1>e, <1>y, <1>u DEF Attached
  <2>3. CASE q # r
    <3>1. q \in Queues
      BY <2>1 DEF SvcIInv, SvcTypeOK, StreamState
    <3> QED BY <2>1, <2>3, <3>1, <1>q, <1>u DEF Attached
  <2> QED BY <2>2, <2>3
<1>5. ASSUME NEW s \in DOMAIN streams' PROVE HistoryKept(s)'
  BY <1>u DEF SvcIInv, HistoryKept
<1>6. ASSUME NEW q \in Queues \ {r} PROVE QueueKept(q)' /\ QueueBehind(q)' /\ FollowsOn(q)
  <2>1. subs'[q] = subs[q] /\ streams' = streams /\ lives' = lives
    BY <1>q, <1>u
  <2>2. QueueKept(q) /\ QueueBehind(q)
    BY DEF SvcIInv
  <2>3. QueueKept(q)'
    BY <2>1, <2>2 DEF QueueKept
  <2>4. QueueBehind(q)'
    BY <2>1, <2>2 DEF QueueBehind
  <2>5. FollowsOn(q)
    BY <2>1 DEF FollowsOn, Registered
  <2> QED BY <2>3, <2>4, <2>5
<1>7. ASSUME NEW s \in Streams PROVE LivesOn(s)
  BY <1>u DEF LivesOn, SvcIInv, SvcTypeOK, StreamState
<1>8. IsFiniteSet(DOMAIN streams)'
  BY <1>u DEF SvcIInv
<1> QED BY <1>1, <1>2, <1>3, <1>4, <1>5, <1>6, <1>7, <1>8 DEF SvcEffect, SvcIInv

\* What a step keeps that replaces one subscription, and registers no other.
LEMMA OneSubscription ==
    ASSUME SvcIInv, NEW r \in Queues, NEW y \in Subscription,
           subs' = [subs EXCEPT ![r] = y], UNCHANGED <<lives, pub>>,
           DOMAIN streams' \subseteq DOMAIN streams,
           \A s \in DOMAIN streams' :
              /\ Refreshed(streams[s], [streams'[s] EXCEPT !.subscribers = streams[s].subscribers])
              /\ streams'[s] \in StreamState
              /\ streams'[s].subscribers \subseteq streams[s].subscribers \cup {r},
           QueueKept(r)', QueueBehind(r)',
           \A s \in DOMAIN streams' : r \in streams'[s].subscribers => Attached(s, r)'
    PROVE  SvcEffect({r})
<1>t. /\ subs \in [Queues -> Subscription] /\ subs'[r] = y
      /\ \A q \in Queues \ {r} : subs'[q] = subs[q]
      /\ subs' \in [Queues -> Subscription]
  BY DEF SvcIInv, SvcTypeOK
<1>s. \A s \in DOMAIN streams' :
         /\ streams'[s] \in StreamState /\ s \in DOMAIN streams
         /\ streams'[s].owner = streams[s].owner /\ streams'[s].history = streams[s].history
         /\ streams'[s].next = streams[s].next /\ streams'[s].ended = streams[s].ended
         /\ streams'[s].life = streams[s].life
         /\ streams'[s].subscribers \subseteq streams[s].subscribers \cup {r}
  BY DEF Refreshed, StreamState
<1>1. SvcTypeOK'
  <2>1. \A s \in DOMAIN streams' : /\ streams'[s] \in StreamState
                                   /\ Len(streams'[s].history) <= HistoryLimit
    BY <1>s DEF SvcIInv, SvcTypeOK
  <2> QED BY <2>1, <1>t, Fewer DEF SvcIInv, SvcTypeOK
<1>2. IsFiniteSet(DOMAIN streams)'
  BY Fewer DEF SvcIInv, SvcTypeOK
<1>3. ASSUME NEW s \in DOMAIN streams', NEW q \in streams'[s].subscribers
      PROVE  Attached(s, q)'
  <2>1. CASE q = r
    BY <2>1
  <2>2. CASE q # r
    <3>1. q \in Queues /\ q \in streams[s].subscribers /\ subs'[q] = subs[q] /\ Attached(s, q)
      BY <1>s, <1>t, <2>2 DEF StreamState, SvcIInv
    <3>2. streams'[s].owner = streams[s].owner /\ streams'[s].next = streams[s].next
          /\ streams'[s].ended = streams[s].ended /\ lives' = lives
      BY <1>s
    <3> QED BY <3>1, <3>2 DEF Attached
  <2> QED BY <2>1, <2>2
<1>4. ASSUME NEW s \in DOMAIN streams' PROVE HistoryKept(s)'
  <2>1. HistoryKept(s)
    BY <1>s DEF SvcIInv
  <2> QED BY <1>s, <2>1 DEF HistoryKept
<1>5. ASSUME NEW q \in Queues \ {r} PROVE QueueKept(q)' /\ QueueBehind(q)'
  <2>1. QueueKept(q) /\ QueueBehind(q) /\ subs'[q] = subs[q] /\ lives' = lives
    BY <1>t DEF SvcIInv
  <2>2. QueueKept(q)'
    BY <2>1 DEF QueueKept
  <2>3. QueueBehind(q)'
    BY <2>1, <1>s DEF QueueBehind
  <2> QED BY <2>2, <2>3
<1>6. ASSUME NEW q \in Queues \ {r} PROVE FollowsOn(q)
  <2>1. subs'[q] = subs[q]
    BY <1>t
  <2>2. Registered(q)' => Registered(q) /\ streams'[subs[q].stream].next = streams[subs[q].stream].next
    BY <2>1, <1>s DEF Registered
  <2> QED BY <2>1, <2>2 DEF FollowsOn
<1>7. ASSUME NEW s \in Streams PROVE LivesOn(s)
  BY <1>s DEF LivesOn, SvcIInv, SvcTypeOK, StreamState
<1>8. ASSUME NEW q \in Queues PROVE QueueKept(q)' /\ QueueBehind(q)'
  BY <1>5
<1> QED BY <1>1, <1>2, <1>3, <1>4, <1>6, <1>7, <1>8 DEF SvcEffect, SvcIInv

LEMMA DisconnectedKeeps ==
    ASSUME SvcIInv, NEW r \in Queues, Disconnected(r)
    PROVE  SvcEffect({r}) /\ subs'[r].state = "closing"
<1>y. PICK y : y = [subs[r] EXCEPT !.state = "closing"]
  OBVIOUS
<1>t. subs \in [Queues -> Subscription] /\ \A s \in DOMAIN streams : streams[s] \in StreamState
  BY DEF SvcIInv, SvcTypeOK
<1>1. /\ y \in Subscription /\ subs' = [subs EXCEPT ![r] = y] /\ subs'[r] = y
      /\ y.items = subs[r].items /\ y.stream = subs[r].stream /\ y.user = subs[r].user
      /\ y.sent = subs[r].sent /\ y.state = "closing"
      /\ UNCHANGED <<streams, lives, pub>>
  BY <1>y, <1>t DEF Disconnected, Subscription
<1>2. QueueKept(r) /\ QueueBehind(r)
  BY DEF SvcIInv
<1>3. QueueKept(r)'
  BY <1>1, <1>2 DEF QueueKept
<1>4. QueueBehind(r)'
  BY <1>1, <1>2 DEF QueueBehind
<1>5. \A s \in DOMAIN streams' : r \in streams'[s].subscribers => Attached(s, r)'
  BY <1>1 DEF Attached, SvcIInv
<1>6. \A s \in DOMAIN streams' :
         Refreshed(streams[s], [streams'[s] EXCEPT !.subscribers = streams[s].subscribers])
  BY <1>1, <1>t DEF Refreshed, StreamState
<1>7. /\ DOMAIN streams' \subseteq DOMAIN streams
      /\ \A s \in DOMAIN streams' : /\ streams'[s] \in StreamState
                                    /\ streams'[s].subscribers \subseteq streams[s].subscribers \cup {r}
  BY <1>1, <1>t
<1>8. UNCHANGED <<lives, pub>> /\ subs' = [subs EXCEPT ![r] = y] /\ y \in Subscription
  BY <1>1
<1>9. SvcEffect({r})
  BY <1>3, <1>4, <1>5, <1>6, <1>7, <1>8, OneSubscription
<1> QED BY <1>1, <1>9

LEMMA RemoveKeeps ==
    ASSUME SvcIInv, NEW r \in Queues, RemoveSubscription(r)
    PROVE  SvcEffect({r}) /\ subs[r].state = "closing"
<1>s. PICK s : s = subs[r].stream
  OBVIOUS
<1>t. /\ subs \in [Queues -> Subscription]
      /\ \A t \in DOMAIN streams : streams[t] \in StreamState
      /\ \A t \in DOMAIN streams : r \in streams[t].subscribers => t = s
  BY <1>s DEF SvcIInv, SvcTypeOK, Attached
<1>1. /\ subs' = [subs EXCEPT ![r] = Free] /\ UNCHANGED <<lives, pub>>
      /\ subs'[r] = Free /\ Free \in Subscription
  BY <1>t, BlanksTyped DEF RemoveSubscription
<1> DEFINE x == [streams[s] EXCEPT !.subscribers = streams[s].subscribers \ {r}]
           all == [streams EXCEPT ![s] = Touched(x)]
<1>x. s \in DOMAIN streams => x \in StreamState /\ Refreshed(x, Touched(x))
  BY <1>t, TouchedIs DEF StreamState
<1>2. /\ DOMAIN streams' \subseteq DOMAIN streams
      /\ \A t \in DOMAIN streams' : streams'[t] = IF t = s THEN Touched(x) ELSE streams[t]
  <2>1. CASE s \in DOMAIN streams
    <3>1. streams' = Cleaned(all)
      BY <2>1, <1>s DEF RemoveSubscription
    <3>2. DOMAIN all = DOMAIN streams /\ \A t \in DOMAIN all : all[t] = IF t = s THEN Touched(x) ELSE streams[t]
      OBVIOUS
    <3> HIDE DEF all, x
    <3> QED BY <3>1, <3>2, CleanedIs
  <2>2. CASE s \notin DOMAIN streams
    BY <2>2, <1>s DEF RemoveSubscription
  <2> QED BY <2>1, <2>2
<1>3. ASSUME NEW t \in DOMAIN streams'
      PROVE  /\ Refreshed(streams[t], [streams'[t] EXCEPT !.subscribers = streams[t].subscribers])
             /\ streams'[t] \in StreamState
             /\ streams'[t].subscribers \subseteq streams[t].subscribers \cup {r}
             /\ r \notin streams'[t].subscribers
  <2>1. CASE t = s
    <3>1. streams[s] \in StreamState /\ streams'[t] = Touched(x) /\ s \in DOMAIN streams
      BY <1>2, <2>1, <1>t
    <3> QED BY <3>1, <1>x, <2>1 DEF Refreshed, StreamState
  <2>2. CASE t # s
    <3>1. streams[t] \in StreamState /\ streams'[t] = streams[t] /\ r \notin streams[t].subscribers
      BY <1>2, <2>2, <1>t
    <3> QED BY <3>1 DEF Refreshed, StreamState
  <2> QED BY <2>1, <2>2
<1>4. QueueKept(r)' /\ QueueBehind(r)'
  <2>1. Len(<< >>) = 0 /\ QueueSize \in Nat
    BY EmptySeq, EventsAssumption DEF QueueSize
  <2>2. subs'[r].items = << >> /\ subs'[r].sent = 0
    BY <1>1, BlanksTyped
  <2> QED BY <2>1, <2>2 DEF QueueKept, QueueBehind
<1>5. \A t \in DOMAIN streams' : r \in streams'[t].subscribers => Attached(t, r)'
  BY <1>3
<1>6. SvcEffect({r})
  BY <1>1, <1>2, <1>3, <1>4, <1>5, OneSubscription
<1> QED BY <1>6 DEF RemoveSubscription

-----------------------------------------------------------------------------
\* QueueKept, of a queue with these items, this user, this latest life and this
\* last number yielded.
Chained(items, user, top, sent) ==
    /\ Len(items) <= QueueSize
    /\ \A i \in 1 .. Len(items) : items[i] # StreamEnd =>
          items[i].n > 0 /\ items[i].user = user /\ items[i].life <= top
    /\ \A i \in 1 .. Len(items) - 1 :
          /\ items[i] # StreamEnd
          /\ items[i + 1] # StreamEnd => /\ items[i + 1].n = items[i].n + 1
                                         /\ items[i + 1].life = items[i].life
    /\ sent # 0 /\ items # <<>> /\ items[1] # StreamEnd => items[1].n = sent + 1

LEMMA ChainedQueue ==
    ASSUME NEW q \in Queues
    PROVE  /\ QueueKept(q) <=> Chained(subs[q].items, subs[q].user, lives[subs[q].stream], subs[q].sent)
           /\ QueueKept(q)' <=>
                 Chained(subs'[q].items, subs'[q].user, lives'[subs'[q].stream], subs'[q].sent)
BY DEF QueueKept, Chained

\* One more item at the end.
LEMMA ChainedAppend ==
    ASSUME NEW items \in Seq(Event), NEW user, NEW top \in Nat, NEW sent \in Nat, NEW e \in Event,
           Chained(items, user, top, sent), Len(items) < QueueSize,
           items # <<>> => items[Len(items)] # StreamEnd,
           e # StreamEnd =>
              /\ e.n > 0 /\ e.user = user /\ e.life <= top
              /\ items # <<>> => /\ e.n = items[Len(items)].n + 1
                                 /\ e.life = items[Len(items)].life
              /\ items = <<>> /\ sent # 0 => e.n = sent + 1
    PROVE  Chained(Append(items, e), user, top, sent)
<1>n. PICK n \in Nat : n = Len(items)
  BY LenProperties
<1>a. PICK a : a = Append(items, e)
  OBVIOUS
<1>1. /\ Len(a) = n + 1 /\ a[n + 1] = e /\ a # <<>>
      /\ \A i \in 1 .. n : a[i] = items[i]
  BY <1>n, <1>a, AppendProperties
<1>2. items = << >> <=> n = 0
  BY <1>n, EmptySeq
<1>3. QueueSize \in Nat /\ Len(a) <= QueueSize
  BY <1>1, <1>n, EventsAssumption DEF QueueSize
<1>4. \A i \in 1 .. n + 1 : a[i] # StreamEnd => a[i].n > 0 /\ a[i].user = user /\ a[i].life <= top
  <2> SUFFICES ASSUME NEW i \in 1 .. n + 1, a[i] # StreamEnd
               PROVE  a[i].n > 0 /\ a[i].user = user /\ a[i].life <= top
    OBVIOUS
  <2>1. CASE i = n + 1
    BY <2>1, <1>1
  <2>2. CASE i \in 1 .. n
    BY <2>2, <1>1, <1>n DEF Chained
  <2> QED BY <2>1, <2>2
<1>5. \A i \in 1 .. n : /\ a[i] # StreamEnd
                        /\ a[i + 1] # StreamEnd => a[i + 1].n = a[i].n + 1 /\ a[i + 1].life = a[i].life
  <2> SUFFICES ASSUME NEW i \in 1 .. n
               PROVE  /\ a[i] # StreamEnd
                      /\ a[i + 1] # StreamEnd => a[i + 1].n = a[i].n + 1 /\ a[i + 1].life = a[i].life
    OBVIOUS
  <2>1. CASE i = n
    BY <2>1, <1>1, <1>2, <1>n
  <2>2. CASE i \in 1 .. n - 1
    <3>1. a[i] = items[i] /\ a[i + 1] = items[i + 1]
      BY <2>2, <1>1
    <3> QED BY <2>2, <3>1, <1>n DEF Chained
  <2> QED BY <2>1, <2>2
<1>6. sent # 0 /\ a[1] # StreamEnd => a[1].n = sent + 1
  <2>1. CASE n = 0
    BY <2>1, <1>1, <1>2
  <2>2. CASE n > 0
    BY <2>2, <1>1, <1>2 DEF Chained
  <2> QED BY <2>1, <2>2
<1>7. n + 1 - 1 = n
  OBVIOUS
<1>8. Chained(a, user, top, sent)
  BY ONLY <1>1, <1>3, <1>4, <1>5, <1>6, <1>7 DEF Chained
<1> QED BY <1>8, <1>a

\* The replay is the end of the history.
LEMMA ReplayIs ==
    ASSUME NEW x \in StreamState, NEW last \in Nat, Len(x.history) < x.next,
           \A i \in 1 .. Len(x.history) : x.history[i].n = x.next - 1 - Len(x.history) + i
    PROVE  \E m \in 0 .. Len(x.history) :
              /\ ReplayOf(x, last) \in Seq(Event)
              /\ Len(ReplayOf(x, last)) = Len(x.history) - m
              /\ \A i \in 1 .. Len(x.history) - m : ReplayOf(x, last)[i] = x.history[m + i]
              /\ \A i \in 1 .. Len(x.history) : x.history[i].n > last <=> i > m
<1>h. PICK h \in Seq(Event) : h = x.history
  BY DEF StreamState
<1>l. PICK l \in Nat : l = Len(h)
  BY LenProperties
<1>b. PICK b \in Nat : b = x.next - 1 - l
  <2>1. x.next \in Nat /\ l < x.next
    BY <1>h, <1>l DEF StreamState
  <2> QED BY <2>1
<1>1. \A i \in 1 .. l : h[i] \in Event /\ h[i].n = b + i
  BY <1>h, <1>l, <1>b, ElementOfSeq
<1> DEFINE m == IF last < b THEN 0 ELSE IF last > b + l THEN l ELSE last - b
           wanted == {e \in Event : e.n > last}
<1>2. m \in 0 .. l
  OBVIOUS
<1>3. \A i \in 1 .. l : b + i > last <=> i > m
  OBVIOUS
<1>4. \A i \in 1 .. l : (h[i].n > last <=> i > m) /\ (h[i] \in wanted <=> i \in m + 1 .. l)
  BY <1>1, <1>2, <1>3
<1> HIDE DEF m
<1>5. m + 1 \in 1 .. Len(h) + 1 /\ l \in m + 1 - 1 .. Len(h)
  BY <1>2, <1>l
<1>6. Selected(h, wanted) = SubSeq(h, m + 1, l)
  <2>1. PICK w : w = wanted
    OBVIOUS
  <2>3. PICK c : c = m + 1
    OBVIOUS
  <2>2. \A i \in 1 .. Len(h) : h[i] \in w <=> i \in c .. l
    BY <2>1, <2>3, <1>4, <1>l
  <2>4. c \in 1 .. Len(h) + 1 /\ l \in c - 1 .. Len(h)
    BY <1>2, <1>l, <2>3
  <2>5. Selected(h, w) = SubSeq(h, c, l)
    BY <2>2, <2>4, SelectedRange, Zenon
  <2> QED BY <2>1, <2>3, <2>5
<1>7. /\ SubSeq(h, m + 1, l) \in Seq(Event)
      /\ Len(SubSeq(h, m + 1, l)) = l - m
      /\ \A i \in 1 .. l - m : SubSeq(h, m + 1, l)[i] = h[m + i]
  <2>1. m + 1 \in Int /\ l \in Int /\ \A i \in m + 1 .. l : h[i] \in Event
    BY <1>1, <1>2
  <2>2. /\ SubSeq(h, m + 1, l) \in Seq(Event)
        /\ Len(SubSeq(h, m + 1, l)) = IF m + 1 <= l THEN l - (m + 1) + 1 ELSE 0
        /\ \A i \in 1 .. l - (m + 1) + 1 : SubSeq(h, m + 1, l)[i] = h[m + 1 + i - 1]
    BY <2>1, SubSeqProperties
  <2>3. l - (m + 1) + 1 = l - m /\ \A i \in 1 .. l - m : m + 1 + i - 1 = m + i
    BY <1>2
  <2> QED BY <2>2, <2>3, <1>2
<1>8. ReplayOf(x, last) = SubSeq(h, m + 1, l)
  BY <1>6, <1>h DEF ReplayOf
<1> QED BY <1>2, <1>4, <1>7, <1>8, <1>h, <1>l

\* A new subscription: what is queued starts after last, in the present life.
LEMMA SubscribeKeeps ==
    ASSUME SvcIInv, NEW r \in Queues, NEW s \in Streams, NEW u \in Users, NEW last \in Nat,
           Subscribe(r, s, u, last)
    PROVE  /\ SvcEffect({r}) /\ subs[r].state = "free"
           /\ subs'[r].state = "open" /\ subs'[r].stream = s /\ subs'[r].user = u
           /\ UNCHANGED lives
           /\ subs'[r].items # <<>> /\ subs'[r].items[1] # StreamEnd =>
                 /\ subs'[r].items[1].n > last /\ subs'[r].items[1].life = lives[s]
                 /\ last # 0 => subs'[r].items[1].n <= last + 1
           /\ subs'[r].items = <<>> /\ last # 0 => streams'[s].next <= last + 1
<1> DEFINE all == Cleaned(streams)
<1>t. /\ subs \in [Queues -> Subscription] /\ lives \in [Streams -> Nat]
      /\ \A t \in DOMAIN streams : streams[t] \in StreamState
      /\ \A t \in DOMAIN streams : r \notin streams[t].subscribers
  BY DEF SvcIInv, SvcTypeOK, Attached, Subscribe
<1>c. /\ DOMAIN all \subseteq DOMAIN streams
      /\ \A t \in DOMAIN all : all[t] = streams[t]
  BY CleanedIs
<1>x. PICK x : x = streams[s]
  OBVIOUS
<1>g. /\ s \in DOMAIN all /\ s \in DOMAIN streams /\ all[s] = x /\ x \in StreamState
      /\ x.owner = u /\ Replayable(x, last) /\ HistoryKept(s)
      /\ Len(x.history) <= HistoryLimit
      /\ UNCHANGED <<lives, pub>>
  BY <1>c, <1>t, <1>x DEF Subscribe, SvcIInv, SvcTypeOK
<1> DEFINE z == [x EXCEPT !.subscribers = IF x.ended THEN x.subscribers ELSE x.subscribers \cup {r}]
<1>z. /\ z \in StreamState /\ Refreshed(z, Touched(z))
  BY <1>g, TouchedIs DEF StreamState
<1>h. PICK h \in Seq(Event) : h = x.history
  BY <1>g DEF StreamState
<1>l. PICK l \in Nat : l = Len(h)
  BY LenProperties
<1>b. PICK b \in Nat : b = x.next - 1 - l
  <2>1. x.next \in Nat /\ l < x.next
    BY <1>g, <1>h, <1>l, <1>x DEF StreamState, HistoryKept
  <2> QED BY <2>1
<1>k. /\ \A i \in 1 .. l : /\ h[i] \in Event /\ h[i].n = b + i
                           /\ h[i].life = lives[s] /\ h[i].user = u /\ h[i] # StreamEnd
      /\ x.next = b + l + 1 /\ (l = 0 => b = 0)
  <2>1. x.next \in Nat /\ x.next = b + l + 1
    BY <1>g, <1>b DEF StreamState
  <2>2. \A i \in 1 .. l : h[i] \in Event
    BY <1>l, ElementOfSeq
  <2>3. \A i \in 1 .. l : h[i].n = b + i /\ h[i].life = lives[s] /\ h[i].user = u
    BY <1>g, <1>h, <1>l, <1>b, <1>x DEF HistoryKept
  <2>4. l = 0 => b = 0
    <3>1. l = 0 => h = << >>
      BY <1>l, EmptySeq
    <3> QED BY <3>1, <2>1, <1>g, <1>h, <1>x DEF HistoryKept
  <2>5. \A i \in 1 .. l : h[i] # StreamEnd
    BY <2>3, EndIs
  <2> QED BY <2>1, <2>2, <2>3, <2>4, <2>5
<1>p. PICK p \in Seq(Event), m \in 0 .. l :
         /\ p = ReplayOf(x, last)
         /\ Len(p) = l - m
         /\ \A i \in 1 .. l - m : p[i] = h[m + i]
         /\ \A i \in 1 .. l : h[i].n > last <=> i > m
  <2>1. Len(x.history) < x.next
    BY <1>g, <1>x DEF HistoryKept
  <2>2. \A i \in 1 .. Len(x.history) : x.history[i].n = x.next - 1 - Len(x.history) + i
    BY <1>g, <1>x DEF HistoryKept
  <2>3. \E m \in 0 .. Len(x.history) :
              /\ ReplayOf(x, last) \in Seq(Event)
              /\ Len(ReplayOf(x, last)) = Len(x.history) - m
              /\ \A i \in 1 .. Len(x.history) - m : ReplayOf(x, last)[i] = x.history[m + i]
              /\ \A i \in 1 .. Len(x.history) : x.history[i].n > last <=> i > m
    BY <2>1, <2>2, <1>g, ReplayIs
  <2> QED BY <2>3, <1>h, <1>l
<1>i. PICK items : items = IF x.ended THEN Append(p, StreamEnd) ELSE p
  OBVIOUS
<1>y. PICK y : y = [state |-> "open", stream |-> s, user |-> u, sent |-> 0, items |-> items]
  OBVIOUS
<1>m. \A i \in 1 .. l - m : /\ p[i] \in Event /\ p[i] # StreamEnd /\ p[i].n = b + m + i
                            /\ p[i].life = lives[s] /\ p[i].user = u /\ p[i].n > 0
  <2> SUFFICES ASSUME NEW i \in 1 .. l - m
               PROVE  /\ p[i] \in Event /\ p[i] # StreamEnd /\ p[i].n = b + m + i
                      /\ p[i].life = lives[s] /\ p[i].user = u /\ p[i].n > 0
    OBVIOUS
  <2>1. PICK j \in 1 .. l : j = m + i
    OBVIOUS
  <2>2. p[i] = h[j]
    BY <2>1, <1>p
  <2>3. h[j] \in Event /\ h[j].n = b + j /\ h[j].life = lives[s] /\ h[j].user = u /\ h[j] # StreamEnd
    BY <1>k
  <2> QED BY <2>1, <2>2, <2>3
<1>1. Chained(p, u, lives[s], 0) /\ Len(p) < QueueSize
  <2>1. Len(p) <= HistoryLimit /\ Len(p) \in Nat
    BY <1>p, <1>g, <1>h, <1>l, EventsAssumption
  <2>2. lives[s] \in Nat
    BY <1>t
  <2>3. \A i \in 1 .. l - m - 1 : i \in 1 .. l - m /\ i + 1 \in 1 .. l - m
    OBVIOUS
  <2>4. \A i \in 1 .. l - m - 1 : p[i] # StreamEnd /\ p[i + 1].n = p[i].n + 1 /\ p[i + 1].life = p[i].life
    BY <2>3, <1>m
  <2>5. Len(p) < QueueSize /\ Len(p) <= QueueSize
    BY <2>1, EventsAssumption DEF QueueSize
  <2> QED BY <2>2, <2>4, <2>5, <1>m, <1>p, SMTT(60) DEF Chained
<1>2. items \in Seq(Event) /\ Chained(items, u, lives[s], 0)
  <2>1. CASE x.ended
    <3>1. Append(p, StreamEnd) \in Seq(Event)
      BY EndIs, AppendProperties
    <3>2. p # <<>> => p[Len(p)] # StreamEnd
      <4>1. p # <<>> => Len(p) > 0
        BY <1>p, EmptySeq
      <4> QED BY <4>1, <1>m, <1>p
    <3>3. Chained(Append(p, StreamEnd), u, lives[s], 0)
      BY <3>2, <1>1, <1>t, EndIs, ChainedAppend
    <3> QED BY <3>1, <3>3, <2>1, <1>i
  <2>2. CASE ~x.ended
    BY <2>2, <1>1, <1>i
  <2> QED BY <2>1, <2>2
<1>3. /\ y \in Subscription /\ subs' = [subs EXCEPT ![r] = y] /\ subs'[r] = y
      /\ streams' = [all EXCEPT ![s] = Touched(z)]
  <2>1. y \in Subscription
    BY <1>y, <1>2, EndIs DEF Subscription
  <2>2. subs' = [subs EXCEPT ![r] = y]
    BY <1>y, <1>i, <1>p, <1>g DEF Subscribe
  <2>3. streams' = [all EXCEPT ![s] = Touched(z)]
    BY <1>g DEF Subscribe
  <2> QED BY <2>1, <2>2, <2>3, <1>t
<1>4. /\ DOMAIN streams' \subseteq DOMAIN streams
      /\ \A t \in DOMAIN streams' : streams'[t] = IF t = s THEN Touched(z) ELSE streams[t]
      /\ s \in DOMAIN streams'
  BY <1>3, <1>c, <1>g
<1>5. /\ streams'[s] \in StreamState /\ streams'[s].owner = u /\ streams'[s].history = h
      /\ streams'[s].next = x.next /\ streams'[s].ended = x.ended /\ streams'[s].life = x.life
      /\ streams'[s].subscribers = IF x.ended THEN x.subscribers ELSE x.subscribers \cup {r}
  BY <1>4, <1>z, <1>g, <1>h DEF Refreshed, StreamState
<1>6. ASSUME NEW t \in DOMAIN streams'
      PROVE  /\ Refreshed(streams[t], [streams'[t] EXCEPT !.subscribers = streams[t].subscribers])
             /\ streams'[t] \in StreamState
             /\ streams'[t].subscribers \subseteq streams[t].subscribers \cup {r}
  <2>1. CASE t = s
    BY <2>1, <1>5, <1>g, <1>h, <1>x DEF Refreshed, StreamState
  <2>2. CASE t # s
    <3>1. streams[t] \in StreamState /\ streams'[t] = streams[t]
      BY <2>2, <1>4, <1>t
    <3> QED BY <3>1 DEF Refreshed, StreamState
  <2> QED BY <2>1, <2>2
<1>7. QueueKept(r)'
  <2>1. y.items = items /\ y.user = u /\ y.stream = s /\ y.sent = 0
    BY <1>y
  <2> QED BY <2>1, <1>2, <1>3, <1>g, ChainedQueue
<1>8. /\ x.ended => \A i \in 1 .. Len(items) : items[i] # StreamEnd => i \in 1 .. l - m /\ items[i] = p[i]
      /\ ~x.ended => items = p
  <2>1. x.ended => /\ Len(items) = Len(p) + 1 /\ items[Len(p) + 1] = StreamEnd
                   /\ \A i \in 1 .. Len(p) : items[i] = p[i]
    BY <1>i, EndIs, AppendProperties
  <2>2. ASSUME x.ended, NEW i \in 1 .. Len(items), items[i] # StreamEnd
        PROVE  i \in 1 .. l - m /\ items[i] = p[i]
    <3>1. i # l - m + 1 /\ Len(items) = l - m + 1
      BY <2>1, <2>2, <1>p
    <3>2. i \in 1 .. l - m
      BY <3>1
    <3> QED BY <3>2, <2>1, <2>2, <1>p
  <2> QED BY <2>2, <1>i
<1>9. \A i \in 1 .. Len(items) : items[i] # StreamEnd => i \in 1 .. l - m /\ items[i] = p[i]
  BY <1>8, <1>p
<1>10. QueueBehind(r)'
  <2>1. \A i \in 1 .. Len(items) : items[i] # StreamEnd => items[i].n < x.next
    BY <1>9, <1>m, <1>k
  <2>2. y.items = items /\ y.stream = s
    BY <1>y
  <2> QED BY <2>1, <2>2, <1>3, <1>5 DEF QueueBehind
<1>11. \A t \in DOMAIN streams' : r \in streams'[t].subscribers => Attached(t, r)'
  <2> SUFFICES ASSUME NEW t \in DOMAIN streams', r \in streams'[t].subscribers
               PROVE  Attached(t, r)'
    OBVIOUS
  <2>1. t = s /\ ~x.ended
    BY <1>t, <1>4, <1>5, <1>x
  <2>2. items = p
    BY <2>1, <1>8
  <2>3. y.items = items /\ y.stream = s /\ y.state = "open" /\ y.user = u /\ y.sent = 0
    BY <1>y
  <2>4. items # <<>> => /\ items[Len(items)] # StreamEnd /\ items[Len(items)].n = x.next - 1
                        /\ items[Len(items)].life = lives[s]
    <3>1. items # <<>> => l - m \in 1 .. l - m
      BY <2>2, <1>p, EmptySeq
    <3> QED BY <3>1, <2>2, <1>m, <1>k, <1>p
  <2> QED BY <2>1, <2>3, <2>4, <1>3, <1>5, <1>g DEF Attached
<1>12. SvcEffect({r})
  BY <1>3, <1>4, <1>6, <1>7, <1>10, <1>11, <1>g, OneSubscription
<1>13. ASSUME items # <<>>, items[1] # StreamEnd
       PROVE  items[1].n > last /\ items[1].life = lives[s] /\ (last # 0 => items[1].n <= last + 1)
  <2>1. 1 \in 1 .. Len(items)
    BY <1>2, <1>13, EmptySeq, LenProperties
  <2>2. 1 \in 1 .. l - m /\ items[1] = p[1]
    BY <2>1, <1>9, <1>13
  <2>3. items[1] = h[m + 1] /\ m + 1 \in 1 .. l
    BY <2>2, <1>p
  <2>4. items[1].n > last /\ items[1].life = lives[s] /\ items[1].n = b + m + 1
    BY <2>3, <1>p, <1>k
  <2>5. last # 0 => b + m + 1 <= last + 1
    <3>1. CASE m = 0
      <4>1. Head(h) = h[1] /\ h # <<>> /\ h[1].n = b + 1
        <5>1. h # <<>>
          BY <2>3, <1>l, EmptySeq
        <5> QED BY <5>1, <2>3, <1>k, HeadTailProperties
      <4>2. last # 0 => last >= b + 1 - 1
        BY <4>1, <1>g, <1>h DEF Replayable
      <4> QED BY <3>1, <4>2
    <3>2. CASE m # 0
      <4>1. m \in 1 .. l /\ ~(m > m)
        BY <3>2
      <4>2. ~(b + m > last)
        BY <4>1, <1>p, <1>k
      <4> QED BY <4>2
    <3> QED BY <3>1, <3>2
  <2> QED BY <2>4, <2>5
<1>14. ASSUME items = <<>>, last # 0 PROVE x.next <= last + 1
  <2>1. l = m
    <3>1. x.ended => items # <<>>
      BY <1>i, EndIs, AppendProperties
    <3>2. Len(p) = 0
      BY <3>1, <1>8, <1>14, EmptySeq
    <3> QED BY <3>2, <1>p
  <2>2. CASE l = 0
    BY <2>2, <1>k
  <2>3. CASE l > 0
    <3>1. l \in 1 .. l /\ ~(l > m)
      BY <2>1, <2>3
    <3>2. ~(b + l > last)
      BY <3>1, <1>p, <1>k
    <3> QED BY <3>2, <1>k
  <2> QED BY <2>2, <2>3
<1>15. /\ subs'[r].items = items /\ subs'[r].stream = s /\ subs'[r].state = "open" /\ subs'[r].user = u
       /\ subs[r].state = "free"
  BY <1>3, <1>y DEF Subscribe
<1> QED BY <1>5, <1>12, <1>13, <1>14, <1>15, <1>g

\* What put_nowait adds to a queue with room for it.
LEMMA OfferedIs ==
    ASSUME NEW items \in Seq(Event), NEW e \in Event, Len(items) <= QueueSize
    PROVE  \/ Offered(items, e) = items /\ Len(items) = QueueSize
           \/ Offered(items, e) = Append(items, e) /\ Len(items) < QueueSize
           \/ /\ Offered(items, e) = Append(Append(items, e), StreamEnd)
              /\ e.terminal /\ Len(items) + 1 < QueueSize
<1>1. Len(items) \in Nat /\ QueueSize \in Nat
  BY LenProperties, EventsAssumption DEF QueueSize
<1>2. items \o <<e, StreamEnd>> = Append(Append(items, e), StreamEnd)
  BY EndIs
<1> QED BY <1>1, <1>2 DEF Offered

\* The history with one more event.
LEMMA RememberedIs ==
    ASSUME NEW h \in Seq(Event), NEW e \in Event, Len(h) <= HistoryLimit
    PROVE  \E d \in {0, 1} :
              /\ Remembered(h, e) \in Seq(Event)
              /\ Len(Remembered(h, e)) = Len(h) + 1 - d
              /\ Len(Remembered(h, e)) \in 1 .. HistoryLimit
              /\ \A i \in 1 .. Len(h) + 1 - d :
                    Remembered(h, e)[i] = IF d + i = Len(h) + 1 THEN e ELSE h[d + i]
<1>l. PICK l \in Nat : l = Len(h)
  BY LenProperties
<1>a. PICK a : a = Append(h, e)
  OBVIOUS
<1>1. /\ a \in Seq(Event) /\ Len(a) = l + 1 /\ a # <<>>
      /\ \A i \in 1 .. l + 1 : a[i] = IF i = l + 1 THEN e ELSE h[i]
  BY <1>l, <1>a, AppendProperties
<1>2. CASE l + 1 > HistoryLimit
  <2>1. /\ Tail(a) \in Seq(Event) /\ Len(Tail(a)) = l
        /\ \A i \in 1 .. l : Tail(a)[i] = a[i + 1]
    BY <1>1, HeadTailProperties
  <2>2. Remembered(h, e) = Tail(a)
    BY <1>1, <1>2, <1>a DEF Remembered
  <2>3. \A i \in 1 .. l : i + 1 \in 1 .. l + 1 /\ i + 1 = 1 + i
    OBVIOUS
  <2>4. \A i \in 1 .. l : Tail(a)[i] = IF 1 + i = l + 1 THEN e ELSE h[1 + i]
    BY <2>1, <2>3, <1>1
  <2>5. l + 1 - 1 = l /\ l \in 1 .. HistoryLimit
    BY <1>2, <1>l, EventsAssumption
  <2> QED BY <2>1, <2>2, <2>4, <2>5, <1>l
<1>3. CASE ~(l + 1 > HistoryLimit)
  <2>1. Remembered(h, e) = a
    BY <1>1, <1>3, <1>a DEF Remembered
  <2>2. l + 1 - 0 = l + 1 /\ l + 1 \in 1 .. HistoryLimit
    BY <1>3, EventsAssumption
  <2>3. \A i \in 1 .. l + 1 : a[i] = IF 0 + i = l + 1 THEN e ELSE h[0 + i]
    BY <1>1
  <2> QED BY <2>1, <2>2, <2>3, <1>1, <1>l
<1> QED BY <1>2, <1>3

\* One event reaches the history and every registered queue.
LEMMA PublishKeeps ==
    ASSUME SvcIInv, NEW p \in Publishers, NEW terminal \in BOOLEAN, Publish(p, terminal)
    PROVE  SvcEffect({})
<1>s. PICK s : s = pub[p].stream
  OBVIOUS
<1>x. PICK x : x = streams[s]
  OBVIOUS
<1>e. PICK e : e = [n |-> x.next, terminal |-> terminal, life |-> x.life, user |-> pub[p].user]
  OBVIOUS
<1>t. /\ subs \in [Queues -> Subscription] /\ lives \in [Streams -> Nat]
      /\ \A t \in DOMAIN streams : streams[t] \in StreamState
      /\ pub \in [Publishers -> Publications] /\ DOMAIN streams \subseteq Streams
  BY DEF SvcIInv, SvcTypeOK, Publications
<1>g. /\ s \in DOMAIN streams /\ x \in StreamState /\ ~x.ended /\ x.owner = pub[p].user
      /\ UNCHANGED lives /\ s \in Streams
      /\ HistoryKept(s) /\ \A q \in x.subscribers : Attached(s, q)
      /\ Len(x.history) <= HistoryLimit
  BY <1>s, <1>x, <1>t DEF Publish, CanPublish, SvcIInv, SvcTypeOK
<1>n. /\ x.next \in Nat /\ x.next > 0 /\ x.life = lives[s] /\ lives[s] \in Nat
      /\ x.subscribers \subseteq Queues
  <2>1. Len(x.history) \in Nat /\ Len(x.history) < x.next /\ x.life = lives[s]
    BY <1>g, <1>x, LenProperties DEF HistoryKept, StreamState
  <2> QED BY <2>1, <1>g, <1>t DEF StreamState
<1>v. /\ e \in Event /\ e # StreamEnd /\ e.n = x.next /\ e.life = lives[s] /\ e.user = x.owner
      /\ e.terminal = terminal
  <2>1. e.n = x.next /\ e.life = lives[s] /\ e.user = x.owner /\ e.terminal = terminal
    BY <1>e, <1>g, <1>n
  <2>2. pub[p].user \in Users
    BY <1>t DEF Publications
  <2> QED BY <2>1, <2>2, <1>e, <1>n, EndIs DEF Event
<1>y. PICK y : y = [x EXCEPT !.next = x.next + 1, !.ended = terminal, !.aged = FALSE,
                             !.history = Remembered(x.history, e),
                             !.subscribers = IF terminal THEN {}
                                             ELSE x.subscribers \ Overflowed(x)]
  OBVIOUS
<1>h. PICK h \in Seq(Event) : h = x.history
  BY <1>g DEF StreamState
<1>l. PICK l \in Nat : l = Len(h)
  BY LenProperties
<1>r. PICK g \in Seq(Event), d \in {0, 1} :
         /\ g = Remembered(h, e) /\ Len(g) = l + 1 - d /\ Len(g) \in 1 .. HistoryLimit
         /\ \A i \in 1 .. l + 1 - d : g[i] = IF d + i = l + 1 THEN e ELSE h[d + i]
  <2>1. PICK d \in {0, 1} :
              /\ Remembered(h, e) \in Seq(Event)
              /\ Len(Remembered(h, e)) = l + 1 - d
              /\ Len(Remembered(h, e)) \in 1 .. HistoryLimit
              /\ \A i \in 1 .. l + 1 - d :
                    Remembered(h, e)[i] = IF d + i = l + 1 THEN e ELSE h[d + i]
    <3>1. Len(h) <= HistoryLimit
      BY <1>h, <1>g
    <3>2. \E d \in {0, 1} :
              /\ Remembered(h, e) \in Seq(Event)
              /\ Len(Remembered(h, e)) = Len(h) + 1 - d
              /\ Len(Remembered(h, e)) \in 1 .. HistoryLimit
              /\ \A i \in 1 .. Len(h) + 1 - d :
                    Remembered(h, e)[i] = IF d + i = Len(h) + 1 THEN e ELSE h[d + i]
      BY <3>1, <1>v, RememberedIs
    <3> QED BY <3>2, <1>l
  <2> QED BY <2>1
<1>1. /\ y \in StreamState /\ y.next = x.next + 1 /\ y.ended = terminal /\ y.history = g
      /\ y.owner = x.owner /\ y.life = x.life
      /\ y.subscribers = IF terminal THEN {} ELSE x.subscribers \ Overflowed(x)
  <2>1. PICK some \in SUBSET Queues : some = IF terminal THEN {} ELSE x.subscribers \ Overflowed(x)
    BY <1>n
  <2>2. y = [x EXCEPT !.next = x.next + 1, !.ended = terminal, !.aged = FALSE,
                      !.history = g, !.subscribers = some]
    BY <1>y, <1>h, <1>r, <2>1
  <2>3. /\ y = [owner |-> x.owner, history |-> g, subscribers |-> some, next |-> x.next + 1,
               ended |-> terminal, aged |-> FALSE, life |-> x.life]
        /\ x.owner \in Users /\ x.life \in Nat
    BY <2>2, <1>g DEF StreamState
  <2> QED BY <2>1, <2>3, <1>n DEF StreamState
<1>2. /\ DOMAIN streams' = DOMAIN streams /\ streams'[s] = y
      /\ \A t \in DOMAIN streams : t # s => streams'[t] = streams[t]
  BY <1>s, <1>x, <1>e, <1>y, <1>g DEF Publish
<1>3. \A q \in Queues : subs'[q] = IF q \in x.subscribers
                                   THEN [subs[q] EXCEPT !.items = Offered(subs[q].items, e)]
                                   ELSE subs[q]
  BY <1>s, <1>x, <1>e DEF Publish
<1>d. DOMAIN subs' = Queues /\ subs' = [q \in Queues |-> subs'[q]]
  BY DEF Publish
<1>q. ASSUME NEW q \in Queues, q \in x.subscribers
      PROVE  /\ subs'[q] \in Subscription
             /\ subs'[q].state = subs[q].state /\ subs'[q].stream = s /\ subs[q].stream = s
             /\ subs'[q].user = subs[q].user /\ subs'[q].sent = subs[q].sent
             /\ Chained(subs'[q].items, x.owner, lives[s], subs[q].sent)
             /\ subs[q].items # <<>> => subs'[q].items # <<>> /\ subs'[q].items[1] = subs[q].items[1]
             /\ subs[q].items = <<>> => subs'[q].items # <<>> /\ subs'[q].items[1] = e
             /\ q \notin Overflowed(x) /\ ~terminal =>
                   subs'[q].items # <<>> /\ subs'[q].items[Len(subs'[q].items)] = e
             /\ \A i \in 1 .. Len(subs'[q].items) : subs'[q].items[i] # StreamEnd =>
                   \/ subs'[q].items[i] = e
                   \/ i \in 1 .. Len(subs[q].items) /\ subs'[q].items[i] = subs[q].items[i]
  <2>1. PICK items \in Seq(Event) : items = subs[q].items
    BY <1>t, EndIs DEF Subscription
  <2>2. PICK new : new = Offered(items, e)
    OBVIOUS
  <2>3. /\ subs'[q] = [subs[q] EXCEPT !.items = new] /\ Attached(s, q) /\ QueueKept(q)
        /\ subs[q] \in Subscription
    BY <1>3, <1>q, <1>t, <1>g, <2>1, <2>2 DEF SvcIInv
  <2>4. /\ subs[q].stream = s /\ subs[q].user = x.owner
        /\ items # <<>> => /\ items[Len(items)] # StreamEnd
                           /\ items[Len(items)].n = x.next - 1
                           /\ items[Len(items)].life = lives[s]
        /\ items = <<>> /\ subs[q].sent # 0 => subs[q].sent = x.next - 1
    BY <2>1, <2>3, <1>x DEF Attached
  <2>5. /\ subs'[q].items = new /\ subs'[q].state = subs[q].state /\ subs'[q].stream = s
        /\ subs'[q].user = subs[q].user /\ subs'[q].sent = subs[q].sent /\ subs[q].sent \in Nat
        /\ new \in Seq(Event) => subs'[q] \in Subscription
    BY <2>3, <2>4, EndIs DEF Subscription
  <2>6. Chained(items, x.owner, lives[s], subs[q].sent)
    BY <2>1, <2>3, <2>4, ChainedQueue
  <2>n. PICK n \in Nat : n = Len(items)
    BY LenProperties
  <2>a. PICK a : a = Append(items, e)
    OBVIOUS
  <2>7. /\ a \in Seq(Event) /\ Len(a) = n + 1 /\ a[n + 1] = e /\ a # <<>>
        /\ \A i \in 1 .. n : a[i] = items[i]
    BY <1>v, <2>n, <2>a, AppendProperties
  <2>8. n < QueueSize => Chained(a, x.owner, lives[s], subs[q].sent)
    <3>1. /\ e.n > 0 /\ e.user = x.owner /\ e.life <= lives[s]
          /\ items # <<>> => /\ e.n = items[Len(items)].n + 1 /\ e.life = items[Len(items)].life
          /\ items = <<>> /\ subs[q].sent # 0 => e.n = subs[q].sent + 1
      BY <1>v, <1>n, <2>4, <2>5
    <3>2. items # <<>> => items[Len(items)] # StreamEnd
      BY <2>4
    <3> QED BY <3>1, <3>2, <2>5, <2>6, <2>a, <2>n, <1>v, <1>n, ChainedAppend
  <2>b. PICK b : b = Append(a, StreamEnd)
    OBVIOUS
  <2>9. /\ b \in Seq(Event) /\ Len(b) = n + 2 /\ b[n + 2] = StreamEnd /\ b # <<>>
        /\ \A i \in 1 .. n + 1 : b[i] = a[i]
    BY <2>7, <2>b, EndIs, AppendProperties
  <2>10. n + 1 < QueueSize => Chained(b, x.owner, lives[s], subs[q].sent)
    <3>1. a # <<>> => a[Len(a)] # StreamEnd
      BY <2>7, <1>v
    <3>2. ASSUME n + 1 < QueueSize PROVE Chained(b, x.owner, lives[s], subs[q].sent)
      <4>1. n < QueueSize /\ Len(a) < QueueSize
        BY <3>2, <2>7, EventsAssumption DEF QueueSize
      <4> QED BY <4>1, <3>1, <2>5, <2>7, <2>8, <2>b, <1>n, EndIs, ChainedAppend
    <3> QED BY <3>2
  <2>11. \/ new = items /\ n = QueueSize
         \/ new = a /\ n < QueueSize
         \/ new = b /\ terminal /\ n + 1 < QueueSize
    <3>1. Len(items) <= QueueSize
      BY <2>6 DEF Chained
    <3> QED BY <3>1, <1>v, <2>2, <2>n, <2>a, <2>b, OfferedIs
  <2>12. items = <<>> <=> n = 0
    BY <2>n, EmptySeq
  <2>13. QueueSize > 0 /\ (q \notin Overflowed(x) => n # QueueSize)
    <3>1. q \notin Overflowed(x) => ~(n >= QueueSize)
      BY <1>q, <2>1, <2>n DEF Overflowed
    <3> QED BY <3>1, EventsAssumption DEF QueueSize
  <2>14. new \in Seq(Event) /\ Chained(new, x.owner, lives[s], subs[q].sent)
    BY <2>6, <2>7, <2>8, <2>9, <2>10, <2>11
  <2>15. items # <<>> => new # <<>> /\ new[1] = items[1]
    BY <2>7, <2>9, <2>11, <2>12
  <2>16. items = <<>> => new # <<>> /\ new[1] = e
    BY <2>7, <2>9, <2>11, <2>12, <2>13
  <2>17. q \notin Overflowed(x) /\ ~terminal => new # <<>> /\ new[Len(new)] = e
    BY <2>7, <2>11, <2>13
  <2>18. ASSUME NEW i \in 1 .. Len(new), new[i] # StreamEnd
         PROVE  new[i] = e \/ (i \in 1 .. n /\ new[i] = items[i])
    <3>1. CASE new = items
      BY <2>18, <3>1, <2>n
    <3>2. CASE new = a
      BY <2>18, <3>2, <2>7
    <3>3. CASE new = b
      <4>1. i # n + 2 /\ i \in 1 .. n + 2
        BY <2>18, <3>3, <2>9
      <4>2. i \in 1 .. n + 1
        BY <4>1
      <4> QED BY <4>2, <3>3, <2>9, <2>7
    <3> QED BY <3>1, <3>2, <3>3, <2>11
  <2> QED BY <2>1, <2>4, <2>5, <2>14, <2>15, <2>16, <2>17, <2>18, <2>n
<1>4. subs' \in [Queues -> Subscription]
  <2>1. \A q \in Queues : subs'[q] \in Subscription
    BY <1>3, <1>q, <1>t
  <2> QED BY <2>1, <1>d
<1>5. pub' \in [Publishers -> Publications]
  BY <1>t, BlanksTyped DEF Publish
<1>6. SvcTypeOK'
  <2>1. \A t \in DOMAIN streams' : /\ streams'[t] \in StreamState
                                   /\ Len(streams'[t].history) <= HistoryLimit
    <3> SUFFICES ASSUME NEW t \in DOMAIN streams'
                 PROVE  streams'[t] \in StreamState /\ Len(streams'[t].history) <= HistoryLimit
      OBVIOUS
    <3>1. CASE t = s
      BY <3>1, <1>1, <1>2, <1>r, EventsAssumption
    <3>2. CASE t # s
      BY <3>2, <1>2 DEF SvcIInv, SvcTypeOK
    <3> QED BY <3>1, <3>2
  <2>2. lives' = lives /\ DOMAIN streams' = DOMAIN streams
    BY <1>2, <1>g
  <2> QED BY <2>1, <2>2, <1>4, <1>5 DEF SvcIInv, SvcTypeOK, Publications
<1>7. HistoryKept(s)'
  <2>1. l < x.next /\ \A i \in 1 .. l : /\ h[i].n = x.next - 1 - l + i /\ h[i].life = x.life /\ h[i].user = x.owner
    BY <1>g, <1>h, <1>l, <1>x DEF HistoryKept
  <2>2. ASSUME NEW i \in 1 .. l + 1 - d
        PROVE  /\ g[i].n = x.next + 1 - 1 - (l + 1 - d) + i
               /\ g[i].life = x.life /\ g[i].user = x.owner
    <3>1. CASE d + i = l + 1
      <4>1. g[i] = e
        BY <3>1, <1>r
      <4> QED BY <4>1, <3>1, <1>v, <1>n
    <3>2. CASE d + i # l + 1
      <4>1. PICK j \in 1 .. l : j = d + i
        BY <3>2
      <4>2. g[i] = h[j]
        BY <4>1, <3>2, <1>r
      <4> QED BY <4>1, <4>2, <2>1, <1>n
    <3> QED BY <3>1, <3>2
  <2>3. g # <<>> /\ Len(g) < x.next + 1
    BY <1>r, <2>1, <1>n, EmptySeq
  <2>4. streams'[s].history = g /\ streams'[s].next = x.next + 1 /\ streams'[s].life = x.life
        /\ streams'[s].owner = x.owner /\ x.life = lives'[s]
    BY <1>1, <1>2, <1>n, <1>g
  <2>5. PICK k \in Nat : k = l + 1 - d /\ Len(g) = k
    BY <1>r
  <2>6. \A i \in 1 .. k : g[i].n = x.next + 1 - 1 - k + i /\ g[i].life = x.life /\ g[i].user = x.owner
    BY <2>2, <2>5
  <2>7. PICK z : z = streams'[s]
    OBVIOUS
  <2>8. /\ z.life = lives'[s] /\ Len(z.history) < z.next /\ z.history # <<>>
        /\ z.history = g /\ z.next = x.next + 1 /\ z.life = x.life /\ z.owner = x.owner
    BY <2>3, <2>4, <2>7
  <2>9. ASSUME NEW i \in 1 .. Len(z.history)
        PROVE  /\ z.history[i].n = z.next - 1 - Len(z.history) + i
               /\ z.history[i].life = z.life /\ z.history[i].user = z.owner
    <3>1. i \in 1 .. k /\ z.next - 1 - Len(z.history) + i = x.next + 1 - 1 - k + i
      BY <2>5, <2>8, <1>n, SMTT(60)
    <3> QED BY <3>1, <2>6, <2>8
  <2>10. \A i \in 1 .. Len(z.history) :
            /\ z.history[i].n = z.next - 1 - Len(z.history) + i
            /\ z.history[i].life = z.life /\ z.history[i].user = z.owner
    BY <2>9
  <2>11. z.life = lives'[s] /\ Len(z.history) < z.next /\ z.history # <<>>
    BY <2>8
  <2> QED BY ONLY <2>7, <2>10, <2>11 DEF HistoryKept
<1>8. ASSUME NEW t \in DOMAIN streams' PROVE HistoryKept(t)'
  <2>1. CASE t = s
    BY <2>1, <1>7
  <2>2. CASE t # s
    <3>1. streams'[t] = streams[t] /\ lives' = lives /\ HistoryKept(t)
      BY <2>2, <1>2, <1>g DEF SvcIInv
    <3> QED BY <3>1 DEF HistoryKept
  <2> QED BY <2>1, <2>2
<1>9. ASSUME NEW t \in DOMAIN streams', NEW q \in streams'[t].subscribers
      PROVE  Attached(t, q)'
  <2>1. CASE t = s
    <3>1. q \in x.subscribers /\ ~terminal /\ q \notin Overflowed(x) /\ q \in Queues /\ Attached(s, q)
      BY <2>1, <1>1, <1>2, <1>n, <1>g
    <3>2. /\ subs'[q].state # "free" /\ subs'[q].stream = s /\ subs'[q].user = x.owner
          /\ subs'[q].items # <<>> /\ subs'[q].items[Len(subs'[q].items)] = e
      BY <3>1, <1>q, <1>x DEF Attached
    <3>3. /\ streams'[s].ended = FALSE /\ streams'[s].owner = x.owner
          /\ streams'[s].next - 1 = x.next /\ lives' = lives
      BY <1>1, <1>2, <1>n, <1>g, <3>1
    <3> QED BY <2>1, <3>2, <3>3, <1>v DEF Attached
  <2>2. CASE t # s
    <3>1. streams'[t] = streams[t] /\ lives' = lives /\ Attached(t, q) /\ q \in Queues
      BY <2>2, <1>2, <1>g, <1>t DEF SvcIInv, StreamState
    <3>2. q \notin x.subscribers
      BY <2>2, <3>1, <1>g DEF Attached
    <3>3. subs'[q] = subs[q]
      BY <3>1, <3>2, <1>3
    <3> QED BY <3>1, <3>3 DEF Attached
  <2> QED BY <2>1, <2>2
<1>10. ASSUME NEW q \in Queues PROVE QueueKept(q)' /\ QueueBehind(q)' /\ FollowsOn(q)
  <2>k. QueueKept(q) /\ QueueBehind(q) /\ lives' = lives
    BY <1>g DEF SvcIInv
  <2>1. CASE q \in x.subscribers
    <3>1. QueueKept(q)'
      <4>1. subs'[q].user = x.owner /\ subs'[q].stream = s /\ subs'[q].sent = subs[q].sent
        BY <2>1, <1>q, <1>g, <1>x DEF Attached
      <4> QED BY <4>1, <2>1, <1>q, <1>g, ChainedQueue
    <3>2. QueueBehind(q)'
      <4>0. /\ subs'[q].stream = s /\ streams'[s].next = x.next + 1 /\ subs[q].stream = s
        BY <2>1, <1>q, <1>1, <1>2
      <4>1. \A i \in 1 .. Len(subs'[q].items) :
                subs'[q].items[i] # StreamEnd /\ subs'[q].items[i].life = lives'[s]
                    => subs'[q].items[i].n < x.next + 1
        <5> SUFFICES ASSUME NEW i \in 1 .. Len(subs'[q].items), subs'[q].items[i] # StreamEnd,
                            subs'[q].items[i].life = lives'[s]
                     PROVE  subs'[q].items[i].n < x.next + 1
          OBVIOUS
        <5>1. CASE subs'[q].items[i] = e
          BY <5>1, <1>v, <1>n
        <5>2. CASE i \in 1 .. Len(subs[q].items) /\ subs'[q].items[i] = subs[q].items[i]
          <6>1. subs[q].items[i].n < x.next
            BY <5>2, <4>0, <2>k, <1>g, <1>x DEF QueueBehind
          <6>2. subs[q].items[i].n \in Nat
            <7>1. subs[q].items \in Seq(Event)
              BY <1>t, EndIs DEF Subscription
            <7>2. subs[q].items[i] \in Event
              BY <7>1, <5>2, ElementOfSeq
            <7> QED BY <7>2 DEF Event
          <6> QED BY <5>2, <6>1, <6>2, <1>n
        <5> QED BY <5>1, <5>2, <2>1, <1>q
      <4> QED BY <4>0, <4>1 DEF QueueBehind
    <3>3. FollowsOn(q)
      <4>1. Registered(q) /\ subs[q].stream = s
        BY <2>1, <1>q, <1>g, <1>x DEF Registered
      <4>2. e.n = streams[s].next /\ e.life = lives[s]
        BY <1>v, <1>x
      <4> QED BY <4>1, <4>2, <2>1, <1>q DEF FollowsOn
    <3> QED BY <3>1, <3>2, <3>3
  <2>2. CASE q \notin x.subscribers
    <3>1. subs'[q] = subs[q]
      BY <2>2, <1>3
    <3>2. QueueKept(q)'
      BY <3>1, <2>k DEF QueueKept
    <3>3. QueueBehind(q)'
      <4>1. CASE subs[q].stream = s
        <5>1. \A i \in 1 .. Len(subs[q].items) : subs[q].items[i].n \in Nat
          <6>1. subs[q].items \in Seq(Event)
            BY <1>t, EndIs DEF Subscription
          <6>2. \A i \in 1 .. Len(subs[q].items) : subs[q].items[i] \in Event
            BY <6>1, ElementOfSeq
          <6> QED BY <6>2 DEF Event
        <5>2. streams'[s].next = x.next + 1
          BY <1>1, <1>2
        <5> QED BY <3>1, <4>1, <5>1, <5>2, <2>k, <1>x, <1>n, <1>g DEF QueueBehind
      <4>2. CASE subs[q].stream # s
        BY <3>1, <4>2, <2>k, <1>2 DEF QueueBehind
      <4> QED BY <4>1, <4>2
    <3>4. FollowsOn(q)
      <4>1. ~(Registered(q)' /\ subs[q].stream = s)
        BY <2>2, <3>1, <1>1, <1>2 DEF Registered
      <4>2. Registered(q)' => Registered(q) /\ streams'[subs[q].stream].next = streams[subs[q].stream].next
        BY <4>1, <3>1, <1>2 DEF Registered
      <4> QED BY <3>1, <4>2 DEF FollowsOn
    <3> QED BY <3>2, <3>3, <3>4
  <2> QED BY <2>1, <2>2
<1>11. ASSUME NEW t \in Streams PROVE LivesOn(t)
  <2>1. lives' = lives /\ lives[t] \in Nat
    BY <1>g, <1>t
  <2>2. t \in DOMAIN streams' => t \in DOMAIN streams /\ streams'[t].next >= streams[t].next
    <3>1. CASE t = s
      BY <3>1, <1>1, <1>2, <1>n, <1>x, <1>g
    <3>2. CASE t # s
      BY <3>2, <1>2, <1>t DEF StreamState
    <3> QED BY <3>1, <3>2
  <2> QED BY <2>1, <2>2 DEF LivesOn
<1>12. IsFiniteSet(DOMAIN streams)'
  BY <1>2 DEF SvcIInv
<1> QED BY <1>6, <1>8, <1>9, <1>10, <1>11, <1>12 DEF SvcEffect, SvcIInv

\* close: the end marker to whoever has room, and no streams.
LEMMA CloseKeeps ==
    ASSUME SvcIInv, CloseService
    PROVE  SvcEffect({})
<1>t. /\ subs \in [Queues -> Subscription] /\ lives \in [Streams -> Nat]
      /\ pub \in [Publishers -> Publications]
  BY DEF SvcIInv, SvcTypeOK, Publications
<1>1. /\ streams' = <<>> /\ DOMAIN streams' = {} /\ lives' = lives
      /\ subs' = [q \in Queues |-> subs'[q]]
  BY DEF CloseService
<1>2. pub' \in [Publishers -> Publications]
  BY <1>t, BlanksTyped DEF CloseService
<1>3. ASSUME NEW q \in Queues
      PROVE  subs'[q] \in Subscription /\ QueueKept(q)' /\ QueueBehind(q)' /\ FollowsOn(q)
  <2>k. QueueKept(q) /\ subs[q] \in Subscription
    BY <1>t DEF SvcIInv
  <2>b. QueueBehind(q)'
    BY <1>1 DEF QueueBehind
  <2>1. CASE (\E s \in DOMAIN streams : q \in streams[s].subscribers) /\ Len(subs[q].items) < QueueSize
    <3>1. PICK s \in DOMAIN streams : Attached(s, q)
      BY <2>1 DEF SvcIInv
    <3>2. PICK items \in Seq(Event) : items = subs[q].items
      BY <2>k, EndIs DEF Subscription
    <3>3. PICK new : new = Append(items, StreamEnd)
      OBVIOUS
    <3>4. subs'[q] = [subs[q] EXCEPT !.items = new]
      BY <2>1, <3>2, <3>3 DEF CloseService
    <3>5. /\ new \in Seq(Event) /\ new # <<>>
          /\ items # <<>> => new[1] = items[1]
          /\ items = <<>> => new[1] = StreamEnd
      <4>1. new \in Seq(Event) /\ new # <<>> /\ Len(new) = Len(items) + 1 /\ new[Len(items) + 1] = StreamEnd
            /\ \A i \in 1 .. Len(items) : new[i] = items[i]
        BY <3>3, EndIs, AppendProperties
      <4>2. items # <<>> => 1 \in 1 .. Len(items)
        BY LenProperties, EmptySeq
      <4>3. items = <<>> => Len(items) = 0
        BY EmptySeq
      <4> QED BY <4>1, <4>2, <4>3
    <3>6. /\ subs'[q].items = new /\ subs'[q].state = subs[q].state /\ subs'[q].stream = subs[q].stream
          /\ subs'[q].user = subs[q].user /\ subs'[q].sent = subs[q].sent
          /\ subs'[q] \in Subscription /\ subs[q].sent \in Nat /\ subs[q].stream \in Streams
      BY <3>4, <3>5, <2>k, EndIs DEF Subscription
    <3>7. Chained(new, subs[q].user, lives[subs[q].stream], subs[q].sent)
      <4>1. Chained(items, subs[q].user, lives[subs[q].stream], subs[q].sent) /\ Len(items) < QueueSize
        BY <2>k, <2>1, <3>2, ChainedQueue
      <4>2. items # <<>> => items[Len(items)] # StreamEnd
        BY <3>1, <3>2 DEF Attached
      <4>3. lives[subs[q].stream] \in Nat
        BY <1>t, <3>6
      <4> QED BY <4>1, <4>2, <4>3, <3>3, <3>6, EndIs, ChainedAppend
    <3>8. QueueKept(q)'
      BY <3>6, <3>7, <1>1, ChainedQueue
    <3>9. FollowsOn(q)
      BY <3>2, <3>5, <3>6 DEF FollowsOn
    <3> QED BY <2>b, <3>6, <3>8, <3>9
  <2>2. CASE ~((\E s \in DOMAIN streams : q \in streams[s].subscribers) /\ Len(subs[q].items) < QueueSize)
    <3>1. subs'[q] = subs[q]
      BY <2>2 DEF CloseService
    <3>2. QueueKept(q)'
      BY <3>1, <2>k, <1>1 DEF QueueKept
    <3>3. FollowsOn(q)
      BY <3>1, <1>1 DEF FollowsOn, Registered
    <3> QED BY <2>b, <2>k, <3>1, <3>2, <3>3
  <2> QED BY <2>1, <2>2
<1>4. IsFiniteSet(DOMAIN streams') /\ Cardinality(DOMAIN streams') <= StreamLimit
  BY <1>1, FS_EmptySet, EventsAssumption
<1>5. SvcTypeOK'
  <2>1. subs' \in [Queues -> Subscription]
    BY <1>1, <1>3
  <2> QED BY <2>1, <1>1, <1>2, <1>4, <1>t DEF SvcTypeOK, Publications
<1>6. \A s \in Streams : LivesOn(s)
  BY <1>1, <1>t DEF LivesOn
<1> QED BY <1>1, <1>3, <1>4, <1>5, <1>6 DEF SvcEffect, SvcIInv

-----------------------------------------------------------------------------
\* A client that sees nothing new keeps what it knows.
LEMMA SeenKeeps ==
    ASSUME EventsIInv, NEW acted, SvcEffect(acted), NEW k \in Clients,
           lastId'[k] = lastId[k], shown'[k] = shown[k], skipped'[k] = skipped[k]
    PROVE  Seen(k)' /\ Fresh(k)'
<1>s. PICK s \in Streams : s = StreamOf[k]
  BY ClientAssumption
<1>t. /\ lives \in [Streams -> Nat] /\ lives' \in [Streams -> Nat]
      /\ shown[k] \subseteq Event /\ skipped[k] \subseteq Event /\ lastId[k] \in Nat
      /\ s \in DOMAIN streams => streams[s].next \in Nat
      /\ s \in DOMAIN streams' => streams'[s].next \in Nat
  BY DEF EventsIInv, SvcEffect, SvcIInv, SvcTypeOK, ClientTypeOK, StreamState
<1>l. LivesOn(s) /\ Seen(k) /\ Fresh(k)
  BY DEF SvcEffect, EventsIInv, ClientInv
<1>e. \A e \in shown[k] \cup skipped[k] : e.life \in Nat /\ e.life <= lives[s]
  BY <1>t, <1>l, <1>s DEF Seen, Event
<1>1. Seen(k)'
  <2>1. \A e \in shown[k] \cup skipped[k] : e.life <= lives'[s]
    BY <1>e, <1>t, <1>l DEF LivesOn
  <2> QED BY <2>1, <1>l, <1>s DEF Seen
<1>2. Fresh(k)'
  <2> SUFFICES ASSUME s \in DOMAIN streams', NEW e \in shown[k], e.life = lives'[s]
               PROVE  lastId[k] < streams'[s].next
    BY <1>s DEF Fresh
  <2>1. s \in DOMAIN streams /\ lives'[s] = lives[s] /\ streams'[s].next >= streams[s].next
    BY <1>e, <1>t, <1>l DEF LivesOn
  <2>2. lastId[k] < streams[s].next
    BY <2>1, <1>l, <1>s DEF Fresh
  <2> QED BY <2>1, <2>2, <1>t
<1> QED BY <1>1, <1>2

\* One whose subscription the step is not about reads on.
LEMMA ReaderKeeps ==
    ASSUME EventsIInv, NEW acted, SvcEffect(acted), NEW k \in Clients,
           lastId'[k] = lastId[k], shown'[k] = shown[k], link'[k] = link[k],
           Reading(k)' => Reading(k) /\ link[k] \notin acted
    PROVE  /\ Continues(k)'
           /\ Reading(k)' => /\ link'[k] \in Queues /\ subs'[link'[k]].state = "open"
                             /\ subs'[link'[k]].stream = StreamOf[k]
                             /\ subs'[link'[k]].user = UserOf[k]
<1> SUFFICES ASSUME Reading(k)'
             PROVE  /\ Continues(k)'
                    /\ link'[k] \in Queues /\ subs'[link'[k]].state = "open"
                    /\ subs'[link'[k]].stream = StreamOf[k]
                    /\ subs'[link'[k]].user = UserOf[k]
  BY DEF Continues
<1>q. PICK q \in Queues : q = link[k] /\ q \notin acted
  BY DEF EventsIInv, ClientInv, Linked
<1>s. PICK s \in Streams : s = StreamOf[k]
  BY ClientAssumption
<1>1. /\ subs[q].state = "open" /\ subs[q].stream = s /\ subs[q].user = UserOf[k]
      /\ Seen(k) /\ Fresh(k) /\ Continues(k) /\ FollowsOn(q) /\ Reading(k)
  BY <1>q, <1>s DEF EventsIInv, ClientInv, Linked, SvcEffect
<1>2. subs'[q].state = "open" /\ subs'[q].stream = s /\ subs'[q].user = UserOf[k]
  BY <1>1 DEF FollowsOn
<1>o. PICK old, new : old = subs[q].items /\ new = subs'[q].items
  OBVIOUS
<1>3. /\ old # <<>> /\ old[1] # StreamEnd =>
          /\ lastId[k] # 0 => old[1].n <= lastId[k] + 1
          /\ \A e \in shown[k] : /\ e.life <= old[1].life
                                 /\ e.life = old[1].life => old[1].n > lastId[k]
      /\ old = <<>> /\ lastId[k] # 0 /\ Registered(q) => streams[s].next <= lastId[k] + 1
  BY <1>1, <1>q, <1>s, <1>o DEF Continues, Registered
<1>4. \/ new = old /\ (Registered(q)' /\ old = <<>> => Registered(q) /\ streams'[s].next = streams[s].next)
      \/ old # <<>> /\ new # <<>> /\ new[1] = old[1]
      \/ /\ old = <<>> /\ new # <<>>
         /\ new[1] # StreamEnd =>
               Registered(q) /\ new[1].n = streams[s].next /\ new[1].life = lives[s]
  BY <1>1, <1>o DEF FollowsOn
<1>5. new # <<>> /\ new[1] # StreamEnd =>
          /\ lastId[k] # 0 => new[1].n <= lastId[k] + 1
          /\ \A e \in shown[k] : /\ e.life <= new[1].life
                                 /\ e.life = new[1].life => new[1].n > lastId[k]
  <2>1. CASE old # <<>>
    BY <2>1, <1>3, <1>4
  <2>2. CASE old = <<>>
    <3> SUFFICES ASSUME new # <<>>, new[1] # StreamEnd
                 PROVE  /\ lastId[k] # 0 => new[1].n <= lastId[k] + 1
                        /\ \A e \in shown[k] : /\ e.life <= new[1].life
                                               /\ e.life = new[1].life => new[1].n > lastId[k]
      OBVIOUS
    <3>1. Registered(q) /\ new[1].n = streams[s].next /\ new[1].life = lives[s]
      BY <2>2, <1>4
    <3>2. \A e \in shown[k] : e.life <= lives[s]
      BY <1>1, <1>s DEF Seen
    <3>3. \A e \in shown[k] : e.life = lives[s] => streams[s].next > lastId[k]
      <4>1. lastId[k] \in Nat /\ streams[s].next \in Nat
        BY <3>1, <1>1 DEF Registered, EventsIInv, ClientTypeOK, SvcIInv, SvcTypeOK, StreamState
      <4> QED BY <4>1, <3>1, <1>1, <1>s DEF Fresh, Registered
    <3> QED BY <2>2, <3>1, <3>2, <3>3, <1>3
  <2> QED BY <2>1, <2>2
<1>6. new = <<>> /\ lastId[k] # 0 /\ Registered(q)' => streams'[s].next <= lastId[k] + 1
  BY <1>3, <1>4
<1>7. Continues(k)'
  <2>1. s \in DOMAIN streams' /\ q \in streams'[s].subscribers => Registered(q)'
    BY <1>2 DEF Registered
  <2> QED BY <2>1, <1>5, <1>6, <1>q, <1>s, <1>o DEF Continues
<1> QED BY <1>2, <1>7, <1>q, <1>s

\* Steps at which no client sees an event or begins to read.
LEMMA AwayKeeps ==
    ASSUME EventsIInv, NEW acted, SvcEffect(acted), ClientTypeOK',
           UNCHANGED <<lastId, link, shown, skipped>>,
           \A k \in Clients : Reading(k)' => Reading(k) /\ link[k] \notin acted
    PROVE  EventsIInv'
<1>1. ASSUME NEW k \in Clients PROVE ClientInv(k)'
  <2>1. Seen(k)' /\ Fresh(k)'
    BY SeenKeeps
  <2>2. Continues(k)' /\ (Reading(k)' => /\ link'[k] \in Queues /\ subs'[link'[k]].state = "open"
                                         /\ subs'[link'[k]].stream = StreamOf[k]
                                         /\ subs'[link'[k]].user = UserOf[k])
    BY ReaderKeeps
  <2>3. Reading(k)' => \A j \in Clients \ {k} : Reading(j)' => link'[j] # link'[k]
    BY DEF EventsIInv, ClientInv, Linked
  <2> QED BY <2>1, <2>2, <2>3 DEF ClientInv, Linked
<1> QED BY <1>1 DEF EventsIInv, SvcEffect

Phases == {"idle", "opening", "subscribing", "reading", "closed", "failed"}

\* Entering a phase other than "reading", and a retry.
LEMMA EnterIs ==
    ASSUME ClientTypeOK, NEW k \in Clients,
           (\E p \in Phases \ {"reading"} : Enter(k, p)) \/ Retry(k)
    PROVE  /\ ClientTypeOK' /\ UNCHANGED <<lastId, link, shown, skipped>>
           /\ ~Reading(k)' /\ \A j \in Clients : Reading(j)' => Reading(j)
<1>1. CASE \E p \in Phases \ {"reading"} : Enter(k, p)
  <2>1. PICK p \in Phases \ {"reading"} : Enter(k, p)
    BY <1>1
  <2> QED BY <2>1 DEF Enter, ClientTypeOK, Phases, Reading
<1>2. CASE Retry(k)
  <2>1. UNCHANGED <<lastId, link, shown, skipped>>
    BY <1>2 DEF Retry
  <2>2. \E p \in {"opening", "failed"} : phase' = [phase EXCEPT ![k] = p]
    BY <1>2 DEF Retry, Reconnect
  <2>3. attempt' \in [Clients -> 0 .. MaxReconnects]
    BY <1>2, ClientAssumption DEF Retry, Reconnect, ClientTypeOK
  <2> QED BY <2>1, <2>2, <2>3 DEF ClientTypeOK, Reading
<1> QED BY <1>1, <1>2

\* What follows an event in its queue continues it.
LEMMA YieldNext ==
    ASSUME SvcIInv, NEW r \in Queues, Yield(r), NEW item, item = Head(subs[r].items),
           item # StreamEnd
    PROVE  LET s == subs[r].stream
               new == subs'[r].items
           IN
           /\ item \in Event /\ subs[r].items # <<>> /\ item = subs[r].items[1]
           /\ item.n > 0 /\ item.life <= lives[s]
           /\ s \in DOMAIN streams /\ item.life = lives[s] => item.n < streams[s].next
           /\ subs'[r].stream = s /\ subs'[r].user = subs[r].user /\ UNCHANGED <<streams, lives>>
           /\ ~item.terminal => subs'[r].state = "open"
           /\ new # <<>> /\ new[1] # StreamEnd => new[1].n = item.n + 1 /\ new[1].life = item.life
           /\ new = <<>> /\ Registered(r)' => streams'[s].next = item.n + 1
<1>t. subs \in [Queues -> Subscription] /\ subs[r] \in Subscription
  BY DEF SvcIInv, SvcTypeOK
<1>i. PICK items \in Seq(Event) : items = subs[r].items
  BY <1>t, EndIs DEF Subscription
<1>n. PICK n \in Nat : n = Len(items)
  BY LenProperties
<1>1. /\ n > 0 /\ items # <<>> /\ item = items[1] /\ item \in Event
      /\ Tail(items) \in Seq(Event) /\ Len(Tail(items)) = n - 1
      /\ \A i \in 1 .. n - 1 : Tail(items)[i] = items[i + 1]
  <2>1. items # <<>>
    BY <1>i DEF Yield
  <2>2. item = items[1] /\ item \in Event
    BY <2>1, <1>i, HeadTailProperties
  <2> QED BY <2>1, <2>2, <1>i, <1>n, HeadTailProperties, EmptySeq
<1>2. /\ subs'[r].items = Tail(items) /\ subs'[r].stream = subs[r].stream
      /\ subs'[r].user = subs[r].user /\ subs'[r].sent = item.n
      /\ ~item.terminal => subs'[r].state = "open"
      /\ UNCHANGED <<streams, lives>>
  BY <1>t, <1>i DEF Yield, Subscription
<1>3. QueueKept(r) /\ QueueBehind(r)
  BY DEF SvcIInv
<1>4. item.n > 0 /\ item.life <= lives[subs[r].stream]
  BY <1>1, <1>3, <1>i, <1>n DEF QueueKept
<1>5. subs[r].stream \in DOMAIN streams /\ item.life = lives[subs[r].stream]
         => item.n < streams[subs[r].stream].next
  BY <1>1, <1>3, <1>i, <1>n DEF QueueBehind
<1>6. PICK new \in Seq(Event) : new = Tail(items)
  BY <1>1
<1>7. ASSUME new # <<>>, new[1] # StreamEnd
      PROVE  new[1].n = item.n + 1 /\ new[1].life = item.life
  <2>1. 1 \in 1 .. n - 1
    BY <1>1, <1>6, <1>7, EmptySeq
  <2>2. new[1] = items[1 + 1]
    BY <2>1, <1>1, <1>6
  <2> QED BY <2>1, <2>2, <1>1, <1>3, <1>7, <1>i, <1>n DEF QueueKept
<1>8. ASSUME new = <<>>, Registered(r)'
      PROVE  streams'[subs[r].stream].next = item.n + 1
  <2>1. Attached(subs[r].stream, r)'
    BY <1>2, <1>8, YieldKeeps DEF Registered, SvcEffect, SvcIInv
  <2>2. item.n = streams'[subs[r].stream].next - 1
    BY <2>1, <1>2, <1>4, <1>6, <1>8 DEF Attached
  <2>3. streams'[subs[r].stream].next \in Nat
    BY <1>2, <1>8 DEF Registered, SvcIInv, SvcTypeOK, StreamState
  <2> QED BY <2>2, <2>3
<1> QED BY <1>1, <1>2, <1>4, <1>5, <1>6, <1>7, <1>8, <1>i

\* A client attaches with the last number it has seen.
LEMMA AttachKeeps ==
    ASSUME EventsIInv, NEW k \in Clients, NEW q \in Queues, phase[k] = "subscribing",
           Subscribe(q, StreamOf[k], UserOf[k], lastId[k]),
           phase' = [phase EXCEPT ![k] = "reading"],
           link' = [link EXCEPT ![k] = q],
           UNCHANGED <<attempt, lastId, shown, skipped>>
    PROVE  EventsIInv'
<1>s. PICK s \in Streams, u \in Users, last \in Nat :
         s = StreamOf[k] /\ u = UserOf[k] /\ last = lastId[k]
  BY ClientAssumption DEF EventsIInv, ClientTypeOK
<1>1. /\ SvcEffect({q}) /\ subs[q].state = "free"
      /\ subs'[q].state = "open" /\ subs'[q].stream = s /\ subs'[q].user = u
      /\ UNCHANGED lives
      /\ subs'[q].items # <<>> /\ subs'[q].items[1] # StreamEnd =>
            /\ subs'[q].items[1].n > last /\ subs'[q].items[1].life = lives[s]
            /\ last # 0 => subs'[q].items[1].n <= last + 1
      /\ subs'[q].items = <<>> /\ last # 0 => streams'[s].next <= last + 1
  <2>1. SvcIInv /\ Subscribe(q, s, u, last)
    BY <1>s DEF EventsIInv
  <2> QED BY <2>1, SubscribeKeeps
<1>2. ClientTypeOK'
  BY DEF EventsIInv, ClientTypeOK
<1>3. /\ link'[k] = q /\ Reading(k)'
      /\ \A j \in Clients \ {k} : link'[j] = link[j] /\ (Reading(j)' <=> Reading(j))
  BY DEF EventsIInv, ClientTypeOK, Reading
<1>4. \A j \in Clients \ {k} : Reading(j) => link[j] # q
  BY <1>1 DEF EventsIInv, ClientInv, Linked
<1>5. ASSUME NEW j \in Clients PROVE Seen(j)' /\ Fresh(j)'
  BY <1>1, SeenKeeps
<1>6. ASSUME NEW j \in Clients \ {k} PROVE Continues(j)' /\ Linked(j)'
  <2>1. /\ Continues(j)'
        /\ Reading(j)' => /\ link'[j] \in Queues /\ subs'[link'[j]].state = "open"
                          /\ subs'[link'[j]].stream = StreamOf[j]
                          /\ subs'[link'[j]].user = UserOf[j]
    BY <1>1, <1>3, <1>4, ReaderKeeps
  <2>2. Reading(j)' => \A i \in Clients \ {j} : Reading(i)' => link'[i] # link'[j]
    BY <1>3, <1>4 DEF EventsIInv, ClientInv, Linked
  <2> QED BY <2>1, <2>2 DEF Linked
<1>7. Linked(k)'
  BY <1>1, <1>3, <1>4, <1>s DEF Linked
<1>8. Continues(k)'
  <2>1. PICK new : new = subs'[q].items
    OBVIOUS
  <2>2. \A e \in shown[k] : e.life <= lives[s]
    BY <1>s DEF EventsIInv, ClientInv, Seen
  <2>3. new # <<>> /\ new[1] # StreamEnd =>
          /\ lastId'[k] # 0 => new[1].n <= lastId'[k] + 1
          /\ \A e \in shown'[k] : /\ e.life <= new[1].life
                                  /\ e.life = new[1].life => new[1].n > lastId'[k]
    BY <1>1, <1>s, <2>1, <2>2
  <2>4. new = <<>> /\ lastId'[k] # 0 => streams'[s].next <= lastId'[k] + 1
    BY <1>1, <1>s, <2>1
  <2> QED BY <1>3, <1>s, <2>1, <2>3, <2>4 DEF Continues
<1> QED BY <1>1, <1>2, <1>5, <1>6, <1>7, <1>8 DEF EventsIInv, ClientInv, SvcEffect

\* A client takes the next item: it shows the event, skips it, or stops reading.
LEMMA ReadKeeps ==
    ASSUME EventsIInv, NEW k \in Clients, Read(k)
    PROVE  EventsIInv'
<1>q. PICK q \in Queues : q = link[k]
  BY DEF EventsIInv, ClientInv, Linked, Read
<1>e. PICK e : e = Head(subs[q].items)
  OBVIOUS
<1>1. /\ Reading(k) /\ Yield(q) /\ SvcEffect({q})
      /\ (e = StreamEnd /\ Retry(k)) \/ (e # StreamEnd /\ OnEvent(k, e))
      /\ \A j \in Clients \ {k} : Reading(j) => link[j] # q
  BY <1>q, <1>e, YieldKeeps DEF Read, EventsIInv, ClientInv, Linked
<1>a. ASSUME ClientTypeOK', UNCHANGED <<lastId, link, shown, skipped>>, ~Reading(k)',
             \A j \in Clients : Reading(j)' => Reading(j)
      PROVE  EventsIInv'
  <2>1. \A j \in Clients : Reading(j)' => Reading(j) /\ link[j] \notin {q}
    BY <1>1, <1>a
  <2> QED BY <2>1, <1>a, <1>1, AwayKeeps
<1>2. CASE e = StreamEnd
  BY <1>2, <1>1, <1>a, EnterIs DEF EventsIInv
<1>3. CASE e # StreamEnd
  <2>s. PICK s \in Streams : s = StreamOf[k]
    BY ClientAssumption
  <2>n. PICK new : new = subs'[q].items
    OBVIOUS
  <2>0. subs[q].stream = s /\ subs[q].user = UserOf[k]
    BY <1>1, <1>q, <2>s DEF EventsIInv, ClientInv, Linked
  <2>1. /\ e \in Event /\ subs[q].items # <<>> /\ e = subs[q].items[1]
        /\ e.n > 0 /\ e.life <= lives[s]
        /\ s \in DOMAIN streams /\ e.life = lives[s] => e.n < streams[s].next
        /\ subs'[q].stream = s /\ subs'[q].user = UserOf[k] /\ UNCHANGED <<streams, lives>>
        /\ ~e.terminal => subs'[q].state = "open"
        /\ new # <<>> /\ new[1] # StreamEnd => new[1].n = e.n + 1 /\ new[1].life = e.life
        /\ new = <<>> /\ Registered(q)' => streams'[s].next = e.n + 1
    <3>1. SvcIInv /\ Yield(q)
      BY <1>1 DEF EventsIInv
    <3> QED BY <3>1, <1>e, <1>3, <2>0, <2>n, YieldNext
  <2>t. /\ lastId \in [Clients -> Nat] /\ shown \in [Clients -> SUBSET Event]
        /\ skipped \in [Clients -> SUBSET Event] /\ lives[s] \in Nat
        /\ lastId[k] \in Nat /\ e.n \in Nat /\ e.life \in Nat
        /\ shown[k] \subseteq Event /\ skipped[k] \subseteq Event
        /\ s \in DOMAIN streams => streams[s].next \in Nat
    BY <2>1 DEF EventsIInv, ClientTypeOK, Event, SvcIInv, SvcTypeOK, StreamState
  <2>2. /\ lastId[k] # 0 => e.n <= lastId[k] + 1
        /\ \A f \in shown[k] : f.life <= e.life /\ (f.life = e.life => e.n > lastId[k])
        /\ \A f \in shown[k] \cup skipped[k] : f.n <= lastId[k] /\ f.life <= lives[s] /\ f.n \in Nat /\ f.life \in Nat
        /\ \A f \in shown[k], g \in skipped[k] : f.life = g.life => g.n < f.n
        /\ lastId[k] # 0 => \E f \in shown[k] : f.n = lastId[k]
        /\ \A g \in skipped[k] : \E f \in shown[k] : f.life < g.life /\ g.n <= f.n
        /\ s \in DOMAIN streams /\ (\E f \in shown[k] : f.life = lives[s]) => lastId[k] < streams[s].next
    <3>1. Continues(k) /\ Seen(k) /\ Fresh(k)
      BY DEF EventsIInv, ClientInv
    <3>2. \A f \in shown[k] \cup skipped[k] : f.n \in Nat /\ f.life \in Nat
      BY <2>t DEF Event
    <3>3. /\ lastId[k] # 0 => e.n <= lastId[k] + 1
          /\ \A f \in shown[k] : f.life <= e.life /\ (f.life = e.life => e.n > lastId[k])
      BY <3>1, <1>1, <1>q, <1>3, <2>1 DEF Continues
    <3> QED BY <3>1, <3>2, <3>3, <2>s DEF Seen, Fresh
  \* What the rest of the queue means to a client whose last number becomes l.
  <2>3. ASSUME lastId'[k] >= e.n, lastId'[k] \in Nat, link'[k] = q,
               \A f \in shown'[k] : /\ f.life <= e.life
                                    /\ f.life = e.life => lastId'[k] = e.n
        PROVE  Continues(k)'
    <3>1. ASSUME new # <<>>, new[1] # StreamEnd
          PROVE  /\ new[1].n <= lastId'[k] + 1
                 /\ \A f \in shown'[k] : /\ f.life <= new[1].life
                                         /\ f.life = new[1].life => new[1].n > lastId'[k]
      BY <3>1, <2>1, <2>3, <2>t
    <3>2. ASSUME new = <<>>, s \in DOMAIN streams', q \in streams'[s].subscribers
          PROVE  streams'[s].next <= lastId'[k] + 1
      <4>1. Registered(q)'
        BY <3>2, <2>1 DEF Registered
      <4> QED BY <4>1, <3>2, <2>1, <2>3, <2>t
    <3> QED BY <3>1, <3>2, <2>3, <2>n, <2>s DEF Continues
  \* The other clients, and what they and k read.
  <2>4. ASSUME ClientTypeOK', link' = link,
               \A j \in Clients \ {k} : /\ lastId'[j] = lastId[j] /\ shown'[j] = shown[j]
                                        /\ skipped'[j] = skipped[j]
                                        /\ Reading(j)' <=> Reading(j),
               Reading(k)' => ~e.terminal,
               Seen(k)', Fresh(k)', Continues(k)'
        PROVE  EventsIInv'
    <3>1. ASSUME NEW j \in Clients \ {k}
          PROVE  /\ Seen(j)' /\ Fresh(j)' /\ Continues(j)'
                 /\ Reading(j)' => /\ link'[j] \in Queues /\ subs'[link'[j]].state = "open"
                                   /\ subs'[link'[j]].stream = StreamOf[j]
                                   /\ subs'[link'[j]].user = UserOf[j]
      <4>1. lastId'[j] = lastId[j] /\ shown'[j] = shown[j] /\ skipped'[j] = skipped[j] /\ link'[j] = link[j]
        BY <2>4
      <4>2. Reading(j)' => Reading(j) /\ link[j] \notin {q}
        BY <2>4, <1>1
      <4>3. Seen(j)' /\ Fresh(j)'
        BY <4>1, <1>1, SeenKeeps
      <4> QED BY <4>1, <4>2, <4>3, <1>1, ReaderKeeps
    <3>2. ASSUME NEW j \in Clients PROVE Linked(j)'
      <4>1. Reading(j)' => Reading(j)
        BY <2>4, <1>1
      <4>2. Reading(j)' => \A i \in Clients \ {j} : Reading(i)' => link'[i] # link'[j]
        BY <2>4, <4>1, <1>1 DEF EventsIInv, ClientInv, Linked
      <4>3. CASE j = k
        <5>1. Reading(k)' => /\ link'[k] \in Queues /\ subs'[link'[k]].state = "open"
                             /\ subs'[link'[k]].stream = StreamOf[k]
                             /\ subs'[link'[k]].user = UserOf[k]
          BY <2>4, <2>1, <2>s, <1>q
        <5> QED BY <4>2, <4>3, <5>1 DEF Linked
      <4>4. CASE j # k
        BY <4>2, <4>4, <3>1 DEF Linked
      <4> QED BY <4>3, <4>4
    <3>3. \A j \in Clients : ClientInv(j)'
      BY <2>4, <3>1, <3>2 DEF ClientInv
    <3> QED BY <3>3, <2>4, <1>1 DEF EventsIInv, SvcEffect
  <2>5. CASE /\ e.n <= lastId[k]
             /\ skipped' = [skipped EXCEPT ![k] = @ \cup {e}]
             /\ IF e.terminal THEN Reconnect(k) ELSE UNCHANGED <<phase, attempt>>
             /\ UNCHANGED <<lastId, link, shown>>
    <3>1. /\ skipped'[k] = skipped[k] \cup {e} /\ skipped' \in [Clients -> SUBSET Event]
          /\ \A j \in Clients \ {k} : skipped'[j] = skipped[j]
      BY <2>5, <2>t, <2>1
    <3>2. /\ phase' \in [Clients -> Phases] /\ attempt' \in [Clients -> 0 .. MaxReconnects]
          /\ Reading(k)' => ~e.terminal
          /\ \A j \in Clients \ {k} : Reading(j)' <=> Reading(j)
      <4>t. phase \in [Clients -> Phases] /\ attempt \in [Clients -> 0 .. MaxReconnects]
        BY DEF EventsIInv, ClientTypeOK, Phases
      <4>1. CASE e.terminal
        <5>1. \E p \in {"opening", "failed"} : phase' = [phase EXCEPT ![k] = p]
          BY <2>5, <4>1 DEF Reconnect
        <5>2. attempt' \in [Clients -> 0 .. MaxReconnects]
          BY <2>5, <4>1, <4>t, ClientAssumption DEF Reconnect
        <5> QED BY <5>1, <5>2, <4>t DEF Reading, Phases
      <4>2. CASE ~e.terminal
        BY <2>5, <4>2, <4>t DEF Reading
      <4> QED BY <4>1, <4>2
    <3>3. ClientTypeOK'
      BY <2>5, <3>1, <3>2 DEF EventsIInv, ClientTypeOK, Phases
    <3>4. \A f \in shown[k] : f.life # e.life
      BY <2>2, <2>5, <2>t
    <3>5. Seen(k)'
      <4>1. \A f \in shown[k] \cup (skipped[k] \cup {e}) : f.n <= lastId[k] /\ f.life <= lives[s]
        BY <2>1, <2>2, <2>5
      <4>2. \A f \in shown[k], g \in skipped[k] \cup {e} : f.life = g.life => g.n < f.n
        BY <2>2, <3>4
      <4>3. \E f \in shown[k] : f.life < e.life /\ e.n <= f.n
        <5>1. PICK f \in shown[k] : f.n = lastId[k]
          BY <2>1, <2>2, <2>5, <2>t
        <5>2. f.life < e.life
          BY <2>2, <2>t, <3>4
        <5> QED BY <5>1, <5>2, <2>5
      <4>4. \A g \in skipped[k] \cup {e} : \E f \in shown[k] : f.life < g.life /\ g.n <= f.n
        BY <2>2, <4>3
      <4> QED BY <4>1, <4>2, <4>4, <2>2, <2>5, <2>1, <2>s, <3>1 DEF Seen
    <3>6. Fresh(k)'
      BY <2>1, <2>2, <2>5, <2>s DEF Fresh
    <3>7. Continues(k)'
      <4>1. lastId'[k] = lastId[k] /\ shown'[k] = shown[k] /\ link'[k] = q
        BY <2>5, <1>q
      <4> QED BY <4>1, <2>2, <2>3, <2>5, <2>t, <3>4
    <3> QED BY <2>4, <2>5, <3>1, <3>2, <3>3, <3>5, <3>6, <3>7
  <2>6. CASE /\ e.n > lastId[k] /\ lastId[k] > 0 /\ e.n # lastId[k] + 1
             /\ Enter(k, "failed")
    <3>1. \E p \in Phases \ {"reading"} : Enter(k, p)
      BY <2>6 DEF Phases
    <3>2. ClientTypeOK
      BY DEF EventsIInv
    <3> QED BY <3>1, <3>2, <1>a, EnterIs
  <2>7. CASE /\ e.n > lastId[k] /\ (lastId[k] = 0 \/ e.n = lastId[k] + 1)
             /\ shown' = [shown EXCEPT ![k] = @ \cup {e}]
             /\ lastId' = [lastId EXCEPT ![k] = e.n]
             /\ phase' = [phase EXCEPT ![k] = IF e.terminal THEN "closed" ELSE @]
             /\ UNCHANGED <<attempt, link, skipped>>
    <3>1. /\ shown'[k] = shown[k] \cup {e} /\ shown' \in [Clients -> SUBSET Event]
          /\ lastId'[k] = e.n /\ lastId' \in [Clients -> Nat]
          /\ \A j \in Clients \ {k} : shown'[j] = shown[j] /\ lastId'[j] = lastId[j]
      BY <2>7, <2>t, <2>1
    <3>2. /\ phase' \in [Clients -> Phases]
          /\ Reading(k)' => ~e.terminal
          /\ \A j \in Clients \ {k} : Reading(j)' <=> Reading(j)
      BY <2>7 DEF EventsIInv, ClientTypeOK, Reading, Phases
    <3>3. ClientTypeOK'
      BY <2>7, <3>1, <3>2 DEF EventsIInv, ClientTypeOK, Phases
    <3>5. Seen(k)'
      <4>1. \A f \in (shown[k] \cup {e}) \cup skipped[k] : f.n <= e.n /\ f.life <= lives[s]
        BY <2>1, <2>2, <2>7, <2>t
      <4>2. \A f \in shown[k] \cup {e}, g \in skipped[k] : f.life = g.life => g.n < f.n
        BY <2>2, <2>7, <2>t
      <4>3. \A g \in skipped[k] : \E f \in shown[k] \cup {e} : f.life < g.life /\ g.n <= f.n
        BY <2>2
      <4> QED BY <4>1, <4>2, <4>3, <2>7, <2>1, <2>s, <3>1 DEF Seen
    <3>6. Fresh(k)'
      <4> SUFFICES ASSUME s \in DOMAIN streams, NEW f \in shown[k] \cup {e}, f.life = lives[s]
                   PROVE  e.n < streams[s].next
        BY <2>1, <2>s, <3>1 DEF Fresh
      <4>1. e.life = lives[s]
        BY <2>1, <2>2, <2>t
      <4> QED BY <4>1, <2>1
    <3>7. Continues(k)'
      <4>1. link'[k] = q
        BY <2>7, <1>q
      <4>2. \A f \in shown'[k] : f.life <= e.life
        BY <2>2, <2>t, <3>1
      <4> QED BY <4>1, <4>2, <2>3, <2>t, <3>1
    <3>8. skipped' = skipped /\ link' = link
      BY <2>7
    <3> QED BY <2>4, <3>1, <3>2, <3>3, <3>5, <3>6, <3>7, <3>8
  <2> QED BY <1>1, <1>3, <2>5, <2>6, <2>7 DEF OnEvent
<1> QED BY <1>2, <1>3

LEMMA EventsInitially ==
    ASSUME Init
    PROVE  EventsIInv
<1>1. SvcIInv
  <2>1. /\ DOMAIN streams = {} /\ lives \in [Streams -> Nat] /\ subs = [q \in Queues |-> Free]
        /\ pub \in [Publishers -> Publications]
    BY BlanksTyped DEF Init, SvcInit
  <2>2. IsFiniteSet(DOMAIN streams) /\ Cardinality(DOMAIN streams) <= StreamLimit
    BY <2>1, FS_EmptySet, EventsAssumption
  <2>3. SvcTypeOK
    BY <2>1, <2>2, BlanksTyped DEF SvcTypeOK, Publications
  <2>4. \A q \in Queues : QueueKept(q) /\ QueueBehind(q)
    <3>1. Len(<< >>) = 0 /\ QueueSize \in Nat
      BY EmptySeq, EventsAssumption DEF QueueSize
    <3> QED BY <2>1, <3>1, BlanksTyped DEF QueueKept, QueueBehind
  <2> QED BY <2>1, <2>2, <2>3, <2>4 DEF SvcIInv
<1>2. ClientTypeOK
  BY ClientAssumption DEF Init, ClientTypeOK
<1>3. \A k \in Clients : ClientInv(k)
  BY DEF Init, ClientInv, Linked, Seen, Fresh, Continues, Reading
<1> QED BY <1>1, <1>2, <1>3 DEF EventsIInv

LEMMA EventsStep ==
    ASSUME EventsIInv, [Next]_vars
    PROVE  EventsIInv'
<1>i. SvcIInv /\ ClientTypeOK
  BY DEF EventsIInv
<1>f. ASSUME NEW k \in Clients, SvcEffect({}),
             (\E p \in Phases \ {"reading"} : Enter(k, p)) \/ Retry(k)
      PROVE  EventsIInv'
  <2>1. /\ ClientTypeOK' /\ UNCHANGED <<lastId, link, shown, skipped>>
        /\ \A j \in Clients : Reading(j)' => Reading(j)
    BY <1>f, <1>i, EnterIs
  <2> QED BY <2>1, <1>f, AwayKeeps
<1>u. ASSUME UNCHANGED clientVars
      PROVE  /\ ClientTypeOK' /\ UNCHANGED <<lastId, link, shown, skipped>>
             /\ \A j \in Clients : Reading(j)' <=> Reading(j)
  BY <1>u, <1>i DEF clientVars, ClientTypeOK, Reading
<1>q. UNCHANGED svcVars => SvcEffect({})
  BY <1>i, QuietSteps
<1>1. ASSUME NEW k \in Clients, Start(k) PROVE EventsIInv'
  BY <1>1, <1>f, <1>q DEF Start, Phases
<1>2. ASSUME NEW k \in Clients, Connect(k) PROVE EventsIInv'
  <2>0. StreamOf[k] \in Streams /\ UserOf[k] \in Users
    BY ClientAssumption
  <2>1. CASE OpenStream(StreamOf[k], UserOf[k]) /\ Enter(k, "subscribing")
    <3>1. SvcEffect({})
      BY <2>0, <2>1, <1>i, OpenStreamKeeps
    <3> QED BY <3>1, <2>1, <1>f DEF Phases
  <2>2. CASE Denied(StreamOf[k], UserOf[k]) /\ Enter(k, "failed")
    <3>1. SvcEffect({})
      BY <2>0, <2>2, <1>i, QuietSteps
    <3> QED BY <3>1, <2>2, <1>f DEF Phases
  <2>3. CASE CapacityReached(StreamOf[k]) /\ Retry(k)
    <3>1. SvcEffect({})
      BY <2>0, <2>3, <1>i, QuietSteps
    <3> QED BY <3>1, <2>3, <1>f
  <2> QED BY <1>2, <2>1, <2>2, <2>3 DEF Connect
<1>3. ASSUME NEW k \in Clients, Attach(k) PROVE EventsIInv'
  <2>0. StreamOf[k] \in Streams /\ UserOf[k] \in Users /\ lastId[k] \in Nat
    BY ClientAssumption, <1>i DEF ClientTypeOK
  <2>1. CASE \E q \in Queues :
                /\ Subscribe(q, StreamOf[k], UserOf[k], lastId[k])
                /\ phase' = [phase EXCEPT ![k] = "reading"]
                /\ link' = [link EXCEPT ![k] = q]
                /\ UNCHANGED <<attempt, lastId, shown, skipped>>
    BY <1>3, <2>1, AttachKeeps DEF Attach
  <2>2. CASE /\ \/ Denied(StreamOf[k], UserOf[k])
                \/ NotFound(StreamOf[k])
                \/ ReplayUnavailable(StreamOf[k], UserOf[k], lastId[k])
             /\ Enter(k, "failed")
    <3>1. SvcEffect({})
      BY <2>0, <2>2, <1>i, QuietSteps
    <3> QED BY <3>1, <2>2, <1>f DEF Phases
  <2> QED BY <1>3, <2>1, <2>2 DEF Attach
<1>4. ASSUME NEW k \in Clients, Read(k) PROVE EventsIInv'
  BY <1>4, ReadKeeps
<1>5. ASSUME NEW k \in Clients, Break(k) PROVE EventsIInv'
  BY <1>5, <1>f, <1>q DEF Break
<1>6. ASSUME NEW k \in Clients, CloseClient(k) PROVE EventsIInv'
  BY <1>6, <1>f, <1>q DEF CloseClient, Phases
<1>7. ASSUME NEW q \in Queues, ServerStep(q) PROVE EventsIInv'
  <2>u. /\ ClientTypeOK' /\ UNCHANGED <<lastId, link, shown, skipped>>
        /\ \A j \in Clients : Reading(j)' <=> Reading(j)
    BY <1>7, <1>u DEF ServerStep
  <2>1. SvcEffect({q}) /\ \A k \in Clients : Reading(k) => link[k] # q
    <3>1. CASE Orphan(q) /\ Yield(q)
      BY <3>1, <1>i, YieldKeeps DEF Orphan
    <3>2. CASE Orphan(q) /\ Disconnected(q)
      BY <3>2, <1>i, DisconnectedKeeps DEF Orphan
    <3>3. CASE RemoveSubscription(q)
      <4>1. SvcEffect({q}) /\ subs[q].state = "closing"
        BY <3>3, <1>i, RemoveKeeps
      <4> QED BY <4>1 DEF EventsIInv, ClientInv, Linked
    <3> QED BY <1>7, <3>1, <3>2, <3>3 DEF ServerStep
  <2>2. \A k \in Clients : Reading(k)' => Reading(k) /\ link[k] \notin {q}
    BY <2>1, <2>u
  <2> QED BY <2>1, <2>2, <2>u, AwayKeeps
<1>8. ASSUME Environment PROVE EventsIInv'
  <2>u. /\ ClientTypeOK' /\ UNCHANGED <<lastId, link, shown, skipped>>
        /\ \A j \in Clients : Reading(j)' <=> Reading(j)
    BY <1>8, <1>u DEF Environment
  <2>1. SvcEffect({})
    <3>1. CASE \E s \in Streams, u \in Users : OpenStream(s, u)
      BY <3>1, <1>i, OpenStreamKeeps
    <3>2. CASE \E p \in Publishers, k \in Clients, u \in Users : BindPublisher(p, StreamOf[k], u)
      <4>1. \E p \in Publishers, s \in Streams, u \in Users : BindPublisher(p, s, u)
        BY <3>2, ClientAssumption
      <4> QED BY <4>1, <1>i, QuietSteps
    <3>3. CASE \E p \in Publishers : Publish(p, FALSE) \/ Publish(p, TRUE)
      BY <3>3, <1>i, PublishKeeps
    <3>4. CASE \E p \in Publishers : PublishRaises(p)
      BY <3>4, <1>i, QuietSteps
    <3>5. CASE \E s \in Streams : TimePasses(s)
      BY <3>5, <1>i, QuietSteps
    <3>6. CASE CloseService
      BY <3>6, <1>i, CloseKeeps
    <3> QED BY <1>8, <3>1, <3>2, <3>3, <3>4, <3>5, <3>6 DEF Environment
  <2> QED BY <2>1, <2>u, AwayKeeps
<1>9. ASSUME UNCHANGED vars PROVE EventsIInv'
  <2>1. SvcEffect({}) /\ UNCHANGED clientVars
    BY <1>9, <1>q DEF vars
  <2> QED BY <2>1, <1>u, AwayKeeps
<1> QED
  BY <1>1, <1>2, <1>3, <1>4, <1>5, <1>6, <1>7, <1>8, <1>9 DEF Next

-----------------------------------------------------------------------------
\* The inductive invariant holds.
THEOREM EventsInvariant == Spec => []EventsIInv
<1>1. Init => EventsIInv
  BY EventsInitially
<1>2. EventsIInv /\ [Next]_vars => EventsIInv'
  BY EventsStep
<1> QED BY <1>1, <1>2, PTL DEF Spec

\* The service keeps its types, its histories within their limit and no more
\* streams than it may.
THEOREM EventsTypes == Spec => []SvcTypeOK
<1>1. EventsIInv => SvcTypeOK
  BY DEF EventsIInv, SvcIInv
<1> QED BY <1>1, EventsInvariant, PTL

\* An event reaches only the user whose request published it.
THEOREM EventsIsolated == Spec => []OwnerIsolation
<1>1. EventsIInv => OwnerIsolation
  BY DEF EventsIInv, SvcIInv, QueueKept, OwnerIsolation
<1> QED BY <1>1, EventsInvariant, PTL

\* The events of a queue are its items without the end marker.
LEMMA PendingIs ==
    ASSUME SvcIInv, NEW q \in Queues
    PROVE  \E b \in Nat :
              /\ b \in {Len(subs[q].items), Len(subs[q].items) - 1}
              /\ Pending(q) \in Seq(Event) /\ Len(Pending(q)) = b
              /\ \A i \in 1 .. b : Pending(q)[i] = subs[q].items[i] /\ subs[q].items[i] # StreamEnd
              /\ b # Len(subs[q].items) => subs[q].items[Len(subs[q].items)] = StreamEnd
<1>i. PICK items \in Seq(Event) : items = subs[q].items
  BY EndIs DEF SvcIInv, SvcTypeOK, Subscription
<1>n. PICK n \in Nat : n = Len(items)
  BY LenProperties
<1>1. \A i \in 1 .. n : items[i] \in Event /\ (i < n => items[i] # StreamEnd)
  <2>1. \A i \in 1 .. n : items[i] \in Event
    BY <1>n, ElementOfSeq
  <2>2. \A i \in 1 .. n - 1 : items[i] # StreamEnd
    BY <1>i, <1>n DEF SvcIInv, QueueKept
  <2> QED BY <2>1, <2>2
<1>2. PICK b \in Nat : b = IF n > 0 /\ items[n] = StreamEnd THEN n - 1 ELSE n
  OBVIOUS
<1>3. PICK w : w = Event \ {StreamEnd}
  OBVIOUS
<1>4. \A i \in 1 .. n : items[i] \in w <=> i \in 1 .. b
  BY <1>1, <1>2, <1>3
<1>5. Selected(items, w) = SubSeq(items, 1, b)
  <2>1. /\ 1 \in 1 .. Len(items) + 1 /\ b \in 1 - 1 .. Len(items)
        /\ \A i \in 1 .. Len(items) : items[i] \in w <=> i \in 1 .. b
    BY <1>n, <1>2, <1>4
  <2> QED BY <2>1, SelectedRange
<1>6. /\ SubSeq(items, 1, b) \in Seq(Event) /\ Len(SubSeq(items, 1, b)) = b
      /\ \A i \in 1 .. b : SubSeq(items, 1, b)[i] = items[i]
  <2>1. \A i \in 1 .. b : items[i] \in Event
    BY <1>1, <1>2
  <2>2. /\ SubSeq(items, 1, b) \in Seq(Event)
        /\ Len(SubSeq(items, 1, b)) = IF 1 <= b THEN b - 1 + 1 ELSE 0
        /\ \A i \in 1 .. b - 1 + 1 : SubSeq(items, 1, b)[i] = items[1 + i - 1]
    BY <2>1, SubSeqProperties
  <2>3. b - 1 + 1 = b /\ \A i \in 1 .. b : 1 + i - 1 = i
    OBVIOUS
  <2> QED BY <2>2, <2>3
<1>7. Pending(q) = SubSeq(items, 1, b)
  BY <1>3, <1>5, <1>i DEF Pending
<1>8. b \in {n, n - 1} /\ (b # n => items[n] = StreamEnd) /\ \A i \in 1 .. b : items[i] # StreamEnd
  BY <1>1, <1>2
<1> QED BY <1>6, <1>7, <1>8, <1>i, <1>n

\* A subscription yields consecutive numbers, and while it is registered it is
\* up to date.
THEOREM EventsContiguous == Spec => []ConnectionContiguous
<1>1. ASSUME SvcIInv, NEW q \in Queues
      PROVE  LET pending == Pending(q) IN
             /\ Len(subs[q].items) <= QueueSize
             /\ \A i \in 1 .. Len(pending) - 1 : pending[i + 1].n = pending[i].n + 1
             /\ subs[q].sent # 0 /\ pending # <<>> => pending[1].n = subs[q].sent + 1
             /\ \A s \in DOMAIN streams : q \in streams[s].subscribers =>
                   /\ pending # <<>> => pending[Len(pending)].n = streams[s].next - 1
                   /\ pending = <<>> /\ subs[q].sent # 0 => subs[q].sent = streams[s].next - 1
  <2>1. PICK b \in Nat :
              /\ b \in {Len(subs[q].items), Len(subs[q].items) - 1}
              /\ Pending(q) \in Seq(Event) /\ Len(Pending(q)) = b
              /\ \A i \in 1 .. b : Pending(q)[i] = subs[q].items[i] /\ subs[q].items[i] # StreamEnd
              /\ b # Len(subs[q].items) => subs[q].items[Len(subs[q].items)] = StreamEnd
    BY <1>1, PendingIs
  <2>2. PICK items \in Seq(Event), pending \in Seq(Event) : items = subs[q].items /\ pending = Pending(q)
    BY <1>1, <2>1, EndIs DEF SvcIInv, SvcTypeOK, Subscription
  <2>3. PICK n \in Nat : n = Len(items)
    BY LenProperties
  <2>4. /\ b \in {n, n - 1} /\ Len(pending) = b
        /\ \A i \in 1 .. b : pending[i] = items[i] /\ items[i] # StreamEnd
        /\ b # n => items[n] = StreamEnd
    BY <2>1, <2>2, <2>3
  <2>5. QueueKept(q)
    BY <1>1 DEF SvcIInv
  <2>6. ASSUME NEW i \in 1 .. b - 1 PROVE pending[i + 1].n = pending[i].n + 1
    <3>1. i \in 1 .. b /\ i + 1 \in 1 .. b /\ i \in 1 .. n - 1
      BY <2>4
    <3>2. items[i + 1] # StreamEnd /\ pending[i] = items[i] /\ pending[i + 1] = items[i + 1]
      BY <3>1, <2>4
    <3> QED BY <3>1, <3>2, <2>2, <2>3, <2>5 DEF QueueKept
  <2>7. pending # <<>> <=> b > 0
    BY <2>4, EmptySeq
  <2>8. items # <<>> <=> n > 0
    BY <2>3, EmptySeq
  <2>9. subs[q].sent # 0 /\ pending # <<>> => pending[1].n = subs[q].sent + 1
    <3>1. b > 0 => n > 0 /\ pending[1] = items[1] /\ items[1] # StreamEnd
      BY <2>4
    <3> QED BY <3>1, <2>2, <2>5, <2>7, <2>8 DEF QueueKept
  <2>10. ASSUME NEW s \in DOMAIN streams, q \in streams[s].subscribers
         PROVE  /\ pending # <<>> => pending[b].n = streams[s].next - 1
                /\ pending = <<>> /\ subs[q].sent # 0 => subs[q].sent = streams[s].next - 1
    <3>1. Attached(s, q)
      BY <1>1, <2>10 DEF SvcIInv
    <3>2. items # <<>> => items[n] # StreamEnd /\ items[n].n = streams[s].next - 1
      BY <3>1, <2>2, <2>3 DEF Attached
    <3>3. b = n
      BY <3>2, <2>4, <2>8
    <3>4. b > 0 => pending[b] = items[n]
      BY <3>3, <2>4
    <3> QED BY <3>1, <3>2, <3>3, <3>4, <2>2, <2>7, <2>8 DEF Attached
  <2>11. Len(items) <= QueueSize
    BY <2>2, <2>5 DEF QueueKept
  <2> QED BY <2>2, <2>4, <2>6, <2>9, <2>10, <2>11
<1>2. EventsIInv => ConnectionContiguous
  BY <1>1 DEF EventsIInv, ConnectionContiguous, QueueWithinBound
<1> QED BY <1>2, EventsInvariant, PTL

\* A client never meets a gap, is sent no event twice, and withholds one only
\* of a stream that began again below what an earlier life had shown.
THEOREM EventsResumed == Spec => []ResumedWithinLife
<1>1. ASSUME EventsIInv, NEW k \in Clients
      PROVE  skipped[k] \cap shown[k] = {}
  <2>1. \A e \in shown[k] : e.n \in Nat
    BY <1>1 DEF EventsIInv, ClientTypeOK, Event
  <2>2. \A e \in shown[k], f \in skipped[k] : e.life = f.life => f.n < e.n
    BY <1>1 DEF EventsIInv, ClientInv, Seen
  <2> QED BY <2>1, <2>2
<1>2. ASSUME EventsIInv, NEW k \in Clients, Reading(k), Pending(link[k]) # <<>>, lastId[k] # 0
      PROVE  Pending(link[k])[1].n <= lastId[k] + 1
  <2>1. PICK q \in Queues : q = link[k]
    BY <1>2 DEF EventsIInv, ClientInv, Linked
  <2>2. SvcIInv /\ Continues(k)
    BY <1>2 DEF EventsIInv, ClientInv
  <2>3. PICK b \in Nat :
              /\ b \in {Len(subs[q].items), Len(subs[q].items) - 1}
              /\ Pending(q) \in Seq(Event) /\ Len(Pending(q)) = b
              /\ \A i \in 1 .. b : Pending(q)[i] = subs[q].items[i] /\ subs[q].items[i] # StreamEnd
    BY <2>2, PendingIs
  <2>4. b > 0
    BY <1>2, <2>1, <2>3, EmptySeq
  <2>5. Pending(q)[1] = subs[q].items[1] /\ subs[q].items[1] # StreamEnd
    BY <2>3, <2>4
  <2>6. subs[q].items # <<>>
    <3>1. Len(<< >>) = 0
      BY EmptySeq
    <3> QED BY <3>1, <2>3, <2>4
  <2> QED BY <1>2, <2>1, <2>2, <2>5, <2>6 DEF Continues
<1>0. EventsIInv => \A k \in Clients : \A f \in skipped[k] : \E e \in shown[k] : e.life < f.life /\ f.n <= e.n
  BY DEF EventsIInv, ClientInv, Seen
<1>3. EventsIInv => ResumedWithinLife
  BY <1>0, <1>1, <1>2 DEF ResumedWithinLife
<1> QED BY <1>3, EventsInvariant, PTL

=============================================================================
