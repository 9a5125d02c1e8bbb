--------------------------- MODULE RealtimeProofs ---------------------------
(* Proofs about Realtime: who hears of a change, and that a publisher never *)
(* meets a closed channel.  A publisher addresses streams that are open and *)
(* whose user it read from the project's members; until it has sent, the    *)
(* hub's read lock keeps those streams as they are.                         *)
EXTENDS Realtime, SequenceTheorems, TLAPS

StreamType == [step : {"none", "allowed", "open"}, user : People \cup {NoPerson},
               filter : Projects \cup {EveryProject, NoProject}, queue : Seq(Changes)]

ChangeType == [step : {"none", "committed", "addressed", "sending", "published", "pushing",
                       "done", "lost"},
               kind : {"none", "cost_item", "member"}, project : Projects \cup {NoProject},
               actor : People \cup {NoPerson}, extra : SUBSET People, users : SUBSET People,
               streams : SUBSET Streams, asked : SUBSET Devices,
               reached : SUBSET Devices, refused : SUBSET Devices]

\* A stream that is not registered holds nothing.
ClosedAreEmpty == \A s \in Streams : stream[s].step # "open" => stream[s].queue = <<>>

\* What is queued was committed, and is not committed again.
QueuedAreCommitted ==
    \A s \in Streams : \A i \in DOMAIN stream[s].queue : change[stream[s].queue[i]].step # "none"

\* A project's members, and whomever a handler tells beside them, may hear.
MembersEntitled ==
    \A c \in Changes : change[c].step # "none" => /\ change[c].project \in Projects
                                                  /\ members[change[c].project] \subseteq entitled[c]
TargetsEntitled == \A c \in Changes : change[c].extra \cup change[c].users \subseteq entitled[c]

\* A publisher sends to streams that its event is for.
TargetsAddressed == \A c \in Changes : change[c].step = "sending" => change[c].streams \subseteq Addressees(c)

RealtimeInv ==
    /\ RealtimeTypeOK /\ ClosedAreEmpty /\ QueuedAreCommitted
    /\ MembersEntitled /\ TargetsEntitled /\ TargetsAddressed /\ EventsStayInside

LEMMA RealtimeTypes ==
    ASSUME RealtimeTypeOK
    PROVE  /\ stream \in [Streams -> StreamType] /\ change \in [Changes -> ChangeType]
           /\ NoStream \in StreamType /\ NoChange \in ChangeType
BY DEF RealtimeTypeOK, StreamType, ChangeType, NoStream, NoChange

\* What is sent stays sent when a variable of its handler is dropped.
LEMMA OverTyped ==
    ASSUME RealtimeTypeOK, NEW c \in Changes, NEW s \in {"done", "lost"}
    PROVE  /\ Over(c, s) \in ChangeType /\ Over(c, s).step = s
           /\ Over(c, s).project = change[c].project
           /\ Over(c, s).extra = {} /\ Over(c, s).users = {}
<1>1. change[c] \in ChangeType
  BY RealtimeTypes
<1>. QED
  BY <1>1 DEF Over, ChangeType

-----------------------------------------------------------------------------
(* Steps of one stream, and of one change *)

LEMMA StreamMoves ==
    ASSUME RealtimeInv, NEW s \in Streams, NEW y \in StreamType,
           stream' = [stream EXCEPT ![s] = y], UNCHANGED <<members, device, change, entitled>>,
           Len(y.queue) <= Buffer,
           y.step # "open" => y.queue = <<>>,
           \A i \in DOMAIN y.queue :
               /\ y.user = stream[s].user /\ y.filter = stream[s].filter
               /\ \E j \in DOMAIN stream[s].queue : y.queue[i] = stream[s].queue[j],
           \/ Sending = {} \/ s \notin Subscribers
           \/ y.step = "open" /\ y.user = stream[s].user /\ y.filter = stream[s].filter
    PROVE  RealtimeInv'
<1>. USE DEF RealtimeInv
<1>1. /\ stream' \in [Streams -> StreamType] /\ stream'[s] = y
      /\ \A t \in Streams : t # s => stream'[t] = stream[t]
  BY RealtimeTypes
<1>2. RealtimeTypeOK'
  BY <1>1 DEF RealtimeTypeOK, StreamType
<1>3. ClosedAreEmpty'
  BY <1>1 DEF ClosedAreEmpty
<1>4. QueuedAreCommitted'
  BY <1>1 DEF QueuedAreCommitted
<1>5. MembersEntitled' /\ TargetsEntitled'
  BY DEF MembersEntitled, TargetsEntitled
<1>6. TargetsAddressed'
  <2>. SUFFICES ASSUME NEW c \in Changes, change[c].step = "sending", NEW t \in change[c].streams
                PROVE  t \in Addressees(c)'
    BY DEF TargetsAddressed
  <2>1. t \in Addressees(c) /\ t \in Streams /\ c \in Sending
    BY DEF TargetsAddressed, Addressees, Subscribers, Sending
  <2>2. CASE t # s
    BY <1>1, <2>1, <2>2 DEF Addressees, Subscribers
  <2>3. CASE t = s
    BY <1>1, <2>1, <2>3 DEF Addressees, Subscribers
  <2>. QED
    BY <2>2, <2>3
<1>7. EventsStayInside'
  <2>. SUFFICES ASSUME NEW t \in Streams, NEW i \in DOMAIN stream'[t].queue
                PROVE  LET c == stream'[t].queue[i]
                       IN  /\ stream'[t].user \in entitled[c]
                           /\ stream'[t].filter \in {EveryProject, change[c].project}
    BY DEF EventsStayInside
  <2>1. CASE t # s
    BY <1>1, <2>1 DEF EventsStayInside
  <2>2. CASE t = s
    BY <1>1, <2>2 DEF EventsStayInside
  <2>. QED
    BY <2>1, <2>2
<1>. QED
  BY <1>2, <1>3, <1>4, <1>5, <1>6, <1>7

LEMMA ChangeMoves ==
    ASSUME RealtimeInv, NEW c \in Changes, NEW x \in ChangeType,
           change' = [change EXCEPT ![c] = x], UNCHANGED <<members, device, stream, entitled>>,
           change[c].step # "none", x.step # "none", x.project = change[c].project,
           x.extra \cup x.users \subseteq entitled[c],
           x.step = "sending" =>
               \A s \in x.streams : /\ s \in Subscribers /\ stream[s].user \in x.users
                                    /\ stream[s].filter \in {EveryProject, x.project}
    PROVE  RealtimeInv'
<1>. USE DEF RealtimeInv
<1>1. /\ change' \in [Changes -> ChangeType] /\ change'[c] = x
      /\ \A d \in Changes : d # c => change'[d] = change[d]
      /\ \A d \in Changes : change'[d].project = change[d].project
  BY RealtimeTypes
<1>2. RealtimeTypeOK'
  BY <1>1 DEF RealtimeTypeOK, ChangeType
<1>3. ClosedAreEmpty'
  BY DEF ClosedAreEmpty
<1>4. ASSUME NEW s \in Streams, NEW i \in DOMAIN stream[s].queue
      PROVE  stream[s].queue[i] \in Changes
  BY DEF RealtimeTypeOK
<1>5. QueuedAreCommitted'
  BY <1>1, <1>4 DEF QueuedAreCommitted
<1>6. MembersEntitled' /\ TargetsEntitled'
  BY <1>1 DEF MembersEntitled, TargetsEntitled
<1>7. TargetsAddressed'
  <2>. SUFFICES ASSUME NEW d \in Changes, change'[d].step = "sending"
                PROVE  change'[d].streams \subseteq Addressees(d)'
    BY DEF TargetsAddressed
  <2>1. CASE d # c
    BY <1>1, <2>1 DEF TargetsAddressed, Addressees, Subscribers
  <2>2. CASE d = c
    BY <1>1, <2>2 DEF Addressees, Subscribers
  <2>. QED
    BY <2>1, <2>2
<1>8. EventsStayInside'
  BY <1>1, <1>4 DEF EventsStayInside
<1>. QED
  BY <1>2, <1>3, <1>5, <1>6, <1>7, <1>8

LEMMA EmptyQueue ==
    ASSUME NEW q, q = <<>>
    PROVE  Len(q) <= Buffer /\ \A i \in DOMAIN q : FALSE
BY RealtimeAssumption DEF RealtimeAssumption

\* A stream that holds nothing.
LEMMA EmptyStreamMoves ==
    ASSUME RealtimeInv, NEW s \in Streams, NEW y \in StreamType,
           stream' = [stream EXCEPT ![s] = y], UNCHANGED <<members, device, change, entitled>>,
           y.queue = <<>>, Sending = {} \/ s \notin Subscribers
    PROVE  RealtimeInv'
<1>1. Len(y.queue) <= Buffer /\ \A i \in DOMAIN y.queue : FALSE
  BY EmptyQueue
<1>. QED
  BY <1>1, StreamMoves

LEMMA StreamSteps ==
    ASSUME RealtimeInv, NEW s \in Streams, StreamNext(s)
    PROVE  RealtimeInv'
<1>. USE DEF RealtimeInv
<1>0. stream[s] \in StreamType /\ NoStream \in StreamType
  BY RealtimeTypes
<1>1. ASSUME NEW u \in People, NEW f \in Projects \cup {EveryProject}, OpenStream(s, u, f)
      PROVE  RealtimeInv'
  <2>. DEFINE y == [NoStream EXCEPT !.step = "allowed", !.user = u, !.filter = f]
  <2>1. y \in StreamType /\ y.step = "allowed" /\ y.queue = <<>>
    BY <1>0 DEF StreamType, NoStream
  <2>2. /\ stream' = [stream EXCEPT ![s] = y] /\ s \notin Subscribers
        /\ UNCHANGED <<members, device, change, entitled>>
    BY <1>1 DEF OpenStream, Subscribers
  <2>. HIDE DEF y
  <2>. QED
    BY <2>1, <2>2, EmptyStreamMoves
<1>2. ASSUME Subscribe(s)
      PROVE  RealtimeInv'
  <2>. DEFINE y == [stream[s] EXCEPT !.step = "open"]
  <2>1. /\ y \in StreamType /\ y.step = "open"
        /\ y.user = stream[s].user /\ y.filter = stream[s].filter /\ y.queue = stream[s].queue
    BY <1>0 DEF StreamType
  <2>2. stream' = [stream EXCEPT ![s] = y] /\ UNCHANGED <<members, device, change, entitled>>
    BY <1>2 DEF Subscribe
  <2>3. Sending = {} /\ stream[s].queue = <<>>
    BY <1>2 DEF Subscribe, ClosedAreEmpty
  <2>. HIDE DEF y
  <2>. QED
    BY <2>1, <2>2, <2>3, EmptyStreamMoves
<1>3. ASSUME stream' = [stream EXCEPT ![s] = NoStream], UNCHANGED <<members, device, change, entitled>>,
             Sending = {} \/ s \notin Subscribers
      PROVE  RealtimeInv'
  <2>1. NoStream.step = "none" /\ NoStream.queue = <<>>
    BY DEF NoStream
  <2>. QED
    BY <1>0, <1>3, <2>1, EmptyStreamMoves
<1>4. ASSUME RefuseStream(s)
      PROVE  RealtimeInv'
  BY <1>4, <1>3 DEF RefuseStream, Subscribers
<1>5. ASSUME WriteEvent(s)
      PROVE  RealtimeInv'
  <2>. DEFINE y == [stream[s] EXCEPT !.queue = Tail(@)]
  <2>1. stream[s].queue \in Seq(Changes) /\ stream[s].queue # <<>> /\ stream[s].step = "open"
    BY <1>0, <1>5 DEF WriteEvent, Subscribers, StreamType
  <2>2. /\ Tail(stream[s].queue) \in Seq(Changes)
        /\ Len(Tail(stream[s].queue)) <= Buffer
        /\ \A i \in DOMAIN Tail(stream[s].queue) :
              \E j \in DOMAIN stream[s].queue : Tail(stream[s].queue)[i] = stream[s].queue[j]
    <3>1. Len(stream[s].queue) <= Buffer
      BY DEF RealtimeTypeOK
    <3>2. /\ Tail(stream[s].queue) \in Seq(Changes)
          /\ Len(Tail(stream[s].queue)) = Len(stream[s].queue) - 1
          /\ \A i \in 1..Len(Tail(stream[s].queue)) : Tail(stream[s].queue)[i] = stream[s].queue[i + 1]
      BY <2>1, HeadTailProperties
    <3>3. ASSUME NEW i \in DOMAIN Tail(stream[s].queue)
          PROVE  \E j \in DOMAIN stream[s].queue : Tail(stream[s].queue)[i] = stream[s].queue[j]
      <4>1. i + 1 \in DOMAIN stream[s].queue /\ i \in 1..Len(Tail(stream[s].queue))
        BY <2>1, <3>2
      <4>. QED
        BY <3>2, <4>1
    <3>4. Len(Tail(stream[s].queue)) <= Buffer
      BY <2>1, <3>1, <3>2, RealtimeAssumption DEF RealtimeAssumption
    <3>. QED
      BY <3>2, <3>3, <3>4
  <2>3. /\ y \in StreamType /\ y.step = "open" /\ y.queue = Tail(stream[s].queue)
        /\ y.user = stream[s].user /\ y.filter = stream[s].filter
    BY <1>0, <2>1, <2>2 DEF StreamType
  <2>4. stream' = [stream EXCEPT ![s] = y] /\ UNCHANGED <<members, device, change, entitled>>
    BY <1>5 DEF WriteEvent
  <2>. HIDE DEF y
  <2>. QED
    BY <2>2, <2>3, <2>4, StreamMoves
<1>6. ASSUME Unsubscribe(s)
      PROVE  RealtimeInv'
  BY <1>6, <1>3 DEF Unsubscribe
<1>. QED
  BY <1>1, <1>2, <1>4, <1>5, <1>6 DEF StreamNext

LEMMA ChangeEndsSafely ==
    ASSUME RealtimeInv, NEW c \in Changes, NEW s \in {"done", "lost"}, ChangeEnds(c, s),
           change[c].step # "none", UNCHANGED <<members, device, stream, entitled>>
    PROVE  RealtimeInv'
<1>1. RealtimeTypeOK
  BY DEF RealtimeInv
<1>2. /\ Over(c, s) \in ChangeType /\ Over(c, s).step = s /\ Over(c, s).project = change[c].project
      /\ Over(c, s).extra = {} /\ Over(c, s).users = {}
  BY <1>1, OverTyped
<1>. QED
  BY <1>2, ChangeMoves DEF ChangeEnds

LEMMA HandlerSteps ==
    ASSUME RealtimeInv, NEW c \in Changes, ReadMembers(c) \/ StartPublish(c) \/ EndPublish(c)
    PROVE  RealtimeInv'
<1>. USE DEF RealtimeInv
<1>0. change[c] \in ChangeType
  BY RealtimeTypes
<1>1. UNCHANGED <<members, device, stream, entitled>> /\ change[c].step # "none"
  BY DEF ReadMembers, StartPublish, EndPublish
<1>2. ASSUME ReadMembers(c)
      PROVE  RealtimeInv'
  <2>1. CASE ChangeEnds(c, "lost")
    BY <1>1, <2>1, ChangeEndsSafely
  <2>2. CASE change' = [change EXCEPT ![c].step = "addressed",
                                      ![c].users = members[change[c].project] \cup change[c].extra]
    <3>. DEFINE x == [change[c] EXCEPT !.step = "addressed",
                                       !.users = members[change[c].project] \cup change[c].extra]
    <3>1. /\ members[change[c].project] \subseteq entitled[c] /\ change[c].extra \subseteq entitled[c]
          /\ members[change[c].project] \subseteq People /\ change[c].extra \subseteq People
      BY <1>0, <1>1 DEF MembersEntitled, TargetsEntitled, RealtimeTypeOK
    <3>2. /\ x \in ChangeType /\ x.step = "addressed" /\ x.project = change[c].project
          /\ x.extra = change[c].extra /\ x.users = members[change[c].project] \cup change[c].extra
      BY <1>0, <3>1 DEF ChangeType
    <3>3. change' = [change EXCEPT ![c] = x]
      BY <2>2
    <3>. HIDE DEF x
    <3>. QED
      BY <1>1, <3>1, <3>2, <3>3, ChangeMoves
  <2>. QED
    BY <1>2, <2>1, <2>2 DEF ReadMembers
<1>3. ASSUME StartPublish(c)
      PROVE  RealtimeInv'
  <2>. DEFINE x == [change[c] EXCEPT !.step = "sending", !.streams = Addressees(c)]
  <2>1. Addressees(c) \subseteq Streams
    BY DEF Addressees, Subscribers
  <2>2. /\ x \in ChangeType /\ x.step = "sending" /\ x.project = change[c].project
        /\ x.extra = change[c].extra /\ x.users = change[c].users /\ x.streams = Addressees(c)
    BY <1>0, <2>1 DEF ChangeType
  <2>3. change' = [change EXCEPT ![c] = x]
    BY <1>3 DEF StartPublish
  <2>. HIDE DEF x
  <2>4. x.extra \cup x.users \subseteq entitled[c]
    BY <2>2 DEF TargetsEntitled
  <2>5. \A s \in x.streams : /\ s \in Subscribers /\ stream[s].user \in x.users
                             /\ stream[s].filter \in {EveryProject, x.project}
    BY <2>2 DEF Addressees
  <2>. QED
    BY <1>1, <2>2, <2>3, <2>4, <2>5, ChangeMoves
<1>4. ASSUME EndPublish(c)
      PROVE  RealtimeInv'
  <2>1. CASE ChangeEnds(c, "done")
    BY <1>1, <2>1, ChangeEndsSafely
  <2>2. CASE change' = [change EXCEPT ![c].step = "published"]
    <3>. DEFINE x == [change[c] EXCEPT !.step = "published"]
    <3>1. /\ x \in ChangeType /\ x.step = "published" /\ x.project = change[c].project
          /\ x.extra = change[c].extra /\ x.users = change[c].users
      BY <1>0 DEF ChangeType
    <3>2. change' = [change EXCEPT ![c] = x]
      BY <2>2
    <3>. HIDE DEF x
    <3>3. x.extra \cup x.users \subseteq entitled[c]
      BY <3>1 DEF TargetsEntitled
    <3>. QED
      BY <1>1, <3>1, <3>2, <3>3, ChangeMoves
  <2>. QED
    BY <1>4, <2>1, <2>2 DEF EndPublish
<1>. QED
  BY <1>2, <1>3, <1>4

LEMMA PushSteps ==
    ASSUME RealtimeInv, NEW c \in Changes,
           ReadTokens(c) \/ \E d \in Devices : SendPush(c, d) \/ FailPush(c, d)
    PROVE  RealtimeInv'
<1>. USE DEF RealtimeInv
<1>0. change[c] \in ChangeType
  BY RealtimeTypes
<1>1. UNCHANGED <<members, device, stream, entitled>> /\ change[c].step \in {"published", "pushing"}
  BY DEF ReadTokens, SendPush, FailPush
<1>2. ASSUME ReadTokens(c)
      PROVE  RealtimeInv'
  <2>. DEFINE tokens == {d \in Devices : device[d] \in change[c].users \ {change[c].actor}}
              x == [change[c] EXCEPT !.step = "pushing", !.asked = tokens]
  <2>1. CASE ChangeEnds(c, "done") \/ ChangeEnds(c, "lost")
    BY <1>1, <2>1, ChangeEndsSafely
  <2>2. CASE change' = [change EXCEPT ![c].step = "pushing", ![c].asked = tokens]
    <3>1. tokens \subseteq Devices
      OBVIOUS
    <3>. HIDE DEF tokens
    <3>2. /\ x \in ChangeType /\ x.step = "pushing" /\ x.project = change[c].project
          /\ x.extra = change[c].extra /\ x.users = change[c].users
      BY <1>0, <3>1 DEF ChangeType
    <3>3. change' = [change EXCEPT ![c] = x]
      BY <2>2
    <3>. HIDE DEF x
    <3>4. x.extra \cup x.users \subseteq entitled[c]
      BY <3>2 DEF TargetsEntitled
    <3>. QED
      BY <1>1, <3>2, <3>3, <3>4, ChangeMoves
  <2>. QED
    BY <1>2, <2>1, <2>2 DEF ReadTokens
<1>3. ASSUME NEW z \in ChangeType, NEW d \in Devices, z.step # "sending", z.step # "none",
             z.project = change[c].project, z.extra \cup z.users \subseteq entitled[c],
             \/ change' = [change EXCEPT ![c] = [z EXCEPT !.reached = @ \cup {d}]]
             \/ change' = [change EXCEPT ![c] = [z EXCEPT !.refused = @ \cup {d}]]
      PROVE  RealtimeInv'
  <2>1. PICK x \in ChangeType : /\ change' = [change EXCEPT ![c] = x] /\ x.step = z.step
                                /\ x.project = z.project /\ x.extra = z.extra /\ x.users = z.users
    <3>1. /\ [z EXCEPT !.reached = @ \cup {d}] \in ChangeType
          /\ [z EXCEPT !.refused = @ \cup {d}] \in ChangeType
      BY DEF ChangeType
    <3>. QED
      BY <1>3, <3>1 DEF ChangeType
  <2>. QED
    BY <1>1, <1>3, <2>1, ChangeMoves
<1>4. /\ Over(c, "done") \in ChangeType /\ Over(c, "done").step = "done"
      /\ Over(c, "done").project = change[c].project
      /\ Over(c, "done").extra = {} /\ Over(c, "done").users = {}
  BY OverTyped
<1>5. change[c].extra \cup change[c].users \subseteq entitled[c]
  BY DEF TargetsEntitled
<1>6. ASSUME NEW d \in Devices, SendPush(c, d)
      PROVE  RealtimeInv'
  <2>. DEFINE z == IF Unasked(c) = {d} THEN Over(c, "done") ELSE change[c]
  <2>1. change' = [change EXCEPT ![c] = [z EXCEPT !.reached = @ \cup {d}]]
    BY <1>6 DEF SendPush
  <2>2. z = Over(c, "done") \/ z = change[c]
    OBVIOUS
  <2>. HIDE DEF z
  <2>3. /\ z \in ChangeType /\ z.step # "sending" /\ z.step # "none"
        /\ z.project = change[c].project /\ z.extra \cup z.users \subseteq entitled[c]
    BY <1>0, <1>1, <1>4, <1>5, <2>2
  <2>. QED
    BY <1>3, <2>1, <2>3
<1>7. ASSUME NEW d \in Devices, FailPush(c, d)
      PROVE  RealtimeInv'
  BY <1>7, <1>4, <1>3 DEF FailPush
<1>. QED
  BY <1>2, <1>6, <1>7

-----------------------------------------------------------------------------
(* Steps of a stream and a change together, and of the members *)

LEMMA SendStep ==
    ASSUME RealtimeInv, NEW c \in Changes, NEW s \in Streams, SendEvent(c, s)
    PROVE  RealtimeInv'
<1>. USE DEF RealtimeInv
<1>. DEFINE x == [change[c] EXCEPT !.streams = @ \ {s}]
            q == IF Len(stream[s].queue) < Buffer THEN Append(stream[s].queue, c)
                                                  ELSE stream[s].queue
            y == [stream[s] EXCEPT !.queue = q]
<1>1. change[c] \in ChangeType /\ stream[s] \in StreamType /\ stream[s].queue \in Seq(Changes)
  BY RealtimeTypes DEF StreamType
<1>2. /\ change[c].step = "sending" /\ s \in change[c].streams
      /\ UNCHANGED <<members, device, entitled>>
  BY DEF SendEvent
<1>3. /\ s \in Subscribers /\ stream[s].user \in change[c].users
      /\ stream[s].filter \in {EveryProject, change[c].project}
  BY <1>2 DEF TargetsAddressed, Addressees
<1>4. /\ q \in Seq(Changes) /\ Len(q) <= Buffer
      /\ \A i \in DOMAIN q : q[i] = c \/ (i \in DOMAIN stream[s].queue /\ q[i] = stream[s].queue[i])
  <2>1. Len(stream[s].queue) <= Buffer
    BY DEF RealtimeTypeOK
  <2>2. CASE Len(stream[s].queue) < Buffer
    <3>1. q = Append(stream[s].queue, c)
      BY <2>2
    <3>2. /\ q \in Seq(Changes) /\ Len(q) = Len(stream[s].queue) + 1
          /\ \A i \in 1..Len(stream[s].queue) : q[i] = stream[s].queue[i]
          /\ q[Len(stream[s].queue) + 1] = c
      BY <1>1, <3>1, AppendProperties
    <3>3. Len(q) <= Buffer
      BY <1>1, <2>2, <3>2, RealtimeAssumption DEF RealtimeAssumption
    <3>4. ASSUME NEW i \in DOMAIN q
          PROVE  q[i] = c \/ (i \in DOMAIN stream[s].queue /\ q[i] = stream[s].queue[i])
      <4>. HIDE DEF q
      <4>1. i \in 1..Len(stream[s].queue) \/ i = Len(stream[s].queue) + 1
        BY <1>1, <3>2
      <4>. QED
        BY <1>1, <3>2, <4>1
    <3>. QED
      BY <3>2, <3>3, <3>4
  <2>3. CASE ~(Len(stream[s].queue) < Buffer)
    <3>1. q = stream[s].queue
      BY <2>3
    <3>. QED
      BY <1>1, <2>1, <3>1
  <2>. QED
    BY <2>2, <2>3
<1>5. change' = [change EXCEPT ![c] = x]
  BY DEF SendEvent
<1>6. stream' = [stream EXCEPT ![s] = y]
  <2>1. CASE Len(stream[s].queue) < Buffer
    BY <2>1 DEF SendEvent
  <2>2. CASE ~(Len(stream[s].queue) < Buffer)
    <3>1. stream' = stream /\ y = stream[s]
      BY <1>1, <2>2 DEF SendEvent, StreamType
    <3>. QED
      BY <3>1, RealtimeTypes
  <2>. QED
    BY <2>1, <2>2
<1>. HIDE DEF q
<1>7. /\ y \in StreamType /\ y.step = stream[s].step /\ y.queue = q
      /\ y.user = stream[s].user /\ y.filter = stream[s].filter
  BY <1>1, <1>4 DEF StreamType
<1>8. /\ x \in ChangeType /\ x.step = "sending" /\ x.project = change[c].project
      /\ x.extra = change[c].extra /\ x.users = change[c].users /\ x.streams \subseteq change[c].streams
  BY <1>1, <1>2 DEF ChangeType
<1>. HIDE DEF x, y
<1>9. /\ change' \in [Changes -> ChangeType] /\ stream' \in [Streams -> StreamType]
      /\ change'[c] = x /\ \A d \in Changes \ {c} : change'[d] = change[d]
      /\ stream'[s] = y /\ \A t \in Streams \ {s} : stream'[t] = stream[t]
  BY <1>5, <1>6, <1>7, <1>8, RealtimeTypes
<1>10. \A t \in Streams : \A i \in DOMAIN stream[t].queue : stream[t].queue[i] \in Changes
  BY DEF RealtimeTypeOK
<1>11. RealtimeTypeOK'
  BY <1>2, <1>4, <1>7, <1>9 DEF RealtimeTypeOK, StreamType, ChangeType
<1>12. ClosedAreEmpty'
  BY <1>3, <1>7, <1>9 DEF ClosedAreEmpty, Subscribers
<1>13. \A d \in Changes : change[d].step # "none" => change'[d].step # "none"
  BY <1>8, <1>9
<1>14. QueuedAreCommitted'
  <2>. SUFFICES ASSUME NEW t \in Streams, NEW i \in DOMAIN stream'[t].queue
                PROVE  change'[stream'[t].queue[i]].step # "none"
    BY DEF QueuedAreCommitted
  <2>1. CASE t # s
    BY <1>9, <1>10, <1>13, <2>1 DEF QueuedAreCommitted
  <2>2. CASE t = s
    BY <1>2, <1>4, <1>7, <1>9, <1>10, <1>13, <2>2 DEF QueuedAreCommitted
  <2>. QED
    BY <2>1, <2>2
<1>15. \A d \in Changes : /\ change'[d].project = change[d].project
                          /\ change'[d].extra = change[d].extra /\ change'[d].users = change[d].users
                          /\ change'[d].step = change[d].step
                          /\ change'[d].streams \subseteq change[d].streams
  BY <1>2, <1>8, <1>9
<1>16. MembersEntitled' /\ TargetsEntitled'
  BY <1>2, <1>15 DEF MembersEntitled, TargetsEntitled
<1>17. \A t \in Streams : /\ stream'[t].step = stream[t].step
                          /\ stream'[t].user = stream[t].user /\ stream'[t].filter = stream[t].filter
  BY <1>7, <1>9
<1>18. TargetsAddressed'
  BY <1>15, <1>17 DEF TargetsAddressed, Addressees, Subscribers
<1>19. EventsStayInside'
  <2>. SUFFICES ASSUME NEW t \in Streams, NEW i \in DOMAIN stream'[t].queue
                PROVE  LET d == stream'[t].queue[i]
                       IN  /\ stream[t].user \in entitled[d]
                           /\ stream[t].filter \in {EveryProject, change'[d].project}
    BY <1>2, <1>17 DEF EventsStayInside
  <2>1. stream[s].user \in entitled[c]
    BY <1>3 DEF TargetsEntitled
  <2>2. CASE t # s
    BY <1>9, <1>10, <1>15, <2>2 DEF EventsStayInside
  <2>3. CASE t = s
    BY <1>3, <1>4, <1>7, <1>9, <1>10, <1>15, <2>1, <2>3 DEF EventsStayInside
  <2>. QED
    BY <2>2, <2>3
<1>. QED
  BY <1>11, <1>12, <1>14, <1>16, <1>18, <1>19

\* A commit: the event is new, and only more people may hear of the others.
LEMMA CommitStep ==
    ASSUME RealtimeInv, NEW c \in Changes, NEW p \in Projects,
           NEW k \in {"cost_item", "member"}, NEW a \in People \cup {NoPerson},
           NEW e \in SUBSET members[p],
           members' \in [Projects -> SUBSET People],
           \A o \in Projects \ {p} : members'[o] = members[o],
           Committed(c, p, k, a, e)
    PROVE  RealtimeInv'
<1>. USE DEF RealtimeInv
<1>. DEFINE x == [NoChange EXCEPT !.step = "committed", !.kind = k, !.project = p, !.actor = a,
                                  !.extra = e]
<1>1. /\ change[c] = NoChange /\ change' = [change EXCEPT ![c] = x]
      /\ UNCHANGED <<device, stream>>
  BY DEF Committed
<1>2. /\ x \in ChangeType /\ x.step = "committed" /\ x.project = p
      /\ x.extra = e /\ x.users = {}
  <2>1. e \in SUBSET People
    BY DEF RealtimeTypeOK
  <2>. QED
    BY <2>1 DEF ChangeType, NoChange
<1>. HIDE DEF x
<1>3. /\ change' \in [Changes -> ChangeType] /\ change'[c] = x
      /\ \A d \in Changes \ {c} : change'[d] = change[d]
  BY <1>1, <1>2, RealtimeTypes
<1>4. change[c].step = "none"
  BY <1>1 DEF NoChange
<1>5. /\ entitled' \in [Changes -> SUBSET People]
      /\ entitled'[c] = members[p] \cup members'[p]
      /\ \A d \in Changes : d # c => entitled[d] \subseteq entitled'[d]
      /\ \A d \in Changes : d # c /\ change[d].project = p => members'[p] \subseteq entitled'[d]
  BY DEF Committed, RealtimeTypeOK
<1>6. RealtimeTypeOK'
  BY <1>1, <1>3, <1>5 DEF RealtimeTypeOK, ChangeType
<1>7. ClosedAreEmpty'
  BY <1>1 DEF ClosedAreEmpty
<1>8. \A s \in Streams : \A i \in DOMAIN stream[s].queue : stream[s].queue[i] \in Changes \ {c}
  BY <1>4 DEF QueuedAreCommitted, RealtimeTypeOK
<1>9. QueuedAreCommitted'
  BY <1>1, <1>3, <1>8 DEF QueuedAreCommitted
<1>10. MembersEntitled'
  <2>. SUFFICES ASSUME NEW d \in Changes, change'[d].step # "none"
                PROVE  /\ change'[d].project \in Projects
                       /\ members'[change'[d].project] \subseteq entitled'[d]
    BY DEF MembersEntitled
  <2>1. CASE d = c
    BY <1>2, <1>3, <1>5, <2>1
  <2>2. CASE d # c
    <3>1. change'[d] = change[d]
      BY <1>3, <2>2
    <3>2. change[d].project \in Projects /\ members[change[d].project] \subseteq entitled[d]
      BY <3>1 DEF MembersEntitled
    <3>3. entitled[d] \subseteq entitled'[d]
      BY <1>5, <2>2
    <3>4. CASE change[d].project = p
      BY <1>5, <2>2, <3>1, <3>4
    <3>5. CASE change[d].project # p
      BY <3>1, <3>2, <3>3, <3>5
    <3>. QED
      BY <3>4, <3>5
  <2>. QED
    BY <2>1, <2>2
<1>11. TargetsEntitled'
  <2>. SUFFICES ASSUME NEW d \in Changes
                PROVE  change'[d].extra \cup change'[d].users \subseteq entitled'[d]
    BY DEF TargetsEntitled
  <2>1. CASE d = c
    BY <1>2, <1>3, <1>5, <2>1
  <2>2. CASE d # c
    <3>1. change'[d] = change[d] /\ entitled[d] \subseteq entitled'[d]
      BY <1>3, <1>5, <2>2
    <3>. QED
      BY <3>1 DEF TargetsEntitled
  <2>. QED
    BY <2>1, <2>2
<1>12. TargetsAddressed'
  BY <1>1, <1>2, <1>3 DEF TargetsAddressed, Addressees, Subscribers
<1>13. EventsStayInside'
  <2>. SUFFICES ASSUME NEW s \in Streams, NEW i \in DOMAIN stream[s].queue
                PROVE  LET d == stream[s].queue[i]
                       IN  /\ stream[s].user \in entitled'[d]
                           /\ stream[s].filter \in {EveryProject, change'[d].project}
    BY <1>1 DEF EventsStayInside
  <2>. DEFINE d == stream[s].queue[i]
  <2>1. d \in Changes /\ d # c
    BY <1>8
  <2>2. stream[s].user \in entitled[d] /\ stream[s].filter \in {EveryProject, change[d].project}
    BY DEF EventsStayInside
  <2>3. change'[d] = change[d] /\ entitled[d] \subseteq entitled'[d]
    BY <1>3, <1>5, <2>1
  <2>. QED
    BY <2>2, <2>3
<1>. QED
  BY <1>6, <1>7, <1>9, <1>10, <1>11, <1>12, <1>13

LEMMA CommitSteps ==
    ASSUME RealtimeInv, CommitNext
    PROVE  RealtimeInv'
<1>1. FreshChange \in Changes
  BY DEF CommitNext, FreshChange
<1>2. members \in [Projects -> SUBSET People]
  BY DEF RealtimeInv, RealtimeTypeOK
<1>3. PICK p \in Projects, u \in People :
          \/ CreateCostItem(FreshChange, p, u)
          \/ AddMember(FreshChange, p, u)
          \/ RemoveMember(FreshChange, p, u)
  BY DEF CommitNext
<1>4. CASE CreateCostItem(FreshChange, p, u)
  BY <1>1, <1>2, <1>4, CommitStep DEF CreateCostItem
<1>5. CASE AddMember(FreshChange, p, u)
  BY <1>1, <1>2, <1>5, CommitStep DEF AddMember
<1>6. CASE RemoveMember(FreshChange, p, u)
  BY <1>1, <1>2, <1>6, CommitStep DEF RemoveMember
<1>. QED
  BY <1>3, <1>4, <1>5, <1>6

\* Device tokens, and members who leave.
LEMMA TableSteps ==
    ASSUME RealtimeInv, UNCHANGED <<stream, change, entitled>>,
           device' \in [Devices -> People \cup {NoPerson}],
           members' \in [Projects -> SUBSET People],
           \A p \in Projects : members'[p] \subseteq members[p]
    PROVE  RealtimeInv'
<1>. USE DEF RealtimeInv
<1>1. RealtimeTypeOK'
  BY DEF RealtimeTypeOK
<1>2. ClosedAreEmpty' /\ QueuedAreCommitted'
  BY DEF ClosedAreEmpty, QueuedAreCommitted
<1>3. MembersEntitled'
  BY DEF MembersEntitled
<1>4. TargetsEntitled' /\ TargetsAddressed'
  BY DEF TargetsEntitled, TargetsAddressed, Addressees, Subscribers
<1>5. EventsStayInside'
  BY DEF EventsStayInside
<1>. QED
  BY <1>1, <1>2, <1>3, <1>4, <1>5

LEMMA RestartStep ==
    ASSUME RealtimeInv, RestartHub
    PROVE  RealtimeInv'
<1>. USE DEF RealtimeInv
<1>1. /\ \A c \in Changes : change'[c] = change[c] \/ change'[c] = Over(c, "lost")
      /\ \A c \in Changes : change[c].step \notin {"none", "done"} => change'[c] = Over(c, "lost")
      /\ \A s \in Streams : stream'[s] = NoStream
      /\ UNCHANGED <<members, device, entitled>>
  BY DEF RestartHub
<1>2. \A c \in Changes : /\ Over(c, "lost") \in ChangeType /\ Over(c, "lost").step = "lost"
                         /\ Over(c, "lost").project = change[c].project
                         /\ Over(c, "lost").extra = {} /\ Over(c, "lost").users = {}
  BY OverTyped
<1>3. change' \in [Changes -> ChangeType] /\ stream' \in [Streams -> StreamType]
  <2>1. \A c \in Changes : change'[c] \in ChangeType
    BY <1>1, <1>2, RealtimeTypes
  <2>. QED
    BY <2>1, RealtimeTypes DEF RestartHub
<1>4. NoStream.step = "none" /\ NoStream.queue = <<>>
  BY DEF NoStream
<1>5. \A s \in Streams : Len(stream'[s].queue) <= Buffer /\ \A i \in DOMAIN stream'[s].queue : FALSE
  BY <1>1, <1>4, EmptyQueue
<1>6. RealtimeTypeOK'
  BY <1>1, <1>3, <1>5 DEF RealtimeTypeOK, StreamType, ChangeType
<1>7. ClosedAreEmpty' /\ QueuedAreCommitted' /\ EventsStayInside'
  BY <1>1, <1>4, <1>5 DEF ClosedAreEmpty, QueuedAreCommitted, EventsStayInside
<1>8. MembersEntitled'
  <2>. SUFFICES ASSUME NEW c \in Changes, change'[c].step # "none"
                PROVE  /\ change'[c].project \in Projects
                       /\ members[change'[c].project] \subseteq entitled[c]
    BY <1>1 DEF MembersEntitled
  <2>1. change[c].step # "none" /\ change'[c].project = change[c].project
    BY <1>1, <1>2 DEF RestartHub
  <2>. QED
    BY <2>1 DEF MembersEntitled
<1>9. TargetsEntitled'
  BY <1>1, <1>2 DEF TargetsEntitled
<1>10. TargetsAddressed'
  BY <1>1, <1>2 DEF TargetsAddressed
<1>. QED
  BY <1>6, <1>7, <1>8, <1>9, <1>10

LEMMA RealtimeInvNext ==
    ASSUME RealtimeInv, [RealtimeNext]_realtimeVars
    PROVE  RealtimeInv'
<1>1. device \in [Devices -> People \cup {NoPerson}] /\ members \in [Projects -> SUBSET People]
  BY DEF RealtimeInv, RealtimeTypeOK
<1>2. ASSUME NEW c \in Changes, ChangeNext(c)
      PROVE  RealtimeInv'
  BY <1>2, HandlerSteps, PushSteps, SendStep DEF ChangeNext
<1>3. ASSUME NEW d \in Devices, NEW u \in People, RegisterToken(d, u) \/ DeleteToken(d, u)
      PROVE  RealtimeInv'
  BY <1>1, <1>3, TableSteps DEF RegisterToken, DeleteToken
<1>4. ASSUME NEW u \in People, ForgetPerson(u)
      PROVE  RealtimeInv'
  BY <1>1, <1>4, TableSteps DEF ForgetPerson
<1>5. CASE UNCHANGED realtimeVars
  BY <1>1, <1>5, TableSteps DEF realtimeVars
<1>. QED
  BY <1>2, <1>3, <1>4, <1>5, StreamSteps, CommitSteps, RestartStep DEF RealtimeNext

LEMMA RealtimeInvInit ==
    ASSUME RealtimeInit
    PROVE  RealtimeInv
<1>1. /\ \A s \in Streams : stream[s] = NoStream /\ stream[s].step = "none" /\ stream[s].queue = <<>>
      /\ \A c \in Changes : /\ change[c].step = "none"
                             /\ change[c].extra = {} /\ change[c].users = {}
  BY DEF RealtimeInit, NoStream, NoChange
<1>2. \A s \in Streams : Len(stream[s].queue) <= Buffer /\ \A i \in DOMAIN stream[s].queue : FALSE
  BY <1>1, EmptyQueue
<1>3. stream \in [Streams -> StreamType] /\ change \in [Changes -> ChangeType]
  BY DEF RealtimeInit, StreamType, ChangeType, NoStream, NoChange
<1>4. RealtimeTypeOK
  BY <1>2, <1>3 DEF RealtimeInit, RealtimeTypeOK, StreamType, ChangeType
<1>. QED
  BY <1>1, <1>2, <1>4 DEF RealtimeInv, ClosedAreEmpty, QueuedAreCommitted, MembersEntitled,
     TargetsEntitled, TargetsAddressed, EventsStayInside

-----------------------------------------------------------------------------
(* Theorems *)

\* The tables, the hub and the handlers keep their types, and no channel holds
\* more than its capacity.
THEOREM RealtimeTypeCorrect == RealtimeSpec => []RealtimeTypeOK
<1>1. RealtimeInv => RealtimeTypeOK
  BY DEF RealtimeInv
<1>. QED
  BY <1>1, RealtimeInvInit, RealtimeInvNext, PTL DEF RealtimeSpec

\* Whatever joins, leaves, connects and disconnects between a commit and its
\* event, only people of the project hear of it.
THEOREM OnlyMembersHear == RealtimeSpec => []EventsStayInside
<1>1. RealtimeInv => EventsStayInside
  BY DEF RealtimeInv
<1>. QED
  BY <1>1, RealtimeInvInit, RealtimeInvNext, PTL DEF RealtimeSpec

\* The hub closes no channel that a publisher is about to send to.
THEOREM NoSendOnClosedChannel == RealtimeSpec => []ChannelsOpenWhileSending
<1>1. RealtimeInv => ChannelsOpenWhileSending
  BY DEF RealtimeInv, TargetsAddressed, ChannelsOpenWhileSending, Sending, Addressees
<1>. QED
  BY <1>1, RealtimeInvInit, RealtimeInvNext, PTL DEF RealtimeSpec
=============================================================================
