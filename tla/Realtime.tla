------------------------------ MODULE Realtime ------------------------------
(* Live updates and push notifications: httpapi/realtime.go,                *)
(* httpapi/push_tokens.go and notifications/firebase.go.  A handler that    *)
(* committed a change reads the project's members, sends the event to their *)
(* streams under the hub's read lock, and for a new cost item leaves a      *)
(* goroutine behind that reads their device tokens and sends to one after   *)
(* the other.  A stream is registered and unregistered under the write      *)
(* lock; a send to a full stream is dropped.                                *)
(*                                                                          *)
(* The hub is a variable of the API's one process.  A change stands for its *)
(* event.                                                                   *)
EXTENDS Naturals, Sequences, FiniteSets

CONSTANTS
    People, Projects,
    Streams,       \* connections of clients to /realtime
    Changes,       \* changes of projects, each committed once
    Devices,       \* tokens the Firebase client gives a device
    NoPerson, NoProject,
    EveryProject,  \* a stream without a project filter
    Buffer,        \* capacity of a stream's channel (32)
    MaxStreams, MaxPerPerson \* limits of the hub (256 and 8)

ASSUME RealtimeAssumption ==
    /\ NoPerson \notin People /\ NoProject \notin Projects /\ EveryProject \notin Projects
    /\ {Buffer, MaxStreams, MaxPerPerson} \subseteq Nat

VARIABLES
    members,   \* project_members: the people of each project
    device,    \* push_tokens: the person a device token belongs to
    stream,    \* the connections
    change,    \* what its handler, then its goroutine, does with a change
    entitled   \* history: members of a change's project since it was committed

realtimeVars == <<members, device, stream, change, entitled>>

NoStream == [step |-> "none", user |-> NoPerson, filter |-> NoProject, queue |-> <<>>]
NoChange == [step |-> "none", kind |-> "none", project |-> NoProject, actor |-> NoPerson,
             extra |-> {}, users |-> {}, streams |-> {},
             asked |-> {}, reached |-> {}, refused |-> {}]

\* The hub's map of subscribers.
Subscribers == {s \in Streams : stream[s].step = "open"}
SubscribersOf(u) == {s \in Subscribers : stream[s].user = u}

\* Publishers hold the read lock while they send, so nobody gets the write lock.
Sending == {c \in Changes : change[c].step = "sending"}

\* Its variables are gone when the handler, or the goroutine, returns.
Over(c, s) == [change[c] EXCEPT !.step = s, !.kind = "none", !.actor = NoPerson, !.extra = {},
                                !.users = {}, !.streams = {}]
ChangeEnds(c, s) == change' = [change EXCEPT ![c] = Over(c, s)]

RealtimeInit ==
    /\ members \in [Projects -> SUBSET People]
    /\ device = [d \in Devices |-> NoPerson]
    /\ stream = [s \in Streams |-> NoStream]
    /\ change = [c \in Changes |-> NoChange]
    /\ entitled = [c \in Changes |-> {}]

-----------------------------------------------------------------------------
(* RealtimeEvents: a client's connection *)

\* A filter asks canAccessProject first; without one everybody may connect.
OpenStream(s, u, f) ==
    /\ stream[s].step = "none"
    /\ f # EveryProject => u \in members[f]
    /\ stream' = [stream EXCEPT ![s] = [NoStream EXCEPT !.step = "allowed", !.user = u,
                                                        !.filter = f]]
    /\ UNCHANGED <<members, device, change, entitled>>

Subscribe(s) ==
    /\ stream[s].step = "allowed" /\ Sending = {}
    /\ Cardinality(Subscribers) < MaxStreams
    /\ Cardinality(SubscribersOf(stream[s].user)) < MaxPerPerson
    /\ stream' = [stream EXCEPT ![s].step = "open"]
    /\ UNCHANGED <<members, device, change, entitled>>

\* 429; a client that gives up before it is subscribed leaves the same way.
RefuseStream(s) ==
    /\ stream[s].step = "allowed"
    /\ stream' = [stream EXCEPT ![s] = NoStream]
    /\ UNCHANGED <<members, device, change, entitled>>

WriteEvent(s) ==
    /\ s \in Subscribers /\ stream[s].queue # <<>>
    /\ stream' = [stream EXCEPT ![s].queue = Tail(@)]
    /\ UNCHANGED <<members, device, change, entitled>>

\* Variant: the channel is closed without the lock.
UnsubscribeAnytime(s) ==
    /\ s \in Subscribers
    /\ stream' = [stream EXCEPT ![s] = NoStream]
    /\ UNCHANGED <<members, device, change, entitled>>

\* The channel is closed with the subscriber removed, whatever it still holds.
Unsubscribe(s) ==
    /\ s \in Subscribers /\ Sending = {}
    /\ stream' = [stream EXCEPT ![s] = NoStream]
    /\ UNCHANGED <<members, device, change, entitled>>

-----------------------------------------------------------------------------
(* The handlers that change a project, and publishProjectEventForActor *)

Committed(c, p, k, u, extra) ==
    /\ change[c] = NoChange
    /\ change' = [change EXCEPT ![c] = [NoChange EXCEPT !.step = "committed", !.kind = k,
                                          !.project = p, !.actor = u, !.extra = extra]]
    /\ entitled' = [d \in Changes |->
                       IF d = c THEN members[p] \cup members'[p]
                       ELSE IF change[d].project = p THEN entitled[d] \cup members'[p]
                       ELSE entitled[d]]
    /\ UNCHANGED <<device, stream>>

\* Whether u may is asked before the INSERT, and no longer true of necessity.
CreateCostItem(c, p, u) ==
    /\ UNCHANGED members
    /\ Committed(c, p, "cost_item", u, {})

AddMember(c, p, u) ==
    /\ u \notin members[p]
    /\ members' = [members EXCEPT ![p] = @ \cup {u}]
    /\ Committed(c, p, "member", NoPerson, {})

\* The removed person is told as well.
RemoveMember(c, p, u) ==
    /\ u \in members[p]
    /\ members' = [members EXCEPT ![p] = @ \ {u}]
    /\ Committed(c, p, "member", NoPerson, {u})

\* The SELECT of project_members; when it fails nobody is told.
ReadMembers(c) ==
    /\ change[c].step = "committed"
    /\ \/ change' = [change EXCEPT ![c].step = "addressed",
                                   ![c].users = members[change[c].project] \cup change[c].extra]
       \/ ChangeEnds(c, "lost")
    /\ UNCHANGED <<members, device, stream, entitled>>

\* Variant: a stream with a filter was let in as a member's and is not asked again.
AddresseesByFilter(c) ==
    {s \in Subscribers : \/ stream[s].filter = change[c].project
                         \/ stream[s].filter = EveryProject /\ stream[s].user \in change[c].users}

Addressees(c) ==
    {s \in Subscribers : /\ stream[s].filter \in {EveryProject, change[c].project}
                         /\ stream[s].user \in change[c].users}

StartPublish(c) ==
    /\ change[c].step = "addressed"
    /\ change' = [change EXCEPT ![c].step = "sending", ![c].streams = Addressees(c)]
    /\ UNCHANGED <<members, device, stream, entitled>>

\* Variant: the event is always queued.
QueueEvent(c, s) ==
    /\ change[c].step = "sending" /\ s \in change[c].streams
    /\ change' = [change EXCEPT ![c].streams = @ \ {s}]
    /\ stream' = [stream EXCEPT ![s].queue = Append(@, c)]
    /\ UNCHANGED <<members, device, entitled>>

SendEvent(c, s) ==
    /\ change[c].step = "sending" /\ s \in change[c].streams
    /\ change' = [change EXCEPT ![c].streams = @ \ {s}]
    /\ stream' = IF Len(stream[s].queue) < Buffer
                 THEN [stream EXCEPT ![s].queue = Append(@, c)] ELSE stream
    /\ UNCHANGED <<members, device, entitled>>

EndPublish(c) ==
    /\ change[c].step = "sending" /\ change[c].streams = {}
    /\ IF change[c].kind = "cost_item" THEN change' = [change EXCEPT ![c].step = "published"]
                                       ELSE ChangeEnds(c, "done")
    /\ UNCHANGED <<members, device, stream, entitled>>

-----------------------------------------------------------------------------
(* notifyProjectMembers and FirebaseSender.Send, in the goroutine *)

\* The SELECT of push_tokens; when it fails nobody is notified.
ReadTokens(c) ==
    LET tokens == {d \in Devices : device[d] \in change[c].users \ {change[c].actor}}
    IN /\ change[c].step = "published"
       /\ \/ /\ tokens # {}
             /\ change' = [change EXCEPT ![c].step = "pushing", ![c].asked = tokens]
          \/ tokens = {} /\ ChangeEnds(c, "done")
          \/ ChangeEnds(c, "lost")
       /\ UNCHANGED <<members, device, stream, entitled>>

Unasked(c) == change[c].asked \ (change[c].reached \cup change[c].refused)

SendPush(c, d) ==
    /\ change[c].step = "pushing" /\ d \in Unasked(c)
    /\ change' = [change EXCEPT ![c] = [(IF Unasked(c) = {d} THEN Over(c, "done") ELSE change[c])
                                        EXCEPT !.reached = @ \cup {d}]]
    /\ UNCHANGED <<members, device, stream, entitled>>

\* The answer is not 2xx, as for a token no device has any more.
FailPush(c, d) ==
    /\ change[c].step = "pushing" /\ d \in Unasked(c)
    /\ change' = [change EXCEPT ![c] = [Over(c, "done") EXCEPT !.refused = @ \cup {d}]]
    /\ UNCHANGED <<members, device, stream, entitled>>

-----------------------------------------------------------------------------
(* PushTokens, accounts and the process *)

RegisterToken(d, u) ==
    /\ device' = [device EXCEPT ![d] = u]
    /\ UNCHANGED <<members, stream, change, entitled>>

DeleteToken(d, u) ==
    /\ device[d] = u
    /\ device' = [device EXCEPT ![d] = NoPerson]
    /\ UNCHANGED <<members, stream, change, entitled>>

\* The account's rows go with it; its streams stay.
ForgetPerson(u) ==
    /\ members' = [p \in Projects |-> members[p] \ {u}]
    /\ device' = [d \in Devices |-> IF device[d] = u THEN NoPerson ELSE device[d]]
    /\ UNCHANGED <<stream, change, entitled>>

\* The process ends: streams and unfinished work are gone.
RestartHub ==
    /\ stream' = [s \in Streams |-> NoStream]
    /\ change' = [c \in Changes |-> IF change[c].step \in {"none", "done"} THEN change[c]
                                    ELSE Over(c, "lost")]
    /\ UNCHANGED <<members, device, entitled>>

StreamNext(s) ==
    \/ \E u \in People, f \in Projects \cup {EveryProject} : OpenStream(s, u, f)
    \/ Subscribe(s) \/ RefuseStream(s) \/ WriteEvent(s) \/ Unsubscribe(s)

\* Which unused element a new change takes makes no difference.
FreshChange == CHOOSE c \in Changes : change[c] = NoChange

CommitNext ==
    /\ \E c \in Changes : change[c] = NoChange
    /\ \E p \in Projects, u \in People :
         \/ CreateCostItem(FreshChange, p, u)
         \/ AddMember(FreshChange, p, u)
         \/ RemoveMember(FreshChange, p, u)

ChangeNext(c) ==
    \/ ReadMembers(c) \/ StartPublish(c) \/ EndPublish(c)
    \/ \E s \in Streams : SendEvent(c, s)
    \/ ReadTokens(c) \/ \E d \in Devices : SendPush(c, d) \/ FailPush(c, d)

RealtimeNext ==
    \/ \E s \in Streams : StreamNext(s)
    \/ CommitNext
    \/ \E c \in Changes : ChangeNext(c)
    \/ \E d \in Devices, u \in People : RegisterToken(d, u) \/ DeleteToken(d, u)
    \/ \E u \in People : ForgetPerson(u)
    \/ RestartHub

RealtimeSpec == RealtimeInit /\ [][RealtimeNext]_realtimeVars

-----------------------------------------------------------------------------
(* Properties *)

\* Types of the tables, the hub and the changes; no channel holds more than its
\* capacity.
RealtimeTypeOK ==
    /\ members \in [Projects -> SUBSET People]
    /\ device \in [Devices -> People \cup {NoPerson}]
    /\ stream \in [Streams -> [step : {"none", "allowed", "open"},
                               user : People \cup {NoPerson},
                               filter : Projects \cup {EveryProject, NoProject},
                               queue : Seq(Changes)]]
    /\ \A s \in Streams : Len(stream[s].queue) <= Buffer
    /\ change \in [Changes -> [step : {"none", "committed", "addressed", "sending", "published",
                                       "pushing", "done", "lost"},
                               kind : {"none", "cost_item", "member"},
                               project : Projects \cup {NoProject},
                               actor : People \cup {NoPerson},
                               extra : SUBSET People, users : SUBSET People,
                               streams : SUBSET Streams, asked : SUBSET Devices,
                               reached : SUBSET Devices, refused : SUBSET Devices]]
    /\ entitled \in [Changes -> SUBSET People]

\* Whoever hears of a change was a member of its project at some time since, or
\* is the person it removed: a stream that outlives a membership, or a list of
\* members read before a removal, tells nothing of what happened after it.
EventsStayInside ==
    \A s \in Streams : \A i \in DOMAIN stream[s].queue :
        LET c == stream[s].queue[i]
        IN /\ stream[s].user \in entitled[c]
           /\ stream[s].filter \in {EveryProject, change[c].project}

\* A publisher that is about to send never meets a closed channel, which would
\* end the process.
ChannelsOpenWhileSending == \A c \in Sending : change[c].streams \subseteq Subscribers

\* docs/notifications.md: "all other members of the project with a registered
\* token receive an FCM notification", unless FCM refuses that very token.
EveryMemberIsPushed ==
    \A c \in Changes : change[c].step = "done" => Unasked(c) = {}
=============================================================================
