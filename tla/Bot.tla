-------------------------------- MODULE Bot --------------------------------
(***************************************************************************)
(* The Zulip event loop (bot.go) with the event queue it reads (external,  *)
(* as zulip.go uses it): register a queue, long-poll it, handle what comes.*)
(* A queue numbers its events from 0 and drops those at or below the       *)
(* last_event_id of a poll; an answer that gets lost is asked for again;   *)
(* a queue that expires takes its unread events with it.                   *)
(*                                                                         *)
(* The loop is one goroutine: handle runs to its end, Zulip calls included,*)
(* before the next event is looked at.  Events queue up meanwhile, among   *)
(* them the ones the bot's own reactions and replies give rise to.         *)
(***************************************************************************)
EXTENDS Integers, Sequences, Functions

CONSTANTS
    MaxPosts,    \* bound: things people do: messages and reactions
    MaxQueues,   \* bound: event queues registered
    MaxFaults    \* bound: failing Zulip calls

ASSUME BoundsAssumption == MaxPosts \in Nat /\ MaxQueues \in Nat /\ MaxFaults \in Nat

VARIABLES
    pc,           \* where Run is
    queue,        \* queueID: the number of the bot's queue, 0 for ""
    lastEventID,  \* the last event taken up from it
    batch,        \* the events of the last answer still to be handled
    stopped,      \* ctx has ended
    live,         \* the queue that is alive at Zulip, or 0
    registered,   \* queues Zulip has handed out
    pending,      \* the events it holds for the live queue
    nextID,       \* the id of that queue's next event
    posts,        \* the things people have done so far, by kind
    heard,        \* those of them that entered the live queue
    handled,      \* history: the posts given to handle, in order
    started,      \* history: the posts start was called for
    faults        \* Zulip calls that may still fail

bot == <<pc, queue, lastEventID, batch>>
zulip == <<live, registered, pending, nextID, posts, heard>>
vars == <<bot, stopped, zulip, handled, started, faults>>

-----------------------------------------------------------------------------
\* What an event is to handle: a call link in a stream, a DM with a Jitsi or a
\* Meet link, a click on the microphone, the bot's own doing, or none of these.
Requests == {"dm", "meet", "click"}
Kinds == Requests \cup {"call", "own", "other"}
Event == [id : Nat, post : 1 .. MaxPosts, kind : Kinds]

TypeOK ==
    /\ pc \in {"me", "loop", "handle", "ended", "failed"}
    /\ queue \in 0 .. MaxQueues /\ live \in 0 .. MaxQueues /\ registered \in 0 .. MaxQueues
    /\ lastEventID \in Nat \cup {-1} /\ nextID \in Nat
    /\ queue = live /\ queue # 0 => lastEventID < nextID
    /\ batch \in Seq(Event) /\ pending \in Seq(Event)
    /\ stopped \in BOOLEAN
    /\ posts \in Seq(Kinds) /\ Len(posts) <= MaxPosts /\ heard \subseteq 1 .. MaxPosts
    /\ handled \in Seq(1 .. MaxPosts) /\ started \subseteq 1 .. MaxPosts
    /\ faults \in 0 .. MaxFaults

Init ==
    /\ pc = "me" /\ queue = 0 /\ lastEventID = -1 /\ batch = <<>>
    /\ stopped = FALSE
    /\ live = 0 /\ registered = 0 /\ pending = <<>> /\ nextID = 0
    /\ posts = <<>> /\ heard = {}
    /\ handled = <<>> /\ started = {}
    /\ faults = MaxFaults

Fails == faults > 0 /\ faults' = faults - 1

-----------------------------------------------------------------------------
\* Me: who am I?  Failing is fatal, unless the service is being stopped.
Identify ==
    /\ pc = "me"
    /\ \/ pc' = "loop" /\ UNCHANGED faults
       \/ pc' = "failed" /\ ~stopped /\ Fails
       \/ pc' = "ended" /\ stopped /\ UNCHANGED faults
    /\ UNCHANGED <<queue, lastEventID, batch, stopped, zulip, handled, started>>

\* Mutant of GoesOn: the loop does not look at ctx.
GoesOnAlways == TRUE

GoesOn == ~stopped

\* Mutant of FirstRead: the last id of the expired queue is kept.
FirstReadKept == lastEventID

\* last_event_id of a fresh queue: nothing of it has been read.
FirstRead == -1

Register ==
    /\ pc = "loop" /\ GoesOn
    /\ queue = 0
    /\ registered < MaxQueues
    /\ registered' = registered + 1
    /\ live' = registered'
    /\ pending' = <<>> /\ nextID' = 0 /\ heard' = {}
    /\ \/ queue' = registered' /\ lastEventID' = FirstRead /\ UNCHANGED faults
       \/ registered' < MaxQueues                        \* the answer is lost
          /\ UNCHANGED <<queue, lastEventID>> /\ Fails
    /\ UNCHANGED <<pc, batch, stopped, posts, handled, started>>

\* What a poll returns: the events after lastEventID.  Zulip holds them in order, so
\* they are the last ones.
Unread ==
    LET isFirst(n) == \A i \in 1 .. Len(pending) : i >= n <=> pending[i].id > lastEventID
    IN  SubSeq(pending, CHOOSE n \in 1 .. Len(pending) + 1 : isFirst(n), Len(pending))

Poll ==
    /\ pc = "loop" /\ GoesOn
    /\ queue = live /\ queue # 0
    /\ pending' = Unread
    /\ \/ batch' = pending' /\ pc' = "handle" /\ UNCHANGED faults
       \/ UNCHANGED <<batch, pc>> /\ Fails               \* the answer is lost
    /\ UNCHANGED <<queue, lastEventID, stopped, live, registered, nextID, posts, heard, handled, started>>

\* Mutant of Forgets: the expired queue's id is polled again and again.
ForgetsNot == queue

Forgets == 0

\* BAD_EVENT_QUEUE_ID: register anew.
PollBadQueue ==
    /\ pc = "loop" /\ GoesOn
    /\ queue # 0 /\ queue # live
    /\ queue' = Forgets
    /\ UNCHANGED <<pc, lastEventID, batch, stopped, zulip, handled, started, faults>>

Ends ==
    /\ pc = "loop" /\ ~GoesOn
    /\ pc' = "ended"
    /\ UNCHANGED <<queue, lastEventID, batch, stopped, zulip, handled, started, faults>>

-----------------------------------------------------------------------------
\* Something happens that the live queue, if there is one, reports.
Reports(post, kind) ==
    IF live = 0 THEN UNCHANGED <<pending, nextID>>
    ELSE /\ pending' = Append(pending, [id |-> nextID, post |-> post, kind |-> kind])
         /\ nextID' = nextID + 1

\* Somebody other than the bot asks for a recording.
Asks(ev) == ev.kind \in Requests

\* handle, with the runner's Start: a call link is offered the microphone, a
\* request starts a recording, and Meet's is answered with a DM if accepted.
Effect(ev) ==
    \/ /\ ev.kind = "call"
       /\ Reports(ev.post, "own")
       /\ UNCHANGED <<started, faults>>
    \/ /\ Asks(ev)
       /\ started' = started \cup {ev.post}
       /\ IF ev.kind = "meet"
          THEN Reports(ev.post, "own") \/ UNCHANGED <<pending, nextID>>
          ELSE UNCHANGED <<pending, nextID>>
       /\ UNCHANGED faults
    \/ /\ ev.kind \in {"call", "click"}     \* AddReaction or GetMessage fails
       /\ Fails \/ (stopped /\ UNCHANGED faults)
       /\ UNCHANGED <<started, pending, nextID>>
    \/ /\ ~Asks(ev) /\ ev.kind # "call"
       /\ UNCHANGED <<started, pending, nextID, faults>>

\* Mutant of TakenUp: the loop does not keep track of what it has taken up.
TakenUpNever(ev) == lastEventID

\* lastEventID once ev is taken up.
TakenUp(ev) == IF ev.id > lastEventID THEN ev.id ELSE lastEventID

Handle ==
    LET ev == Head(batch) IN
    /\ pc = "handle"
    /\ batch # <<>>
    /\ batch' = Tail(batch)
    /\ lastEventID' = TakenUp(ev)
    /\ handled' = IF ev.kind = "own" THEN handled ELSE Append(handled, ev.post)
    /\ Effect(ev)
    /\ UNCHANGED <<pc, queue, stopped, live, registered, posts, heard>>

BatchDone ==
    /\ pc = "handle"
    /\ batch = <<>>
    /\ pc' = "loop"
    /\ UNCHANGED <<queue, lastEventID, batch, stopped, zulip, handled, started, faults>>

-----------------------------------------------------------------------------
\* Somebody writes a message or reacts to one.
Post(kind) ==
    /\ Len(posts) < MaxPosts
    /\ posts' = Append(posts, kind)
    /\ heard' = IF live = 0 THEN heard ELSE heard \cup {Len(posts')}
    /\ Reports(Len(posts'), kind)
    /\ UNCHANGED <<bot, stopped, live, registered, handled, started, faults>>

\* Zulip collects the queue: it was not polled for too long, or Zulip restarted.
Expire ==
    /\ live # 0
    /\ registered < MaxQueues
    /\ live' = 0 /\ pending' = <<>> /\ nextID' = 0 /\ heard' = {}
    /\ UNCHANGED <<bot, stopped, registered, posts, handled, started, faults>>

\* SIGTERM: ctx ends.
Shutdown ==
    /\ ~stopped
    /\ stopped' = TRUE
    /\ UNCHANGED <<bot, zulip, handled, started, faults>>

Loop == Identify \/ Register \/ Poll \/ PollBadQueue \/ Handle \/ BatchDone \/ Ends

Next ==
    \/ Loop
    \/ \E kind \in Kinds \ {"own"} : Post(kind)
    \/ Expire \/ Shutdown

Spec == Init /\ [][Next]_vars

\* The loop goes on: every call has a timeout or is a long poll that answers.
FairSpec == Spec /\ WF_vars(Loop)

-----------------------------------------------------------------------------
\* bot.go:94-99: however answers are lost and asked for again, nothing that
\* people do is handled twice or out of order.
HandledInOrder ==
    \A i, k \in 1 .. Len(handled) : i < k => handled[i] < handled[k]

\* bot.go:68-87: nothing is skipped.  What entered the bot's queue while it
\* lives is at Zulip still, or in hand, or was handled, re-registrations
\* included.
NoneSkipped ==
    queue = live => \A p \in heard :
        \/ \E i \in DOMAIN pending : pending[i].post = p /\ pending[i].id > lastEventID
        \/ \E i \in DOMAIN batch : batch[i].post = p
        \/ p \in Range(handled)

\* bot.go:82-85: an expired queue is noticed and replaced, or the loop ends.
Reconnects ==
    (queue # 0 /\ queue # live) ~> (queue = live \/ stopped)

\* A post has been served: a DM has started its recording, which no failing
\* call can prevent; anything else has been given to handle.
Served(p) ==
    IF posts[p] \in {"dm", "meet"} THEN p \in started ELSE p \in Range(handled)

\* bot.go:68-86, 114-126: what the bot's queue reports is served in the end,
\* unless the queue expires or the service is stopped first.
HeardIsServed ==
    \A p \in 1 .. MaxPosts :
        p \in heard ~> (p \notin heard \/ Served(p) \/ stopped \/ pc \in {"ended", "failed"})

\* bot.go:66, 70-72, 86-88: once ctx has ended, Run returns, so that main can
\* go on to stop the runner.
LoopEnds == stopped ~> pc \in {"ended", "failed"}
=============================================================================
