----------------------------- MODULE BotProofs -----------------------------
(***************************************************************************)
(* Proofs about the event loop, for any number of posts, queues and        *)
(* failing calls: its states are well typed, nothing is handled twice or   *)
(* out of order, and nothing that its queue reports is skipped.            *)
(***************************************************************************)
EXTENDS Bot, TLAPS

-----------------------------------------------------------------------------
(***************************************************************************)
(* The invariant.                                                          *)
(***************************************************************************)

\* The bot's queue is alive.
Mine == queue = live /\ queue # 0

\* Zulip holds the last events of the live queue, at least those the bot has not read.
Numbered ==
    /\ Len(pending) <= nextID
    /\ \A i \in 1 .. Len(pending) : pending[i].id = nextID - Len(pending) + i - 1
    /\ live = 0 => pending = <<>> /\ heard = {}
    /\ Mine => nextID - Len(pending) <= lastEventID + 1

\* A batch is in hand in `handle` only, and what it holds of a living queue are the
\* next events that Zulip holds.
InHand ==
    /\ batch # <<>> => pc = "handle" /\ queue # 0 /\ live \in {0, queue}
    /\ Mine => \A k \in 1 .. Len(batch) :
          batch[k].id = lastEventID + k /\ \E i \in 1 .. Len(pending) : pending[i] = batch[k]

\* What people did comes in the order they did it.
Ascending(s) ==
    \A i, k \in 1 .. Len(s) : i < k /\ s[i].kind # "own" /\ s[k].kind # "own" => s[i].post < s[k].post

\* Every event is about something done, and the bot's own doings about something handled.
Known(s) ==
    /\ \A k \in 1 .. Len(s) : s[k].post <= Len(posts)
    /\ \A k \in 1 .. Len(s) : s[k].kind = "own" => \E i \in 1 .. Len(handled) : handled[i] = s[k].post

\* What was handled comes before what is in hand, and before what is still unread.
InOrder ==
    /\ HandledInOrder
    /\ Ascending(pending) /\ Ascending(batch)
    /\ Known(pending) /\ Known(batch)
    /\ \A i \in 1 .. Len(handled) : handled[i] <= Len(posts)
    /\ \A i \in 1 .. Len(handled), k \in 1 .. Len(batch) :
          batch[k].kind # "own" => handled[i] < batch[k].post
    /\ Mine => \A i \in 1 .. Len(handled), k \in 1 .. Len(pending) :
          pending[k].kind # "own" /\ pending[k].id > lastEventID => handled[i] < pending[k].post

-----------------------------------------------------------------------------
(***************************************************************************)
(* What the steps do to the sequences.                                     *)
(***************************************************************************)

\* The unread events are a suffix of what Zulip holds.
LEMMA UnreadIsSuffix ==
    ASSUME TypeOK, Numbered, Mine
    PROVE  /\ Unread \in Seq(Event)
           /\ Len(Unread) = nextID - 1 - lastEventID
           /\ Len(Unread) <= Len(pending)
           /\ \A i \in 1 .. Len(Unread) : Unread[i] = pending[i + Len(pending) - Len(Unread)]
<1> DEFINE isFirst(n) == \A i \in 1 .. Len(pending) : i >= n <=> pending[i].id > lastEventID
           first == lastEventID + 2 - nextID + Len(pending)
           n0 == CHOOSE n \in 1 .. Len(pending) + 1 : isFirst(n)
<1>1. /\ Len(pending) \in Nat /\ nextID \in Nat /\ lastEventID \in Int
      /\ \A i \in 1 .. Len(pending) : pending[i] \in Event /\ pending[i].id \in Nat
  <2>1. pending \in Seq(Event) /\ nextID \in Nat /\ lastEventID \in Nat \cup {-1}
    BY DEF TypeOK
  <2>2. \A i \in 1 .. Len(pending) : pending[i] \in Event
    BY <2>1
  <2> QED
    BY <2>1, <2>2 DEF Event
<1>2. first \in 1 .. Len(pending) + 1
  <2>1. lastEventID < nextID
    BY DEF TypeOK, Mine
  <2> QED
    BY <1>1, <2>1 DEF Numbered
<1>3. isFirst(first)
  BY <1>1 DEF Numbered
<1>4. n0 \in 1 .. Len(pending) + 1 /\ isFirst(n0)
  BY <1>2, <1>3
<1>5. n0 = first
  <2>0. n0 \in Int /\ first \in Int
    BY <1>1, <1>2, <1>4
  <2> HIDE DEF n0, first
  <2>1. CASE n0 < first
    <3>1. n0 \in 1 .. Len(pending)
      BY <1>1, <1>2, <1>4, <2>1
    <3> QED
      BY <1>3, <1>4, <2>0, <2>1, <3>1
  <2>2. CASE n0 > first
    <3>1. first \in 1 .. Len(pending)
      BY <1>1, <1>2, <1>4, <2>2
    <3> QED
      BY <1>3, <1>4, <2>0, <2>2, <3>1
  <2> QED
    BY <1>1, <1>2, <1>4, <2>1, <2>2
<1>6. Unread = SubSeq(pending, first, Len(pending))
  BY <1>5 DEF Unread
<1> HIDE DEF n0, isFirst
<1>7. first \in Int /\ first >= 1 /\ first <= Len(pending) + 1
  BY <1>1, <1>2
<1> DEFINE u == SubSeq(pending, first, Len(pending))
<1>8. u \in Seq(Event) /\ Len(u) = Len(pending) - first + 1
  <2>1. pending \in Seq(Event)
    BY DEF TypeOK
  <2> HIDE DEF first
  <2> QED
    BY <1>1, <1>7, <2>1
<1>9. \A i \in 1 .. Len(u) : u[i] = pending[i + first - 1]
  <2>1. pending \in Seq(Event)
    BY DEF TypeOK
  <2> HIDE DEF first
  <2> QED
    BY <1>1, <1>7, <1>8, <2>1
<1>10. Len(u) = nextID - 1 - lastEventID /\ lastEventID < nextID
  <2>1. lastEventID < nextID
    BY DEF TypeOK, Mine
  <2> QED
    BY <1>1, <1>7, <1>8, <2>1
<1>11. Len(u) <= Len(pending) /\ \A i \in 1 .. Len(u) : u[i] = pending[i + Len(pending) - Len(u)]
  <2> HIDE DEF u, first
  <2>1. Len(pending) - Len(u) = first - 1 /\ Len(u) \in Nat
    BY <1>1, <1>7, <1>8
  <2>2. \A i \in 1 .. Len(u) : i + Len(pending) - Len(u) = i + first - 1
    BY <1>1, <1>7, <2>1
  <2>3. Len(u) <= Len(pending)
    BY <1>1, <1>7, <2>1
  <2> QED
    BY <1>9, <2>2, <2>3
<1> HIDE DEF u
<1> QED
  BY <1>6, <1>8, <1>10, <1>11 DEF u

\* A live queue's event is added to the end of what Zulip holds.
Added(post, kind) ==
    /\ pending' \in Seq(Event) /\ nextID' \in Nat
    /\ \/ live = 0 /\ UNCHANGED <<pending, nextID>>
       \/ /\ live # 0 /\ nextID' = nextID + 1
          /\ Len(pending') = Len(pending) + 1
          /\ \A i \in 1 .. Len(pending) : pending'[i] = pending[i]
          /\ pending'[Len(pending) + 1] = [id |-> nextID, post |-> post, kind |-> kind]

LEMMA ReportAdds ==
    ASSUME TypeOK, NEW post \in 1 .. MaxPosts, NEW kind \in Kinds, Reports(post, kind)
    PROVE  Added(post, kind)
<1>1. pending \in Seq(Event) /\ nextID \in Nat
  BY DEF TypeOK
<1>2. CASE live = 0
  BY <1>1, <1>2 DEF Reports, Added
<1>3. CASE live # 0
  <2> DEFINE ev == [id |-> nextID, post |-> post, kind |-> kind]
  <2>1. ev \in Event
    BY <1>1 DEF Event
  <2>2. pending' = Append(pending, ev) /\ nextID' = nextID + 1
    BY <1>3 DEF Reports
  <2> HIDE DEF ev
  <2>4. /\ pending' \in Seq(Event) /\ Len(pending') = Len(pending) + 1
        /\ \A i \in 1 .. Len(pending) : pending'[i] = pending[i]
        /\ pending'[Len(pending) + 1] = ev
    BY <1>1, <2>1, <2>2
  <2>5. nextID' \in Nat
    BY <1>1, <2>2
  <2> QED
    BY <1>3, <2>2, <2>4, <2>5 DEF ev, Added
<1> QED
  BY <1>2, <1>3

\* A post is the next one, and what reports it is added.
LEMMA PostAdds ==
    ASSUME TypeOK, NEW kind \in Kinds, Post(kind)
    PROVE  /\ posts' \in Seq(Kinds) /\ Len(posts') = Len(posts) + 1 /\ Len(posts') \in 1 .. MaxPosts
           /\ Added(Len(posts'), kind)
<1>1. /\ posts \in Seq(Kinds) /\ Len(posts) < MaxPosts /\ posts' = Append(posts, kind)
      /\ Reports(Len(posts'), kind)
  BY DEF Post, TypeOK
<1>2. posts' \in Seq(Kinds) /\ Len(posts') = Len(posts) + 1
  BY <1>1
<1>3. Len(posts) \in Nat /\ MaxPosts \in Nat
  BY <1>1, BoundsAssumption
<1>4. Len(posts') \in 1 .. MaxPosts
  BY <1>1, <1>2, <1>3
<1> QED
  BY <1>1, <1>2, <1>4, ReportAdds

\* handle takes the first event of the batch.
LEMMA HandleTakes ==
    ASSUME TypeOK, Handle
    PROVE  /\ Len(batch) >= 1 /\ batch[1] \in Event /\ Head(batch) = batch[1]
           /\ batch' \in Seq(Event) /\ Len(batch') = Len(batch) - 1
           /\ \A k \in 1 .. Len(batch') : batch'[k] = batch[k + 1]
           /\ handled' \in Seq(1 .. MaxPosts)
           /\ batch[1].kind = "own" => handled' = handled
           /\ batch[1].kind # "own" =>
                /\ Len(handled') = Len(handled) + 1
                /\ \A i \in 1 .. Len(handled) : handled'[i] = handled[i]
                /\ handled'[Len(handled')] = batch[1].post
<1>1. batch \in Seq(Event) /\ batch # <<>> /\ handled \in Seq(1 .. MaxPosts)
  BY DEF TypeOK, Handle
<1>2. Len(batch) >= 1 /\ Head(batch) = batch[1] /\ batch[1] \in Event
  BY <1>1
<1>3. /\ Tail(batch) \in Seq(Event) /\ Len(Tail(batch)) = Len(batch) - 1
      /\ \A k \in 1 .. Len(batch) - 1 : Tail(batch)[k] = batch[k + 1]
  BY <1>1
<1>4. batch' = Tail(batch) /\ handled' = IF batch[1].kind = "own" THEN handled ELSE Append(handled, batch[1].post)
  BY <1>2 DEF Handle
<1>5. batch[1].post \in 1 .. MaxPosts
  BY <1>2 DEF Event
<1>6. /\ batch' \in Seq(Event) /\ Len(batch') = Len(batch) - 1
      /\ \A k \in 1 .. Len(batch') : batch'[k] = batch[k + 1]
  BY <1>3, <1>4
<1>7. handled' \in Seq(1 .. MaxPosts)
  <2>1. \A p \in 1 .. MaxPosts : Append(handled, p) \in Seq(1 .. MaxPosts)
    BY <1>1
  <2> QED
    BY <1>1, <1>4, <1>5, <2>1
<1>8. ASSUME batch[1].kind # "own"
      PROVE  /\ Len(handled') = Len(handled) + 1
             /\ \A i \in 1 .. Len(handled) : handled'[i] = handled[i]
             /\ handled'[Len(handled')] = batch[1].post
  BY <1>1, <1>4, <1>5, <1>8
<1> QED
  BY <1>2, <1>4, <1>6, <1>7, <1>8

\* handle changes what Zulip holds only by the bot's own doing, for which it handles
\* what somebody did.
LEMMA HandleReports ==
    ASSUME TypeOK, Handle
    PROVE  \/ UNCHANGED <<pending, nextID>>
           \/ batch[1].kind # "own" /\ Added(batch[1].post, "own")
<1>1. Head(batch) = batch[1] /\ batch[1].post \in 1 .. MaxPosts
  BY HandleTakes DEF Event
<1>2. \/ UNCHANGED <<pending, nextID>>
      \/ batch[1].kind # "own" /\ Reports(batch[1].post, "own")
  BY <1>1 DEF Handle, Effect, Asks, Requests
<1>3. "own" \in Kinds
  BY DEF Kinds
<1> QED
  BY <1>1, <1>2, <1>3, ReportAdds

-----------------------------------------------------------------------------
(***************************************************************************)
(* Types.                                                                  *)
(***************************************************************************)
\* The types survive each step.
LEMMA TypeStep ==
    ASSUME TypeOK, Numbered, InHand, [Next]_vars
    PROVE  TypeOK'
<1> USE BoundsAssumption
<1>1. CASE UNCHANGED vars \/ PollBadQueue \/ BatchDone \/ Ends \/ Shutdown
  <2>1. /\ UNCHANGED <<lastEventID, batch, live, registered, pending, nextID, posts, heard, handled, started, faults>>
        /\ pc' \in {pc, "loop", "ended"} /\ queue' \in {queue, 0} /\ stopped' \in BOOLEAN
    BY <1>1 DEF PollBadQueue, Forgets, BatchDone, Ends, Shutdown, TypeOK, vars, bot, zulip
  <2> QED
    BY <2>1 DEF TypeOK
<1>7. CASE Identify
  <2>1. pc' \in {"loop", "failed", "ended"} /\ faults' \in 0 .. MaxFaults
    BY <1>7 DEF Identify, Fails, TypeOK
  <2> QED
    BY <1>7, <2>1 DEF Identify, TypeOK, zulip
<1>2. CASE Register
  <2>1. registered' \in 0 .. MaxQueues /\ live' = registered' /\ registered' # 0 /\ live' # queue
    BY <1>2 DEF Register, TypeOK
  <2>2. /\ queue' \in 0 .. MaxQueues /\ lastEventID' \in Nat \cup {-1} /\ nextID' = 0
        /\ (queue' = live' /\ queue' # 0 => lastEventID' < nextID') /\ faults' \in 0 .. MaxFaults
    <3>1. \/ queue' = registered' /\ lastEventID' = -1
          \/ UNCHANGED <<queue, lastEventID>>
      BY <1>2 DEF Register, FirstRead
    <3>2. nextID' = 0 /\ (UNCHANGED faults \/ Fails)
      BY <1>2 DEF Register
    <3>3. queue \in 0 .. MaxQueues /\ lastEventID \in Nat \cup {-1} /\ faults \in 0 .. MaxFaults
      BY DEF TypeOK
    <3>4. faults' \in 0 .. MaxFaults
      BY <3>2, <3>3 DEF Fails
    <3> QED
      BY <2>1, <3>1, <3>2, <3>3, <3>4
  <2>3. pending' \in Seq(Event) /\ heard' \subseteq 1 .. MaxPosts
    BY <1>2 DEF Register
  <2> QED
    BY <1>2, <2>1, <2>2, <2>3 DEF Register, TypeOK
<1>3. CASE Poll
  <2>1. Unread \in Seq(Event)
    BY <1>3, UnreadIsSuffix DEF Poll, Mine
  <2>2. pending' \in Seq(Event) /\ batch' \in Seq(Event) /\ pc' \in {"loop", "handle"} /\ faults' \in 0 .. MaxFaults
    BY <1>3, <2>1 DEF Poll, Fails, TypeOK
  <2> QED
    BY <1>3, <2>2 DEF Poll, TypeOK
<1>4. CASE Handle
  <2> DEFINE ev == batch[1]
  <2>1. ev \in Event /\ Head(batch) = ev /\ batch' \in Seq(Event) /\ handled' \in Seq(1 .. MaxPosts)
    BY <1>4, HandleTakes
  <2>2. ev.id \in Nat /\ ev.post \in 1 .. MaxPosts
    BY <2>1 DEF Event
  <2>3. pending' \in Seq(Event) /\ nextID' \in Nat /\ nextID' >= nextID
    <3>1. pending \in Seq(Event) /\ nextID \in Nat
      BY DEF TypeOK
    <3> QED
      BY <1>4, <3>1, HandleReports DEF Added
  <2>4. lastEventID' = IF ev.id > lastEventID THEN ev.id ELSE lastEventID
    BY <1>4, <2>1 DEF Handle, TakenUp
  <2>5. queue = live /\ queue # 0 => lastEventID' < nextID'
    <3> SUFFICES ASSUME Mine PROVE lastEventID' < nextID'
      BY DEF Mine
    <3>1. Len(batch) >= 1
      BY <1>4, HandleTakes
    <3>2. PICK i \in 1 .. Len(pending) : pending[i] = ev
      BY <3>1 DEF InHand, TypeOK
    <3>3. ev.id = nextID - Len(pending) + i - 1
      BY <3>2 DEF Numbered
    <3>4. Len(pending) \in Nat /\ nextID \in Nat /\ lastEventID \in Int /\ lastEventID < nextID
      BY DEF TypeOK, Mine
    <3> QED
      BY <2>2, <2>3, <2>4, <3>2, <3>3, <3>4
  <2>6. started' \subseteq 1 .. MaxPosts /\ faults' \in 0 .. MaxFaults
    <3>1. started' \in {started, started \cup {ev.post}} /\ (faults' = faults \/ Fails)
      BY <1>4, <2>1 DEF Handle, Effect
    <3>2. started' \subseteq 1 .. MaxPosts
      BY <2>2, <3>1 DEF TypeOK
    <3>3. faults' \in 0 .. MaxFaults
      BY <3>1 DEF Fails, TypeOK
    <3> QED
      BY <3>2, <3>3
  <2>7. lastEventID' \in Nat \cup {-1}
    BY <2>2, <2>4 DEF TypeOK
  <2> QED
    BY <1>4, <2>1, <2>3, <2>5, <2>6, <2>7 DEF Handle, TypeOK
<1>5. CASE \E kind \in Kinds \ {"own"} : Post(kind)
  <2> SUFFICES ASSUME NEW kind \in Kinds, Post(kind) PROVE TypeOK'
    BY <1>5
  <2>2. posts' \in Seq(Kinds) /\ Len(posts') \in 1 .. MaxPosts /\ Added(Len(posts'), kind)
    BY PostAdds
  <2>3. Len(posts') <= MaxPosts
    BY <2>2
  <2>4. pending' \in Seq(Event) /\ nextID' \in Nat /\ nextID' >= nextID
    BY <2>2 DEF Added, TypeOK
  <2>5. heard' \subseteq 1 .. MaxPosts
    BY <2>2 DEF Post, TypeOK
  <2>6. queue = live /\ queue # 0 => lastEventID < nextID'
    BY <2>4 DEF TypeOK
  <2> QED
    BY <2>2, <2>3, <2>4, <2>5, <2>6 DEF Post, TypeOK, bot
<1>6. CASE Expire
  BY <1>6 DEF Expire, TypeOK, bot
<1> QED
  BY <1>1, <1>2, <1>3, <1>4, <1>5, <1>6, <1>7 DEF Next, Loop

-----------------------------------------------------------------------------
(***************************************************************************)
(* Numbers.                                                                *)
(***************************************************************************)
\* Adding an event keeps the numbers.
LEMMA AddedNumbered ==
    ASSUME TypeOK, Numbered, NEW post, NEW kind, Added(post, kind),
           UNCHANGED <<live, queue>>, lastEventID' \in Int, lastEventID' >= lastEventID,
           live = 0 => heard' = heard
    PROVE  Numbered'
<1>0. Len(pending) \in Nat /\ nextID \in Nat /\ lastEventID \in Int
  BY DEF TypeOK
<1>1. CASE live = 0
  <2>1. UNCHANGED <<pending, nextID, heard>>
    BY <1>1 DEF Added
  <2> QED
    BY <1>0, <1>1, <2>1 DEF Numbered, Mine
<1>2. CASE live # 0
  <2>1. nextID' = nextID + 1 /\ Len(pending') = Len(pending) + 1
    BY <1>2 DEF Added
  <2>2. ASSUME NEW i \in 1 .. Len(pending')
        PROVE  pending'[i].id = nextID' - Len(pending') + i - 1
    <3>1. CASE i \in 1 .. Len(pending)
      <4>1. pending'[i] = pending[i]
        BY <1>2, <3>1 DEF Added
      <4>2. pending[i].id = nextID - Len(pending) + i - 1
        BY <3>1 DEF Numbered
      <4> QED
        BY <1>0, <2>1, <3>1, <4>1, <4>2
    <3>2. CASE i = Len(pending) + 1
      <4>1. pending'[i].id = nextID
        BY <1>2, <3>2 DEF Added
      <4> QED
        BY <1>0, <2>1, <3>2, <4>1
    <3> QED
      BY <1>0, <2>1, <3>1, <3>2
  <2> QED
    BY <1>0, <1>2, <2>1, <2>2 DEF Numbered, Mine
<1> QED
  BY <1>1, <1>2

\* The numbers survive each step.
LEMMA NumberedStep ==
    ASSUME TypeOK, Numbered, InHand, [Next]_vars
    PROVE  Numbered'
<1>0. /\ pending \in Seq(Event) /\ Len(pending) \in Nat /\ nextID \in Nat /\ lastEventID \in Int
      /\ live \in Nat /\ queue \in Nat /\ registered \in Nat
  BY BoundsAssumption DEF TypeOK
<1>1. CASE UNCHANGED vars \/ Identify \/ PollBadQueue \/ BatchDone \/ Ends \/ Shutdown
  <2>1. UNCHANGED <<pending, nextID, live, heard, lastEventID>> /\ queue' \in {queue, 0}
    BY <1>1 DEF Identify, PollBadQueue, Forgets, BatchDone, Ends, Shutdown, vars, bot, zulip
  <2> QED
    BY <2>1 DEF Numbered, Mine
<1>2. CASE Register
  <2>1. pending' = <<>> /\ nextID' = 0 /\ heard' = {} /\ queue = 0
    BY <1>2 DEF Register
  <2>2. Mine' => lastEventID' = -1
    BY <1>2, <2>1 DEF Register, FirstRead, Mine
  <2>3. Len(pending') = 0
    BY <2>1
  <2> QED
    BY <2>1, <2>2, <2>3 DEF Numbered
<1>3. CASE Poll
  <2>1. Mine /\ pending' = Unread /\ UNCHANGED <<nextID, live, heard, lastEventID, queue>>
    BY <1>3 DEF Poll, Mine
  <2>2. /\ Len(pending') = nextID - 1 - lastEventID /\ Len(pending') <= Len(pending)
        /\ \A i \in 1 .. Len(pending') : pending'[i] = pending[i + Len(pending) - Len(pending')]
    BY <2>1, UnreadIsSuffix
  <2>3. \A i \in 1 .. Len(pending') : i + Len(pending) - Len(pending') \in 1 .. Len(pending)
    BY <1>0, <2>2
  <2>4. ASSUME NEW i \in 1 .. Len(pending')
        PROVE  pending'[i].id = nextID - Len(pending') + i - 1
    <3> DEFINE j == i + Len(pending) - Len(pending')
    <3>1. j \in 1 .. Len(pending) /\ pending'[i] = pending[j]
      BY <2>2, <2>3
    <3>2. pending[j].id = nextID - Len(pending) + j - 1
      BY <3>1 DEF Numbered
    <3> QED
      BY <1>0, <2>2, <3>1, <3>2
  <2>5. Len(pending') <= nextID' /\ nextID' - Len(pending') <= lastEventID' + 1
    BY <1>0, <2>1, <2>2 DEF Numbered
  <2>6. ~(live' = 0) /\ nextID' = nextID
    BY <2>1 DEF Mine
  <2> QED
    BY <2>4, <2>5, <2>6 DEF Numbered
<1>4. CASE Handle
  <2> DEFINE ev == batch[1]
  <2>1. ev \in Event /\ ev.id \in Nat /\ ev.post \in 1 .. MaxPosts /\ Head(batch) = ev
    BY <1>4, HandleTakes DEF Event
  <2>2. UNCHANGED <<live, heard, queue>> /\ lastEventID' >= lastEventID /\ lastEventID' \in Int
    BY <1>0, <1>4, <2>1 DEF Handle, TakenUp
  <2>4. CASE UNCHANGED <<pending, nextID>>
    BY <1>0, <2>2, <2>4 DEF Numbered, Mine
  <2>5. CASE Added(ev.post, "own")
    BY <2>2, <2>5, AddedNumbered DEF Mine
  <2> QED
    BY <1>4, <2>4, <2>5, HandleReports
<1>5. CASE \E kind \in Kinds \ {"own"} : Post(kind)
  <2> SUFFICES ASSUME NEW kind \in Kinds, Post(kind) PROVE Numbered'
    BY <1>5
  <2>1. Added(Len(posts'), kind)
    BY PostAdds
  <2>2. UNCHANGED <<live, queue, lastEventID>> /\ (live = 0 => heard' = heard)
    BY DEF Post, bot
  <2> QED
    BY <1>0, <2>1, <2>2, AddedNumbered
<1>6. CASE Expire
  <2>1. live' = 0 /\ pending' = <<>> /\ nextID' = 0 /\ heard' = {}
    BY <1>6 DEF Expire
  <2> QED
    BY <2>1 DEF Numbered, Mine
<1> QED
  BY <1>1, <1>2, <1>3, <1>4, <1>5, <1>6 DEF Next, Loop

-----------------------------------------------------------------------------
(***************************************************************************)
(* What is in hand.                                                        *)
(***************************************************************************)

\* Zulip goes on holding what it holds when an event is added.
LEMMA AddedKeeps ==
    ASSUME NEW post, NEW kind, UNCHANGED <<pending, nextID>> \/ Added(post, kind), TypeOK
    PROVE  /\ Len(pending') >= Len(pending) /\ Len(pending') \in Nat
           /\ \A i \in 1 .. Len(pending) : pending'[i] = pending[i]
<1>1. pending \in Seq(Event) /\ Len(pending) \in Nat
  BY DEF TypeOK
<1> QED
  BY <1>1 DEF Added

LEMMA InHandStep ==
    ASSUME TypeOK, Numbered, InHand, [Next]_vars
    PROVE  InHand'
<1>0. /\ batch \in Seq(Event) /\ lastEventID \in Int /\ nextID \in Nat /\ Len(pending) \in Nat
  BY DEF TypeOK
<1>1. CASE UNCHANGED vars \/ Identify \/ PollBadQueue \/ BatchDone \/ Ends \/ Shutdown \/ Expire
  <2>1. /\ UNCHANGED <<batch, lastEventID>>
        /\ \/ UNCHANGED <<queue, live, pending>>
           \/ live' = 0 /\ queue' = queue
           \/ queue' = 0 /\ pc = "loop"
        /\ pc' = pc \/ pc # "handle" \/ batch = <<>>
    BY <1>1 DEF Identify, PollBadQueue, Forgets, BatchDone, Ends, Shutdown, Expire, vars, bot, zulip
  <2> QED
    BY <2>1 DEF InHand, Mine
<1>2. CASE Register
  <2>1. batch = <<>> /\ batch' = <<>>
    BY <1>2 DEF Register, InHand
  <2>2. Len(batch') = 0
    BY <2>1
  <2> QED
    BY <2>1, <2>2 DEF InHand
<1>3. CASE Poll
  <2>1. Mine /\ batch = <<>> /\ UNCHANGED <<queue, live, lastEventID, nextID>> /\ pending' = Unread
    BY <1>3 DEF Poll, Mine, InHand
  <2>2. CASE batch' = batch
    <3>1. Len(batch') = 0
      BY <2>1, <2>2
    <3> QED
      BY <2>1, <2>2, <3>1 DEF InHand
  <2>3. CASE batch' = pending' /\ pc' = "handle"
    <3>1. Len(pending') = nextID - 1 - lastEventID
      BY <2>1, UnreadIsSuffix
    <3>2. \A k \in 1 .. Len(pending') : pending'[k].id = nextID - Len(pending') + k - 1
      BY <1>3, <2>1, NumberedStep DEF Numbered, Next, Loop
    <3>3. \A k \in 1 .. Len(pending') : pending'[k].id = lastEventID + k
      BY <1>0, <3>1, <3>2
    <3> QED
      BY <2>1, <2>3, <3>3 DEF InHand, Mine
  <2> QED
    BY <1>3, <2>2, <2>3 DEF Poll
<1>4. CASE Handle
  <2> DEFINE ev == batch[1]
  <2>1. /\ Len(batch) >= 1 /\ Len(batch') = Len(batch) - 1 /\ Head(batch) = ev
        /\ \A k \in 1 .. Len(batch') : batch'[k] = batch[k + 1]
    BY <1>4, HandleTakes
  <2>2. UNCHANGED <<pc, queue, live>> /\ pc = "handle"
    BY <1>4 DEF Handle
  <2>3. Len(batch) \in Nat /\ batch # <<>>
    BY <1>0, <1>4 DEF Handle
  <2>4. ASSUME Mine
        PROVE  /\ lastEventID' = lastEventID + 1
               /\ \A k \in 1 .. Len(batch') :
                     batch'[k].id = lastEventID' + k /\ \E i \in 1 .. Len(pending') : pending'[i] = batch'[k]
    <3>1. ev.id = lastEventID + 1
      BY <2>1, <2>3, <2>4 DEF InHand
    <3>2. lastEventID' = lastEventID + 1
      BY <1>0, <1>4, <2>1, <3>1 DEF Handle, TakenUp
    <3>3. Len(pending') >= Len(pending) /\ Len(pending') \in Nat /\ \A i \in 1 .. Len(pending) : pending'[i] = pending[i]
      BY <1>4, HandleReports, AddedKeeps
    <3>4. ASSUME NEW k \in 1 .. Len(batch')
          PROVE  batch'[k].id = lastEventID' + k /\ \E i \in 1 .. Len(pending') : pending'[i] = batch'[k]
      <4>1. k + 1 \in 1 .. Len(batch) /\ batch'[k] = batch[k + 1]
        BY <2>1, <2>3
      <4>2. batch[k + 1].id = lastEventID + (k + 1)
        BY <2>4, <4>1 DEF InHand
      <4>3. PICK i \in 1 .. Len(pending) : pending[i] = batch[k + 1]
        BY <2>4, <4>1 DEF InHand
      <4>4. i \in 1 .. Len(pending') /\ pending'[i] = batch'[k]
        BY <1>0, <3>3, <4>1, <4>3
      <4>5. batch'[k].id = lastEventID' + k
        BY <1>0, <2>1, <2>3, <3>2, <4>1, <4>2
      <4> QED
        BY <4>4, <4>5
    <3> QED
      BY <3>2, <3>4
  <2> QED
    BY <2>2, <2>3, <2>4 DEF InHand, Mine
<1>5. CASE \E kind \in Kinds \ {"own"} : Post(kind)
  <2> SUFFICES ASSUME NEW kind \in Kinds, Post(kind) PROVE InHand'
    BY <1>5
  <2>1. UNCHANGED <<pc, queue, live, batch, lastEventID>>
    BY DEF Post, bot
  <2>2. Len(pending') >= Len(pending) /\ Len(pending') \in Nat /\ \A i \in 1 .. Len(pending) : pending'[i] = pending[i]
    BY PostAdds, AddedKeeps
  <2>3. ASSUME Mine, NEW k \in 1 .. Len(batch)
        PROVE  \E i \in 1 .. Len(pending') : pending'[i] = batch[k]
    <3>1. PICK i \in 1 .. Len(pending) : pending[i] = batch[k]
      BY <2>3 DEF InHand
    <3> QED
      BY <1>0, <2>2, <3>1
  <2> QED
    BY <2>1, <2>3 DEF InHand, Mine
<1> QED
  BY <1>1, <1>2, <1>3, <1>4, <1>5 DEF Next, Loop

-----------------------------------------------------------------------------
(***************************************************************************)
(* Order.                                                                  *)
(***************************************************************************)

\* What the sequences hold.
LEMMA Holds ==
    ASSUME TypeOK
    PROVE  /\ Len(batch) \in Nat /\ Len(handled) \in Nat /\ Len(pending) \in Nat /\ Len(posts) \in Nat
           /\ \A i \in 1 .. Len(handled) : handled[i] \in Nat
           /\ \A i \in 1 .. Len(pending) : pending[i] \in Event /\ pending[i].post \in Nat /\ pending[i].id \in Nat
           /\ \A i \in 1 .. Len(batch) : batch[i] \in Event /\ batch[i].post \in Nat /\ batch[i].id \in Nat
<1> DEFINE S == 1 .. MaxPosts
<1>1. /\ batch \in Seq(Event) /\ pending \in Seq(Event) /\ posts \in Seq(Kinds) /\ handled \in Seq(S)
  BY DEF TypeOK
<1>2. \A i \in 1 .. Len(batch) : batch[i] \in Event
  BY <1>1
<1>3. \A i \in 1 .. Len(pending) : pending[i] \in Event
  BY <1>1
<1>4. \A i \in 1 .. Len(handled) : handled[i] \in S
  <2> HIDE DEF S
  <2> QED
    BY <1>1
<1>5. Len(handled) \in Nat
  <2> HIDE DEF S
  <2> QED
    BY <1>1
<1>6. \A e \in Event : e.post \in Nat /\ e.id \in Nat
  BY DEF Event
<1>7. Len(batch) \in Nat /\ Len(pending) \in Nat /\ Len(posts) \in Nat
  BY <1>1
<1>8. \A i \in 1 .. Len(handled) : handled[i] \in Nat
  BY <1>4
<1> HIDE DEF S
<1> QED
  BY <1>2, <1>3, <1>5, <1>6, <1>7, <1>8

\* handle keeps the order: what it takes is newer than all it took before.
LEMMA HandleInOrder ==
    ASSUME TypeOK, Numbered, InHand, InOrder, Handle
    PROVE  InOrder'
<1> DEFINE ev == batch[1]
<1>1. /\ Len(batch) >= 1 /\ ev \in Event /\ Head(batch) = ev
      /\ Len(batch') = Len(batch) - 1
      /\ \A k \in 1 .. Len(batch') : batch'[k] = batch[k + 1]
  BY HandleTakes
<1>2. /\ Len(batch) \in Nat /\ Len(handled) \in Nat /\ Len(pending) \in Nat /\ Len(posts) \in Nat
      /\ nextID \in Nat /\ lastEventID \in Int /\ posts' = posts /\ (Mine' <=> Mine)
      /\ ev.id \in Nat /\ ev.post \in Nat /\ 1 \in 1 .. Len(batch)
      /\ \A i \in 1 .. Len(handled) : handled[i] \in Nat
      /\ \A i \in 1 .. Len(batch) : batch[i].post \in Nat
  <2>1. nextID \in Nat /\ lastEventID \in Int /\ posts' = posts /\ (Mine' <=> Mine)
    BY DEF TypeOK, Handle, Mine
  <2> QED
    BY <1>1, <2>1, Holds
<1>3. \/ ev.kind = "own" /\ handled' = handled
      \/ /\ ev.kind # "own" /\ Len(handled') = Len(handled) + 1
         /\ \A i \in 1 .. Len(handled) : handled'[i] = handled[i]
         /\ handled'[Len(handled) + 1] = ev.post
  BY HandleTakes
<1>4. /\ Len(pending') \in Nat /\ Len(pending') >= Len(pending)
      /\ \A i \in 1 .. Len(pending) : pending'[i] = pending[i]
      /\ \A i \in 1 .. Len(pending') :
            i \notin 1 .. Len(pending) => /\ pending'[i].kind = "own" /\ pending'[i].post = ev.post
                                        /\ ev.kind # "own"
  <2>1. CASE UNCHANGED <<pending, nextID>>
    BY <1>2, <2>1
  <2>2. CASE ev.kind # "own" /\ Added(ev.post, "own")
    <3>1. CASE UNCHANGED pending
      BY <1>2, <3>1
    <3>2. CASE ~UNCHANGED pending
      <4>1. /\ Len(pending') = Len(pending) + 1
            /\ \A i \in 1 .. Len(pending) : pending'[i] = pending[i]
            /\ pending'[Len(pending) + 1].kind = "own" /\ pending'[Len(pending) + 1].post = ev.post
        BY <2>2, <3>2 DEF Added
      <4>2. \A i \in 1 .. Len(pending') : i \notin 1 .. Len(pending) => i = Len(pending) + 1
        BY <1>2, <4>1
      <4> QED
        BY <1>2, <2>2, <4>1, <4>2
    <3> QED
      BY <3>1, <3>2
  <2> QED
    BY <2>1, <2>2, HandleReports
<1>5. \A i \in 1 .. Len(handled) : i \in 1 .. Len(handled') /\ handled'[i] = handled[i]
  BY <1>2, <1>3
<1>6. ev.post <= Len(posts) /\ (ev.kind # "own" => \A i \in 1 .. Len(handled) : handled[i] < ev.post)
  BY <1>1, <1>2 DEF InOrder, Known
<1>7. \A i \in 1 .. Len(handled') :
          \/ i \in 1 .. Len(handled) /\ handled'[i] = handled[i]
          \/ i = Len(handled) + 1 /\ handled'[i] = ev.post /\ ev.kind # "own"
  <2> HIDE DEF ev
  <2>1. CASE handled' = handled
    BY <2>1
  <2>2. CASE Len(handled') = Len(handled) + 1
    BY <1>2, <1>3, <2>2
  <2> QED
    BY <1>3, <2>1, <2>2
<1>8. \A k \in 1 .. Len(batch') : k + 1 \in 1 .. Len(batch) /\ batch'[k] = batch[k + 1]
  BY <1>1, <1>2
<1>9. HandledInOrder'
  BY <1>2, <1>6, <1>7 DEF InOrder, HandledInOrder
<1>10. Ascending(pending)'
  BY <1>2, <1>4 DEF InOrder, Ascending
<1>11. Ascending(batch)'
  <2> SUFFICES ASSUME NEW i \in 1 .. Len(batch'), NEW k \in 1 .. Len(batch'), i < k,
                      batch'[i].kind # "own", batch'[k].kind # "own"
               PROVE  batch'[i].post < batch'[k].post
    BY DEF Ascending
  <2>1. i + 1 < k + 1
    BY <1>1, <1>2
  <2> QED
    BY <1>8, <2>1 DEF InOrder, Ascending
<1>12. Known(pending)'
  <2> SUFFICES ASSUME NEW k \in 1 .. Len(pending')
               PROVE  /\ pending'[k].post <= Len(posts)
                      /\ pending'[k].kind = "own" => \E i \in 1 .. Len(handled') : handled'[i] = pending'[k].post
    BY <1>2 DEF Known
  <2>1. CASE k \in 1 .. Len(pending)
    BY <1>4, <1>5, <2>1 DEF InOrder, Known
  <2>2. CASE k \notin 1 .. Len(pending)
    <3>1. Len(handled) + 1 \in 1 .. Len(handled') /\ handled'[Len(handled) + 1] = ev.post
      BY <1>2, <1>3, <1>4, <2>2
    <3> QED
      BY <1>4, <1>6, <2>2, <3>1
  <2> QED
    BY <2>1, <2>2
<1>13. Known(batch)'
  <2> SUFFICES ASSUME NEW k \in 1 .. Len(batch')
               PROVE  /\ batch'[k].post <= Len(posts)
                      /\ batch'[k].kind = "own" => \E i \in 1 .. Len(handled') : handled'[i] = batch'[k].post
    BY <1>2 DEF Known
  <2>1. k + 1 \in 1 .. Len(batch) /\ batch'[k] = batch[k + 1]
    BY <1>8
  <2> QED
    BY <1>5, <2>1 DEF InOrder, Known
<1>14. \A i \in 1 .. Len(handled') : handled'[i] <= Len(posts')
  BY <1>2, <1>6, <1>7 DEF InOrder
<1>15. ASSUME NEW i \in 1 .. Len(handled'), NEW k \in 1 .. Len(batch'), batch'[k].kind # "own"
       PROVE  handled'[i] < batch'[k].post
  <2>1. CASE i \in 1 .. Len(handled) /\ handled'[i] = handled[i]
    BY <1>8, <1>15, <2>1 DEF InOrder
  <2>2. CASE handled'[i] = ev.post /\ ev.kind # "own"
    <3>1. 1 \in 1 .. Len(batch) /\ 1 < k + 1
      BY <1>1, <1>2
    <3> QED
      BY <1>8, <1>15, <2>2, <3>1 DEF InOrder, Ascending
  <2> QED
    BY <1>7, <2>1, <2>2
<1>16. ASSUME Mine, NEW i \in 1 .. Len(handled'), NEW k \in 1 .. Len(pending'),
              pending'[k].kind # "own", pending'[k].id > lastEventID'
       PROVE  handled'[i] < pending'[k].post
  <2>1. k \in 1 .. Len(pending) /\ pending'[k] = pending[k]
    BY <1>4, <1>16
  <2>2. ev.id = lastEventID + 1
    BY <1>1, <1>2, <1>16 DEF InHand
  <2>3. lastEventID' = lastEventID + 1
    BY <1>1, <1>2, <2>2 DEF Handle, TakenUp
  <2>4. pending[k].id \in Int
    BY <1>2, <2>1 DEF Numbered
  <2>5. CASE i \in 1 .. Len(handled) /\ handled'[i] = handled[i]
    <3>1. pending[k].id > lastEventID
      BY <1>2, <1>16, <2>1, <2>3, <2>4
    <3> QED
      BY <1>16, <2>1, <2>5, <3>1 DEF InOrder
  <2>6. CASE handled'[i] = ev.post /\ ev.kind # "own"
    <3>1. PICK m \in 1 .. Len(pending) : pending[m] = ev
      BY <1>1, <1>2, <1>16 DEF InHand
    <3>2. pending[m].id = nextID - Len(pending) + m - 1 /\ pending[k].id = nextID - Len(pending) + k - 1
      BY <2>1 DEF Numbered
    <3>3. m < k
      BY <1>2, <1>16, <2>1, <2>2, <2>3, <3>1, <3>2
    <3> QED
      BY <1>16, <2>1, <2>6, <3>1, <3>3 DEF InOrder, Ascending
  <2> QED
    BY <1>7, <2>5, <2>6
<1> HIDE DEF ev
<1> QED
  BY <1>2, <1>9, <1>10, <1>11, <1>12, <1>13, <1>14, <1>15, <1>16 DEF InOrder

\* A post is newer than everything known, wherever it is reported.
LEMMA PostInOrder ==
    ASSUME TypeOK, Numbered, InOrder, NEW kind \in Kinds \ {"own"}, Post(kind)
    PROVE  InOrder'
<1>1. /\ Len(posts') = Len(posts) + 1 /\ Added(Len(posts'), kind)
      /\ UNCHANGED <<batch, handled, lastEventID>> /\ (Mine' <=> Mine)
  BY PostAdds DEF Post, bot, Mine
<1>2. /\ Len(batch) \in Nat /\ Len(handled) \in Nat /\ Len(pending) \in Nat /\ Len(posts) \in Nat
      /\ \A i \in 1 .. Len(handled) : handled[i] \in Nat
      /\ \A i \in 1 .. Len(pending) : pending[i].post \in Nat
      /\ \A i \in 1 .. Len(batch) : batch[i].post \in Nat
  BY Holds
<1>3. kind # "own"
  OBVIOUS
<1>4. \A i \in 1 .. Len(pending') :
          \/ i \in 1 .. Len(pending) /\ pending'[i] = pending[i]
          \/ i = Len(pending) + 1 /\ pending'[i].post = Len(posts') /\ pending'[i].kind = kind
  <2>1. CASE UNCHANGED pending
    BY <2>1
  <2>2. CASE ~UNCHANGED pending
    BY <1>1, <1>2, <2>2 DEF Added
  <2> QED
    BY <2>1, <2>2
<1>5. HandledInOrder' /\ Ascending(batch)'
  BY <1>1 DEF InOrder, HandledInOrder, Ascending
<1>6. \A i \in 1 .. Len(pending) : pending[i].post <= Len(posts)
  BY DEF InOrder, Known
<1>7. Ascending(pending)'
  <2> SUFFICES ASSUME NEW i \in 1 .. Len(pending'), NEW k \in 1 .. Len(pending'), i < k,
                      pending'[i].kind # "own", pending'[k].kind # "own"
               PROVE  pending'[i].post < pending'[k].post
    BY DEF Ascending
  <2>1. i \in 1 .. Len(pending) /\ pending'[i] = pending[i]
    BY <1>2, <1>4
  <2>2. CASE k \in 1 .. Len(pending) /\ pending'[k] = pending[k]
    BY <2>1, <2>2 DEF InOrder, Ascending
  <2>3. CASE pending'[k].post = Len(posts')
    BY <1>1, <1>2, <1>6, <2>1, <2>3
  <2> QED
    BY <1>4, <2>2, <2>3
<1>8. Known(pending)'
  <2> SUFFICES ASSUME NEW k \in 1 .. Len(pending')
               PROVE  /\ pending'[k].post <= Len(posts')
                      /\ pending'[k].kind = "own" => \E i \in 1 .. Len(handled) : handled[i] = pending'[k].post
    BY <1>1 DEF Known
  <2>1. CASE k \in 1 .. Len(pending) /\ pending'[k] = pending[k]
    <3>1. pending[k].post <= Len(posts')
      BY <1>1, <1>2, <1>6, <2>1
    <3> QED
      BY <2>1, <3>1 DEF InOrder, Known
  <2>2. CASE pending'[k].post = Len(posts') /\ pending'[k].kind = kind
    BY <1>1, <1>2, <1>3, <2>2
  <2> QED
    BY <1>4, <2>1, <2>2
<1>9. Known(batch)'
  <2>1. \A k \in 1 .. Len(batch) : batch[k].post <= Len(posts')
    BY <1>1, <1>2 DEF InOrder, Known
  <2> QED
    BY <1>1, <2>1 DEF InOrder, Known
<1>10. \A i \in 1 .. Len(handled') : handled'[i] <= Len(posts')
  BY <1>1, <1>2 DEF InOrder
<1>11. ASSUME Mine, NEW i \in 1 .. Len(handled), NEW k \in 1 .. Len(pending'),
              pending'[k].kind # "own", pending'[k].id > lastEventID
       PROVE  handled[i] < pending'[k].post
  <2>1. CASE k \in 1 .. Len(pending) /\ pending'[k] = pending[k]
    BY <1>11, <2>1 DEF InOrder
  <2>2. CASE pending'[k].post = Len(posts')
    <3>1. handled[i] <= Len(posts)
      BY DEF InOrder
    <3> QED
      BY <1>1, <1>2, <2>2, <3>1
  <2> QED
    BY <1>4, <2>1, <2>2
<1> QED
  BY <1>1, <1>5, <1>7, <1>8, <1>9, <1>10, <1>11 DEF InOrder

\* A poll hands over what is unread: all of it newer than anything handled.
LEMMA PollInOrder ==
    ASSUME TypeOK, Numbered, InHand, InOrder, Poll
    PROVE  InOrder'
<1>1. /\ Mine /\ Mine' /\ pending' = Unread /\ UNCHANGED <<nextID, lastEventID, handled, posts>>
      /\ batch' = batch \/ batch' = pending'
  BY DEF Poll, Mine
<1>2. batch = <<>> /\ Len(<<>>) = 0
  BY DEF Poll, InHand
<1>3. /\ Len(handled) \in Nat /\ Len(pending) \in Nat /\ nextID \in Nat /\ lastEventID \in Int
  BY Holds DEF TypeOK
<1>4. /\ Len(pending') \in Nat /\ Len(pending') = nextID - 1 - lastEventID /\ Len(pending') <= Len(pending)
      /\ \A i \in 1 .. Len(pending') : pending'[i] = pending[i + Len(pending) - Len(pending')]
  BY <1>1, UnreadIsSuffix
<1> DEFINE d == Len(pending) - Len(pending')
<1>5. d \in Nat /\ \A i \in 1 .. Len(pending') : i + d \in 1 .. Len(pending) /\ pending'[i] = pending[i + d]
  BY <1>3, <1>4
<1>6. \A i \in 1 .. Len(pending') : pending[i + d].id > lastEventID
  <2> TAKE i \in 1 .. Len(pending')
  <2>1. pending[i + d].id = nextID - Len(pending) + (i + d) - 1
    BY <1>5 DEF Numbered
  <2> QED
    BY <1>3, <1>4, <2>1
<1> HIDE DEF d
<1>7. Ascending(pending)'
  <2> SUFFICES ASSUME NEW i \in 1 .. Len(pending'), NEW k \in 1 .. Len(pending'), i < k,
                      pending'[i].kind # "own", pending'[k].kind # "own"
               PROVE  pending'[i].post < pending'[k].post
    BY DEF Ascending
  <2>1. i + d < k + d
    BY <1>4, <1>5
  <2> QED
    BY <1>5, <2>1 DEF InOrder, Ascending
<1>8. Known(pending)'
  <2> SUFFICES ASSUME NEW k \in 1 .. Len(pending')
               PROVE  /\ pending'[k].post <= Len(posts)
                      /\ pending'[k].kind = "own" => \E i \in 1 .. Len(handled) : handled[i] = pending'[k].post
    BY <1>1 DEF Known
  <2>1. k + d \in 1 .. Len(pending) /\ pending'[k] = pending[k + d]
    BY <1>5
  <2> QED
    BY <2>1 DEF InOrder, Known
<1>9. ASSUME NEW i \in 1 .. Len(handled), NEW k \in 1 .. Len(pending'), pending'[k].kind # "own"
      PROVE  handled[i] < pending'[k].post
  <2>1. k + d \in 1 .. Len(pending) /\ pending'[k] = pending[k + d] /\ pending[k + d].id > lastEventID
    BY <1>5, <1>6
  <2> QED
    BY <1>1, <1>9, <2>1 DEF InOrder
<1>10. CASE batch' = batch
  <2>1. Ascending(batch)' /\ Known(batch)' /\ Len(batch') = 0
    BY <1>2, <1>10 DEF Ascending, Known
  <2> QED
    BY <1>1, <1>7, <1>8, <1>9, <2>1 DEF InOrder, HandledInOrder
<1>11. CASE batch' = pending'
  <2>1. Ascending(batch)' /\ Known(batch)'
    BY <1>7, <1>8, <1>11 DEF Ascending, Known
  <2> QED
    BY <1>1, <1>7, <1>8, <1>9, <1>11, <2>1 DEF InOrder, HandledInOrder
<1> QED
  BY <1>1, <1>10, <1>11

\* The order survives each step.
LEMMA InOrderStep ==
    ASSUME TypeOK, Numbered, InHand, InOrder, [Next]_vars
    PROVE  InOrder'
<1>1. CASE UNCHANGED vars \/ Identify \/ PollBadQueue \/ BatchDone \/ Ends \/ Shutdown
  <2>1. UNCHANGED <<pending, batch, handled, posts, lastEventID>> /\ (Mine' => Mine)
    BY <1>1 DEF Identify, PollBadQueue, Forgets, BatchDone, Ends, Shutdown, Mine, vars, bot, zulip
  <2> QED
    BY <2>1 DEF InOrder, HandledInOrder, Ascending, Known
<1>2. CASE Register \/ Expire
  <2>1. UNCHANGED <<batch, handled, posts>> /\ pending' = <<>>
    BY <1>2 DEF Register, Expire, bot
  <2>2. Len(pending') = 0
    BY <2>1
  <2>3. Ascending(pending)' /\ Known(pending)'
    BY <2>2 DEF Ascending, Known
  <2> QED
    BY <2>1, <2>2, <2>3 DEF InOrder, HandledInOrder, Ascending, Known
<1>3. CASE Poll
  BY <1>3, PollInOrder
<1>4. CASE Handle
  BY <1>4, HandleInOrder
<1>5. CASE \E kind \in Kinds \ {"own"} : Post(kind)
  BY <1>5, PostInOrder
<1> QED
  BY <1>1, <1>2, <1>3, <1>4, <1>5 DEF Next, Loop

-----------------------------------------------------------------------------
(***************************************************************************)
(* Nothing is skipped.                                                     *)
(***************************************************************************)
\* Where the event about p is: unread at Zulip, in hand, or handled.
Unhandled(p) == \E i \in 1 .. Len(pending) : pending[i].post = p /\ pending[i].id > lastEventID

Accounted(p) ==
    \/ Unhandled(p)
    \/ \E i \in 1 .. Len(batch) : batch[i].post = p
    \/ \E i \in 1 .. Len(handled) : handled[i] = p

\* The property in the terms of the proof.
LEMMA SkippedMeans ==
    TypeOK /\ Numbered => (NoneSkipped <=> (Mine => \A p \in heard : Accounted(p)))
<1> SUFFICES ASSUME TypeOK, Numbered
             PROVE  NoneSkipped <=> (Mine => \A p \in heard : Accounted(p))
  OBVIOUS
<1>1. DOMAIN pending = 1 .. Len(pending) /\ DOMAIN batch = 1 .. Len(batch)
  BY DEF TypeOK
<1>2. DOMAIN handled = 1 .. Len(handled)
  <2> DEFINE S == 1 .. MaxPosts
  <2>1. handled \in Seq(S)
    BY DEF TypeOK
  <2> HIDE DEF S
  <2> QED
    BY <2>1
<1>3. \A p : p \in Range(handled) <=> \E i \in 1 .. Len(handled) : handled[i] = p
  BY <1>2 DEF Range
<1>4. queue = live /\ queue = 0 => heard = {}
  BY DEF Numbered
<1> QED
  BY <1>1, <1>3, <1>4 DEF NoneSkipped, Mine, Accounted, Unhandled

\* The same after a step.
LEMMA SkippedMeansNext ==
    (TypeOK /\ Numbered => (NoneSkipped <=> (Mine => \A p \in heard : Accounted(p))))'
  BY SkippedMeans, PTL

\* handle takes the next event and no other.
LEMMA HandleSkipsNone ==
    ASSUME TypeOK, Numbered, InHand, InOrder, Handle, Mine, NEW p, Accounted(p)
    PROVE  Accounted(p)'
<1> DEFINE ev == batch[1]
<1>1. /\ Len(batch) >= 1 /\ ev \in Event /\ Head(batch) = ev
      /\ Len(batch') = Len(batch) - 1
      /\ \A k \in 1 .. Len(batch') : batch'[k] = batch[k + 1]
  BY HandleTakes
<1>2. /\ Len(batch) \in Nat /\ Len(handled) \in Nat /\ Len(pending) \in Nat
      /\ nextID \in Nat /\ lastEventID \in Int /\ 1 \in 1 .. Len(batch)
  BY <1>1, Holds DEF TypeOK
<1>3. \/ ev.kind = "own" /\ handled' = handled
      \/ /\ ev.kind # "own" /\ Len(handled') = Len(handled) + 1
         /\ \A i \in 1 .. Len(handled) : handled'[i] = handled[i]
         /\ handled'[Len(handled) + 1] = ev.post
  BY HandleTakes
<1>4. ev.id = lastEventID + 1 /\ lastEventID' = lastEventID + 1
  BY <1>1, <1>2 DEF InHand, Handle, TakenUp
<1>5. Len(pending') \in Nat /\ Len(pending') >= Len(pending) /\ \A i \in 1 .. Len(pending) : pending'[i] = pending[i]
  BY HandleReports, AddedKeeps
<1>6. ASSUME ev.post = p PROVE \E i \in 1 .. Len(handled') : handled'[i] = p
  <2>1. CASE ev.kind = "own"
    BY <1>2, <1>3, <1>6, <2>1 DEF InOrder, Known
  <2>2. CASE ev.kind # "own"
    <3>1. Len(handled) + 1 \in 1 .. Len(handled')
      BY <1>2, <1>3, <2>2
    <3> QED
      BY <1>3, <1>6, <2>2, <3>1
  <2> QED
    BY <2>1, <2>2
<1>7. CASE Unhandled(p)
  <2>1. PICK i \in 1 .. Len(pending) : pending[i].post = p /\ pending[i].id > lastEventID
    BY <1>7 DEF Unhandled
  <2>2. PICK m \in 1 .. Len(pending) : pending[m] = ev
    BY <1>1, <1>2 DEF InHand
  <2>3. pending[i].id = nextID - Len(pending) + i - 1 /\ pending[m].id = nextID - Len(pending) + m - 1
    BY DEF Numbered
  <2>4. CASE i = m
    BY <1>6, <2>1, <2>2, <2>4 DEF Accounted
  <2>5. CASE i # m
    <3>1. pending[i].id > lastEventID'
      BY <1>2, <1>4, <2>1, <2>2, <2>3, <2>5
    <3>2. i \in 1 .. Len(pending') /\ pending'[i] = pending[i]
      BY <1>2, <1>5
    <3> QED
      BY <2>1, <3>1, <3>2 DEF Accounted, Unhandled
  <2> QED
    BY <2>4, <2>5
<1>8. ASSUME NEW k \in 1 .. Len(batch), batch[k].post = p
      PROVE  Accounted(p)'
  <2>1. CASE k = 1
    BY <1>6, <1>8, <2>1 DEF Accounted
  <2>2. CASE k # 1
    <3>1. k - 1 \in 1 .. Len(batch') /\ (k - 1) + 1 = k
      BY <1>1, <1>2, <2>2
    <3>2. batch'[k - 1].post = p
      BY <1>1, <1>8, <3>1
    <3> QED
      BY <3>1, <3>2 DEF Accounted
  <2> QED
    BY <2>1, <2>2
<1>9. ASSUME NEW i \in 1 .. Len(handled), handled[i] = p
      PROVE  Accounted(p)'
  <2>1. i \in 1 .. Len(handled') /\ handled'[i] = p
    BY <1>2, <1>3, <1>9
  <2> QED
    BY <2>1 DEF Accounted
<1> HIDE DEF ev
<1> QED
  BY <1>7, <1>8, <1>9 DEF Accounted

\* A poll loses nothing that is unread.
LEMMA PollSkipsNone ==
    ASSUME TypeOK, Numbered, InHand, Poll, NEW p, Accounted(p)
    PROVE  Accounted(p)'
<1>1. /\ Mine /\ pending' = Unread /\ UNCHANGED <<nextID, lastEventID, handled>>
      /\ batch = <<>> /\ Len(<<>>) = 0
  BY DEF Poll, Mine, InHand
<1>2. Len(pending) \in Nat /\ nextID \in Nat /\ lastEventID \in Int
  BY Holds DEF TypeOK
<1>3. /\ Len(pending') \in Nat /\ Len(pending') = nextID - 1 - lastEventID /\ Len(pending') <= Len(pending)
      /\ \A i \in 1 .. Len(pending') : pending'[i] = pending[i + Len(pending) - Len(pending')]
  BY <1>1, UnreadIsSuffix
<1>4. CASE Unhandled(p)
  <2>1. PICK j \in 1 .. Len(pending) : pending[j].post = p /\ pending[j].id > lastEventID
    BY <1>4 DEF Unhandled
  <2> DEFINE i == j - Len(pending) + Len(pending')
  <2>2. pending[j].id = nextID - Len(pending) + j - 1
    BY DEF Numbered
  <2>3. i \in 1 .. Len(pending') /\ i + Len(pending) - Len(pending') = j
    BY <1>2, <1>3, <2>1, <2>2
  <2>4. pending'[i] = pending[j]
    BY <1>3, <2>3
  <2> HIDE DEF i
  <2> QED
    BY <1>1, <2>1, <2>3, <2>4 DEF Accounted, Unhandled
<1>5. CASE \E i \in 1 .. Len(handled) : handled[i] = p
  BY <1>1, <1>5 DEF Accounted
<1> QED
  BY <1>1, <1>4, <1>5 DEF Accounted

\* What is posted is unread, and what was unread stays so.
LEMMA PostSkipsNone ==
    ASSUME TypeOK, Numbered, Mine, \A p \in heard : Accounted(p),
           NEW kind \in Kinds \ {"own"}, Post(kind), NEW p \in heard'
    PROVE  Accounted(p)'
<1>1. /\ Added(Len(posts'), kind) /\ UNCHANGED <<batch, handled, lastEventID>>
      /\ p \in heard \/ p = Len(posts')
  BY PostAdds DEF Post, bot
<1>2. Len(pending) \in Nat /\ nextID \in Nat /\ lastEventID \in Int /\ lastEventID < nextID /\ live # 0
  BY Holds DEF TypeOK, Mine
<1>3. /\ Len(pending') = Len(pending) + 1
      /\ \A i \in 1 .. Len(pending) : i \in 1 .. Len(pending') /\ pending'[i] = pending[i]
      /\ pending'[Len(pending) + 1] = [id |-> nextID, post |-> Len(posts'), kind |-> kind]
  BY <1>1, <1>2 DEF Added
<1>4. CASE p \in heard
  BY <1>1, <1>3, <1>4 DEF Accounted, Unhandled
<1>5. CASE p = Len(posts')
  <2>1. /\ Len(pending) + 1 \in 1 .. Len(pending')
        /\ pending'[Len(pending) + 1].post = p /\ pending'[Len(pending) + 1].id = nextID
    BY <1>2, <1>3, <1>5
  <2> QED
    BY <1>1, <1>2, <2>1 DEF Accounted, Unhandled
<1> QED
  BY <1>1, <1>4, <1>5

\* No step skips anything.
LEMMA SkippedStep ==
    ASSUME TypeOK, Numbered, InHand, InOrder, NoneSkipped, [Next]_vars
    PROVE  NoneSkipped'
<1>1. TypeOK' /\ Numbered'
  BY TypeStep, NumberedStep
<1> SUFFICES ASSUME Mine', NEW p \in heard' PROVE Accounted(p)'
  BY <1>1, SkippedMeansNext
<1>2. Mine => \A q \in heard : Accounted(q)
  BY SkippedMeans
<1>3. CASE UNCHANGED vars \/ Identify \/ PollBadQueue \/ BatchDone \/ Ends \/ Shutdown
  <2>1. UNCHANGED <<pending, batch, handled, heard, lastEventID>> /\ Mine
    BY <1>3 DEF Identify, PollBadQueue, Forgets, BatchDone, Ends, Shutdown, Mine, vars, bot, zulip
  <2> QED
    BY <1>2, <2>1 DEF Accounted, Unhandled
<1>4. CASE Register \/ Expire
  BY <1>4 DEF Register, Expire
<1>5. CASE Poll
  <2>1. Mine /\ heard' = heard
    BY <1>5 DEF Poll, Mine
  <2> QED
    BY <1>2, <1>5, <2>1, PollSkipsNone
<1>6. CASE Handle
  <2>1. Mine /\ heard' = heard
    BY <1>6 DEF Handle, Mine
  <2> QED
    BY <1>2, <1>6, <2>1, HandleSkipsNone
<1>7. CASE \E kind \in Kinds \ {"own"} : Post(kind)
  <2>1. PICK kind \in Kinds \ {"own"} : Post(kind)
    BY <1>7
  <2>2. Mine
    BY <2>1 DEF Post, bot, Mine
  <2> QED
    BY <1>2, <2>1, <2>2, PostSkipsNone
<1> QED
  BY <1>3, <1>4, <1>5, <1>6, <1>7 DEF Next, Loop

-----------------------------------------------------------------------------
(***************************************************************************)
(* The theorems.                                                           *)
(***************************************************************************)
\* The invariant holds to begin with, and every step keeps it.
Invariant == TypeOK /\ Numbered /\ InHand /\ InOrder /\ NoneSkipped

LEMMA InitInvariant == Init => Invariant
<1> SUFFICES ASSUME Init PROVE Invariant
  OBVIOUS
<1>1. /\ pc = "me" /\ queue = 0 /\ live = 0 /\ heard = {} /\ nextID = 0 /\ lastEventID = -1
      /\ batch = <<>> /\ pending = <<>> /\ handled = <<>> /\ posts = <<>> /\ registered = 0
      /\ stopped = FALSE /\ started = {} /\ faults = MaxFaults
  BY DEF Init
<1>2. /\ <<>> \in Seq(Event) /\ <<>> \in Seq(Kinds) /\ <<>> \in Seq(1 .. MaxPosts) /\ Len(<<>>) = 0
  OBVIOUS
<1>3. TypeOK
  <2>1. batch \in Seq(Event) /\ pending \in Seq(Event) /\ posts \in Seq(Kinds) /\ handled \in Seq(1 .. MaxPosts)
    BY <1>1, <1>2
  <2>2. pc \in {"me", "loop", "handle", "ended", "failed"} /\ stopped \in BOOLEAN
    BY <1>1
  <2>3. heard \subseteq 1 .. MaxPosts /\ started \subseteq 1 .. MaxPosts /\ Len(posts) <= MaxPosts
    BY <1>1, <1>2, BoundsAssumption
  <2>4. /\ queue \in 0 .. MaxQueues /\ live \in 0 .. MaxQueues /\ registered \in 0 .. MaxQueues
        /\ faults \in 0 .. MaxFaults /\ lastEventID \in Nat \cup {-1} /\ nextID \in Nat
    BY <1>1, BoundsAssumption
  <2> QED
    BY <1>1, <2>1, <2>2, <2>3, <2>4 DEF TypeOK
<1>4. Numbered /\ InHand
  BY <1>1, <1>2 DEF Numbered, InHand, Mine
<1>5. InOrder
  BY <1>1, <1>2 DEF InOrder, HandledInOrder, Ascending, Known, Mine
<1>6. NoneSkipped
  BY <1>1 DEF NoneSkipped
<1> QED
  BY <1>3, <1>4, <1>5, <1>6 DEF Invariant

LEMMA InvariantStep == Invariant /\ [Next]_vars => Invariant'
  BY TypeStep, NumberedStep, InHandStep, InOrderStep, SkippedStep DEF Invariant

LEMMA InvariantHolds == Spec => []Invariant
<1>1. Init => Invariant
  BY InitInvariant
<1>2. Invariant /\ [Next]_vars => Invariant'
  BY InvariantStep
<1> QED
  BY <1>1, <1>2, PTL DEF Spec

\* The event loop's state is well typed, and what it has taken up of its queue
\* Zulip has handed out.
THEOREM TypeCorrect == Spec => []TypeOK
<1>1. Invariant => TypeOK
  BY DEF Invariant
<1> QED
  BY <1>1, InvariantHolds, PTL

\* bot.go:94-99: however often answers are lost and queues replaced, nothing that
\* people do is handled twice or out of order.
THEOREM NothingTwice == Spec => []HandledInOrder
<1>1. Invariant => HandledInOrder
  BY DEF Invariant, InOrder
<1> QED
  BY <1>1, InvariantHolds, PTL

\* bot.go:68-87: whatever the bot's living queue reported is unread, in hand or handled.
THEOREM NothingSkipped == Spec => []NoneSkipped
<1>1. Invariant => NoneSkipped
  BY DEF Invariant
<1> QED
  BY <1>1, InvariantHolds, PTL
=============================================================================
