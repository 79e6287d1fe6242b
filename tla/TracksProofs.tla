---------------------------- MODULE TracksProofs ----------------------------
(***************************************************************************)
(* Proofs about the per-participant tracks, for any participants and any   *)
(* bounds: the states are well typed, two attaches never write one file, a *)
(* stop pass that answers within its ceilings leaves nothing behind, every *)
(* span of the finished manifest is true and all audio on disk is listed.  *)
(***************************************************************************)
EXTENDS Tracks, FiniteSetTheorems, TLAPS

-----------------------------------------------------------------------------
(***************************************************************************)
(* Types.                                                                  *)
(***************************************************************************)

\* Files are counted: those of one participant are finitely many.
LEMMA AllocatedFinite ==
    ASSUME NEW p
    PROVE  IsFiniteSet(Allocated(p)) /\ Cardinality(Allocated(p)) \in Nat
<1>1. IsFiniteSet(1 .. MaxAttach)
  BY FS_Interval, BoundsAssumption
<1>2. IsFiniteSet(Keys)
  BY <1>1, FS_Product, ParticipantsAssumption DEF Keys
<1>3. Allocated(p) \in SUBSET Keys
  BY DEF Allocated
<1> QED
  BY <1>2, <1>3, FS_Subset, FS_CardinalityType

LEMMA FileAfterType ==
    ASSUME TypeOK, NEW k \in Keys
    PROVE  FileAfter(k) \in Nat \ {0}
  BY AllocatedFinite DEF FileAfter, TypeOK

\* What the page tells node are events.
LEMMA ToldType ==
    ASSUME NEW K, K \subseteq Keys, NEW type \in {"start", "end"}, NEW t \in Times
    PROVE  Told(K, type, t) \subseteq Events
  BY DEF Told, Events

\* Folding events into the manifest keeps it one.
LEMMA AppliedType ==
    ASSUME TypeOK, NEW events, events \subseteq Events
    PROVE  Applied(events) \in [Keys -> Entries] /\ FilesApplied(events) \in [Keys -> Nat]
<1>1. FilesApplied(events) \in [Keys -> Nat]
  BY FileAfterType DEF FilesApplied, TypeOK
<1>2. ASSUME NEW k \in Keys PROVE Applied(events)[k] \in Entries
  <2>0. tracks[k] \in Entries
    BY DEF TypeOK
  <2>1. CASE Begins(events, k)
    <3> DEFINE e == CHOOSE e \in events : e.type = "start" /\ e.key = k
    <3>1. e \in events
      BY <2>1 DEF Begins, Happened
    <3>2. Applied(events)[k] = [state |-> "open", offset |-> e.t, ended |-> e.t]
      BY <2>1 DEF Applied
    <3>3. e.t \in Times
      BY <3>1 DEF Events
    <3> QED
      BY <3>2, <3>3 DEF Entries
  <2>2. CASE ~Begins(events, k) /\ Superseded(events, k)
    <3> DEFINE e == CHOOSE e \in Starts(events, k[1]) : TRUE
    <3>1. e \in events
      BY <2>2 DEF Superseded, Starts
    <3>2. Applied(events)[k] = [tracks[k] EXCEPT !.state = "closed", !.ended = e.t]
      BY <2>2 DEF Applied
    <3>3. e.t \in Times
      BY <3>1 DEF Events
    <3> QED
      BY <2>0, <3>2, <3>3 DEF Entries
  <2>3. CASE ~Begins(events, k) /\ ~Superseded(events, k) /\ Listed(k) /\ Happened(events, "end", k)
    <3> DEFINE e == CHOOSE e \in events : e.type = "end" /\ e.key = k
    <3>1. e \in events
      BY <2>3 DEF Happened
    <3>2. Applied(events)[k] = [tracks[k] EXCEPT !.state = "closed", !.ended = e.t]
      BY <2>3 DEF Applied
    <3>3. e.t \in Times
      BY <3>1 DEF Events
    <3> QED
      BY <2>0, <3>2, <3>3 DEF Entries
  <2>4. CASE ~Begins(events, k) /\ ~Superseded(events, k) /\ ~(Listed(k) /\ Happened(events, "end", k))
    BY <2>0, <2>4 DEF Applied
  <2> QED
    BY <2>1, <2>2, <2>3, <2>4
<1>3. Applied(events) = [k \in Keys |-> Applied(events)[k]]
  BY DEF Applied
<1> QED
  BY <1>1, <1>2, <1>3

LEMMA ClampedType ==
    ASSUME NEW t \in Entries, cap \in Times
    PROVE  Clamped(t) \in Entries
  BY DEF Clamped, Entries

\* A poll comes before the flush, and the flush takes one unit of time.
InTime == pc \in {"idle", "reply", "flush"} => now < MaxTime

\* A poll starts and ends recorders that exist, and starts one of each
\* participant at most.
LEMMA PollType ==
    ASSUME TypeOK, InTime, NEW gone \in SUBSET {p \in Participants : active[p] # NoKey},
           NEW streams \in SUBSET (Participants \ gone), NEW broken \in SUBSET streams,
           Poll(gone, streams, broken)
    PROVE  TypeOK' /\ InTime'
<1> DEFINE tried == {p \in streams : active[p] = NoKey /\ p \notin failed}
           fresh == tried \ broken
           begun == {NextKey(p) : p \in fresh}
           over  == {active[p] : p \in gone}
<1>1. now' = now + 1 /\ now' \in Times /\ now' < MaxTime /\ pc' = "reply"
  BY BoundsAssumption DEF Poll, TypeOK, Times
<1>2. \A p \in fresh : issued[p] + 1 \in 1 .. MaxAttach /\ NextKey(p) \in Keys
  BY BoundsAssumption DEF Poll, TypeOK, NextKey, Keys
<1>3. begun \subseteq Keys /\ over \subseteq Keys
  BY <1>2 DEF TypeOK
<1>4. active' \in [Participants -> Keys \cup {NoKey}]
  BY <1>2 DEF Poll, TypeOK
<1>5. issued' \in [Participants -> 0 .. MaxAttach] /\ failed' \subseteq Participants
  BY <1>2 DEF Poll, TypeOK
<1>6. recorder' \in [Keys -> {"none", "recording", "stopping", "stopped", "dead"}]
  <2>1. Stopped(over) \in [Keys -> {"none", "recording", "stopping", "stopped", "dead"}]
    BY DEF TypeOK, Stopped
  <2>2. recorder' = [k \in Keys |-> IF k \in begun THEN "recording" ELSE Stopped(over)[k]]
    BY DEF Poll
  <2> HIDE DEF begun, over
  <2> QED
    BY <2>1, <2>2
<1>7. span' \in [Keys -> [from : Times, to : Times \cup {Never}]]
  <2> DEFINE next(k) == IF k \in begun THEN [from |-> now', to |-> Never]
                        ELSE IF k \in over THEN [span[k] EXCEPT !.to = now'] ELSE span[k]
  <2>1. \A k \in Keys : next(k) \in [from : Times, to : Times \cup {Never}]
    BY <1>1 DEF TypeOK
  <2>2. span' = [k \in Keys |-> next(k)]
    BY DEF Poll
  <2> HIDE DEF next
  <2> QED
    BY <2>1, <2>2
<1>8. reply' \subseteq Events
  <2>1. reply' = Told(begun, "start", now') \cup Told(over, "end", now')
    BY DEF Poll
  <2> QED
    BY <1>1, <1>3, <2>1, ToldType
<1>9. UNCHANGED <<cap, flying, handshake, node, bounds, untold>>
  BY DEF Poll
<1> QED
  BY <1>1, <1>4, <1>5, <1>6, <1>7, <1>8, <1>9 DEF TypeOK, InTime, handshake, node, bounds

\* The types survive each step.
LEMMA TypeStep ==
    ASSUME TypeOK, InTime, [Next]_vars
    PROVE  TypeOK' /\ InTime'
<1>1. CASE UNCHANGED vars
  BY <1>1 DEF vars, page, media, handshake, node, bounds, TypeOK, InTime
<1>2. CASE \E gone \in SUBSET {p \in Participants : active[p] # NoKey} :
             \E streams \in SUBSET (Participants \ gone) :
                \E broken \in SUBSET streams : Poll(gone, streams, broken)
  BY <1>2, PollType
<1>3. CASE PumpApplies
  <2>1. tracks' \in [Keys -> Entries] /\ files' \in [Keys -> Nat]
    BY <1>3, AppliedType DEF PumpApplies, TypeOK
  <2> QED
    BY <1>3, <2>1 DEF PumpApplies, TypeOK, InTime, page, media, handshake, bounds
<1>4. CASE PumpFails
  <2>1. untold' \subseteq Keys \X {"start", "end"}
    BY <1>4 DEF PumpFails, TypeOK, Events
  <2>2. losses' \in 0 .. MaxLost
    BY <1>4, BoundsAssumption DEF PumpFails, TypeOK
  <2> QED
    BY <1>4, <2>1, <2>2 DEF PumpFails, TypeOK, InTime, page, media, handshake, node
<1>5. CASE LeaveLoop \/ Abandon
  BY <1>5 DEF LeaveLoop, Abandon, TypeOK, InTime, page, media, handshake, node, bounds
<1>6. CASE StopPass
  <2>1. now' \in Times
    BY <1>6, BoundsAssumption DEF StopPass, TypeOK, InTime, Times
  <2>2. Attached \subseteq Keys
    BY DEF Attached, TypeOK
  <2>3. recorder' \in [Keys -> {"none", "recording", "stopping", "stopped", "dead"}]
    BY <1>6 DEF StopPass, Stopped, TypeOK
  <2>4. span' \in [Keys -> [from : Times, to : Times \cup {Never}]]
    BY <1>6, <2>1 DEF StopPass, TypeOK
  <2>5. reply' \subseteq Events
    BY <1>6, <2>1, <2>2, ToldType DEF StopPass
  <2>6. active' \in [Participants -> Keys \cup {NoKey}] /\ waiting' = Attached /\ pc' = "stopping"
        /\ UNCHANGED <<cap, failed, issued, flying, awaited, gaveUp, node, bounds, untold>>
    BY <1>6 DEF StopPass
  <2> QED
    BY <2>1, <2>2, <2>3, <2>4, <2>5, <2>6 DEF TypeOK, InTime, node, bounds
<1>7. CASE RecordersStop \/ ChunksSettle
  BY <1>7 DEF RecordersStop, ChunksSettle, TypeOK, InTime, page, media, node, bounds
<1>8. CASE Finish
  <2>1. Applied(reply) \in [Keys -> Entries] /\ files' \in [Keys -> Nat]
    BY <1>8, AppliedType DEF Finish, TypeOK
  <2>2. tracks' \in [Keys -> Entries]
    BY <1>8, <2>1, ClampedType DEF Finish, TypeOK
  <2> QED
    BY <1>8, <2>1, <2>2 DEF Finish, TypeOK, InTime, page, media, handshake, bounds
<1>9. CASE Reload
  <2>1. reloads' \in 0 .. MaxReloads
    BY <1>9, BoundsAssumption DEF Reload, TypeOK
  <2>2. untold' \subseteq Keys \X {"start", "end"} /\ reply' \subseteq Events
    BY <1>9 DEF Reload, TypeOK, Events, Running
  <2>3. recorder' \in [Keys -> {"none", "recording", "stopping", "stopped", "dead"}]
        /\ span' \in [Keys -> [from : Times, to : Times \cup {Never}]]
        /\ flying' \in [Keys -> Nat] /\ active' \in [Participants -> Keys \cup {NoKey}]
    BY <1>9 DEF Reload, TypeOK
  <2>4. failed' = {} /\ gaveUp' \in BOOLEAN /\ pc' \in {pc, "answer"}
    BY <1>9 DEF Reload, TypeOK
  <2>5. UNCHANGED <<now, cap, issued, waiting, awaited, node, losses>>
    BY <1>9 DEF Reload
  <2> QED
    BY <2>1, <2>2, <2>3, <2>4, <2>5 DEF TypeOK, InTime, node
<1>10. CASE \E k \in Keys : Chunk(k) \/ LastChunk(k)
  <2>1. flying' \in [Keys -> Nat]
    BY <1>10 DEF Chunk, LastChunk, TypeOK
  <2>2. recorder' \in [Keys -> {"none", "recording", "stopping", "stopped", "dead"}]
    BY <1>10 DEF Chunk, LastChunk, TypeOK
  <2> QED
    BY <1>10, <2>1, <2>2 DEF Chunk, LastChunk, TypeOK, InTime, page, handshake, node, bounds
<1>11. CASE \E k \in Keys : ChunkArrives(k)
  BY <1>11, FileAfterType DEF ChunkArrives, TypeOK, InTime, page, bounds
<1> QED
  BY <1>1, <1>2, <1>3, <1>4, <1>5, <1>6, <1>7, <1>8, <1>9, <1>10, <1>11 DEF Next, Pump, Stop

\* Every state is well typed, and the clock does not run out before the flush.
THEOREM TypeCorrect == Spec => [](TypeOK /\ InTime)
<1>1. Init => TypeOK /\ InTime
  <2> SUFFICES ASSUME Init PROVE TypeOK /\ InTime
    OBVIOUS
  <2>1. 0 \in Times /\ 0 \in 0 .. MaxAttach /\ MaxReloads \in 0 .. MaxReloads /\ MaxLost \in 0 .. MaxLost
    BY BoundsAssumption DEF Times
  <2>2. pc = "idle" /\ now \in Times /\ cap \in Times /\ now < MaxTime
    BY <2>1, BoundsAssumption DEF Init
  <2>3. issued \in [Participants -> 0 .. MaxAttach] /\ active \in [Participants -> Keys \cup {NoKey}]
    BY <2>1 DEF Init
  <2>4. recorder \in [Keys -> {"none", "recording", "stopping", "stopped", "dead"}]
        /\ flying \in [Keys -> Nat] /\ awaited \in [Keys -> Nat] /\ files \in [Keys -> Nat]
    BY DEF Init
  <2>5. tracks \in [Keys -> Entries] /\ span \in [Keys -> [from : Times, to : Times \cup {Never}]]
    BY <2>1 DEF Init, Entries
  <2>6. failed = {} /\ reply = {} /\ waiting = {} /\ untold = {} /\ gaveUp = FALSE
        /\ reloads = MaxReloads /\ losses = MaxLost
    BY DEF Init
  <2> QED
    BY <2>1, <2>2, <2>3, <2>4, <2>5, <2>6 DEF TypeOK, InTime
<1>2. TypeOK /\ InTime /\ [Next]_vars => (TypeOK /\ InTime)'
  BY TypeStep
<1> QED
  BY <1>1, <1>2, PTL DEF Spec

-----------------------------------------------------------------------------
(***************************************************************************)
(* Files.                                                                  *)
(***************************************************************************)

\* The files of a participant are numbered from one without a gap, so the next
\* number is free; and one answer begins one track of a participant at most.
Numbered ==
    /\ \A k \in Keys : files[k] <= Cardinality(Allocated(k[1]))
    /\ FilesApart

OneStart ==
    \A d, e \in reply : d.type = "start" /\ e.type = "start" /\ d.key[1] = e.key[1] => d.key = e.key

\* Allocating files for at most one attach of each participant keeps the numbering.
LEMMA NewFiles ==
    ASSUME TypeOK, Numbered, NEW K \in SUBSET Keys,
           \A k, l \in K : k[1] = l[1] => k = l,
           files' = [k \in Keys |-> IF k \in K THEN FileAfter(k) ELSE files[k]]
    PROVE  Numbered'
<1>1. ASSUME NEW p
      PROVE  /\ \A k \in Keys : k[1] = p => files'[k] <= Cardinality(Allocated(p)')
             /\ \A k, l \in Keys : k[1] = p /\ l[1] = p /\ files'[k] = files'[l] /\ files'[k] # 0
                                  => k = l
  <2>0. \A k \in Keys : files[k] \in Nat
    BY DEF TypeOK
  <2>1. CASE \A k \in K : k[1] = p => files[k] # 0
    <3>1. \A k \in Keys : k[1] = p => files'[k] = files[k]
      BY <2>1 DEF FileAfter
    <3>2. Allocated(p)' = Allocated(p)
      BY <3>1 DEF Allocated
    <3> QED
      BY <3>1, <3>2 DEF Numbered, FilesApart
  <2>2. CASE \E k \in K : k[1] = p /\ files[k] = 0
    <3>1. PICK n \in K : n[1] = p /\ files[n] = 0
      BY <2>2
    <3> DEFINE c == Cardinality(Allocated(p))
    <3>2. c \in Nat /\ IsFiniteSet(Allocated(p))
      BY AllocatedFinite
    <3>3. files'[n] = c + 1
      BY <3>1 DEF FileAfter
    <3>4. \A k \in Keys : k[1] = p /\ k # n => files'[k] = files[k]
      BY <3>1
    <3>5. Allocated(p)' = Allocated(p) \cup {n}
      BY <3>1, <3>2, <3>3, <3>4 DEF Allocated
    <3>6. n \notin Allocated(p)
      BY <3>1 DEF Allocated
    <3>7. Cardinality(Allocated(p)') = c + 1
      BY <3>2, <3>5, <3>6, FS_AddElement
    <3>8. \A k \in Keys : k[1] = p => files[k] <= c
      BY DEF Numbered
    <3> HIDE DEF c
    <3>9. \A k \in Keys : k[1] = p => files'[k] <= c + 1
      BY <2>0, <3>2, <3>3, <3>4, <3>8
    <3>10. ASSUME NEW k \in Keys, NEW l \in Keys, k[1] = p, l[1] = p,
                  files'[k] = files'[l], files'[k] # 0
           PROVE  k = l
      <4>1. CASE k # n /\ l # n
        BY <3>4, <3>10, <4>1 DEF Numbered, FilesApart
      <4>2. CASE k = n \/ l = n
        BY <2>0, <3>2, <3>3, <3>4, <3>8, <3>10, <4>2
      <4> QED
        BY <4>1, <4>2
    <3> QED
      BY <3>7, <3>9, <3>10
  <2> QED
    BY <2>1, <2>2
<1> QED
  BY <1>1 DEF Numbered, FilesApart

\* The numbering depends on the files alone.
LEMMA SameFiles ==
    ASSUME Numbered, UNCHANGED files
    PROVE  Numbered'
  BY DEF Numbered, FilesApart, Allocated

\* What a poll begins is one attach of each participant.
LEMMA PollStarts ==
    ASSUME TypeOK, NEW gone \in SUBSET {p \in Participants : active[p] # NoKey},
           NEW streams \in SUBSET (Participants \ gone), NEW broken \in SUBSET streams,
           Poll(gone, streams, broken)
    PROVE  OneStart'
<1> DEFINE tried == {p \in streams : active[p] = NoKey /\ p \notin failed}
           fresh == tried \ broken
           begun == {NextKey(p) : p \in fresh}
           over  == {active[p] : p \in gone}
<1>1. reply' = Told(begun, "start", now') \cup Told(over, "end", now')
  BY DEF Poll
<1>2. \A k, l \in begun : k[1] = l[1] => k = l
  BY DEF NextKey
<1>3. \A e \in reply' : e.type = "start" => e.key \in begun
  BY <1>1 DEF Told
<1> QED
  BY <1>2, <1>3 DEF OneStart

\* Listing the attaches of an answer gives each its file.
LEMMA ListingFiles ==
    ASSUME TypeOK, Numbered, OneStart, files' = FilesApplied(reply)
    PROVE  Numbered'
<1> DEFINE K == {k \in Keys : Begins(reply, k)}
<1>1. files' = [k \in Keys |-> IF k \in K THEN FileAfter(k) ELSE files[k]]
  BY DEF FilesApplied
<1>2. \A k, l \in K : k[1] = l[1] => k = l
  BY DEF OneStart, Begins, Happened
<1>3. K \in SUBSET Keys
  OBVIOUS
<1> HIDE DEF K
<1> QED
  BY <1>1, <1>2, <1>3, NewFiles

\* Each step keeps the numbering.
LEMMA NumberedStep ==
    ASSUME TypeOK, Numbered, OneStart, [Next]_vars
    PROVE  Numbered' /\ OneStart'
<1>1. CASE UNCHANGED vars
  BY <1>1, SameFiles DEF vars, node, OneStart
<1>2. CASE \E gone \in SUBSET {p \in Participants : active[p] # NoKey} :
             \E streams \in SUBSET (Participants \ gone) :
                \E broken \in SUBSET streams : Poll(gone, streams, broken)
  <2>1. UNCHANGED files
    BY <1>2 DEF Poll, node
  <2> QED
    BY <1>2, <2>1, PollStarts, SameFiles
<1>3. CASE PumpApplies \/ Finish
  <2>1. files' = FilesApplied(reply) /\ reply' = {}
    BY <1>3 DEF PumpApplies, Finish
  <2> QED
    BY <2>1, ListingFiles DEF OneStart
<1>4. CASE PumpFails \/ LeaveLoop \/ Abandon \/ RecordersStop \/ ChunksSettle \/ Reload
  <2>1. UNCHANGED files /\ reply' \in {reply, {}}
    BY <1>4 DEF PumpFails, LeaveLoop, Abandon, RecordersStop, ChunksSettle, Reload, node
  <2> QED
    BY <2>1, SameFiles DEF OneStart
<1>5. CASE StopPass
  <2>1. UNCHANGED files /\ \A e \in reply' : e.type = "end"
    BY <1>5 DEF StopPass, node, Told
  <2> QED
    BY <2>1, SameFiles DEF OneStart
<1>6. CASE \E k \in Keys : Chunk(k) \/ LastChunk(k)
  <2>1. UNCHANGED files /\ UNCHANGED reply
    BY <1>6 DEF Chunk, LastChunk, node
  <2> QED
    BY <2>1, SameFiles DEF OneStart
<1>7. CASE \E k \in Keys : ChunkArrives(k)
  <2>1. PICK n \in Keys : ChunkArrives(n)
    BY <1>7
  <2>2. UNCHANGED reply /\ files' = [k \in Keys |-> IF k \in {n} THEN FileAfter(k) ELSE files[k]]
    BY <2>1 DEF ChunkArrives, TypeOK
  <2>3. {n} \in SUBSET Keys /\ \A k, l \in {n} : k[1] = l[1] => k = l
    OBVIOUS
  <2> QED
    BY <2>2, <2>3, NewFiles DEF OneStart
<1> QED
  BY <1>1, <1>2, <1>3, <1>4, <1>5, <1>6, <1>7 DEF Next, Pump, Stop

\* Two attaches never append to one file, whatever order chunks and events come in.
THEOREM FilesStayApart == Spec => []FilesApart
<1>1. Init => Numbered /\ OneStart
  <2> SUFFICES ASSUME Init PROVE Numbered /\ OneStart
    OBVIOUS
  <2>1. \A k \in Keys : files[k] = 0 /\ Cardinality(Allocated(k[1])) \in Nat
    BY AllocatedFinite DEF Init
  <2> QED
    BY <2>1 DEF Numbered, FilesApart, OneStart, Init
<1>2. TypeOK /\ Numbered /\ OneStart /\ [Next]_vars => (Numbered /\ OneStart)'
  BY NumberedStep
<1>3. Numbered => FilesApart
  BY DEF Numbered
<1> QED
  BY <1>1, <1>2, <1>3, TypeCorrect, PTL DEF Spec

-----------------------------------------------------------------------------
(***************************************************************************)
(* The stop handshake.                                                     *)
(***************************************************************************)

\* Once the first stage has ended by itself the recorders waited for are through,
\* and the second stage waits for all their chunks.
Quiet ==
    ~gaveUp =>
        /\ pc \in {"settling", "answer", "done"} =>
               \A k \in waiting : recorder[k] = "stopped" /\ flying[k] <= awaited[k]
        /\ pc \in {"answer", "done"} => AllSettled

\* Each step keeps the handshake's promise.
LEMMA QuietStep ==
    ASSUME TypeOK, Quiet, [Next]_vars
    PROVE  Quiet'
<1>1. CASE UNCHANGED vars
  BY <1>1 DEF vars, media, handshake, Quiet, AllSettled
<1>2. CASE \/ \E gone \in SUBSET {p \in Participants : active[p] # NoKey} :
                \E streams \in SUBSET (Participants \ gone) :
                   \E broken \in SUBSET streams : Poll(gone, streams, broken)
           \/ PumpApplies \/ PumpFails \/ LeaveLoop \/ Abandon \/ StopPass
  <2>1. ASSUME NEW gone, NEW streams, NEW broken, Poll(gone, streams, broken)
        PROVE  pc' = "reply"
    BY <2>1 DEF Poll
  <2>2. PumpApplies \/ PumpFails => pc' = "idle"
    BY DEF PumpApplies, PumpFails
  <2>3. LeaveLoop \/ Abandon \/ StopPass => pc' \in {"flush", "truncated", "stopping"}
    BY DEF LeaveLoop, Abandon, StopPass
  <2>4. pc' \notin {"settling", "answer", "done"}
    BY <1>2, <2>1, <2>2, <2>3
  <2> QED
    BY <2>4 DEF Quiet
<1>3. CASE RecordersStop
  <2>1. pc' = "settling" /\ awaited' = flying /\ gaveUp' = (gaveUp \/ ~AllStopped)
        /\ UNCHANGED <<waiting, recorder, flying>>
    BY <1>3 DEF RecordersStop, media
  <2>2. \A k \in waiting : flying[k] \in Nat
    BY DEF TypeOK
  <2>3. ~gaveUp' => \A k \in waiting' : recorder'[k] = "stopped"
    BY <2>1 DEF AllStopped
  <2>4. \A k \in waiting' : flying'[k] <= awaited'[k]
    BY <2>1, <2>2
  <2> QED
    BY <2>1, <2>3, <2>4 DEF Quiet
<1>4. CASE ChunksSettle
  BY <1>4 DEF ChunksSettle, media, Quiet, AllSettled
<1>5. CASE Finish
  BY <1>5 DEF Finish, media, handshake, Quiet, AllSettled
<1>6. CASE Reload
  <2>1. CASE pc \in {"stopping", "settling"}
    BY <1>6, <2>1 DEF Reload, Quiet
  <2>2. CASE pc \notin {"stopping", "settling"}
    <3>1. UNCHANGED <<pc, gaveUp, waiting, awaited>> /\ \A k \in Keys : flying'[k] = 0
      BY <1>6, <2>2 DEF Reload
    <3>2. \A k \in Keys : recorder[k] = "stopped" => recorder'[k] = "stopped"
      BY <1>6 DEF Reload, Running, TypeOK
    <3> QED
      BY <3>1, <3>2 DEF Quiet, AllSettled, TypeOK
  <2> QED
    BY <2>1, <2>2
<1>7. CASE \E k \in Keys : Chunk(k) \/ LastChunk(k)
  BY <1>7 DEF Chunk, LastChunk, handshake, Quiet, AllSettled, TypeOK
<1>8. CASE \E k \in Keys : ChunkArrives(k)
  BY <1>8 DEF ChunkArrives, Quiet, AllSettled, TypeOK
<1> QED
  BY <1>1, <1>2, <1>3, <1>4, <1>5, <1>6, <1>7, <1>8 DEF Next, Pump, Stop

\* A stop pass within its ceilings leaves no recorder running and no chunk behind.
THEOREM StopsAreComplete == Spec => []StopComplete
<1>1. Init => Quiet
  BY DEF Init, Quiet
<1>2. TypeOK /\ Quiet /\ [Next]_vars => Quiet'
  BY QuietStep
<1>3. TypeOK /\ Quiet => StopComplete
  BY DEF TypeOK, Quiet, StopComplete, AllSettled
<1> QED
  BY <1>1, <1>2, <1>3, TypeCorrect, PTL DEF Spec

-----------------------------------------------------------------------------
(***************************************************************************)
(* Attaches and events.                                                    *)
(***************************************************************************)

\* An attach that has been made.
Begun(k) == k[2] <= issued[k[1]]

\* What is attached is the latest attach of its participant, and it is the only
\* one of them whose recorder has not ended; none begins after the flush.
AttachInv ==
    /\ \A p \in Participants : active[p] # NoKey =>
           /\ active[p] = <<p, issued[p]>>
           /\ span[active[p]].to = Never /\ recorder[active[p]] = "recording"
    /\ \A k \in Keys : Begun(k) /\ span[k].to = Never => active[k[1]] = k
    /\ \A k \in Keys : ~Begun(k) => recorder[k] = "none" /\ ~Listed(k)
    /\ \A k \in Keys : Begun(k) => span[k].from <= now
    /\ pc \in {"flush", "stopping", "settling", "answer"} =>
           \A k \in Keys : Begun(k) => span[k].from <= cap
    /\ pc \in {"stopping", "settling", "answer"} => \A p \in Participants : active[p] = NoKey

\* What is on its way to node tells when a recorder began or ended; the beginning
\* is that of its participant's latest attach, and nobody ends and begins at once.
EventInv ==
    \A e \in reply :
        /\ Begun(e.key)
        /\ e.type = "start" =>
               /\ e.key[2] = issued[e.key[1]] /\ e.t = span[e.key].from /\ ~Listed(e.key)
               /\ span[e.key].to = Never \/ Untold(e.key, "end")
        /\ e.type = "end" =>
               /\ e.t = span[e.key].to /\ ~Untold(e.key, "end") /\ tracks[e.key].state # "closed"
               /\ \A d \in reply : d.type = "start" => d.key[1] # e.key[1]

\* An answer is under way in the pump and in the stop pass only.
ReplyInv == pc \notin {"reply", "stopping", "settling", "answer"} => reply = {}

\* Only of a recorder that has ended can the end be lost.
LostInv == \A k \in Keys : Untold(k, "end") => Begun(k) /\ span[k].to # Never

\* The next track of k's participant in the manifest m.
After(m, k, l) ==
    /\ l[1] = k[1] /\ l[2] > k[2] /\ m[l].state # "none"
    /\ \A n \in Keys : n[1] = k[1] /\ n[2] > k[2] /\ m[n].state # "none" => l[2] <= n[2]

\* What the manifest m says when `events` are still to be folded into it: a track
\* begins when its recorder did; the open one of a participant is his last, and
\* its end is lost, under way or to come; a closed one ends when its recorder did
\* or, that end being lost, when the next track begins.
Manifest(m, events) ==
    \A k \in Keys :
        /\ m[k].state # "none" => m[k].offset = span[k].from
        /\ m[k].state = "open" =>
               /\ \A l \in Keys : l[1] = k[1] /\ l[2] > k[2] => m[l].state = "none"
               /\ Untold(k, "end") \/ Happened(events, "end", k) \/ span[k].to = Never
        /\ m[k].state = "closed" =>
               IF Untold(k, "end") THEN \E l \in Keys : After(m, k, l) /\ m[k].ended = m[l].offset
               ELSE m[k].ended = span[k].to

\* An attach is its participant and its number.
LEMMA KeyPair ==
    ASSUME NEW k \in Keys
    PROVE  k = <<k[1], k[2]>> /\ k[1] \in Participants /\ k[2] \in 1 .. MaxAttach /\ k[2] \in Nat
  BY BoundsAssumption DEF Keys

\* An event says what happened to which attach, and when.
LEMMA EventShape ==
    ASSUME TypeOK, NEW e \in reply
    PROVE  e.type \in {"start", "end"} /\ e.key \in Keys /\ e.t \in Times /\ e.t # Never
  BY NeverAssumption, BoundsAssumption DEF TypeOK, Events, Times

\* A track that is closed has a recorder that has ended.
LEMMA ClosedEnded ==
    ASSUME TypeOK, LostInv, Manifest(tracks, reply), NEW k \in Keys, tracks[k].state = "closed"
    PROVE  span[k].to # Never
<1>1. tracks[k].ended \in Nat
  BY BoundsAssumption DEF TypeOK, Entries, Times
<1> QED
  BY <1>1, NeverAssumption DEF LostInv, Manifest

\* What Poll does, in the terms the invariants speak of.
LEMMA PollFacts ==
    ASSUME TypeOK, InTime, AttachInv,
           NEW gone \in SUBSET {p \in Participants : active[p] # NoKey},
           NEW streams \in SUBSET (Participants \ gone), NEW broken \in SUBSET streams,
           Poll(gone, streams, broken)
    PROVE  \E fresh \in SUBSET {p \in Participants : active[p] = NoKey} :
             /\ pc = "idle" /\ pc' = "reply" /\ now' = now + 1 /\ now' \in Times /\ now' # Never
             /\ UNCHANGED <<cap, tracks, files, flying, untold>>
             /\ \A p \in Participants :
                  /\ active'[p] = IF p \in fresh THEN NextKey(p) ELSE IF p \in gone THEN NoKey ELSE active[p]
                  /\ issued'[p] = IF p \in fresh THEN issued[p] + 1 ELSE issued[p]
             /\ \A k \in Keys :
                  /\ k[1] \in fresh /\ k[2] = issued[k[1]] + 1 =>
                        recorder'[k] = "recording" /\ span'[k].from = now' /\ span'[k].to = Never
                  /\ k[1] \in gone /\ k = active[k[1]] =>
                        recorder'[k] = "stopping" /\ span'[k].from = span[k].from /\ span'[k].to = now'
                  /\ ~(k[1] \in fresh /\ k[2] = issued[k[1]] + 1) /\ ~(k[1] \in gone /\ k = active[k[1]]) =>
                        recorder'[k] = recorder[k] /\ span'[k] = span[k]
             /\ reply' = Told({NextKey(p) : p \in fresh}, "start", now')
                         \cup Told({active[p] : p \in gone}, "end", now')
             /\ \A p \in fresh : NextKey(p) \in Keys
<1> DEFINE tried == {p \in streams : active[p] = NoKey /\ p \notin failed}
           fresh == tried \ broken
           begun == {NextKey(p) : p \in fresh}
           over  == {active[p] : p \in gone}
<1>1. now' = now + 1 /\ now' \in Times /\ now' # Never /\ pc' = "reply" /\ pc = "idle"
  BY BoundsAssumption, NeverAssumption DEF Poll, TypeOK, Times
<1>2. UNCHANGED <<cap, tracks, files, flying, untold>>
  BY DEF Poll, node
<1>3. fresh \in SUBSET {p \in Participants : active[p] = NoKey}
  OBVIOUS
<1>4. active' = [p \in Participants |-> IF p \in fresh THEN NextKey(p)
                                             ELSE IF p \in gone THEN NoKey ELSE active[p]]
  BY DEF Poll
<1>5. issued' = [p \in Participants |-> IF p \in fresh THEN issued[p] + 1 ELSE issued[p]]
  BY DEF Poll
<1>6. recorder' = [k \in Keys |-> IF k \in begun THEN "recording" ELSE Stopped(over)[k]]
  BY DEF Poll
<1>7. span' = [k \in Keys |-> IF k \in begun THEN [from |-> now', to |-> Never]
                                   ELSE IF k \in over THEN [span[k] EXCEPT !.to = now'] ELSE span[k]]
  BY DEF Poll
<1>8. reply' = Told(begun, "start", now') \cup Told(over, "end", now')
  BY DEF Poll
<1>9. \A p \in fresh : NextKey(p) \in Keys
  BY BoundsAssumption DEF Poll, TypeOK, NextKey, Keys
<1>10. \A k \in Keys : k \in begun <=> k[1] \in fresh /\ k[2] = issued[k[1]] + 1
  BY KeyPair DEF NextKey
<1>11. \A p \in gone : active[p] \in Keys /\ active[p][1] = p
  BY DEF AttachInv, TypeOK
<1>12. \A k \in Keys : k \in over <=> k[1] \in gone /\ k = active[k[1]]
  BY <1>11
<1>13. \A k \in Keys : k \in begun => k \notin over
  BY <1>3, <1>10, <1>12
<1>14. \A k \in Keys : span[k] \in [from : Times, to : Times \cup {Never}]
  BY DEF TypeOK
<1> HIDE DEF fresh, begun, over
<1>15. ASSUME NEW k \in Keys
       PROVE  /\ k \in begun => recorder'[k] = "recording" /\ span'[k].from = now' /\ span'[k].to = Never
              /\ k \in over => recorder'[k] = "stopping" /\ span'[k].from = span[k].from /\ span'[k].to = now'
              /\ k \notin begun /\ k \notin over => recorder'[k] = recorder[k] /\ span'[k] = span[k]
  BY <1>6, <1>7, <1>13, <1>14 DEF Stopped
<1>16. WITNESS fresh \in SUBSET {p \in Participants : active[p] = NoKey}
<1> USE DEF begun, over
<1> QED
  BY <1>1, <1>2, <1>4, <1>5, <1>8, <1>9, <1>10, <1>12, <1>15

\* A poll keeps what the invariants say of attaches.
LEMMA PollAttach ==
    ASSUME TypeOK, InTime, AttachInv, ReplyInv, LostInv, Manifest(tracks, reply),
           NEW gone \in SUBSET {p \in Participants : active[p] # NoKey},
           NEW streams \in SUBSET (Participants \ gone), NEW broken \in SUBSET streams,
           Poll(gone, streams, broken)
    PROVE  AttachInv' /\ EventInv' /\ ReplyInv' /\ LostInv'
<1>1. PICK fresh \in SUBSET {p \in Participants : active[p] = NoKey} :
        /\ pc = "idle" /\ pc' = "reply" /\ now' = now + 1 /\ now' \in Times /\ now' # Never
        /\ UNCHANGED <<cap, tracks, files, flying, untold>>
        /\ \A p \in Participants :
             /\ active'[p] = IF p \in fresh THEN NextKey(p) ELSE IF p \in gone THEN NoKey ELSE active[p]
             /\ issued'[p] = IF p \in fresh THEN issued[p] + 1 ELSE issued[p]
        /\ \A k \in Keys :
             /\ k[1] \in fresh /\ k[2] = issued[k[1]] + 1 =>
                   recorder'[k] = "recording" /\ span'[k].from = now' /\ span'[k].to = Never
             /\ k[1] \in gone /\ k = active[k[1]] =>
                   recorder'[k] = "stopping" /\ span'[k].from = span[k].from /\ span'[k].to = now'
             /\ ~(k[1] \in fresh /\ k[2] = issued[k[1]] + 1) /\ ~(k[1] \in gone /\ k = active[k[1]]) =>
                   recorder'[k] = recorder[k] /\ span'[k] = span[k]
        /\ reply' = Told({NextKey(p) : p \in fresh}, "start", now')
                    \cup Told({active[p] : p \in gone}, "end", now')
        /\ \A p \in fresh : NextKey(p) \in Keys
  BY PollFacts
<1> DEFINE Fresh(k) == k[1] \in fresh /\ k[2] = issued[k[1]] + 1
           Over(k) == k[1] \in gone /\ k = active[k[1]]
<1>10. /\ pc = "idle" /\ pc' = "reply" /\ now' = now + 1 /\ now' \in Times /\ now' # Never
       /\ UNCHANGED <<cap, tracks, files, flying, untold>>
  BY <1>1
<1>11. \A p \in Participants :
          /\ active'[p] = IF p \in fresh THEN NextKey(p) ELSE IF p \in gone THEN NoKey ELSE active[p]
          /\ issued'[p] = IF p \in fresh THEN issued[p] + 1 ELSE issued[p]
  BY <1>1
<1>12. \A k \in Keys : Fresh(k) =>
          recorder'[k] = "recording" /\ span'[k].from = now' /\ span'[k].to = Never
  BY <1>1
<1>13. \A k \in Keys : Over(k) =>
          recorder'[k] = "stopping" /\ span'[k].from = span[k].from /\ span'[k].to = now'
  BY <1>1
<1>14. \A k \in Keys : ~Fresh(k) /\ ~Over(k) => recorder'[k] = recorder[k] /\ span'[k] = span[k]
  BY <1>1
<1>15. reply' = Told({NextKey(p) : p \in fresh}, "start", now')
                \cup Told({active[p] : p \in gone}, "end", now')
  BY <1>1
<1>16. \A p \in fresh : NextKey(p) \in Keys /\ Fresh(NextKey(p)) /\ NextKey(p) = <<p, issued[p] + 1>>
  BY <1>1 DEF NextKey
<1>2. \A p \in Participants : issued[p] \in Nat /\ issued'[p] \in Nat
  BY <1>11, BoundsAssumption DEF TypeOK
<1>3. \A k \in Keys : Begun(k)' <=> Begun(k) \/ Fresh(k)
  BY <1>11, <1>2, KeyPair DEF Begun
<1>4. \A k \in Keys : Fresh(k) => ~Begun(k)
  BY <1>2, KeyPair DEF Begun
<1>5. \A k \in Keys : Over(k) => Begun(k) /\ span[k].to = Never
  BY <1>2, KeyPair DEF Begun, AttachInv
<1>6. \A p \in fresh : p \in Participants /\ active[p] = NoKey /\ p \notin gone
  OBVIOUS
<1>17. \A k \in Keys : Over(k) <=> k[1] \in gone /\ k = active[k[1]]
  OBVIOUS
<1>18. \A k \in Keys : Fresh(k) <=> k[1] \in fresh /\ k[2] = issued[k[1]] + 1
  OBVIOUS
<1> HIDE DEF Fresh, Over
<1>7. AttachInv'
  <2>1. ASSUME NEW p \in Participants, active'[p] # NoKey
        PROVE  /\ active'[p] = <<p, issued'[p]>>
               /\ span'[active'[p]].to = Never /\ recorder'[active'[p]] = "recording"
    <3>1. CASE p \in fresh
      <4>1. active'[p] = NextKey(p) /\ issued'[p] = issued[p] + 1
        BY <1>11, <3>1
      <4> QED
        BY <1>12, <1>16, <3>1, <4>1
    <3>2. CASE p \notin fresh
      <4>1. p \notin gone /\ active'[p] = active[p] /\ issued'[p] = issued[p] /\ active[p] # NoKey
        BY <1>11, <2>1, <3>2
      <4>2. active[p] \in Keys /\ active[p] = <<p, issued[p]>>
        BY <4>1 DEF TypeOK, AttachInv
      <4>3. ~Fresh(active[p]) /\ ~Over(active[p])
        BY <1>17, <1>18, <3>2, <4>1, <4>2
      <4>4. span[active[p]].to = Never /\ recorder[active[p]] = "recording"
        BY <4>1 DEF AttachInv
      <4> QED
        BY <1>14, <4>1, <4>2, <4>3, <4>4
    <3> QED
      BY <3>1, <3>2
  <2>2. ASSUME NEW k \in Keys, Begun(k)', span'[k].to = Never
        PROVE  active'[k[1]] = k
    <3>1. CASE Fresh(k)
      BY <1>11, <1>18, <3>1, KeyPair DEF NextKey
    <3>2. CASE ~Fresh(k)
      <4>1. Begun(k) /\ ~Over(k)
        BY <1>10, <1>3, <1>13, <2>2, <3>2
      <4>2. span'[k] = span[k]
        BY <1>14, <3>2, <4>1
      <4>3. active[k[1]] = k
        BY <2>2, <4>1, <4>2 DEF AttachInv
      <4>4. k[1] \in Participants /\ k # NoKey
        BY KeyPair, ParticipantsAssumption
      <4>5. k[1] \notin gone /\ k[1] \notin fresh
        BY <1>17, <4>1, <4>3, <4>4, <1>6
      <4> QED
        BY <1>11, <4>3, <4>4, <4>5
    <3> QED
      BY <3>1, <3>2
  <2>3. \A k \in Keys : ~Begun(k)' => recorder'[k] = "none" /\ ~Listed(k)'
    BY <1>10, <1>3, <1>5, <1>14 DEF AttachInv, Listed
  <2>4. ASSUME NEW k \in Keys, Begun(k)'
        PROVE  span'[k].from <= now'
    <3>1. now \in Int /\ span[k].from \in Int
      BY DEF TypeOK, Times
    <3>2. CASE Fresh(k)
      BY <1>10, <1>12, <3>1, <3>2
    <3>3. CASE ~Fresh(k)
      <4>1. Begun(k) /\ span[k].from <= now
        BY <1>3, <2>4, <3>3 DEF AttachInv
      <4>2. span'[k].from = span[k].from
        BY <1>13, <1>14, <3>3
      <4> QED
        BY <1>10, <3>1, <4>1, <4>2
    <3> QED
      BY <3>2, <3>3
  <2> QED
    BY <1>10, <2>1, <2>2, <2>3, <2>4 DEF AttachInv
<1>8. EventInv'
  <2>0. \A k \in Keys : ~Listed(k) => ~Listed(k)'
    BY <1>10 DEF Listed
  <2>1. SUFFICES ASSUME NEW e \in reply'
        PROVE  /\ Begun(e.key)'
               /\ e.type = "start" =>
                      /\ e.key[2] = issued'[e.key[1]] /\ e.t = span'[e.key].from /\ ~Listed(e.key)'
                      /\ span'[e.key].to = Never \/ Untold(e.key, "end")'
               /\ e.type = "end" =>
                      /\ e.t = span'[e.key].to /\ ~Untold(e.key, "end")' /\ tracks'[e.key].state # "closed"
                      /\ \A d \in reply' : d.type = "start" => d.key[1] # e.key[1]
    BY DEF EventInv
  <2>2. CASE e \in Told({NextKey(p) : p \in fresh}, "start", now')
    <3>1. PICK p \in fresh : e.key = NextKey(p) /\ e.type = "start" /\ e.t = now'
      BY <2>2 DEF Told
    <3>2. e.key \in Keys /\ Fresh(e.key)
      BY <1>16, <3>1
    <3>3. ~Listed(e.key)'
      BY <1>4, <2>0, <3>2 DEF AttachInv
    <3>4. e.key[2] = issued'[e.key[1]]
      BY <1>11, <1>18, <3>2, KeyPair
    <3>5. Begun(e.key)' /\ e.t = span'[e.key].from /\ span'[e.key].to = Never
      BY <1>3, <1>12, <3>1, <3>2
    <3> QED
      BY <3>1, <3>3, <3>4, <3>5
  <2>3. CASE e \in Told({active[p] : p \in gone}, "end", now')
    <3>1. PICK p \in gone : e.key = active[p] /\ e.type = "end" /\ e.t = now'
      BY <2>3 DEF Told
    <3>2. e.key \in Keys /\ e.key[1] = p /\ Over(e.key)
      BY <1>17, <3>1 DEF TypeOK, AttachInv
    <3>3. Begun(e.key) /\ span[e.key].to = Never
      BY <1>5, <3>2
    <3>4. ~Untold(e.key, "end")'
      BY <1>10, <3>2, <3>3 DEF LostInv, Untold
    <3>5. Begun(e.key)' /\ e.t = span'[e.key].to
      BY <1>3, <1>13, <3>1, <3>2, <3>3
    <3>7. tracks'[e.key].state # "closed"
      BY <1>10, <3>2, <3>3, ClosedEnded
    <3>6. ASSUME NEW d \in reply', d.type = "start" PROVE d.key[1] # e.key[1]
      <4>1. PICK q \in fresh : d.key = NextKey(q)
        BY <1>15, <3>6 DEF Told
      <4> QED
        BY <1>6, <1>16, <3>1, <3>2, <4>1
    <3> QED
      BY <3>1, <3>4, <3>5, <3>6, <3>7
  <2> QED
    BY <1>15, <2>2, <2>3
<1>9. LostInv'
  <2>1. SUFFICES ASSUME NEW k \in Keys, Untold(k, "end")'
        PROVE  Begun(k)' /\ span'[k].to # Never
    BY DEF LostInv
  <2>2. Begun(k) /\ span[k].to # Never
    BY <1>10, <2>1 DEF LostInv, Untold
  <2>3. ~Fresh(k) /\ ~Over(k)
    BY <1>4, <1>5, <2>2
  <2> QED
    BY <1>3, <1>14, <2>2, <2>3
<1> QED
  BY <1>10, <1>7, <1>8, <1>9 DEF ReplyInv

-----------------------------------------------------------------------------
(***************************************************************************)
(* Folding the events of an answer into the manifest.                      *)
(***************************************************************************)

\* What a start event under way lists is the latest attach of its participant,
\* with the time its recorder began.
LEMMA BeginsLatest ==
    ASSUME TypeOK, EventInv, NEW k \in Keys, Begins(reply, k)
    PROVE  /\ Begun(k) /\ k[2] = issued[k[1]] /\ ~Listed(k)
           /\ span[k].to = Never \/ Untold(k, "end")
           /\ Applied(reply)[k].state = "open" /\ Applied(reply)[k].offset = span[k].from
<1> DEFINE e == CHOOSE e \in reply : e.type = "start" /\ e.key = k
<1>1. e \in reply /\ e.type = "start" /\ e.key = k
  BY DEF Begins, Happened
<1>2. Applied(reply)[k] = [state |-> "open", offset |-> e.t, ended |-> e.t]
  BY DEF Applied
<1> HIDE DEF e
<1> QED
  BY <1>1, <1>2 DEF EventInv

\* An attach that a later one takes over from has not been heard to end, and that
\* later one is listed by the same answer.
LEMMA SupersededByLatest ==
    ASSUME TypeOK, AttachInv, EventInv, Manifest(tracks, reply),
           NEW k \in Keys, ~Begins(reply, k), Superseded(reply, k)
    PROVE  /\ Untold(k, "end") /\ Listed(k) /\ tracks[k].state = "open"
           /\ Applied(reply)[k].state = "closed" /\ Applied(reply)[k].offset = tracks[k].offset
           /\ \E l \in Keys : /\ l[1] = k[1] /\ l[2] > k[2] /\ Begins(reply, l)
                              /\ Applied(reply)[k].ended = span[l].from
<1> DEFINE e == CHOOSE e \in Starts(reply, k[1]) : TRUE
<1>1. e \in reply /\ e.type = "start" /\ e.key[1] = k[1] /\ ~Listed(e.key)
  BY DEF Superseded, Starts
<1>2. Applied(reply)[k] = [tracks[k] EXCEPT !.state = "closed", !.ended = e.t]
  BY DEF Applied
<1>3. tracks[k] \in Entries /\ tracks[k].state = "open"
  BY DEF TypeOK, Superseded
<1>4. Applied(reply)[k].state = "closed" /\ Applied(reply)[k].offset = tracks[k].offset
      /\ Applied(reply)[k].ended = e.t
  BY <1>2, <1>3 DEF Entries
<1> HIDE DEF e
<1>5. e.key \in Keys /\ e.key[2] = issued[k[1]] /\ e.t = span[e.key].from
  BY <1>1, EventShape DEF EventInv
<1>6. Begins(reply, e.key)
  BY <1>1 DEF Begins, Happened
<1>7. Listed(k) /\ Begun(k) /\ e.key # k
  BY <1>1, <1>3 DEF Listed, AttachInv
<1>8. k[2] \in Nat /\ issued[k[1]] \in Nat
  BY KeyPair, BoundsAssumption DEF TypeOK
<1>9. k[2] # issued[k[1]]
  BY <1>1, <1>5, <1>7, KeyPair
<1>10. e.key[2] > k[2]
  BY <1>5, <1>7, <1>8, <1>9 DEF Begun
<1>11. span[k].to # Never
  <2>1. SUFFICES ASSUME span[k].to = Never PROVE FALSE
    OBVIOUS
  <2>2. active[k[1]] = k
    BY <1>7, <2>1 DEF AttachInv
  <2>3. k = <<k[1], issued[k[1]]>>
    BY <2>2, KeyPair, ParticipantsAssumption DEF AttachInv
  <2> QED
    BY <1>9, <2>3
<1>12. ~Happened(reply, "end", k)
  BY <1>1 DEF EventInv, Happened
<1>13. Untold(k, "end")
  BY <1>3, <1>11, <1>12 DEF Manifest
<1> QED
  BY <1>1, <1>3, <1>4, <1>5, <1>6, <1>7, <1>10, <1>13

\* An end that is heard is the recorder's, and closes the track it is about.
LEMMA EndHeard ==
    ASSUME TypeOK, EventInv,
           NEW k \in Keys, ~Begins(reply, k), ~Superseded(reply, k),
           Listed(k), Happened(reply, "end", k)
    PROVE  /\ ~Untold(k, "end")
           /\ Applied(reply)[k].state = "closed" /\ Applied(reply)[k].offset = tracks[k].offset
           /\ Applied(reply)[k].ended = span[k].to
<1> DEFINE e == CHOOSE e \in reply : e.type = "end" /\ e.key = k
<1>1. e \in reply /\ e.type = "end" /\ e.key = k
  BY DEF Happened
<1>2. Applied(reply)[k] = [tracks[k] EXCEPT !.state = "closed", !.ended = e.t]
  BY DEF Applied
<1>3. tracks[k] \in Entries
  BY DEF TypeOK
<1> HIDE DEF e
<1> QED
  BY <1>1, <1>2, <1>3 DEF EventInv, Entries

\* The other entries stay as they are.
LEMMA EntryKept ==
    ASSUME NEW k \in Keys, ~Begins(reply, k), ~Superseded(reply, k),
           ~(Listed(k) /\ Happened(reply, "end", k))
    PROVE  Applied(reply)[k] = tracks[k]
  BY DEF Applied

\* What is listed afterwards was listed or has just begun.
LEMMA AppliedListed ==
    ASSUME TypeOK, AttachInv, EventInv, Manifest(tracks, reply), NEW k \in Keys
    PROVE  /\ Applied(reply)[k].state # "none" <=> Listed(k) \/ Begins(reply, k)
           /\ Listed(k) => Applied(reply)[k].offset = tracks[k].offset
           /\ Applied(reply)[k].state # "none" =>
                  Begun(k) /\ Applied(reply)[k].offset = span[k].from
<1>1. CASE Begins(reply, k)
  BY <1>1, BeginsLatest
<1>2. CASE ~Begins(reply, k) /\ Superseded(reply, k)
  BY <1>2, SupersededByLatest DEF AttachInv, Manifest, Listed
<1>3. CASE ~Begins(reply, k) /\ ~Superseded(reply, k) /\ Listed(k) /\ Happened(reply, "end", k)
  BY <1>3, EndHeard DEF AttachInv, Manifest, Listed
<1>4. CASE ~Begins(reply, k) /\ ~Superseded(reply, k) /\ ~(Listed(k) /\ Happened(reply, "end", k))
  BY <1>4, EntryKept DEF AttachInv, Manifest, Listed
<1> QED
  BY <1>1, <1>2, <1>3, <1>4

\* Folding the events of an answer in leaves nothing of them open.
LEMMA AppliedManifest ==
    ASSUME TypeOK, AttachInv, EventInv, Manifest(tracks, reply)
    PROVE  Manifest(Applied(reply), {})
<1> DEFINE A == Applied(reply)
<1>0. \A k \in Keys : k[2] \in Nat /\ issued[k[1]] \in Nat
  BY KeyPair, BoundsAssumption DEF TypeOK
<1>1. \A k \in Keys : (A[k].state # "none" <=> Listed(k) \/ Begins(reply, k))
                      /\ (Listed(k) => A[k].offset = tracks[k].offset)
                      /\ (A[k].state # "none" => Begun(k) /\ A[k].offset = span[k].from)
  BY AppliedListed
<1>2. \A k \in Keys : Begins(reply, k) => k[2] = issued[k[1]]
  BY BeginsLatest
<1>3. ASSUME NEW k \in Keys, A[k].state = "open"
      PROVE  /\ \A l \in Keys : l[1] = k[1] /\ l[2] > k[2] => A[l].state = "none"
             /\ Untold(k, "end") \/ span[k].to = Never
  <2>1. CASE Begins(reply, k)
    <3>1. \A l \in Keys : l[1] = k[1] /\ l[2] > k[2] => A[l].state = "none"
      BY <1>0, <1>1, <1>2, <2>1 DEF Begun
    <3> QED
      BY <2>1, <3>1, BeginsLatest
  <2>2. CASE ~Begins(reply, k)
    <3>1. ~Superseded(reply, k)
      BY <1>3, <2>2, SupersededByLatest
    <3>2. ~(Listed(k) /\ Happened(reply, "end", k))
      BY <1>3, <2>2, <3>1, EndHeard
    <3>3. A[k] = tracks[k] /\ tracks[k].state = "open" /\ Listed(k)
      BY <1>3, <2>2, <3>1, <3>2, EntryKept DEF Listed
    <3>4. Untold(k, "end") \/ span[k].to = Never
      BY <3>2, <3>3 DEF Manifest
    <3>5. ASSUME NEW l \in Keys, l[1] = k[1], l[2] > k[2]
          PROVE  A[l].state = "none"
      <4>1. ~Listed(l)
        BY <3>3, <3>5 DEF Manifest, Listed
      <4>2. ~Begins(reply, l)
        BY <3>1, <3>3, <3>5 DEF Begins, Superseded, Starts, Happened
      <4> QED
        BY <1>1, <4>1, <4>2
    <3> QED
      BY <3>4, <3>5
  <2> QED
    BY <2>1, <2>2
<1>4. ASSUME NEW k \in Keys, A[k].state = "closed"
      PROVE  IF Untold(k, "end") THEN \E l \in Keys : After(A, k, l) /\ A[k].ended = A[l].offset
             ELSE A[k].ended = span[k].to
  <2>0. ~Begins(reply, k)
    BY <1>4, BeginsLatest
  <2>1. CASE Superseded(reply, k)
    <3>1. Untold(k, "end") /\ tracks[k].state = "open"
      BY <2>0, <2>1, SupersededByLatest
    <3>2. PICK l \in Keys : l[1] = k[1] /\ l[2] > k[2] /\ Begins(reply, l) /\ A[k].ended = span[l].from
      BY <2>0, <2>1, SupersededByLatest
    <3>3. A[l].state # "none" /\ A[l].offset = span[l].from
      BY <1>1, <3>2
    <3>4. ASSUME NEW n \in Keys, n[1] = k[1], n[2] > k[2], A[n].state # "none"
          PROVE  l[2] <= n[2]
      <4>1. ~Listed(n)
        BY <3>1, <3>4 DEF Manifest, Listed
      <4>2. n[2] = l[2]
        BY <1>1, <1>2, <3>2, <3>4, <4>1
      <4> QED
        BY <1>0, <4>2
    <3> QED
      BY <3>1, <3>2, <3>3, <3>4 DEF After
  <2>2. CASE ~Superseded(reply, k) /\ Listed(k) /\ Happened(reply, "end", k)
    BY <2>0, <2>2, EndHeard
  <2>3. CASE ~Superseded(reply, k) /\ ~(Listed(k) /\ Happened(reply, "end", k))
    <3>1. A[k] = tracks[k]
      BY <2>0, <2>3, EntryKept
    <3>2. CASE ~Untold(k, "end")
      BY <1>4, <3>1, <3>2 DEF Manifest
    <3>3. CASE Untold(k, "end")
      <4>1. PICK l \in Keys : After(tracks, k, l) /\ tracks[k].ended = tracks[l].offset
        BY <1>4, <3>1, <3>3 DEF Manifest
      <4>2. l[1] = k[1] /\ l[2] > k[2] /\ Listed(l)
        BY <4>1 DEF After, Listed
      <4>3. A[l].state # "none" /\ A[l].offset = tracks[l].offset /\ Begun(l)
        BY <1>1, <4>2
      <4>4. ASSUME NEW n \in Keys, n[1] = k[1], n[2] > k[2], A[n].state # "none"
            PROVE  l[2] <= n[2]
        <5>1. CASE Listed(n)
          BY <4>1, <4>4, <5>1 DEF After, Listed
        <5>2. CASE ~Listed(n)
          BY <1>0, <1>1, <1>2, <4>2, <4>3, <4>4, <5>2 DEF Begun
        <5> QED
          BY <5>1, <5>2
      <4>5. After(A, k, l) /\ A[k].ended = A[l].offset
        BY <3>1, <4>1, <4>2, <4>3, <4>4 DEF After
      <4> QED
        BY <3>3, <4>5
    <3> QED
      BY <3>2, <3>3
  <2> QED
    BY <2>1, <2>2, <2>3
<1> HIDE DEF A
<1>5. Manifest(A, {})
  BY <1>1, <1>3, <1>4 DEF Manifest
<1> QED
  BY <1>5 DEF A

-----------------------------------------------------------------------------
(***************************************************************************)
(* Spans.                                                                  *)
(***************************************************************************)

SpanInv ==
    /\ AttachInv /\ EventInv /\ ReplyInv /\ LostInv
    /\ pc # "done" => Manifest(tracks, reply)

\* The manifest keeps its word through a poll.
LEMMA PollManifest ==
    ASSUME TypeOK, InTime, SpanInv,
           NEW gone \in SUBSET {p \in Participants : active[p] # NoKey},
           NEW streams \in SUBSET (Participants \ gone), NEW broken \in SUBSET streams,
           Poll(gone, streams, broken)
    PROVE  Manifest(tracks, reply)'
<1>0. pc = "idle"
  BY DEF Poll
<1>1. PICK fresh \in SUBSET {p \in Participants : active[p] = NoKey} :
        /\ pc = "idle" /\ pc' = "reply" /\ now' = now + 1 /\ now' \in Times /\ now' # Never
        /\ UNCHANGED <<cap, tracks, files, flying, untold>>
        /\ \A p \in Participants :
             /\ active'[p] = IF p \in fresh THEN NextKey(p) ELSE IF p \in gone THEN NoKey ELSE active[p]
             /\ issued'[p] = IF p \in fresh THEN issued[p] + 1 ELSE issued[p]
        /\ \A k \in Keys :
             /\ k[1] \in fresh /\ k[2] = issued[k[1]] + 1 =>
                   recorder'[k] = "recording" /\ span'[k].from = now' /\ span'[k].to = Never
             /\ k[1] \in gone /\ k = active[k[1]] =>
                   recorder'[k] = "stopping" /\ span'[k].from = span[k].from /\ span'[k].to = now'
             /\ ~(k[1] \in fresh /\ k[2] = issued[k[1]] + 1) /\ ~(k[1] \in gone /\ k = active[k[1]]) =>
                   recorder'[k] = recorder[k] /\ span'[k] = span[k]
        /\ reply' = Told({NextKey(p) : p \in fresh}, "start", now')
                    \cup Told({active[p] : p \in gone}, "end", now')
        /\ \A p \in fresh : NextKey(p) \in Keys
  BY PollFacts DEF SpanInv
<1> DEFINE Fresh(k) == k[1] \in fresh /\ k[2] = issued[k[1]] + 1
           Over(k) == k[1] \in gone /\ k = active[k[1]]
<1>2. reply = {} /\ Manifest(tracks, reply) /\ AttachInv /\ LostInv
  BY <1>0 DEF SpanInv, ReplyInv
<1>3. ASSUME NEW k \in Keys, Listed(k)
      PROVE  ~Fresh(k) /\ Begun(k)
  <2>1. Begun(k)
    BY <1>2, <1>3 DEF AttachInv
  <2> QED
    BY <2>1, KeyPair, BoundsAssumption DEF Begun, TypeOK
<1>4. ASSUME NEW k \in Keys, Listed(k), ~Over(k)
      PROVE  span'[k] = span[k]
  BY <1>1, <1>3, <1>4
<1>5. ASSUME NEW k \in Keys, Over(k)
      PROVE  /\ span'[k].from = span[k].from /\ span[k].to = Never
             /\ Happened(reply', "end", k)
  <2>1. span'[k].from = span[k].from
    BY <1>1, <1>5
  <2>2. k[1] \in Participants /\ active[k[1]] # NoKey /\ active[k[1]] = k
    BY <1>5, KeyPair, ParticipantsAssumption
  <2>3. span[k].to = Never
    BY <1>2, <2>2 DEF AttachInv
  <2>5. k \in {active[p] : p \in gone}
    BY <1>5
  <2>6. Told({active[p] : p \in gone}, "end", now') \subseteq reply'
    BY <1>1
  <2>4. [type |-> "end", key |-> k, t |-> now'] \in reply'
    BY <2>5, <2>6 DEF Told
  <2> QED
    BY <2>1, <2>3, <2>4 DEF Happened
<1> HIDE DEF Fresh, Over
<1>6. tracks' = tracks /\ untold' = untold
  BY <1>1
<1>7. ASSUME NEW k \in Keys
      PROVE  /\ tracks[k].state # "none" => tracks[k].offset = span'[k].from
             /\ tracks[k].state = "open" =>
                 /\ \A l \in Keys : l[1] = k[1] /\ l[2] > k[2] => tracks[l].state = "none"
                 /\ Untold(k, "end") \/ Happened(reply', "end", k) \/ span'[k].to = Never
             /\ tracks[k].state = "closed" =>
                 IF Untold(k, "end") THEN \E l \in Keys : After(tracks, k, l) /\ tracks[k].ended = tracks[l].offset
                 ELSE tracks[k].ended = span'[k].to
  <2>1. CASE ~Listed(k)
    BY <2>1 DEF Listed
  <2>2. CASE Listed(k) /\ Over(k)
    <3>1. tracks[k].state # "closed"
      BY <1>2, <1>5, <2>2, ClosedEnded
    <3> QED
      BY <1>2, <1>5, <2>2, <3>1 DEF Manifest
  <2>3. CASE Listed(k) /\ ~Over(k)
    <3>1. span'[k] = span[k]
      BY <1>4, <2>3
    <3>2. ~Happened(reply, "end", k)
      BY <1>2 DEF Happened
    <3> QED
      BY <1>2, <3>1, <3>2 DEF Manifest
  <2> QED
    BY <2>1, <2>2, <2>3
<1> QED
  BY <1>6, <1>7 DEF Manifest, After, Untold

\* A poll.
LEMMA PollSpans ==
    ASSUME TypeOK, InTime, SpanInv,
           NEW gone \in SUBSET {p \in Participants : active[p] # NoKey},
           NEW streams \in SUBSET (Participants \ gone), NEW broken \in SUBSET streams,
           Poll(gone, streams, broken)
    PROVE  SpanInv' /\ pc' # "done"
<1>1. pc = "idle" /\ pc' = "reply"
  BY DEF Poll
<1>2. AttachInv' /\ EventInv' /\ ReplyInv' /\ LostInv'
  BY <1>1, PollAttach DEF SpanInv
<1> QED
  BY <1>1, <1>2, PollManifest DEF SpanInv

\* An answer is folded into the manifest.
LEMMA PumpAppliesSpans ==
    ASSUME TypeOK, SpanInv, PumpApplies
    PROVE  SpanInv' /\ pc' # "done"
<1>0. pc = "reply" /\ pc' = "idle" /\ reply' = {} /\ tracks' = Applied(reply)
      /\ UNCHANGED <<now, cap, active, issued, recorder, span, untold>>
  BY DEF PumpApplies, page, media
<1>1. Manifest(tracks, reply) /\ AttachInv /\ EventInv /\ LostInv
  BY <1>0 DEF SpanInv
<1>2. Manifest(tracks, reply)'
  <2>1. Manifest(Applied(reply), {})
    BY <1>1, AppliedManifest
  <2>2. Manifest(tracks', reply')
    BY <1>0, <2>1
  <2> QED
    BY <1>0, <2>2 DEF Manifest, After, Untold, Happened
<1>3. \A k \in Keys : Listed(k)' => Begun(k)
  BY <1>0, <1>1, AppliedListed DEF Listed
<1>4. AttachInv'
  BY <1>0, <1>1, <1>3 DEF AttachInv, Begun
<1>5. EventInv' /\ ReplyInv' /\ LostInv'
  BY <1>0, <1>1 DEF EventInv, ReplyInv, LostInv, Begun, Untold
<1> QED
  BY <1>0, <1>2, <1>4, <1>5 DEF SpanInv

\* An answer is lost.
LEMMA LostAnswer ==
    ASSUME TypeOK, SpanInv, pc \in {"reply", "stopping", "settling"},
           reply' = {}, untold' = untold \cup {<<e.key, e.type>> : e \in reply},
           UNCHANGED <<tracks, issued>>,
           \A k \in Keys : span'[k] = span[k]
    PROVE  EventInv' /\ ReplyInv' /\ LostInv' /\ Manifest(tracks, reply)'
<1>1. Manifest(tracks, reply) /\ AttachInv /\ EventInv /\ LostInv
  BY DEF SpanInv
<1>2. \A k \in Keys : Untold(k, "end")' <=> Untold(k, "end") \/ Happened(reply, "end", k)
  <2>1. ASSUME NEW k \in Keys
        PROVE  <<k, "end">> \in {<<e.key, e.type>> : e \in reply} <=> Happened(reply, "end", k)
    BY DEF Happened
  <2> QED
    BY <2>1 DEF Untold
<1>3. \A k \in Keys : Happened(reply, "end", k) =>
          Begun(k) /\ span[k].to # Never /\ tracks[k].state # "closed"
  BY <1>1, EventShape DEF EventInv, Happened
<1>4. LostInv'
  BY <1>1, <1>2, <1>3 DEF LostInv, Begun
<1>5. ASSUME NEW k \in Keys
      PROVE  /\ tracks[k].state # "none" => tracks[k].offset = span'[k].from
             /\ tracks[k].state = "open" =>
                 /\ \A l \in Keys : l[1] = k[1] /\ l[2] > k[2] => tracks[l].state = "none"
                 /\ Untold(k, "end")' \/ Happened(reply', "end", k) \/ span'[k].to = Never
             /\ tracks[k].state = "closed" =>
                 IF Untold(k, "end")' THEN \E l \in Keys : After(tracks, k, l) /\ tracks[k].ended = tracks[l].offset
                 ELSE tracks[k].ended = span'[k].to
  BY <1>1, <1>2, <1>3 DEF Manifest
<1>6. Manifest(tracks, reply)'
  BY <1>5 DEF Manifest, After
<1> QED
  BY <1>4, <1>6 DEF EventInv, ReplyInv

\* The pump fails: what began and ended stays untold.
LEMMA PumpFailsSpans ==
    ASSUME TypeOK, SpanInv, PumpFails
    PROVE  SpanInv' /\ pc' # "done"
<1>0. pc = "reply" /\ pc' = "idle" /\ reply' = {}
      /\ untold' = untold \cup {<<e.key, e.type>> : e \in reply}
      /\ UNCHANGED <<now, cap, active, issued, recorder, span, tracks>>
  BY DEF PumpFails, page, media, node
<1>1. EventInv' /\ ReplyInv' /\ LostInv' /\ Manifest(tracks, reply)'
  BY <1>0, LostAnswer
<1>2. AttachInv'
  BY <1>0 DEF SpanInv, AttachInv, Begun, Listed
<1> QED
  BY <1>0, <1>1, <1>2 DEF SpanInv

\* The loop is left, and the duration frozen.
LEMMA LeaveSpans ==
    ASSUME TypeOK, SpanInv, LeaveLoop \/ Abandon \/ RecordersStop \/ ChunksSettle
    PROVE  SpanInv' /\ pc' # "done"
<1>0. UNCHANGED <<now, active, issued, recorder, span, tracks, reply, untold>>
  BY DEF LeaveLoop, Abandon, RecordersStop, ChunksSettle, page, media, node
<1>1. \/ pc = "idle" /\ pc' = "flush" /\ cap' = now
      \/ pc = "flush" /\ pc' = "truncated" /\ cap' = cap
      \/ pc = "stopping" /\ pc' = "settling" /\ cap' = cap
      \/ pc = "settling" /\ pc' = "answer" /\ cap' = cap
  BY DEF LeaveLoop, Abandon, RecordersStop, ChunksSettle
<1>2. AttachInv'
  BY <1>0, <1>1 DEF SpanInv, AttachInv, Begun, Listed
<1>3. EventInv' /\ LostInv'
  BY <1>0 DEF SpanInv, EventInv, LostInv, Begun, Listed, Untold
<1>4. ReplyInv'
  BY <1>0, <1>1 DEF SpanInv, ReplyInv
<1>5. Manifest(tracks, reply)'
  BY <1>0, <1>1 DEF SpanInv, Manifest, After, Happened, Untold
<1> QED
  BY <1>1, <1>2, <1>3, <1>4, <1>5 DEF SpanInv

\* The stop pass ends whatever is attached.
LEMMA StopPassSpans ==
    ASSUME TypeOK, InTime, SpanInv, StopPass
    PROVE  SpanInv' /\ pc' # "done"
<1>0. /\ pc = "flush" /\ pc' = "stopping" /\ now' = now + 1 /\ active' = [p \in Participants |-> NoKey]
      /\ UNCHANGED <<cap, issued, tracks, untold>>
      /\ reply' = Told(Attached, "end", now')
  BY DEF StopPass, node
<1>1. now' \in Times /\ now' # Never /\ now \in Int /\ \A k \in Keys : span[k].from \in Int
  BY <1>0, BoundsAssumption, NeverAssumption DEF TypeOK, InTime, Times
<1>2. Manifest(tracks, reply) /\ AttachInv /\ LostInv /\ reply = {}
  BY <1>0 DEF SpanInv, ReplyInv
<1>3. ASSUME NEW k \in Keys
      PROVE  /\ k \in Attached => /\ Begun(k) /\ span[k].to = Never
                                  /\ span'[k].from = span[k].from /\ span'[k].to = now'
             /\ k \notin Attached => span'[k] = span[k] /\ recorder'[k] = recorder[k]
  <2>1. ASSUME k \in Attached PROVE Begun(k) /\ span[k].to = Never
    <3>1. PICK p \in Participants : k = active[p] /\ active[p] # NoKey
      BY <2>1 DEF Attached
    <3>2. k = <<p, issued[p]>> /\ span[k].to = Never /\ issued[p] \in Nat
      BY <1>2, <3>1, BoundsAssumption DEF AttachInv, TypeOK
    <3> QED
      BY <3>2 DEF Begun
  <2>2. span' = [l \in Keys |-> IF l \in Attached THEN [span[l] EXCEPT !.to = now'] ELSE span[l]]
        /\ recorder' = Stopped(Attached)
    BY DEF StopPass
  <2>3. span[k] \in [from : Times, to : Times \cup {Never}]
    BY DEF TypeOK
  <2> HIDE DEF Attached
  <2>4. k \in Attached => span'[k].from = span[k].from /\ span'[k].to = now'
    BY <2>2, <2>3
  <2>5. k \notin Attached => span'[k] = span[k] /\ recorder'[k] = recorder[k]
    BY <2>2 DEF Stopped
  <2> QED
    BY <2>1, <2>4, <2>5
<1>4. \A k \in Keys : Begun(k)' <=> Begun(k)
  BY <1>0 DEF Begun
<1>5. \A k \in Keys : Begun(k) => span'[k].to # Never
  <2>1. ASSUME NEW k \in Keys, Begun(k), k \notin Attached PROVE span[k].to # Never
    <3>1. k[1] \in Participants /\ k # NoKey
      BY KeyPair, ParticipantsAssumption
    <3> QED
      BY <1>2, <2>1, <3>1 DEF AttachInv, Attached
  <2> QED
    BY <1>1, <1>3, <2>1
<1>6. AttachInv'
  <2>1. \A k \in Keys : ~Begun(k)' => recorder'[k] = "none" /\ ~Listed(k)'
    BY <1>0, <1>2, <1>3, <1>4 DEF AttachInv, Listed
  <2>2. \A k \in Keys : span'[k].from = span[k].from
    BY <1>3
  <2>3. \A k \in Keys : Begun(k)' => span'[k].from <= now' /\ span'[k].from <= cap'
    BY <1>0, <1>1, <1>2, <1>4, <2>2 DEF AttachInv
  <2>4. \A p \in Participants : active'[p] = NoKey
    BY <1>0
  <2>5. \A k \in Keys : Begun(k)' => span'[k].to # Never
    BY <1>4, <1>5
  <2> QED
    BY <2>1, <2>3, <2>4, <2>5 DEF AttachInv
<1>7. Attached \subseteq Keys
  BY DEF Attached, TypeOK
<1>8. \A e \in reply' : e.type = "end" /\ e.key \in Attached /\ e.t = now'
  BY <1>0 DEF Told
<1>9. \A k \in Attached : Happened(reply', "end", k)
  <2>1. \A k \in Attached : [type |-> "end", key |-> k, t |-> now'] \in reply'
    BY <1>0 DEF Told
  <2> QED
    BY <2>1 DEF Happened
<1>10. EventInv'
  <2>1. ASSUME NEW e \in reply'
        PROVE  /\ Begun(e.key)' /\ e.t = span'[e.key].to /\ ~Untold(e.key, "end")'
               /\ tracks'[e.key].state # "closed"
    <3>1. e.key \in Keys /\ Begun(e.key) /\ span[e.key].to = Never
      BY <1>3, <1>7, <1>8
    <3>2. tracks[e.key].state # "closed"
      BY <1>2, <3>1, ClosedEnded
    <3>3. ~Untold(e.key, "end")
      BY <1>2, <3>1 DEF LostInv
    <3>4. e.t = span'[e.key].to
      BY <1>3, <1>7, <1>8
    <3> QED
      BY <1>0, <1>4, <3>1, <3>2, <3>3, <3>4 DEF Untold
  <2> QED
    BY <1>8, <2>1 DEF EventInv
<1>11. LostInv'
  BY <1>0, <1>2, <1>4, <1>5 DEF LostInv, Untold
<1>12. Manifest(tracks, reply)'
  <2>1. ASSUME NEW k \in Keys
        PROVE  /\ tracks[k].state # "none" => tracks[k].offset = span'[k].from
               /\ tracks[k].state = "open" =>
                   /\ \A l \in Keys : l[1] = k[1] /\ l[2] > k[2] => tracks[l].state = "none"
                   /\ Untold(k, "end") \/ Happened(reply', "end", k) \/ span'[k].to = Never
               /\ tracks[k].state = "closed" =>
                   IF Untold(k, "end") THEN \E l \in Keys : After(tracks, k, l) /\ tracks[k].ended = tracks[l].offset
                   ELSE tracks[k].ended = span'[k].to
    <3>1. CASE k \in Attached
      <4>1. tracks[k].state # "closed" /\ Happened(reply', "end", k) /\ span'[k].from = span[k].from
        BY <1>2, <1>3, <1>9, <3>1, ClosedEnded
      <4> QED
        BY <1>2, <4>1 DEF Manifest
    <3>2. CASE k \notin Attached
      <4>1. span'[k] = span[k] /\ ~Happened(reply, "end", k)
        BY <1>2, <1>3, <3>2 DEF Happened
      <4> QED
        BY <1>2, <4>1 DEF Manifest
    <3> QED
      BY <3>1, <3>2
  <2> QED
    BY <1>0, <2>1 DEF Manifest, After, Untold
<1>13. ReplyInv'
  BY <1>0 DEF ReplyInv
<1> QED
  BY <1>0, <1>6, <1>10, <1>11, <1>12, <1>13 DEF SpanInv

\* A reload takes recorders down, and the end of each is lost.
LEMMA ReloadSpans ==
    ASSUME TypeOK, SpanInv, Reload
    PROVE  SpanInv' /\ pc' # "done"
<1> DEFINE Cut == {k \in Running : span[k].to = Never}
<1>0. /\ pc \notin {"done", "truncated"} /\ active' = [p \in Participants |-> NoKey]
      /\ UNCHANGED <<now, cap, issued, tracks>>
  BY DEF Reload, node
<1>1. now # Never
  BY BoundsAssumption, NeverAssumption DEF TypeOK, Times
<1>2. Manifest(tracks, reply) /\ AttachInv /\ LostInv /\ EventInv /\ ReplyInv
  BY <1>0 DEF SpanInv
<1>3. ASSUME NEW k \in Keys
      PROVE  /\ k \in Cut => span'[k].from = span[k].from /\ span'[k].to = now
             /\ k \notin Cut => span'[k] = span[k]
             /\ recorder[k] = "none" => recorder'[k] = "none"
  <2>1. span' = [l \in Keys |-> IF l \in Running /\ span[l].to = Never
                                 THEN [span[l] EXCEPT !.to = now] ELSE span[l]]
        /\ recorder' = [l \in Keys |-> IF l \in Running THEN "dead" ELSE recorder[l]]
    BY DEF Reload
  <2>2. span[k] \in [from : Times, to : Times \cup {Never}]
    BY DEF TypeOK
  <2>3. k \in Cut => span'[k].from = span[k].from /\ span'[k].to = now
    BY <2>1, <2>2
  <2>4. k \notin Cut => span'[k] = span[k]
    BY <2>1
  <2>5. recorder[k] = "none" => recorder'[k] = "none"
    BY <2>1 DEF Running
  <2> QED
    BY <2>3, <2>4, <2>5
<1>4. ASSUME NEW k \in Keys, Begun(k), span[k].to = Never
      PROVE  k \in Cut
  <2>1. k[1] \in Participants /\ k # NoKey /\ active[k[1]] = k
    BY <1>2, <1>4, KeyPair, ParticipantsAssumption DEF AttachInv
  <2>2. recorder[k] = "recording"
    BY <1>2, <2>1 DEF AttachInv
  <2> QED
    BY <1>4, <2>2 DEF Running
<1>5. \A k \in Cut : k \in Keys /\ Begun(k) /\ span[k].to = Never
  BY <1>2 DEF AttachInv, Running
<1>6. \A k \in Keys : Begun(k)' <=> Begun(k)
  BY <1>0 DEF Begun
<1> HIDE DEF Cut
<1>7. \A k \in Keys : Begun(k) => span'[k].to # Never
  BY <1>1, <1>3, <1>4
<1>8. \A k \in Keys : span'[k].from = span[k].from
  BY <1>3
<1>9. pc' \in {pc, "answer"} /\ (pc' # pc => pc \in {"stopping", "settling"})
  BY DEF Reload
<1>10. AttachInv'
  <2>1. \A k \in Keys : ~Begun(k)' => recorder'[k] = "none" /\ ~Listed(k)'
    BY <1>0, <1>2, <1>3, <1>6 DEF AttachInv, Listed
  <2>2. \A k \in Keys : Begun(k)' => span'[k].from <= now'
    BY <1>0, <1>2, <1>6, <1>8 DEF AttachInv
  <2>3. pc' \in {"flush", "stopping", "settling", "answer"} =>
          \A k \in Keys : Begun(k)' => span'[k].from <= cap'
    BY <1>0, <1>2, <1>6, <1>8, <1>9 DEF AttachInv
  <2>4. \A p \in Participants : active'[p] = NoKey
    BY <1>0
  <2>5. \A k \in Keys : Begun(k)' => span'[k].to # Never
    BY <1>6, <1>7
  <2> QED
    BY <2>1, <2>2, <2>3, <2>4, <2>5 DEF AttachInv
<1>11. CASE pc \in {"stopping", "settling"}
  <2>1. reply' = {} /\ untold' = untold \cup {<<e.key, e.type>> : e \in reply}
        /\ pc' = "answer"
    BY <1>11 DEF Reload
  <2>2. \A k \in Keys : k \notin Cut
    <3>1. SUFFICES ASSUME NEW k \in Keys, k \in Cut PROVE FALSE
      OBVIOUS
    <3>2. active[k[1]] = k /\ k[1] \in Participants /\ k # NoKey
      BY <1>2, <1>5, <3>1, KeyPair, ParticipantsAssumption DEF AttachInv
    <3> QED
      BY <1>2, <1>11, <3>2 DEF AttachInv
  <2>3. \A k \in Keys : span'[k] = span[k]
    BY <1>3, <2>2
  <2>4. EventInv' /\ ReplyInv' /\ LostInv' /\ Manifest(tracks, reply)'
    BY <1>0, <1>11, <2>1, <2>3, LostAnswer
  <2> QED
    BY <1>10, <2>1, <2>4 DEF SpanInv
<1>12. CASE pc \notin {"stopping", "settling"}
  <2>1. UNCHANGED <<reply, pc>> /\ untold' = untold \cup {<<k, "end">> : k \in Cut}
    BY <1>12 DEF Reload, Cut
  <2>2. \A k \in Keys : Untold(k, "end")' <=> Untold(k, "end") \/ k \in Cut
    BY <2>1 DEF Untold
  <2>3. EventInv'
    <3>1. ASSUME NEW e \in reply
          PROVE  /\ Begun(e.key)'
                 /\ e.type = "start" =>
                      /\ e.key[2] = issued'[e.key[1]] /\ e.t = span'[e.key].from /\ ~Listed(e.key)'
                      /\ span'[e.key].to = Never \/ Untold(e.key, "end")'
                 /\ e.type = "end" =>
                      /\ e.t = span'[e.key].to /\ ~Untold(e.key, "end")' /\ tracks'[e.key].state # "closed"
      <4>1. e.key \in Keys /\ Begun(e.key) /\ e.t # Never
        BY <1>2, EventShape DEF EventInv
      <4>2. e.type = "start" =>
                      /\ e.key[2] = issued'[e.key[1]] /\ e.t = span'[e.key].from /\ ~Listed(e.key)'
                      /\ span'[e.key].to = Never \/ Untold(e.key, "end")'
        BY <1>0, <1>2, <1>4, <1>8, <2>2, <4>1 DEF EventInv, Listed
      <4>3. ASSUME e.type = "end"
            PROVE  e.t = span'[e.key].to /\ ~Untold(e.key, "end")' /\ tracks'[e.key].state # "closed"
        <5>1. e.t = span[e.key].to /\ ~Untold(e.key, "end") /\ tracks[e.key].state # "closed"
          BY <1>2, <4>3 DEF EventInv
        <5>2. e.key \notin Cut
          BY <1>5, <4>1, <5>1
        <5> QED
          BY <1>0, <1>3, <2>2, <4>1, <5>1, <5>2
      <4> QED
        BY <1>6, <4>1, <4>2, <4>3
    <3>2. \A e \in reply : e.type = "end" => \A d \in reply : d.type = "start" => d.key[1] # e.key[1]
      BY <1>2 DEF EventInv
    <3> QED
      BY <2>1, <3>1, <3>2 DEF EventInv
  <2>4. LostInv'
    BY <1>2, <1>5, <1>6, <1>7, <2>2 DEF LostInv
  <2>5. ReplyInv'
    BY <1>2, <2>1 DEF ReplyInv
  <2>6. Manifest(tracks, reply)'
    <3>1. ASSUME NEW k \in Keys
          PROVE  /\ tracks[k].state # "none" => tracks[k].offset = span'[k].from
                 /\ tracks[k].state = "open" =>
                     /\ \A l \in Keys : l[1] = k[1] /\ l[2] > k[2] => tracks[l].state = "none"
                     /\ Untold(k, "end")' \/ Happened(reply, "end", k) \/ span'[k].to = Never
                 /\ tracks[k].state = "closed" =>
                     IF Untold(k, "end")' THEN \E l \in Keys : After(tracks, k, l) /\ tracks[k].ended = tracks[l].offset
                     ELSE tracks[k].ended = span'[k].to
      <4>1. CASE k \in Cut
        <5>1. tracks[k].state # "closed"
          BY <1>2, <1>5, <4>1, ClosedEnded
        <5> QED
          BY <1>2, <1>8, <2>2, <4>1, <5>1 DEF Manifest
      <4>2. CASE k \notin Cut
        BY <1>2, <1>3, <2>2, <4>2 DEF Manifest
      <4> QED
        BY <4>1, <4>2
    <3> QED
      BY <1>0, <2>1, <3>1 DEF Manifest, After
  <2> QED
    BY <1>0, <1>10, <2>1, <2>3, <2>4, <2>5, <2>6 DEF SpanInv
<1> QED
  BY <1>11, <1>12

\* Chunks leave manifest and spans alone.
LEMMA ChunkSpans ==
    ASSUME TypeOK, SpanInv, NEW n \in Keys, Chunk(n) \/ LastChunk(n) \/ ChunkArrives(n)
    PROVE  SpanInv' /\ pc' # "done"
<1>0. pc # "done" /\ UNCHANGED <<pc, now, cap, active, issued, span, tracks, reply, untold>>
  BY DEF Chunk, LastChunk, ChunkArrives, page, node
<1>1. \A k \in Keys : recorder'[k] = recorder[k] \/ recorder[k] = "stopping"
  BY DEF Chunk, LastChunk, ChunkArrives, TypeOK
<1>2. AttachInv'
  <2>1. \A p \in Participants : active'[p] # NoKey =>
          /\ active'[p] = <<p, issued'[p]>>
          /\ span'[active'[p]].to = Never /\ recorder'[active'[p]] = "recording"
    BY <1>0, <1>1 DEF SpanInv, AttachInv, TypeOK
  <2>2. \A k \in Keys : ~Begun(k)' => recorder'[k] = "none" /\ ~Listed(k)'
    BY <1>0, <1>1 DEF SpanInv, AttachInv, Begun, Listed
  <2>3. \A k \in Keys : Begun(k)' <=> Begun(k)
    BY <1>0 DEF Begun
  <2> QED
    BY <1>0, <2>1, <2>2, <2>3 DEF SpanInv, AttachInv
<1>3. EventInv' /\ LostInv'
  BY <1>0 DEF SpanInv, EventInv, LostInv, Begun, Listed, Untold
<1>4. ReplyInv'
  BY <1>0 DEF SpanInv, ReplyInv
<1>5. Manifest(tracks, reply)'
  BY <1>0 DEF SpanInv, Manifest, After, Happened, Untold
<1> QED
  BY <1>0, <1>2, <1>3, <1>4, <1>5 DEF SpanInv

\* finish closes what is open and ends nothing after the mixed file: every span
\* of the manifest it writes is true.
LEMMA FinishSpans ==
    ASSUME TypeOK, SpanInv, Finish
    PROVE  SpanInv' /\ SpansTrue'
<1> DEFINE final == Applied(reply)
<1>0. pc = "answer" /\ pc' = "done" /\ reply' = {} /\ tracks' = [k \in Keys |-> Clamped(final[k])]
      /\ UNCHANGED <<now, cap, active, issued, recorder, span, untold>>
  BY DEF Finish, page, media
<1>1. Manifest(tracks, reply) /\ AttachInv /\ EventInv /\ LostInv
  BY <1>0 DEF SpanInv
<1>2. Manifest(final, {})
  BY <1>1, AppliedManifest
<1>3. \A k \in Keys : final[k].state # "none" => Begun(k) /\ final[k].offset = span[k].from
  BY <1>1, AppliedListed
<1>4. \A k \in Keys : final[k] \in Entries
  BY AppliedType DEF TypeOK
<1>5. \A k \in Keys : ~Happened({}, "end", k)
  BY DEF Happened
<1> HIDE DEF final
<1>6. ASSUME NEW k \in Keys
      PROVE  /\ Listed(k)' <=> final[k].state # "none"
             /\ tracks'[k].offset = final[k].offset
             /\ final[k].state = "open" => tracks'[k].ended = cap
             /\ final[k].state = "closed" =>
                    tracks'[k].ended = IF final[k].ended > cap THEN cap ELSE final[k].ended
  <2>1. tracks'[k] = Clamped(final[k])
    BY <1>0
  <2>2. final[k] \in [state : {"none", "open", "closed"}, offset : Times, ended : Times]
    BY <1>4 DEF Entries
  <2>3. Clamped(final[k]).state # "none" <=> final[k].state # "none"
    BY <2>2 DEF Clamped
  <2>4. Clamped(final[k]).offset = final[k].offset
    BY <2>2 DEF Clamped
  <2>5. final[k].state = "open" => Clamped(final[k]).ended = cap
    BY <2>2 DEF Clamped
  <2>6. final[k].state = "closed" =>
            Clamped(final[k]).ended = IF final[k].ended > cap THEN cap ELSE final[k].ended
    BY <2>2 DEF Clamped
  <2> QED
    BY <2>1, <2>3, <2>4, <2>5, <2>6 DEF Listed
<1>7. \A k \in Keys : (Untold(k, "end")' <=> Untold(k, "end")) /\ RealEnd(k)' = RealEnd(k)
  BY <1>0 DEF Untold, RealEnd
<1>8. ASSUME NEW k \in Keys, Listed(k)'
      PROVE  /\ tracks'[k].offset = span'[k].from
             /\ tracks'[k].ended = IF Untold(k, "end")' THEN GuessedEnd(k)' ELSE RealEnd(k)'
  <2> DEFINE later == {l \in Keys : l[1] = k[1] /\ l[2] > k[2] /\ Listed(l)'}
  <2>1. final[k].state \in {"open", "closed"}
    BY <1>4, <1>6, <1>8 DEF Entries
  <2>2. GuessedEnd(k)' = IF later = {} THEN cap
                         ELSE tracks'[CHOOSE l \in later : \A m \in later : l[2] <= m[2]].offset
    BY <1>0 DEF GuessedEnd
  <2>3. tracks'[k].offset = span'[k].from
    BY <1>0, <1>3, <1>6, <1>8
  <2>4. CASE final[k].state = "open"
    <3>1. tracks'[k].ended = cap
      BY <1>6, <2>4
    <3>2. later = {}
      BY <1>2, <1>6, <2>4 DEF Manifest
    <3>3. ~Untold(k, "end") => RealEnd(k) = cap
      BY <1>2, <1>5, <2>4 DEF Manifest, RealEnd
    <3> QED
      BY <1>7, <2>2, <2>3, <3>1, <3>2, <3>3
  <2>5. CASE final[k].state = "closed" /\ ~Untold(k, "end")
    <3>1. final[k].ended = span[k].to
      BY <1>2, <2>5 DEF Manifest
    <3>2. final[k].ended # Never
      BY <1>4, BoundsAssumption, NeverAssumption DEF Entries, Times
    <3>3. tracks'[k].ended = RealEnd(k)
      BY <1>6, <2>5, <3>1, <3>2 DEF RealEnd
    <3> QED
      BY <1>7, <2>3, <2>5, <3>3
  <2>6. CASE final[k].state = "closed" /\ Untold(k, "end")
    <3>1. PICK l \in Keys : After(final, k, l) /\ final[k].ended = final[l].offset
      BY <1>2, <2>6 DEF Manifest
    <3>2. l \in later /\ \A m \in later : l[2] <= m[2]
      BY <1>6, <3>1 DEF After
    <3>3. \A n \in later : n \in Keys /\ n[1] = l[1]
      BY <3>1 DEF After
    <3>4. \A n \in later : (\A m \in later : n[2] <= m[2]) => n = l
      <4>1. SUFFICES ASSUME NEW n \in later, \A m \in later : n[2] <= m[2]
                     PROVE  n = l
        OBVIOUS
      <4>2. n[2] = l[2]
        BY <3>2, <3>3, <4>1, KeyPair
      <4> QED
        BY <3>3, <4>2, KeyPair
    <3> HIDE DEF later
    <3>5. (CHOOSE n \in later : \A m \in later : n[2] <= m[2]) = l
      BY <3>2, <3>4
    <3>6. GuessedEnd(k)' = final[l].offset
      BY <1>6, <2>2, <3>2, <3>5
    <3>7. Begun(l) /\ final[l].offset = span[l].from
      BY <1>3, <3>1 DEF After
    <3>8. span[l].from <= cap /\ span[l].from \in Int /\ cap \in Int
      BY <1>0, <1>1, <3>7 DEF AttachInv, TypeOK, Times
    <3>9. tracks'[k].ended = final[l].offset
      BY <1>6, <2>6, <3>1, <3>7, <3>8
    <3> QED
      BY <1>7, <2>3, <2>6, <3>6, <3>9
  <2> QED
    BY <2>1, <2>4, <2>5, <2>6
<1>9. SpansTrue'
  BY <1>8 DEF SpansTrue
<1>10. AttachInv'
  BY <1>0, <1>1, <1>3, <1>6 DEF AttachInv, Begun
<1>11. EventInv' /\ ReplyInv' /\ LostInv'
  BY <1>0, <1>1 DEF EventInv, ReplyInv, LostInv, Begun, Untold
<1> QED
  BY <1>0, <1>9, <1>10, <1>11 DEF SpanInv

\* Each step keeps the spans true.
LEMMA SpanStep ==
    ASSUME TypeOK, InTime, SpanInv, SpansTrue, [Next]_vars
    PROVE  SpanInv' /\ SpansTrue'
<1>1. CASE UNCHANGED vars
  <2>1. UNCHANGED <<pc, now, cap, active, issued, recorder, span, tracks, reply, untold>>
    BY <1>1 DEF vars, page, media, node
  <2>2. AttachInv'
    BY <2>1 DEF SpanInv, AttachInv, Begun, Listed
  <2>3. EventInv' /\ ReplyInv' /\ LostInv'
    BY <2>1 DEF SpanInv, EventInv, ReplyInv, LostInv, Begun, Listed, Untold
  <2>4. Manifest(tracks, reply)' <=> Manifest(tracks, reply)
    BY <2>1 DEF Manifest, After, Happened, Untold
  <2>5. SpansTrue'
    BY <2>1 DEF SpansTrue, Listed, Untold, GuessedEnd, RealEnd
  <2> QED
    BY <2>1, <2>2, <2>3, <2>4, <2>5 DEF SpanInv
<1>2. CASE \E gone \in SUBSET {p \in Participants : active[p] # NoKey} :
             \E streams \in SUBSET (Participants \ gone) :
                \E broken \in SUBSET streams : Poll(gone, streams, broken)
  <2>1. SpanInv' /\ pc' # "done"
    BY <1>2, PollSpans
  <2> QED
    BY <2>1 DEF SpansTrue
<1>3. CASE \E k \in Keys : Chunk(k) \/ LastChunk(k) \/ ChunkArrives(k)
  <2>1. SpanInv' /\ pc' # "done"
    BY <1>3, ChunkSpans
  <2> QED
    BY <2>1 DEF SpansTrue
<1>4. CASE PumpApplies \/ PumpFails \/ LeaveLoop \/ Abandon \/ StopPass \/ RecordersStop
           \/ ChunksSettle \/ Reload
  <2>1. SpanInv' /\ pc' # "done"
    BY <1>4, PumpAppliesSpans, PumpFailsSpans, LeaveSpans, StopPassSpans, ReloadSpans
  <2> QED
    BY <2>1 DEF SpansTrue
<1>5. CASE Finish
  BY <1>5, FinishSpans
<1> QED
  BY <1>1, <1>2, <1>3, <1>4, <1>5 DEF Next, Pump, Stop

\* The first state.
LEMMA SpanInit == Init => SpanInv /\ SpansTrue
<1> SUFFICES ASSUME Init PROVE SpanInv /\ SpansTrue
  OBVIOUS
<1>1. pc = "idle" /\ reply = {} /\ untold = {} /\ \A k \in Keys : ~Listed(k) /\ recorder[k] = "none"
  BY DEF Init, Listed
<1>2. \A k \in Keys : ~Begun(k)
  BY KeyPair, BoundsAssumption DEF Init, Begun
<1>3. \A p \in Participants : active[p] = NoKey
  BY DEF Init
<1>4. AttachInv
  BY <1>1, <1>2, <1>3 DEF AttachInv
<1>5. EventInv /\ ReplyInv /\ LostInv
  BY <1>1 DEF EventInv, ReplyInv, LostInv, Untold
<1>6. Manifest(tracks, reply)
  BY <1>1 DEF Manifest, Listed
<1> QED
  BY <1>1, <1>4, <1>5, <1>6 DEF SpanInv, SpansTrue

\* Every listed track begins when its recorder did and ends when its recorder or
\* the recording did, or, where the end was lost, with the participant's next one.
THEOREM SpansAreTrue == Spec => []SpansTrue
<1>1. Init => SpanInv /\ SpansTrue
  BY SpanInit
<1>2. TypeOK /\ InTime /\ SpanInv /\ SpansTrue /\ [Next]_vars => (SpanInv /\ SpansTrue)'
  BY SpanStep
<1> QED
  BY <1>1, <1>2, TypeCorrect, PTL DEF Spec

-----------------------------------------------------------------------------
(***************************************************************************)
(* Audio.                                                                  *)
(***************************************************************************)

\* The beginning of k is in the manifest, lost, or on its way.
Known(k) == Listed(k) \/ Untold(k, "start") \/ Happened(reply, "start", k)

\* That holds of every attach that left a trace: a recorder, a chunk, a file.
KnownInv == \A k \in Keys : recorder[k] # "none" \/ flying[k] # 0 \/ files[k] # 0 => Known(k)

\* A step that leaves traces of known attaches only, and forgets no beginning.
LEMMA KnownKept ==
    ASSUME KnownInv,
           \A k \in Keys : Known(k) => Known(k)',
           \A k \in Keys : recorder'[k] # "none" => recorder[k] # "none" \/ Known(k)',
           \A k \in Keys : flying'[k] # 0 => flying[k] # 0 \/ recorder[k] # "none",
           \A k \in Keys : files'[k] # 0 => files[k] # 0 \/ flying[k] # 0 \/ Known(k)'
    PROVE  KnownInv'
  BY DEF KnownInv

\* Once an answer is applied, what it begins is listed, and nothing is taken off.
LEMMA AppliedKnown ==
    ASSUME TypeOK, NEW k \in Keys
    PROVE  /\ Listed(k) \/ Begins(reply, k) => Applied(reply)[k].state # "none"
           /\ Happened(reply, "start", k) => Listed(k) \/ Begins(reply, k)
<1>0. tracks[k] \in [state : {"none", "open", "closed"}, offset : Times, ended : Times]
  BY DEF TypeOK, Entries
<1>1. CASE Begins(reply, k)
  BY <1>1 DEF Applied
<1>2. CASE ~Begins(reply, k) /\ Listed(k)
  <2>1. Superseded(reply, k) => Applied(reply)[k].state = "closed"
    BY <1>0, <1>2 DEF Applied
  <2>2. ~Superseded(reply, k) /\ Happened(reply, "end", k) => Applied(reply)[k].state = "closed"
    BY <1>0, <1>2 DEF Applied
  <2>3. ~Superseded(reply, k) /\ ~Happened(reply, "end", k) => Applied(reply)[k] = tracks[k]
    BY <1>2 DEF Applied
  <2> QED
    BY <1>2, <2>1, <2>2, <2>3 DEF Listed
<1> QED
  BY <1>1, <1>2 DEF Begins

\* Each step keeps the beginnings known.
LEMMA KnownStep ==
    ASSUME TypeOK, InTime, SpanInv, KnownInv, [Next]_vars
    PROVE  KnownInv'
<1>1. CASE UNCHANGED vars
  BY <1>1 DEF vars, media, node, KnownInv, Known, Listed, Untold, Happened
<1>2. CASE \E gone \in SUBSET {p \in Participants : active[p] # NoKey} :
             \E streams \in SUBSET (Participants \ gone) :
                \E broken \in SUBSET streams : Poll(gone, streams, broken)
  <2>1. PICK gone \in SUBSET {p \in Participants : active[p] # NoKey} :
             \E streams \in SUBSET (Participants \ gone) :
                \E broken \in SUBSET streams : Poll(gone, streams, broken)
    BY <1>2
  <2>2. PICK streams \in SUBSET (Participants \ gone) :
                \E broken \in SUBSET streams : Poll(gone, streams, broken)
    BY <2>1
  <2>3. PICK broken \in SUBSET streams : Poll(gone, streams, broken)
    BY <2>2
  <2> DEFINE begun == {NextKey(p) : p \in {p \in streams : active[p] = NoKey /\ p \notin failed} \ broken}
             over  == {active[p] : p \in gone}
  <2>4. reply = {} /\ UNCHANGED <<tracks, files, flying, untold>>
    BY <2>3 DEF Poll, node, SpanInv, ReplyInv
  <2>5. reply' = Told(begun, "start", now') \cup Told(over, "end", now')
    BY <2>3 DEF Poll
  <2>6. recorder' = [k \in Keys |-> IF k \in begun THEN "recording" ELSE Stopped(over)[k]]
    BY <2>3 DEF Poll
  <2>7. \A p \in gone : active[p] \in Keys /\ recorder[active[p]] # "none"
    BY DEF SpanInv, AttachInv, TypeOK
  <2>8. \A k \in over : recorder[k] # "none"
    BY <2>7
  <2> HIDE DEF begun, over
  <2>9. \A k \in begun : [type |-> "start", key |-> k, t |-> now'] \in reply'
    BY <2>5 DEF Told
  <2>10. \A k \in begun : Known(k)'
    BY <2>9 DEF Known, Happened
  <2>11. \A k \in Keys : Known(k) => Known(k)'
    BY <2>4 DEF Known, Listed, Untold, Happened
  <2>12. \A k \in Keys : recorder'[k] # "none" => recorder[k] # "none" \/ Known(k)'
    BY <2>6, <2>8, <2>10 DEF Stopped
  <2> QED
    BY <2>4, <2>11, <2>12, KnownKept
<1>3. CASE PumpApplies \/ Finish
  <2>1. files' = FilesApplied(reply) /\ UNCHANGED <<recorder, flying, untold>>
    BY <1>3 DEF PumpApplies, Finish, media
  <2>2. \A k \in Keys : Listed(k) \/ Begins(reply, k) => Listed(k)'
    <3>1. CASE PumpApplies
      BY <3>1, AppliedKnown DEF PumpApplies, Listed
    <3>2. CASE Finish
      <4>1. \A k \in Keys : tracks'[k] = Clamped(Applied(reply)[k])
        BY <3>2 DEF Finish
      <4>2. \A k \in Keys : Applied(reply)[k] \in Entries
        BY AppliedType DEF TypeOK
      <4>3. \A t \in Entries : t.state # "none" => Clamped(t).state # "none"
        BY DEF Clamped, Entries
      <4> QED
        BY <4>1, <4>2, <4>3, AppliedKnown DEF Listed
    <3> QED
      BY <1>3, <3>1, <3>2
  <2>3. \A k \in Keys : Known(k) => Known(k)'
    BY <2>1, <2>2, AppliedKnown DEF Known, Untold
  <2>4. \A k \in Keys : files'[k] # 0 => files[k] # 0 \/ Known(k)'
    BY <2>1, <2>2 DEF FilesApplied, Known
  <2> QED
    BY <2>1, <2>3, <2>4, KnownKept
<1>4. CASE PumpFails \/ Reload
  <2>1. UNCHANGED <<tracks, files>>
    BY <1>4 DEF PumpFails, Reload, node
  <2>2. \A k \in Keys : recorder'[k] # "none" => recorder[k] # "none"
    BY <1>4 DEF PumpFails, Reload, media, Running
  <2>3. \A k \in Keys : flying'[k] # 0 => flying[k] # 0
    BY <1>4 DEF PumpFails, Reload, media
  <2>4. untold \subseteq untold'
        /\ (reply' = reply \/ untold' = untold \cup {<<e.key, e.type>> : e \in reply})
    BY <1>4 DEF PumpFails, Reload
  <2>5. ASSUME NEW k \in Keys, Known(k) PROVE Known(k)'
    <3>1. CASE Happened(reply, "start", k) /\ untold' = untold \cup {<<e.key, e.type>> : e \in reply}
      BY <3>1 DEF Known, Happened, Untold
    <3>2. CASE ~Happened(reply, "start", k) \/ reply' = reply
      BY <2>1, <2>4, <2>5, <3>2 DEF Known, Happened, Untold, Listed
    <3> QED
      BY <2>4, <3>1, <3>2
  <2> QED
    BY <2>1, <2>2, <2>3, <2>5, KnownKept
<1>5. CASE LeaveLoop \/ Abandon \/ RecordersStop \/ ChunksSettle
  BY <1>5 DEF LeaveLoop, Abandon, RecordersStop, ChunksSettle, media, node,
              KnownInv, Known, Listed, Untold, Happened
<1>6. CASE StopPass
  <2>1. UNCHANGED <<tracks, files, flying, untold>> /\ reply = {}
    BY <1>6 DEF StopPass, node, SpanInv, ReplyInv
  <2>2. \A k \in Attached : recorder[k] # "none"
    BY DEF Attached, SpanInv, AttachInv
  <2>3. \A k \in Keys : recorder'[k] # "none" => recorder[k] # "none"
    BY <1>6, <2>2 DEF StopPass, Stopped
  <2>4. \A k \in Keys : Known(k) => Known(k)'
    BY <2>1 DEF Known, Listed, Untold, Happened
  <2> QED
    BY <2>1, <2>3, <2>4, KnownKept
<1>7. CASE \E n \in Keys : Chunk(n) \/ LastChunk(n) \/ ChunkArrives(n)
  <2>1. PICK n \in Keys : Chunk(n) \/ LastChunk(n) \/ ChunkArrives(n)
    BY <1>7
  <2>2. UNCHANGED <<tracks, untold, reply>>
    BY <2>1 DEF Chunk, LastChunk, ChunkArrives, node
  <2>3. \A k \in Keys : Known(k) => Known(k)'
    BY <2>2 DEF Known, Listed, Untold, Happened
  <2>4. \A k \in Keys : recorder'[k] # "none" => recorder[k] # "none"
    BY <2>1 DEF Chunk, LastChunk, ChunkArrives, TypeOK
  <2>5. \A k \in Keys : flying'[k] # 0 => flying[k] # 0 \/ recorder[k] # "none"
    BY <2>1 DEF Chunk, LastChunk, ChunkArrives, TypeOK
  <2>6. \A k \in Keys : files'[k] # 0 => files[k] # 0 \/ flying[k] # 0
    BY <2>1 DEF Chunk, LastChunk, ChunkArrives, TypeOK, node
  <2> QED
    BY <2>3, <2>4, <2>5, <2>6, KnownKept
<1> QED
  BY <1>1, <1>2, <1>3, <1>4, <1>5, <1>6, <1>7 DEF Next, Pump, Stop

\* Audio that is on disk is in the manifest, unless the report of its beginning
\* was lost.
THEOREM AudioIsListed == Spec => []AudioListed
<1>1. Init => SpanInv /\ SpansTrue /\ KnownInv
  BY SpanInit DEF Init, KnownInv
<1>2. TypeOK /\ InTime /\ SpanInv /\ SpansTrue /\ KnownInv /\ [Next]_vars
      => (SpanInv /\ SpansTrue /\ KnownInv)'
  BY SpanStep, KnownStep
<1>3. SpanInv /\ KnownInv => AudioListed
  BY DEF SpanInv, ReplyInv, KnownInv, Known, Happened, AudioListed
<1> QED
  BY <1>1, <1>2, <1>3, TypeCorrect, PTL DEF Spec
=============================================================================
