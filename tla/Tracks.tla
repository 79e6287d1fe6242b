------------------------------- MODULE Tracks -------------------------------
(***************************************************************************)
(* recorder/record.js, --tracks-dir: one audio file per participant.  In   *)
(* the page, pollTracks attaches a MediaRecorder to everybody who has an   *)
(* audio stream and hands back what began and ended since; its chunks go   *)
(* to node by themselves.  In node, pump folds those events into the       *)
(* manifest and finish stops every recorder and closes it.                 *)
(*                                                                         *)
(* Whom the page shows is external and may be anything at every poll: ids  *)
(* come, go and come back, and a reload wipes pollTracks' state while the  *)
(* ids survive.  Names and the dominant speaker are left out, and so is a  *)
(* stream that replaces another, which goes on in the same recorder.       *)
(***************************************************************************)
EXTENDS Integers, FiniteSets

CONSTANTS
    Participants,  \* participant ids
    NoKey,         \* nothing is attached to a participant
    Never,         \* no time: the recorder still runs
    MaxAttach,     \* bound: recorders attached to one participant
    MaxTotal,      \* bound: recorders attached at all
    MaxTime,       \* bound: the clock, which a poll and the flush each advance by one
    MaxReloads,    \* bound: reloads of the page
    MaxLost        \* bound: answers of the page that get lost

\* One attach: the participant, and which one of his it is.
Keys == Participants \X (1 .. MaxAttach)

ASSUME ParticipantsAssumption == IsFiniteSet(Participants) /\ NoKey \notin Keys
ASSUME BoundsAssumption ==
    MaxAttach \in Nat /\ MaxTotal \in Nat /\ MaxTime \in Nat \ {0} /\ MaxReloads \in Nat /\ MaxLost \in Nat
ASSUME NeverAssumption == Never \notin Nat

VARIABLES
    pc,        \* where main is with its pumps
    now,       \* the clock, in polls
    cap,       \* durationS, frozen when the record loop is left
    active,    \* window.__jc.active: the attach of every participant
    failed,    \* window.__jc.failed: whom no recorder could be attached to
    issued,    \* attaches so far, per participant: keys are never used again
    recorder,  \* the MediaRecorder of every attach
    flying,    \* its chunks on their way to node: __jc.pending
    reply,     \* the events on their way to node
    waiting,   \* the recorders the stop handshake waits for
    awaited,   \* the chunks it waits for, once they have stopped
    tracks,    \* the manifest
    files,     \* which file of its participant an attach writes: 0 for none yet
    reloads,   \* reloads of the page still to come
    losses,    \* lost answers still to come
    span,      \* history: when the recorder of every attach began and ended
    untold,    \* history: <<key, event>> that never reached node
    gaveUp     \* history: the handshake ran into one of its ceilings

page == <<active, failed, issued>>
media == <<recorder, flying, span>>
handshake == <<waiting, awaited, gaveUp>>
node == <<tracks, files>>
bounds == <<reloads, losses>>
vars == <<pc, now, cap, page, media, reply, handshake, node, bounds, untold>>

Times == 0 .. MaxTime
Entries == [state : {"none", "open", "closed"}, offset : Times, ended : Times]
Events == [type : {"start", "end"}, key : Keys, t : Times]

TypeOK ==
    /\ pc \in {"idle", "reply", "flush", "stopping", "settling", "answer", "done", "truncated"}
    /\ now \in Times /\ cap \in Times
    /\ active \in [Participants -> Keys \cup {NoKey}]
    /\ failed \subseteq Participants
    /\ issued \in [Participants -> 0 .. MaxAttach]
    /\ recorder \in [Keys -> {"none", "recording", "stopping", "stopped", "dead"}]
    /\ flying \in [Keys -> Nat] /\ awaited \in [Keys -> Nat]
    /\ reply \subseteq Events
    /\ waiting \subseteq Keys
    /\ tracks \in [Keys -> Entries]
    /\ files \in [Keys -> Nat]
    /\ reloads \in 0 .. MaxReloads /\ losses \in 0 .. MaxLost
    /\ span \in [Keys -> [from : Times, to : Times \cup {Never}]]
    /\ untold \subseteq Keys \X {"start", "end"}
    /\ gaveUp \in BOOLEAN

Init ==
    /\ pc = "idle"
    /\ now = 0 /\ cap = 0
    /\ active = [p \in Participants |-> NoKey]
    /\ failed = {}
    /\ issued = [p \in Participants |-> 0]
    /\ recorder = [k \in Keys |-> "none"]
    /\ flying = [k \in Keys |-> 0] /\ awaited = [k \in Keys |-> 0]
    /\ reply = {} /\ waiting = {}
    /\ tracks = [k \in Keys |-> [state |-> "none", offset |-> 0, ended |-> 0]]
    /\ files = [k \in Keys |-> 0]
    /\ reloads = MaxReloads /\ losses = MaxLost
    /\ span = [k \in Keys |-> [from |-> 0, to |-> Never]]
    /\ untold = {} /\ gaveUp = FALSE

Listed(k) == tracks[k].state # "none"
Told(K, type, t) == {[type |-> type, key |-> k, t |-> t] : k \in K}

-----------------------------------------------------------------------------
(***************************************************************************)
(* The page: pollTracks while the call is recorded.                        *)
(***************************************************************************)

Attached == {active[p] : p \in Participants} \ {NoKey}
NextKey(p) == <<p, issued[p] + 1>>

\* end: the recorders of K stop; their last chunk is still to come.
Stopped(K) == [k \in Keys |-> IF k \in K THEN "stopping" ELSE recorder[k]]

\* One poll, when the page shows no trace of `gone`, who had a recorder, and a
\* stream of `streams`, and attaching fails for `broken`.  Nobody ends and begins
\* in one poll, so the order of its events does not matter.
Poll(gone, streams, broken) ==
    LET tried == {p \in streams : active[p] = NoKey /\ p \notin failed}
        fresh == tried \ broken
        begun == {NextKey(p) : p \in fresh}
        over  == {active[p] : p \in gone}
    IN  /\ pc = "idle" /\ now < MaxTime - 1
        /\ now' = now + 1
        /\ broken \subseteq tried
        /\ \A p \in fresh : issued[p] < MaxAttach
        /\ Cardinality({k \in Keys : recorder[k] # "none"} \cup begun) <= MaxTotal
        /\ active' = [p \in Participants |-> IF p \in fresh THEN NextKey(p)
                                             ELSE IF p \in gone THEN NoKey ELSE active[p]]
        /\ failed' = failed \cup broken
        /\ issued' = [p \in Participants |-> IF p \in fresh THEN issued[p] + 1 ELSE issued[p]]
        /\ recorder' = [k \in Keys |-> IF k \in begun THEN "recording" ELSE Stopped(over)[k]]
        /\ span' = [k \in Keys |-> IF k \in begun THEN [from |-> now', to |-> Never]
                                   ELSE IF k \in over THEN [span[k] EXCEPT !.to = now'] ELSE span[k]]
        /\ reply' = Told(begun, "start", now') \cup Told(over, "end", now')
        /\ pc' = "reply"
        /\ UNCHANGED <<cap, flying, handshake, node, bounds, untold>>

\* A chunk of a second; of all but the last, one on its way that is the first is
\* enough (bound).
Chunk(k) ==
    /\ pc \notin {"done", "truncated"}
    /\ recorder[k] = "recording"
    /\ flying[k] = 0 /\ files[k] = 0
    /\ flying' = [flying EXCEPT ![k] = 1]
    /\ UNCHANGED <<pc, now, cap, page, recorder, span, reply, handshake, node, bounds, untold>>

\* The last chunk, if there is data for one, and then onstop.
LastChunk(k) ==
    /\ pc \notin {"done", "truncated"}
    /\ recorder[k] = "stopping"
    /\ recorder' = [recorder EXCEPT ![k] = "stopped"]
    /\ flying' \in {flying, [flying EXCEPT ![k] = @ + 1]}
    /\ UNCHANGED <<pc, now, cap, page, span, reply, handshake, node, bounds, untold>>

-----------------------------------------------------------------------------
(***************************************************************************)
(* Node: files and manifest.                                               *)
(***************************************************************************)

Allocated(p) == {k \in Keys : k[1] = p /\ files[k] # 0}

\* Mutant of FileAfter: counts the attaches in the manifest.
FileOfListed(k) == IF files[k] # 0 THEN files[k]
                   ELSE Cardinality({l \in Keys : l[1] = k[1] /\ Listed(l)}) + 1

\* trackPath: the file of an attach, allocated once, the n-th of its participant.
FileAfter(k) == IF files[k] # 0 THEN files[k] ELSE Cardinality(Allocated(k[1])) + 1

\* __trackChunk: whether the append works or not, the file is allocated and the
\* chunk acknowledged.
ChunkArrives(k) ==
    /\ pc \notin {"done", "truncated"}
    /\ flying[k] > 0
    /\ flying' = [flying EXCEPT ![k] = @ - 1]
    /\ awaited' = [awaited EXCEPT ![k] = IF @ > 0 THEN @ - 1 ELSE 0]
    /\ files' = [files EXCEPT ![k] = FileAfter(k)]
    /\ UNCHANGED <<pc, now, cap, page, recorder, span, reply, waiting, gaveUp, tracks, bounds, untold>>

Happened(events, type, k) == \E e \in events : e.type = type /\ e.key = k
Starts(events, p) == {e \in events : e.type = "start" /\ e.key[1] = p /\ ~Listed(e.key)}

\* Mutant of Superseded: an attach never ends the one before it.
SupersededNever(events, k) == FALSE

\* A reload takes a recorder down without a word: the next attach closes it.
Superseded(events, k) == tracks[k].state = "open" /\ Starts(events, k[1]) # {}

\* Mutant of Begins: whoever is open already is not listed again.
BeginsIfNoneOpen(events, k) ==
    Happened(events, "start", k) /\ \A l \in Keys : l[1] = k[1] => tracks[l].state # "open"

Begins(events, k) == Happened(events, "start", k) /\ ~Listed(k)

\* applyTrackEvents: the manifest after the events of one answer.
Applied(events) ==
    [k \in Keys |->
        IF Begins(events, k)
        THEN LET e == CHOOSE e \in events : e.type = "start" /\ e.key = k
             IN  [state |-> "open", offset |-> e.t, ended |-> e.t]
        ELSE IF Superseded(events, k)
        THEN LET e == CHOOSE e \in Starts(events, k[1]) : TRUE
             IN  [tracks[k] EXCEPT !.state = "closed", !.ended = e.t]
        ELSE IF Listed(k) /\ Happened(events, "end", k)
        THEN LET e == CHOOSE e \in events : e.type = "end" /\ e.key = k
             IN  [tracks[k] EXCEPT !.state = "closed", !.ended = e.t]
        ELSE tracks[k]]

\* A manifest entry is given its file at once, chunks or not.
FilesApplied(events) ==
    [k \in Keys |-> IF Begins(events, k) THEN FileAfter(k) ELSE files[k]]

\* pump(false) has its answer.
PumpApplies ==
    /\ pc = "reply"
    /\ tracks' = Applied(reply)
    /\ files' = FilesApplied(reply)
    /\ reply' = {}
    /\ pc' = "idle"
    /\ UNCHANGED <<now, cap, page, media, handshake, bounds, untold>>

\* evaluate fails although the page has run the poll: its events are gone.
PumpFails ==
    /\ pc = "reply"
    /\ losses > 0
    /\ losses' = losses - 1
    /\ untold' = untold \cup {<<e.key, e.type>> : e \in reply}
    /\ reply' = {}
    /\ pc' = "idle"
    /\ UNCHANGED <<now, cap, page, media, handshake, node, reloads>>

-----------------------------------------------------------------------------
(***************************************************************************)
(* The end: main freezes the duration, flushes the mixed file, and finish  *)
(* runs the stop pass.  Its handshake has two stages, each with a ceiling. *)
(***************************************************************************)
LeaveLoop ==
    /\ pc = "idle"
    /\ cap' = now
    /\ pc' = "flush"
    /\ UNCHANGED <<now, page, media, reply, handshake, node, bounds, untold>>

\* The mixed recording is truncated: exit code 5, the tracks are given up.
Abandon ==
    /\ pc = "flush"
    /\ pc' = "truncated"
    /\ UNCHANGED <<now, cap, page, media, reply, handshake, node, bounds, untold>>

\* The stop pass ends every attached recorder and waits for their onstop.
StopPass ==
    /\ pc = "flush"
    /\ now' = now + 1
    /\ waiting' = Attached
    /\ recorder' = Stopped(Attached)
    /\ span' = [k \in Keys |-> IF k \in Attached THEN [span[k] EXCEPT !.to = now'] ELSE span[k]]
    /\ reply' = Told(Attached, "end", now')
    /\ active' = [p \in Participants |-> NoKey]
    /\ pc' = "stopping"
    /\ UNCHANGED <<cap, failed, issued, flying, awaited, gaveUp, node, bounds, untold>>

\* Mutant of Ceiling: the handshake waits for as long as it takes.
NoCeiling == FALSE

\* SETTLE_MS ends a stage that does not end by itself.
Ceiling == TRUE

\* Mutant of AllStopped: stop() is taken for onstop.
AllAsked == TRUE

AllStopped == \A k \in waiting : recorder[k] = "stopped"

\* onstop of every recorder: what is still pending now is waited for next.
RecordersStop ==
    /\ pc = "stopping"
    /\ AllStopped \/ Ceiling
    /\ gaveUp' = (gaveUp \/ ~AllStopped)
    /\ awaited' = flying
    /\ pc' = "settling"
    /\ UNCHANGED <<now, cap, page, media, reply, waiting, node, bounds, untold>>

AllSettled == \A k \in Keys : awaited[k] = 0

ChunksSettle ==
    /\ pc = "settling"
    /\ AllSettled \/ Ceiling
    /\ gaveUp' = (gaveUp \/ ~AllSettled)
    /\ pc' = "answer"
    /\ UNCHANGED <<now, cap, page, media, reply, waiting, awaited, node, bounds, untold>>

\* finish: nothing ends after the mixed file, and what is still open ends with it.
Clamped(t) ==
    IF t.state = "none" THEN t
    ELSE [t EXCEPT !.ended = IF t.state = "open" \/ @ > cap THEN cap ELSE @, !.state = "closed"]

\* The answer of the stop pass is applied and the manifest written.
Finish ==
    /\ pc = "answer"
    /\ LET final == Applied(reply) IN tracks' = [k \in Keys |-> Clamped(final[k])]
    /\ files' = FilesApplied(reply)
    /\ reply' = {}
    /\ pc' = "done"
    /\ UNCHANGED <<now, cap, page, media, handshake, bounds, untold>>

-----------------------------------------------------------------------------
(***************************************************************************)
(* The page by itself.                                                     *)
(***************************************************************************)
Running == {k \in Keys : recorder[k] \in {"recording", "stopping"}}

\* Jitsi reloads the page, or it crashes: its state, its recorders and the chunks
\* under way are gone, and an answer it still owes node is a failed evaluate.
Reload ==
    /\ pc \notin {"done", "truncated"}
    /\ reloads > 0
    /\ reloads' = reloads - 1
    /\ active' = [p \in Participants |-> NoKey]
    /\ failed' = {}
    /\ recorder' = [k \in Keys |-> IF k \in Running THEN "dead" ELSE recorder[k]]
    /\ span' = [k \in Keys |-> IF k \in Running /\ span[k].to = Never
                               THEN [span[k] EXCEPT !.to = now] ELSE span[k]]
    /\ flying' = [k \in Keys |-> 0]
    /\ IF pc \in {"stopping", "settling"}
       THEN /\ untold' = untold \cup {<<e.key, e.type>> : e \in reply}
            /\ reply' = {}
            /\ gaveUp' = TRUE
            /\ pc' = "answer"
       ELSE /\ untold' = untold \cup {<<k, "end">> : k \in {l \in Running : span[l].to = Never}}
            /\ UNCHANGED <<reply, gaveUp, pc>>
    /\ UNCHANGED <<now, cap, issued, waiting, awaited, node, losses>>

Stop == LeaveLoop \/ Abandon \/ StopPass \/ RecordersStop \/ ChunksSettle \/ Finish

Pump ==
    \/ \E gone \in SUBSET {p \in Participants : active[p] # NoKey} :
       \E streams \in SUBSET (Participants \ gone) :
          \E broken \in SUBSET streams : Poll(gone, streams, broken)
    \/ PumpApplies \/ PumpFails

Next ==
    \/ Pump \/ Stop \/ Reload
    \/ \E k \in Keys : Chunk(k) \/ LastChunk(k) \/ ChunkArrives(k)

Spec == Init /\ [][Next]_vars

\* The page bounds its own handshake, and an answer or its failure reaches node.
FairSpec == Spec /\ WF_vars(RecordersStop) /\ WF_vars(ChunksSettle) /\ WF_vars(Finish)

-----------------------------------------------------------------------------
Untold(k, type) == <<k, type>> \in untold

\* The end of k as the recording has it: not after the mixed file's.
RealEnd(k) == IF span[k].to = Never \/ span[k].to > cap THEN cap ELSE span[k].to

\* Where k is taken to end when its end was lost: with the next listed attach of
\* the same participant, or with the recording.
GuessedEnd(k) ==
    LET later == {l \in Keys : l[1] = k[1] /\ l[2] > k[2] /\ Listed(l)}
    IN  IF later = {} THEN cap
        ELSE tracks[CHOOSE l \in later : \A m \in later : l[2] <= m[2]].offset

\* recorder/README.md:157-160, record.js:417-428, 549-556: every listed track
\* begins when its recorder did and ends when its recorder or the recording did,
\* or, when nobody could say so, at the next track of that participant or the end.
SpansTrue ==
    pc = "done" => \A k \in Keys : Listed(k) =>
        /\ tracks[k].offset = span[k].from
        /\ tracks[k].ended = IF Untold(k, "end") THEN GuessedEnd(k) ELSE RealEnd(k)

\* record.js:386-391, 508-519: two attaches never append to one file, also when
\* chunks of one reach node before, or without, the event that lists it.
FilesApart ==
    \A k, l \in Keys : k[1] = l[1] /\ files[k] = files[l] /\ files[k] # 0 => k = l

\* Audio that is on disk is in the manifest, unless the page's report of its
\* beginning was lost.
AudioListed ==
    pc = "done" => \A k \in Keys : files[k] # 0 => Listed(k) \/ Untold(k, "start")

\* recorder/README.md:136-140, record.js:222-225: when the stop pass answers
\* within its ceilings, the recorders it stopped have no audio left to write.
StopComplete ==
    pc = "done" /\ ~gaveUp => \A k \in waiting : recorder[k] = "stopped" /\ flying[k] = 0

\* recorder/README.md:140: a stuck recorder or chunk does not hold up the exit.
StopReturns == pc = "stopping" ~> pc = "done"
=============================================================================
