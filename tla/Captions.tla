------------------------------ MODULE Captions ------------------------------
(***************************************************************************)
(* recorder/meet.js, --captions-out: who said what when, read off Meet's   *)
(* live captions.  Once a second readCaptions lists the blocks on screen   *)
(* and foldCaptions takes out of them the utterances that are final; each  *)
(* becomes one line of the hints file.  A line that cannot be written is   *)
(* logged and lost: left out.                                              *)
(*                                                                         *)
(* Meet's part is external.  A turn is spoken into an element; Meet        *)
(* rewrites its text, drops the oldest element, clears one to end its turn *)
(* and may reuse the last one once it is cleared, or start the next turn   *)
(* in it at once when the text got long.  What the comments of meet.js     *)
(* take for granted is assumed here, and only this: a turn's text never    *)
(* shrinks to under half unless it is a new turn; a turn that got long was *)
(* read so before the next one takes its element, and that one is read     *)
(* while it is still short; a cleared element is read before it is reused. *)
(***************************************************************************)
EXTENDS Integers, Sequences, FiniteSets, FiniteSetsExt, SequencesExt

CONSTANTS
    Long,       \* the length at which Meet starts a turn afresh; lengths are 1..Long,
                \* and the 1 a turn starts with is under half of it
    Settle,     \* CAPTION_SETTLE_MS, in polls
    MaxPolls,   \* bound: polls before the run ends
    MaxFailed,  \* bound: polls that cannot read the page
    MaxIds,     \* bound: elements
    MaxTurns    \* bound: turns

ASSUME BoundsAssumption ==
    /\ Long \in Nat /\ Long > 2 /\ Settle \in Nat
    /\ MaxPolls \in Nat /\ MaxFailed \in Nat /\ MaxIds \in Nat /\ MaxTurns \in Nat

Ids == 1 .. MaxIds
Turns == 1 .. MaxTurns
Times == 0 .. MaxPolls

\* A text is the turn it is of and how long it has grown; two texts are equal when
\* both are.  The speaker is the turn's.
Texts == [turn : Turns, len : 1 .. Long]
Empty == [turn |-> 0, len |-> 0]
Blocks == [id : Ids, text : Texts \cup {Empty}]
Utterances == [id : Ids, text : Texts, first : Times, changed : Times]

VARIABLES
    dom,       \* the caption blocks on screen, oldest first
    ids,       \* elements so far
    turns,     \* turns so far
    unread,    \* elements that were cleared or given a new turn since the last read
    now,       \* the clock, in polls
    running,   \* the record loop runs
    failures,  \* failed reads still to come
    open,      \* st.open: utterances that may still change, in insertion order
    done,      \* st.done: elements whose text is final
    prev,      \* cap.prev: the offset of the last hint
    hints,     \* the hints file
    seen       \* history: when every turn was first read, and how long its text was at last

meet == <<dom, ids, turns, unread>>
fold == <<open, done, prev, hints>>
vars == <<meet, now, running, failures, fold, seen>>

TypeOK ==
    /\ dom \in Seq(Blocks)
    /\ ids \in 0 .. MaxIds /\ turns \in 0 .. MaxTurns
    /\ unread \subseteq Ids
    /\ now \in Times /\ running \in BOOLEAN /\ failures \in 0 .. MaxFailed
    /\ open \in Seq(Utterances)
    /\ done \subseteq Ids
    /\ prev \in Times
    /\ hints \in Seq([text : Texts, offset : Times])
    /\ seen \in [Turns -> [at : Times, len : 0 .. Long]]

Init ==
    /\ dom = <<>> /\ ids = 0 /\ turns = 0 /\ unread = {}
    /\ now = 0 /\ running = TRUE /\ failures = MaxFailed
    /\ open = <<>> /\ done = {} /\ prev = 0 /\ hints = <<>>
    /\ seen = [t \in Turns |-> [at |-> 0, len |-> 0]]

-----------------------------------------------------------------------------
(***************************************************************************)
(* Meet.                                                                   *)
(***************************************************************************)
NextTurn == [turn |-> turns + 1, len |-> 1]
ReadSince(b) == b.id \notin unread

NewBlock ==
    /\ ids < MaxIds /\ turns < MaxTurns
    /\ dom' = Append(dom, [id |-> ids + 1, text |-> NextTurn])
    /\ ids' = ids + 1 /\ turns' = turns + 1
    /\ UNCHANGED unread

\* A speaker goes on, or Meet corrects what it heard.
Rewrite(i) ==
    /\ dom[i].text # Empty /\ ReadSince(dom[i])
    /\ \E n \in 1 .. Long \ {dom[i].text.len} :
          /\ n > dom[i].text.len \/ 2 * n >= Long
          /\ dom' = [dom EXCEPT ![i].text.len = n]
    /\ UNCHANGED <<ids, turns, unread>>

Clear(i) ==
    /\ dom[i].text # Empty /\ ReadSince(dom[i])
    /\ dom' = [dom EXCEPT ![i].text = Empty]
    /\ unread' = unread \cup {dom[i].id}
    /\ UNCHANGED <<ids, turns>>

\* The next turn goes into the last element: it was cleared, or its text is long.
Reuse(i) ==
    /\ i = Len(dom) /\ turns < MaxTurns
    /\ dom[i].text = Empty \/ (dom[i].text.len = Long /\ seen[dom[i].text.turn].len = Long)
    /\ ReadSince(dom[i])
    /\ dom' = [dom EXCEPT ![i].text = NextTurn]
    /\ turns' = turns + 1
    /\ unread' = IF dom[i].text = Empty THEN unread ELSE unread \cup {dom[i].id}
    /\ UNCHANGED ids

DropOldest(i) ==
    /\ i = 1
    /\ dom' = Tail(dom)
    /\ UNCHANGED <<ids, turns, unread>>

Meet ==
    /\ running
    /\ NewBlock \/ \E i \in 1 .. Len(dom) : Rewrite(i) \/ Clear(i) \/ Reuse(i) \/ DropOldest(i)
    /\ UNCHANGED <<now, running, failures, fold, seen>>

-----------------------------------------------------------------------------
(***************************************************************************)
(* foldCaptions(st, blocks, now, flush).                                   *)
(***************************************************************************)
\* What stands at the positions I of seq, in order.
Nth(I, n) == CHOOSE i \in I : Cardinality({j \in I : j <= i}) = n
Among(seq, I) == [n \in 1 .. Cardinality(I) |-> seq[Nth(I, n)]]

Opened(id) == \E i \in 1 .. Len(open) : open[i].id = id
Utterance(id) == open[CHOOSE i \in 1 .. Len(open) : open[i].id = id]
IdsOf(seq) == {seq[i].id : i \in 1 .. Len(seq)}

\* Mutant of Cleared: a block without a text is read like any other.
ClearedNever(blocks) == {}

Cleared(blocks) == {b.id : b \in {c \in ToSet(blocks) : c.text = Empty}}

TextOf(blocks, id) == (CHOOSE b \in ToSet(blocks) : b.id = id).text

\* Meet starts a long turn afresh in the same element.
Halved(old, new) == new # old /\ new.len * 2 < old.len

\* What the blocks by themselves end: a turn that was cleared or started afresh.
CutShort(blocks) ==
    LET over(b) == Opened(b.id) /\ (b.text = Empty \/ Halved(Utterance(b.id).text, b.text))
        ended   == Among(blocks, {i \in 1 .. Len(blocks) : over(blocks[i])})
    IN  [i \in 1 .. Len(ended) |-> Utterance(ended[i].id)]

Updated(u, blocks) ==
    IF u.id \notin IdsOf(blocks) \/ TextOf(blocks, u.id) = u.text THEN u
    ELSE LET text == TextOf(blocks, u.id)
         IN  [u EXCEPT !.text = text, !.changed = now',
                       !.first = IF Halved(u.text, text) THEN now' ELSE @]

\* Mutant of IsNew: a block that is final begins again.
IsNewAgain(b) == b.text # Empty /\ ~Opened(b.id)

IsNew(b) == b.text # Empty /\ ~Opened(b.id) /\ b.id \notin done

\* The open utterances once the blocks are taken in.
Kept(blocks) ==
    LET old   == Among(open, {i \in 1 .. Len(open) : open[i].id \notin Cleared(blocks)})
        fresh == Among(blocks, {i \in 1 .. Len(blocks) : IsNew(blocks[i])})
    IN  [i \in 1 .. Len(old) |-> Updated(old[i], blocks)]
        \o [i \in 1 .. Len(fresh) |-> [id |-> fresh[i].id, text |-> fresh[i].text,
                                       first |-> now', changed |-> now']]

\* The newest block with a text, or 0.
Newest(blocks) ==
    LET texts == {i \in 1 .. Len(blocks) : blocks[i].text # Empty}
    IN  IF texts = {} THEN 0 ELSE blocks[Max(texts)].id

IsFinal(u, blocks, flush) ==
    \/ flush
    \/ u.id \notin IdsOf(blocks)
    \/ u.id # Newest(blocks) /\ now' - u.changed >= Settle

\* A cleared element may carry another turn: it is no longer done.
DoneAfter(blocks, final) == (done \ Cleared(blocks)) \cup IdsOf(final)

\* Mutant of Offset: every hint has the time of its own utterance.
OwnOffset(out, i) == out[i].first

\* captionHint: never before the hint in front of it.
Offset(out, i) == Max({prev} \cup {out[j].first : j \in 1 .. i})

\* kept is bound and not defined, so that TLC works it out once.
FoldCaptions(blocks, flush) == \E kept \in {Kept(blocks)} :
    LET final == {i \in 1 .. Len(kept) : IsFinal(kept[i], blocks, flush)}
        ended == Among(kept, final)
        out   == CutShort(blocks) \o ended
    IN  /\ open' = Among(kept, 1 .. Len(kept) \ final)
        /\ done' = DoneAfter(blocks, ended)
        /\ hints' = hints \o [i \in 1 .. Len(out) |-> [text |-> out[i].text, offset |-> Offset(out, i)]]
        /\ prev' = IF out = <<>> THEN prev ELSE Offset(out, Len(out))

-----------------------------------------------------------------------------
Said(t) == \E i \in 1 .. Len(hints) : hints[i].text.turn = t

\* History: a correction that comes after the turn was final counts for nothing.
SeenAfter(blocks) ==
    [t \in Turns |->
        LET shown == {i \in 1 .. Len(blocks) : blocks[i].text.turn = t /\ (i = Len(blocks) \/ ~Said(t))}
        IN  IF shown = {} THEN seen[t]
            ELSE [at |-> IF seen[t].len = 0 THEN now' ELSE seen[t].at,
                  len |-> blocks[CHOOSE i \in shown : TRUE].text.len]]

Read(flush) ==
    /\ FoldCaptions(dom, flush)
    /\ seen' = SeenAfter(dom)
    /\ unread' = {}
    /\ UNCHANGED <<dom, ids, turns, failures>>

\* Mutant of Skipped: a poll that cannot read the page reads an empty one.
SkippedNever == FoldCaptions(<<>>, FALSE)

\* A failed read is not "every block left".
Skipped == UNCHANGED fold

\* pollCaptions(false), every second of the record loop.
Poll ==
    /\ running /\ now < MaxPolls
    /\ now' = now + 1
    /\ Read(FALSE)
    /\ UNCHANGED running

PollFails ==
    /\ running /\ now < MaxPolls
    /\ failures > 0
    /\ failures' = failures - 1
    /\ now' = now + 1
    /\ Skipped
    /\ UNCHANGED <<meet, running, seen>>

\* pollCaptions(true): the run is over.
Flush ==
    /\ running
    /\ running' = FALSE
    /\ UNCHANGED now
    /\ Read(TRUE)

\* The page may be gone by then: what is open is all there will be.
FlushFails ==
    /\ running
    /\ running' = FALSE
    /\ UNCHANGED <<meet, now, failures, seen>>
    /\ FoldCaptions(<<>>, TRUE)

Next == Meet \/ Poll \/ PollFails \/ Flush \/ FlushFails

Spec == Init /\ [][Next]_vars

-----------------------------------------------------------------------------
\* meet.js:98-107, 641-642: everything a poll read is said in the end, once, and
\* with the last text read: not again when its block is still there, comes back
\* from a failed poll or is cleared late, and never while its speaker still talks.
AllSaidOnce ==
    ~running => \A t \in Turns : seen[t].len # 0 =>
        \E i \in 1 .. Len(hints) :
            /\ hints[i].text = [turn |-> t, len |-> seen[t].len]
            /\ \A j \in 1 .. Len(hints) : hints[j].text.turn = t => j = i

\* recorder/README.md:262, meet.js:145-150: offsets never decrease, and every one
\* is the time its turn was first read or, if that was later, a turn before it.
HintsInOrder ==
    \A i \in 1 .. Len(hints) :
        hints[i].offset = Max({seen[hints[j].text.turn].at : j \in 1 .. i})
=============================================================================
