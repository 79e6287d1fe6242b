# jitsi-capture in TLA+

jitsi-capture is a Go service that watches Zulip for call links, records a Jitsi
or Google Meet call on request through a headless browser (a node child process
per recording), and hands the finished audio to a webhook. This directory models
the parts of it whose correctness depends on order: who reads and writes a job
file when, which process is signalled how often, what survives a restart, when a
recorder may leave a call, and what the Zulip event loop does with queues that
expire under it.

## Inventory

| component | source | state | operations | talks to |
|---|---|---|---|---|
| Runner | `src/runner.go` | `r.running`, `rec.cmd/termed/done`, `r.stopping` under `r.mu`; one goroutine per recording | `Start`, `run`, `settle`, `announce`, `Stop`, `Resume`, `stampDelivered`, `sweepRetention` | job files (shared with itself across restarts), recorder processes (spawn, signal, exit), Zulip (reactions, notes), webhook (callback `onFinished`) |
| Indicator lock | `src/runner.go` `lockIndicator` | `r.indicators`, a refcount and a mutex per entry | lock, unlock | the goroutines of the runner |
| Job files | `src/job.go` | `DATA_DIR/jobs/<id>/job.json` | `save` (atomic rename), `loadJob`, `listJobs` | runner, sweep, `/notify` |
| Wiring | `src/main.go` | `detached`, the ticker, the contexts | `run`: sweep, listen, Resume, ticker, event loop, shutdown; `deliver`, `resendUnsent` | everything |
| Event loop | `src/bot.go` | queue id, last event id | `Run`, `handle`, `startReacted`, `startJob`, `startMeet` | Zulip's event queue (long poll), the runner (`Start`) |
| Zulip client | `src/zulip.go` | none | one HTTP call per operation | Zulip |
| Webhook sender | `src/webhook.go` | none; a delivery in flight | `sendWebhook`: attempts on a backoff table | the receiver |
| Notify server | `src/server.go` | none | `/health`, `/notify` | job files, Zulip |
| Configuration | `src/config.go` | none | read once | - |
| Jitsi recorder | `src/recorder/record.js` | stop reason (also the signal latch), `aloneSince`, capture stream, output file | join, record, poll, finalize, `onSignal` | the conference page, the runner (exit code, one JSON line) |
| Per-participant tracks | `src/recorder/record.js` `pollTracks`, `applyTrackEvents`, `setupTracks` | in the page: attached recorders, chunks under way, events not yet fetched; in node: the manifest and the files | attach, detach, chunk, pump, stop pass, finish | the page hands events back when polled and pushes chunks by itself |
| Meet recorder | `src/recorder/meet.js` | as above, plus PulseAudio and `parec` children and the time of the last knock | join (lobby, knock, re-knock), captions, record, finalize | Meet's page |
| Captions | `src/recorder/meet.js` `readCaptions`, `foldCaptions`, `captionHint` | open utterances, finished elements, the last offset | poll, flush | Meet's page, the hints file |
| Page probes | `readJitsiState`, `readState`, `readNames`, `prejoin`, `clickJoin` | none | classify what the page shows | the recorders |
| Deployment | `src/docker-compose.yml` | - | `restart: unless-stopped`, 120 s stop grace | the service |

What is hard here: the runner's goroutines interleave with clicks, a shutdown and
each other over one file per job; a delivery can take minutes, in which the same
directory is recorded again; the indicator is a remote state changed by calls
that cannot be made under the lock; a restart kills every recorder; the two
recorders are event loops in which a signal, a dying page or a dying capture can
come at every `await`; an event queue expires while the loop is not looking; what is
said and who said it comes from a page that reloads, rewrites its captions and
hands its events over only once.
`PROJECT.json` lists each hazard at its line with the properties that cover it.

What makes each component correct:

* Runner: one recorder per job directory; every recorder asked to finalize
  exactly once; nothing stale written over a newer recording; every recording
  ends, every finished job is delivered; the indicator says what the file says.
* Indicator lock: exclusive per message, entry kept exactly while used, no
  queued caller forgotten.
* Recorders: leave a call as empty only if it was; a result line means a
  complete file; one signal keeps the result, a second exits; they always end.
* Tracks: every listed track begins and ends when its recorder did, as far as anybody
  can tell; audio on disk is listed; no two recorders share a file; the exit waits for
  the last audio, but not for ever.
* Captions: everything read is said once, in the end, at a time that is true.
* Event loop: no event handled twice or out of order, none skipped while its
  queue lives, never triggered by the bot itself, reconnects, stops.

## Modules

| module | models | implements |
|---|---|---|
| `JobLife` | the promise of the job files: generations, settling once, stamping, expiry | - |
| `Runner` | runner.go, job.go and main.go's wiring | `JobLife` (`ImplementsJobLife`) |
| `MessageMutex` | the promise of `lockIndicator`: one mutex per message | - |
| `IndicatorLock` | `lockIndicator`, step by step, with heap objects | `MessageMutex` (`ImplementsMutex`) |
| `StopRule` | `shouldStop`, used by both recorders | - |
| `Recorder` | `main` of record.js | - |
| `Meet` | `main`, `enableCaptions` and `readState` of meet.js | - |
| `Tracks` | `pollTracks`, `applyTrackEvents`, `setupTracks` of record.js | - |
| `Captions` | `foldCaptions`, `captionHint` and the polls of meet.js | - |
| `Bot` | `Run` and `handle` of bot.go, over Zulip's event queue | - |
| `IndicatorLockProofs` | theorems about `IndicatorLock` | |
| `RunnerProofs` | type correctness and safety of `Runner`, its refinement of `JobLife`, Stop and `r.running` | |
| `RunnerOutcomeProofs` | theorems about notes, endings and the red circle | |
| `RecorderProofs`, `MeetProofs` | theorems about the recorders | |
| `BotProofs` | theorems about the event loop | |
| `TracksProofs` | theorems about `Tracks` | |
| `CaptionsProofs` | theorems about `Captions` | |
| `MC*` | the TLC entry points | |

### Runner

Every goroutine is a thread with a program counter `pc[t]` and its own `Job` copy
`job[t]`; the main goroutine is `phase`. A section under `r.mu` is one action
(`ClickAccept` is `admit`; `RegisterChild`, `Settle`'s save, `Cleanup`,
`StampDelivered`, `StopBegins`, `StopSignals` likewise), and whatever the code does
between two sections, a Zulip call, a webhook delivery, the child's life, is an
action of its own so that all other threads come in between. `StartedAt`, which the code
uses as the generation marker, is the generation number `gen`. `job.json` keeps
`state`, `gen`, `err` and `sent` (`webhook_sent_at`); a save replaces all of it or
fails and leaves it alone, as the rename in `job.go` does.

The indicator lock is taken as one mutex per job, which is what `IndicatorLock` is
proved to implement; a job is a message, as `bot.go` uses the message's id for
both. `missed` remembers that the latest update of a message failed at Zulip or
died with the process; the code never retries one, so `IndicatorTruthful` excepts
those messages.

The retention sweep removes a job "older than N days". Time is not modelled; a
settled job counts as old when no goroutine is busy with it (`Expired`), as a day
is far longer than everything a goroutine still has to do. The click of
another recording may come at any time, which is what makes the race of
`RunnerSweepRace`.

`ProcessEnds` is both the regular exit and a crash: goroutines, the map and the
recorders vanish (the container dies with the service), the files and Zulip's state
stay.

### IndicatorLock

The callers' `lockIndicator` in four places: looking up or creating the entry and
counting in (one section under `r.mu`), waiting for the entry's own mutex, holding
it, and, after unlocking, counting out. Entries are objects with an identity, and an
object may be allocated again once nothing refers to it.

### Recorder, Meet and StopRule

One action goes from one `await` to the next; `Signal` and the deaths of the page,
the capture, the file or a child come in between. A poll takes one unit of time;
the shorter awaits take none. `reason` is the stop reason and the signal latch, as
in the code. The exit code is decided in `Returns`, and the `finally` block is
one more step, in which a second signal still exits. The clock stops once all
deadlines are past (`Later`, `MaxTime`).

`members = 0` is a page that cannot be read, for Jitsi; Meet has `Unknown`
instead, which `meetShouldStop` counts as somebody. Meet's page (`MeetMoves`) is
external: loading, prejoin, lobby, unanswered, refused, call, over are its screens, with
those `main` treats alike merged. What `readState` makes of a screen is modelled:
`Views` are the texts, tiles and Leave buttons it may find, in the call also any phrase
somebody may have typed (or said, if the captions' text is not found in the page's and
cut), and `Rules` its rules in their order. `tiles` is whether a video tile is found. It
changes by itself (`TilesChange`): a call may show none, as `readState` and `readNames`
both allow for, and a lobby may show the bot's own. Without a tile the roster is
`Unknown`, and terminal phrases win over the Leave button (meet.js:179-180). The sign-in
page, known by its host, is part of `refused`, and no text of the call makes it.

### Tracks

A key is an attach, the n-th of its participant; `recorder`, `flying`, `active`, `failed`
and `issued` are the page's, `tracks` and `files` node's. `Poll` is one run of
`pollTracks` in the page, for any participants that left and any streams; its answer
is on its way (`pc = "reply"`) until `PumpApplies` folds it in or `PumpFails` loses
it, since the page has handed its events over by then. Chunks travel by themselves and
may arrive before the event that lists their track, or without one. `Reload` wipes the
page's part at any time. `LeaveLoop` to `Finish` is the end: the duration is frozen,
the mixed file flushed, `StopPass` stops all recorders, the page waits for their
`onstop` (`RecordersStop`) and then for the chunks still pending (`ChunksSettle`),
each under a ceiling, and `Finish` applies the answer and clamps the manifest. When
the mixed file failed, `Abandon` leaves the tracks as they are, as `main` does.

A poll and the flush take one unit of time each. Of the chunks before the last, the
one that allocates the file is enough. Names, the dominant speaker (`speakers.jsonl`),
logs and a stream that replaces another in a recorder that goes on are left out.

### Captions

A text is the turn it belongs to and a length, which is what `foldCaptions` looks at:
whether it is empty, has changed, or is under half as long as before. `Meet` is
external: elements appear, are rewritten, cleared, reused and dropped, oldest first.
What the comments of meet.js take for granted is an assumption of the actions
`Rewrite` and `Reuse`, and written at the head of the module; without it the code
merges two turns into one hint, which it cannot tell from a correction.
`FoldCaptions` is one call, with its order: what a block ends by itself
(`CutShort`) comes before what the poll ends. `seen` is a history variable: when each
turn was first read, and its text when it was last read before it was said. What a
loop of the code picks out of a list is a set of positions (`Among` lists what stands
there): the library's `SelectSeq` is recursive, so nothing could be proved about it.
That a turn starts at under half of `Long` is an assumption on the constant: without
it nothing tells a turn that starts afresh in its element from a correction, and
`AllSaidOnce` is false.

### Bot

`batch` is the answer of the last poll, `pending` what Zulip still holds. Zulip
numbers a queue's events from 0 and drops those at or below the `last_event_id`
of a poll. An answer, of a poll or of a registration, may be lost after it
had its effect. An event carries one kind, what `handle` will take it for; its text
and the regular expressions are not modelled.

## Runs

All runs finish in about two minutes at most; the bounds are named constants.
The type invariants of `IndicatorLock`, `Runner`, `Recorder`, `Meet` and `Tracks` are proved
(below) and in no run; that of `Captions` is checked, that of `Bot` both.

| run | question | bounds and why they are enough |
|---|---|---|
| `IndicatorLock` | exclusion, entry lifetime, refinement; a queued caller gets the lock | 3 goroutines, 2 messages, 3 objects: one leaves, one queues, one creates anew; more objects than callers can never be reachable |
| `RunnerRaces` | clicks, settlements, deliveries, shutdowns, crashes and restarts in every order | 1 job, 2 recordings, 1 duplicate click at a time, 2 lives, 1 delivery that fails or goes unanswered: jobs share nothing but `r.mu`, a stale copy needs one re-recording, a resumed job one restart |
| `RunnerSaveFaults` | a failing save of job.json, and a shutdown at any moment | 1 job, 2 recordings, 2 lives, one failing save, at any of the saves, and one delivery that fails or goes unanswered, so that a stamp comes late or twice; what Stop promises is proved for any number of jobs |
| `RunnerLive` | recordings end, finished jobs are delivered | 1 recording over 2 lives, retention on, one failing delivery, one failing Zulip call |
| `Recorder` | record.js | join timeout 2, grace 2, maximum 5 polls: people leave, come back and leave again before the maximum; 2 signals, up to 2 members |
| `Meet` | meet.js | join timeout 4 with a re-knock after 3: both the answered and the unanswered second knock; grace 2, maximum 4; tiles come and go as long as the page is read |
| `Tracks` | tracks and files over reloads and lost answers; the stop handshake | 2 participants, 2 attaches each, 3 in all: one leaves and comes back beside another; 3 polls and the flush, 1 reload, 1 lost answer |
| `Captions` | every turn said once and at its time | 3 turns in 2 elements, so that one is dropped, reused or restarted beside another; lengths to 3, settle time 2 of 5 polls, 1 of which cannot read the page, and a flush that may not either |
| `Bot` | the event loop | 3 posts, 2 queues, 2 failing calls: a queue that expires half read, with a lost answer on each side |

Properties that a failure would rightly break are checked where it does not occur:
after a failed save the note (`NotedIsSettled`), the indicator
(`IndicatorTruthful`) and the ending (`OneEnding`: the audio is delivered although
the file says recording, and Resume reports it interrupted) disagree with the
file; the retention race below breaks `OneRecorder` and `ImplementsJobLife`.

`CHECK_DEADLOCK FALSE` is set where the system really stops: a service that is not
restarted again, a recorder that has exited, an event loop that has returned. In
`IndicatorLock`, where nothing stops, a deadlock would be a queued caller that never
gets the lock, which `QueuedGetsLock` excludes.

### Where the code and its documentation disagree

Three runs check a statement of the documentation or of a comment and show
a behaviour of the code against it:

* `RecorderLateSignal`: the stop reason is the signal latch, so when the stop rule
  has fired, the *first* SIGTERM during finalization exits 0 without the JSON line.
  The runner then finds no output and settles the job as `recorder_failed`. meet.js
  has the same latch (`Meet!Signal`), and a longer way from the end of its loop to
  the result: the last captions are read and parec is stopped.
* `RecorderLateWriteError`: `failure` is computed before the flush; a write error
  during the flush is not reported, although exit code 5 is said to cover it.
* `RunnerSweepRace`: the retention sweep does not take `r.mu`, and can remove the
  directory of a job that was re-recorded after it read the file.

Four more statements do not hold without qualification, and no run claims them:

* Stop "returns once every accepted job has its final state on disk"
  (`src/runner.go:396`), but a failed final save also closes `rec.done`: `StopSettles`
  excepts those jobs (`Unsaved`).
* An interrupted job is "reported in Zulip" (`src/README.md:222`), but by a goroutine
  that Stop does not wait for, so a stop right after a restart loses the report for good.
* `parec` or PulseAudio exiting "is exit 5 (truncated)"
  (`src/recorder/README.md:270-271`), but nothing looks at them while captions are being
  enabled (`src/recorder/meet.js:654`), and a signal in that time skips the record loop
  and its check: the recording is reported as complete. `ResultIsComplete` speaks of
  captures that broke before the last check, and `checkedAt` is no time in that case.
* "A Meet markup change cannot cut a call short" (`src/recorder/README.md:268-270`), as
  without a tile the roster is unknown. But in a call that shows no tile a chat message
  like "the call has ended" ends the recording: the phrases are then looked at before
  the Leave button (`src/recorder/meet.js:200-207`), an order meant for a button that
  lingers after the call (`src/recorder/meet.js:179-180`). `TilesKeepTheCall` is what
  does hold: with a tile on screen no text ends the recording or refuses the bot.

## Fairness

* Runner: every goroutine goes on (weak), as its Zulip calls time out after 15 s
  and its delivery attempts are bounded by the backoff table. Indicator locks are
  strongly fair: Go's `sync.Mutex` hands over to a waiter after 1 ms of starvation. A
  recorder ends (`MAX_DURATION_S` at the latest: `Recorder!Terminates`,
  `Meet!Terminates`). The ticker fires. The container is restarted
  (`restart: unless-stopped`). Clicks, signals and crashes may never come.
  Deliveries may fail; only finitely often (`PostFaults`) for the liveness runs.
* IndicatorLock: a holder returns, a waiter is handed the lock.
* Recorder and Meet: every await returns: page calls have timeouts, the flush is
  raced against `FLUSH_MS`, children are killed after 3 s.
* Tracks: the two stages of the stop handshake end, as the page bounds them
  (`SETTLE_MS`), and its answer or a failed evaluate reaches node. Nothing else is
  fair: recorders may never stop and chunks never arrive.
* Captions: none, as no property of it is about what eventually happens.
* Bot: every call returns, as the HTTP client has a timeout.

## Proofs

`IndicatorLockProofs`, for any set of messages, goroutines (finite) and objects:

* `TypeCorrect`, `Exclusion`, `Lifetime`: `TypeOK`, `MutualExclusion` and
  `EntryLifetime` are invariants. Exclusion alone is not inductive: it holds since
  every caller inside was handed the object that the map holds *now*
  (`SameObject`), no object serves two messages (`OneMessagePerObject`), and the
  one that holds a lock is the one its object is locked by (`HolderLocked`).
  `SameObject` in turn survives a count-out only because the entry counts exactly the
  callers inside (`Counted`), which needs a few facts on cardinalities.
* `Refinement`: `ImplementsMutex`. The refinement mapping takes the wishes from the
  callers' program counters and the owner from who is `held`; creating, joining and
  counting out stutter, or request.

`RunnerProofs`, for any finite set of jobs, any bounds and any number of
failures, clicks, crashes and restarts. The assumptions are the
typing ones of `Runner`; "retention off" is a hypothesis of the theorems that need it.

* `TypeCorrect`: `TypeOK` is an invariant of `Runner`. The other theorems rest on it.
* `OneSignal`: `SignalledOnce`. It is not inductive, as nothing in it says that a
  recorder is not signalled before it is spawned, or spawned twice. `SignalInv` adds
  that a live recorder has a `run` attending to it (`spawned`, `wait`), that one with
  a signal is termed, that a `run` on its way to the spawn has none, and that a
  generation not handed out yet has neither goroutine nor signals.
* `OneRecorderAtATime`: `OneRecorder`, retention off. The only lock is the state in
  the job file, so the invariant (`FileInv`) is that a recording that has not settled
  has its job's file to itself: it says "recording", with its generation. This
  survives the repair at startup since no `run` is at work then (`PhaseInv`), and the
  ticker since it never gets to a removal (`SweepInv`). Failing saves do not
  matter: they leave a file "recording", which only locks others out. With retention
  the theorem is false: the sweep can remove the file of a recording that started
  after it was read (`RunnerSweepRace`), and the next click starts a second recorder.
* `StampedOnlyIfDelivered`: `StampedWasDelivered`, from `StampInv`: whoever is about
  to stamp holds a copy of a generation the receiver accepted, and the stamp is written
  only on a file of that generation.
* `JobLifeRefinement`: `ImplementsJobLife`, retention off, from `FileInv`,
  `SpawnedInv` (an attended recorder was spawned, so its end is one of the errors or
  "ok") and `PlainInv` (a file that says "recording" has no error and no stamp).

Stop, in the same module, with retention off, as the sweep may take a directory whose
recording Stop still waits for:

* `NoneIsMissed`: `NoneMissed`. `StopInv` says that `r.running` holds the recording of
  a job that has not settled, that a registered child was spawned, and, while Stop
  drains, that it is termed. A child that registers late finds `r.stopping` set, since
  both are read and written under `r.mu`.
* `StopsAreSettled`: `StopSettles`. `SettleInv` adds that a file that says
  "recording" has a `run` that has not settled, a save that failed, or a Resume still to
  come (`AttendedInv`), and that such a `run` is among those Stop took note of when
  it began (`SnapshotInv`).
* `RecordingsAreRegistered`: `RecordingRegistered`, where no save fails: then nothing but
  an unsettled `run` leaves a file "recording" (`NoFaultInv`).

`RunnerOutcomeProofs`, where no write of job.json fails:

* `NotesTellSettledJobs`, `EndingsAgree`: `NotedIsSettled` and `OneEnding`, with retention
  on or off. `Outcome(j, g, s)` gathers whoever holds that recording `g` came to `s`:
  the file, a goroutine's copy, the receiver, the sweep's listing, the room.
  `OutcomeInv` says that there is no outcome before the recording has settled and
  never two. Only `Settle` and Resume make one, both for a recording that has none
  (`CopyInv`: an unsettled `run` has its own recording in hand); every other step
  hands one on. Resume's repair does not contradict a `run`, as none survives its
  process.
* `CircleTellsTheTruth`: `IndicatorTruthful`, retention off. An update reads the file
  and sets the circle in two steps with the file free to change in between, so the
  invariant (`LookInv`) is that what an update is about to ask for is what the file
  says, or else another goroutine of the job still has its update ahead
  (`WillLook`). Updates of a message go one by one (`HoldInv`), so that one comes after.
  Whoever changes the file's state has an update ahead, and no goroutine's place is
  taken by a second one while it is at work (`FreshInv`).
* The hypotheses are needed, as TLC shows. A recording whose final save failed is
  announced while its file says "recording", and may be delivered, then found
  "recording" by the next process and announced as failed; its circle is not taken
  off. With retention on, the sweep can remove a directory between an update's
  reading and its call, and the circle stays on for a job that is gone.

`RecorderProofs` and `MeetProofs`, for any deadlines, signals and members, the
typing of the constants assumed:

* `ResultsAreComplete`, `EmptyRoomsAreEmpty`, `SignalsFinalize` in both. Each invariant
  follows its fact along the program counter: a line is printed only on the way to exit
  0 without a failure (`Whole`), `aloneSince` is never before the last poll that did
  not find the room empty (`Alone`), and from the record loop only a second signal
  leaves the way to the result (`Finalizing`).
* `HostsAreSpared` (Meet): `KnocksSpaced`, from `Spaced`: a reload forgets the last click
  only when it is at least `Reknock` old. It rests on the assumption
  `Reclick <= Reknock`, as the code's constants are.
* `ChatEndsNothing` (Meet): `TilesKeepTheCall`. The rules are tried in order, and as the
  Leave button is there during the call, no screen of it with a tile gets past the
  second rule to "refused" and "over" (`TerminalRules`). Without a tile it does.

`TracksProofs`, for any participants and bounds:

* `TypeCorrect`, with `InTime` (a poll leaves the flush its unit of time).
* `FilesStayApart`: `FilesApart`. The files of a participant are numbered from one
  without a gap, so the next number is free (`Numbered`), and one answer begins at most
  one track of a participant (`OneStart`).
* `StopsAreComplete`: `StopComplete`, from `Quiet`: after the first stage no recorder
  waited for is left to write, and the second waits for all that is under way.
* `SpansAreTrue`: `SpansTrue`. It speaks of the last state only; what carries it there
  is `Manifest(m, events)`, what a manifest says while `events` are still to be folded
  in: a track begins when its recorder did; an open one is its participant's last, and
  its end is lost, under way or to come; a closed one ends when its recorder did
  or, that end being lost, when the next track begins. The lemma `AppliedManifest` is
  the heart of it: `applyTrackEvents` takes `Manifest(tracks, reply)` to
  `Manifest(Applied(reply), {})`, for the pump and for `finish` alike. It rests on
  `AttachInv` (what is attached is the latest attach of its participant, and the only
  one whose recorder has not ended), `EventInv` (an event under way tells the real time,
  and nobody ends and begins in one answer) and `LostInv`. `finish` then closes what is
  open with the recording, which is no earlier than any beginning.
* `AudioIsListed`: `AudioListed`, from `KnownInv`: the beginning of an attach that left a
  recorder, a chunk or a file is in the manifest, lost, or on its way.

`BotProofs`, for any number of posts, queues and failing calls:

* `TypeCorrect`: `TypeOK`.
* `NothingTwice`: `HandledInOrder`. It is not inductive, as it says nothing of what is
  still to come. `Numbered` says that Zulip holds the last events of the queue without
  a gap and at least the unread ones; `InHand` that a batch of a living queue holds the
  events right after `lastEventID`; `InOrder` that what was handled is older than what
  is in hand and what is unread. A batch whose queue has expired is handled to its end
  before the next queue is registered, which is why the two cannot mix.
* `NothingSkipped`: `NoneSkipped`. With the above, the only event an increment of
  `lastEventID` passes over is the one handed to `handle`; one of the bot's own is
  about a post that was handled before (`Known`).

`CaptionsProofs`, for any lengths, bounds and settling time:

* `TypeCorrect`: `TypeOK`.
* `AllAreSaidOnce`: `AllSaidOnce`. At the end nothing is open, so it follows from
  `HeardInv` (a turn that was read is said or open) and `HintInv` (no turn is said twice,
  and with the last text read). `OpenInv` says of an open utterance what `HintInv` says
  of a hint, and that nobody has said its turn; `BlocksOk` what the next poll will make
  of every block on screen: a turn that was read goes on in its utterance, or it is
  final, and then its block is not the last; a new turn is on an element that is free or
  starts its utterance afresh. The heart is one fold (`FoldStep`): what it cuts short,
  ends and keeps are different turns (`TurnsApart`), no turn that was read is dropped
  (`HeardTold`), and every block is kept or was said before (`BlockKept`). That the last
  block is never final but in the flush is why a correction that comes late finds its
  utterance open.
* `HintsAreInOrder`: `HintsInOrder`, by the same invariant (`HintStep`).

The invariants about `Runner`, `Recorder`, `Meet`, `Tracks`, `Captions` and `Bot` were also
put to TLC, under the bounds of their runs, before they were proved.

Model-checked only: all liveness, which rests on fairness.

## Not modelled

* `server.go`: stateless handlers, each of which reads one file or posts one message.
  `config.go`: read once.
* The functions that run inside the page, but for `readState`'s rules and
  `pollTracks`: they read a third party's DOM, and their results are inputs. How
  `readCaptions` finds the blocks is one of them.
* The webhook's backoff table: attempts and pauses are not counted, as a delivery
  is accepted, unanswered or given up, whatever it took.
* Payload, signature, texts, names, log lines and command lines.
* A Zulip call that the client gave up on and that takes effect later.
* Clock changes: `time.Now` and `Date.now` only move forward here.
