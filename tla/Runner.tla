------------------------------- MODULE Runner -------------------------------
(***************************************************************************)
(* The runner (runner.go, with the wiring of main.go and the job files of  *)
(* job.go): it owns the recorder child processes, the job files on disk    *)
(* and the recording indicator, and hands finished jobs to the webhook.    *)
(*                                                                         *)
(* Every goroutine is a thread of the model:                               *)
(*   <<"run", j, g>>     run, the g-th recording accepted for job j        *)
(*   <<"dup", j, k>>     the indicator re-assert of a duplicate click      *)
(*   <<"resume", j, 0>>  what Resume leaves running in the background      *)
(*   Tick                the hourly sweep                                  *)
(* The event loop, Resume and Stop run one after the other on the main     *)
(* goroutine; `phase` is where it is.  A section under r.mu is one step.   *)
(*                                                                         *)
(* One message is one job (bot.go uses the message id as the job id), so   *)
(* the per-message indicator lock is a mutex per job: MessageMutex, which  *)
(* IndicatorLock is shown to implement.                                    *)
(***************************************************************************)
EXTENDS Naturals, FiniteSets

CONSTANTS
    Jobs,        \* job ids
    NoJob,       \* not a job id
    Nobody,      \* no goroutine holds an indicator lock
    Webhook,     \* WEBHOOK_URL is set
    Retention,   \* AUDIO_RETENTION_DAYS is positive
    MaxGen,      \* bound: recordings accepted per job
    MaxDup,      \* bound: duplicate clicks of one job in flight at a time
    MaxLives,    \* bound: how often the service is started
    SaveFaults,  \* bound: failing writes of job.json
    CallFaults,  \* bound: failing Zulip calls
    PostFaults   \* bound: failing webhook deliveries

ASSUME JobsAssumption == IsFiniteSet(Jobs) /\ NoJob \notin Jobs
ASSUME FlagsAssumption == Webhook \in BOOLEAN /\ Retention \in BOOLEAN
ASSUME BoundsAssumption ==
    /\ MaxGen \in Nat /\ MaxDup \in Nat /\ MaxLives \in Nat
    /\ SaveFaults \in Nat /\ CallFaults \in Nat /\ PostFaults \in Nat

VARIABLES
    phase,      \* where the main goroutine is, and r.stopping with it
    lives,      \* times the service was started
    toResume,   \* jobs Resume has listed and not yet repaired
    stopRecs,   \* the recordings Stop waits for
    disk,       \* job.json of every job
    issued,     \* recordings accepted per job: the StartedAt generations
    running,    \* r.running: the generation of the registered recording, or 0
    cmd,        \* rec.cmd is set
    termed,     \* rec.termed
    child,      \* the recorder process: none, live, or how it ended
    sigterms,   \* SIGTERMs a live recorder has received
    pc,         \* where every goroutine is
    job,        \* every goroutine's own copy of its Job
    saveErr,    \* what saveFinalState told a settling goroutine
    look,       \* what a goroutine in syncIndicator has decided to do
    holder,     \* who holds the indicator lock of a job's message
    todo,       \* the sweep's listing of unsent jobs
    emoji,      \* the red circle is on the message, at Zulip
    missed,     \* the latest indicator update for the job failed or was cut short
    notes,      \* failure notes posted, as <<generation, error>>
    delivered,  \* generations the webhook receiver has accepted
    faults      \* failures still to come, by kind

main == <<phase, lives, toResume, stopRecs>>
recs == <<running, cmd, termed, child, sigterms>>
sync == <<look, holder>>
local == <<job, saveErr, todo>>
zulip == <<emoji, missed, notes>>
vars == <<main, disk, issued, recs, pc, local, sync, zulip, delivered, faults>>

-----------------------------------------------------------------------------
Gens == 1 .. MaxGen
Recs == Jobs \X Gens
RunThread(j, g) == <<"run", j, g>>
DupThread(j, k) == <<"dup", j, k>>
ResumeThread(j) == <<"resume", j, 0>>
Tick == <<"tick", NoJob, 0>>
RunThreads == {RunThread(j, g) : j \in Jobs, g \in Gens}
DupThreads == {DupThread(j, k) : j \in Jobs, k \in 1 .. MaxDup}
ResumeThreads == {ResumeThread(j) : j \in Jobs}
Threads == RunThreads \cup DupThreads \cup ResumeThreads \cup {Tick}

ASSUME NobodyAssumption == Nobody \notin Threads

Life == INSTANCE JobLife WITH file <- disk
NoFile == Life!NoFile
Errors == Life!Errors
Endings == {"ok"} \cup (Errors \ {"interrupted"})

File(s, g, e, d) == [state |-> s, gen |-> g, err |-> e, sent |-> d]
Copy(j, g, s, e) == [id |-> j, gen |-> g, state |-> s, err |-> e]
NoCopy == Copy(NoJob, 0, "absent", "none")

Pcs == {"idle", "want", "call", "spawn", "spawned", "wait", "note", "deliver",
        "stamp", "cleanup", "done", "sweep", "remove", "resend"}
Ended == {"stopped", "crashed"}
Stopping == phase \in {"terming", "draining", "drained", "killed"}

States == {"absent", "recording", "finished", "failed"}
Files == [state : States, gen : 0 .. MaxGen, err : Errors \cup {"none"}, sent : BOOLEAN]
Copies == [id : Jobs \cup {NoJob}, gen : 0 .. MaxGen, state : States, err : Errors \cup {"none"}]
FaultKinds == {"save", "call", "post"}

MainType ==
    /\ phase \in {"boot", "resume", "up", "terming", "draining", "drained", "killed"} \cup Ended
    /\ lives \in Nat
    /\ toResume \subseteq Jobs
    /\ stopRecs \subseteq Recs

DiskType ==
    /\ disk \in [Jobs -> Files]
    /\ issued \in [Jobs -> 0 .. MaxGen]

RecsType ==
    /\ running \in [Jobs -> 0 .. MaxGen]
    /\ cmd \in [Recs -> BOOLEAN]
    /\ termed \in [Recs -> BOOLEAN]
    /\ child \in [Recs -> {"none", "live"} \cup Endings]
    /\ sigterms \in [Recs -> Nat]

ThreadsType ==
    /\ pc \in [Threads -> Pcs]
    /\ job \in [Threads -> Copies]
    /\ saveErr \in [Threads -> BOOLEAN]
    /\ look \in [Threads -> {"none", "add", "remove", "skip"}]
    /\ holder \in [Jobs -> Threads \cup {Nobody}]
    /\ todo \subseteq Copies

OutsideType ==
    /\ emoji \in [Jobs -> BOOLEAN]
    /\ missed \in [Jobs -> BOOLEAN]
    /\ notes \in [Jobs -> SUBSET ((0 .. MaxGen) \X (Errors \cup {"none"}))]
    /\ delivered \in [Jobs -> SUBSET (0 .. MaxGen)]
    /\ faults \in [FaultKinds -> Nat]

TypeOK == MainType /\ DiskType /\ RecsType /\ ThreadsType /\ OutsideType

Init ==
    /\ phase = "boot"
    /\ lives = 1
    /\ toResume = {}
    /\ stopRecs = {}
    /\ disk = [j \in Jobs |-> NoFile]
    /\ issued = [j \in Jobs |-> 0]
    /\ running = [j \in Jobs |-> 0]
    /\ cmd = [r \in Recs |-> FALSE]
    /\ termed = [r \in Recs |-> FALSE]
    /\ child = [r \in Recs |-> "none"]
    /\ sigterms = [r \in Recs |-> 0]
    /\ pc = [t \in Threads |-> "idle"]
    /\ job = [t \in Threads |-> NoCopy]
    /\ saveErr = [t \in Threads |-> FALSE]
    /\ look = [t \in Threads |-> "none"]
    /\ holder = [j \in Jobs |-> Nobody]
    /\ todo = {}
    /\ emoji = [j \in Jobs |-> FALSE]
    /\ missed = [j \in Jobs |-> FALSE]
    /\ notes = [j \in Jobs |-> {}]
    /\ delivered = [j \in Jobs |-> {}]
    /\ faults = [k \in FaultKinds |-> IF k = "save" THEN SaveFaults
                                    ELSE IF k = "call" THEN CallFaults ELSE PostFaults]

Goto(t, l) == pc' = [pc EXCEPT ![t] = l]

\* A failure of this kind happens, while the bound allows one.
Fault(kind) ==
    /\ faults[kind] > 0
    /\ faults' = [faults EXCEPT ![kind] = @ - 1]

\* A write of job.json that succeeds, and one that fails and leaves it alone.
Saved(j, f) == disk' = [disk EXCEPT ![j] = f] /\ UNCHANGED faults
SaveFails == Fault("save") /\ UNCHANGED disk

-----------------------------------------------------------------------------
(***************************************************************************)
(* Start: a click, handled by the event loop (bot.go calls it for every    *)
(* reaction and DM).  admit is one section under r.mu.                     *)
(***************************************************************************)

\* Mutant of AlreadyRecording: asks for a live process instead of the file.
ProcessAlive(j) == \E g \in Gens : child[<<j, g>>] = "live"

\* admit's duplicate check reads the file, not the map.
AlreadyRecording(j) == disk[j].state = "recording"

\* ErrDuplicateJob: the indicator is re-asserted on a goroutine of its own.
ClickDuplicate(j, k) ==
    /\ phase = "up"
    /\ AlreadyRecording(j)
    /\ pc[DupThread(j, k)] = "idle"
    /\ Goto(DupThread(j, k), "want")
    /\ job' = [job EXCEPT ![DupThread(j, k)] = Copy(j, 0, "recording", "none")]
    /\ UNCHANGED <<main, disk, issued, recs, saveErr, todo, sync, zulip, delivered, faults>>

\* Accepted: the file says "recording" and Stop can see the job from here on.
ClickAccept(j, g) ==
    /\ phase = "up"
    /\ ~AlreadyRecording(j)
    /\ g = issued[j] + 1
    /\ Saved(j, File("recording", g, "none", FALSE))
    /\ issued' = [issued EXCEPT ![j] = g]
    /\ running' = [running EXCEPT ![j] = g]
    /\ Goto(RunThread(j, g), "want")
    /\ job' = [job EXCEPT ![RunThread(j, g)] = Copy(j, g, "recording", "none")]
    /\ UNCHANGED <<main, cmd, termed, child, sigterms, saveErr, todo, sync, zulip, delivered>>

\* admit's save fails: Start returns the error and nothing was accepted.
ClickSaveFails(j) ==
    /\ phase = "up"
    /\ ~AlreadyRecording(j)
    /\ SaveFails
    /\ UNCHANGED <<main, issued, recs, pc, local, sync, zulip, delivered>>

-----------------------------------------------------------------------------
(***************************************************************************)
(* The indicator: syncIndicator, or clearIndicator after a failed save.    *)
(* The file is read once the message's lock is held; the Zulip call that   *)
(* follows is a second step, so the file may change in between.            *)
(***************************************************************************)

\* Mutant of Wanted: the caller carries the direction down, nothing is read back.
WantedByCaller(t) == IF job[t].state = "recording" THEN "add" ELSE "remove"

Wanted(t) ==
    LET state == disk[job[t].id].state IN
    IF saveErr[t] THEN "remove"
    ELSE IF state = "absent" THEN "skip"
    ELSE IF state = "recording" THEN "add" ELSE "remove"

LockIndicator(t) ==
    /\ pc[t] = "want"
    /\ holder[job[t].id] = Nobody
    /\ holder' = [holder EXCEPT ![job[t].id] = t]
    /\ look' = [look EXCEPT ![t] = Wanted(t)]
    /\ Goto(t, "call")
    /\ UNCHANGED <<main, disk, issued, recs, local, zulip, delivered, faults>>

\* What a goroutine goes on with after its indicator call: run spawns the
\* recorder after the first one and delivers a finished job after the last.
AfterIndicator(t) ==
    IF t \notin RunThreads THEN "idle"
    ELSE IF job[t].state = "recording" THEN "spawn"
    ELSE IF job[t].state = "finished" THEN "deliver" ELSE "cleanup"

ReleaseIndicator(t) ==
    /\ pc[t] = "call"
    /\ holder' = [holder EXCEPT ![job[t].id] = Nobody]
    /\ look' = [look EXCEPT ![t] = "none"]
    /\ Goto(t, AfterIndicator(t))
    /\ UNCHANGED <<main, disk, issued, recs, local, notes, delivered>>

\* The message ends up as asked; Zulip refuses an add or a removal that finds
\* nothing to do, which comes to the same.
IndicatorCall(t) ==
    /\ ReleaseIndicator(t)
    /\ emoji' = IF look[t] = "skip" THEN emoji
                ELSE [emoji EXCEPT ![job[t].id] = (look[t] = "add")]
    /\ missed' = IF look[t] = "skip" THEN missed
                 ELSE [missed EXCEPT ![job[t].id] = FALSE]
    /\ UNCHANGED faults

\* The call fails or times out; it is logged and not retried.
IndicatorCallFails(t) ==
    /\ ReleaseIndicator(t)
    /\ look[t] # "skip"
    /\ Fault("call")
    /\ missed' = [missed EXCEPT ![job[t].id] = TRUE]
    /\ UNCHANGED emoji

-----------------------------------------------------------------------------
(***************************************************************************)
(* run: one recorder child from its spawn to the settled job.              *)
(***************************************************************************)
Rec(t) == <<t[2], t[3]>>

SpawnChild(t) ==
    /\ pc[t] = "spawn"
    /\ child' = [child EXCEPT ![Rec(t)] = "live"]
    /\ Goto(t, "spawned")
    /\ UNCHANGED <<main, disk, issued, running, cmd, termed, sigterms, local, sync, zulip, delivered, faults>>

\* cmd.Start fails: exit code -1, and rec.cmd stays nil.
SpawnFails(t) ==
    /\ pc[t] = "spawn"
    /\ child' = [child EXCEPT ![Rec(t)] = "recorder_failed"]
    /\ Goto(t, "wait")
    /\ UNCHANGED <<main, disk, issued, running, cmd, termed, sigterms, local, sync, zulip, delivered, faults>>

\* Mutant of SignalOnce: the termed latch is not looked at.
SignalAlways(R) == R

\* The recordings of R that termLocked signals: not those already signalled.
SignalOnce(R) == {r \in R : ~termed[r]}

\* SIGTERM to each of R, under r.mu.  A process that has ended gets nothing.
Term(R) ==
    /\ termed' = [r \in Recs |-> termed[r] \/ r \in R]
    /\ sigterms' = [r \in Recs |-> IF r \in R /\ child[r] = "live"
                                   THEN sigterms[r] + 1 ELSE sigterms[r]]

\* Mutant of LateStarters: run never looks at r.stopping.
NoLateStarters(t) == {}

\* A child that Stop's signal round missed, to be signalled by run itself.
LateStarters(t) == IF Stopping THEN {Rec(t)} ELSE {}

RegisterChild(t) ==
    /\ pc[t] = "spawned"
    /\ cmd' = [cmd EXCEPT ![Rec(t)] = TRUE]
    /\ Term(SignalOnce(LateStarters(t)))
    /\ Goto(t, "wait")
    /\ UNCHANGED <<main, disk, issued, running, child, local, sync, zulip, delivered, faults>>

\* The recorder ends by itself or because it was asked to: a usable result, one
\* that is too short, exit code 3, or any other exit or unparsable output.
ChildExits(r, end) ==
    /\ child[r] = "live"
    /\ child' = [child EXCEPT ![r] = end]
    /\ UNCHANGED <<main, disk, issued, running, cmd, termed, sigterms, pc, local, sync, zulip, delivered, faults>>

\* Mutant of SettledFile: only a finished job gets its final state written.
SettledFileIfFinished(g, end) ==
    IF end = "ok" THEN File("finished", g, "none", FALSE)
    ELSE File("recording", g, "none", FALSE)

\* The job.json a recording that ended this way settles to.
SettledFile(g, end) ==
    IF end = "ok" THEN File("finished", g, "none", FALSE) ELSE File("failed", g, end, FALSE)

\* The exit is classified and the final state saved: no Zulip call before it.
Settle(t) ==
    LET end == child[Rec(t)]
        ok  == end = "ok"
    IN  /\ pc[t] = "wait"
        /\ end # "live"
        /\ job' = [job EXCEPT ![t].state = IF ok THEN "finished" ELSE "failed",
                              ![t].err = IF ok THEN "none" ELSE end]
        /\ \/ /\ Saved(t[2], SettledFile(t[3], end))
              /\ saveErr' = [saveErr EXCEPT ![t] = FALSE]
           \/ /\ SaveFails
              /\ saveErr' = [saveErr EXCEPT ![t] = TRUE]
        /\ Goto(t, IF ok THEN "want" ELSE "note")
        /\ UNCHANGED <<main, issued, recs, todo, sync, zulip, delivered>>

\* announce posts the failure note, then goes on to the indicator.
PostNote(t) ==
    /\ pc[t] = "note"
    /\ Goto(t, "want")
    /\ \/ /\ notes' = [notes EXCEPT ![job[t].id] = @ \cup {<<job[t].gen, job[t].err>>}]
          /\ UNCHANGED faults
       \/ /\ Fault("call")
          /\ UNCHANGED notes
    /\ UNCHANGED <<main, disk, issued, recs, local, sync, emoji, missed, delivered>>

\* Mutant of Unregistered: the entry goes, whichever recording it is for.
UnregisteredAlways(j, g) == 0

\* r.running after run of generation g: a re-record may have replaced the entry.
Unregistered(j, g) == IF running[j] = g THEN 0 ELSE running[j]

\* run's deferred cleanup; rec.done is closed by it.
Cleanup(t) ==
    /\ pc[t] = "cleanup"
    /\ running' = [running EXCEPT ![t[2]] = Unregistered(t[2], t[3])]
    /\ Goto(t, "done")
    /\ UNCHANGED <<main, disk, issued, cmd, termed, child, sigterms, local, sync, zulip, delivered, faults>>

-----------------------------------------------------------------------------
(***************************************************************************)
(* Delivery: sendWebhook, then stampDelivered.                             *)
(***************************************************************************)
AfterDelivery(t) ==
    IF t \in RunThreads THEN "cleanup" ELSE IF t = Tick THEN "resend" ELSE "idle"

\* The receiver accepts one of the attempts; without a URL nothing is sent and
\* sendWebhook reports success all the same.
Deliver(t) ==
    /\ pc[t] = "deliver"
    /\ delivered' = IF Webhook THEN [delivered EXCEPT ![job[t].id] = @ \cup {job[t].gen}]
                    ELSE delivered
    /\ Goto(t, "stamp")
    /\ UNCHANGED <<main, disk, issued, recs, local, sync, zulip, faults>>

\* The receiver accepts an attempt but its answer is lost: it will be sent again.
DeliveryUnanswered(t) ==
    /\ pc[t] = "deliver"
    /\ Webhook
    /\ Fault("post")
    /\ delivered' = [delivered EXCEPT ![job[t].id] = @ \cup {job[t].gen}]
    /\ UNCHANGED <<main, disk, issued, recs, pc, local, sync, zulip>>

\* The backoff table is exhausted: no stamp, the next sweep tries again.
DeliveryGivesUp(t) ==
    /\ pc[t] = "deliver"
    /\ Webhook
    /\ Fault("post")
    /\ Goto(t, AfterDelivery(t))
    /\ UNCHANGED <<main, disk, issued, recs, local, sync, zulip, delivered>>

\* Mutant of Superseded: the generation is not compared.
SupersededByStateOnly(c) == disk[c.id].state # "finished"

\* Mutant of Superseded: only a missing job.json counts.
SupersededIfGone(c) == disk[c.id].state = "absent"

\* stampDelivered re-reads the file: it must still be finished, same generation.
Superseded(c) == disk[c.id].state # "finished" \/ disk[c.id].gen # c.gen

\* The stamp is written on what was just re-read, in the same section.
StampDelivered(t) ==
    LET c == job[t] IN
    /\ pc[t] = "stamp"
    /\ \/ /\ Superseded(c)
          /\ UNCHANGED <<disk, faults>>
       \/ /\ ~Superseded(c)
          /\ Saved(c.id, [disk[c.id] EXCEPT !.sent = TRUE])
       \/ /\ ~Superseded(c)
          /\ SaveFails
    /\ Goto(t, AfterDelivery(t))
    /\ UNCHANGED <<main, issued, recs, local, sync, zulip, delivered>>

-----------------------------------------------------------------------------
(***************************************************************************)
(* Startup (main.go run): a sweep, then Resume, then the event loop.       *)
(***************************************************************************)
Settled(j) == disk[j].state \in {"finished", "failed"}

BootSweep(j) ==
    /\ phase = "boot"
    /\ Retention
    /\ Settled(j)
    /\ disk' = [disk EXCEPT ![j] = NoFile]
    /\ UNCHANGED <<main, issued, recs, pc, local, sync, zulip, delivered, faults>>

ListJobs ==
    /\ phase = "boot"
    /\ phase' = "resume"
    /\ toResume' = {j \in Jobs : disk[j].state # "absent"}
    /\ UNCHANGED <<lives, stopRecs, disk, issued, recs, pc, local, sync, zulip, delivered, faults>>

\* Resume has dealt with job j, leaving its background goroutine at l, if any.
Resumed(j, l) ==
    /\ phase = "resume"
    /\ j \in toResume
    /\ toResume' = toResume \ {j}
    /\ Goto(ResumeThread(j), l)
    /\ UNCHANGED <<phase, lives, stopRecs, issued, recs, todo, sync, zulip, delivered>>

\* Mutant of LeftRecording: a finished job that was not delivered is one, too.
LeftUndelivered(j) == disk[j].state = "recording" \/ (disk[j].state = "finished" /\ ~disk[j].sent)

\* Mutant of LeftRecording: nothing a restart left behind is repaired.
LeftNothing(j) == FALSE

\* The recorder of this job died with the previous process.
LeftRecording(j) == disk[j].state = "recording"

\* An interrupted recording: failed on disk, its announcement in the background.
ResumeInterrupted(j) ==
    LET t == ResumeThread(j)
        g == disk[j].gen
    IN  /\ LeftRecording(j)
        /\ Resumed(j, "note")
        /\ job' = [job EXCEPT ![t] = Copy(j, g, "failed", "interrupted")]
        /\ \/ /\ Saved(j, File("failed", g, "interrupted", FALSE))
              /\ saveErr' = [saveErr EXCEPT ![t] = FALSE]
           \/ /\ SaveFails
              /\ saveErr' = [saveErr EXCEPT ![t] = TRUE]

\* A finished job that was never stamped: delivered again, in the background.
ResumeUnsent(j) ==
    /\ ~LeftRecording(j)
    /\ disk[j].state = "finished"
    /\ ~disk[j].sent
    /\ Resumed(j, "deliver")
    /\ job' = [job EXCEPT ![ResumeThread(j)] = Copy(j, disk[j].gen, "finished", "none")]
    /\ UNCHANGED <<disk, saveErr, faults>>

ResumeNothing(j) ==
    /\ ~LeftRecording(j)
    /\ disk[j].state # "finished" \/ disk[j].sent
    /\ Resumed(j, "idle")
    /\ UNCHANGED <<disk, job, saveErr, faults>>

ResumeReturns ==
    /\ phase = "resume"
    /\ toResume = {}
    /\ phase' = "up"
    /\ UNCHANGED <<lives, toResume, stopRecs, disk, issued, recs, pc, local, sync, zulip, delivered, faults>>

-----------------------------------------------------------------------------
(***************************************************************************)
(* The ticker goroutine: sweepRetention, which never takes r.mu, then      *)
(* resendUnsent over a listing that may be stale by the time it is used.   *)
(***************************************************************************)

\* A goroutine is still at work on the job; the recording itself included.
Busy(j) == \E t \in Threads \ {Tick} : job[t].id = j /\ pc[t] \notin {"idle", "done"}

\* Old enough to expire.  A day is much longer than anything run, Resume or a
\* click still has to do for a settled job, so an old job has no goroutine left.
Expired(j) == Settled(j) /\ ~Busy(j)

TickFires ==
    /\ phase = "up"
    /\ pc[Tick] = "idle"
    /\ Goto(Tick, "sweep")
    /\ UNCHANGED <<main, disk, issued, recs, local, sync, zulip, delivered, faults>>

\* sweepRetention has read a job that is settled and old.
SweepReads(j) ==
    /\ pc[Tick] = "sweep"
    /\ Retention
    /\ Expired(j)
    /\ job' = [job EXCEPT ![Tick] = Copy(j, disk[j].gen, disk[j].state, disk[j].err)]
    /\ Goto(Tick, "remove")
    /\ UNCHANGED <<main, disk, issued, recs, saveErr, todo, sync, zulip, delivered, faults>>

\* ... and removes its directory, whatever the file says by now.
SweepRemoves ==
    /\ pc[Tick] = "remove"
    /\ disk' = [disk EXCEPT ![job[Tick].id] = NoFile]
    /\ Goto(Tick, "sweep")
    /\ job' = [job EXCEPT ![Tick] = NoCopy]
    /\ UNCHANGED <<main, issued, recs, saveErr, todo, sync, zulip, delivered, faults>>

\* Mutant of Unsent: the sweep takes a job up only if it was never sent at all.
UnsentNowhere == {Copy(j, disk[j].gen, "finished", "none") :
                    j \in {i \in Jobs : disk[i].state = "finished" /\ disk[i].sent}}

\* resendUnsent's listing: copies of the finished jobs without a stamp.
Unsent == {Copy(j, disk[j].gen, "finished", "none") :
             j \in {i \in Jobs : disk[i].state = "finished" /\ ~disk[i].sent}}

SweepLists ==
    /\ pc[Tick] = "sweep"
    /\ todo' = Unsent
    /\ Goto(Tick, "resend")
    /\ UNCHANGED <<main, disk, issued, recs, job, saveErr, sync, zulip, delivered, faults>>

ResendNext(c) ==
    /\ pc[Tick] = "resend"
    /\ c \in todo
    /\ todo' = todo \ {c}
    /\ job' = [job EXCEPT ![Tick] = c]
    /\ Goto(Tick, "deliver")
    /\ UNCHANGED <<main, disk, issued, recs, saveErr, sync, zulip, delivered, faults>>

ResendEnds ==
    /\ pc[Tick] = "resend"
    /\ todo = {}
    /\ job' = [job EXCEPT ![Tick] = NoCopy]
    /\ Goto(Tick, "idle")
    /\ UNCHANGED <<main, disk, issued, recs, saveErr, todo, sync, zulip, delivered, faults>>

-----------------------------------------------------------------------------
(***************************************************************************)
(* Shutdown.  On SIGTERM the event loop returns, so no click comes after   *)
(* StopBegins; the other goroutines run on until the process ends.         *)
(***************************************************************************)

\* Mutant of Registered: a job whose entry is gone is in the snapshot, too.
RegisteredAll == {<<j, running[j]>> : j \in Jobs}

\* What Stop snapshots of r.running.
Registered == {<<j, running[j]>> : j \in {i \in Jobs : running[i] # 0}}

\* r.stopping is set and the registered recordings are snapshotted.
StopBegins ==
    /\ phase = "up"
    /\ stopRecs' = Registered
    /\ phase' = IF Registered = {} THEN "drained" ELSE "terming"
    /\ UNCHANGED <<lives, toResume, disk, issued, recs, pc, local, sync, zulip, delivered, faults>>

\* The recordings in r.running whose child has been started.
Started == {r \in Recs : running[r[1]] = r[2] /\ cmd[r]}

\* termRunning, a section of its own.
StopSignals ==
    /\ phase = "terming"
    /\ Term(SignalOnce(Started))
    /\ phase' = "draining"
    /\ UNCHANGED <<lives, toResume, stopRecs, disk, issued, running, cmd, child, pc, local, sync, zulip,
                   delivered, faults>>

\* Mutant of RecDone: Stop waits for the child's exit, not for the settled job.
RecExited(r) == child[r] \notin {"none", "live"}

\* rec.done is closed.
RecDone(r) == pc[RunThread(r[1], r[2])] = "done"

StopDrained ==
    /\ phase = "draining"
    /\ \A r \in stopRecs : RecDone(r)
    /\ phase' = "drained"
    /\ UNCHANGED <<lives, toResume, stopRecs, disk, issued, recs, pc, local, sync, zulip, delivered, faults>>

\* The grace is over: the stragglers get SIGKILL and Stop returns.
GraceExpires ==
    /\ phase = "draining"
    /\ phase' = "killed"
    /\ child' = [r \in Recs |-> IF r \in Started /\ child[r] = "live"
                                THEN "recorder_failed" ELSE child[r]]
    /\ UNCHANGED <<lives, toResume, stopRecs, disk, issued, running, cmd, termed, sigterms, pc, local, sync,
                   zulip, delivered, faults>>

\* A goroutine has an indicator update of the job ahead of it.
Updating(j) == \E t \in Threads : job[t].id = j /\ pc[t] \in {"note", "want", "call"}

\* The process is gone, and with the container every recorder and goroutine.
ProcessEnds(how) ==
    /\ phase' = how
    /\ toResume' = {}
    /\ stopRecs' = {}
    /\ running' = [j \in Jobs |-> 0]
    /\ cmd' = [r \in Recs |-> FALSE]
    /\ termed' = [r \in Recs |-> FALSE]
    /\ child' = [r \in Recs |-> "none"]
    /\ pc' = [t \in Threads |-> "idle"]
    /\ job' = [t \in Threads |-> NoCopy]
    /\ saveErr' = [t \in Threads |-> FALSE]
    /\ look' = [t \in Threads |-> "none"]
    /\ holder' = [j \in Jobs |-> Nobody]
    /\ todo' = {}
    /\ missed' = [j \in Jobs |-> missed[j] \/ Updating(j)]
    /\ UNCHANGED <<lives, disk, issued, sigterms, emoji, notes, delivered, faults>>

Exit == phase \in {"drained", "killed"} /\ ProcessEnds("stopped")
Crash == phase \notin Ended /\ ProcessEnds("crashed")

\* restart: unless-stopped (docker-compose.yml).
Restart ==
    /\ phase \in Ended
    /\ lives < MaxLives
    /\ lives' = lives + 1
    /\ phase' = "boot"
    /\ UNCHANGED <<toResume, stopRecs, disk, issued, recs, pc, local, sync, zulip, delivered, faults>>

-----------------------------------------------------------------------------
Click(j) ==
    \/ \E k \in 1 .. MaxDup : ClickDuplicate(j, k)
    \/ \E g \in Gens : ClickAccept(j, g)
    \/ ClickSaveFails(j)

Indicator(t) == LockIndicator(t) \/ IndicatorCall(t) \/ IndicatorCallFails(t)

Run(t) == SpawnChild(t) \/ SpawnFails(t) \/ RegisterChild(t) \/ Settle(t) \/ Cleanup(t)

Delivery(t) == Deliver(t) \/ DeliveryUnanswered(t) \/ DeliveryGivesUp(t) \/ StampDelivered(t)

Resume ==
    \/ ListJobs \/ ResumeReturns
    \/ \E j \in Jobs : BootSweep(j) \/ ResumeInterrupted(j) \/ ResumeUnsent(j) \/ ResumeNothing(j)

Sweep ==
    \/ TickFires \/ SweepRemoves \/ SweepLists \/ ResendEnds
    \/ \E j \in Jobs : SweepReads(j)
    \/ \E c \in todo : ResendNext(c)

StopGoesOn == StopSignals \/ StopDrained \/ GraceExpires \/ Exit

Next ==
    \/ \E j \in Jobs : Click(j)
    \/ \E t \in Threads : Indicator(t) \/ PostNote(t) \/ Delivery(t)
    \/ \E t \in RunThreads : Run(t)
    \/ \E r \in Recs, end \in Endings : ChildExits(r, end)
    \/ Resume \/ Sweep \/ StopBegins \/ StopGoesOn \/ Crash \/ Restart

Spec == Init /\ [][Next]_vars

\* What goroutine t does by itself, the wait for the indicator lock aside.
GoesOn(t) ==
    \/ IndicatorCall(t) \/ IndicatorCallFails(t) \/ PostNote(t) \/ Delivery(t)
    \/ t \in RunThreads /\ Run(t)

(***************************************************************************)
(* Fairness.  Every goroutine goes on: its Zulip calls time out after 15 s *)
(* and its webhook attempts are bounded by the backoff table.  A recorder  *)
(* ends, at MAX_DURATION_S at the latest.  The ticker fires every hour.    *)
(* sync.Mutex starves nobody.  Clicks, SIGTERMs and crashes may not come.  *)
(***************************************************************************)
Fairness ==
    /\ \A t \in Threads : SF_vars(LockIndicator(t)) /\ WF_vars(GoesOn(t))
    /\ \A r \in Recs : WF_vars(\E end \in Endings : ChildExits(r, end))
    /\ WF_vars(Resume)
    /\ WF_vars(Sweep)
    /\ WF_vars(StopGoesOn)
    /\ WF_vars(Restart)

FairSpec == Spec /\ Fairness

-----------------------------------------------------------------------------
(***************************************************************************)
(* Properties.                                                             *)
(***************************************************************************)

\* runner.go:130-139: however clicks, settlements and restarts interleave, no
\* two recorders of one job are alive at once (they would write the same
\* audio file).
OneRecorder ==
    \A j \in Jobs : \A g, h \in Gens :
        child[<<j, g>>] = "live" /\ child[<<j, h>>] = "live" => g = h

\* runner.go:427-428: a recorder gets at most one SIGTERM, from Stop's signal
\* round or from its own late start, never from both: a second one would make
\* it exit without its result.
SignalledOnce == \A r \in Recs : sigterms[r] <= 1

\* runner.go:186-193: once Stop's signal round is over, no started recorder is
\* left that nobody asked to finalize, also one whose child was only spawned
\* while the round ran.
NoneMissed ==
    phase = "draining" => \A r \in Recs : child[r] = "live" /\ cmd[r] => termed[r]

\* The final state of the job's latest generation could not be saved.
Unsaved(j) == \E t \in Threads : saveErr[t] /\ job[t].id = j /\ job[t].gen = disk[j].gen

\* runner.go:396-398: when Stop returns within the grace, no accepted job is
\* left whose file still says "recording", a failed save aside.
StopSettles == phase = "drained" => \A j \in Jobs : disk[j].state # "recording" \/ Unsaved(j)

\* runner.go:60-67, 165: while the service is up, the recording of a job that
\* says "recording" is the one registered for it, so Stop can neither miss it
\* nor wait for another; the cleanup of an earlier recording of the same job,
\* still busy delivering, never takes the entry away.
RecordingRegistered ==
    phase \in {"up", "terming", "draining"} =>
        \A j \in Jobs : disk[j].state = "recording" => running[j] = disk[j].gen

\* runner.go:494-499: a job file is stamped only for a generation the receiver
\* has accepted, although a delivery may take minutes and a click may have
\* re-recorded into the same directory meanwhile.
StampedWasDelivered ==
    Webhook => \A j \in Jobs : disk[j].sent => disk[j].gen \in delivered[j]

\* runner.go:298-299: whoever reads a failure note and clicks again finds a job
\* that is no longer recording.
NotedIsSettled ==
    \A j \in Jobs : \A n \in notes[j] : disk[j].gen = n[1] => disk[j].state = "failed"

\* A recording has one ending: its room is never told that there is no
\* transcript of a recording whose audio the receiver has accepted.
OneEnding ==
    \A j \in Jobs : \A n \in notes[j] : n[1] \notin delivered[j]

\* runner.go:322-335: once no goroutine has an indicator update of the job
\* ahead of it, the message carries the red circle exactly if the file says
\* "recording", unless the latest update failed at Zulip or died with the
\* process.
IndicatorTruthful ==
    \A j \in Jobs : Updating(j) \/ missed[j] \/ (emoji[j] <=> disk[j].state = "recording")

\* The job files go through JobLife: no step brings a superseded generation
\* back, un-settles a job, or touches one that is still recording.
ImplementsJobLife == Life!LifeSpec

\* README.md:220-221, runner.go:516-517: a job still recording is never touched
\* by the retention sweep.
SweepSparesRecording ==
    [][\A j \in Jobs : disk[j].state = "recording" => disk'[j].state # "absent"]_vars

\* Every recording ends: as long as the service does not go away, its file
\* leaves the state "recording"; after a restart as well.
RecordingEnds ==
    \A j \in Jobs : disk[j].state = "recording" ~> disk[j].state # "recording" \/ phase \in Ended

\* README.md:182, 222-224: every finished job is delivered and stamped, unless
\* it is re-recorded or expires first, or the service goes away (and then again
\* after its restart).
FinishedIsDelivered ==
    \A j \in Jobs : disk[j].state = "finished" /\ ~disk[j].sent
        ~> disk[j].sent \/ disk[j].state # "finished" \/ phase \in Ended
=============================================================================
