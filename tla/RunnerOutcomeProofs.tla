------------------------- MODULE RunnerOutcomeProofs -------------------------
(***************************************************************************)
(* What a recording is said to have come to, for any set of jobs, any      *)
(* bounds and with retention on or off, as long as no write of job.json    *)
(* fails: a recording has one ending, and its failure is only announced    *)
(* once its file is settled.  With retention off, the red circle tells     *)
(* the truth.                                                              *)
(***************************************************************************)
EXTENDS RunnerProofs

-----------------------------------------------------------------------------
(***************************************************************************)
(* The inductive invariants.                                               *)
(***************************************************************************)
Settlings == {"finished", "failed"}

\* Somebody holds that recording g of job j came to s: its file, a goroutine's
\* copy of the job, the receiver, the sweep's listing or the room.
Outcome(j, g, s) ==
    \/ disk[j].gen = g /\ disk[j].state = s
    \/ \E t \in Threads : job[t].id = j /\ job[t].gen = g /\ job[t].state = s
    \/ s = "finished" /\ (g \in delivered[j] \/ \E c \in todo : c.id = j /\ c.gen = g)
    \/ s = "failed" /\ \E n \in notes[j] : n[1] = g

\* The file is of a recording that was accepted, if there is one.
GenInv ==
    \A j \in Jobs :
        disk[j].gen <= issued[j] /\ (disk[j].gen = 0 <=> disk[j].state = "absent")

\* Only failed jobs are announced, only finished ones delivered.
PlaceInv ==
    /\ \A t \in Threads : pc[t] = "note" => job[t].state = "failed"
    /\ \A t \in Threads : pc[t] = "deliver" => job[t].state = "finished"
    /\ \A c \in todo : c.state = "finished"

\* No outcome before a recording has settled, and never two.
OutcomeInv ==
    \A j \in Jobs, g \in 0 .. MaxGen :
        /\ \A s \in Settlings : Outcome(j, g, s) =>
            /\ g \in 1 .. issued[j]
            /\ ~(disk[j].state = "recording" /\ disk[j].gen = g)
            /\ \A t \in RunThreads : t[2] = j /\ t[3] = g => ~Unsettled(t)
        /\ ~(Outcome(j, g, "finished") /\ Outcome(j, g, "failed"))

-----------------------------------------------------------------------------
(***************************************************************************)
(* A goroutine's copy is of its own recording, with retention on as well.  *)
(***************************************************************************)

\* A step that unsettles nothing anew and leaves the copies of the unsettled.
LEMMA KeptCopies ==
    ASSUME CopyInv, \A t \in RunThreads : Unsettled(t)' => Unsettled(t) /\ job'[t] = job[t]
    PROVE  CopyInv'
  BY DEF CopyInv

\* CopyInv is inductive.
LEMMA NextCopy ==
    ASSUME TypeOK, CopyInv, [Next]_vars
    PROVE  CopyInv'
<1>0. ASSUME Quiet, \A t \in RunThreads : job'[t] = job[t] PROVE CopyInv'
  BY <1>0, KeptCopies DEF Quiet, Unsettled
<1>1. ASSUME UNCHANGED <<pc, job>> PROVE CopyInv'
  BY <1>1 DEF CopyInv, Unsettled, Unspawned, Attending
<1>2. ASSUME NEW j \in Jobs, Click(j) PROVE CopyInv'
  <2>1. ASSUME NEW k \in 1 .. MaxDup, ClickDuplicate(j, k) PROVE CopyInv'
    <3>1. \A t \in RunThreads : job'[t] = job[t]
      BY <2>1, ThreadNames DEF ClickDuplicate, TypeOK, ThreadsType
    <3> QED
      BY <1>0, <2>1, <3>1, QuietMain
  <2>2. ASSUME NEW g \in Gens, ClickAccept(j, g) PROVE CopyInv'
    <3> DEFINE n == RunThread(j, g)
    <3>1. n \in RunThreads /\ n \in Threads /\ n[2] = j /\ n[3] = g
      BY ThreadNames DEF RunThread
    <3>2. job'[n] = Copy(j, g, "recording", "none")
      BY <2>2, <3>1 DEF ClickAccept, TypeOK, ThreadsType
    <3>3. \A t \in RunThreads : t # n => pc'[t] = pc[t] /\ job'[t] = job[t]
      BY <2>2, ThreadNames DEF ClickAccept, Goto, TypeOK, ThreadsType
    <3>4. \A t \in RunThreads : t # n => (Unsettled(t)' => Unsettled(t))
      BY <3>3 DEF Unsettled, Unspawned, Attending
    <3> QED
      BY <3>1, <3>2, <3>3, <3>4 DEF CopyInv, Copy
  <2>3. CASE ClickSaveFails(j)
    BY <1>1, <2>3 DEF ClickSaveFails, local
  <2> QED
    BY <1>2, <2>1, <2>2, <2>3 DEF Click
<1>3. ASSUME NEW t \in Threads, Indicator(t) \/ PostNote(t) \/ Delivery(t) PROVE CopyInv'
  <2>1. job' = job
    BY <1>3 DEF Indicator, LockIndicator, IndicatorCall, IndicatorCallFails, ReleaseIndicator,
       PostNote, Delivery, Deliver, DeliveryUnanswered, DeliveryGivesUp, StampDelivered, local
  <2> QED
    BY <1>0, <1>3, <2>1, QuietThread
<1>4. ASSUME NEW t \in RunThreads, Run(t) PROVE CopyInv'
  <2>0. t \in Threads
    BY ThreadNames
  <2>1. CASE SpawnChild(t) \/ SpawnFails(t) \/ RegisterChild(t) \/ Cleanup(t)
    <3>1. job' = job
      BY <2>1 DEF SpawnChild, SpawnFails, RegisterChild, Cleanup, local
    <3>2. \A u \in RunThreads : u # t => pc'[u] = pc[u]
      BY <2>0, <2>1, ThreadNames DEF SpawnChild, SpawnFails, RegisterChild, Cleanup, Goto, TypeOK, ThreadsType
    <3>3. \/ pc[t] \in {"spawn", "spawned"}
          \/ pc'[t] = "done"
      BY <2>0, <2>1 DEF SpawnChild, SpawnFails, RegisterChild, Cleanup, Goto, TypeOK, ThreadsType
    <3>4. \A u \in RunThreads : Unsettled(u)' => Unsettled(u)
      BY <3>1, <3>2, <3>3 DEF Unsettled, Unspawned, Attending
    <3> QED
      BY <3>1, <3>4, KeptCopies
  <2>2. CASE Settle(t)
    <3>1. \A u \in RunThreads : u # t => pc'[u] = pc[u] /\ job'[u] = job[u]
      BY <2>0, <2>2, ThreadNames DEF Settle, Goto, TypeOK, ThreadsType
    <3>2. pc'[t] \in {"want", "note"}
      BY <2>0, <2>2 DEF Settle, Goto, TypeOK, ThreadsType
    <3>3. job'[t].state \in Settlings
      BY <2>0, <2>2 DEF Settle, TypeOK, ThreadsType, Copies, Settlings
    <3>4. \A u \in RunThreads : Unsettled(u)' => u # t /\ Unsettled(u)
      BY <3>1, <3>2, <3>3 DEF Unsettled, Unspawned, Attending, Settlings
    <3> QED
      BY <3>1, <3>4, KeptCopies
  <2> QED
    BY <1>4, <2>1, <2>2 DEF Run
<1>5. CASE Resume
  <2>1. \A u \in RunThreads : job'[u] = job[u]
    <3>1. CASE ListJobs \/ ResumeReturns \/ \E j \in Jobs : BootSweep(j) \/ ResumeNothing(j)
      BY <3>1 DEF ListJobs, ResumeReturns, BootSweep, ResumeNothing, local
    <3>2. CASE \E j \in Jobs : ResumeInterrupted(j)
      BY <3>2, ThreadNames DEF ResumeInterrupted, TypeOK, ThreadsType
    <3>3. CASE \E j \in Jobs : ResumeUnsent(j)
      BY <3>3, ThreadNames DEF ResumeUnsent, TypeOK, ThreadsType
    <3> QED
      BY <1>5, <3>1, <3>2, <3>3 DEF Resume
  <2> QED
    BY <1>0, <1>5, <2>1, QuietMain
<1>6. CASE Sweep
  <2>1. \A u \in RunThreads : job'[u] = job[u]
    BY <1>6, ThreadNames DEF Sweep, TickFires, SweepRemoves, SweepLists, ResendEnds,
       SweepReads, ResendNext, TypeOK, ThreadsType, local
  <2> QED
    BY <1>0, <1>6, <2>1, QuietMain
<1>7. ASSUME NEW r \in Recs, NEW end \in Endings, ChildExits(r, end) PROVE CopyInv'
  BY <1>1, <1>7 DEF ChildExits, local
<1>8. CASE StopBegins \/ StopSignals \/ StopDrained \/ GraceExpires \/ Restart \/ UNCHANGED vars
  BY <1>1, <1>8 DEF StopBegins, StopSignals, StopDrained, GraceExpires, Restart, vars, local
<1>9. CASE Exit \/ Crash
  <2>1. \A t \in RunThreads : pc'[t] = "idle"
    BY <1>9, ThreadNames DEF Exit, Crash, ProcessEnds
  <2> QED
    BY <2>1 DEF CopyInv, Unsettled, Unspawned, Attending
<1> QED
  BY <1>2, <1>3, <1>4, <1>5, <1>6, <1>7, <1>8, <1>9 DEF Next, StopGoesOn

-----------------------------------------------------------------------------
(***************************************************************************)
(* Generations and places.                                                 *)
(***************************************************************************)

\* Files that keep their generation, or go; nothing is accepted.
LEMMA KeptGens ==
    ASSUME GenInv, issued' = issued,
           \A j \in Jobs : \/ disk'[j].gen = disk[j].gen /\ (disk'[j].state = "absent" <=> disk[j].state = "absent")
                           \/ disk'[j] = NoFile
           , TypeOK
    PROVE  GenInv'
<1> SUFFICES ASSUME NEW j \in Jobs
             PROVE  disk'[j].gen <= issued[j] /\ (disk'[j].gen = 0 <=> disk'[j].state = "absent")
  BY DEF GenInv
<1>1. issued[j] \in Nat
  BY DEF TypeOK, DiskType
<1>2. CASE disk'[j] = NoFile
  BY <1>1, <1>2 DEF NoFile, Life!NoFile
<1>3. CASE disk'[j].gen = disk[j].gen /\ (disk'[j].state = "absent" <=> disk[j].state = "absent")
  BY <1>3 DEF GenInv
<1> QED
  BY <1>2, <1>3

\* GenInv is inductive.
LEMMA NextGen ==
    ASSUME TypeOK, SignalInv, GenInv, [Next]_vars
    PROVE  GenInv'
<1>0. ASSUME UNCHANGED <<disk, issued>> PROVE GenInv'
  BY <1>0 DEF GenInv
<1>1. ASSUME NEW j \in Jobs, NEW f, disk' = [disk EXCEPT ![j] = f], issued' = issued,
             \/ f = NoFile
             \/ f.gen \in 1 .. issued[j] /\ f.state # "absent"
      PROVE  GenInv'
  <2>1. disk'[j] = f /\ \A k \in Jobs : k # j => disk'[k] = disk[k]
    BY <1>1 DEF TypeOK, DiskType
  <2>2. NoFile.gen = 0 /\ NoFile.state = "absent" /\ issued[j] \in Nat
    BY DEF NoFile, Life!NoFile, TypeOK, DiskType
  <2> QED
    BY <1>1, <2>1, <2>2 DEF GenInv
<1>2. ASSUME NEW j \in Jobs, Click(j) PROVE GenInv'
  <2>1. ASSUME NEW g \in Gens, ClickAccept(j, g) PROVE GenInv'
    <3>1. disk'[j] = File("recording", g, "none", FALSE) /\ \A k \in Jobs : k # j => disk'[k] = disk[k]
      BY <2>1 DEF ClickAccept, Saved, TypeOK, DiskType
    <3>2. issued'[j] = g /\ \A k \in Jobs : k # j => issued'[k] = issued[k]
      BY <2>1 DEF ClickAccept, TypeOK, DiskType
    <3>3. g \in Nat /\ g # 0
      BY DEF Gens
    <3> QED
      BY <3>1, <3>2, <3>3 DEF GenInv, File
  <2>2. CASE (\E k \in 1 .. MaxDup : ClickDuplicate(j, k)) \/ ClickSaveFails(j)
    BY <1>0, <2>2 DEF ClickDuplicate, ClickSaveFails, SaveFails
  <2> QED
    BY <1>2, <2>1, <2>2 DEF Click
<1>3. ASSUME NEW t \in Threads, Indicator(t) \/ PostNote(t) \/ Delivery(t) PROVE GenInv'
  <2>1. issued' = issued
    BY <1>3 DEF Indicator, LockIndicator, IndicatorCall, IndicatorCallFails, ReleaseIndicator,
       PostNote, Delivery, Deliver, DeliveryUnanswered, DeliveryGivesUp, StampDelivered
  <2>2. \/ disk' = disk
        \/ disk' = [disk EXCEPT ![job[t].id] = [disk[job[t].id] EXCEPT !.sent = TRUE]]
    BY <1>3 DEF Indicator, LockIndicator, IndicatorCall, IndicatorCallFails, ReleaseIndicator,
       PostNote, Delivery, Deliver, DeliveryUnanswered, DeliveryGivesUp, StampDelivered, Saved, SaveFails
  <2>3. \A j \in Jobs : disk'[j].gen = disk[j].gen /\ disk'[j].state = disk[j].state
    BY <2>2 DEF TypeOK, DiskType, Files
  <2> QED
    BY <2>1, <2>3, KeptGens
<1>4. ASSUME NEW t \in RunThreads, Run(t) PROVE GenInv'
  <2>1. CASE Settle(t)
    <3>1. t[2] \in Jobs /\ t[3] \in Gens /\ pc[t] # "idle"
      BY <2>1, ThreadNames DEF Settle
    <3>2. t[3] \in 1 .. issued[t[2]]
      BY <3>1 DEF SignalInv, Gens, TypeOK, DiskType
    <3>3. issued' = issued
      BY <2>1 DEF Settle
    <3>4. CASE Saved(t[2], SettledFile(t[3], child[Rec(t)]))
      BY <1>1, <3>1, <3>2, <3>3, <3>4 DEF Saved, SettledFile, File
    <3>5. CASE SaveFails
      BY <1>0, <3>3, <3>5 DEF SaveFails
    <3> QED
      BY <2>1, <3>4, <3>5 DEF Settle
  <2>2. CASE SpawnChild(t) \/ SpawnFails(t) \/ RegisterChild(t) \/ Cleanup(t)
    BY <1>0, <2>2 DEF SpawnChild, SpawnFails, RegisterChild, Cleanup
  <2> QED
    BY <1>4, <2>1, <2>2 DEF Run
<1>5. CASE Resume
  <2>1. ASSUME NEW j \in Jobs, BootSweep(j) PROVE GenInv'
    BY <1>1, <2>1 DEF BootSweep
  <2>2. ASSUME NEW j \in Jobs, ResumeInterrupted(j) PROVE GenInv'
    <3>1. issued' = issued /\ disk[j].state = "recording"
      BY <2>2 DEF ResumeInterrupted, Resumed, LeftRecording
    <3>2. disk[j].gen \in 1 .. issued[j]
      BY <3>1 DEF GenInv, TypeOK, DiskType, Files
    <3>3. CASE Saved(j, File("failed", disk[j].gen, "interrupted", FALSE))
      BY <1>1, <3>1, <3>2, <3>3 DEF Saved, File
    <3>4. CASE SaveFails
      BY <1>0, <3>1, <3>4 DEF SaveFails
    <3> QED
      BY <2>2, <3>3, <3>4 DEF ResumeInterrupted
  <2>3. CASE ListJobs \/ ResumeReturns \/ \E j \in Jobs : ResumeUnsent(j) \/ ResumeNothing(j)
    BY <1>0, <2>3 DEF ListJobs, ResumeReturns, ResumeUnsent, ResumeNothing, Resumed
  <2> QED
    BY <1>5, <2>1, <2>2, <2>3 DEF Resume
<1>6. CASE Sweep
  <2>1. CASE SweepRemoves
    <3>1. \A j \in Jobs : disk'[j] = disk[j] \/ disk'[j] = NoFile
      BY <2>1 DEF SweepRemoves, TypeOK, DiskType
    <3> QED
      BY <2>1, <3>1, KeptGens DEF SweepRemoves
  <2>2. CASE ~SweepRemoves
    BY <1>0, <1>6, <2>2 DEF Sweep, TickFires, SweepLists, ResendEnds, SweepReads, ResendNext
  <2> QED
    BY <2>1, <2>2
<1>7. ASSUME NEW r \in Recs, NEW end \in Endings, ChildExits(r, end) PROVE GenInv'
  BY <1>0, <1>7 DEF ChildExits
<1>8. CASE StopBegins \/ StopGoesOn \/ Crash \/ Restart \/ UNCHANGED vars
  BY <1>0, <1>8 DEF StopBegins, StopGoesOn, StopSignals, StopDrained, GraceExpires, Exit, Crash,
     ProcessEnds, Restart, vars
<1> QED
  BY <1>2, <1>3, <1>4, <1>5, <1>6, <1>7, <1>8 DEF Next

\* A goroutine that goes anywhere but to a note or a delivery.
LEMMA PlaceGoes ==
    ASSUME TypeOK, PlaceInv, NEW t \in Threads, NEW l, Goto(t, l), todo' \subseteq todo,
           l = "note" => job'[t].state = "failed",
           l = "deliver" => job'[t].state = "finished",
           \A u \in Threads : u # t => job'[u] = job[u]
    PROVE  PlaceInv'
<1>1. pc'[t] = l /\ \A u \in Threads : u # t => pc'[u] = pc[u]
  BY DEF Goto, TypeOK, ThreadsType
<1> QED
  BY <1>1 DEF PlaceInv

\* PlaceInv is inductive.
LEMMA NextPlace ==
    ASSUME TypeOK, PlaceInv, [Next]_vars
    PROVE  PlaceInv'
<1>0. ASSUME UNCHANGED <<pc, job, todo>> PROVE PlaceInv'
  BY <1>0 DEF PlaceInv
<1>1. ASSUME NEW j \in Jobs, Click(j) PROVE PlaceInv'
  <2>1. ASSUME NEW k \in 1 .. MaxDup, ClickDuplicate(j, k) PROVE PlaceInv'
    BY <2>1, ThreadNames, PlaceGoes DEF ClickDuplicate, TypeOK, ThreadsType
  <2>2. ASSUME NEW g \in Gens, ClickAccept(j, g) PROVE PlaceInv'
    BY <2>2, ThreadNames, PlaceGoes DEF ClickAccept, TypeOK, ThreadsType
  <2>3. CASE ClickSaveFails(j)
    BY <1>0, <2>3 DEF ClickSaveFails, local
  <2> QED
    BY <1>1, <2>1, <2>2, <2>3 DEF Click
<1>2. ASSUME NEW t \in Threads, Indicator(t) \/ PostNote(t) \/ Delivery(t) PROVE PlaceInv'
  <2>1. job' = job /\ todo' = todo
    BY <1>2 DEF Indicator, LockIndicator, IndicatorCall, IndicatorCallFails, ReleaseIndicator,
       PostNote, Delivery, Deliver, DeliveryUnanswered, DeliveryGivesUp, StampDelivered, local
  <2>2. CASE DeliveryUnanswered(t)
    BY <1>0, <2>1, <2>2 DEF DeliveryUnanswered
  <2>3. CASE IndicatorCall(t) \/ IndicatorCallFails(t)
    <3>1. Goto(t, AfterIndicator(t))
      BY <2>3 DEF IndicatorCall, IndicatorCallFails, ReleaseIndicator
    <3>2. AfterIndicator(t) # "note" /\ (AfterIndicator(t) = "deliver" => job[t].state = "finished")
      BY DEF AfterIndicator
    <3> QED
      BY <2>1, <3>1, <3>2, PlaceGoes
  <2>4. CASE LockIndicator(t) \/ PostNote(t) \/ Deliver(t) \/ DeliveryGivesUp(t) \/ StampDelivered(t)
    <3>1. \E l \in {"call", "want", "stamp", AfterDelivery(t)} : Goto(t, l)
      BY <2>4 DEF LockIndicator, PostNote, Deliver, DeliveryGivesUp, StampDelivered
    <3>2. AfterDelivery(t) \notin {"note", "deliver"}
      BY DEF AfterDelivery
    <3> QED
      BY <2>1, <3>1, <3>2, PlaceGoes
  <2> QED
    BY <1>2, <2>2, <2>3, <2>4 DEF Indicator, Delivery
<1>3. ASSUME NEW t \in RunThreads, Run(t) PROVE PlaceInv'
  <2>0. t \in Threads
    BY ThreadNames
  <2>1. CASE Settle(t)
    <3> DEFINE ok == child[Rec(t)] = "ok"
    <3>1. /\ Goto(t, IF ok THEN "want" ELSE "note") /\ todo' = todo
          /\ \A u \in Threads : u # t => job'[u] = job[u]
      BY <2>1 DEF Settle, TypeOK, ThreadsType
    <3>2. ~ok => job'[t].state = "failed"
      BY <2>0, <2>1 DEF Settle, TypeOK, ThreadsType, Copies
    <3> HIDE DEF ok
    <3> QED
      BY <2>0, <3>1, <3>2, PlaceGoes
  <2>2. CASE SpawnChild(t) \/ SpawnFails(t) \/ RegisterChild(t) \/ Cleanup(t)
    <3>1. \E l \in {"spawned", "wait", "done"} : Goto(t, l)
      BY <2>2 DEF SpawnChild, SpawnFails, RegisterChild, Cleanup
    <3>2. job' = job /\ todo' = todo
      BY <2>2 DEF SpawnChild, SpawnFails, RegisterChild, Cleanup, local
    <3> QED
      BY <2>0, <3>1, <3>2, PlaceGoes
  <2> QED
    BY <1>3, <2>1, <2>2 DEF Run
<1>4. CASE Resume
  <2>1. ASSUME NEW j \in Jobs, ResumeInterrupted(j) \/ ResumeUnsent(j) \/ ResumeNothing(j)
        PROVE  PlaceInv'
    <3> DEFINE r == ResumeThread(j)
    <3>1. r \in Threads /\ todo' = todo
      BY <2>1, ThreadNames DEF ResumeInterrupted, ResumeUnsent, ResumeNothing, Resumed
    <3>2. \A u \in Threads : u # r => job'[u] = job[u]
      BY <2>1 DEF ResumeInterrupted, ResumeUnsent, ResumeNothing, TypeOK, ThreadsType
    <3>3. CASE ResumeInterrupted(j)
      <4>1. job'[r].state = "failed" /\ Goto(r, "note")
        BY <3>1, <3>3 DEF ResumeInterrupted, Resumed, Copy, TypeOK, ThreadsType
      <4> QED
        BY <3>1, <3>2, <4>1, PlaceGoes
    <3>4. CASE ResumeUnsent(j)
      <4>1. job'[r].state = "finished" /\ Goto(r, "deliver")
        BY <3>1, <3>4 DEF ResumeUnsent, Resumed, Copy, TypeOK, ThreadsType
      <4> QED
        BY <3>1, <3>2, <4>1, PlaceGoes
    <3>5. CASE ResumeNothing(j)
      <4>1. Goto(r, "idle")
        BY <3>5 DEF ResumeNothing, Resumed
      <4> QED
        BY <3>1, <3>2, <4>1, PlaceGoes
    <3> QED
      BY <2>1, <3>3, <3>4, <3>5
  <2>2. CASE ListJobs \/ ResumeReturns \/ \E j \in Jobs : BootSweep(j)
    BY <1>0, <2>2 DEF ListJobs, ResumeReturns, BootSweep, local
  <2> QED
    BY <1>4, <2>1, <2>2 DEF Resume
<1>5. CASE Sweep
  <2>1. Tick \in Threads
    BY ThreadNames
  <2>2. CASE SweepLists
    <3>1. \A c \in todo' : c.state = "finished"
      BY <2>2 DEF SweepLists, Unsent, Copy
    <3>2. pc'[Tick] = "resend" /\ (\A t \in Threads : t # Tick => pc'[t] = pc[t]) /\ job' = job
      BY <2>1, <2>2 DEF SweepLists, Goto, TypeOK, ThreadsType
    <3> QED
      BY <3>1, <3>2 DEF PlaceInv
  <2>3. ASSUME NEW c \in todo, ResendNext(c) PROVE PlaceInv'
    <3>1. job'[Tick].state = "finished"
      BY <2>1, <2>3 DEF ResendNext, PlaceInv, TypeOK, ThreadsType
    <3> QED
      BY <2>1, <2>3, <3>1, PlaceGoes DEF ResendNext, TypeOK, ThreadsType
  <2>4. CASE TickFires \/ SweepRemoves \/ ResendEnds \/ \E j \in Jobs : SweepReads(j)
    <3>1. \E l \in {"sweep", "idle", "remove"} : Goto(Tick, l)
      BY <2>4 DEF TickFires, SweepRemoves, ResendEnds, SweepReads
    <3>2. todo' = todo /\ \A u \in Threads : u # Tick => job'[u] = job[u]
      BY <2>4 DEF TickFires, SweepRemoves, ResendEnds, SweepReads, TypeOK, ThreadsType, local
    <3> QED
      BY <2>1, <3>1, <3>2, PlaceGoes
  <2> QED
    BY <1>5, <2>2, <2>3, <2>4 DEF Sweep
<1>6. ASSUME NEW r \in Recs, NEW end \in Endings, ChildExits(r, end) PROVE PlaceInv'
  BY <1>0, <1>6 DEF ChildExits, local
<1>7. CASE StopBegins \/ StopSignals \/ StopDrained \/ GraceExpires \/ Restart \/ UNCHANGED vars
  BY <1>0, <1>7 DEF StopBegins, StopSignals, StopDrained, GraceExpires, Restart, vars, local
<1>8. CASE Exit \/ Crash
  BY <1>8 DEF Exit, Crash, ProcessEnds, PlaceInv
<1> QED
  BY <1>1, <1>2, <1>3, <1>4, <1>5, <1>6, <1>7, <1>8 DEF Next, StopGoesOn

-----------------------------------------------------------------------------
(***************************************************************************)
(* Outcomes.                                                               *)
(***************************************************************************)

\* Nobody holds an outcome that was not held before.
NoNews ==
    \A j \in Jobs, g \in 0 .. MaxGen, s \in Settlings : Outcome(j, g, s)' => Outcome(j, g, s)

\* Everything that is said of a settled recording was held before.
LEMMA Grounded ==
    ASSUME \A j \in Jobs : disk'[j].state \in Settlings => Outcome(j, disk'[j].gen, disk'[j].state),
           \A t \in Threads : job'[t].id \in Jobs /\ job'[t].state \in Settlings =>
               Outcome(job'[t].id, job'[t].gen, job'[t].state),
           \A j \in Jobs : \A g \in delivered'[j] : Outcome(j, g, "finished"),
           \A c \in todo' : c.id \in Jobs => Outcome(c.id, c.gen, "finished"),
           \A j \in Jobs : \A n \in notes'[j] : Outcome(j, n[1], "failed")
    PROVE  NoNews
<1> SUFFICES ASSUME NEW j \in Jobs, NEW g \in 0 .. MaxGen, NEW s \in Settlings, Outcome(j, g, s)'
             PROVE  Outcome(j, g, s)
  BY DEF NoNews
<1>1. CASE disk'[j].gen = g /\ disk'[j].state = s
  BY <1>1
<1>2. ASSUME NEW t \in Threads, job'[t].id = j, job'[t].gen = g, job'[t].state = s
      PROVE  Outcome(j, g, s)
  BY <1>2
<1>3. CASE s = "finished" /\ (g \in delivered'[j] \/ \E c \in todo' : c.id = j /\ c.gen = g)
  BY <1>3
<1>4. CASE s = "failed" /\ \E n \in notes'[j] : n[1] = g
  BY <1>4
<1> QED
  BY <1>1, <1>2, <1>3, <1>4 DEF Outcome

\* What is held.
LEMMA Grounds ==
    /\ \A j \in Jobs : Outcome(j, disk[j].gen, disk[j].state)
    /\ \A t \in Threads : Outcome(job[t].id, job[t].gen, job[t].state)
    /\ \A j \in Jobs : \A g \in delivered[j] : Outcome(j, g, "finished")
    /\ \A c \in todo : Outcome(c.id, c.gen, "finished")
    /\ \A j \in Jobs : \A n \in notes[j] : Outcome(j, n[1], "failed")
  BY DEF Outcome

\* A step without news that unsettles nothing and starts no recording.
LEMMA KeptOutcomes ==
    ASSUME OutcomeInv, NoNews, issued' = issued,
           \A j \in Jobs : disk'[j].state = "recording" =>
               disk[j].state = "recording" /\ disk'[j].gen = disk[j].gen,
           \A t \in RunThreads : Unsettled(t)' => Unsettled(t)
    PROVE  OutcomeInv'
<1> SUFFICES ASSUME NEW j \in Jobs, NEW g \in 0 .. MaxGen
             PROVE  /\ \A s \in Settlings : Outcome(j, g, s)' =>
                        /\ g \in 1 .. issued[j]
                        /\ ~(disk'[j].state = "recording" /\ disk'[j].gen = g)
                        /\ \A t \in RunThreads : t[2] = j /\ t[3] = g => ~Unsettled(t)'
                    /\ ~(Outcome(j, g, "finished")' /\ Outcome(j, g, "failed")')
  BY DEF OutcomeInv
<1>1. \A s \in Settlings : Outcome(j, g, s)' => Outcome(j, g, s)
  BY DEF NoNews
<1>2. Outcome(j, g, "finished")' => Outcome(j, g, "finished")
  BY <1>1 DEF Settlings
<1>3. Outcome(j, g, "failed")' => Outcome(j, g, "failed")
  BY <1>1 DEF Settlings
<1> QED
  BY <1>1, <1>2, <1>3 DEF OutcomeInv

\* A recording that comes to its outcome: it had none, and nobody unsettles it.
LEMMA NewOutcome ==
    ASSUME OutcomeInv, issued' = issued, NEW i \in Jobs, NEW h \in 1 .. issued[i], NEW z \in Settlings,
           \A s \in Settlings : ~Outcome(i, h, s),
           \A j \in Jobs, g \in 0 .. MaxGen, s \in Settlings :
               Outcome(j, g, s)' => Outcome(j, g, s) \/ (j = i /\ g = h /\ s = z),
           disk'[i].state # "recording",
           \A j \in Jobs : j # i => disk'[j] = disk[j],
           \A t \in RunThreads : Unsettled(t)' => Unsettled(t) /\ ~(t[2] = i /\ t[3] = h)
    PROVE  OutcomeInv'
<1> SUFFICES ASSUME NEW j \in Jobs, NEW g \in 0 .. MaxGen
             PROVE  /\ \A s \in Settlings : Outcome(j, g, s)' =>
                        /\ g \in 1 .. issued[j]
                        /\ ~(disk'[j].state = "recording" /\ disk'[j].gen = g)
                        /\ \A t \in RunThreads : t[2] = j /\ t[3] = g => ~Unsettled(t)'
                    /\ ~(Outcome(j, g, "finished")' /\ Outcome(j, g, "failed")')
  BY DEF OutcomeInv
<1>1. CASE j = i /\ g = h
  <2>1. \A s \in Settlings : Outcome(j, g, s)' => s = z
    BY <1>1
  <2>2. ~(Outcome(j, g, "finished")' /\ Outcome(j, g, "failed")')
    BY <2>1 DEF Settlings
  <2> QED
    BY <1>1, <2>2
<1>2. CASE ~(j = i /\ g = h)
  <2>1. \A s \in Settlings : Outcome(j, g, s)' => Outcome(j, g, s)
    BY <1>2
  <2>2. Outcome(j, g, "finished")' => Outcome(j, g, "finished")
    BY <2>1 DEF Settlings
  <2>3. Outcome(j, g, "failed")' => Outcome(j, g, "failed")
    BY <2>1 DEF Settlings
  <2> QED
    BY <2>1, <2>2, <2>3 DEF OutcomeInv
<1> QED
  BY <1>1, <1>2

\* A click that is accepted starts a recording that has no outcome yet.
LEMMA AcceptOutcomes ==
    ASSUME TypeOK, OutcomeInv, NEW i \in Jobs, NEW h \in Gens, ClickAccept(i, h)
    PROVE  OutcomeInv'
<1> DEFINE n == RunThread(i, h)
<1>0. n \in RunThreads /\ n \in Threads /\ n[2] = i /\ n[3] = h
  BY ThreadNames DEF RunThread
<1>1. disk'[i] = File("recording", h, "none", FALSE) /\ \A k \in Jobs : k # i => disk'[k] = disk[k]
  BY DEF ClickAccept, Saved, TypeOK, DiskType
<1>2. issued[i] \in Nat /\ h = issued[i] + 1 /\ issued'[i] = h /\ \A k \in Jobs : k # i => issued'[k] = issued[k]
  BY DEF ClickAccept, TypeOK, DiskType
<1>3. job'[n] = Copy(i, h, "recording", "none")
  BY <1>0 DEF ClickAccept, TypeOK, ThreadsType
<1>4. \A t \in Threads : t # n => pc'[t] = pc[t] /\ job'[t] = job[t]
  BY <1>0 DEF ClickAccept, Goto, TypeOK, ThreadsType
<1>5. \A t \in RunThreads : t # n => (Unsettled(t)' => Unsettled(t))
  BY <1>4, ThreadNames DEF Unsettled, Unspawned, Attending
<1>6. "recording" \notin Settlings
  BY DEF Settlings
<1>7. UNCHANGED <<delivered, todo, notes>>
  BY DEF ClickAccept, zulip
<1>8. NoNews
  <2>1. \A k \in Jobs : disk'[k].state \in Settlings => Outcome(k, disk'[k].gen, disk'[k].state)
    BY <1>1, <1>6, Grounds DEF File
  <2>2. \A t \in Threads : job'[t].id \in Jobs /\ job'[t].state \in Settlings =>
            Outcome(job'[t].id, job'[t].gen, job'[t].state)
    BY <1>3, <1>4, <1>6, Grounds DEF Copy
  <2> QED
    BY <1>7, <2>1, <2>2, Grounds, Grounded
<1>9. \A s \in Settlings : ~Outcome(i, h, s)
  <2>1. h \notin 1 .. issued[i] /\ h \in 0 .. MaxGen
    BY <1>2, BoundsAssumption DEF Gens
  <2> QED
    BY <2>1 DEF OutcomeInv
<1> SUFFICES ASSUME NEW j \in Jobs, NEW g \in 0 .. MaxGen
             PROVE  /\ \A s \in Settlings : Outcome(j, g, s)' =>
                        /\ g \in 1 .. issued'[j]
                        /\ ~(disk'[j].state = "recording" /\ disk'[j].gen = g)
                        /\ \A t \in RunThreads : t[2] = j /\ t[3] = g => ~Unsettled(t)'
                    /\ ~(Outcome(j, g, "finished")' /\ Outcome(j, g, "failed")')
  BY DEF OutcomeInv
<1>10. \A s \in Settlings : Outcome(j, g, s)' => Outcome(j, g, s)
  BY <1>8 DEF NoNews
<1>11. ~(Outcome(j, g, "finished")' /\ Outcome(j, g, "failed")')
  BY <1>10 DEF OutcomeInv, Settlings
<1>12. ASSUME NEW s \in Settlings, Outcome(j, g, s)'
       PROVE  /\ g \in 1 .. issued'[j]
              /\ ~(disk'[j].state = "recording" /\ disk'[j].gen = g)
              /\ \A t \in RunThreads : t[2] = j /\ t[3] = g => ~Unsettled(t)'
  <2>1. Outcome(j, g, s)
    BY <1>10, <1>12
  <2>2. g \in 1 .. issued[j] /\ ~(disk[j].state = "recording" /\ disk[j].gen = g)
        /\ \A t \in RunThreads : t[2] = j /\ t[3] = g => ~Unsettled(t)
    BY <2>1 DEF OutcomeInv
  <2>3. ~(j = i /\ g = h)
    BY <1>9, <2>1
  <2>4. g \in 1 .. issued'[j]
    BY <1>2, <2>2
  <2>5. ~(disk'[j].state = "recording" /\ disk'[j].gen = g)
    BY <1>1, <2>2, <2>3 DEF File
  <2>6. \A t \in RunThreads : t[2] = j /\ t[3] = g => ~Unsettled(t)'
    BY <1>0, <1>5, <2>2, <2>3
  <2> QED
    BY <2>4, <2>5, <2>6
<1> QED
  BY <1>11, <1>12

\* A recording that settles writes down the outcome it tells.
LEMMA SettleOutcomes ==
    ASSUME TypeOK, SignalInv, CopyInv, OutcomeInv, faults["save"] = 0, NEW t \in RunThreads, Settle(t)
    PROVE  OutcomeInv'
<1> DEFINE i == t[2]
           h == t[3]
           z == job'[t].state
<1>0. t \in Threads /\ i \in Jobs /\ h \in Gens
  BY ThreadNames
<1>1. Unsettled(t) /\ pc[t] # "idle"
  BY DEF Settle, Unsettled, Attending
<1>2. h \in 1 .. issued[i] /\ h \in 0 .. MaxGen
  <2>1. issued[i] \in Nat /\ h \in Nat
    BY <1>0 DEF TypeOK, DiskType, Gens
  <2>2. h <= issued[i]
    BY <1>1, <2>1 DEF SignalInv
  <2> QED
    BY <1>0, <2>1, <2>2, BoundsAssumption DEF Gens
<1>3. job'[t].id = i /\ job'[t].gen = h
  <2>1. job[t].id = i /\ job[t].gen = h
    BY <1>1 DEF CopyInv
  <2> QED
    BY <1>0, <2>1 DEF Settle, TypeOK, ThreadsType, Copies
<1>4. z = IF child[Rec(t)] = "ok" THEN "finished" ELSE "failed"
  BY <1>0 DEF Settle, TypeOK, ThreadsType, Copies
<1>5. z \in Settlings
  BY <1>4 DEF Settlings
<1>6. disk' = [disk EXCEPT ![i] = SettledFile(h, child[Rec(t)])]
  BY DEF Settle, Saved, SaveFails, Fault
<1>7. disk'[i].gen = h /\ disk'[i].state = z /\ \A k \in Jobs : k # i => disk'[k] = disk[k]
  BY <1>0, <1>4, <1>6 DEF SettledFile, File, TypeOK, DiskType
<1>8. \A u \in Threads : u # t => pc'[u] = pc[u] /\ job'[u] = job[u]
  BY <1>0 DEF Settle, Goto, TypeOK, ThreadsType
<1>9. pc'[t] \in {"want", "note"}
  BY <1>0 DEF Settle, Goto, TypeOK, ThreadsType
<1>10. \A s \in Settlings : ~Outcome(i, h, s)
  BY <1>0, <1>1, <1>2 DEF OutcomeInv
<1>11. UNCHANGED <<delivered, todo, notes, issued>>
  BY DEF Settle, zulip
<1>12. ASSUME NEW j \in Jobs, NEW g \in 0 .. MaxGen, NEW s \in Settlings, Outcome(j, g, s)'
       PROVE  Outcome(j, g, s) \/ (j = i /\ g = h /\ s = z)
  <2>1. CASE disk'[j].gen = g /\ disk'[j].state = s
    BY <1>7, <2>1, Grounds
  <2>2. ASSUME NEW u \in Threads, job'[u].id = j, job'[u].gen = g, job'[u].state = s
        PROVE  Outcome(j, g, s) \/ (j = i /\ g = h /\ s = z)
    BY <1>3, <1>8, <2>2, Grounds
  <2>3. CASE s = "finished" /\ (g \in delivered'[j] \/ \E c \in todo' : c.id = j /\ c.gen = g)
    BY <1>11, <2>3 DEF Outcome
  <2>4. CASE s = "failed" /\ \E n \in notes'[j] : n[1] = g
    BY <1>11, <2>4 DEF Outcome
  <2> QED
    BY <1>12, <2>1, <2>2, <2>3, <2>4 DEF Outcome
<1>13. disk'[i].state # "recording"
  BY <1>5, <1>7 DEF Settlings
<1>14. \A u \in RunThreads : Unsettled(u)' => Unsettled(u) /\ ~(u[2] = i /\ u[3] = h)
  <2>1. \A u \in RunThreads : u # t => (Unsettled(u)' => Unsettled(u)) /\ ~(u[2] = i /\ u[3] = h)
    BY <1>8, ThreadNames DEF Unsettled, Unspawned, Attending
  <2>2. ~Unsettled(t)'
    BY <1>5, <1>9 DEF Unsettled, Unspawned, Attending, Settlings
  <2> QED
    BY <2>1, <2>2
<1> HIDE DEF i, h, z
<1> QED
  BY <1>0, <1>2, <1>5, <1>7, <1>10, <1>11, <1>12, <1>13, <1>14, NewOutcome

\* A recording that was cut short comes to its outcome at the next start.
LEMMA ResumeOutcomes ==
    ASSUME TypeOK, GenInv, PhaseInv, OutcomeInv, faults["save"] = 0, NEW i \in Jobs, ResumeInterrupted(i)
    PROVE  OutcomeInv'
<1> DEFINE r == ResumeThread(i)
<1>0. r \in Threads /\ r \notin RunThreads
  BY ThreadNames
<1>1. disk[i].state = "recording" /\ issued' = issued /\ phase = "resume"
  BY DEF ResumeInterrupted, LeftRecording, Resumed
<1>2. PICK h \in 1 .. issued[i] : h \in 0 .. MaxGen /\ h = disk[i].gen
  BY <1>1 DEF GenInv, TypeOK, DiskType, Files
<1>3. disk'[i] = File("failed", h, "interrupted", FALSE) /\ \A k \in Jobs : k # i => disk'[k] = disk[k]
  BY <1>2 DEF ResumeInterrupted, Saved, SaveFails, Fault, TypeOK, DiskType
<1>4. job'[r] = Copy(i, h, "failed", "interrupted") /\ \A u \in Threads : u # r => job'[u] = job[u]
  BY <1>0, <1>2 DEF ResumeInterrupted, TypeOK, ThreadsType
<1>5. UNCHANGED <<delivered, todo, notes>>
  BY DEF ResumeInterrupted, Resumed, zulip
<1>6. \A s \in Settlings : ~Outcome(i, h, s)
  BY <1>1, <1>2 DEF OutcomeInv
<1>7. ASSUME NEW j \in Jobs, NEW g \in 0 .. MaxGen, NEW s \in Settlings, Outcome(j, g, s)'
      PROVE  Outcome(j, g, s) \/ (j = i /\ g = h /\ s = "failed")
  <2>1. CASE disk'[j].gen = g /\ disk'[j].state = s
    BY <1>3, <2>1, Grounds DEF File
  <2>2. ASSUME NEW u \in Threads, job'[u].id = j, job'[u].gen = g, job'[u].state = s
        PROVE  Outcome(j, g, s) \/ (j = i /\ g = h /\ s = "failed")
    BY <1>4, <2>2, Grounds DEF Copy
  <2>3. CASE s = "finished" /\ (g \in delivered'[j] \/ \E c \in todo' : c.id = j /\ c.gen = g)
    BY <1>5, <2>3 DEF Outcome
  <2>4. CASE s = "failed" /\ \E n \in notes'[j] : n[1] = g
    BY <1>5, <2>4 DEF Outcome
  <2> QED
    BY <1>7, <2>1, <2>2, <2>3, <2>4 DEF Outcome
<1>8. \A t \in RunThreads : ~Unsettled(t)'
  <2>1. Quiet
    BY QuietMain DEF Resume
  <2> QED
    BY <1>1, <2>1 DEF PhaseInv, Quiet, Unsettled, Unspawned, Attending
<1>9. disk'[i].state # "recording" /\ "failed" \in Settlings
  BY <1>3 DEF File, Settlings
<1>10. issued' = issued /\ h \in 1 .. issued[i]
  BY <1>1, <1>2
<1>11. \A j \in Jobs : j # i => disk'[j] = disk[j]
  BY <1>3
<1>12. PICK z \in Settlings : z = "failed"
  BY <1>9
<1>13. \A j \in Jobs, g \in 0 .. MaxGen, s \in Settlings :
           Outcome(j, g, s)' => Outcome(j, g, s) \/ (j = i /\ g = h /\ s = z)
  BY <1>7, <1>12
<1> QED
  BY <1>6, <1>8, <1>9, <1>10, <1>11, <1>13, NewOutcome

\* No other step brings news, unsettles a run or starts a recording.
LEMMA ThreadOutcomes ==
    ASSUME TypeOK, PlaceInv, OutcomeInv, NEW t \in Threads, Indicator(t) \/ PostNote(t) \/ Delivery(t)
    PROVE  OutcomeInv'
<1>1. UNCHANGED <<issued, job, todo>>
  BY DEF Indicator, LockIndicator, IndicatorCall, IndicatorCallFails, ReleaseIndicator,
     PostNote, Delivery, Deliver, DeliveryUnanswered, DeliveryGivesUp, StampDelivered, local
<1>2. \A j \in Jobs : disk'[j].gen = disk[j].gen /\ disk'[j].state = disk[j].state
  <2>1. \/ disk' = disk
        \/ disk' = [disk EXCEPT ![job[t].id] = [disk[job[t].id] EXCEPT !.sent = TRUE]]
    BY DEF Indicator, LockIndicator, IndicatorCall, IndicatorCallFails, ReleaseIndicator,
       PostNote, Delivery, Deliver, DeliveryUnanswered, DeliveryGivesUp, StampDelivered, Saved, SaveFails
  <2> QED
    BY <2>1 DEF TypeOK, DiskType, Files
<1>3. \A j \in Jobs : \A n \in notes'[j] : Outcome(j, n[1], "failed")
  <2>1. CASE notes' = notes
    BY <2>1, Grounds
  <2>2. CASE notes' = [notes EXCEPT ![job[t].id] = @ \cup {<<job[t].gen, job[t].err>>}] /\ pc[t] = "note"
    <3>1. job[t].state = "failed"
      BY <2>2 DEF PlaceInv
    <3>2. \A j \in Jobs : \A n \in notes'[j] : n \in notes[j] \/ (j = job[t].id /\ n[1] = job[t].gen)
      BY <2>2 DEF TypeOK, OutsideType
    <3> QED
      BY <3>1, <3>2, Grounds
  <2> QED
    BY <2>1, <2>2 DEF Indicator, LockIndicator, IndicatorCall, IndicatorCallFails, ReleaseIndicator,
       PostNote, Delivery, Deliver, DeliveryUnanswered, DeliveryGivesUp, StampDelivered, zulip
<1>4. \A j \in Jobs : \A g \in delivered'[j] : Outcome(j, g, "finished")
  <2>1. CASE delivered' = delivered
    BY <2>1, Grounds
  <2>2. CASE delivered' = [delivered EXCEPT ![job[t].id] = @ \cup {job[t].gen}] /\ pc[t] = "deliver"
    <3>1. job[t].state = "finished"
      BY <2>2 DEF PlaceInv
    <3>2. \A j \in Jobs : \A g \in delivered'[j] : g \in delivered[j] \/ (j = job[t].id /\ g = job[t].gen)
      BY <2>2 DEF TypeOK, OutsideType
    <3> QED
      BY <3>1, <3>2, Grounds
  <2> QED
    BY <2>1, <2>2 DEF Indicator, LockIndicator, IndicatorCall, IndicatorCallFails, ReleaseIndicator,
       PostNote, Delivery, Deliver, DeliveryUnanswered, DeliveryGivesUp, StampDelivered
<1>5. NoNews
  BY <1>1, <1>2, <1>3, <1>4, Grounds, Grounded
<1>6. Quiet
  BY QuietThread
<1> QED
  BY <1>1, <1>2, <1>5, <1>6, KeptOutcomes DEF Quiet, Unsettled

\* The rest of Resume hands on what the files say.
LEMMA OtherResumeOutcomes ==
    ASSUME TypeOK, OutcomeInv, Resume, \A j \in Jobs : ~ResumeInterrupted(j)
    PROVE  OutcomeInv'
<1>1. UNCHANGED <<issued, todo, delivered, notes>>
  BY DEF Resume, ListJobs, ResumeReturns, BootSweep, ResumeUnsent, ResumeNothing, Resumed, local, zulip
<1>2. \A j \in Jobs : disk'[j] = disk[j] \/ disk'[j] = NoFile
  BY DEF Resume, ListJobs, ResumeReturns, BootSweep, ResumeUnsent, ResumeNothing, TypeOK, DiskType
<1>3. NoFile.state = "absent"
  BY DEF NoFile, Life!NoFile
<1>4. \A j \in Jobs : disk'[j].state \in Settlings => Outcome(j, disk'[j].gen, disk'[j].state)
  BY <1>2, <1>3, Grounds DEF Settlings
<1>5. \A t \in Threads : Outcome(job'[t].id, job'[t].gen, job'[t].state)
  <2>1. CASE job' = job
    BY <2>1, Grounds
  <2>2. ASSUME NEW j \in Jobs, ResumeUnsent(j)
        PROVE  \A t \in Threads : Outcome(job'[t].id, job'[t].gen, job'[t].state)
    <3> DEFINE r == ResumeThread(j)
    <3>1. disk[j].state = "finished" /\ job' = [job EXCEPT ![r] = Copy(j, disk[j].gen, "finished", "none")]
      BY <2>2 DEF ResumeUnsent
    <3>2. job'[r] = Copy(j, disk[j].gen, "finished", "none") /\ \A t \in Threads : t # r => job'[t] = job[t]
      BY <3>1, ThreadNames DEF TypeOK, ThreadsType
    <3> QED
      BY <3>1, <3>2, Grounds DEF Copy
  <2> QED
    BY <2>1, <2>2 DEF Resume, ListJobs, ResumeReturns, BootSweep, ResumeNothing, local
<1>6. NoNews
  BY <1>1, <1>4, <1>5, Grounds, Grounded
<1>7. Quiet
  BY QuietMain
<1> QED
  BY <1>1, <1>2, <1>3, <1>6, <1>7, KeptOutcomes DEF Quiet, Unsettled

\* So does the ticker, whatever has become of the jobs since it read them.
LEMMA SweepOutcomes ==
    ASSUME TypeOK, PlaceInv, OutcomeInv, Sweep
    PROVE  OutcomeInv'
<1>0. Tick \in Threads
  BY ThreadNames
<1>1. UNCHANGED <<issued, delivered, notes>>
  BY DEF Sweep, TickFires, SweepRemoves, SweepLists, ResendEnds, SweepReads, ResendNext, zulip
<1>2. \A j \in Jobs : disk'[j] = disk[j] \/ disk'[j] = NoFile
  BY DEF Sweep, TickFires, SweepRemoves, SweepLists, ResendEnds, SweepReads, ResendNext, TypeOK, DiskType
<1>3. NoFile.state = "absent"
  BY DEF NoFile, Life!NoFile
<1>4. \A j \in Jobs : disk'[j].state \in Settlings => Outcome(j, disk'[j].gen, disk'[j].state)
  BY <1>2, <1>3, Grounds DEF Settlings
<1>5. \A t \in Threads : t # Tick => job'[t] = job[t]
  BY DEF Sweep, TickFires, SweepRemoves, SweepLists, ResendEnds, SweepReads, ResendNext,
     TypeOK, ThreadsType, local
<1>6. job'[Tick].id \in Jobs => Outcome(job'[Tick].id, job'[Tick].gen, job'[Tick].state)
  <2>1. CASE job' = job
    BY <1>0, <2>1, Grounds
  <2>2. ASSUME NEW j \in Jobs, SweepReads(j)
        PROVE  Outcome(job'[Tick].id, job'[Tick].gen, job'[Tick].state)
    <3>1. job'[Tick] = Copy(j, disk[j].gen, disk[j].state, disk[j].err)
      BY <1>0, <2>2 DEF SweepReads, TypeOK, ThreadsType
    <3> QED
      BY <3>1, Grounds DEF Copy
  <2>3. CASE SweepRemoves \/ ResendEnds
    BY <1>0, <2>3, JobsAssumption DEF SweepRemoves, ResendEnds, NoCopy, Copy, TypeOK, ThreadsType
  <2>4. ASSUME NEW c \in todo, ResendNext(c)
        PROVE  Outcome(job'[Tick].id, job'[Tick].gen, job'[Tick].state)
    <3>1. job'[Tick] = c /\ c.state = "finished"
      BY <1>0, <2>4 DEF ResendNext, PlaceInv, TypeOK, ThreadsType
    <3> QED
      BY <3>1, Grounds
  <2> QED
    BY <2>1, <2>2, <2>3, <2>4 DEF Sweep, TickFires, SweepLists, local
<1>7. \A c \in todo' : Outcome(c.id, c.gen, "finished")
  <2>1. CASE todo' \subseteq todo
    BY <2>1, Grounds
  <2>2. CASE todo' = Unsent
    <3>1. ASSUME NEW c \in Unsent PROVE Outcome(c.id, c.gen, "finished")
      <4>1. PICK j \in Jobs : disk[j].state = "finished" /\ c = Copy(j, disk[j].gen, "finished", "none")
        BY <3>1 DEF Unsent
      <4> QED
        BY <4>1, Grounds DEF Copy
    <3> QED
      BY <2>2, <3>1
  <2> QED
    BY <2>1, <2>2 DEF Sweep, TickFires, SweepRemoves, SweepLists, ResendEnds, SweepReads, ResendNext, local
<1>8. NoNews
  BY <1>1, <1>4, <1>5, <1>6, <1>7, Grounds, Grounded
<1>9. Quiet
  BY QuietMain
<1> QED
  BY <1>1, <1>2, <1>3, <1>8, <1>9, KeptOutcomes DEF Quiet, Unsettled

\* OutcomeInv is inductive, as long as no save fails.
LEMMA NextOutcome ==
    ASSUME TypeOK, SignalInv, PhaseInv, CopyInv, GenInv, PlaceInv, OutcomeInv,
           faults["save"] = 0, [Next]_vars
    PROVE  OutcomeInv'
<1>0. ASSUME UNCHANGED <<disk, issued, todo, delivered, notes>>,
             \A t \in Threads : job'[t] = job[t] \/ job'[t].state \notin Settlings,
             \A t \in RunThreads : Unsettled(t)' => Unsettled(t)
      PROVE  OutcomeInv'
  <2>1. NoNews
    BY <1>0, Grounds, Grounded
  <2> QED
    BY <1>0, <2>1, KeptOutcomes
<1>1. ASSUME UNCHANGED <<disk, issued, todo, delivered, notes, pc, job>> PROVE OutcomeInv'
  BY <1>0, <1>1 DEF Unsettled, Unspawned, Attending
<1>2. ASSUME NEW j \in Jobs, Click(j) PROVE OutcomeInv'
  <2>1. ASSUME NEW k \in 1 .. MaxDup, ClickDuplicate(j, k) PROVE OutcomeInv'
    <3>1. Quiet /\ UNCHANGED <<disk, issued, todo, delivered, notes>>
      BY <2>1, QuietMain DEF ClickDuplicate, zulip
    <3>2. \A t \in Threads : job'[t] = job[t] \/ job'[t].state \notin Settlings
      BY <2>1, ThreadNames DEF ClickDuplicate, Copy, Settlings, TypeOK, ThreadsType
    <3> QED
      BY <1>0, <3>1, <3>2 DEF Quiet, Unsettled
  <2>2. CASE ClickSaveFails(j)
    BY <1>1, <2>2 DEF ClickSaveFails, SaveFails, local, zulip
  <2> QED
    BY <1>2, <2>1, <2>2, AcceptOutcomes DEF Click
<1>3. ASSUME NEW t \in RunThreads, Run(t) PROVE OutcomeInv'
  <2>0. t \in Threads
    BY ThreadNames
  <2>1. CASE SpawnChild(t) \/ SpawnFails(t) \/ RegisterChild(t) \/ Cleanup(t)
    <3>1. UNCHANGED <<disk, issued, todo, delivered, notes, job>>
      BY <2>1 DEF SpawnChild, SpawnFails, RegisterChild, Cleanup, local, zulip
    <3>2. \A u \in RunThreads : u # t => pc'[u] = pc[u]
      BY <2>0, <2>1, ThreadNames DEF SpawnChild, SpawnFails, RegisterChild, Cleanup, Goto, TypeOK, ThreadsType
    <3>3. pc[t] \in {"spawn", "spawned"} \/ pc'[t] = "done"
      BY <2>0, <2>1 DEF SpawnChild, SpawnFails, RegisterChild, Cleanup, Goto, TypeOK, ThreadsType
    <3>4. \A u \in RunThreads : Unsettled(u)' => Unsettled(u)
      BY <3>1, <3>2, <3>3 DEF Unsettled, Unspawned, Attending
    <3> QED
      BY <1>0, <3>1, <3>4
  <2> QED
    BY <1>3, <2>1, SettleOutcomes DEF Run
<1>4. CASE Resume
  <2>1. ASSUME NEW j \in Jobs, ResumeInterrupted(j) PROVE OutcomeInv'
    BY <2>1, ResumeOutcomes
  <2> QED
    BY <1>4, <2>1, OtherResumeOutcomes
<1>5. ASSUME NEW r \in Recs, NEW end \in Endings, ChildExits(r, end) PROVE OutcomeInv'
  BY <1>1, <1>5 DEF ChildExits, local, zulip
<1>6. CASE StopBegins \/ StopSignals \/ StopDrained \/ GraceExpires \/ Restart \/ UNCHANGED vars
  BY <1>1, <1>6 DEF StopBegins, StopSignals, StopDrained, GraceExpires, Restart, vars, local, zulip
<1>7. CASE Exit \/ Crash
  <2>1. UNCHANGED <<disk, issued, delivered, notes>> /\ todo' = {}
    BY <1>7 DEF Exit, Crash, ProcessEnds
  <2>2. \A t \in Threads : job'[t].state \notin Settlings /\ pc'[t] = "idle"
    BY <1>7 DEF Exit, Crash, ProcessEnds, NoCopy, Copy, Settlings
  <2>3. NoNews
    BY <2>1, <2>2, Grounds, Grounded
  <2>4. \A t \in RunThreads : ~Unsettled(t)'
    BY <2>2, ThreadNames DEF Unsettled, Unspawned, Attending
  <2> QED
    BY <2>1, <2>3, <2>4, KeptOutcomes
<1> QED
  BY <1>2, <1>3, <1>4, <1>5, <1>6, <1>7, ThreadOutcomes, SweepOutcomes DEF Next, StopGoesOn

-----------------------------------------------------------------------------
(***************************************************************************)
(* The theorems.                                                           *)
(***************************************************************************)
SaidInv == CopyInv /\ GenInv /\ PlaceInv /\ (SaveFaults = 0 => OutcomeInv)

LEMMA InitSaid == Init => SaidInv
<1> SUFFICES ASSUME Init PROVE SaidInv
  OBVIOUS
<1>1. \A t \in Threads : pc[t] = "idle" /\ job[t].state = "absent"
  BY DEF Init, NoCopy, Copy
<1>2. \A j \in Jobs : disk[j].state = "absent" /\ disk[j].gen = 0 /\ issued[j] = 0
  BY DEF Init, NoFile, Life!NoFile
<1>3. \A t \in RunThreads : ~Unsettled(t)
  BY <1>1, ThreadNames DEF Unsettled, Unspawned, Attending
<1>4. todo = {} /\ \A j \in Jobs : delivered[j] = {} /\ notes[j] = {}
  BY DEF Init
<1>5. \A j \in Jobs, g \in 0 .. MaxGen, s \in Settlings : ~Outcome(j, g, s)
  BY <1>1, <1>2, <1>4 DEF Outcome, Settlings
<1>6. OutcomeInv
  BY <1>5 DEF OutcomeInv, Settlings
<1> QED
  BY <1>1, <1>2, <1>3, <1>4, <1>6 DEF SaidInv, CopyInv, GenInv, PlaceInv

\* The invariants together are inductive.
LEMMA NextSaid == TypeOK /\ SignalInv /\ PhaseInv /\ NoFaultInv /\ SaidInv /\ [Next]_vars => SaidInv'
<1>1. TypeOK /\ SignalInv /\ SaidInv /\ [Next]_vars => CopyInv' /\ GenInv' /\ PlaceInv'
  BY NextCopy, NextGen, NextPlace DEF SaidInv
<1>2. ASSUME TypeOK, SignalInv, PhaseInv, NoFaultInv, SaidInv, [Next]_vars, SaveFaults = 0
      PROVE  OutcomeInv'
  BY <1>2, NextOutcome DEF SaidInv, NoFaultInv
<1> QED
  BY <1>1, <1>2 DEF SaidInv

\* runner.go:298-299: as long as no save fails, whoever reads a failure note and
\* clicks again finds a job that is no longer recording, with retention on or off.
THEOREM NotesTellSettledJobs == Spec => [](SaveFaults = 0 => NotedIsSettled)
<1>1. Init => NoFaultInv
  BY DEF Init, NoFaultInv, FaultKinds
<1>2. TypeOK /\ NoFaultInv /\ [Next]_vars => NoFaultInv'
  BY NextFaults
<1>3. Init => PhaseInv
  BY InitLock DEF LockInv
<1>4. TypeOK /\ PhaseInv /\ [Next]_vars => PhaseInv'
  BY NextPhase
<1>5. TypeOK /\ SaidInv => (SaveFaults = 0 => NotedIsSettled)
  <2> SUFFICES ASSUME TypeOK, GenInv, OutcomeInv, NEW j \in Jobs, NEW n \in notes[j], disk[j].gen = n[1]
               PROVE  disk[j].state = "failed"
    BY DEF SaidInv, NotedIsSettled
  <2> DEFINE g == n[1]
  <2>1. g \in 0 .. MaxGen
    BY DEF TypeOK, OutsideType
  <2>2. Outcome(j, g, "failed") /\ Outcome(j, g, disk[j].state)
    BY Grounds
  <2>3. g \in 1 .. issued[j] /\ disk[j].state # "recording" /\ ~Outcome(j, g, "finished")
    BY <2>1, <2>2 DEF OutcomeInv, Settlings
  <2>4. disk[j].state \in States /\ disk[j].state # "absent"
    BY <2>3 DEF GenInv, TypeOK, DiskType, Files
  <2> QED
    BY <2>2, <2>3, <2>4 DEF States
<1> QED
  BY <1>1, <1>2, <1>3, <1>4, <1>5, TypeCorrect, InitSignals, NextSignals, InitSaid, NextSaid, PTL DEF Spec

\* As long as no save fails, the room is never told of the failure of a recording
\* whose audio the receiver has accepted, however deliveries, sweeps, crashes and
\* restarts interleave.
THEOREM EndingsAgree == Spec => [](SaveFaults = 0 => OneEnding)
<1>1. Init => NoFaultInv
  BY DEF Init, NoFaultInv, FaultKinds
<1>2. TypeOK /\ NoFaultInv /\ [Next]_vars => NoFaultInv'
  BY NextFaults
<1>3. Init => PhaseInv
  BY InitLock DEF LockInv
<1>4. TypeOK /\ PhaseInv /\ [Next]_vars => PhaseInv'
  BY NextPhase
<1>5. TypeOK /\ SaidInv => (SaveFaults = 0 => OneEnding)
  <2> SUFFICES ASSUME TypeOK, OutcomeInv, NEW j \in Jobs, NEW n \in notes[j], n[1] \in delivered[j]
               PROVE  FALSE
    BY DEF SaidInv, OneEnding
  <2>1. n[1] \in 0 .. MaxGen
    BY DEF TypeOK, OutsideType
  <2> QED
    BY <2>1, Grounds DEF OutcomeInv
<1> QED
  BY <1>1, <1>2, <1>3, <1>4, <1>5, TypeCorrect, InitSignals, NextSignals, InitSaid, NextSaid, PTL DEF Spec

-----------------------------------------------------------------------------
(***************************************************************************)
(* The red circle.                                                         *)
(***************************************************************************)

\* Somebody will still look at the file before updating the circle.
WillLook(j) == \E u \in Threads : job[u].id = j /\ pc[u] \in {"note", "want"}

\* Who updates a message's circle holds its lock.
HoldInv == \A t \in Threads : pc[t] = "call" => holder[job[t].id] = t

\* What it is about to ask for is what the file says, or somebody looks after it.
LookInv ==
    \A t \in Threads : pc[t] = "call" =>
        \/ look[t] = (IF disk[job[t].id].state = "recording" THEN "add" ELSE "remove")
        \/ WillLook(job[t].id)

\* The job of an update exists.
ThereInv ==
    \A t \in Threads : pc[t] \in {"note", "want", "call"} =>
        job[t].id \in Jobs /\ disk[job[t].id].state # "absent"

CircleInv == HoldInv /\ LookInv /\ ThereInv /\ IndicatorTruthful

\* No goroutine outlives its process; Resume starts one per job; the ticker
\* updates no circle.
FreshInv ==
    /\ phase \in Ended \cup {"boot"} => \A t \in Threads : pc[t] = "idle"
    /\ phase = "resume" => \A j \in toResume : pc[ResumeThread(j)] = "idle"
    /\ pc[Tick] \notin {"note", "want", "call"}

\* The goroutines have different names.
LEMMA Distinct ==
    /\ \A j \in Jobs : ResumeThread(j) # Tick
    /\ \A i, j \in Jobs : ResumeThread(i) = ResumeThread(j) => i = j
    /\ \A j \in Jobs, k \in 1 .. MaxDup : DupThread(j, k) # Tick /\ \A i \in Jobs : DupThread(j, k) # ResumeThread(i)
    /\ \A t \in RunThreads : t # Tick /\ \A j \in Jobs : t # ResumeThread(j)
  BY DEF RunThreads, RunThread, ResumeThread, DupThread, Tick

\* FreshInv is inductive.
LEMMA NextFresh ==
    ASSUME TypeOK, FreshInv, [Next]_vars
    PROVE  FreshInv'
<1>0. toResume \subseteq Jobs /\ Tick \in Threads
  BY ThreadNames DEF TypeOK, MainType
<1>1. ASSUME NEW t \in Threads, pc[t] # "idle", UNCHANGED <<phase, toResume>>,
             \A u \in Threads : u # t => pc'[u] = pc[u],
             t = Tick => pc'[t] \notin {"note", "want", "call"}
      PROVE  FreshInv'
  <2>1. phase \notin Ended \cup {"boot"}
    BY <1>1 DEF FreshInv
  <2>2. phase = "resume" => \A j \in toResume : ResumeThread(j) # t /\ ResumeThread(j) \in Threads
    BY <1>0, <1>1, ThreadNames DEF FreshInv
  <2> QED
    BY <1>0, <1>1, <2>1, <2>2 DEF FreshInv
<1>2. ASSUME phase' \notin Ended \cup {"boot", "resume"}, pc'[Tick] \notin {"note", "want", "call"}
      PROVE  FreshInv'
  BY <1>2 DEF FreshInv
<1>3. ASSUME NEW j \in Jobs, Click(j) PROVE FreshInv'
  <2>1. phase' = "up"
    BY <1>3 DEF Click, ClickAccept, ClickDuplicate, ClickSaveFails, main
  <2>2. pc'[Tick] = pc[Tick]
    <3>1. ASSUME NEW k \in 1 .. MaxDup, ClickDuplicate(j, k) PROVE pc'[Tick] = pc[Tick]
      BY <1>0, <3>1, Distinct DEF ClickDuplicate, Goto, TypeOK, ThreadsType
    <3>2. ASSUME NEW g \in Gens, ClickAccept(j, g) PROVE pc'[Tick] = pc[Tick]
      <4>1. RunThread(j, g) # Tick
        BY ThreadNames, Distinct
      <4> QED
        BY <1>0, <3>2, <4>1 DEF ClickAccept, Goto, TypeOK, ThreadsType
    <3> QED
      BY <1>3, <3>1, <3>2 DEF Click, ClickSaveFails
  <2> QED
    BY <1>2, <2>1, <2>2 DEF FreshInv, Ended
<1>4. ASSUME NEW t \in Threads, Indicator(t) \/ PostNote(t) \/ Delivery(t) PROVE FreshInv'
  <2>1. UNCHANGED <<phase, toResume>> /\ pc[t] # "idle"
    BY <1>4 DEF Indicator, LockIndicator, IndicatorCall, IndicatorCallFails, ReleaseIndicator,
       PostNote, Delivery, Deliver, DeliveryUnanswered, DeliveryGivesUp, StampDelivered, main
  <2>2. \A u \in Threads : u # t => pc'[u] = pc[u]
    BY <1>4 DEF Indicator, LockIndicator, IndicatorCall, IndicatorCallFails, ReleaseIndicator,
       PostNote, Delivery, Deliver, DeliveryUnanswered, DeliveryGivesUp, StampDelivered,
       Goto, TypeOK, ThreadsType
  <2>3. ASSUME t = Tick PROVE pc'[t] \notin {"note", "want", "call"}
    <3>1. Delivery(t)
      BY <1>4, <2>3 DEF FreshInv, Indicator, LockIndicator, IndicatorCall, IndicatorCallFails,
         ReleaseIndicator, PostNote
    <3>2. pc'[t] \in {"deliver", "stamp", AfterDelivery(t)}
      BY <3>1 DEF Delivery, Deliver, DeliveryUnanswered, DeliveryGivesUp, StampDelivered, Goto,
         TypeOK, ThreadsType
    <3> QED
      BY <3>2 DEF AfterDelivery
  <2> QED
    BY <1>1, <2>1, <2>2, <2>3
<1>5. ASSUME NEW t \in RunThreads, Run(t) PROVE FreshInv'
  <2>1. UNCHANGED <<phase, toResume>> /\ pc[t] # "idle" /\ t \in Threads
    BY <1>5, ThreadNames DEF Run, SpawnChild, SpawnFails, RegisterChild, Settle, Cleanup, main
  <2>2. \A u \in Threads : u # t => pc'[u] = pc[u]
    BY <1>5, <2>1 DEF Run, SpawnChild, SpawnFails, RegisterChild, Settle, Cleanup, Goto, TypeOK, ThreadsType
  <2> QED
    BY <1>1, <2>1, <2>2, Distinct
<1>6. CASE Resume
  <2>1. CASE ListJobs \/ ResumeReturns
    <3>1. pc' = pc /\ phase' \in {"resume", "up"} /\ (phase' = "resume" => phase = "boot" /\ toResume' \subseteq Jobs)
      BY <2>1 DEF ListJobs, ResumeReturns
    <3>2. phase' = "resume" => \A j \in toResume' : pc[ResumeThread(j)] = "idle"
      BY <3>1, ThreadNames DEF FreshInv
    <3> QED
      BY <3>1, <3>2 DEF FreshInv, Ended
  <2>2. ASSUME NEW j \in Jobs, BootSweep(j) PROVE FreshInv'
    BY <2>2 DEF BootSweep, main, FreshInv
  <2>3. ASSUME NEW j \in Jobs, ResumeInterrupted(j) \/ ResumeUnsent(j) \/ ResumeNothing(j)
        PROVE  FreshInv'
    <3>1. phase = "resume" /\ phase' = "resume" /\ toResume' = toResume \ {j}
      BY <2>3 DEF ResumeInterrupted, ResumeUnsent, ResumeNothing, Resumed
    <3>2. \A u \in Threads : u # ResumeThread(j) => pc'[u] = pc[u]
      BY <2>3 DEF ResumeInterrupted, ResumeUnsent, ResumeNothing, Resumed, Goto, TypeOK, ThreadsType
    <3>3. \A i \in toResume' : ResumeThread(i) \in Threads /\ ResumeThread(i) # ResumeThread(j)
      BY <1>0, <3>1, ThreadNames, Distinct
    <3>4. pc'[Tick] = pc[Tick]
      BY <1>0, <3>2, Distinct
    <3> QED
      BY <3>1, <3>2, <3>3, <3>4 DEF FreshInv, Ended
  <2> QED
    BY <1>6, <2>1, <2>2, <2>3 DEF Resume
<1>7. CASE Sweep
  <2>1. UNCHANGED <<phase, toResume>> /\ \A u \in Threads : u # Tick => pc'[u] = pc[u]
    BY <1>7 DEF Sweep, TickFires, SweepRemoves, SweepLists, ResendEnds, SweepReads, ResendNext, main,
       Goto, TypeOK, ThreadsType
  <2>2. pc'[Tick] \notin {"note", "want", "call"}
    BY <1>0, <1>7 DEF Sweep, TickFires, SweepRemoves, SweepLists, ResendEnds, SweepReads, ResendNext,
       Goto, TypeOK, ThreadsType
  <2>3. phase = "up" \/ pc[Tick] # "idle"
    BY <1>7 DEF Sweep, TickFires, SweepRemoves, SweepLists, ResendEnds, SweepReads, ResendNext
  <2> QED
    BY <1>0, <1>1, <1>2, <2>1, <2>2, <2>3 DEF Ended
<1>8. ASSUME NEW r \in Recs, NEW end \in Endings, ChildExits(r, end) PROVE FreshInv'
  BY <1>8 DEF ChildExits, main, FreshInv
<1>9. CASE StopBegins \/ StopSignals \/ StopDrained \/ GraceExpires
  BY <1>2, <1>9 DEF StopBegins, StopSignals, StopDrained, GraceExpires, Ended, FreshInv
<1>10. CASE Exit \/ Crash
  BY <1>0, <1>10 DEF Exit, Crash, ProcessEnds, FreshInv, Ended
<1>11. CASE Restart \/ UNCHANGED vars
  BY <1>11 DEF Restart, vars, main, FreshInv, Ended
<1> QED
  BY <1>3, <1>4, <1>5, <1>6, <1>7, <1>8, <1>9, <1>10, <1>11 DEF Next, StopGoesOn

\* A step of one goroutine outside its Zulip call: it drops no update that is
\* ahead of it, and has one ahead of it if it changes what the circle should be.
LEMMA ThreadCircle ==
    ASSUME CircleInv, NEW t \in Threads, UNCHANGED <<look, holder, emoji, missed>>,
           \A u \in Threads : u # t => pc'[u] = pc[u] /\ job'[u] = job[u],
           pc[t] # "call", pc'[t] # "call",
           pc[t] \in {"note", "want"} => pc'[t] \in {"note", "want"} /\ job'[t].id = job[t].id,
           pc'[t] \in {"note", "want"} => job'[t].id \in Jobs /\ disk'[job'[t].id].state # "absent",
           \A j \in Jobs : disk[j].state # "absent" => disk'[j].state # "absent",
           \A j \in Jobs : \/ disk'[j].state = "recording" <=> disk[j].state = "recording"
                           \/ pc'[t] \in {"note", "want"} /\ job'[t].id = j
    PROVE  CircleInv'
<1>1. \A u \in Threads : pc'[u] = "call" \/ pc[u] = "call" => pc'[u] = pc[u] /\ job'[u] = job[u]
  OBVIOUS
<1>2. \A j \in Jobs : WillLook(j) => WillLook(j)'
  BY DEF WillLook
<1>3. \A j \in Jobs : pc'[t] \in {"note", "want"} /\ job'[t].id = j => WillLook(j)'
  BY DEF WillLook
<1>4. \A j \in Jobs : Updating(j) => Updating(j)'
  BY <1>1 DEF Updating
<1>5. \A j \in Jobs : WillLook(j)' => Updating(j)'
  BY DEF WillLook, Updating
<1>6. HoldInv'
  BY <1>1 DEF CircleInv, HoldInv
<1>7. ThereInv'
  <2> SUFFICES ASSUME NEW u \in Threads, pc'[u] \in {"note", "want", "call"}
               PROVE  job'[u].id \in Jobs /\ disk'[job'[u].id].state # "absent"
    BY DEF ThereInv
  <2>1. CASE u = t
    BY <2>1
  <2>2. CASE u # t
    BY <2>2 DEF CircleInv, ThereInv
  <2> QED
    BY <2>1, <2>2
<1>8. LookInv'
  <2> SUFFICES ASSUME NEW u \in Threads, pc'[u] = "call", NEW j \in Jobs, job'[u].id = j
               PROVE  \/ look[u] = (IF disk'[j].state = "recording" THEN "add" ELSE "remove")
                      \/ WillLook(j)'
    BY <1>7 DEF LookInv, ThereInv
  <2>1. pc[u] = "call" /\ job[u].id = j
    BY <1>1
  <2>2. \/ look[u] = (IF disk[j].state = "recording" THEN "add" ELSE "remove")
        \/ WillLook(j)
    BY <2>1 DEF CircleInv, LookInv
  <2> QED
    BY <1>2, <1>3, <2>2
<1>9. IndicatorTruthful'
  <2> SUFFICES ASSUME NEW j \in Jobs
               PROVE  Updating(j)' \/ missed[j] \/ (emoji[j] <=> disk'[j].state = "recording")
    BY DEF IndicatorTruthful
  <2>1. Updating(j) \/ missed[j] \/ (emoji[j] <=> disk[j].state = "recording")
    BY DEF CircleInv, IndicatorTruthful
  <2> QED
    BY <1>3, <1>4, <1>5, <2>1
<1> QED
  BY <1>6, <1>7, <1>8, <1>9 DEF CircleInv

\* With the lock held, the file is read as it is, and nobody else is in a call.
LEMMA LockCircle ==
    ASSUME TypeOK, CircleInv, NEW t \in Threads, ~saveErr[t], LockIndicator(t)
    PROVE  CircleInv'
<1> DEFINE i == job[t].id
<1>1. pc[t] = "want" /\ holder[i] = Nobody /\ UNCHANGED <<job, disk, emoji, missed>>
  BY DEF LockIndicator, local, zulip
<1>2. pc'[t] = "call" /\ \A u \in Threads : u # t => pc'[u] = pc[u]
  BY DEF LockIndicator, Goto, TypeOK, ThreadsType
<1>3. i \in Jobs /\ disk[i].state # "absent"
  BY <1>1 DEF CircleInv, ThereInv
<1>4. holder'[i] = t /\ \A j \in Jobs : j # i => holder'[j] = holder[j]
  BY <1>3 DEF LockIndicator, TypeOK, ThreadsType
<1>5. look'[t] = Wanted(t) /\ \A u \in Threads : u # t => look'[u] = look[u]
  BY DEF LockIndicator, TypeOK, ThreadsType
<1>6. Wanted(t) = IF disk[i].state = "recording" THEN "add" ELSE "remove"
  BY <1>3 DEF Wanted
<1>7. \A u \in Threads : pc[u] = "call" => job[u].id # i
  BY <1>1, NobodyAssumption DEF CircleInv, HoldInv
<1>8. \A u \in Threads : pc'[u] = "call" /\ u # t => pc[u] = "call" /\ job[u].id # i
  BY <1>2, <1>7
<1>9. HoldInv'
  BY <1>1, <1>2, <1>3, <1>4, <1>8 DEF CircleInv, HoldInv, ThereInv
<1>10. ThereInv'
  BY <1>1, <1>2 DEF CircleInv, ThereInv
<1>11. \A j : WillLook(j) /\ j # i => WillLook(j)'
  BY <1>1, <1>2 DEF WillLook
<1>12. LookInv'
  <2> SUFFICES ASSUME NEW u \in Threads, pc'[u] = "call", NEW j, j = job[u].id
               PROVE  \/ look'[u] = (IF disk[j].state = "recording" THEN "add" ELSE "remove")
                      \/ WillLook(j)'
    BY <1>1 DEF LookInv
  <2>1. CASE u = t
    BY <1>5, <1>6, <2>1
  <2>2. CASE u # t
    <3>1. pc[u] = "call" /\ j # i
      BY <1>8, <2>2
    <3> QED
      BY <1>5, <1>11, <2>2, <3>1 DEF CircleInv, LookInv
  <2> QED
    BY <2>1, <2>2
<1>13. \A j \in Jobs : Updating(j) => Updating(j)'
  BY <1>1, <1>2 DEF Updating
<1>14. IndicatorTruthful'
  BY <1>1, <1>13 DEF CircleInv, IndicatorTruthful
<1> QED
  BY <1>9, <1>10, <1>12, <1>14 DEF CircleInv

\* The lock goes back after the call; what is left is who looks after it.
LEMMA ReleaseCircle ==
    ASSUME TypeOK, CircleInv, NEW t \in Threads, ReleaseIndicator(t)
    PROVE  /\ HoldInv' /\ LookInv' /\ ThereInv'
           /\ \A j \in Jobs : WillLook(j) \/ (Updating(j) /\ j # job[t].id) => Updating(j)'
<1> DEFINE i == job[t].id
<1>1. pc[t] = "call" /\ UNCHANGED <<job, disk>>
  BY DEF ReleaseIndicator, local
<1>2. pc'[t] \notin {"note", "want", "call"} /\ \A u \in Threads : u # t => pc'[u] = pc[u]
  BY DEF ReleaseIndicator, Goto, AfterIndicator, TypeOK, ThreadsType
<1>3. i \in Jobs
  BY <1>1 DEF CircleInv, ThereInv
<1>4. \A j \in Jobs : j # i => holder'[j] = holder[j]
  BY DEF ReleaseIndicator, TypeOK, ThreadsType
<1>5. \A u \in Threads : u # t => look'[u] = look[u]
  BY DEF ReleaseIndicator, TypeOK, ThreadsType
<1>6. holder[i] = t
  BY <1>1 DEF CircleInv, HoldInv
<1>7. \A u \in Threads : pc'[u] = "call" => u # t /\ pc[u] = "call" /\ job[u].id # i
  BY <1>2, <1>6 DEF CircleInv, HoldInv
<1>8. HoldInv'
  BY <1>1, <1>4, <1>7 DEF CircleInv, HoldInv, ThereInv
<1>9. ThereInv'
  BY <1>1, <1>2 DEF CircleInv, ThereInv
<1>10. \A j : WillLook(j) => WillLook(j)'
  BY <1>1, <1>2 DEF WillLook
<1>11. LookInv'
  <2> SUFFICES ASSUME NEW u \in Threads, pc'[u] = "call", NEW j, j = job[u].id
               PROVE  \/ look'[u] = (IF disk[j].state = "recording" THEN "add" ELSE "remove")
                      \/ WillLook(j)'
    BY <1>1 DEF LookInv
  <2>1. u # t /\ pc[u] = "call"
    BY <1>7
  <2> QED
    BY <1>5, <1>10, <2>1 DEF CircleInv, LookInv
<1>12. \A j \in Jobs : WillLook(j)' => Updating(j)'
  BY DEF WillLook, Updating
<1>13. \A j \in Jobs : Updating(j) /\ j # i => Updating(j)'
  BY <1>1, <1>2 DEF Updating
<1> QED
  BY <1>8, <1>9, <1>10, <1>11, <1>12, <1>13

\* The call makes the circle what the file says, unless somebody looks after it.
LEMMA CallCircle ==
    ASSUME TypeOK, CircleInv, NEW t \in Threads, IndicatorCall(t) \/ IndicatorCallFails(t)
    PROVE  CircleInv'
<1> DEFINE i == job[t].id
<1>1. ReleaseIndicator(t)
  BY DEF IndicatorCall, IndicatorCallFails
<1>2. /\ HoldInv' /\ LookInv' /\ ThereInv'
      /\ \A j \in Jobs : WillLook(j) \/ (Updating(j) /\ j # i) => Updating(j)'
  BY <1>1, ReleaseCircle
<1>3. pc[t] = "call" /\ disk' = disk
  BY <1>1 DEF ReleaseIndicator
<1>4. i \in Jobs
  BY <1>3 DEF CircleInv, ThereInv
<1>5. \A j \in Jobs : j # i => emoji'[j] = emoji[j] /\ missed'[j] = missed[j]
  BY DEF IndicatorCall, IndicatorCallFails, TypeOK, OutsideType
<1>6. WillLook(i) \/ missed'[i] \/ (emoji'[i] <=> disk[i].state = "recording")
  <2>1. CASE IndicatorCallFails(t)
    BY <1>4, <2>1 DEF IndicatorCallFails, TypeOK, OutsideType
  <2>2. CASE IndicatorCall(t) /\ ~WillLook(i)
    <3>1. look[t] = (IF disk[i].state = "recording" THEN "add" ELSE "remove")
      BY <1>3, <2>2 DEF CircleInv, LookInv
    <3>2. emoji'[i] = (look[t] = "add")
      BY <1>4, <2>2, <3>1 DEF IndicatorCall, TypeOK, OutsideType
    <3> QED
      BY <3>1, <3>2
  <2> QED
    BY <2>1, <2>2
<1>7. IndicatorTruthful'
  <2> SUFFICES ASSUME NEW j \in Jobs
               PROVE  Updating(j)' \/ missed'[j] \/ (emoji'[j] <=> disk[j].state = "recording")
    BY <1>3 DEF IndicatorTruthful
  <2>1. CASE j = i
    BY <1>2, <1>6, <2>1
  <2>2. CASE j # i
    <3>1. Updating(j) \/ missed[j] \/ (emoji[j] <=> disk[j].state = "recording")
      BY DEF CircleInv, IndicatorTruthful
    <3> QED
      BY <1>2, <1>5, <2>2, <3>1
  <2> QED
    BY <2>1, <2>2
<1> QED
  BY <1>2, <1>7 DEF CircleInv

\* A step that leaves the goroutines, the files and the circles alone.
LEMMA SameCircle ==
    ASSUME CircleInv, UNCHANGED <<pc, job, disk, look, holder, emoji, missed>>
    PROVE  CircleInv'
<1>1. \A j : (WillLook(j)' <=> WillLook(j)) /\ (Updating(j)' <=> Updating(j))
  BY DEF WillLook, Updating
<1>2. HoldInv' /\ ThereInv'
  BY DEF CircleInv, HoldInv, ThereInv
<1>3. LookInv'
  BY <1>1 DEF CircleInv, LookInv
<1>4. IndicatorTruthful'
  BY <1>1 DEF CircleInv, IndicatorTruthful
<1> QED
  BY <1>2, <1>3, <1>4 DEF CircleInv

\* A click puts a goroutine before the job's next update.
LEMMA ClickCircle ==
    ASSUME TypeOK, SignalInv, CircleInv, NEW j \in Jobs, Click(j)
    PROVE  CircleInv'
<1>1. ASSUME NEW k \in 1 .. MaxDup, ClickDuplicate(j, k) PROVE CircleInv'
  <2> DEFINE d == DupThread(j, k)
  <2>1. d \in Threads /\ pc[d] = "idle"
    BY <1>1, ThreadNames DEF ClickDuplicate
  <2>2. pc'[d] = "want" /\ job'[d] = Copy(j, 0, "recording", "none")
    BY <1>1, <2>1 DEF ClickDuplicate, Goto, TypeOK, ThreadsType
  <2>3. \A u \in Threads : u # d => pc'[u] = pc[u] /\ job'[u] = job[u]
    BY <1>1, <2>1 DEF ClickDuplicate, Goto, TypeOK, ThreadsType
  <2>4. UNCHANGED <<disk, look, holder, emoji, missed>>
    BY <1>1 DEF ClickDuplicate, sync, zulip
  <2>5. job'[d].id = j /\ disk[j].state = "recording"
    BY <1>1, <2>2 DEF ClickDuplicate, AlreadyRecording, Copy
  <2> HIDE DEF d
  <2> QED
    BY <2>1, <2>2, <2>3, <2>4, <2>5, ThreadCircle
<1>2. ASSUME NEW g \in Gens, ClickAccept(j, g) PROVE CircleInv'
  <2> DEFINE n == RunThread(j, g)
  <2>1. n \in Threads /\ n \in RunThreads /\ n[2] = j /\ n[3] = g
    BY ThreadNames DEF RunThread
  <2>2. pc[n] = "idle"
    <3>1. issued[j] \in Nat /\ g = issued[j] + 1
      BY <1>2 DEF ClickAccept, TypeOK, DiskType
    <3>2. n[3] > issued[n[2]]
      BY <2>1, <3>1
    <3> QED
      BY <2>1, <3>2 DEF SignalInv
  <2>3. pc'[n] = "want" /\ job'[n] = Copy(j, g, "recording", "none")
    BY <1>2, <2>1 DEF ClickAccept, Goto, TypeOK, ThreadsType
  <2>4. \A u \in Threads : u # n => pc'[u] = pc[u] /\ job'[u] = job[u]
    BY <1>2, <2>1 DEF ClickAccept, Goto, TypeOK, ThreadsType
  <2>5. UNCHANGED <<look, holder, emoji, missed>>
    BY <1>2 DEF ClickAccept, sync, zulip
  <2>6. disk'[j] = File("recording", g, "none", FALSE) /\ \A i \in Jobs : i # j => disk'[i] = disk[i]
    BY <1>2 DEF ClickAccept, Saved, TypeOK, DiskType
  <2>7. job'[n].id = j /\ disk'[j].state = "recording"
    BY <2>3, <2>6 DEF Copy, File
  <2> HIDE DEF n
  <2> QED
    BY <2>1, <2>2, <2>3, <2>4, <2>5, <2>6, <2>7, ThreadCircle
<1>3. CASE ClickSaveFails(j)
  BY <1>3, SameCircle DEF ClickSaveFails, SaveFails, local, sync, zulip
<1> QED
  BY <1>1, <1>2, <1>3 DEF Click

\* A recording that settles, and one that Resume settles, is announced, which
\* ends in an update; a note or a delivery changes no file's state.
LEMMA GoesCircle ==
    ASSUME TypeOK, FileInv, CopyInv, CircleInv, NEW t \in Threads,
           PostNote(t) \/ Delivery(t) \/ (t \in RunThreads /\ Run(t))
    PROVE  CircleInv'
<1>1. UNCHANGED <<look, holder, emoji, missed>>
  BY DEF PostNote, Delivery, Deliver, DeliveryUnanswered, DeliveryGivesUp, StampDelivered, Run,
     SpawnChild, SpawnFails, RegisterChild, Settle, Cleanup, sync, zulip
<1>2. \A u \in Threads : u # t => pc'[u] = pc[u] /\ job'[u] = job[u]
  BY DEF PostNote, Delivery, Deliver, DeliveryUnanswered, DeliveryGivesUp, StampDelivered, Run,
     SpawnChild, SpawnFails, RegisterChild, Settle, Cleanup, local, Goto, TypeOK, ThreadsType
<1>3. CASE PostNote(t)
  <2>1. pc[t] = "note" /\ pc'[t] = "want" /\ job' = job /\ disk' = disk
    BY <1>3 DEF PostNote, Goto, TypeOK, ThreadsType, local
  <2>2. job[t].id \in Jobs /\ disk[job[t].id].state # "absent"
    BY <2>1 DEF CircleInv, ThereInv
  <2> QED
    BY <1>1, <1>2, <2>1, <2>2, ThreadCircle
<1>4. ASSUME pc[t] \notin {"note", "want", "call"}, pc'[t] \notin {"note", "want", "call"},
             \A j \in Jobs : disk'[j].state = disk[j].state
      PROVE  CircleInv'
  BY <1>1, <1>2, <1>4, ThreadCircle
<1>5. CASE Delivery(t)
  <2>1. pc[t] \in {"deliver", "stamp"} /\ pc'[t] \in {"deliver", "stamp", AfterDelivery(t)}
    BY <1>5 DEF Delivery, Deliver, DeliveryUnanswered, DeliveryGivesUp, StampDelivered, Goto,
       TypeOK, ThreadsType
  <2>2. AfterDelivery(t) \notin {"note", "want", "call"}
    BY DEF AfterDelivery
  <2>3. \/ disk' = disk
        \/ disk' = [disk EXCEPT ![job[t].id] = [disk[job[t].id] EXCEPT !.sent = TRUE]]
    BY <1>5 DEF Delivery, Deliver, DeliveryUnanswered, DeliveryGivesUp, StampDelivered, Saved, SaveFails
  <2>4. \A j \in Jobs : disk'[j].state = disk[j].state
    BY <2>3 DEF TypeOK, DiskType, Files
  <2> QED
    BY <1>4, <2>1, <2>2, <2>4
<1>6. ASSUME t \in RunThreads, SpawnChild(t) \/ SpawnFails(t) \/ RegisterChild(t) \/ Cleanup(t)
      PROVE  CircleInv'
  <2>1. pc[t] \in {"spawn", "spawned", "cleanup"} /\ pc'[t] \in {"spawned", "wait", "done"} /\ disk' = disk
    BY <1>6 DEF SpawnChild, SpawnFails, RegisterChild, Cleanup, Goto, TypeOK, ThreadsType
  <2> QED
    BY <1>4, <2>1
<1>7. ASSUME t \in RunThreads, Settle(t) PROVE CircleInv'
  <2> DEFINE i == t[2]
  <2>1. pc[t] = "wait" /\ pc'[t] \in {"want", "note"}
    BY <1>7 DEF Settle, Goto, TypeOK, ThreadsType
  <2>2. job'[t].id = i /\ i \in Jobs
    <3>1. job[t].id = i /\ i \in Jobs
      BY <1>7, <2>1, ThreadNames DEF CopyInv, Unsettled, Attending
    <3> QED
      BY <1>7, <3>1 DEF Settle, TypeOK, ThreadsType, Copies
  <2>3. \A j \in Jobs : j # i => disk'[j] = disk[j]
    BY <1>7 DEF Settle, Saved, SaveFails, TypeOK, DiskType
  <2>4. disk'[i].state # "absent"
    <3>1. disk[i].state = "recording"
      BY <1>7, <2>1 DEF FileInv, Unsettled, Attending
    <3> QED
      BY <1>7, <2>2, <3>1 DEF Settle, Saved, SaveFails, SettledFile, File, TypeOK, DiskType
  <2> HIDE DEF i
  <2> QED
    BY <1>1, <1>2, <2>1, <2>2, <2>3, <2>4, ThreadCircle
<1> QED
  BY <1>3, <1>5, <1>6, <1>7 DEF Run

\* So is a recording that Resume settles; its goroutine is a fresh one.
LEMMA ResumeCircle ==
    ASSUME TypeOK, ~Retention, FreshInv, CircleInv, Resume
    PROVE  CircleInv'
<1>1. UNCHANGED <<look, holder, emoji, missed>>
  BY DEF Resume, ListJobs, ResumeReturns, BootSweep, ResumeInterrupted, ResumeUnsent, ResumeNothing,
     Resumed, sync, zulip
<1>2. CASE ListJobs \/ ResumeReturns
  BY <1>1, <1>2, SameCircle DEF ListJobs, ResumeReturns, local
<1>3. ASSUME NEW j \in Jobs, ResumeInterrupted(j) \/ ResumeUnsent(j) \/ ResumeNothing(j)
      PROVE  CircleInv'
  <2> DEFINE r == ResumeThread(j)
  <2>1. r \in Threads /\ pc[r] = "idle"
    BY <1>3, ThreadNames DEF ResumeInterrupted, ResumeUnsent, ResumeNothing, Resumed, FreshInv
  <2>2. \A u \in Threads : u # r => pc'[u] = pc[u] /\ job'[u] = job[u]
    BY <1>3 DEF ResumeInterrupted, ResumeUnsent, ResumeNothing, Resumed, Goto, TypeOK, ThreadsType
  <2>3. CASE ResumeUnsent(j) \/ ResumeNothing(j)
    <3>1. pc'[r] \in {"deliver", "idle"} /\ disk' = disk
      BY <2>1, <2>3 DEF ResumeUnsent, ResumeNothing, Resumed, Goto, TypeOK, ThreadsType
    <3> HIDE DEF r
    <3> QED
      BY <1>1, <2>1, <2>2, <3>1, ThreadCircle
  <2>4. CASE ResumeInterrupted(j)
    <3>1. pc'[r] = "note" /\ job'[r] = Copy(j, disk[j].gen, "failed", "interrupted")
      BY <2>1, <2>4 DEF ResumeInterrupted, Resumed, Goto, TypeOK, ThreadsType
    <3>2. disk[j].state = "recording"
      BY <2>4 DEF ResumeInterrupted, LeftRecording
    <3>3. disk'[j].state # "absent" /\ \A i \in Jobs : i # j => disk'[i] = disk[i]
      BY <2>4, <3>2 DEF ResumeInterrupted, Saved, SaveFails, File, TypeOK, DiskType
    <3>4. job'[r].id = j
      BY <3>1 DEF Copy
    <3> HIDE DEF r
    <3> QED
      BY <1>1, <2>1, <2>2, <3>1, <3>3, <3>4, ThreadCircle
  <2> QED
    BY <1>3, <2>3, <2>4
<1> QED
  BY <1>2, <1>3 DEF Resume, BootSweep

\* The ticker updates no circle and, with retention off, no file's state.
LEMMA SweepCircle ==
    ASSUME TypeOK, SweepInv, FreshInv, CircleInv, Sweep
    PROVE  CircleInv'
<1>1. UNCHANGED <<look, holder, emoji, missed>>
  BY DEF Sweep, TickFires, SweepRemoves, SweepLists, ResendEnds, SweepReads, ResendNext, sync, zulip
<1>2. Tick \in Threads /\ disk' = disk
  BY ThreadNames DEF Sweep, TickFires, SweepRemoves, SweepLists, ResendEnds, SweepReads, ResendNext, SweepInv
<1>3. \A u \in Threads : u # Tick => pc'[u] = pc[u] /\ job'[u] = job[u]
  BY DEF Sweep, TickFires, SweepRemoves, SweepLists, ResendEnds, SweepReads, ResendNext,
     Goto, TypeOK, ThreadsType, local
<1>4. pc'[Tick] \notin {"note", "want", "call"}
  BY <1>2 DEF Sweep, TickFires, SweepRemoves, SweepLists, ResendEnds, SweepReads, ResendNext,
     Goto, TypeOK, ThreadsType
<1> QED
  BY <1>1, <1>2, <1>3, <1>4, ThreadCircle DEF FreshInv

\* With the process go the updates that were ahead.
LEMMA EndsCircle ==
    ASSUME CircleInv, NEW how, ProcessEnds(how)
    PROVE  CircleInv'
<1>1. \A t \in Threads : pc'[t] = "idle"
  BY DEF ProcessEnds
<1>2. HoldInv' /\ LookInv' /\ ThereInv'
  BY <1>1 DEF HoldInv, LookInv, ThereInv
<1>3. UNCHANGED <<emoji, disk>> /\ \A j \in Jobs : missed'[j] = (missed[j] \/ Updating(j))
  BY DEF ProcessEnds
<1>4. IndicatorTruthful'
  <2> SUFFICES ASSUME NEW j \in Jobs
               PROVE  Updating(j)' \/ missed'[j] \/ (emoji[j] <=> disk[j].state = "recording")
    BY <1>3 DEF IndicatorTruthful
  <2>1. Updating(j) \/ missed[j] \/ (emoji[j] <=> disk[j].state = "recording")
    BY DEF CircleInv, IndicatorTruthful
  <2> QED
    BY <1>3, <2>1
<1> QED
  BY <1>2, <1>4 DEF CircleInv

\* CircleInv is inductive: the file decides, and whoever changes it looks after it.
LEMMA NextCircle ==
    ASSUME TypeOK, ~Retention, SignalInv, SweepInv, FileInv, CopyInv, FreshInv, CircleInv,
           \A t \in Threads : ~saveErr[t], [Next]_vars
    PROVE  CircleInv'
<1>1. ASSUME NEW t \in Threads, Indicator(t) PROVE CircleInv'
  BY <1>1, LockCircle, CallCircle DEF Indicator
<1>2. ASSUME NEW t \in RunThreads, Run(t) PROVE CircleInv'
  BY <1>2, ThreadNames, GoesCircle
<1>3. ASSUME NEW r \in Recs, NEW end \in Endings, ChildExits(r, end) PROVE CircleInv'
  BY <1>3, SameCircle DEF ChildExits, local, sync, zulip
<1>4. CASE StopBegins \/ StopSignals \/ StopDrained \/ GraceExpires \/ Restart \/ UNCHANGED vars
  BY <1>4, SameCircle DEF StopBegins, StopSignals, StopDrained, GraceExpires, Restart, vars, local, sync, zulip
<1>5. CASE Exit \/ Crash
  BY <1>5, EndsCircle DEF Exit, Crash
<1> QED
  BY <1>1, <1>2, <1>3, <1>4, <1>5, ClickCircle, GoesCircle, ResumeCircle, SweepCircle DEF Next, StopGoesOn

LEMMA InitCircle == Init => FreshInv /\ CircleInv
<1> SUFFICES ASSUME Init PROVE FreshInv /\ CircleInv
  OBVIOUS
<1>1. phase = "boot" /\ \A t \in Threads : pc[t] = "idle"
  BY DEF Init
<1>2. \A j \in Jobs : ~emoji[j] /\ disk[j].state = "absent"
  BY DEF Init, NoFile, Life!NoFile
<1>3. FreshInv
  BY <1>1, ThreadNames DEF FreshInv
<1> QED
  BY <1>1, <1>2, <1>3 DEF CircleInv, HoldInv, LookInv, ThereInv, IndicatorTruthful

\* runner.go:322-335: with retention off and no failing save, the message carries
\* the red circle exactly if the job's file says "recording", once nobody has an
\* update of it ahead, unless the latest update failed or died with the process:
\* for any number of clicks, duplicates, settlements, crashes and restarts.
THEOREM CircleTellsTheTruth == Spec => [](~Retention /\ SaveFaults = 0 => IndicatorTruthful)
<1> DEFINE Quiescent == ~Retention /\ SaveFaults = 0 => CircleInv
<1>1. Init => NoFaultInv
  BY DEF Init, NoFaultInv, FaultKinds
<1>2. TypeOK /\ NoFaultInv /\ [Next]_vars => NoFaultInv'
  BY NextFaults
<1>3. Init => CopyInv
  BY InitSaid DEF SaidInv
<1>4. TypeOK /\ CopyInv /\ [Next]_vars => CopyInv'
  BY NextCopy
<1>5. Init => FreshInv /\ Quiescent
  BY InitCircle
<1>6. TypeOK /\ FreshInv /\ [Next]_vars => FreshInv'
  BY NextFresh
<1>7. TypeOK /\ SignalInv /\ LockInv /\ NoFaultInv /\ CopyInv /\ FreshInv /\ Quiescent /\ [Next]_vars => Quiescent'
  BY NextCircle DEF LockInv, NoFaultInv
<1>8. Quiescent => (~Retention /\ SaveFaults = 0 => IndicatorTruthful)
  BY DEF CircleInv
<1> HIDE DEF Quiescent
<1> QED
  BY <1>1, <1>2, <1>3, <1>4, <1>5, <1>6, <1>7, <1>8, TypeCorrect, InitSignals, NextSignals,
     InitLock, NextLock, PTL DEF Spec
=============================================================================
