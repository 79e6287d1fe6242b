---------------------------- MODULE RunnerProofs ----------------------------
(***************************************************************************)
(* Proofs about the runner, for any set of jobs and any bounds: its states *)
(* are well typed, it signals no recorder twice, runs no two recorders of  *)
(* one job at a time (retention off), and stamps nothing the receiver has  *)
(* not accepted.  Stop, with retention off, leaves no started recorder     *)
(* unasked and returns with every job settled, and what it goes by, the    *)
(* registered recordings, is what the job files say.                       *)
(***************************************************************************)
EXTENDS Runner, TLAPS

-----------------------------------------------------------------------------
(***************************************************************************)
(* The threads and the small steps the actions are made of.                *)
(***************************************************************************)

\* Which threads there are; the thread of a recording names its recording.
LEMMA ThreadNames ==
    /\ RunThreads \subseteq Threads
    /\ \A j \in Jobs, g \in Gens : RunThread(j, g) \in RunThreads
    /\ \A j \in Jobs, k \in 1 .. MaxDup : DupThread(j, k) \in Threads \ RunThreads
    /\ \A j \in Jobs : ResumeThread(j) \in Threads \ RunThreads
    /\ Tick \in Threads \ RunThreads
    /\ \A t \in RunThreads :
        t[2] \in Jobs /\ t[3] \in Gens /\ Rec(t) \in Recs /\ t = RunThread(t[2], t[3])
  BY DEF Threads, RunThreads, DupThreads, ResumeThreads, RunThread, DupThread, ResumeThread,
         Tick, Rec, Recs

\* The records a step puts together are files and copies.
LEMMA Records ==
    /\ \A s \in States, g \in 0 .. MaxGen, e \in Errors \cup {"none"}, d \in BOOLEAN :
        File(s, g, e, d) \in Files
    /\ \A j \in Jobs \cup {NoJob}, g \in 0 .. MaxGen, s \in States, e \in Errors \cup {"none"} :
        Copy(j, g, s, e) \in Copies
    /\ NoFile \in Files
    /\ NoCopy \in Copies
    /\ Gens \subseteq 0 .. MaxGen
  BY BoundsAssumption DEF File, Files, Copy, Copies, NoFile, Life!NoFile, NoCopy, States, Gens

\* A goroutine goes to a place that exists.
LEMMA GotoType ==
    ASSUME TypeOK, NEW t, NEW l \in Pcs, Goto(t, l)
    PROVE  pc' \in [Threads -> Pcs]
  BY DEF TypeOK, ThreadsType, Goto

\* A failure leaves the counts of failures well typed.
LEMMA FaultType ==
    ASSUME TypeOK, NEW kind, Fault(kind), kind \in FaultKinds
    PROVE  faults' \in [FaultKinds -> Nat]
<1>1. faults[kind] \in Nat /\ faults[kind] > 0
  BY DEF TypeOK, OutsideType, Fault
<1>2. faults[kind] - 1 \in Nat
  BY <1>1
<1> QED
  BY <1>2 DEF TypeOK, OutsideType, Fault

\* So does a write of job.json, successful or not.
LEMMA SaveType ==
    ASSUME TypeOK, NEW j, NEW f \in Files, Saved(j, f) \/ SaveFails
    PROVE  /\ disk' \in [Jobs -> Files]
           /\ faults' \in [FaultKinds -> Nat]
<1>1. CASE Saved(j, f)
  BY <1>1 DEF TypeOK, DiskType, OutsideType, Saved
<1>2. CASE SaveFails
  <2>1. faults' \in [FaultKinds -> Nat]
    BY <1>2, FaultType DEF SaveFails, FaultKinds
  <2> QED
    BY <1>2, <2>1 DEF TypeOK, DiskType, SaveFails
<1> QED
  BY <1>1, <1>2

\* What a step leaves alone stays well typed.
LEMMA Unchanged ==
    ASSUME TypeOK
    PROVE  /\ UNCHANGED main => MainType'
           /\ UNCHANGED <<disk, issued>> => DiskType'
           /\ UNCHANGED recs => RecsType'
           /\ UNCHANGED <<pc, local, sync>> => ThreadsType'
           /\ UNCHANGED <<zulip, delivered, faults>> => OutsideType'
           /\ UNCHANGED vars => TypeOK'
  BY DEF TypeOK, MainType, DiskType, RecsType, ThreadsType, OutsideType,
         main, recs, local, sync, zulip, vars

-----------------------------------------------------------------------------
(***************************************************************************)
(* Type correctness, one lemma for each group of actions.                  *)
(***************************************************************************)

\* Start keeps the types.
LEMMA ClickType ==
    ASSUME TypeOK, NEW j \in Jobs, Click(j)
    PROVE  TypeOK'
<1>1. ASSUME NEW k \in 1 .. MaxDup, ClickDuplicate(j, k) PROVE TypeOK'
  <2>1. MainType' /\ DiskType' /\ RecsType' /\ OutsideType'
    BY <1>1, Unchanged DEF ClickDuplicate
  <2>2. Copy(j, 0, "recording", "none") \in Copies
    BY Records, BoundsAssumption DEF States
  <2>3. pc' \in [Threads -> Pcs]
    BY <1>1, GotoType DEF ClickDuplicate, Pcs
  <2>4. ThreadsType'
    BY <1>1, <2>2, <2>3 DEF ClickDuplicate, TypeOK, ThreadsType, sync
  <2> QED
    BY <2>1, <2>4 DEF TypeOK
<1>2. ASSUME NEW g \in Gens, ClickAccept(j, g) PROVE TypeOK'
  <2>1. Copy(j, g, "recording", "none") \in Copies /\ File("recording", g, "none", FALSE) \in Files
    BY Records DEF States
  <2>2. MainType'
    BY <1>2, Unchanged DEF ClickAccept
  <2>3. disk' \in [Jobs -> Files] /\ faults' \in [FaultKinds -> Nat]
    BY <1>2, <2>1, SaveType DEF ClickAccept
  <2>4. DiskType'
    BY <1>2, <2>3, Records DEF ClickAccept, TypeOK, DiskType
  <2>5. RecsType'
    BY <1>2, Records DEF ClickAccept, TypeOK, RecsType
  <2>6. pc' \in [Threads -> Pcs]
    BY <1>2, GotoType DEF ClickAccept, Pcs
  <2>7. ThreadsType'
    BY <1>2, <2>1, <2>6 DEF ClickAccept, TypeOK, ThreadsType, sync
  <2>8. OutsideType'
    BY <1>2, <2>3 DEF ClickAccept, TypeOK, OutsideType, zulip
  <2> QED
    BY <2>2, <2>4, <2>5, <2>7, <2>8 DEF TypeOK
<1>3. ASSUME ClickSaveFails(j) PROVE TypeOK'
  <2>1. faults' \in [FaultKinds -> Nat]
    BY <1>3, FaultType DEF ClickSaveFails, SaveFails, FaultKinds
  <2>2. OutsideType'
    BY <1>3, <2>1 DEF ClickSaveFails, TypeOK, OutsideType, zulip
  <2>3. MainType' /\ DiskType' /\ RecsType' /\ ThreadsType'
    BY <1>3, Unchanged DEF ClickSaveFails, SaveFails
  <2> QED
    BY <2>2, <2>3 DEF TypeOK
<1> QED
  BY <1>1, <1>2, <1>3 DEF Click

\* The indicator updates keep the types.
LEMMA IndicatorType ==
    ASSUME TypeOK, NEW t \in Threads, Indicator(t)
    PROVE  TypeOK'
<1>1. CASE LockIndicator(t)
  <2>1. MainType' /\ DiskType' /\ RecsType' /\ OutsideType'
    BY <1>1, Unchanged DEF LockIndicator
  <2>2. pc' \in [Threads -> Pcs]
    BY <1>1, GotoType DEF LockIndicator, Pcs
  <2>3. Wanted(t) \in {"none", "add", "remove", "skip"}
    BY DEF Wanted
  <2>4. ThreadsType'
    BY <1>1, <2>2, <2>3 DEF LockIndicator, TypeOK, ThreadsType, local
  <2> QED
    BY <2>1, <2>4 DEF TypeOK
<1>2. ASSUME ReleaseIndicator(t) PROVE MainType' /\ DiskType' /\ RecsType' /\ ThreadsType'
  <2>1. MainType' /\ DiskType' /\ RecsType'
    BY <1>2, Unchanged DEF ReleaseIndicator
  <2>2. AfterIndicator(t) \in Pcs
    BY DEF AfterIndicator, Pcs
  <2>3. pc' \in [Threads -> Pcs]
    BY <1>2, <2>2, GotoType DEF ReleaseIndicator
  <2>4. ThreadsType'
    BY <1>2, <2>3 DEF ReleaseIndicator, TypeOK, ThreadsType, local
  <2> QED
    BY <2>1, <2>4
<1>3. CASE IndicatorCall(t)
  <2>1. emoji' \in [Jobs -> BOOLEAN] /\ missed' \in [Jobs -> BOOLEAN]
    BY <1>3 DEF IndicatorCall, TypeOK, OutsideType
  <2>2. OutsideType'
    BY <1>3, <2>1 DEF IndicatorCall, ReleaseIndicator, TypeOK, OutsideType
  <2> QED
    BY <1>2, <1>3, <2>2 DEF IndicatorCall, TypeOK
<1>4. CASE IndicatorCallFails(t)
  <2>1. faults' \in [FaultKinds -> Nat]
    BY <1>4, FaultType DEF IndicatorCallFails, FaultKinds
  <2>2. OutsideType'
    BY <1>4, <2>1 DEF IndicatorCallFails, ReleaseIndicator, TypeOK, OutsideType
  <2> QED
    BY <1>2, <1>4, <2>2 DEF IndicatorCallFails, TypeOK
<1> QED
  BY <1>1, <1>3, <1>4 DEF Indicator

\* Between spawn and cleanup: run keeps the types.
LEMMA RunType ==
    ASSUME TypeOK, NEW t \in RunThreads, Run(t)
    PROVE  TypeOK'
<1>0. Rec(t) \in Recs /\ t[2] \in Jobs /\ t[3] \in Gens /\ t \in Threads /\ t[3] \in 0 .. MaxGen
  BY ThreadNames, Records
<1>1. ASSUME NEW l \in Pcs, Goto(t, l), UNCHANGED <<local, sync>> PROVE ThreadsType'
  <2>1. pc' \in [Threads -> Pcs]
    BY <1>1, GotoType
  <2> QED
    BY <1>1, <2>1 DEF TypeOK, ThreadsType, local, sync
<1>2. CASE SpawnChild(t)
  <2>1. MainType' /\ DiskType' /\ OutsideType'
    BY <1>2, Unchanged DEF SpawnChild
  <2>2. RecsType'
    BY <1>2 DEF SpawnChild, TypeOK, RecsType
  <2>3. ThreadsType'
    BY <1>1, <1>2 DEF SpawnChild, Pcs
  <2> QED
    BY <2>1, <2>2, <2>3 DEF TypeOK
<1>3. CASE SpawnFails(t)
  <2>1. MainType' /\ DiskType' /\ OutsideType'
    BY <1>3, Unchanged DEF SpawnFails
  <2>2. RecsType'
    BY <1>3 DEF SpawnFails, TypeOK, RecsType, Endings, Errors, Life!Errors
  <2>3. ThreadsType'
    BY <1>1, <1>3 DEF SpawnFails, Pcs
  <2> QED
    BY <2>1, <2>2, <2>3 DEF TypeOK
<1>4. CASE RegisterChild(t)
  <2>1. MainType' /\ DiskType' /\ OutsideType'
    BY <1>4, Unchanged DEF RegisterChild
  <2>2. termed' \in [Recs -> BOOLEAN] /\ sigterms' \in [Recs -> Nat]
    BY <1>4 DEF RegisterChild, Term, TypeOK, RecsType
  <2>3. RecsType'
    BY <1>4, <2>2 DEF RegisterChild, TypeOK, RecsType
  <2>4. ThreadsType'
    BY <1>1, <1>4 DEF RegisterChild, Pcs
  <2> QED
    BY <2>1, <2>3, <2>4 DEF TypeOK
<1>5. CASE Settle(t)
  <2> DEFINE end == child[Rec(t)]
             s   == IF end = "ok" THEN "finished" ELSE "failed"
             e   == IF end = "ok" THEN "none" ELSE end
  <2>1. end \in {"none"} \cup Endings /\ end # "live"
    BY <1>0, <1>5 DEF Settle, TypeOK, RecsType
  <2>2. e \in Errors \cup {"none"} /\ s \in States
    BY <2>1 DEF Endings, States
  <2>3. SettledFile(t[3], end) \in Files
    BY <1>0, <2>1, Records DEF SettledFile, States, Endings
  <2>4. disk' \in [Jobs -> Files] /\ faults' \in [FaultKinds -> Nat]
    BY <1>5, <2>3, SaveType DEF Settle
  <2>5. MainType' /\ RecsType'
    BY <1>5, Unchanged DEF Settle
  <2>6. DiskType'
    BY <1>5, <2>4 DEF Settle, TypeOK, DiskType
  <2>7. OutsideType'
    BY <1>5, <2>4 DEF Settle, TypeOK, OutsideType, zulip
  <2>8. pc' \in [Threads -> Pcs]
    BY <1>5, GotoType DEF Settle, Pcs
  <2>9. job' = [job EXCEPT ![t].state = s, ![t].err = e]
    BY <1>5 DEF Settle
  <2>10. job' \in [Threads -> Copies]
    <3> HIDE DEF s, e
    <3>1. job[t] \in Copies /\ job \in [Threads -> Copies]
      BY <1>0 DEF TypeOK, ThreadsType
    <3>2. [job[t] EXCEPT !.state = s, !.err = e] \in Copies
      BY <2>2, <3>1 DEF Copies
    <3>3. job' = [job EXCEPT ![t] = [job[t] EXCEPT !.state = s, !.err = e]]
      BY <1>0, <2>9, <3>1
    <3> QED
      BY <3>1, <3>2, <3>3
  <2>11. saveErr' \in [Threads -> BOOLEAN]
    BY <1>5 DEF Settle, TypeOK, ThreadsType
  <2>12. ThreadsType'
    BY <1>5, <2>8, <2>10, <2>11 DEF Settle, TypeOK, ThreadsType, sync
  <2> QED
    BY <2>5, <2>6, <2>7, <2>12 DEF TypeOK
<1>6. CASE Cleanup(t)
  <2>1. MainType' /\ DiskType' /\ OutsideType'
    BY <1>6, Unchanged DEF Cleanup
  <2>2. Unregistered(t[2], t[3]) \in 0 .. MaxGen
    BY <1>0, BoundsAssumption DEF Unregistered, TypeOK, RecsType
  <2>3. RecsType'
    BY <1>6, <2>2 DEF Cleanup, TypeOK, RecsType
  <2>4. ThreadsType'
    BY <1>1, <1>6 DEF Cleanup, Pcs
  <2> QED
    BY <2>1, <2>3, <2>4 DEF TypeOK
<1> QED
  BY <1>2, <1>3, <1>4, <1>5, <1>6 DEF Run

\* Notes and deliveries keep the types.
LEMMA DeliveryType ==
    ASSUME TypeOK, NEW t \in Threads, PostNote(t) \/ Delivery(t)
    PROVE  TypeOK'
<1>0. job[t] \in Copies /\ job[t].gen \in 0 .. MaxGen /\ job[t].err \in Errors \cup {"none"}
  BY DEF TypeOK, ThreadsType, Copies
<1>1. ASSUME NEW l \in Pcs, Goto(t, l), UNCHANGED <<local, sync>> PROVE ThreadsType'
  <2>1. pc' \in [Threads -> Pcs]
    BY <1>1, GotoType
  <2> QED
    BY <1>1, <2>1 DEF TypeOK, ThreadsType, local, sync
<1>2. AfterDelivery(t) \in Pcs
  BY DEF AfterDelivery, Pcs
<1>3. CASE PostNote(t)
  <2>1. MainType' /\ DiskType' /\ RecsType'
    BY <1>3, Unchanged DEF PostNote
  <2>2. faults' \in [FaultKinds -> Nat]
    BY <1>3, FaultType DEF PostNote, FaultKinds, TypeOK, OutsideType
  <2>3. notes' \in [Jobs -> SUBSET ((0 .. MaxGen) \X (Errors \cup {"none"}))]
    BY <1>0, <1>3 DEF PostNote, TypeOK, OutsideType
  <2>4. OutsideType'
    BY <1>3, <2>2, <2>3 DEF PostNote, TypeOK, OutsideType
  <2>5. ThreadsType'
    BY <1>1, <1>3 DEF PostNote, Pcs
  <2> QED
    BY <2>1, <2>4, <2>5 DEF TypeOK
<1>4. CASE Deliver(t)
  <2>1. MainType' /\ DiskType' /\ RecsType'
    BY <1>4, Unchanged DEF Deliver
  <2>2. delivered' \in [Jobs -> SUBSET (0 .. MaxGen)]
    BY <1>0, <1>4 DEF Deliver, TypeOK, OutsideType
  <2>3. OutsideType'
    BY <1>4, <2>2 DEF Deliver, TypeOK, OutsideType, zulip
  <2>4. ThreadsType'
    BY <1>1, <1>4 DEF Deliver, Pcs
  <2> QED
    BY <2>1, <2>3, <2>4 DEF TypeOK
<1>5. CASE DeliveryUnanswered(t)
  <2>1. MainType' /\ DiskType' /\ RecsType' /\ ThreadsType'
    BY <1>5, Unchanged DEF DeliveryUnanswered
  <2>2. delivered' \in [Jobs -> SUBSET (0 .. MaxGen)]
    BY <1>0, <1>5 DEF DeliveryUnanswered, TypeOK, OutsideType
  <2>3. faults' \in [FaultKinds -> Nat]
    BY <1>5, FaultType DEF DeliveryUnanswered, FaultKinds
  <2>4. OutsideType'
    BY <1>5, <2>2, <2>3 DEF DeliveryUnanswered, TypeOK, OutsideType, zulip
  <2> QED
    BY <2>1, <2>4 DEF TypeOK
<1>6. CASE DeliveryGivesUp(t)
  <2>1. MainType' /\ DiskType' /\ RecsType'
    BY <1>6, Unchanged DEF DeliveryGivesUp
  <2>2. faults' \in [FaultKinds -> Nat]
    BY <1>6, FaultType DEF DeliveryGivesUp, FaultKinds
  <2>3. OutsideType'
    BY <1>6, <2>2 DEF DeliveryGivesUp, TypeOK, OutsideType, zulip
  <2>4. ThreadsType'
    BY <1>1, <1>2, <1>6 DEF DeliveryGivesUp
  <2> QED
    BY <2>1, <2>3, <2>4 DEF TypeOK
<1>7. CASE StampDelivered(t)
  <2> DEFINE j == job[t].id
             f == [disk[j] EXCEPT !.sent = TRUE]
  <2>1. MainType' /\ RecsType'
    BY <1>7, Unchanged DEF StampDelivered
  <2>2. ASSUME Saved(j, f) PROVE disk' \in [Jobs -> Files] /\ faults' \in [FaultKinds -> Nat]
    <3>1. j \in Jobs => f \in Files
      BY DEF TypeOK, DiskType, Files
    <3> QED
      BY <2>2, <3>1 DEF Saved, TypeOK, DiskType, OutsideType
  <2>3. ASSUME SaveFails PROVE disk' \in [Jobs -> Files] /\ faults' \in [FaultKinds -> Nat]
    BY <2>3, SaveType, Records
  <2>4. disk' \in [Jobs -> Files] /\ faults' \in [FaultKinds -> Nat]
    BY <1>7, <2>2, <2>3 DEF StampDelivered, TypeOK, DiskType, OutsideType
  <2>5. DiskType' /\ OutsideType'
    BY <1>7, <2>4 DEF StampDelivered, TypeOK, DiskType, OutsideType, zulip
  <2>6. ThreadsType'
    BY <1>1, <1>2, <1>7 DEF StampDelivered
  <2> QED
    BY <2>1, <2>5, <2>6 DEF TypeOK
<1> QED
  BY <1>3, <1>4, <1>5, <1>6, <1>7 DEF Delivery

\* A recorder's exit keeps the types.
LEMMA ChildType ==
    ASSUME TypeOK, NEW r \in Recs, NEW end \in Endings, ChildExits(r, end)
    PROVE  TypeOK'
<1>1. MainType' /\ DiskType' /\ ThreadsType' /\ OutsideType'
  BY Unchanged DEF ChildExits
<1>2. RecsType'
  BY DEF ChildExits, TypeOK, RecsType
<1> QED
  BY <1>1, <1>2 DEF TypeOK

\* Startup keeps the types.
LEMMA ResumeType ==
    ASSUME TypeOK, Resume
    PROVE  TypeOK'
<1>1. CASE ListJobs
  <2>1. DiskType' /\ RecsType' /\ ThreadsType' /\ OutsideType'
    BY <1>1, Unchanged DEF ListJobs
  <2>2. MainType'
    BY <1>1 DEF ListJobs, TypeOK, MainType
  <2> QED
    BY <2>1, <2>2 DEF TypeOK
<1>2. CASE ResumeReturns
  <2>1. DiskType' /\ RecsType' /\ ThreadsType' /\ OutsideType'
    BY <1>2, Unchanged DEF ResumeReturns
  <2>2. MainType'
    BY <1>2 DEF ResumeReturns, TypeOK, MainType
  <2> QED
    BY <2>1, <2>2 DEF TypeOK
<1>3. ASSUME NEW j \in Jobs, BootSweep(j) PROVE TypeOK'
  <2>1. MainType' /\ RecsType' /\ ThreadsType' /\ OutsideType'
    BY <1>3, Unchanged DEF BootSweep
  <2>2. DiskType'
    BY <1>3, Records DEF BootSweep, TypeOK, DiskType
  <2> QED
    BY <2>1, <2>2 DEF TypeOK
<1>4. ASSUME NEW j \in Jobs, NEW l \in Pcs, Resumed(j, l)
      PROVE  MainType' /\ RecsType' /\ pc' \in [Threads -> Pcs]
  <2>1. RecsType'
    BY <1>4, Unchanged DEF Resumed
  <2>2. MainType'
    BY <1>4 DEF Resumed, TypeOK, MainType
  <2>3. pc' \in [Threads -> Pcs]
    BY <1>4, GotoType DEF Resumed
  <2> QED
    BY <2>1, <2>2, <2>3
<1>5. ASSUME NEW j \in Jobs PROVE disk[j].gen \in 0 .. MaxGen
  BY <1>5 DEF TypeOK, DiskType, Files
<1>6. ASSUME NEW j \in Jobs, ResumeInterrupted(j) PROVE TypeOK'
  <2> DEFINE g == disk[j].gen
  <2>1. Resumed(j, "note") /\ "note" \in Pcs
    BY <1>6 DEF ResumeInterrupted, Pcs
  <2>2. /\ File("failed", g, "interrupted", FALSE) \in Files
        /\ Copy(j, g, "failed", "interrupted") \in Copies
    BY <1>5, Records DEF States, Errors, Life!Errors
  <2>3. disk' \in [Jobs -> Files] /\ faults' \in [FaultKinds -> Nat]
    BY <1>6, <2>2, SaveType DEF ResumeInterrupted
  <2>4. job' \in [Threads -> Copies] /\ saveErr' \in [Threads -> BOOLEAN]
    BY <1>6, <2>2 DEF ResumeInterrupted, TypeOK, ThreadsType
  <2>5. DiskType' /\ OutsideType'
    BY <2>1, <2>3 DEF Resumed, TypeOK, DiskType, OutsideType, zulip
  <2>6. ThreadsType'
    BY <1>4, <2>1, <2>4 DEF Resumed, TypeOK, ThreadsType, sync
  <2> QED
    BY <1>4, <2>1, <2>5, <2>6 DEF TypeOK
<1>7. ASSUME NEW j \in Jobs, ResumeUnsent(j) PROVE TypeOK'
  <2>1. Resumed(j, "deliver") /\ "deliver" \in Pcs
    BY <1>7 DEF ResumeUnsent, Pcs
  <2>2. Copy(j, disk[j].gen, "finished", "none") \in Copies
    BY <1>5, Records DEF States
  <2>3. job' \in [Threads -> Copies]
    BY <1>7, <2>2 DEF ResumeUnsent, TypeOK, ThreadsType
  <2>4. DiskType' /\ OutsideType'
    BY <1>7, <2>1, Unchanged DEF ResumeUnsent, Resumed
  <2>5. ThreadsType'
    BY <1>4, <1>7, <2>1, <2>3 DEF ResumeUnsent, Resumed, TypeOK, ThreadsType, sync
  <2> QED
    BY <1>4, <2>1, <2>4, <2>5 DEF TypeOK
<1>8. ASSUME NEW j \in Jobs, ResumeNothing(j) PROVE TypeOK'
  <2>1. Resumed(j, "idle") /\ "idle" \in Pcs
    BY <1>8 DEF ResumeNothing, Pcs
  <2>2. DiskType' /\ OutsideType'
    BY <1>8, <2>1, Unchanged DEF ResumeNothing, Resumed
  <2>3. ThreadsType'
    BY <1>4, <1>8, <2>1 DEF ResumeNothing, Resumed, TypeOK, ThreadsType, sync
  <2> QED
    BY <1>4, <2>1, <2>2, <2>3 DEF TypeOK
<1> QED
  BY <1>1, <1>2, <1>3, <1>6, <1>7, <1>8 DEF Resume

\* The ticker keeps the types.
LEMMA SweepType ==
    ASSUME TypeOK, Sweep
    PROVE  TypeOK'
<1>1. ASSUME NEW l \in Pcs, Goto(Tick, l) PROVE pc' \in [Threads -> Pcs]
  BY <1>1, GotoType
<1>2. CASE TickFires
  <2>1. MainType' /\ DiskType' /\ RecsType' /\ OutsideType'
    BY <1>2, Unchanged DEF TickFires
  <2>2. ThreadsType'
    BY <1>1, <1>2 DEF TickFires, Pcs, TypeOK, ThreadsType, local, sync
  <2> QED
    BY <2>1, <2>2 DEF TypeOK
<1>3. CASE SweepRemoves
  <2>1. MainType' /\ RecsType' /\ OutsideType'
    BY <1>3, Unchanged DEF SweepRemoves
  <2>2. DiskType'
    BY <1>3, Records DEF SweepRemoves, TypeOK, DiskType
  <2>3. ThreadsType'
    BY <1>1, <1>3, Records DEF SweepRemoves, Pcs, TypeOK, ThreadsType, sync
  <2> QED
    BY <2>1, <2>2, <2>3 DEF TypeOK
<1>4. CASE SweepLists
  <2>1. MainType' /\ DiskType' /\ RecsType' /\ OutsideType'
    BY <1>4, Unchanged DEF SweepLists
  <2>2. Unsent \subseteq Copies
    <3>1. ASSUME NEW j \in Jobs PROVE Copy(j, disk[j].gen, "finished", "none") \in Copies
      BY <3>1, Records DEF TypeOK, DiskType, Files, States
    <3> QED
      BY <3>1 DEF Unsent
  <2>3. ThreadsType'
    BY <1>1, <1>4, <2>2 DEF SweepLists, Pcs, TypeOK, ThreadsType, sync
  <2> QED
    BY <2>1, <2>3 DEF TypeOK
<1>5. CASE ResendEnds
  <2>1. MainType' /\ DiskType' /\ RecsType' /\ OutsideType'
    BY <1>5, Unchanged DEF ResendEnds
  <2>2. ThreadsType'
    BY <1>1, <1>5, Records DEF ResendEnds, Pcs, TypeOK, ThreadsType, sync
  <2> QED
    BY <2>1, <2>2 DEF TypeOK
<1>6. ASSUME NEW j \in Jobs, SweepReads(j) PROVE TypeOK'
  <2>1. MainType' /\ DiskType' /\ RecsType' /\ OutsideType'
    BY <1>6, Unchanged DEF SweepReads
  <2>2. Copy(j, disk[j].gen, disk[j].state, disk[j].err) \in Copies
    BY <1>6, Records DEF TypeOK, DiskType, Files
  <2>3. ThreadsType'
    BY <1>1, <1>6, <2>2 DEF SweepReads, Pcs, TypeOK, ThreadsType, sync
  <2> QED
    BY <2>1, <2>3 DEF TypeOK
<1>7. ASSUME NEW c \in todo, ResendNext(c) PROVE TypeOK'
  <2>1. MainType' /\ DiskType' /\ RecsType' /\ OutsideType'
    BY <1>7, Unchanged DEF ResendNext
  <2>2. c \in Copies
    BY DEF TypeOK, ThreadsType
  <2>3. ThreadsType'
    BY <1>1, <1>7, <2>2 DEF ResendNext, Pcs, TypeOK, ThreadsType, sync
  <2> QED
    BY <2>1, <2>3 DEF TypeOK
<1> QED
  BY <1>2, <1>3, <1>4, <1>5, <1>6, <1>7 DEF Sweep

\* Shutdown, crash and restart keep the types.
LEMMA StopType ==
    ASSUME TypeOK, StopBegins \/ StopGoesOn \/ Crash \/ Restart
    PROVE  TypeOK'
<1>1. CASE StopBegins
  <2>1. DiskType' /\ RecsType' /\ ThreadsType' /\ OutsideType'
    BY <1>1, Unchanged DEF StopBegins
  <2>2. Registered \subseteq Recs
    BY BoundsAssumption DEF Registered, Recs, Gens, TypeOK, RecsType
  <2>3. MainType'
    BY <1>1, <2>2 DEF StopBegins, TypeOK, MainType
  <2> QED
    BY <2>1, <2>3 DEF TypeOK
<1>2. CASE StopSignals
  <2>1. DiskType' /\ ThreadsType' /\ OutsideType'
    BY <1>2, Unchanged DEF StopSignals
  <2>2. MainType'
    BY <1>2 DEF StopSignals, TypeOK, MainType
  <2>3. termed' \in [Recs -> BOOLEAN] /\ sigterms' \in [Recs -> Nat]
    BY <1>2 DEF StopSignals, Term, TypeOK, RecsType
  <2>4. RecsType'
    BY <1>2, <2>3 DEF StopSignals, TypeOK, RecsType
  <2> QED
    BY <2>1, <2>2, <2>4 DEF TypeOK
<1>3. CASE StopDrained
  <2>1. DiskType' /\ RecsType' /\ ThreadsType' /\ OutsideType'
    BY <1>3, Unchanged DEF StopDrained
  <2>2. MainType'
    BY <1>3 DEF StopDrained, TypeOK, MainType
  <2> QED
    BY <2>1, <2>2 DEF TypeOK
<1>4. CASE GraceExpires
  <2>1. DiskType' /\ ThreadsType' /\ OutsideType'
    BY <1>4, Unchanged DEF GraceExpires
  <2>2. MainType'
    BY <1>4 DEF GraceExpires, TypeOK, MainType
  <2>3. child' \in [Recs -> {"none", "live"} \cup Endings]
    BY <1>4 DEF GraceExpires, TypeOK, RecsType, Endings, Errors, Life!Errors
  <2>4. RecsType'
    BY <1>4, <2>3 DEF GraceExpires, TypeOK, RecsType
  <2> QED
    BY <2>1, <2>2, <2>4 DEF TypeOK
<1>5. ASSUME NEW how \in Ended, ProcessEnds(how) PROVE TypeOK'
  <2>1. MainType'
    BY <1>5 DEF ProcessEnds, TypeOK, MainType, Ended
  <2>2. DiskType'
    BY <1>5, Unchanged DEF ProcessEnds
  <2>3. RecsType'
    BY <1>5, BoundsAssumption DEF ProcessEnds, TypeOK, RecsType
  <2>4. ThreadsType'
    BY <1>5, Records DEF ProcessEnds, TypeOK, ThreadsType, Pcs
  <2>5. OutsideType'
    <3>1. missed' \in [Jobs -> BOOLEAN]
      BY <1>5 DEF ProcessEnds, TypeOK, OutsideType, Updating
    <3> QED
      BY <1>5, <3>1 DEF ProcessEnds, TypeOK, OutsideType
  <2> QED
    BY <2>1, <2>2, <2>3, <2>4, <2>5 DEF TypeOK
<1>6. CASE Exit
  BY <1>5, <1>6 DEF Exit, Ended
<1>7. CASE Crash
  BY <1>5, <1>7 DEF Crash, Ended
<1>8. CASE Restart
  <2>1. DiskType' /\ RecsType' /\ ThreadsType' /\ OutsideType'
    BY <1>8, Unchanged DEF Restart
  <2>2. MainType'
    BY <1>8 DEF Restart, TypeOK, MainType
  <2> QED
    BY <2>1, <2>2 DEF TypeOK
<1> QED
  BY <1>1, <1>2, <1>3, <1>4, <1>6, <1>7, <1>8 DEF StopGoesOn

\* The service starts well typed.
LEMMA InitType == Init => TypeOK
<1> SUFFICES ASSUME Init PROVE TypeOK
  OBVIOUS
<1>1. MainType /\ DiskType
  BY Records, BoundsAssumption DEF Init, MainType, DiskType
<1>2. RecsType
  BY BoundsAssumption DEF Init, RecsType
<1>3. ThreadsType
  BY Records DEF Init, ThreadsType, Pcs
<1>4. OutsideType
  BY BoundsAssumption DEF Init, OutsideType, FaultKinds
<1> QED
  BY <1>1, <1>2, <1>3, <1>4 DEF TypeOK

\* Every step of the service keeps the types.
LEMMA NextType == TypeOK /\ [Next]_vars => TypeOK'
<1> SUFFICES ASSUME TypeOK, [Next]_vars PROVE TypeOK'
  OBVIOUS
<1>1. ASSUME NEW j \in Jobs, Click(j) PROVE TypeOK'
  BY <1>1, ClickType
<1>2. ASSUME NEW t \in Threads, Indicator(t) PROVE TypeOK'
  BY <1>2, IndicatorType
<1>3. ASSUME NEW t \in Threads, PostNote(t) \/ Delivery(t) PROVE TypeOK'
  BY <1>3, DeliveryType
<1>4. ASSUME NEW t \in RunThreads, Run(t) PROVE TypeOK'
  BY <1>4, RunType
<1>5. ASSUME NEW r \in Recs, NEW end \in Endings, ChildExits(r, end) PROVE TypeOK'
  BY <1>5, ChildType
<1>6. CASE UNCHANGED vars
  BY <1>6, Unchanged
<1> QED
  BY <1>1, <1>2, <1>3, <1>4, <1>5, <1>6, ResumeType, SweepType, StopType DEF Next

\* Every reachable state of the runner is well typed: goroutines are where
\* run, Resume and the ticker can be, and files carry generations handed out.
THEOREM TypeCorrect == Spec => []TypeOK
  BY InitType, NextType, PTL DEF Spec

-----------------------------------------------------------------------------
(***************************************************************************)
(* The inductive invariants.                                               *)
(***************************************************************************)

\* run has not spawned its recorder yet: it is in the first indicator update.
Unspawned(t) ==
    \/ pc[t] = "spawn"
    \/ pc[t] \in {"want", "call", "note"} /\ job[t].state = "recording"

\* run has spawned its recorder and not yet classified its exit.
Attending(t) == pc[t] \in {"spawned", "wait"}

Unsettled(t) == Unspawned(t) \/ Attending(t)

\* Only an attended recorder lives; a recorder nobody signalled is not termed;
\* generations to come have no goroutine and no signals.
SignalInv ==
    \A t \in RunThreads :
        /\ sigterms[Rec(t)] <= 1
        /\ Unspawned(t) => sigterms[Rec(t)] = 0
        /\ t[3] > issued[t[2]] => pc[t] = "idle" /\ sigterms[Rec(t)] = 0
        /\ child[Rec(t)] = "live" =>
            Attending(t) /\ (sigterms[Rec(t)] = 0 \/ termed[Rec(t)])

\* The file is the lock: an unsettled recording has its job's file to itself.
FileInv ==
    \A t \in RunThreads :
        Unsettled(t) => disk[t[2]].state = "recording" /\ disk[t[2]].gen = t[3]

\* Resume runs before the first click, so it meets no recording at work.
PhaseInv ==
    phase \in {"boot", "resume"} \cup Ended => \A t \in RunThreads : pc[t] = "idle"

\* Without retention the sweep is never about to remove a directory.
SweepInv == pc[Tick] # "remove"

\* Who is about to stamp a job has its delivery accepted.
StampInv ==
    Webhook => \A t \in Threads :
        pc[t] = "stamp" /\ job[t].id \in Jobs => job[t].gen \in delivered[job[t].id]

-----------------------------------------------------------------------------
(***************************************************************************)
(* Steps that start no recorder.                                           *)
(***************************************************************************)

\* A step after which no run is closer to a recorder than before, and no live
\* recorder is left unattended.
Quiet ==
    \A t \in RunThreads :
        /\ Unspawned(t)' => Unspawned(t)
        /\ Attending(t)' => Attending(t)
        /\ Attending(t) /\ child[Rec(t)] = "live" => Attending(t)'
        /\ pc[t] = "idle" => pc'[t] = "idle"

\* A goroutine that is no run goes anywhere.
LEMMA OtherGoes ==
    ASSUME TypeOK, NEW t \in Threads \ RunThreads, NEW l, Goto(t, l),
           \A u \in RunThreads : job'[u] = job[u]
    PROVE  Quiet
<1> SUFFICES ASSUME NEW u \in RunThreads
             PROVE  pc'[u] = pc[u] /\ job'[u] = job[u]
  BY DEF Quiet, Unspawned, Attending
<1> QED
  BY ThreadNames DEF Goto, TypeOK, ThreadsType

\* A run goes anywhere but to a recorder.
LEMMA RunGoes ==
    ASSUME TypeOK, NEW t \in RunThreads, NEW l, Goto(t, l),
           pc[t] # "idle", l \notin {"spawned", "wait"},
           \A u \in RunThreads : u # t => job'[u] = job[u],
           l \in {"spawn", "want", "call", "note"} =>
               Unspawned(t) \/ (l # "spawn" /\ job'[t].state # "recording"),
           Attending(t) => child[Rec(t)] # "live"
    PROVE  Quiet
<1> SUFFICES ASSUME NEW u \in RunThreads
             PROVE  /\ Unspawned(u)' => Unspawned(u)
                    /\ Attending(u)' => Attending(u)
                    /\ Attending(u) /\ child[Rec(u)] = "live" => Attending(u)'
                    /\ pc[u] = "idle" => pc'[u] = "idle"
  BY DEF Quiet
<1>1. CASE u = t
  <2>1. pc'[t] = l
    BY ThreadNames DEF Goto, TypeOK, ThreadsType
  <2> QED
    BY <1>1, <2>1 DEF Unspawned, Attending
<1>2. CASE u # t
  <2>1. pc'[u] = pc[u] /\ job'[u] = job[u]
    BY <1>2, ThreadNames DEF Goto, TypeOK, ThreadsType
  <2> QED
    BY <2>1 DEF Unspawned, Attending
<1> QED
  BY <1>1, <1>2

\* No step of the indicator, the notes, the deliveries or of a settling run
\* starts a recorder.
LEMMA QuietThread ==
    ASSUME TypeOK, NEW t \in Threads,
           \/ Indicator(t) \/ PostNote(t) \/ Delivery(t)
           \/ t \in RunThreads /\ (Settle(t) \/ Cleanup(t))
    PROVE  Quiet
<1>0. job[t].state = "recording" /\ pc[t] \in {"want", "call", "note"} => Unspawned(t)
  BY DEF Unspawned
<1>1. CASE LockIndicator(t)
  <2>1. Goto(t, "call") /\ job' = job /\ pc[t] = "want"
    BY <1>1 DEF LockIndicator, local
  <2> QED
    BY <1>0, <2>1, OtherGoes, RunGoes DEF Attending
<1>2. CASE IndicatorCall(t) \/ IndicatorCallFails(t)
  <2>1. Goto(t, AfterIndicator(t)) /\ job' = job /\ pc[t] = "call"
    BY <1>2 DEF IndicatorCall, IndicatorCallFails, ReleaseIndicator, local
  <2>2. t \in RunThreads => \/ AfterIndicator(t) = "spawn" /\ job[t].state = "recording"
                            \/ AfterIndicator(t) \in {"deliver", "cleanup"}
    BY DEF AfterIndicator
  <2>3. ~Attending(t)
    BY <2>1 DEF Attending
  <2>4. CASE t \in RunThreads
    BY <1>0, <2>1, <2>2, <2>3, <2>4, RunGoes
  <2>5. CASE t \notin RunThreads
    BY <2>1, <2>5, OtherGoes
  <2> QED
    BY <2>4, <2>5
<1>3. CASE PostNote(t)
  <2>1. Goto(t, "want") /\ job' = job /\ pc[t] = "note"
    BY <1>3 DEF PostNote, local
  <2> QED
    BY <1>0, <2>1, OtherGoes, RunGoes DEF Attending
<1>4. CASE DeliveryUnanswered(t)
  BY <1>4 DEF DeliveryUnanswered, local, recs, Quiet, Unspawned, Attending
<1>5. CASE Deliver(t) \/ DeliveryGivesUp(t) \/ StampDelivered(t)
  <2>1. PICK l \in {"stamp", AfterDelivery(t)} : Goto(t, l) /\ job' = job
    BY <1>5 DEF Deliver, DeliveryGivesUp, StampDelivered, local
  <2>2. pc[t] \in {"deliver", "stamp"} /\ ~Attending(t)
    BY <1>5 DEF Deliver, DeliveryGivesUp, StampDelivered, Attending
  <2>3. t \in RunThreads => l \in {"stamp", "cleanup"}
    BY DEF AfterDelivery
  <2>4. CASE t \in RunThreads
    BY <2>1, <2>2, <2>3, <2>4, RunGoes
  <2>5. CASE t \notin RunThreads
    BY <2>1, <2>5, OtherGoes
  <2> QED
    BY <2>4, <2>5
<1>6. ASSUME t \in RunThreads, Settle(t) PROVE Quiet
  <2>1. PICK l \in {"want", "note"} : Goto(t, l)
    BY <1>6 DEF Settle
  <2>2. pc[t] = "wait" /\ child[Rec(t)] # "live"
    BY <1>6 DEF Settle
  <2>3. \A u \in RunThreads : u # t => job'[u] = job[u]
    BY <1>6, ThreadNames DEF Settle, TypeOK, ThreadsType
  <2>4. job'[t].state \in {"finished", "failed"}
    BY <1>6, ThreadNames DEF Settle, TypeOK, ThreadsType, Copies
  <2> QED
    BY <1>6, <2>1, <2>2, <2>3, <2>4, RunGoes
<1>7. ASSUME t \in RunThreads, Cleanup(t) PROVE Quiet
  <2>1. Goto(t, "done") /\ job' = job /\ pc[t] = "cleanup"
    BY <1>7 DEF Cleanup, local
  <2> QED
    BY <1>7, <2>1, RunGoes DEF Attending
<1> QED
  BY <1>1, <1>2, <1>3, <1>4, <1>5, <1>6, <1>7 DEF Indicator, Delivery

\* Nor does Start of a duplicate or a failed Start, startup, or the ticker.
LEMMA QuietMain ==
    ASSUME TypeOK,
           \/ \E j \in Jobs : (\E k \in 1 .. MaxDup : ClickDuplicate(j, k)) \/ ClickSaveFails(j)
           \/ Resume \/ Sweep
    PROVE  Quiet
<1>1. ASSUME NEW j \in Jobs, NEW k \in 1 .. MaxDup, ClickDuplicate(j, k) PROVE Quiet
  <2>1. \A u \in RunThreads : job'[u] = job[u]
    BY <1>1, ThreadNames DEF ClickDuplicate, TypeOK, ThreadsType
  <2> QED
    BY <1>1, <2>1, ThreadNames, OtherGoes DEF ClickDuplicate
<1>2. ASSUME UNCHANGED <<pc, job>> PROVE Quiet
  BY <1>2 DEF Quiet, Unspawned, Attending
<1>3. ASSUME NEW j \in Jobs, ClickSaveFails(j) \/ BootSweep(j) PROVE Quiet
  BY <1>2, <1>3 DEF ClickSaveFails, BootSweep, local
<1>4. ASSUME NEW j \in Jobs, ResumeInterrupted(j) \/ ResumeUnsent(j) \/ ResumeNothing(j)
      PROVE  Quiet
  <2>1. PICK l : Goto(ResumeThread(j), l)
    BY <1>4 DEF ResumeInterrupted, ResumeUnsent, ResumeNothing, Resumed
  <2>2. \A u \in RunThreads : job'[u] = job[u]
    BY <1>4, ThreadNames DEF ResumeInterrupted, ResumeUnsent, ResumeNothing, TypeOK, ThreadsType
  <2> QED
    BY <2>1, <2>2, ThreadNames, OtherGoes
<1>5. CASE ListJobs \/ ResumeReturns
  BY <1>2, <1>5 DEF ListJobs, ResumeReturns, local
<1>6. CASE Sweep
  <2>1. PICK l : Goto(Tick, l)
    BY <1>6 DEF Sweep, TickFires, SweepRemoves, SweepLists, ResendEnds, SweepReads, ResendNext
  <2>2. \A u \in RunThreads : job'[u] = job[u]
    BY <1>6, ThreadNames DEF Sweep, TickFires, SweepRemoves, SweepLists, ResendEnds,
       SweepReads, ResendNext, TypeOK, ThreadsType, local
  <2> QED
    BY <2>1, <2>2, ThreadNames, OtherGoes
<1> QED
  BY <1>1, <1>3, <1>4, <1>5, <1>6 DEF Resume

-----------------------------------------------------------------------------
(***************************************************************************)
(* No recorder is signalled twice.                                         *)
(***************************************************************************)

\* A quiet step that leaves recorders and generations alone keeps SignalInv.
LEMMA QuietSignals ==
    ASSUME TypeOK, SignalInv, Quiet, UNCHANGED <<issued, termed, child, sigterms>>
    PROVE  SignalInv'
  BY DEF SignalInv, Quiet

\* SIGTERM to recordings that were not signalled yet keeps the counts right.
LEMMA TermSignals ==
    ASSUME TypeOK, SignalInv, NEW R, Term(SignalOnce(R)), NEW t \in RunThreads
    PROVE  /\ sigterms'[Rec(t)] <= 1
           /\ ~Attending(t) => sigterms'[Rec(t)] = sigterms[Rec(t)]
           /\ child[Rec(t)] = "live" => sigterms'[Rec(t)] = 0 \/ termed'[Rec(t)]
<1>0. Rec(t) \in Recs /\ sigterms[Rec(t)] \in Nat
  BY ThreadNames DEF TypeOK, RecsType
<1>1. CASE Rec(t) \in SignalOnce(R) /\ child[Rec(t)] = "live"
  <2>1. ~termed[Rec(t)]
    BY <1>1 DEF SignalOnce
  <2>2. sigterms[Rec(t)] = 0 /\ Attending(t)
    BY <1>1, <2>1 DEF SignalInv
  <2>3. sigterms'[Rec(t)] = sigterms[Rec(t)] + 1 /\ termed'[Rec(t)]
    BY <1>0, <1>1 DEF Term
  <2> QED
    BY <2>2, <2>3
<1>2. CASE ~(Rec(t) \in SignalOnce(R) /\ child[Rec(t)] = "live")
  <2>1. sigterms'[Rec(t)] = sigterms[Rec(t)] /\ (termed[Rec(t)] => termed'[Rec(t)])
    BY <1>0, <1>2 DEF Term
  <2> QED
    BY <2>1 DEF SignalInv
<1> QED
  BY <1>1, <1>2

\* A click takes the next generation, which no signal was ever sent to.
LEMMA AcceptSignals ==
    ASSUME TypeOK, SignalInv, NEW j \in Jobs, NEW g \in Gens, ClickAccept(j, g)
    PROVE  SignalInv'
<1> SUFFICES ASSUME NEW t \in RunThreads
             PROVE  /\ sigterms[Rec(t)] <= 1
                    /\ Unspawned(t)' => sigterms[Rec(t)] = 0
                    /\ t[3] > issued'[t[2]] => pc'[t] = "idle" /\ sigterms[Rec(t)] = 0
                    /\ child[Rec(t)] = "live" =>
                        Attending(t)' /\ (sigterms[Rec(t)] = 0 \/ termed[Rec(t)])
  BY DEF SignalInv, ClickAccept, Rec
<1>1. issued[j] \in Nat /\ g = issued[j] + 1 /\ issued' = [issued EXCEPT ![j] = g]
  BY BoundsAssumption DEF ClickAccept, TypeOK, DiskType
<1>2. t[2] \in Jobs /\ t[3] \in Nat /\ t = RunThread(t[2], t[3]) /\ t \in Threads
  BY ThreadNames DEF Gens
<1>3. CASE t = RunThread(j, g)
  <2>1. t[2] = j /\ t[3] = g
    BY <1>3 DEF RunThread
  <2>2. sigterms[Rec(t)] = 0 /\ pc[t] = "idle"
    BY <1>1, <2>1 DEF SignalInv
  <2>3. child[Rec(t)] # "live"
    BY <2>2 DEF SignalInv, Attending
  <2>4. ~(t[3] > issued'[t[2]])
    BY <1>1, <2>1 DEF TypeOK, DiskType
  <2> QED
    BY <2>2, <2>3, <2>4
<1>4. CASE t # RunThread(j, g)
  <2>1. pc'[t] = pc[t] /\ job'[t] = job[t]
    BY <1>2, <1>4 DEF ClickAccept, Goto, TypeOK, ThreadsType
  <2>2. t[3] > issued'[t[2]] => t[3] > issued[t[2]]
    BY <1>1, <1>2 DEF TypeOK, DiskType
  <2> QED
    BY <2>1, <2>2 DEF SignalInv, Unspawned, Attending
<1> QED
  BY <1>3, <1>4

\* run keeps SignalInv: it spawns its recorder unsignalled.
LEMMA RunSignals ==
    ASSUME TypeOK, SignalInv, NEW t \in RunThreads, Run(t)
    PROVE  SignalInv'
<1>0. t \in Threads /\ Rec(t) \in Recs
  BY ThreadNames
<1>1. \A u \in RunThreads : u # t => Rec(u) # Rec(t)
  BY ThreadNames DEF Rec, RunThread
<1>2. CASE SpawnChild(t) \/ SpawnFails(t)
  <2> SUFFICES ASSUME NEW u \in RunThreads
               PROVE  /\ sigterms[Rec(u)] <= 1
                      /\ Unspawned(u)' => sigterms[Rec(u)] = 0
                      /\ u[3] > issued[u[2]] => pc'[u] = "idle" /\ sigterms[Rec(u)] = 0
                      /\ child'[Rec(u)] = "live" =>
                          Attending(u)' /\ (sigterms[Rec(u)] = 0 \/ termed[Rec(u)])
    BY <1>2 DEF SignalInv, SpawnChild, SpawnFails, Rec
  <2>1. job' = job
    BY <1>2 DEF SpawnChild, SpawnFails, local
  <2>2. CASE u = t
    <3>1. pc[t] = "spawn" /\ sigterms[Rec(t)] = 0
      BY <1>2 DEF SpawnChild, SpawnFails, SignalInv, Unspawned
    <3>2. pc'[t] \in {"spawned", "wait"}
      BY <1>0, <1>2 DEF SpawnChild, SpawnFails, Goto, TypeOK, ThreadsType
    <3>3. ~(t[3] > issued[t[2]])
      BY <3>1 DEF SignalInv
    <3> QED
      BY <2>2, <3>1, <3>2, <3>3 DEF Attending
  <2>3. CASE u # t
    <3>1. pc'[u] = pc[u] /\ u \in Threads
      BY <1>2, <2>3, ThreadNames DEF SpawnChild, SpawnFails, Goto, TypeOK, ThreadsType
    <3>2. child'[Rec(u)] = child[Rec(u)]
      BY <1>0, <1>1, <1>2, <2>3, ThreadNames DEF SpawnChild, SpawnFails, TypeOK, RecsType
    <3> QED
      BY <2>1, <3>1, <3>2 DEF SignalInv, Unspawned, Attending
  <2> QED
    BY <2>2, <2>3
<1>3. CASE RegisterChild(t)
  <2> SUFFICES ASSUME NEW u \in RunThreads
               PROVE  /\ sigterms'[Rec(u)] <= 1
                      /\ Unspawned(u)' => sigterms'[Rec(u)] = 0
                      /\ u[3] > issued[u[2]] => pc'[u] = "idle" /\ sigterms'[Rec(u)] = 0
                      /\ child[Rec(u)] = "live" =>
                          Attending(u)' /\ (sigterms'[Rec(u)] = 0 \/ termed'[Rec(u)])
    BY <1>3 DEF SignalInv, RegisterChild, Rec
  <2>1. job' = job /\ pc[t] = "spawned"
    BY <1>3 DEF RegisterChild, local
  <2>2. pc'[t] = "wait" /\ (u # t => pc'[u] = pc[u])
    BY <1>0, <1>3, ThreadNames DEF RegisterChild, Goto, TypeOK, ThreadsType
  <2>3. /\ sigterms'[Rec(u)] <= 1
        /\ ~Attending(u) => sigterms'[Rec(u)] = sigterms[Rec(u)]
        /\ child[Rec(u)] = "live" => sigterms'[Rec(u)] = 0 \/ termed'[Rec(u)]
    BY <1>3, TermSignals DEF RegisterChild
  <2>4. Attending(u)' <=> Attending(u)
    BY <2>1, <2>2 DEF Attending
  <2>5. Unspawned(u)' => Unspawned(u)
    BY <2>1, <2>2 DEF Unspawned
  <2>6. pc[u] = "idle" => pc'[u] = "idle" /\ ~Attending(u)
    BY <2>1, <2>2 DEF Attending
  <2>7. Unspawned(u)' => ~Attending(u)
    BY <2>4 DEF Unspawned, Attending
  <2> QED
    BY <2>3, <2>4, <2>5, <2>6, <2>7 DEF SignalInv
<1>4. CASE Settle(t) \/ Cleanup(t)
  <2>1. UNCHANGED <<issued, termed, child, sigterms>>
    BY <1>4 DEF Settle, Cleanup, recs
  <2> QED
    BY <1>0, <1>4, <2>1, QuietThread, QuietSignals
<1> QED
  BY <1>2, <1>3, <1>4 DEF Run

\* A recorder that ends is not live any more.
LEMMA ChildSignals ==
    ASSUME TypeOK, SignalInv, NEW r \in Recs, NEW end \in Endings, ChildExits(r, end)
    PROVE  SignalInv'
<1> SUFFICES ASSUME NEW t \in RunThreads
             PROVE  child'[Rec(t)] = "live" => child[Rec(t)] = "live"
  BY DEF SignalInv, ChildExits, local, Unspawned, Attending, Rec
<1>1. end # "live" /\ Rec(t) \in Recs
  BY ThreadNames DEF Endings, Errors, Life!Errors
<1> QED
  BY <1>1 DEF ChildExits, TypeOK, RecsType

\* Stop's signal round, the SIGKILL, and the end of the process.
LEMMA StopSignalsOnce ==
    ASSUME TypeOK, SignalInv, StopBegins \/ StopGoesOn \/ Crash \/ Restart
    PROVE  SignalInv'
<1>1. ASSUME UNCHANGED <<pc, job>> PROVE Quiet
  BY <1>1 DEF Quiet, Unspawned, Attending
<1>2. CASE StopBegins \/ StopDrained \/ Restart
  BY <1>1, <1>2, QuietSignals DEF StopBegins, StopDrained, Restart, recs, local
<1>3. CASE StopSignals
  <2> SUFFICES ASSUME NEW t \in RunThreads
               PROVE  /\ sigterms'[Rec(t)] <= 1
                      /\ Unspawned(t) => sigterms'[Rec(t)] = 0
                      /\ t[3] > issued[t[2]] => pc[t] = "idle" /\ sigterms'[Rec(t)] = 0
                      /\ child[Rec(t)] = "live" =>
                          Attending(t) /\ (sigterms'[Rec(t)] = 0 \/ termed'[Rec(t)])
    BY <1>3 DEF SignalInv, StopSignals, local, Unspawned, Attending, Rec
  <2>1. /\ sigterms'[Rec(t)] <= 1
        /\ ~Attending(t) => sigterms'[Rec(t)] = sigterms[Rec(t)]
        /\ child[Rec(t)] = "live" => sigterms'[Rec(t)] = 0 \/ termed'[Rec(t)]
    BY <1>3, TermSignals DEF StopSignals
  <2>2. Unspawned(t) \/ pc[t] = "idle" => ~Attending(t)
    BY DEF Unspawned, Attending
  <2> QED
    BY <2>1, <2>2 DEF SignalInv
<1>4. CASE GraceExpires
  <2> SUFFICES ASSUME NEW t \in RunThreads
               PROVE  child'[Rec(t)] = "live" => child[Rec(t)] = "live"
    BY <1>4 DEF SignalInv, GraceExpires, local, Unspawned, Attending, Rec
  <2> QED
    BY <1>4, ThreadNames DEF GraceExpires
<1>5. CASE Exit \/ Crash
  <2> SUFFICES ASSUME NEW t \in RunThreads
               PROVE  /\ ~Unspawned(t)'
                      /\ pc'[t] = "idle"
                      /\ child'[Rec(t)] # "live"
    BY <1>5 DEF SignalInv, Exit, Crash, ProcessEnds, Rec
  <2>1. pc'[t] = "idle" /\ child'[Rec(t)] = "none"
    BY <1>5, ThreadNames DEF Exit, Crash, ProcessEnds
  <2> QED
    BY <2>1 DEF Unspawned
<1> QED
  BY <1>2, <1>3, <1>4, <1>5 DEF StopGoesOn

\* The service starts with nobody signalled.
LEMMA InitSignals == Init => SignalInv
<1> SUFFICES ASSUME Init, NEW t \in RunThreads
             PROVE  /\ sigterms[Rec(t)] = 0
                    /\ pc[t] = "idle"
                    /\ child[Rec(t)] = "none"
  BY DEF SignalInv, Unspawned, Init
<1> QED
  BY ThreadNames DEF Init

\* SignalInv is inductive.
LEMMA NextSignals == TypeOK /\ SignalInv /\ [Next]_vars => SignalInv'
<1> SUFFICES ASSUME TypeOK, SignalInv, [Next]_vars PROVE SignalInv'
  OBVIOUS
<1>1. ASSUME NEW j \in Jobs, Click(j) PROVE SignalInv'
  <2>1. ASSUME NEW k \in 1 .. MaxDup, ClickDuplicate(j, k) PROVE SignalInv'
    BY <2>1, QuietMain, QuietSignals DEF ClickDuplicate, recs
  <2>2. CASE ClickSaveFails(j)
    BY <2>2, QuietMain, QuietSignals DEF ClickSaveFails, recs
  <2> QED
    BY <1>1, <2>1, <2>2, AcceptSignals DEF Click
<1>2. ASSUME NEW t \in Threads, Indicator(t) \/ PostNote(t) \/ Delivery(t) PROVE SignalInv'
  <2>1. UNCHANGED <<issued, termed, child, sigterms>>
    BY <1>2 DEF Indicator, LockIndicator, IndicatorCall, IndicatorCallFails, ReleaseIndicator,
       PostNote, Delivery, Deliver, DeliveryUnanswered, DeliveryGivesUp, StampDelivered, recs
  <2> QED
    BY <1>2, <2>1, QuietThread, QuietSignals
<1>3. CASE Resume \/ Sweep
  <2>1. UNCHANGED <<issued, termed, child, sigterms>>
    BY <1>3 DEF Resume, ListJobs, ResumeReturns, BootSweep, ResumeInterrupted, ResumeUnsent,
       ResumeNothing, Resumed, Sweep, TickFires, SweepRemoves, SweepLists, ResendEnds,
       SweepReads, ResendNext, recs
  <2> QED
    BY <1>3, <2>1, QuietMain, QuietSignals
<1>4. ASSUME NEW t \in RunThreads, Run(t) PROVE SignalInv'
  BY <1>4, RunSignals
<1>5. ASSUME NEW r \in Recs, NEW end \in Endings, ChildExits(r, end) PROVE SignalInv'
  BY <1>5, ChildSignals
<1>6. CASE StopBegins \/ StopGoesOn \/ Crash \/ Restart
  BY <1>6, StopSignalsOnce
<1>7. CASE UNCHANGED vars
  BY <1>7 DEF vars, recs, local, SignalInv, Unspawned, Attending, Rec
<1> QED
  BY <1>1, <1>2, <1>3, <1>4, <1>5, <1>6, <1>7 DEF Next

\* runner.go:427-428: no recorder gets a second SIGTERM, however Stop's signal
\* round and the start of a late recorder interleave.
THEOREM OneSignal == Spec => []SignalledOnce
<1>1. SignalInv => SignalledOnce
  <2> SUFFICES ASSUME SignalInv, NEW r \in Recs PROVE sigterms[r] <= 1
    BY DEF SignalledOnce
  <2>1. r = Rec(RunThread(r[1], r[2])) /\ RunThread(r[1], r[2]) \in RunThreads
    BY DEF Recs, Rec, RunThread, RunThreads
  <2> QED
    BY <2>1 DEF SignalInv
<1> QED
  BY <1>1, TypeCorrect, InitSignals, NextSignals, PTL DEF Spec

-----------------------------------------------------------------------------
(***************************************************************************)
(* The job file is the lock: one recorder per job.                         *)
(***************************************************************************)

\* Two unsettled recordings of a job would both be the one in its file.
LEMMA UnsettledAlone ==
    ASSUME FileInv, NEW t \in RunThreads, NEW u \in RunThreads,
           Unsettled(t), Unsettled(u), t[2] = u[2]
    PROVE  t = u
  BY ThreadNames DEF FileInv

\* A step that unsettles nothing anew and leaves the files of the unsettled
\* recordings alone keeps FileInv.
LEMMA KeptFiles ==
    ASSUME FileInv,
           \A t \in RunThreads :
               Unsettled(t)' => Unsettled(t) /\ disk'[t[2]] = disk[t[2]]
    PROVE  FileInv'
  BY DEF FileInv

\* A click accepts a job only if no recording of it is unsettled.
LEMMA AcceptFiles ==
    ASSUME TypeOK, FileInv, NEW j \in Jobs, NEW g \in Gens, ClickAccept(j, g)
    PROVE  FileInv'
<1> SUFFICES ASSUME NEW t \in RunThreads, Unsettled(t)'
             PROVE  disk'[t[2]].state = "recording" /\ disk'[t[2]].gen = t[3]
  BY DEF FileInv
<1>1. disk' = [disk EXCEPT ![j] = File("recording", g, "none", FALSE)]
  BY DEF ClickAccept, Saved
<1>2. CASE t = RunThread(j, g)
  BY <1>1, <1>2 DEF RunThread, File, TypeOK, DiskType
<1>3. CASE t # RunThread(j, g)
  <2>1. pc'[t] = pc[t] /\ job'[t] = job[t]
    BY <1>3, ThreadNames DEF ClickAccept, Goto, TypeOK, ThreadsType
  <2>2. Unsettled(t)
    BY <2>1 DEF Unsettled, Unspawned, Attending
  <2>3. t[2] # j
    BY <2>2 DEF FileInv, ClickAccept, AlreadyRecording
  <2> QED
    BY <1>1, <2>2, <2>3, ThreadNames DEF FileInv, TypeOK, DiskType
<1> QED
  BY <1>2, <1>3

\* run writes its final state when it settles, to a file no other recording
\* is in.
LEMMA RunFiles ==
    ASSUME TypeOK, FileInv, NEW t \in RunThreads, Run(t)
    PROVE  FileInv'
<1>0. t \in Threads
  BY ThreadNames
<1>1. CASE SpawnChild(t) \/ SpawnFails(t) \/ RegisterChild(t)
  <2>1. disk' = disk /\ job' = job /\ Unsettled(t)
    BY <1>1 DEF SpawnChild, SpawnFails, RegisterChild, local, Unsettled, Unspawned, Attending
  <2>2. \A u \in RunThreads : u # t => pc'[u] = pc[u]
    BY <1>0, <1>1, ThreadNames DEF SpawnChild, SpawnFails, RegisterChild, Goto, TypeOK, ThreadsType
  <2>3. \A u \in RunThreads : Unsettled(u)' => Unsettled(u)
    BY <2>1, <2>2 DEF Unsettled, Unspawned, Attending
  <2> QED
    BY <2>1, <2>3, KeptFiles
<1>2. CASE Cleanup(t)
  <2>1. Quiet /\ disk' = disk
    BY <1>0, <1>2, QuietThread DEF Cleanup
  <2> QED
    BY <2>1, KeptFiles DEF Quiet, Unsettled
<1>3. CASE Settle(t)
  <2>1. Quiet
    BY <1>0, <1>3, QuietThread
  <2>2. Unsettled(t) /\ ~Unspawned(t)
    BY <1>3 DEF Settle, Unsettled, Unspawned, Attending
  <2>3. ~Unsettled(t)'
    <3>1. pc'[t] \in {"want", "note"}
      BY <1>0, <1>3 DEF Settle, Goto, TypeOK, ThreadsType
    <3> QED
      BY <2>1, <2>2, <3>1 DEF Quiet, Unsettled, Attending
  <2>4. \A k \in Jobs : k # t[2] => disk'[k] = disk[k]
    BY <1>3 DEF Settle, Saved, SaveFails, TypeOK, DiskType
  <2>5. \A u \in RunThreads : Unsettled(u)' => Unsettled(u) /\ disk'[u[2]] = disk[u[2]]
    <3> SUFFICES ASSUME NEW u \in RunThreads, Unsettled(u)'
                 PROVE  Unsettled(u) /\ disk'[u[2]] = disk[u[2]]
      OBVIOUS
    <3>1. Unsettled(u) /\ u # t
      BY <2>1, <2>3 DEF Quiet, Unsettled
    <3> QED
      BY <2>2, <2>4, <3>1, UnsettledAlone, ThreadNames
  <2> QED
    BY <2>5, KeptFiles
<1> QED
  BY <1>1, <1>2, <1>3 DEF Run

\* The stamp goes to a finished job, which no unsettled recording is in.
LEMMA ThreadFiles ==
    ASSUME TypeOK, FileInv, NEW t \in Threads, Indicator(t) \/ PostNote(t) \/ Delivery(t)
    PROVE  FileInv'
<1>1. Quiet
  BY QuietThread
<1>2. CASE disk' = disk
  BY <1>1, <1>2, KeptFiles DEF Quiet, Unsettled
<1>3. CASE disk' # disk
  <2>1. /\ disk[job[t].id].state = "finished"
        /\ \A k \in Jobs : k # job[t].id => disk'[k] = disk[k]
    BY <1>3 DEF Indicator, LockIndicator, IndicatorCall, IndicatorCallFails, ReleaseIndicator,
       PostNote, Delivery, Deliver, DeliveryUnanswered, DeliveryGivesUp, StampDelivered,
       Superseded, Saved, SaveFails, TypeOK, DiskType
  <2>2. \A u \in RunThreads : Unsettled(u)' => Unsettled(u) /\ disk'[u[2]] = disk[u[2]]
    BY <1>1, <2>1, ThreadNames DEF Quiet, Unsettled, FileInv
  <2> QED
    BY <2>2, KeptFiles
<1> QED
  BY <1>2, <1>3

\* Startup repairs files while no recording is at work.
LEMMA ResumeFiles ==
    ASSUME TypeOK, FileInv, PhaseInv, Resume
    PROVE  FileInv'
<1>1. Quiet
  BY QuietMain
<1>2. phase \in {"boot", "resume"}
  BY DEF Resume, ListJobs, ResumeReturns, BootSweep, ResumeInterrupted, ResumeUnsent,
     ResumeNothing, Resumed
<1>3. \A t \in RunThreads : ~Unsettled(t)
  BY <1>2 DEF PhaseInv, Unsettled, Unspawned, Attending
<1> QED
  BY <1>1, <1>3, KeptFiles DEF Quiet, Unsettled

\* With retention off the sweep writes no file.
LEMMA SweepFiles ==
    ASSUME TypeOK, FileInv, SweepInv, Sweep
    PROVE  FileInv'
<1>1. Quiet
  BY QuietMain
<1>2. disk' = disk
  BY DEF Sweep, TickFires, SweepRemoves, SweepLists, ResendEnds, SweepReads, ResendNext, SweepInv
<1> QED
  BY <1>1, <1>2, KeptFiles DEF Quiet, Unsettled

\* FileInv is inductive, given PhaseInv and SweepInv.
LEMMA NextFiles ==
    ASSUME TypeOK, FileInv, PhaseInv, SweepInv, [Next]_vars
    PROVE  FileInv'
<1>0. ASSUME UNCHANGED <<disk, pc, job>> PROVE FileInv'
  BY <1>0, KeptFiles DEF Unsettled, Unspawned, Attending
<1>1. ASSUME NEW j \in Jobs, Click(j) PROVE FileInv'
  <2>1. CASE (\E k \in 1 .. MaxDup : ClickDuplicate(j, k)) \/ ClickSaveFails(j)
    <3>1. Quiet /\ disk' = disk
      BY <2>1, QuietMain DEF ClickDuplicate, ClickSaveFails, SaveFails
    <3> QED
      BY <3>1, KeptFiles DEF Quiet, Unsettled
  <2> QED
    BY <1>1, <2>1, AcceptFiles DEF Click
<1>2. ASSUME NEW t \in Threads, Indicator(t) \/ PostNote(t) \/ Delivery(t) PROVE FileInv'
  BY <1>2, ThreadFiles
<1>3. ASSUME NEW t \in RunThreads, Run(t) PROVE FileInv'
  BY <1>3, RunFiles
<1>4. ASSUME NEW r \in Recs, NEW end \in Endings, ChildExits(r, end) PROVE FileInv'
  BY <1>0, <1>4 DEF ChildExits, local
<1>5. CASE StopBegins \/ StopSignals \/ StopDrained \/ GraceExpires \/ Restart
  BY <1>0, <1>5 DEF StopBegins, StopSignals, StopDrained, GraceExpires, Restart, local
<1>6. CASE Exit \/ Crash
  <2>1. \A t \in RunThreads : pc'[t] = "idle"
    BY <1>6, ThreadNames DEF Exit, Crash, ProcessEnds
  <2> QED
    BY <2>1 DEF FileInv, Unsettled, Unspawned, Attending
<1>7. CASE UNCHANGED vars
  BY <1>0, <1>7 DEF vars, local
<1> QED
  BY <1>1, <1>2, <1>3, <1>4, <1>5, <1>6, <1>7, ResumeFiles, SweepFiles DEF Next, StopGoesOn

\* Runs start only while the service is up.
LEMMA NextPhase ==
    ASSUME TypeOK, PhaseInv, [Next]_vars
    PROVE  PhaseInv'
<1> DEFINE Down == {"boot", "resume"} \cup Ended
<1>0. ASSUME Quiet, phase' \in Down => phase \in Down PROVE PhaseInv'
  BY <1>0 DEF PhaseInv, Quiet
<1>1. ASSUME phase' \notin Down PROVE PhaseInv'
  BY <1>1 DEF PhaseInv
<1>2. ASSUME NEW j \in Jobs, Click(j) PROVE PhaseInv'
  <2>1. phase' = "up"
    BY <1>2 DEF Click, ClickAccept, ClickDuplicate, ClickSaveFails, main
  <2> QED
    BY <1>1, <2>1 DEF Ended
<1>3. ASSUME NEW t \in Threads, Indicator(t) \/ PostNote(t) \/ Delivery(t) PROVE PhaseInv'
  <2>1. phase' = phase
    BY <1>3 DEF Indicator, LockIndicator, IndicatorCall, IndicatorCallFails, ReleaseIndicator,
       PostNote, Delivery, Deliver, DeliveryUnanswered, DeliveryGivesUp, StampDelivered, main
  <2> QED
    BY <1>0, <1>3, <2>1, QuietThread
<1>4. ASSUME NEW t \in RunThreads, Run(t) PROVE PhaseInv'
  <2>1. phase' = phase /\ pc[t] # "idle"
    BY <1>4 DEF Run, SpawnChild, SpawnFails, RegisterChild, Settle, Cleanup, main
  <2> QED
    BY <1>1, <2>1 DEF PhaseInv
<1>5. CASE Resume \/ Sweep
  <2>1. phase' \in Down => phase \in Down
    BY <1>5 DEF Resume, ListJobs, ResumeReturns, BootSweep, ResumeInterrupted, ResumeUnsent,
       ResumeNothing, Resumed, Sweep, TickFires, SweepRemoves, SweepLists, ResendEnds,
       SweepReads, ResendNext, main
  <2> QED
    BY <1>0, <1>5, <2>1, QuietMain
<1>6. ASSUME UNCHANGED pc, phase' \in Down => phase \in Down PROVE PhaseInv'
  BY <1>6 DEF PhaseInv
<1>7. ASSUME NEW r \in Recs, NEW end \in Endings, ChildExits(r, end) PROVE PhaseInv'
  BY <1>6, <1>7 DEF ChildExits, main
<1>8. CASE StopBegins \/ StopSignals \/ StopDrained \/ GraceExpires \/ Restart
  BY <1>6, <1>8 DEF StopBegins, StopSignals, StopDrained, GraceExpires, Restart, Ended
<1>9. CASE Exit \/ Crash
  <2>1. \A t \in RunThreads : pc'[t] = "idle"
    BY <1>9, ThreadNames DEF Exit, Crash, ProcessEnds
  <2> QED
    BY <2>1 DEF PhaseInv
<1>10. CASE UNCHANGED vars
  BY <1>6, <1>10 DEF vars, main
<1> QED
  BY <1>2, <1>3, <1>4, <1>5, <1>7, <1>8, <1>9, <1>10 DEF Next, StopGoesOn

\* Only retention takes the ticker to a removal.
LEMMA NextSweep ==
    ASSUME ~Retention, TypeOK, SweepInv, [Next]_vars
    PROVE  SweepInv'
<1>0. ASSUME NEW t \in Threads, NEW l, Goto(t, l), l # "remove" PROVE SweepInv'
  BY <1>0, ThreadNames DEF SweepInv, Goto, TypeOK, ThreadsType
<1>1. ASSUME UNCHANGED pc PROVE SweepInv'
  BY <1>1 DEF SweepInv
<1>2. ASSUME NEW j \in Jobs, Click(j) PROVE SweepInv'
  BY <1>0, <1>1, <1>2, ThreadNames DEF Click, ClickAccept, ClickDuplicate, ClickSaveFails
<1>3. ASSUME NEW t \in Threads, Indicator(t) \/ PostNote(t) \/ Delivery(t) PROVE SweepInv'
  BY <1>0, <1>1, <1>3 DEF Indicator, LockIndicator, IndicatorCall, IndicatorCallFails,
     ReleaseIndicator, PostNote, Delivery, Deliver, DeliveryUnanswered, DeliveryGivesUp,
     StampDelivered, AfterIndicator, AfterDelivery
<1>4. ASSUME NEW t \in RunThreads, Run(t) PROVE SweepInv'
  BY <1>0, <1>4, ThreadNames DEF Run, SpawnChild, SpawnFails, RegisterChild, Settle, Cleanup
<1>5. CASE Resume
  BY <1>0, <1>1, <1>5, ThreadNames DEF Resume, ListJobs, ResumeReturns, BootSweep,
     ResumeInterrupted, ResumeUnsent, ResumeNothing, Resumed
<1>6. CASE Sweep
  BY <1>0, <1>6, ThreadNames DEF Sweep, TickFires, SweepRemoves, SweepLists, ResendEnds,
     SweepReads, ResendNext
<1>7. ASSUME NEW r \in Recs, NEW end \in Endings, ChildExits(r, end) PROVE SweepInv'
  BY <1>1, <1>7 DEF ChildExits
<1>8. CASE StopBegins \/ StopSignals \/ StopDrained \/ GraceExpires \/ Restart
  BY <1>1, <1>8 DEF StopBegins, StopSignals, StopDrained, GraceExpires, Restart
<1>9. CASE Exit \/ Crash
  BY <1>9, ThreadNames DEF Exit, Crash, ProcessEnds, SweepInv
<1>10. CASE UNCHANGED vars
  BY <1>1, <1>10 DEF vars
<1> QED
  BY <1>2, <1>3, <1>4, <1>5, <1>6, <1>7, <1>8, <1>9, <1>10 DEF Next, StopGoesOn

\* Without retention the file is the lock; with it, PhaseInv holds all the same.
LockInv == PhaseInv /\ (~Retention => SweepInv /\ FileInv)

LEMMA InitLock == Init => LockInv
<1> SUFFICES ASSUME Init PROVE LockInv
  OBVIOUS
<1>1. \A t \in RunThreads \cup {Tick} : pc[t] = "idle"
  BY ThreadNames DEF Init
<1> QED
  BY <1>1 DEF LockInv, PhaseInv, SweepInv, FileInv, Unsettled, Unspawned, Attending

LEMMA NextLock == TypeOK /\ LockInv /\ [Next]_vars => LockInv'
  BY NextPhase, NextSweep, NextFiles DEF LockInv

\* runner.go:130-139: as long as the retention sweep is off, no two recorders
\* of one job are alive at once.  (With it, the sweep may remove a file that
\* was re-recorded since it was read, and the next click finds no lock.)
THEOREM OneRecorderAtATime == Spec => [](~Retention => OneRecorder)
<1>1. TypeOK /\ SignalInv /\ LockInv => (~Retention => OneRecorder)
  <2> SUFFICES ASSUME SignalInv, LockInv, ~Retention, NEW j \in Jobs, NEW g \in Gens, NEW h \in Gens,
                      child[<<j, g>>] = "live", child[<<j, h>>] = "live"
               PROVE  g = h
    BY DEF OneRecorder
  <2>1. RunThread(j, g) \in RunThreads /\ RunThread(j, h) \in RunThreads
    BY ThreadNames
  <2>2. Rec(RunThread(j, g)) = <<j, g>> /\ Rec(RunThread(j, h)) = <<j, h>>
    BY DEF Rec, RunThread
  <2>3. Unsettled(RunThread(j, g)) /\ Unsettled(RunThread(j, h))
    BY <2>1, <2>2 DEF SignalInv, Unsettled
  <2> QED
    BY <2>1, <2>3, UnsettledAlone DEF LockInv, RunThread
<1> QED
  BY <1>1, TypeCorrect, InitSignals, NextSignals, InitLock, NextLock, PTL DEF Spec

-----------------------------------------------------------------------------
(***************************************************************************)
(* A stamp means accepted.                                                 *)
(***************************************************************************)

\* The receiver forgets nothing it accepted.
LEMMA DeliveredGrows ==
    ASSUME TypeOK, [Next]_vars
    PROVE  \A j \in Jobs : delivered[j] \subseteq delivered'[j]
<1>1. CASE delivered' = delivered
  BY <1>1
<1>2. ASSUME NEW t \in Threads, Deliver(t) \/ DeliveryUnanswered(t)
      PROVE  \A j \in Jobs : delivered[j] \subseteq delivered'[j]
  BY <1>2 DEF Deliver, DeliveryUnanswered, TypeOK, OutsideType
<1>3. \/ delivered' = delivered
      \/ \E t \in Threads : Deliver(t) \/ DeliveryUnanswered(t)
  BY DEF Next, Click, ClickDuplicate, ClickAccept, ClickSaveFails, Indicator, LockIndicator,
     IndicatorCall, IndicatorCallFails, ReleaseIndicator, PostNote, Delivery, DeliveryGivesUp,
     StampDelivered, Run, SpawnChild, SpawnFails, RegisterChild, Settle, Cleanup, ChildExits,
     Resume, ListJobs, ResumeReturns, BootSweep, ResumeInterrupted, ResumeUnsent, ResumeNothing,
     Resumed, Sweep, TickFires, SweepRemoves, SweepLists, ResendEnds, SweepReads, ResendNext,
     StopBegins, StopGoesOn, StopSignals, StopDrained, GraceExpires, Exit, Crash, ProcessEnds,
     Restart, vars
<1> QED
  BY <1>1, <1>2, <1>3

\* A goroutine that goes anywhere but to the stamp.
LEMMA NoStampGoes ==
    ASSUME TypeOK, StampInv, [Next]_vars, NEW t \in Threads, NEW l, Goto(t, l), l # "stamp",
           \A u \in Threads : u # t => job'[u] = job[u]
    PROVE  StampInv'
<1> SUFFICES ASSUME Webhook, NEW u \in Threads, pc'[u] = "stamp", job'[u].id \in Jobs
             PROVE  job'[u].gen \in delivered'[job'[u].id]
  BY DEF StampInv
<1>1. u # t /\ pc[u] = "stamp" /\ job'[u] = job[u]
  BY DEF Goto, TypeOK, ThreadsType
<1> QED
  BY <1>1, DeliveredGrows DEF StampInv

\* Only an accepted delivery leads to the stamp.
LEMMA NextStamp == TypeOK /\ StampInv /\ [Next]_vars => StampInv'
<1> SUFFICES ASSUME TypeOK, StampInv, [Next]_vars PROVE StampInv'
  OBVIOUS
<1>0. ASSUME UNCHANGED <<pc, job>> PROVE StampInv'
  BY <1>0, DeliveredGrows DEF StampInv
<1>1. ASSUME NEW j \in Jobs, Click(j) PROVE StampInv'
  <2>1. ASSUME NEW k \in 1 .. MaxDup, ClickDuplicate(j, k) PROVE StampInv'
    BY <2>1, NoStampGoes, ThreadNames DEF ClickDuplicate, TypeOK, ThreadsType
  <2>2. ASSUME NEW g \in Gens, ClickAccept(j, g) PROVE StampInv'
    BY <2>2, NoStampGoes, ThreadNames DEF ClickAccept, TypeOK, ThreadsType
  <2>3. CASE ClickSaveFails(j)
    BY <1>0, <2>3 DEF ClickSaveFails, local
  <2> QED
    BY <1>1, <2>1, <2>2, <2>3 DEF Click
<1>2. ASSUME NEW t \in Threads, Indicator(t) \/ PostNote(t) PROVE StampInv'
  <2>1. PICK l : Goto(t, l) /\ l # "stamp" /\ job' = job
    BY <1>2 DEF Indicator, LockIndicator, IndicatorCall, IndicatorCallFails, ReleaseIndicator,
       PostNote, AfterIndicator, local
  <2> QED
    BY <2>1, NoStampGoes
<1>3. ASSUME NEW t \in Threads, Deliver(t) PROVE StampInv'
  <2> SUFFICES ASSUME Webhook, NEW u \in Threads, pc'[u] = "stamp", job'[u].id \in Jobs
               PROVE  job'[u].gen \in delivered'[job'[u].id]
    BY DEF StampInv
  <2>1. job' = job
    BY <1>3 DEF Deliver, local
  <2>2. CASE u = t
    BY <1>3, <2>1, <2>2 DEF Deliver, TypeOK, OutsideType
  <2>3. CASE u # t
    <3>1. pc[u] = "stamp"
      BY <1>3, <2>3 DEF Deliver, Goto, TypeOK, ThreadsType
    <3> QED
      BY <2>1, <3>1, DeliveredGrows DEF StampInv
  <2> QED
    BY <2>2, <2>3
<1>4. ASSUME NEW t \in Threads, DeliveryUnanswered(t) PROVE StampInv'
  BY <1>0, <1>4 DEF DeliveryUnanswered, local
<1>5. ASSUME NEW t \in Threads, DeliveryGivesUp(t) \/ StampDelivered(t) PROVE StampInv'
  <2>1. Goto(t, AfterDelivery(t)) /\ AfterDelivery(t) # "stamp" /\ job' = job
    BY <1>5 DEF DeliveryGivesUp, StampDelivered, AfterDelivery, local
  <2> QED
    BY <2>1, NoStampGoes
<1>6. ASSUME NEW t \in RunThreads, Run(t) PROVE StampInv'
  <2>1. PICK l : Goto(t, l) /\ l # "stamp"
    BY <1>6 DEF Run, SpawnChild, SpawnFails, RegisterChild, Settle, Cleanup
  <2>2. \A u \in Threads : u # t => job'[u] = job[u]
    BY <1>6, ThreadNames DEF Run, SpawnChild, SpawnFails, RegisterChild, Settle, Cleanup, local,
       TypeOK, ThreadsType
  <2> QED
    BY <2>1, <2>2, ThreadNames, NoStampGoes
<1>7. ASSUME NEW j \in Jobs, ResumeInterrupted(j) \/ ResumeUnsent(j) \/ ResumeNothing(j)
      PROVE  StampInv'
  <2>1. PICK l \in {"note", "deliver", "idle"} : Goto(ResumeThread(j), l)
    BY <1>7 DEF ResumeInterrupted, ResumeUnsent, ResumeNothing, Resumed
  <2>2. \A u \in Threads : u # ResumeThread(j) => job'[u] = job[u]
    BY <1>7 DEF ResumeInterrupted, ResumeUnsent, ResumeNothing, TypeOK, ThreadsType
  <2> QED
    BY <2>1, <2>2, ThreadNames, NoStampGoes
<1>8. CASE ListJobs \/ ResumeReturns \/ \E j \in Jobs : BootSweep(j)
  BY <1>0, <1>8 DEF ListJobs, ResumeReturns, BootSweep, local
<1>9. CASE Sweep
  <2>1. PICK l : Goto(Tick, l) /\ l # "stamp"
    BY <1>9 DEF Sweep, TickFires, SweepRemoves, SweepLists, ResendEnds, SweepReads, ResendNext
  <2>2. \A u \in Threads : u # Tick => job'[u] = job[u]
    BY <1>9 DEF Sweep, TickFires, SweepRemoves, SweepLists, ResendEnds, SweepReads, ResendNext,
       local, TypeOK, ThreadsType
  <2> QED
    BY <2>1, <2>2, ThreadNames, NoStampGoes
<1>10. ASSUME NEW r \in Recs, NEW end \in Endings, ChildExits(r, end) PROVE StampInv'
  BY <1>0, <1>10 DEF ChildExits, local
<1>11. CASE StopBegins \/ StopSignals \/ StopDrained \/ GraceExpires \/ Restart
  BY <1>0, <1>11 DEF StopBegins, StopSignals, StopDrained, GraceExpires, Restart, local
<1>12. CASE Exit \/ Crash
  BY <1>12 DEF Exit, Crash, ProcessEnds, StampInv
<1>13. CASE UNCHANGED vars
  BY <1>0, <1>13 DEF vars, local
<1> QED
  BY <1>1, <1>2, <1>3, <1>4, <1>5, <1>6, <1>7, <1>8, <1>9, <1>10, <1>11, <1>12, <1>13
     DEF Next, Delivery, Resume, StopGoesOn

\* A file that is stamped after a step was stamped before it, for the same
\* generation, or is stamped by a goroutine holding a copy of that generation.
LEMMA StampedBy ==
    ASSUME TypeOK, [Next]_vars, NEW j \in Jobs, disk'[j].sent
    PROVE  \/ disk[j].sent /\ disk'[j].gen = disk[j].gen
           \/ \E t \in Threads :
                pc[t] = "stamp" /\ job[t].id = j /\ job[t].gen = disk'[j].gen
<1> DEFINE Kept == disk[j].sent /\ disk'[j].gen = disk[j].gen
<1>0. ASSUME disk'[j] = disk[j] PROVE Kept
  BY <1>0
<1>1. ASSUME NEW i \in Jobs, NEW f, disk' = [disk EXCEPT ![i] = f], ~f.sent PROVE Kept
  BY <1>1 DEF TypeOK, DiskType
<1>2. ~NoFile.sent /\ \A s, g, e : ~File(s, g, e, FALSE).sent
  BY DEF NoFile, Life!NoFile, File
<1>3. ASSUME NEW i \in Jobs, Click(i) PROVE Kept
  <2>1. ASSUME NEW g, ClickAccept(i, g) PROVE Kept
    BY <1>1, <1>2, <2>1 DEF ClickAccept, Saved
  <2>2. ASSUME NEW k, ClickDuplicate(i, k) PROVE Kept
    BY <1>0, <2>2 DEF ClickDuplicate
  <2>3. CASE ClickSaveFails(i)
    BY <1>0, <2>3 DEF ClickSaveFails, SaveFails
  <2> QED
    BY <1>3, <2>1, <2>2, <2>3 DEF Click
<1>4. ASSUME NEW t \in RunThreads, Run(t) PROVE Kept
  <2>1. CASE Settle(t)
    <3>1. t[2] \in Jobs /\ ~SettledFile(t[3], child[Rec(t)]).sent
      BY <1>2, ThreadNames DEF SettledFile
    <3> QED
      BY <1>0, <1>1, <2>1, <3>1 DEF Settle, Saved, SaveFails
  <2>2. CASE ~Settle(t)
    BY <1>0, <1>4, <2>2 DEF Run, SpawnChild, SpawnFails, RegisterChild, Cleanup
  <2> QED
    BY <2>1, <2>2
<1>5. CASE Resume
  <2>1. ASSUME NEW i \in Jobs, BootSweep(i) PROVE Kept
    BY <1>1, <1>2, <2>1 DEF BootSweep
  <2>2. ASSUME NEW i \in Jobs, ResumeInterrupted(i) PROVE Kept
    <3>1. CASE Saved(i, File("failed", disk[i].gen, "interrupted", FALSE))
      BY <1>1, <1>2, <3>1 DEF Saved
    <3>2. CASE SaveFails
      BY <1>0, <3>2 DEF SaveFails
    <3> QED
      BY <2>2, <3>1, <3>2 DEF ResumeInterrupted
  <2>3. ASSUME NEW i \in Jobs, ResumeUnsent(i) \/ ResumeNothing(i) PROVE Kept
    BY <1>0, <2>3 DEF ResumeUnsent, ResumeNothing
  <2>4. CASE ListJobs \/ ResumeReturns
    BY <1>0, <2>4 DEF ListJobs, ResumeReturns
  <2> QED
    BY <1>5, <2>1, <2>2, <2>3, <2>4 DEF Resume
<1>6. CASE Sweep
  <2>1. CASE SweepRemoves
    BY <1>2, <2>1 DEF SweepRemoves, TypeOK, DiskType
  <2>2. CASE ~SweepRemoves
    BY <1>0, <1>6, <2>2 DEF Sweep, TickFires, SweepLists, ResendEnds, SweepReads, ResendNext
  <2> QED
    BY <2>1, <2>2
<1>7. ASSUME NEW t \in Threads, StampDelivered(t)
      PROVE  \/ Kept
             \/ pc[t] = "stamp" /\ job[t].id = j /\ job[t].gen = disk'[j].gen
  <2> DEFINE c == job[t]
  <2>1. CASE ~Superseded(c) /\ Saved(c.id, [disk[c.id] EXCEPT !.sent = TRUE])
    <3>1. CASE c.id = j
      <4>1. disk[j] \in Files /\ disk'[j] = [disk[j] EXCEPT !.sent = TRUE]
        BY <2>1, <3>1 DEF Saved, TypeOK, DiskType
      <4>2. disk'[j].gen = disk[j].gen /\ disk[j].gen = c.gen
        BY <2>1, <3>1, <4>1 DEF Superseded, Files
      <4> QED
        BY <1>7, <3>1, <4>2 DEF StampDelivered
    <3>2. CASE c.id # j
      BY <1>0, <2>1, <3>2 DEF Saved, TypeOK, DiskType
    <3> QED
      BY <3>1, <3>2
  <2>2. CASE disk' = disk
    BY <1>0, <2>2
  <2> QED
    BY <1>7, <2>1, <2>2 DEF StampDelivered, SaveFails
<1>8. ASSUME NEW t \in Threads, Indicator(t) \/ PostNote(t) PROVE Kept
  BY <1>0, <1>8 DEF Indicator, LockIndicator, IndicatorCall, IndicatorCallFails,
     ReleaseIndicator, PostNote
<1>9. ASSUME NEW t \in Threads, Deliver(t) \/ DeliveryUnanswered(t) \/ DeliveryGivesUp(t) PROVE Kept
  BY <1>0, <1>9 DEF Deliver, DeliveryUnanswered, DeliveryGivesUp
<1>10. ASSUME NEW r \in Recs, NEW end \in Endings, ChildExits(r, end) PROVE Kept
  BY <1>0, <1>10 DEF ChildExits
<1>11. CASE StopBegins \/ StopGoesOn \/ Crash \/ Restart
  BY <1>0, <1>11 DEF StopBegins, StopGoesOn, StopSignals, StopDrained, GraceExpires, Exit, Crash,
     ProcessEnds, Restart
<1>12. CASE UNCHANGED vars
  BY <1>0, <1>12 DEF vars
<1> HIDE DEF Kept
<1> QED
  BY <1>3, <1>4, <1>5, <1>6, <1>7, <1>8, <1>9, <1>10, <1>11, <1>12 DEF Next, Delivery, Kept

\* runner.go:494-499: a stamp is only ever on a generation the receiver has
\* accepted, however long its delivery took and whatever was re-recorded since.
THEOREM StampedOnlyIfDelivered == Spec => []StampedWasDelivered
<1>1. Init => StampInv /\ StampedWasDelivered
  BY DEF Init, StampInv, StampedWasDelivered, NoFile, Life!NoFile
<1>2. TypeOK /\ StampInv /\ StampedWasDelivered /\ [Next]_vars => StampedWasDelivered'
  <2> SUFFICES ASSUME TypeOK, StampInv, StampedWasDelivered, [Next]_vars,
                      Webhook, NEW j \in Jobs, disk'[j].sent
               PROVE  disk'[j].gen \in delivered'[j]
    BY DEF StampedWasDelivered
  <2>1. disk'[j].gen \in delivered[j]
    BY StampedBy DEF StampInv, StampedWasDelivered
  <2> QED
    BY <2>1, DeliveredGrows
<1> QED
  BY <1>1, <1>2, TypeCorrect, NextStamp, PTL DEF Spec

-----------------------------------------------------------------------------
(***************************************************************************)
(* The job files implement JobLife, as long as the sweep removes nothing.  *)
(***************************************************************************)

\* An attended recorder was spawned, if only in vain.
SpawnedInv == \A t \in RunThreads : Attending(t) => child[Rec(t)] # "none"

\* A file that says "recording" says nothing else yet.
PlainInv == \A j \in Jobs : disk[j].state = "recording" => disk[j].err = "none" /\ ~disk[j].sent

\* SpawnedInv is inductive.
LEMMA NextSpawned == TypeOK /\ SpawnedInv /\ [Next]_vars => SpawnedInv'
<1> SUFFICES ASSUME TypeOK, SpawnedInv, [Next]_vars PROVE SpawnedInv'
  OBVIOUS
<1>0. ASSUME Quiet, child' = child PROVE SpawnedInv'
  BY <1>0 DEF Quiet, SpawnedInv, Rec
<1>1. ASSUME UNCHANGED pc, \A r \in Recs : child[r] # "none" => child'[r] # "none"
      PROVE  SpawnedInv'
  BY <1>1, ThreadNames DEF SpawnedInv, Attending, Rec
<1>2. ASSUME NEW j \in Jobs, Click(j) PROVE SpawnedInv'
  <2>1. ASSUME NEW g \in Gens, ClickAccept(j, g) PROVE SpawnedInv'
    <3>1. \A t \in RunThreads : Attending(t)' => Attending(t)
      BY <2>1, ThreadNames DEF ClickAccept, Goto, Attending, TypeOK, ThreadsType
    <3> QED
      BY <2>1, <3>1 DEF ClickAccept, SpawnedInv, Rec
  <2>2. CASE (\E k \in 1 .. MaxDup : ClickDuplicate(j, k)) \/ ClickSaveFails(j)
    BY <1>0, <2>2, QuietMain DEF ClickDuplicate, ClickSaveFails, recs
  <2> QED
    BY <1>2, <2>1, <2>2 DEF Click
<1>3. ASSUME NEW t \in Threads, Indicator(t) \/ PostNote(t) \/ Delivery(t) PROVE SpawnedInv'
  <2>1. child' = child
    BY <1>3 DEF Indicator, LockIndicator, IndicatorCall, IndicatorCallFails, ReleaseIndicator,
       PostNote, Delivery, Deliver, DeliveryUnanswered, DeliveryGivesUp, StampDelivered, recs
  <2> QED
    BY <1>0, <1>3, <2>1, QuietThread
<1>4. ASSUME NEW t \in RunThreads, Run(t) PROVE SpawnedInv'
  <2>1. CASE SpawnChild(t) \/ SpawnFails(t) \/ RegisterChild(t)
    <3> SUFFICES ASSUME NEW u \in RunThreads, Attending(u)'
                 PROVE  child'[Rec(u)] # "none"
      BY DEF SpawnedInv, Rec
    <3>1. CASE u = t
      BY <2>1, <3>1, ThreadNames DEF SpawnChild, SpawnFails, RegisterChild, TypeOK, RecsType,
         SpawnedInv, Attending
    <3>2. CASE u # t
      <4>1. Attending(u)
        BY <2>1, <3>2, ThreadNames DEF SpawnChild, SpawnFails, RegisterChild, Goto, Attending,
           TypeOK, ThreadsType
      <4> QED
        BY <2>1, <4>1, ThreadNames DEF SpawnChild, SpawnFails, RegisterChild, TypeOK, RecsType,
           SpawnedInv
    <3> QED
      BY <3>1, <3>2
  <2>2. CASE Settle(t) \/ Cleanup(t)
    BY <1>0, <2>2, QuietThread, ThreadNames DEF Settle, Cleanup, recs
  <2> QED
    BY <1>4, <2>1, <2>2 DEF Run
<1>5. CASE Resume \/ Sweep
  <2>1. child' = child
    BY <1>5 DEF Resume, ListJobs, ResumeReturns, BootSweep, ResumeInterrupted, ResumeUnsent,
       ResumeNothing, Resumed, Sweep, TickFires, SweepRemoves, SweepLists, ResendEnds,
       SweepReads, ResendNext, recs
  <2> QED
    BY <1>0, <1>5, <2>1, QuietMain
<1>6. ASSUME NEW r \in Recs, NEW end \in Endings, ChildExits(r, end) PROVE SpawnedInv'
  BY <1>1, <1>6 DEF ChildExits, Endings, Errors, Life!Errors, TypeOK, RecsType
<1>7. CASE StopBegins \/ StopSignals \/ StopDrained \/ GraceExpires \/ Restart
  BY <1>1, <1>7 DEF StopBegins, StopSignals, StopDrained, GraceExpires, Restart, recs
<1>8. CASE Exit \/ Crash
  <2>1. \A t \in RunThreads : pc'[t] = "idle"
    BY <1>8, ThreadNames DEF Exit, Crash, ProcessEnds
  <2> QED
    BY <2>1 DEF SpawnedInv, Attending
<1>9. CASE UNCHANGED vars
  BY <1>1, <1>9 DEF vars, recs
<1> QED
  BY <1>2, <1>3, <1>4, <1>5, <1>6, <1>7, <1>8, <1>9 DEF Next, StopGoesOn

\* Files are the same if they say the same.
LEMMA SameFile ==
    ASSUME NEW f \in Files, NEW h \in Files,
           f.state = h.state, f.gen = h.gen, f.err = h.err, f.sent = h.sent
    PROVE  f = h
<1>1. /\ f = [state |-> f.state, gen |-> f.gen, err |-> f.err, sent |-> f.sent]
      /\ h = [state |-> h.state, gen |-> h.gen, err |-> h.err, sent |-> h.sent]
  BY DEF Files
<1> QED
  BY <1>1

\* A settled file is the recording one with its ending filled in.
LEMMA FilledIn ==
    ASSUME NEW f \in Files, f.err = "none", ~f.sent
    PROVE  /\ \A e \in Errors :
                File("failed", f.gen, e, FALSE) = [f EXCEPT !.state = "failed", !.err = e]
           /\ File("finished", f.gen, "none", FALSE) = [f EXCEPT !.state = "finished"]
<1>1. ASSUME NEW e \in Errors
      PROVE  File("failed", f.gen, e, FALSE) = [f EXCEPT !.state = "failed", !.err = e]
  <2> DEFINE h == [f EXCEPT !.state = "failed", !.err = e]
             k == File("failed", f.gen, e, FALSE)
  <2>1. /\ h \in Files /\ h.state = "failed" /\ h.gen = f.gen
        /\ h.err = e /\ h.sent = FALSE
    BY DEF Files, States
  <2>2. /\ k \in Files /\ k.state = "failed" /\ k.gen = f.gen
        /\ k.err = e /\ k.sent = FALSE
    BY DEF Files, States, File
  <2> HIDE DEF h, k
  <2>3. k = h
    BY <2>1, <2>2, SameFile
  <2> QED
    BY <2>3 DEF h, k
<1>2. File("finished", f.gen, "none", FALSE) = [f EXCEPT !.state = "finished"]
  <2> DEFINE h == [f EXCEPT !.state = "finished"]
             k == File("finished", f.gen, "none", FALSE)
  <2>1. /\ h \in Files /\ h.state = "finished" /\ h.gen = f.gen
        /\ h.err = "none" /\ h.sent = FALSE
    BY DEF Files, States
  <2>2. /\ k \in Files /\ k.state = "finished" /\ k.gen = f.gen
        /\ k.err = "none" /\ k.sent = FALSE
    BY DEF Files, States, File
  <2> HIDE DEF h, k
  <2>3. k = h
    BY <2>1, <2>2, SameFile
  <2> QED
    BY <2>3 DEF h, k
<1> QED
  BY <1>1, <1>2

\* The steps of the runner that write job.json are the steps of a job's life.
LEMMA StepLives ==
    ASSUME ~Retention, TypeOK, LockInv, SpawnedInv, PlainInv, [Next]_vars
    PROVE  PlainInv' /\ [Life!LifeNext]_(Life!lifeVars)
<1> DEFINE Goal == PlainInv' /\ [Life!LifeNext]_(Life!lifeVars)
<1> SUFFICES Goal
  OBVIOUS
<1>0. ASSUME UNCHANGED <<disk, issued>> PROVE Goal
  BY <1>0 DEF PlainInv, Life!lifeVars
<1>1. ASSUME NEW j \in Jobs, NEW g \in Gens, ClickAccept(j, g) PROVE Goal
  <2>1. disk' = [disk EXCEPT ![j] = [state |-> "recording", gen |-> issued[j] + 1,
                                     err |-> "none", sent |-> FALSE]]
    BY <1>1 DEF ClickAccept, Saved, File
  <2>2. issued' = [issued EXCEPT ![j] = issued[j] + 1] /\ disk[j].state # "recording"
    BY <1>1 DEF ClickAccept, AlreadyRecording
  <2>3. Life!Accept(j)
    BY <2>1, <2>2 DEF Life!Accept
  <2>4. PlainInv'
    BY <2>1 DEF PlainInv, TypeOK, DiskType
  <2> QED
    BY <2>3, <2>4 DEF Life!LifeNext
<1>2. ASSUME NEW j \in Jobs, NEW e \in Errors, disk[j].state = "recording", issued' = issued,
             Saved(j, File("failed", disk[j].gen, e, FALSE))
      PROVE  Goal
  <2>1. disk[j] \in Files /\ ~disk[j].sent
    BY <1>2 DEF TypeOK, DiskType, PlainInv
  <2>2. File("failed", disk[j].gen, e, FALSE) = [disk[j] EXCEPT !.state = "failed", !.err = e]
    BY <1>2, <2>1, FilledIn DEF PlainInv
  <2>3. disk' = [disk EXCEPT ![j] = [disk[j] EXCEPT !.state = "failed", !.err = e]]
    BY <1>2, <2>2 DEF Saved
  <2>4. Life!Fail(j, e)
    BY <1>2, <2>3 DEF Life!Fail
  <2>5. PlainInv'
    BY <2>1, <2>3 DEF PlainInv, TypeOK, DiskType, Files
  <2> QED
    BY <1>2, <2>4, <2>5 DEF Life!LifeNext, Errors
<1>3. ASSUME NEW t \in RunThreads, Settle(t) PROVE Goal
  <2> DEFINE j   == t[2]
             end == child[Rec(t)]
  <2>1. j \in Jobs /\ Rec(t) \in Recs /\ Attending(t)
    BY <1>3, ThreadNames DEF Settle, Attending
  <2>2. disk[j].state = "recording" /\ disk[j].gen = t[3]
    BY <2>1 DEF LockInv, FileInv, Unsettled
  <2>3. end \in Endings
    BY <1>3, <2>1 DEF Settle, SpawnedInv, TypeOK, RecsType
  <2>4. disk[j] \in Files /\ disk[j].err = "none" /\ ~disk[j].sent
    BY <2>1, <2>2 DEF TypeOK, DiskType, PlainInv
  <2>5. CASE Saved(j, SettledFile(t[3], end)) /\ end = "ok"
    <3>1. SettledFile(t[3], end) = [disk[j] EXCEPT !.state = "finished"]
      BY <2>2, <2>4, <2>5, FilledIn DEF SettledFile
    <3>2. disk' = [disk EXCEPT ![j] = [disk[j] EXCEPT !.state = "finished"]]
      BY <2>5, <3>1 DEF Saved
    <3>3. Life!Finish(j)
      BY <1>3, <2>2, <3>2 DEF Life!Finish, Settle
    <3>4. PlainInv'
      BY <2>1, <2>4, <3>2 DEF PlainInv, TypeOK, DiskType, Files
    <3> QED
      BY <2>1, <3>3, <3>4 DEF Life!LifeNext
  <2>6. CASE Saved(j, SettledFile(t[3], end)) /\ end # "ok"
    <3>1. SettledFile(t[3], end) = File("failed", disk[j].gen, end, FALSE) /\ end \in Errors
      BY <2>2, <2>3, <2>6 DEF SettledFile, Endings
    <3> QED
      BY <1>2, <1>3, <2>1, <2>2, <2>6, <3>1 DEF Settle
  <2>7. CASE SaveFails
    BY <1>0, <1>3, <2>7 DEF Settle, SaveFails
  <2> QED
    BY <1>3, <2>5, <2>6, <2>7 DEF Settle
<1>4. ASSUME NEW t \in Threads, StampDelivered(t) PROVE Goal
  <2> DEFINE c == job[t]
  <2>0. issued' = issued
    BY <1>4 DEF StampDelivered
  <2>1. CASE disk' = disk
    BY <1>0, <2>0, <2>1
  <2>2. CASE ~Superseded(c) /\ Saved(c.id, [disk[c.id] EXCEPT !.sent = TRUE]) /\ c.id \in Jobs
    <3>1. /\ disk' = [disk EXCEPT ![c.id] = [disk[c.id] EXCEPT !.sent = TRUE]]
          /\ disk[c.id].state = "finished" /\ disk[c.id] \in Files
      BY <2>2 DEF Saved, Superseded, TypeOK, DiskType
    <3>2. Life!Stamp(c.id)
      BY <2>0, <3>1 DEF Life!Stamp
    <3>3. PlainInv'
      BY <2>2, <3>1 DEF PlainInv, TypeOK, DiskType, Files
    <3> QED
      BY <2>2, <3>2, <3>3 DEF Life!LifeNext
  <2> QED
    BY <1>4, <2>1, <2>2 DEF StampDelivered, Saved, SaveFails, TypeOK, DiskType
<1>5. ASSUME NEW j \in Jobs, ResumeInterrupted(j) PROVE Goal
  <2>1. issued' = issued /\ disk[j].state = "recording" /\ "interrupted" \in Errors
    BY <1>5 DEF ResumeInterrupted, Resumed, LeftRecording, Errors, Life!Errors
  <2>2. CASE Saved(j, File("failed", disk[j].gen, "interrupted", FALSE))
    BY <1>2, <2>1, <2>2
  <2>3. CASE SaveFails
    BY <1>0, <2>1, <2>3 DEF SaveFails
  <2> QED
    BY <1>5, <2>2, <2>3 DEF ResumeInterrupted
<1>6. CASE Sweep
  <2>1. UNCHANGED <<disk, issued>>
    BY <1>6 DEF Sweep, TickFires, SweepRemoves, SweepLists, ResendEnds, SweepReads, ResendNext,
       LockInv, SweepInv
  <2> QED
    BY <1>0, <2>1
<1>7. ASSUME NEW j \in Jobs, NEW k, ClickDuplicate(j, k) \/ ClickSaveFails(j) PROVE Goal
  BY <1>0, <1>7 DEF ClickDuplicate, ClickSaveFails, SaveFails
<1>8. ASSUME NEW t \in Threads, Indicator(t) \/ PostNote(t) PROVE Goal
  BY <1>0, <1>8 DEF Indicator, LockIndicator, IndicatorCall, IndicatorCallFails,
     ReleaseIndicator, PostNote
<1>9. ASSUME NEW t \in Threads, Deliver(t) \/ DeliveryUnanswered(t) \/ DeliveryGivesUp(t) PROVE Goal
  BY <1>0, <1>9 DEF Deliver, DeliveryUnanswered, DeliveryGivesUp
<1>10. ASSUME NEW t \in RunThreads, SpawnChild(t) \/ SpawnFails(t) \/ RegisterChild(t) \/ Cleanup(t)
       PROVE  Goal
  BY <1>0, <1>10 DEF SpawnChild, SpawnFails, RegisterChild, Cleanup
<1>11. ASSUME NEW r \in Recs, NEW end \in Endings, ChildExits(r, end) PROVE Goal
  BY <1>0, <1>11 DEF ChildExits
<1>12. ASSUME NEW j \in Jobs, BootSweep(j) \/ ResumeUnsent(j) \/ ResumeNothing(j) PROVE Goal
  BY <1>0, <1>12 DEF BootSweep, ResumeUnsent, ResumeNothing, Resumed
<1>13. CASE ListJobs \/ ResumeReturns
  BY <1>0, <1>13 DEF ListJobs, ResumeReturns
<1>14. CASE StopBegins \/ StopGoesOn \/ Crash \/ Restart
  BY <1>0, <1>14 DEF StopBegins, StopGoesOn, StopSignals, StopDrained, GraceExpires, Exit, Crash,
     ProcessEnds, Restart
<1>15. CASE UNCHANGED vars
  BY <1>0, <1>15 DEF vars
<1> HIDE DEF Goal
<1>16. ASSUME NEW j \in Jobs, Click(j) PROVE Goal
  BY <1>1, <1>7, <1>16 DEF Click
<1>17. ASSUME NEW t \in Threads, Delivery(t) PROVE Goal
  BY <1>4, <1>9, <1>17 DEF Delivery
<1>18. ASSUME NEW t \in RunThreads, Run(t) PROVE Goal
  BY <1>3, <1>10, <1>18 DEF Run
<1>19. CASE Resume
  BY <1>5, <1>12, <1>13, <1>19 DEF Resume
<1> QED
  BY <1>6, <1>8, <1>11, <1>14, <1>15, <1>16, <1>17, <1>18, <1>19 DEF Next

\* With the retention sweep off, the runner implements JobLife: no step brings
\* a superseded generation back, un-settles a job or removes one that records.
THEOREM JobLifeRefinement ==
    ASSUME ~Retention
    PROVE  Spec => ImplementsJobLife
<1>1. Init => Life!LifeInit /\ SpawnedInv /\ PlainInv
  <2>1. Init => SpawnedInv
    BY ThreadNames DEF Init, SpawnedInv, Attending
  <2> QED
    BY <2>1 DEF Init, Life!LifeInit, PlainInv, NoFile, Life!NoFile
<1>2. TypeOK /\ LockInv /\ SpawnedInv /\ PlainInv /\ [Next]_vars => PlainInv'
  BY StepLives
<1>3. TypeOK /\ LockInv /\ SpawnedInv /\ PlainInv /\ [Next]_vars
        => [Life!LifeNext]_(Life!lifeVars)
  BY StepLives
<1> QED
  BY <1>1, <1>2, <1>3, TypeCorrect, InitLock, NextLock, NextSpawned, PTL
     DEF Spec, ImplementsJobLife, Life!LifeSpec

-----------------------------------------------------------------------------
(***************************************************************************)
(* No recorder is missed by Stop's signal round.                           *)
(***************************************************************************)

\* The recording that is registered for a job is the one that has not settled; a
\* child is registered after its spawn only; and NoneMissed, by thread.
StopInv ==
    \A t \in RunThreads :
        /\ Unsettled(t) => running[t[2]] = t[3]
        /\ cmd[Rec(t)] => ~Unspawned(t) /\ t[3] <= issued[t[2]]
        /\ phase = "draining" /\ child[Rec(t)] = "live" /\ cmd[Rec(t)] => termed[Rec(t)]

\* A step that starts nothing, registers nothing and signals nobody keeps StopInv.
LEMMA KeptStop ==
    ASSUME StopInv, UNCHANGED <<running, cmd, termed, issued>>,
           phase' = "draining" => phase = "draining",
           \A t \in RunThreads :
               /\ Unspawned(t)' => Unspawned(t)
               /\ Unsettled(t)' => Unsettled(t)
               /\ child'[Rec(t)] = "live" => child[Rec(t)] = "live"
    PROVE  StopInv'
  BY DEF StopInv, Rec

\* A click registers the new recording of a job that has no unsettled one.
LEMMA AcceptStop ==
    ASSUME TypeOK, SignalInv, FileInv, StopInv, NEW j \in Jobs, NEW g \in Gens, ClickAccept(j, g)
    PROVE  StopInv'
<1> SUFFICES ASSUME NEW t \in RunThreads
             PROVE  /\ Unsettled(t)' => running'[t[2]] = t[3]
                    /\ cmd'[Rec(t)] => ~Unspawned(t)' /\ t[3] <= issued'[t[2]]
                    /\ phase' = "draining" /\ child'[Rec(t)] = "live" /\ cmd'[Rec(t)] => termed'[Rec(t)]
  BY DEF StopInv, Rec
<1>0. phase' = "up" /\ UNCHANGED cmd /\ g = issued[j] + 1 /\ issued[j] \in Nat
  BY DEF ClickAccept, main, TypeOK, DiskType
<1>1. running' = [running EXCEPT ![j] = g] /\ issued' = [issued EXCEPT ![j] = g]
  BY DEF ClickAccept
<1>2. CASE t = RunThread(j, g)
  <2>1. t[2] = j /\ t[3] = g
    BY <1>2 DEF RunThread
  <2>2. running'[t[2]] = t[3]
    BY <1>1, <2>1 DEF TypeOK, RecsType
  <2>3. ~cmd[Rec(t)]
    BY <1>0, <2>1 DEF StopInv
  <2> QED
    BY <1>0, <2>2, <2>3
<1>3. CASE t # RunThread(j, g)
  <2>1. pc'[t] = pc[t] /\ job'[t] = job[t]
    BY <1>3, ThreadNames DEF ClickAccept, Goto, TypeOK, ThreadsType
  <2>2. (Unsettled(t)' <=> Unsettled(t)) /\ (Unspawned(t)' <=> Unspawned(t))
    BY <2>1 DEF Unsettled, Unspawned, Attending
  <2>3. Unsettled(t) => t[2] # j
    BY DEF FileInv, ClickAccept, AlreadyRecording
  <2>4. Unsettled(t) => running'[t[2]] = t[3]
    BY <1>1, <2>3, ThreadNames DEF StopInv, TypeOK, RecsType
  <2>5. t[2] \in Jobs /\ t[3] \in Nat /\ issued[t[2]] \in Nat
    BY ThreadNames DEF TypeOK, DiskType, Gens
  <2>6. issued[t[2]] <= issued'[t[2]] /\ issued'[t[2]] \in Nat
    BY <1>0, <1>1, <2>5 DEF TypeOK, DiskType
  <2>7. cmd[Rec(t)] => t[3] <= issued'[t[2]]
    BY <2>5, <2>6 DEF StopInv
  <2> QED
    BY <1>0, <2>2, <2>4, <2>7 DEF StopInv
<1> QED
  BY <1>2, <1>3

\* run registers its own child, and its own cleanup takes nobody else's entry.
LEMMA RunStop ==
    ASSUME TypeOK, SignalInv, StopInv, NEW t \in RunThreads, Run(t)
    PROVE  StopInv'
<1>0. t \in Threads /\ Rec(t) \in Recs
  BY ThreadNames
<1>1. \A u \in RunThreads : u # t => Rec(u) # Rec(t)
  BY ThreadNames DEF Rec, RunThread
<1>2. phase' = phase /\ issued' = issued
  BY DEF Run, SpawnChild, SpawnFails, RegisterChild, Settle, Cleanup, main
<1>3. CASE Settle(t)
  <2>1. Quiet /\ UNCHANGED <<running, cmd, termed, issued, child>>
    BY <1>0, <1>3, QuietThread DEF Settle, recs
  <2> QED
    BY <1>2, <2>1, KeptStop DEF Quiet, Unsettled
<1>4. CASE SpawnChild(t) \/ SpawnFails(t)
  <2>1. UNCHANGED <<running, cmd, termed, job>> /\ pc[t] = "spawn"
    BY <1>4 DEF SpawnChild, SpawnFails, local
  <2>2. \A u \in RunThreads : u # t => pc'[u] = pc[u] /\ child'[Rec(u)] = child[Rec(u)]
    BY <1>0, <1>1, <1>4, ThreadNames DEF SpawnChild, SpawnFails, Goto, TypeOK, ThreadsType, RecsType
  <2>3. \A u \in RunThreads : (Unspawned(u)' => Unspawned(u)) /\ (Unsettled(u)' => Unsettled(u))
    BY <2>1, <2>2 DEF Unsettled, Unspawned, Attending
  <2>4. ~cmd[Rec(t)]
    BY <2>1 DEF StopInv, Unspawned
  <2> QED
    BY <1>2, <2>1, <2>2, <2>3, <2>4 DEF StopInv, Rec
<1>5. CASE RegisterChild(t)
  <2>1. UNCHANGED <<running, child, job>> /\ pc[t] = "spawned"
    BY <1>5 DEF RegisterChild, local
  <2>2. cmd' = [cmd EXCEPT ![Rec(t)] = TRUE]
    BY <1>5 DEF RegisterChild
  <2>3. pc'[t] = "wait" /\ \A u \in RunThreads : u # t => pc'[u] = pc[u]
    BY <1>0, <1>5, ThreadNames DEF RegisterChild, Goto, TypeOK, ThreadsType
  <2>4. \A u \in RunThreads : (Unspawned(u)' => Unspawned(u)) /\ (Unsettled(u)' => Unsettled(u))
    BY <2>1, <2>3 DEF Unsettled, Unspawned, Attending
  <2>5. ~Unspawned(t)' /\ t[3] <= issued[t[2]]
    <3>1. t[3] \in Nat /\ issued[t[2]] \in Nat
      BY ThreadNames DEF TypeOK, DiskType, Gens
    <3> QED
      BY <2>1, <2>3, <3>1 DEF Unspawned, SignalInv
  <2>6. \A u \in RunThreads : termed[Rec(u)] => termed'[Rec(u)]
    BY <1>5, ThreadNames DEF RegisterChild, Term
  <2>7. phase = "draining" => termed'[Rec(t)]
    BY <1>0, <1>5 DEF RegisterChild, Term, SignalOnce, LateStarters, Stopping
  <2>8. \A u \in RunThreads : u # t => cmd'[Rec(u)] = cmd[Rec(u)]
    BY <1>1, <2>2, ThreadNames DEF TypeOK, RecsType
  <2> QED
    BY <1>2, <2>1, <2>4, <2>5, <2>6, <2>7, <2>8 DEF StopInv, Rec
<1>6. CASE Cleanup(t)
  <2>1. UNCHANGED <<cmd, termed, child>> /\ running' = [running EXCEPT ![t[2]] = Unregistered(t[2], t[3])]
    BY <1>6 DEF Cleanup
  <2>2. Quiet /\ pc'[t] = "done"
    BY <1>0, <1>6, QuietThread DEF Cleanup, Goto, TypeOK, ThreadsType
  <2>3. ASSUME NEW u \in RunThreads, Unsettled(u)' PROVE running'[u[2]] = u[3]
    <3>1. u # t /\ Unsettled(u)
      BY <2>2, <2>3 DEF Quiet, Unsettled, Unspawned, Attending
    <3>2. running[u[2]] = u[3]
      BY <3>1 DEF StopInv
    <3>3. u[2] = t[2] => u[3] # t[3]
      BY <3>1, ThreadNames
    <3> QED
      BY <2>1, <3>2, <3>3, ThreadNames DEF Unregistered, TypeOK, RecsType
  <2> QED
    BY <1>2, <2>1, <2>2, <2>3 DEF StopInv, Quiet, Rec
<1> QED
  BY <1>3, <1>4, <1>5, <1>6 DEF Run

\* Stop's signal round reaches every registered recording that has a child.
LEMMA SignalsStop ==
    ASSUME TypeOK, SignalInv, StopInv, StopSignals
    PROVE  StopInv'
<1> SUFFICES ASSUME NEW t \in RunThreads, child[Rec(t)] = "live", cmd[Rec(t)]
             PROVE  termed'[Rec(t)]
  BY DEF StopInv, StopSignals, local, Unsettled, Unspawned, Attending, Rec
<1>1. Rec(t) \in Recs /\ Rec(t)[1] = t[2] /\ Rec(t)[2] = t[3]
  BY ThreadNames DEF Rec
<1>2. Unsettled(t)
  BY DEF SignalInv, Unsettled
<1>3. Rec(t) \in Started
  BY <1>1, <1>2 DEF StopInv, Started
<1> QED
  BY <1>1, <1>3 DEF StopSignals, Term, SignalOnce

\* StopInv is inductive, given that the file is the lock.
LEMMA NextStop ==
    ASSUME TypeOK, SignalInv, FileInv, StopInv, [Next]_vars
    PROVE  StopInv'
<1>0. ASSUME Quiet, UNCHANGED <<running, cmd, termed, issued, child>>,
             phase' = "draining" => phase = "draining"
      PROVE  StopInv'
  BY <1>0, KeptStop DEF Quiet, Unsettled
<1>1. ASSUME NEW j \in Jobs, Click(j) PROVE StopInv'
  <2>1. CASE (\E k \in 1 .. MaxDup : ClickDuplicate(j, k)) \/ ClickSaveFails(j)
    <3>1. Quiet /\ UNCHANGED <<running, cmd, termed, issued, child, phase>>
      BY <2>1, QuietMain DEF ClickDuplicate, ClickSaveFails, recs, main
    <3> QED
      BY <1>0, <3>1
  <2> QED
    BY <1>1, <2>1, AcceptStop DEF Click
<1>2. ASSUME NEW t \in Threads, Indicator(t) \/ PostNote(t) \/ Delivery(t) PROVE StopInv'
  <2>1. UNCHANGED <<running, cmd, termed, issued, child, phase>>
    BY <1>2 DEF Indicator, LockIndicator, IndicatorCall, IndicatorCallFails, ReleaseIndicator,
       PostNote, Delivery, Deliver, DeliveryUnanswered, DeliveryGivesUp, StampDelivered, recs, main
  <2> QED
    BY <1>0, <1>2, <2>1, QuietThread
<1>3. ASSUME NEW t \in RunThreads, Run(t) PROVE StopInv'
  BY <1>3, RunStop
<1>4. CASE Resume \/ Sweep
  <2>1. UNCHANGED <<running, cmd, termed, issued, child>> /\ (phase' = "draining" => phase = "draining")
    BY <1>4 DEF Resume, ListJobs, ResumeReturns, BootSweep, ResumeInterrupted, ResumeUnsent,
       ResumeNothing, Resumed, Sweep, TickFires, SweepRemoves, SweepLists, ResendEnds,
       SweepReads, ResendNext, recs, main
  <2> QED
    BY <1>0, <1>4, <2>1, QuietMain
<1>5. ASSUME UNCHANGED <<pc, job, running, cmd, termed, issued>>,
             phase' = "draining" => phase = "draining",
             \A r \in Recs : child'[r] = "live" => child[r] = "live"
      PROVE  StopInv'
  <2>1. \A t \in RunThreads : child'[Rec(t)] = "live" => child[Rec(t)] = "live"
    BY <1>5, ThreadNames
  <2> QED
    BY <1>5, <2>1, KeptStop DEF Unsettled, Unspawned, Attending
<1>6. ASSUME NEW r \in Recs, NEW end \in Endings, ChildExits(r, end) PROVE StopInv'
  <2>1. \A q \in Recs : child'[q] = "live" => child[q] = "live"
    BY <1>6 DEF ChildExits, TypeOK, RecsType
  <2> QED
    BY <1>5, <1>6, <2>1 DEF ChildExits, local, main
<1>7. CASE StopBegins \/ StopDrained \/ Restart
  <2>1. UNCHANGED <<pc, job, running, cmd, termed, issued, child>> /\ phase' # "draining"
    BY <1>7 DEF StopBegins, StopDrained, Restart, local, recs
  <2> QED
    BY <1>5, <2>1
<1>8. CASE GraceExpires
  <2>1. UNCHANGED <<pc, job, running, cmd, termed, issued>> /\ phase' # "draining"
    BY <1>8 DEF GraceExpires, local
  <2>2. \A r \in Recs : child'[r] = "live" => child[r] = "live"
    BY <1>8 DEF GraceExpires
  <2> QED
    BY <1>5, <2>1, <2>2
<1>9. CASE Exit \/ Crash
  <2>1. \A t \in RunThreads : pc'[t] = "idle" /\ ~cmd'[Rec(t)]
    BY <1>9, ThreadNames DEF Exit, Crash, ProcessEnds
  <2> QED
    BY <2>1 DEF StopInv, Unsettled, Unspawned, Attending, Rec
<1>10. CASE UNCHANGED vars
  BY <1>5, <1>10 DEF vars, local, recs, main
<1> QED
  BY <1>1, <1>2, <1>3, <1>4, <1>6, <1>7, <1>8, <1>9, <1>10, SignalsStop DEF Next, StopGoesOn

LEMMA InitStop == Init => StopInv
<1> SUFFICES ASSUME Init PROVE StopInv
  OBVIOUS
<1>1. \A t \in RunThreads : pc[t] = "idle" /\ ~cmd[Rec(t)]
  BY ThreadNames DEF Init
<1> QED
  BY <1>1 DEF StopInv, Unsettled, Unspawned, Attending

\* runner.go:186-193: with retention off, once Stop's signal round is over no
\* started recorder is left unasked, neither one the round came too early for nor
\* one whose job's registration another goroutine touched.
THEOREM NoneIsMissed == Spec => [](~Retention => NoneMissed)
<1>1. TypeOK /\ StopInv => NoneMissed
  <2> SUFFICES ASSUME StopInv, NEW r \in Recs, phase = "draining", child[r] = "live", cmd[r]
               PROVE  termed[r]
    BY DEF NoneMissed
  <2>1. r = Rec(RunThread(r[1], r[2])) /\ RunThread(r[1], r[2]) \in RunThreads
    BY DEF Recs, Rec, RunThread, RunThreads
  <2> QED
    BY <2>1 DEF StopInv
<1>2. TypeOK /\ SignalInv /\ LockInv /\ (~Retention => StopInv) /\ [Next]_vars => (~Retention => StopInv)'
  BY NextStop DEF LockInv
<1> QED
  BY <1>1, <1>2, TypeCorrect, InitSignals, NextSignals, InitLock, NextLock, InitStop, PTL DEF Spec

-----------------------------------------------------------------------------
(***************************************************************************)
(* Stop settles every job.                                                 *)
(***************************************************************************)

\* An unsettled recording goes by its own copy of its job.
CopyInv == \A t \in RunThreads : Unsettled(t) => job[t].id = t[2] /\ job[t].gen = t[3]

\* Who failed to save a final state is a settled run, or Resume's goroutine of the job.
ErrInv ==
    \A t \in Threads : saveErr[t] =>
        \/ t \in RunThreads /\ job[t].id = t[2] /\ ~Unsettled(t) /\ t[3] <= issued[t[2]]
        \/ t \in ResumeThreads /\ job[t].id = t[2]

\* The recording in the file of job j has not settled.
Attended(j) == \E t \in RunThreads : t[2] = j /\ t[3] = disk[j].gen /\ Unsettled(t)

\* From Resume on, a file says "recording" for a recording at work, since its last
\* save failed, or since Resume has not got to it.
AttendedInv ==
    phase \in {"resume", "up", "terming", "draining", "drained"} =>
        \A j \in Jobs : disk[j].state = "recording" =>
            Attended(j) \/ Unsaved(j) \/ (phase = "resume" /\ j \in toResume)

\* What has not settled is among what Stop waits for.
SnapshotInv ==
    /\ phase \in {"terming", "draining"} => \A t \in RunThreads : Unsettled(t) => Rec(t) \in stopRecs
    /\ phase = "drained" => \A t \in RunThreads : ~Unsettled(t)

SettleInv == CopyInv /\ ErrInv /\ AttendedInv /\ SnapshotInv

\* Who owns a failed save is no duplicate and not the ticker.
LEMMA ErrOwners ==
    /\ \A j \in Jobs, k \in 1 .. MaxDup : DupThread(j, k) \notin RunThreads \cup ResumeThreads
    /\ Tick \notin RunThreads \cup ResumeThreads
    /\ \A j \in Jobs : ResumeThread(j) \in ResumeThreads /\ ResumeThread(j)[2] = j
    /\ \A j \in Jobs : ResumeThread(j) \in Threads \ RunThreads
    /\ \A t \in ResumeThreads : t[2] \in Jobs /\ t = ResumeThread(t[2])
  BY DEF Threads, RunThreads, DupThreads, ResumeThreads, RunThread, DupThread, ResumeThread, Tick

\* A failed save stays known while its owner keeps its copy and the file stays.
LEMMA UnsavedStays ==
    ASSUME NEW j \in Jobs, Unsaved(j), disk'[j].gen = disk[j].gen,
           \A t \in Threads : saveErr[t] /\ job[t].id = j => saveErr'[t] /\ job'[t] = job[t]
    PROVE  Unsaved(j)'
  BY DEF Unsaved

\* A step that neither starts nor settles a recording, nor makes a file say
\* "recording", keeps SettleInv.
LEMMA KeptSettle ==
    ASSUME SettleInv,
           UNCHANGED <<phase, toResume, stopRecs, issued, saveErr>>,
           \A t \in RunThreads : (Unsettled(t)' <=> Unsettled(t)) /\ job'[t] = job[t],
           \A t \in Threads : saveErr[t] => job'[t] = job[t],
           \A j \in Jobs : disk'[j].state = "recording" => disk'[j] = disk[j]
    PROVE  SettleInv'
<1>1. CopyInv'
  BY DEF SettleInv, CopyInv
<1>2. ErrInv'
  BY DEF SettleInv, ErrInv
<1>3. SnapshotInv'
  BY DEF SettleInv, SnapshotInv, Rec
<1>4. ASSUME NEW j \in Jobs, disk'[j].state = "recording", Attended(j) PROVE Attended(j)'
  BY <1>4 DEF Attended
<1>5. ASSUME NEW j \in Jobs, disk'[j].state = "recording", Unsaved(j) PROVE Unsaved(j)'
  BY <1>5, UnsavedStays
<1>6. AttendedInv'
  BY <1>4, <1>5 DEF SettleInv, AttendedInv
<1> QED
  BY <1>1, <1>2, <1>3, <1>6 DEF SettleInv

\* The indicator, the notes and the deliveries neither start nor settle anything.
LEMMA ThreadSettle ==
    ASSUME TypeOK, SettleInv, NEW t \in Threads, Indicator(t) \/ PostNote(t) \/ Delivery(t)
    PROVE  SettleInv'
<1>1. UNCHANGED <<phase, toResume, stopRecs, issued, saveErr, job>>
  BY DEF Indicator, LockIndicator, IndicatorCall, IndicatorCallFails, ReleaseIndicator,
     PostNote, Delivery, Deliver, DeliveryUnanswered, DeliveryGivesUp, StampDelivered, local, main
<1>2. \A j \in Jobs : disk'[j].state = "recording" => disk'[j] = disk[j]
  <2>1. CASE disk' = disk
    BY <2>1
  <2>2. CASE disk' # disk
    <3> DEFINE i == job[t].id
    <3>1. disk[i].state = "finished" /\ disk' = [disk EXCEPT ![i] = [disk[i] EXCEPT !.sent = TRUE]]
      BY <2>2 DEF Indicator, LockIndicator, IndicatorCall, IndicatorCallFails, ReleaseIndicator,
         PostNote, Delivery, Deliver, DeliveryUnanswered, DeliveryGivesUp, StampDelivered,
         Superseded, Saved, SaveFails
    <3>2. i \in Jobs => disk'[i].state = "finished"
      BY <3>1 DEF TypeOK, DiskType, Files
    <3>3. \A j \in Jobs : j # i => disk'[j] = disk[j]
      BY <3>1 DEF TypeOK, DiskType
    <3> QED
      BY <3>2, <3>3
  <2> QED
    BY <2>1, <2>2
<1>3. Quiet
  BY QuietThread
<1>4. ASSUME NEW u \in RunThreads, Unsettled(u) PROVE Unsettled(u)'
  <2>1. \A v \in Threads : v # t => pc'[v] = pc[v]
    BY DEF Indicator, LockIndicator, IndicatorCall, IndicatorCallFails, ReleaseIndicator,
       PostNote, Delivery, Deliver, DeliveryUnanswered, DeliveryGivesUp, StampDelivered,
       Goto, TypeOK, ThreadsType
  <2>2. CASE u # t
    BY <1>1, <1>4, <2>1, <2>2, ThreadNames DEF Unsettled, Unspawned, Attending
  <2>3. CASE u = t /\ LockIndicator(t)
    <3>1. pc[t] = "want" /\ pc'[t] = "call"
      BY <2>3 DEF LockIndicator, Goto, TypeOK, ThreadsType
    <3> QED
      BY <1>1, <1>4, <2>3, <3>1 DEF Unsettled, Unspawned, Attending
  <2>4. CASE u = t /\ (IndicatorCall(t) \/ IndicatorCallFails(t))
    <3>1. pc[t] = "call" /\ pc'[t] = AfterIndicator(t)
      BY <2>4 DEF IndicatorCall, IndicatorCallFails, ReleaseIndicator, Goto, TypeOK, ThreadsType
    <3>2. job[t].state = "recording"
      BY <1>4, <2>4, <3>1 DEF Unsettled, Unspawned, Attending
    <3> QED
      BY <2>4, <3>1, <3>2 DEF AfterIndicator, Unsettled, Unspawned
  <2>5. CASE u = t /\ PostNote(t)
    <3>1. pc[t] = "note" /\ pc'[t] = "want"
      BY <2>5 DEF PostNote, Goto, TypeOK, ThreadsType
    <3> QED
      BY <1>1, <1>4, <2>5, <3>1 DEF Unsettled, Unspawned, Attending
  <2>6. CASE u = t /\ Delivery(t)
    <3>1. pc[t] \in {"deliver", "stamp"}
      BY <2>6 DEF Delivery, Deliver, DeliveryUnanswered, DeliveryGivesUp, StampDelivered
    <3> QED
      BY <1>4, <2>6, <3>1 DEF Unsettled, Unspawned, Attending
  <2> QED
    BY <2>2, <2>3, <2>4, <2>5, <2>6 DEF Indicator
<1>5. \A u \in RunThreads : Unsettled(u)' => Unsettled(u)
  BY <1>3 DEF Quiet, Unsettled
<1> QED
  BY <1>1, <1>2, <1>4, <1>5, KeptSettle

\* A click that starts nothing changes nothing that counts.
LEMMA OtherClickSettle ==
    ASSUME TypeOK, SettleInv, NEW j \in Jobs,
           (\E k \in 1 .. MaxDup : ClickDuplicate(j, k)) \/ ClickSaveFails(j)
    PROVE  SettleInv'
<1>1. CASE ClickSaveFails(j)
  BY <1>1, KeptSettle DEF ClickSaveFails, SaveFails, local, main, Unsettled, Unspawned, Attending
<1>2. ASSUME NEW k \in 1 .. MaxDup, ClickDuplicate(j, k) PROVE SettleInv'
  <2> DEFINE d == DupThread(j, k)
  <2>1. UNCHANGED <<phase, toResume, stopRecs, issued, saveErr, disk>>
    BY <1>2 DEF ClickDuplicate, main
  <2>2. d \in Threads /\ d \notin RunThreads \cup ResumeThreads
    BY ThreadNames, ErrOwners
  <2>3. \A t \in Threads : t # d => pc'[t] = pc[t] /\ job'[t] = job[t]
    BY <1>2 DEF ClickDuplicate, Goto, TypeOK, ThreadsType
  <2>4. \A t \in RunThreads : (Unsettled(t)' <=> Unsettled(t)) /\ job'[t] = job[t]
    BY <2>2, <2>3, ThreadNames DEF Unsettled, Unspawned, Attending
  <2>5. \A t \in Threads : saveErr[t] => t # d
    BY <2>2 DEF SettleInv, ErrInv
  <2> QED
    BY <2>1, <2>3, <2>4, <2>5, KeptSettle
<1> QED
  BY <1>1, <1>2

\* A click that is accepted starts the recording its file names.
LEMMA AcceptSettle ==
    ASSUME TypeOK, SettleInv, NEW j \in Jobs, NEW g \in Gens, ClickAccept(j, g)
    PROVE  SettleInv'
<1> DEFINE n == RunThread(j, g)
<1>0. n \in RunThreads /\ n \in Threads /\ n[2] = j /\ n[3] = g
  BY ThreadNames DEF RunThread
<1>1. UNCHANGED <<phase, toResume, stopRecs, saveErr>> /\ phase = "up"
  BY DEF ClickAccept, main
<1>2. issued[j] \in Nat /\ g = issued[j] + 1 /\ issued' = [issued EXCEPT ![j] = g]
  BY DEF ClickAccept, TypeOK, DiskType
<1>3. pc'[n] = "want" /\ job'[n] = Copy(j, g, "recording", "none")
  BY <1>0 DEF ClickAccept, Goto, TypeOK, ThreadsType
<1>4. \A t \in Threads : t # n => pc'[t] = pc[t] /\ job'[t] = job[t]
  BY <1>0 DEF ClickAccept, Goto, TypeOK, ThreadsType
<1>5. disk'[j] = File("recording", g, "none", FALSE) /\ \A k \in Jobs : k # j => disk'[k] = disk[k]
  BY DEF ClickAccept, Saved, TypeOK, DiskType
<1>6. Unsettled(n)' /\ \A t \in RunThreads : t # n => (Unsettled(t)' <=> Unsettled(t))
  BY <1>0, <1>3, <1>4, ThreadNames DEF Unsettled, Unspawned, Attending, Copy
<1>7. \A k \in Jobs : issued[k] \in Nat /\ issued[k] <= issued'[k] /\ issued'[k] \in Nat
  BY <1>2 DEF TypeOK, DiskType
<1>8. ~saveErr[n]
  <2>1. n \notin ResumeThreads
    BY <1>0, ErrOwners
  <2>2. ~(n[3] <= issued[n[2]])
    BY <1>0, <1>2
  <2> QED
    BY <1>0, <2>1, <2>2 DEF SettleInv, ErrInv
<1>9. CopyInv'
  BY <1>0, <1>3, <1>4, <1>6, ThreadNames DEF SettleInv, CopyInv, Copy
<1>10. ErrInv'
  <2> SUFFICES ASSUME NEW t \in Threads, saveErr[t]
               PROVE  \/ t \in RunThreads /\ job'[t].id = t[2] /\ ~Unsettled(t)' /\ t[3] <= issued'[t[2]]
                      \/ t \in ResumeThreads /\ job'[t].id = t[2]
    BY <1>1 DEF ErrInv
  <2>1. t # n /\ job'[t] = job[t]
    BY <1>4, <1>8
  <2>2. CASE t \in ResumeThreads /\ job[t].id = t[2]
    BY <2>1, <2>2
  <2>3. CASE t \in RunThreads /\ job[t].id = t[2] /\ ~Unsettled(t) /\ t[3] <= issued[t[2]]
    <3>1. t[2] \in Jobs /\ t[3] \in Nat
      BY <2>3, ThreadNames DEF Gens
    <3>2. t[3] <= issued'[t[2]]
      BY <1>7, <2>3, <3>1
    <3> QED
      BY <1>6, <2>1, <2>3, <3>2
  <2> QED
    BY <2>2, <2>3 DEF SettleInv, ErrInv
<1>11. SnapshotInv'
  BY <1>1 DEF SnapshotInv
<1>12. AttendedInv'
  <2> SUFFICES ASSUME NEW k \in Jobs, disk'[k].state = "recording"
               PROVE  Attended(k)' \/ Unsaved(k)'
    BY DEF AttendedInv
  <2>1. CASE k = j
    BY <1>0, <1>5, <1>6, <2>1 DEF Attended, File
  <2>2. CASE k # j
    <3>1. disk'[k] = disk[k]
      BY <1>5, <2>2
    <3>2. CASE Attended(k)
      BY <1>0, <1>6, <2>2, <3>1, <3>2 DEF Attended
    <3>3. CASE Unsaved(k)
      BY <1>1, <1>4, <1>8, <3>1, <3>3, UnsavedStays
    <3> QED
      BY <1>1, <3>1, <3>2, <3>3 DEF SettleInv, AttendedInv
  <2> QED
    BY <2>1, <2>2
<1> QED
  BY <1>9, <1>10, <1>11, <1>12 DEF SettleInv

\* run attends to its recorder until it settles, in its file or as a failed save.
LEMMA RunSettle ==
    ASSUME TypeOK, SignalInv, FileInv, SettleInv, NEW t \in RunThreads, Run(t)
    PROVE  SettleInv'
<1>0. t \in Threads
  BY ThreadNames
<1>1. UNCHANGED <<phase, toResume, stopRecs, issued>>
  BY DEF Run, SpawnChild, SpawnFails, RegisterChild, Settle, Cleanup, main
<1>2. CASE SpawnChild(t) \/ SpawnFails(t) \/ RegisterChild(t) \/ Cleanup(t)
  <2>1. UNCHANGED <<disk, job, saveErr>>
    BY <1>2 DEF SpawnChild, SpawnFails, RegisterChild, Cleanup, local
  <2>2. \A u \in RunThreads : u # t => pc'[u] = pc[u]
    BY <1>0, <1>2, ThreadNames DEF SpawnChild, SpawnFails, RegisterChild, Cleanup, Goto, TypeOK, ThreadsType
  <2>3. Unsettled(t)' <=> Unsettled(t)
    <3>1. \/ pc[t] \in {"spawn", "spawned"} /\ pc'[t] \in {"spawned", "wait"}
          \/ pc[t] = "cleanup" /\ pc'[t] = "done"
      BY <1>0, <1>2 DEF SpawnChild, SpawnFails, RegisterChild, Cleanup, Goto, TypeOK, ThreadsType
    <3> QED
      BY <3>1 DEF Unsettled, Unspawned, Attending
  <2>4. \A u \in RunThreads : Unsettled(u)' <=> Unsettled(u)
    BY <2>1, <2>2, <2>3 DEF Unsettled, Unspawned, Attending
  <2> QED
    BY <1>1, <2>1, <2>4, KeptSettle
<1>3. CASE Settle(t)
  <2>1. Unsettled(t) /\ t[2] \in Jobs
    BY <1>3, ThreadNames DEF Settle, Unsettled, Attending
  <2>2. disk[t[2]].state = "recording" /\ disk[t[2]].gen = t[3] /\ job[t].id = t[2] /\ job[t].gen = t[3]
    BY <2>1 DEF FileInv, SettleInv, CopyInv
  <2>3. \A u \in Threads : u # t => pc'[u] = pc[u] /\ job'[u] = job[u] /\ saveErr'[u] = saveErr[u]
    BY <1>0, <1>3 DEF Settle, Goto, TypeOK, ThreadsType
  <2>4. /\ pc'[t] \in {"want", "note"} /\ job'[t].state \in {"finished", "failed"}
        /\ job'[t].id = t[2] /\ job'[t].gen = t[3]
    BY <1>0, <1>3, <2>2 DEF Settle, Goto, TypeOK, ThreadsType, Copies
  <2>5. ~Unsettled(t)' /\ \A u \in RunThreads : u # t => (Unsettled(u)' <=> Unsettled(u))
    BY <2>3, <2>4, ThreadNames DEF Unsettled, Unspawned, Attending
  <2>6. t[3] <= issued[t[2]]
    <3>1. t[3] \in Nat /\ issued[t[2]] \in Nat
      BY <2>1, ThreadNames DEF TypeOK, DiskType, Gens
    <3>2. pc[t] # "idle"
      BY <1>3 DEF Settle
    <3> QED
      BY <3>1, <3>2 DEF SignalInv
  <2>7. \A k \in Jobs : k # t[2] => disk'[k] = disk[k]
    BY <1>3 DEF Settle, Saved, SaveFails, TypeOK, DiskType
  <2>8. disk'[t[2]].state = "recording" => saveErr'[t] /\ disk'[t[2]] = disk[t[2]]
    BY <1>0, <1>3, <2>1 DEF Settle, Saved, SaveFails, SettledFile, File, TypeOK, DiskType, ThreadsType
  <2>9. CopyInv'
    BY <2>3, <2>5, ThreadNames DEF SettleInv, CopyInv
  <2>10. ErrInv'
    <3> SUFFICES ASSUME NEW u \in Threads, saveErr'[u]
                 PROVE  \/ u \in RunThreads /\ job'[u].id = u[2] /\ ~Unsettled(u)' /\ u[3] <= issued'[u[2]]
                        \/ u \in ResumeThreads /\ job'[u].id = u[2]
      BY DEF ErrInv
    <3>1. CASE u = t
      BY <1>1, <2>4, <2>5, <2>6, <3>1
    <3>2. CASE u # t
      BY <1>1, <2>3, <2>5, <3>2 DEF SettleInv, ErrInv
    <3> QED
      BY <3>1, <3>2
  <2>11. SnapshotInv'
    BY <1>1, <2>5 DEF SettleInv, SnapshotInv, Rec
  <2>12. AttendedInv'
    <3> SUFFICES ASSUME phase \in {"resume", "up", "terming", "draining", "drained"},
                        NEW k \in Jobs, disk'[k].state = "recording"
                 PROVE  Attended(k)' \/ Unsaved(k)' \/ (phase = "resume" /\ k \in toResume)
      BY <1>1 DEF AttendedInv
    <3>1. CASE k = t[2]
      BY <1>0, <2>2, <2>4, <2>8, <3>1 DEF Unsaved
    <3>2. CASE k # t[2]
      <4>1. disk'[k] = disk[k]
        BY <2>7, <3>2
      <4>2. CASE Attended(k)
        BY <2>5, <3>2, <4>1, <4>2 DEF Attended
      <4>3. CASE Unsaved(k)
        BY <2>2, <2>3, <3>2, <4>1, <4>3, UnsavedStays
      <4> QED
        BY <4>1, <4>2, <4>3 DEF SettleInv, AttendedInv
    <3> QED
      BY <3>1, <3>2
  <2> QED
    BY <2>9, <2>10, <2>11, <2>12 DEF SettleInv
<1> QED
  BY <1>2, <1>3 DEF Run

\* Resume settles every file it finds "recording", or knows that it could not.
LEMMA ResumeSettle ==
    ASSUME TypeOK, PhaseInv, SettleInv, Resume
    PROVE  SettleInv'
<1>0. phase \in {"boot", "resume"} /\ UNCHANGED <<issued, stopRecs>>
  BY DEF Resume, ListJobs, ResumeReturns, BootSweep, ResumeInterrupted, ResumeUnsent,
     ResumeNothing, Resumed, main
<1>1. \A t \in RunThreads : ~Unsettled(t) /\ ~Unsettled(t)'
  <2>1. Quiet
    BY QuietMain
  <2> QED
    BY <1>0, <2>1 DEF PhaseInv, Quiet, Unsettled, Unspawned, Attending
<1>2. CopyInv' /\ SnapshotInv'
  BY <1>1 DEF CopyInv, SnapshotInv
<1>3. ASSUME NEW j \in Jobs, BootSweep(j) PROVE SettleInv'
  <2>1. UNCHANGED <<phase, job, saveErr>> /\ phase = "boot"
    BY <1>3 DEF BootSweep, main, local
  <2>2. ErrInv'
    BY <1>0, <1>1, <2>1 DEF SettleInv, ErrInv
  <2> QED
    BY <1>2, <2>1, <2>2 DEF SettleInv, AttendedInv
<1>4. CASE ListJobs
  <2>1. UNCHANGED <<disk, job, saveErr>> /\ phase' = "resume"
        /\ toResume' = {j \in Jobs : disk[j].state # "absent"}
    BY <1>4 DEF ListJobs, local
  <2>2. ErrInv'
    BY <1>0, <1>1, <2>1 DEF SettleInv, ErrInv
  <2> QED
    BY <1>2, <2>1, <2>2 DEF SettleInv, AttendedInv
<1>5. CASE ResumeReturns
  <2>1. UNCHANGED <<disk, job, saveErr>> /\ phase = "resume" /\ toResume = {}
    BY <1>5 DEF ResumeReturns, local
  <2>2. ErrInv'
    BY <1>0, <1>1, <2>1 DEF SettleInv, ErrInv
  <2>3. AttendedInv'
    BY <1>1, <2>1 DEF SettleInv, AttendedInv, Attended, Unsaved
  <2> QED
    BY <1>2, <2>2, <2>3 DEF SettleInv
<1>6. ASSUME NEW j \in Jobs, ResumeInterrupted(j) \/ ResumeUnsent(j) \/ ResumeNothing(j)
      PROVE  SettleInv'
  <2> DEFINE r == ResumeThread(j)
  <2>1. phase = "resume" /\ phase' = "resume" /\ toResume' = toResume \ {j}
    BY <1>6 DEF ResumeInterrupted, ResumeUnsent, ResumeNothing, Resumed
  <2>2. r \in Threads /\ r \in ResumeThreads /\ r[2] = j
    BY ErrOwners
  <2>3. \A t \in Threads : t # r => job'[t] = job[t] /\ saveErr'[t] = saveErr[t]
    BY <1>6 DEF ResumeInterrupted, ResumeUnsent, ResumeNothing, TypeOK, ThreadsType
  <2>4. saveErr'[r] => job'[r].id = j
    <3>1. CASE ResumeInterrupted(j) \/ ResumeUnsent(j)
      <4>1. \/ job' = [job EXCEPT ![r] = Copy(j, disk[j].gen, "failed", "interrupted")]
            \/ job' = [job EXCEPT ![r] = Copy(j, disk[j].gen, "finished", "none")]
        BY <3>1 DEF ResumeInterrupted, ResumeUnsent
      <4>2. \A g, s, e : Copy(j, g, s, e).id = j
        BY DEF Copy
      <4> QED
        BY <2>2, <4>1, <4>2 DEF TypeOK, ThreadsType
    <3>2. CASE ResumeNothing(j)
      BY <2>2, <3>2, ErrOwners DEF ResumeNothing, SettleInv, ErrInv
    <3> QED
      BY <1>6, <3>1, <3>2
  <2>5. ErrInv'
    BY <1>0, <1>1, <2>2, <2>3, <2>4 DEF SettleInv, ErrInv
  <2>6. \A k \in Jobs : k # j => disk'[k] = disk[k]
    BY <1>6 DEF ResumeInterrupted, ResumeUnsent, ResumeNothing, Saved, SaveFails, TypeOK, DiskType
  <2>7. disk'[j].state = "recording" => Unsaved(j)'
    <3> SUFFICES ASSUME disk'[j].state = "recording" PROVE Unsaved(j)'
      OBVIOUS
    <3>1. CASE ResumeInterrupted(j)
      <4>1. disk'[j] = disk[j] /\ saveErr'[r] /\ job'[r] = Copy(j, disk[j].gen, "failed", "interrupted")
        BY <2>2, <3>1 DEF ResumeInterrupted, Saved, SaveFails, File, TypeOK, DiskType, ThreadsType
      <4> QED
        BY <2>2, <4>1 DEF Unsaved, Copy
    <3>2. CASE ResumeUnsent(j)
      BY <3>2 DEF ResumeUnsent, LeftRecording
    <3>3. CASE ResumeNothing(j)
      BY <3>3 DEF ResumeNothing, LeftRecording
    <3> QED
      BY <1>6, <3>1, <3>2, <3>3
  <2>8. ASSUME NEW k \in Jobs, k # j, Unsaved(k) PROVE Unsaved(k)'
    <3>1. \A t \in Threads : saveErr[t] /\ job[t].id = k => t # r
      BY <2>2, <2>8, ErrOwners DEF SettleInv, ErrInv
    <3> QED
      BY <2>3, <2>6, <2>8, <3>1, UnsavedStays
  <2>9. AttendedInv'
    BY <1>1, <2>1, <2>6, <2>7, <2>8 DEF SettleInv, AttendedInv, Attended
  <2> QED
    BY <1>2, <2>5, <2>9 DEF SettleInv
<1> QED
  BY <1>3, <1>4, <1>5, <1>6 DEF Resume

\* With retention off the ticker has no part in it.
LEMMA SweepSettle ==
    ASSUME TypeOK, SettleInv, SweepInv, Sweep
    PROVE  SettleInv'
<1>1. UNCHANGED <<phase, toResume, stopRecs, issued, saveErr, disk>>
  BY DEF Sweep, TickFires, SweepRemoves, SweepLists, ResendEnds, SweepReads, ResendNext, SweepInv, main, local
<1>2. Tick \in Threads /\ Tick \notin RunThreads \cup ResumeThreads
  BY ThreadNames, ErrOwners
<1>3. \A t \in Threads : t # Tick => pc'[t] = pc[t] /\ job'[t] = job[t]
  BY DEF Sweep, TickFires, SweepRemoves, SweepLists, ResendEnds, SweepReads, ResendNext,
     Goto, TypeOK, ThreadsType, local
<1>4. \A t \in RunThreads : (Unsettled(t)' <=> Unsettled(t)) /\ job'[t] = job[t]
  BY <1>2, <1>3, ThreadNames DEF Unsettled, Unspawned, Attending
<1>5. \A t \in Threads : saveErr[t] => t # Tick
  BY <1>2 DEF SettleInv, ErrInv
<1> QED
  BY <1>1, <1>3, <1>4, <1>5, KeptSettle

\* Stop waits for what is registered, and so for all that has not settled.
LEMMA StopsSettle ==
    ASSUME TypeOK, StopInv, SettleInv, StopGoesOn \/ StopBegins \/ Crash \/ Restart
    PROVE  SettleInv'
<1>1. ASSUME UNCHANGED <<pc, job, saveErr, issued, disk>> PROVE CopyInv' /\ ErrInv'
  BY <1>1 DEF SettleInv, CopyInv, ErrInv, Unsettled, Unspawned, Attending
<1>2. ASSUME UNCHANGED <<pc, job, saveErr, disk>>, phase \in {"up", "terming", "draining"} PROVE AttendedInv'
  BY <1>2 DEF SettleInv, AttendedInv, Attended, Unsaved, Unsettled, Unspawned, Attending
<1>3. CASE StopBegins
  <2>1. UNCHANGED <<pc, job, saveErr, issued, disk>> /\ phase = "up"
    BY <1>3 DEF StopBegins, local
  <2>2. ASSUME NEW t \in RunThreads, Unsettled(t) PROVE Rec(t) \in Registered
    <3>1. running[t[2]] = t[3] /\ t[2] \in Jobs /\ t[3] # 0
      BY <2>2, ThreadNames DEF StopInv, Gens
    <3> QED
      BY <3>1 DEF Registered, Rec
  <2>3. SnapshotInv'
    BY <1>3, <2>1, <2>2 DEF StopBegins, SnapshotInv, Unsettled, Unspawned, Attending, Rec
  <2> QED
    BY <1>1, <1>2, <2>1, <2>3 DEF SettleInv
<1>4. CASE StopSignals
  <2>1. UNCHANGED <<pc, job, saveErr, issued, disk, stopRecs>> /\ phase = "terming" /\ phase' = "draining"
    BY <1>4 DEF StopSignals, local
  <2>2. SnapshotInv'
    BY <2>1 DEF SettleInv, SnapshotInv, Unsettled, Unspawned, Attending, Rec
  <2> QED
    BY <1>1, <1>2, <2>1, <2>2 DEF SettleInv
<1>5. CASE StopDrained
  <2>1. UNCHANGED <<pc, job, saveErr, issued, disk>> /\ phase = "draining" /\ phase' = "drained"
    BY <1>5 DEF StopDrained, local
  <2>2. ASSUME NEW t \in RunThreads, Unsettled(t) PROVE FALSE
    <3>1. Rec(t) \in stopRecs
      BY <2>1, <2>2 DEF SettleInv, SnapshotInv
    <3>2. pc[RunThread(Rec(t)[1], Rec(t)[2])] = "done"
      BY <1>5, <3>1 DEF StopDrained, RecDone
    <3>3. RunThread(Rec(t)[1], Rec(t)[2]) = t
      BY ThreadNames DEF Rec
    <3> QED
      BY <2>2, <3>2, <3>3 DEF Unsettled, Unspawned, Attending
  <2>3. SnapshotInv'
    BY <2>1, <2>2 DEF SnapshotInv, Unsettled, Unspawned, Attending
  <2> QED
    BY <1>1, <1>2, <2>1, <2>3 DEF SettleInv
<1>6. CASE GraceExpires \/ Restart
  <2>1. UNCHANGED <<pc, job, saveErr, issued, disk>> /\ phase' \in {"killed", "boot"}
    BY <1>6 DEF GraceExpires, Restart, local
  <2> QED
    BY <1>1, <2>1 DEF SettleInv, AttendedInv, SnapshotInv
<1>7. CASE Exit \/ Crash
  <2>1. phase' \in Ended /\ \A t \in Threads : pc'[t] = "idle" /\ ~saveErr'[t]
    BY <1>7 DEF Exit, Crash, ProcessEnds, Ended
  <2>2. \A t \in RunThreads : ~Unsettled(t)'
    BY <2>1, ThreadNames DEF Unsettled, Unspawned, Attending
  <2> QED
    BY <2>1, <2>2 DEF SettleInv, CopyInv, ErrInv, AttendedInv, SnapshotInv, Ended
<1> QED
  BY <1>3, <1>4, <1>5, <1>6, <1>7 DEF StopGoesOn

\* SettleInv is inductive, given the other invariants.
LEMMA NextSettle ==
    ASSUME TypeOK, SignalInv, PhaseInv, SweepInv, FileInv, StopInv, SettleInv, [Next]_vars
    PROVE  SettleInv'
<1>1. ASSUME NEW j \in Jobs, Click(j) PROVE SettleInv'
  BY <1>1, OtherClickSettle, AcceptSettle DEF Click
<1>2. ASSUME NEW r \in Recs, NEW end \in Endings, ChildExits(r, end) PROVE SettleInv'
  BY <1>2, KeptSettle DEF ChildExits, local, main, Unsettled, Unspawned, Attending
<1>3. CASE UNCHANGED vars
  BY <1>3, KeptSettle DEF vars, local, main, Unsettled, Unspawned, Attending
<1> QED
  BY <1>1, <1>2, <1>3, ThreadSettle, RunSettle, ResumeSettle, SweepSettle, StopsSettle DEF Next

LEMMA InitSettle == Init => SettleInv
<1> SUFFICES ASSUME Init PROVE SettleInv
  OBVIOUS
<1>1. \A t \in Threads : pc[t] = "idle" /\ ~saveErr[t]
  BY DEF Init
<1>2. \A t \in RunThreads : ~Unsettled(t)
  BY <1>1, ThreadNames DEF Unsettled, Unspawned, Attending
<1>3. phase = "boot"
  BY DEF Init
<1> QED
  BY <1>1, <1>2, <1>3 DEF SettleInv, CopyInv, ErrInv, AttendedInv, SnapshotInv

\* runner.go:396-398: with retention off, a Stop that returns within its grace
\* leaves no job "recording", one whose final save failed aside.
THEOREM StopsAreSettled == Spec => [](~Retention => StopSettles)
<1>1. SettleInv => StopSettles
  BY DEF SettleInv, AttendedInv, SnapshotInv, StopSettles, Attended
<1>2. /\ TypeOK /\ SignalInv /\ LockInv /\ (~Retention => StopInv /\ SettleInv) /\ [Next]_vars
      => (~Retention => StopInv /\ SettleInv)'
  BY NextStop, NextSettle DEF LockInv
<1> QED
  BY <1>1, <1>2, TypeCorrect, InitSignals, NextSignals, InitLock, NextLock, InitStop, InitSettle, PTL DEF Spec

-----------------------------------------------------------------------------
(***************************************************************************)
(* A recording is registered, as long as no save fails.                    *)
(***************************************************************************)

\* Where no save can fail, none has.
NoFaultInv == SaveFaults = 0 => faults["save"] = 0 /\ \A t \in Threads : ~saveErr[t]

\* A step that leaves saveErr alone keeps NoFaultInv, whatever else fails.
LEMMA KeptFaults ==
    ASSUME TypeOK, NoFaultInv, saveErr' = saveErr,
           UNCHANGED faults \/ \E kind \in FaultKinds : Fault(kind)
    PROVE  NoFaultInv'
<1>1. faults["save"] = 0 => faults'["save"] = 0
  BY DEF Fault, TypeOK, OutsideType, FaultKinds
<1> QED
  BY <1>1 DEF NoFaultInv

\* NoFaultInv is inductive.
LEMMA NextFaults ==
    ASSUME TypeOK, NoFaultInv, [Next]_vars
    PROVE  NoFaultInv'
<1>1. ASSUME NEW j \in Jobs, Click(j) PROVE NoFaultInv'
  BY <1>1, KeptFaults DEF Click, ClickDuplicate, ClickAccept, ClickSaveFails, Saved, SaveFails, local, FaultKinds
<1>2. ASSUME NEW t \in Threads, Indicator(t) \/ PostNote(t) \/ Delivery(t) PROVE NoFaultInv'
  <2>1. saveErr' = saveErr
    BY <1>2 DEF Indicator, LockIndicator, IndicatorCall, IndicatorCallFails, ReleaseIndicator,
       PostNote, Delivery, Deliver, DeliveryUnanswered, DeliveryGivesUp, StampDelivered, local
  <2>2. UNCHANGED faults \/ \E kind \in FaultKinds : Fault(kind)
    BY <1>2 DEF Indicator, LockIndicator, IndicatorCall, IndicatorCallFails, ReleaseIndicator,
       PostNote, Delivery, Deliver, DeliveryUnanswered, DeliveryGivesUp, StampDelivered,
       Saved, SaveFails, FaultKinds
  <2> QED
    BY <2>1, <2>2, KeptFaults
<1>3. ASSUME NEW t \in RunThreads, Run(t) PROVE NoFaultInv'
  <2>1. CASE Settle(t) /\ SaveFaults = 0
    <3>1. UNCHANGED faults /\ saveErr' = [saveErr EXCEPT ![t] = FALSE]
      BY <2>1 DEF Settle, Saved, SaveFails, Fault, NoFaultInv
    <3> QED
      BY <3>1 DEF NoFaultInv, TypeOK, ThreadsType
  <2>2. CASE SpawnChild(t) \/ SpawnFails(t) \/ RegisterChild(t) \/ Cleanup(t)
    BY <2>2, KeptFaults DEF SpawnChild, SpawnFails, RegisterChild, Cleanup, local
  <2> QED
    BY <1>3, <2>1, <2>2 DEF Run, NoFaultInv
<1>4. CASE Resume
  <2>1. CASE (\E j \in Jobs : ResumeInterrupted(j)) /\ SaveFaults = 0
    <3>1. PICK j \in Jobs : ResumeInterrupted(j)
      BY <2>1
    <3>2. UNCHANGED faults /\ saveErr' = [saveErr EXCEPT ![ResumeThread(j)] = FALSE]
      <4>1. ~SaveFails
        BY <2>1 DEF SaveFails, Fault, NoFaultInv
      <4> QED
        BY <3>1, <4>1 DEF ResumeInterrupted, Saved
    <3> QED
      BY <3>2 DEF NoFaultInv, TypeOK, ThreadsType
  <2>2. CASE ListJobs \/ ResumeReturns \/ \E j \in Jobs : BootSweep(j) \/ ResumeUnsent(j) \/ ResumeNothing(j)
    BY <2>2, KeptFaults DEF ListJobs, ResumeReturns, BootSweep, ResumeUnsent, ResumeNothing, local
  <2> QED
    BY <1>4, <2>1, <2>2 DEF Resume, NoFaultInv
<1>5. CASE Sweep
  <2>1. UNCHANGED <<saveErr, faults>>
    BY <1>5 DEF Sweep, TickFires, SweepRemoves, SweepLists, ResendEnds, SweepReads, ResendNext, local
  <2> QED
    BY <2>1, KeptFaults
<1>6. ASSUME NEW r \in Recs, NEW end \in Endings, ChildExits(r, end) PROVE NoFaultInv'
  BY <1>6, KeptFaults DEF ChildExits, local
<1>7. CASE StopBegins \/ StopSignals \/ StopDrained \/ GraceExpires \/ Restart \/ UNCHANGED vars
  BY <1>7, KeptFaults DEF StopBegins, StopSignals, StopDrained, GraceExpires, Restart, vars, local
<1>8. CASE Exit \/ Crash
  BY <1>8 DEF Exit, Crash, ProcessEnds, NoFaultInv
<1> QED
  BY <1>1, <1>2, <1>3, <1>4, <1>5, <1>6, <1>7, <1>8 DEF Next, StopGoesOn

\* runner.go:60-67, 165: with retention off and no failing save, the recording of a
\* job that says "recording" is the one registered for it, whatever goroutine of an
\* earlier recording of the same job is still at work.
THEOREM RecordingsAreRegistered ==
    Spec => [](~Retention /\ SaveFaults = 0 => RecordingRegistered)
<1>1. Init => NoFaultInv
  BY DEF Init, NoFaultInv, FaultKinds
<1>2. StopInv /\ SettleInv /\ NoFaultInv => (SaveFaults = 0 => RecordingRegistered)
  BY DEF StopInv, SettleInv, AttendedInv, NoFaultInv, Attended, Unsaved, RecordingRegistered
<1>3. /\ TypeOK /\ SignalInv /\ LockInv /\ (~Retention => StopInv /\ SettleInv) /\ [Next]_vars
      => (~Retention => StopInv /\ SettleInv)'
  BY NextStop, NextSettle DEF LockInv
<1>4. TypeOK /\ NoFaultInv /\ [Next]_vars => NoFaultInv'
  BY NextFaults
<1> QED
  BY <1>1, <1>2, <1>3, <1>4, TypeCorrect, InitSignals, NextSignals, InitLock, NextLock,
     InitStop, InitSettle, PTL DEF Spec
=============================================================================
