--------------------------- MODULE RecorderProofs ---------------------------
(***************************************************************************)
(* Proofs about the Jitsi recorder, for any deadlines and any number of    *)
(* signals and members: its states are well typed, a printed result stands *)
(* for a whole recording, an empty room was empty for as long as it should *)
(* be, and a signal that reaches a recording gets its result.              *)
(***************************************************************************)
EXTENDS Recorder, TLAPS

-----------------------------------------------------------------------------
(***************************************************************************)
(* Types.                                                                  *)
(***************************************************************************)

\* What the stop rule returns: one of its two reasons or none, and a time of the
\* past or none.
LEMMA ShouldStopType ==
    ASSUME NEW n, NEW since, NEW t \in Nat, since \in (0 .. t) \cup {Never},
           NEW grace, NEW started, NEW limit
    PROVE  LET next == ShouldStop(n, since, t, grace, started, limit)
           IN  next.reason \in Reasons /\ next.aloneSince \in (0 .. t) \cup {Never}
  BY DEF ShouldStop, AloneSince, Reasons

\* The clock goes forward.
LEMMA LaterGrows ==
    ASSUME now \in Nat
    PROVE  Later \in Nat /\ Later >= now
  BY DEF Later

\* The types survive each step.
LEMMA TypeStep ==
    ASSUME TypeOK, [Next]_vars
    PROVE  TypeOK'
<1> USE BoundsAssumption
<1>1. CASE UNCHANGED vars
  BY <1>1 DEF vars, loop, env, stream, history, TypeOK
<1>2. CASE InstallHandlers \/ StartFails \/ NotYetJoined \/ Joined \/ StartCapture \/ CloseBrowser
  BY <1>2 DEF InstallHandlers, StartFails, NotYetJoined, Joined, StartCapture, CloseBrowser,
              TypeOK, Pcs, Recording, loop, env, stream, history
<1>3. CASE Launch \/ LaunchFails \/ StartCaptureFails \/ Flush \/ Report
  BY <1>3 DEF Launch, LaunchFails, StartCaptureFails, Flush, Report, JoinHead, Returns,
              TypeOK, Pcs, Recording, loop, env, stream, history
<1>4. CASE JoinAgain
  <2>1. now' \in Nat /\ now' >= now
    BY <1>4, LaterGrows DEF JoinAgain, TypeOK
  <2> QED
    BY <1>4, <2>1 DEF JoinAgain, JoinHead, Returns, TypeOK, Pcs, loop, env, stream, history
<1>5. CASE SetupTracks
  BY <1>5 DEF SetupTracks, RecordHead, Failure, TypeOK, Pcs, Recording, loop, env, stream, history
<1>6. CASE Poll
  <2>1. now' \in Nat /\ now' >= now
    BY <1>6, LaterGrows DEF Poll, TypeOK
  <2> QED
    BY <1>6, <2>1 DEF Poll, TypeOK, Pcs, Recording, env, stream
<1>7. CASE Decide
  <2> DEFINE next == ShouldStop(count, aloneSince, now, EmptyGrace, startedAt, MaxDuration)
  <2>1. next.reason \in Reasons /\ next.aloneSince \in (0 .. now) \cup {Never}
    BY ShouldStopType DEF TypeOK
  <2>2. reason' \in Reasons /\ aloneSince' \in (0 .. now) \cup {Never}
    BY <1>7, <2>1 DEF Decide, TypeOK
  <2>3. pc' \in Pcs /\ failure' \in BOOLEAN
    BY <1>7 DEF Decide, RecordHead, Failure, TypeOK, Pcs, Recording
  <2> QED
    BY <1>7, <2>2, <2>3 DEF Decide, TypeOK, env, stream, history
<1>8. CASE Signal
  <2>1. /\ signals' = signals + 1 /\ signals < MaxSignals /\ asked' = (asked \/ (pc \in Recording /\ reason = "none"))
        /\ pc' \in {pc, "exited"} /\ reason' \in {reason, "signal"} /\ code' \in {code, 0, Killed}
        /\ UNCHANGED <<now, startedAt, loop, env, stream, failure, line, seenOthers>>
    BY <1>8 DEF Signal
  <2>2. signals' \in 0 .. MaxSignals
    BY <2>1 DEF TypeOK
  <2>3. pc' \in Pcs /\ reason' \in Reasons /\ code' \in {Undecided, 0, 2, 3, 4, 5, Killed}
    BY <2>1 DEF TypeOK, Pcs, Reasons
  <2>4. asked' \in BOOLEAN
    BY <2>1 DEF TypeOK
  <2> QED
    BY <2>1, <2>2, <2>3, <2>4 DEF TypeOK, loop, env, stream
<1>9. CASE RoomChanges \/ PageDies \/ WriteFails \/ CaptureEnds
  <2>1. /\ UNCHANGED <<pc, reason, now, startedAt, loop, failure, line, code, history>>
        /\ members' = members \/ members' \in 1 .. MaxMembers
        /\ pageUp' \in {pageUp, FALSE} /\ fileError' \in {fileError, TRUE} /\ captureDied' \in {captureDied, TRUE}
    BY <1>9 DEF RoomChanges, PageDies, WriteFails, CaptureEnds, env, stream
  <2>2. members' \in 1 .. MaxMembers /\ pageUp' \in BOOLEAN /\ fileError' \in BOOLEAN /\ captureDied' \in BOOLEAN
    BY <2>1 DEF TypeOK
  <2>3. /\ UNCHANGED <<pc, reason, now, startedAt, aloneSince, count, failure, line, code>>
        /\ UNCHANGED <<signals, asked, seenOthers>>
    BY <2>1 DEF loop, history
  <2> QED
    BY <2>2, <2>3 DEF TypeOK
<1> QED
  BY <1>1, <1>2, <1>3, <1>4, <1>5, <1>6, <1>7, <1>8, <1>9 DEF Next, Step

\* Every state of the recorder is well typed.
THEOREM TypeCorrect == Spec => []TypeOK
<1>1. Init => TypeOK
  <2> SUFFICES ASSUME Init PROVE TypeOK
    OBVIOUS
  <2>1. MaxSignals \in Nat /\ MaxMembers \in Nat
    BY BoundsAssumption DEF BoundsAssumption
  <2>2. now = 0 /\ startedAt = 0 /\ seenOthers = 0 /\ count = 0 /\ signals = 0 /\ members \in 1 .. MaxMembers
    BY DEF Init
  <2>3. count \in 0 .. MaxMembers /\ signals \in 0 .. MaxSignals
    BY <2>1, <2>2
  <2>4. pc \in Pcs /\ reason \in Reasons /\ line \in Reasons /\ aloneSince = Never /\ code = Undecided
    BY DEF Init, Pcs, Reasons
  <2>5. {pageUp, fileError, captureDied, failure, asked} \subseteq BOOLEAN
    BY DEF Init
  <2> QED
    BY <2>2, <2>3, <2>4, <2>5 DEF TypeOK
<1>2. TypeOK /\ [Next]_vars => TypeOK'
  BY TypeStep
<1> QED
  BY <1>1, <1>2, PTL DEF Spec

-----------------------------------------------------------------------------
(***************************************************************************)
(* ResultIsComplete: finalization looks at what went wrong once, when the  *)
(* loop is left, and nothing it looks for can go wrong after that.         *)
(***************************************************************************)
Whole ==
    /\ line # "none" => pc \in {"closing", "exited"} /\ code = 0 /\ ~captureDied /\ ~failure
    /\ pc \in {"flush", "tracks"} /\ ~failure => ~captureDied
    /\ pc = "tracks" => ~failure

LEMMA WholeStep ==
    ASSUME TypeOK, Whole, [Next]_vars
    PROVE  Whole'
<1>1. CASE UNCHANGED vars
  BY <1>1 DEF vars, stream, Whole
<1>2. CASE InstallHandlers \/ StartFails \/ NotYetJoined \/ Joined \/ StartCapture \/ CloseBrowser
  BY <1>2 DEF InstallHandlers, StartFails, NotYetJoined, Joined, StartCapture, CloseBrowser,
              Whole, stream
<1>3. CASE Launch \/ LaunchFails \/ StartCaptureFails \/ JoinAgain
  BY <1>3 DEF Launch, LaunchFails, StartCaptureFails, JoinAgain, JoinHead, Returns, Whole, stream
<1>4. CASE SetupTracks \/ Decide
  <2>1. pc \in {"setup", "decide"} /\ UNCHANGED <<line, code, captureDied>>
    BY <1>4 DEF SetupTracks, Decide, stream
  <2>2. pc' = "sleep" \/ (pc' = "flush" /\ failure' = (fileError \/ captureDied))
    BY <1>4 DEF SetupTracks, Decide, RecordHead, Failure
  <2> QED
    BY <2>1, <2>2, Zenon DEF Whole
<1>5. CASE Poll
  BY <1>5 DEF Poll, Whole, stream
<1>6. CASE Flush
  BY <1>6 DEF Flush, Returns, Whole, stream
<1>7. CASE Report
  BY <1>7 DEF Report, Returns, Whole, stream
<1>8. CASE Signal
  BY <1>8 DEF Signal, Latched, Whole, stream
<1>9. CASE RoomChanges \/ PageDies \/ WriteFails \/ CaptureEnds
  BY <1>9 DEF RoomChanges, PageDies, WriteFails, CaptureEnds, Recording, Whole, stream
<1> QED
  BY <1>1, <1>2, <1>3, <1>4, <1>5, <1>6, <1>7, <1>8, <1>9 DEF Next, Step

\* A printed result means exit code 0, and a capture that was alive until the
\* record loop was left.
THEOREM ResultsAreComplete == Spec => []ResultIsComplete
<1>1. Init => Whole
  BY DEF Init, Whole
<1>2. TypeOK /\ Whole /\ [Next]_vars => Whole'
  BY WholeStep
<1>3. Whole => ResultIsComplete
  BY DEF Whole, ResultIsComplete
<1> QED
  BY <1>1, <1>2, <1>3, TypeCorrect, PTL DEF Spec

-----------------------------------------------------------------------------
(***************************************************************************)
(* EmptyRoomJustified: aloneSince is never before the last poll that saw   *)
(* somebody else, but for the poll that has just seen somebody and not yet *)
(* decided.                                                                *)
(***************************************************************************)
Early == {"boot", "launch", "probe", "pause", "capture", "setup"}
Late == {"flush", "tracks", "closing", "exited"}

Counting == pc = "sleep" \/ (pc = "decide" /\ count <= 1)

Alone ==
    /\ seenOthers <= now
    /\ pc \in Early => aloneSince = Never
    /\ aloneSince # Never /\ Counting => seenOthers <= aloneSince
    /\ reason = "empty_room" => pc \in Late /\ now - seenOthers >= EmptyGrace

LEMMA AloneStep ==
    ASSUME TypeOK, Alone, [Next]_vars
    PROVE  Alone'
<1> USE TimesAssumption, NeverAssumption
<1>1. CASE UNCHANGED vars
  BY <1>1 DEF vars, loop, history, Alone, Counting
<1>2. CASE InstallHandlers \/ StartFails \/ NotYetJoined \/ Joined \/ CloseBrowser
  BY <1>2 DEF InstallHandlers, StartFails, NotYetJoined, Joined, CloseBrowser, TypeOK,
              Alone, Counting, Early, Late, loop, history
<1>3. CASE StartCapture
  BY <1>3 DEF StartCapture, TypeOK, Alone, Counting, Early, Late, loop
<1>4. CASE Launch \/ LaunchFails \/ StartCaptureFails \/ Flush \/ Report
  BY <1>4 DEF Launch, LaunchFails, StartCaptureFails, Flush, Report, JoinHead, Returns, TypeOK,
              Alone, Counting, Early, Late, loop, history
<1>5. CASE JoinAgain
  <2>1. now' \in Nat /\ now' >= now
    BY <1>5, LaterGrows DEF JoinAgain, TypeOK
  <2> QED
    BY <1>5, <2>1 DEF JoinAgain, JoinHead, Returns, TypeOK, Alone, Counting, Early, Late, loop, history
<1>6. CASE SetupTracks
  BY <1>6 DEF SetupTracks, RecordHead, TypeOK, Alone, Counting, Early, Late, loop, history
<1>7. CASE Poll
  <2>1. now' \in Nat /\ now' >= now
    BY <1>7, LaterGrows DEF Poll, TypeOK
  <2> QED
    BY <1>7, <2>1 DEF Poll, TypeOK, Alone, Counting, Early, Late
<1>8. CASE Decide
  <2> DEFINE next == ShouldStop(count, aloneSince, now, EmptyGrace, startedAt, MaxDuration)
  <2>1. aloneSince' = next.aloneSince /\ pc = "decide" /\ UNCHANGED <<now, seenOthers>>
        /\ reason' = IF next.reason # "none" THEN next.reason ELSE reason
    BY <1>8 DEF Decide, history
  <2>2. pc' = IF reason' = "none" /\ ~fileError /\ ~captureDied THEN "sleep" ELSE "flush"
    BY <1>8 DEF Decide, RecordHead
  <2>3. next.reason # "max_duration" /\ next.aloneSince # Never => seenOthers <= next.aloneSince
    BY <2>1 DEF ShouldStop, AloneSince, TypeOK, Alone, Counting
  <2>4. reason' = "empty_room" => now - seenOthers >= EmptyGrace
    <3>1. reason # "empty_room"
      BY <2>1 DEF Alone, Late
    <3>2. next.reason = "empty_room" => next.aloneSince # Never /\ now - next.aloneSince >= EmptyGrace
      BY DEF ShouldStop
    <3>3. next.reason = "empty_room" => next.aloneSince \in Nat
      BY <3>2, ShouldStopType DEF TypeOK
    <3> QED
      BY <2>1, <2>3, <3>1, <3>2, <3>3 DEF TypeOK
  <2>5. reason' = "none" => next.reason = "none"
    BY <2>1
  <2> QED
    BY <2>1, <2>2, <2>3, <2>4, <2>5 DEF Alone, Counting, Early, Late
<1>9. CASE Signal
  BY <1>9 DEF Signal, Latched, TypeOK, Alone, Counting, Early, Late, loop
<1>10. CASE RoomChanges \/ PageDies \/ WriteFails \/ CaptureEnds
  BY <1>10 DEF RoomChanges, PageDies, WriteFails, CaptureEnds, Alone, Counting, loop, history
<1> QED
  BY <1>1, <1>2, <1>3, <1>4, <1>5, <1>6, <1>7, <1>8, <1>9, <1>10 DEF Next, Step

\* The bot leaves a room as empty only when nobody was seen in it for emptyGrace.
THEOREM EmptyRoomsAreEmpty == Spec => []EmptyRoomJustified
<1>1. Init => Alone
  BY DEF Init, Alone, Early, Counting
<1>2. TypeOK /\ Alone /\ [Next]_vars => Alone'
  BY AloneStep
<1>3. Alone => EmptyRoomJustified
  BY DEF Alone, EmptyRoomJustified
<1> QED
  BY <1>1, <1>2, <1>3, TypeCorrect, PTL DEF Spec

-----------------------------------------------------------------------------
(***************************************************************************)
(* SignalFinalizes: from the record loop there is one way to the exit, and *)
(* only a second signal leaves it.                                         *)
(***************************************************************************)
Finalizing ==
    /\ asked => signals >= 1 /\ reason # "none"
    /\ asked /\ signals = 1 =>
         \/ pc \in Recording \cup {"flush", "tracks"}
         \/ pc \in {"closing", "exited"} /\ (code = 5 \/ line # "none")

LEMMA FinalizingStep ==
    ASSUME TypeOK, Finalizing, [Next]_vars
    PROVE  Finalizing'
<1>1. CASE UNCHANGED vars
  BY <1>1 DEF vars, history, Finalizing
<1>2. CASE InstallHandlers \/ StartFails \/ NotYetJoined \/ Joined \/ StartCapture \/ CloseBrowser
  BY <1>2 DEF InstallHandlers, StartFails, NotYetJoined, Joined, StartCapture, CloseBrowser,
              Finalizing, Recording, history
<1>3. CASE Launch \/ LaunchFails \/ StartCaptureFails \/ JoinAgain
  BY <1>3 DEF Launch, LaunchFails, StartCaptureFails, JoinAgain, JoinHead, Returns, Finalizing,
              Recording, history
<1>4. CASE SetupTracks \/ Decide
  BY <1>4 DEF SetupTracks, Decide, RecordHead, Finalizing, Recording, history
<1>5. CASE Poll
  BY <1>5 DEF Poll, Finalizing, Recording
<1>6. CASE Flush \/ Report
  BY <1>6 DEF Flush, Report, Returns, Finalizing, Recording, history
<1>7. CASE Signal
  <2>1. signals' = signals + 1 /\ signals \in Nat
    BY <1>7, BoundsAssumption DEF Signal, TypeOK
  <2>2. reason # "none" => asked' = asked
    BY <1>7 DEF Signal, TypeOK
  <2>3. CASE asked
    BY <1>7, <2>1, <2>3 DEF Signal, Latched, Finalizing
  <2>4. CASE ~asked
    <3>1. asked' => pc \in Recording /\ reason = "none"
      BY <1>7, <2>4 DEF Signal
    <3>2. pc \in Recording /\ reason = "none" => reason' = "signal" /\ pc' = pc
      BY <1>7 DEF Signal, Latched, Recording
    <3> QED
      BY <2>1, <3>1, <3>2 DEF Finalizing
  <2> QED
    BY <2>3, <2>4
<1>8. CASE RoomChanges \/ PageDies \/ WriteFails \/ CaptureEnds
  BY <1>8 DEF RoomChanges, PageDies, WriteFails, CaptureEnds, Finalizing, history
<1> QED
  BY <1>1, <1>2, <1>3, <1>4, <1>5, <1>6, <1>7, <1>8 DEF Next, Step

\* A single signal that reaches a recording leads to a result, unless the capture
\* or the file is broken.
THEOREM SignalsFinalize == Spec => []SignalFinalizes
<1>1. Init => Finalizing
  BY DEF Init, Finalizing
<1>2. TypeOK /\ Finalizing /\ [Next]_vars => Finalizing'
  BY FinalizingStep
<1>3. Finalizing => SignalFinalizes
  BY DEF Finalizing, SignalFinalizes, Recording
<1> QED
  BY <1>1, <1>2, <1>3, TypeCorrect, PTL DEF Spec
=============================================================================
