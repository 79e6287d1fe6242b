---------------------------- MODULE IndicatorLock ----------------------------
(***************************************************************************)
(* lockIndicator (runner.go): a mutex per Zulip message, kept in the map   *)
(* r.indicators only while somebody holds it or queues on it.  A caller    *)
(* looks the entry up (or creates it) and counts itself in under r.mu,     *)
(* then waits on the entry's own mutex without r.mu; the release unlocks   *)
(* that mutex first and counts itself out in a second critical section,    *)
(* dropping the map entry when nobody is left.                             *)
(*                                                                         *)
(* A section under r.mu touches nothing else and is one step.  The entries *)
(* are heap objects with an identity: two callers that were handed         *)
(* different objects for one message would not exclude each other.         *)
(***************************************************************************)
EXTENDS Naturals, FiniteSets

CONSTANTS
    Msgs,      \* the Zulip messages whose indicator is updated
    Callers,   \* the goroutines that call lockIndicator
    Objects,   \* the *indicator objects the heap can hold
    NoMsg,     \* no message
    NoCaller,  \* ind.mu is unlocked
    Nil        \* a nil *indicator: no entry in the map

ASSUME CallersFinite == IsFiniteSet(Callers)
ASSUME NoMsgDistinct == NoMsg \notin Msgs
ASSUME NoCallerDistinct == NoCaller \notin Callers
ASSUME NilDistinct == Nil \notin Objects

VARIABLES
    indicators,  \* r.indicators: message -> *indicator, Nil when absent
    waiting,     \* indicator.waiting of every object
    locked,      \* the caller that has locked indicator.mu, per object
    pc,          \* where in lockIndicator a caller is
    msg,         \* the msgID argument of the call
    ind          \* the *indicator a caller was handed

vars == <<indicators, waiting, locked, pc, msg, ind>>

-----------------------------------------------------------------------------
Pcs == {"out", "queued", "held", "leaving"}

\* The callers between their lookup and their final count-out.
Inside(m) == {c \in Callers : pc[c] # "out" /\ msg[c] = m}

\* An object the allocator may return: nothing refers to it any more.
Unreachable(o) ==
    /\ \A m \in Msgs : indicators[m] # o
    /\ \A c \in Callers : pc[c] # "out" => ind[c] # o

TypeOK ==
    /\ indicators \in [Msgs -> Objects \cup {Nil}]
    /\ waiting \in [Objects -> Nat]
    /\ locked \in [Objects -> Callers \cup {NoCaller}]
    /\ pc \in [Callers -> Pcs]
    /\ msg \in [Callers -> Msgs \cup {NoMsg}]
    /\ ind \in [Callers -> Objects \cup {Nil}]

Init ==
    /\ indicators = [m \in Msgs |-> Nil]
    /\ waiting = [o \in Objects |-> 0]
    /\ locked = [o \in Objects |-> NoCaller]
    /\ pc = [c \in Callers |-> "out"]
    /\ msg = [c \in Callers |-> NoMsg]
    /\ ind = [c \in Callers |-> Nil]

-----------------------------------------------------------------------------
\* The caller has been handed object o for message m and queues on o.mu.
Handed(c, m, o) ==
    /\ pc' = [pc EXCEPT ![c] = "queued"]
    /\ msg' = [msg EXCEPT ![c] = m]
    /\ ind' = [ind EXCEPT ![c] = o]

\* Mutant of Join: the caller does not count itself in.
JoinUncounted(c, m) ==
    /\ pc[c] = "out"
    /\ indicators[m] # Nil
    /\ Handed(c, m, indicators[m])
    /\ UNCHANGED <<indicators, waiting, locked>>

\* The map has an entry for the message: count in on it.
Join(c, m) ==
    /\ pc[c] = "out"
    /\ indicators[m] # Nil
    /\ waiting' = [waiting EXCEPT ![indicators[m]] = @ + 1]
    /\ Handed(c, m, indicators[m])
    /\ UNCHANGED <<indicators, locked>>

\* It has none: allocate a zeroed indicator, enter it, count in.
Create(c, m) ==
    /\ pc[c] = "out"
    /\ indicators[m] = Nil
    /\ \E o \in Objects :
         /\ Unreachable(o)
         /\ indicators' = [indicators EXCEPT ![m] = o]
         /\ waiting' = [waiting EXCEPT ![o] = 1]
         /\ locked' = [locked EXCEPT ![o] = NoCaller]
         /\ Handed(c, m, o)

\* ind.mu.Lock() returns.
Acquire(c) ==
    /\ pc[c] = "queued"
    /\ locked[ind[c]] = NoCaller
    /\ locked' = [locked EXCEPT ![ind[c]] = c]
    /\ pc' = [pc EXCEPT ![c] = "held"]
    /\ UNCHANGED <<indicators, waiting, msg, ind>>

\* Mutant of Unlock: the release counts out without unlocking indicator.mu.
UnlockForgotten(c) ==
    /\ pc[c] = "held"
    /\ pc' = [pc EXCEPT ![c] = "leaving"]
    /\ UNCHANGED <<indicators, waiting, locked, msg, ind>>

\* The release, first half: ind.mu.Unlock(), without r.mu.
Unlock(c) ==
    /\ pc[c] = "held"
    /\ locked' = [locked EXCEPT ![ind[c]] = NoCaller]
    /\ pc' = [pc EXCEPT ![c] = "leaving"]
    /\ UNCHANGED <<indicators, waiting, msg, ind>>

\* Mutant of EntryAfter: the entry is dropped however many are still counted in.
EntryDroppedEarly(m, left) == Nil

\* Mutant of EntryAfter: the entry is never dropped.
EntryKept(m, left) == indicators[m]

\* The map entry of m once `left` callers are still counted in.
EntryAfter(m, left) == IF left = 0 THEN Nil ELSE indicators[m]

\* The release, second half, under r.mu: count out, drop an unused entry.
\* The deletion is by message id, whatever object the map holds for it by then.
CountOut(c) ==
    LET left == waiting[ind[c]] - 1 IN
    /\ pc[c] = "leaving"
    /\ waiting' = [waiting EXCEPT ![ind[c]] = left]
    /\ indicators' = [indicators EXCEPT ![msg[c]] = EntryAfter(msg[c], left)]
    /\ pc' = [pc EXCEPT ![c] = "out"]
    /\ msg' = [msg EXCEPT ![c] = NoMsg]
    /\ ind' = [ind EXCEPT ![c] = Nil]
    /\ UNCHANGED locked

Next ==
    \E c \in Callers :
        \/ \E m \in Msgs : Join(c, m) \/ Create(c, m)
        \/ Acquire(c)
        \/ Unlock(c)
        \/ CountOut(c)

Spec == Init /\ [][Next]_vars

(***************************************************************************)
(* Fairness.  A goroutine that can run does, and every Zulip call made     *)
(* under the lock ends after zulipTimeout at the latest, so Unlock is      *)
(* weakly fair.  sync.Mutex hands the lock to a waiter that has starved    *)
(* for a millisecond, which makes Acquire strongly fair.                   *)
(***************************************************************************)
Fairness ==
    \A c \in Callers :
        /\ SF_vars(Acquire(c))
        /\ WF_vars(Unlock(c))
        /\ WF_vars(CountOut(c))

FairSpec == Spec /\ Fairness

-----------------------------------------------------------------------------
\* runner.go:368-373, "serializes the indicator updates for one message": two
\* goroutines are never both between lock and release for the same message,
\* even though the entry they lock may have been dropped and created anew.
MutualExclusion ==
    \A c, d \in Callers :
        pc[c] = "held" /\ pc[d] = "held" /\ msg[c] = msg[d] => c = d

\* runner.go:53-54 and 372-373, "an entry lives exactly as long as somebody
\* holds or queues on it": the map neither leaks entries nor loses one in use.
EntryLifetime ==
    \A m \in Msgs : indicators[m] # Nil <=> Inside(m) # {}

\* Every goroutine that queues on a message's lock gets it: no caller is left
\* waiting on an object that the map has forgotten.
QueuedGetsLock ==
    \A c \in Callers : pc[c] = "queued" ~> pc[c] = "held"

-----------------------------------------------------------------------------
(***************************************************************************)
(* Refinement: the refcounted map implements one mutex per message.        *)
(***************************************************************************)
wantsBar == [c \in Callers |-> IF pc[c] \in {"queued", "held"} THEN msg[c] ELSE NoMsg]
Holders(m) == {c \in Callers : pc[c] = "held" /\ msg[c] = m}
OneOf(S) == IF S = {} THEN NoCaller ELSE CHOOSE c \in S : TRUE
ownerBar == [m \in Msgs |-> OneOf(Holders(m))]

Mutex == INSTANCE MessageMutex WITH wants <- wantsBar, owner <- ownerBar

\* lockIndicator refines the abstract mutex its callers rely on.
ImplementsMutex == Mutex!MutexSpec
=============================================================================
