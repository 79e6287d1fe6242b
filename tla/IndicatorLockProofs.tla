------------------------- MODULE IndicatorLockProofs -------------------------
(***************************************************************************)
(* Proofs about lockIndicator, for any number of messages, goroutines and  *)
(* heap objects: the lock is exclusive per message, its map entry lives    *)
(* exactly as long as it is used, and it implements MessageMutex.          *)
(***************************************************************************)
EXTENDS IndicatorLock, FiniteSetTheorems, TLAPS

-----------------------------------------------------------------------------
(***************************************************************************)
(* The inductive invariant.  Exclusion rests on every caller of a message  *)
(* having been handed the object the map holds for it now; that rests on   *)
(* the entry not being dropped under a caller, hence on the count being    *)
(* the number of callers inside.                                           *)
(***************************************************************************)

\* Every caller inside was handed the object the map holds for its message.
SameObject ==
    \A c \in Callers : pc[c] # "out" =>
        /\ msg[c] \in Msgs
        /\ indicators[msg[c]] # Nil
        /\ ind[c] = indicators[msg[c]]

\* No object serves two messages.
OneMessagePerObject ==
    \A m, n \in Msgs : indicators[m] # Nil /\ indicators[m] = indicators[n] => m = n

\* A caller that holds the lock is the one its object is locked by.
HolderLocked ==
    \A c \in Callers : pc[c] = "held" => locked[ind[c]] = c

\* An entry counts exactly the callers inside, and there is at least one.
Counted ==
    \A m \in Msgs : indicators[m] # Nil =>
        /\ Inside(m) # {}
        /\ waiting[indicators[m]] = Cardinality(Inside(m))

IInv ==
    /\ TypeOK
    /\ SameObject
    /\ OneMessagePerObject
    /\ HolderLocked
    /\ Counted

-----------------------------------------------------------------------------
\* Counting in or out one caller changes the count by one.
LEMMA InsideFinite ==
    ASSUME NEW m
    PROVE  /\ IsFiniteSet(Inside(m))
           /\ Cardinality(Inside(m)) \in Nat
<1>1. Inside(m) \subseteq Callers
  BY DEF Inside
<1>2. IsFiniteSet(Inside(m))
  BY <1>1, CallersFinite, FS_Subset
<1> QED
  BY <1>2, FS_CardinalityType

LEMMA InitIInv == Init => IInv
<1> SUFFICES ASSUME Init PROVE IInv
  OBVIOUS
<1>1. TypeOK
  BY DEF Init, TypeOK, Pcs
<1>2. SameObject /\ OneMessagePerObject /\ HolderLocked /\ Counted
  BY DEF Init, SameObject, OneMessagePerObject, HolderLocked, Counted
<1> QED
  BY <1>1, <1>2 DEF IInv

LEMMA JoinIInv ==
    ASSUME IInv, NEW c \in Callers, NEW m \in Msgs, Join(c, m)
    PROVE  IInv'
<1> DEFINE o == indicators[m]
<1>0. o \in Objects
  BY DEF Join, IInv, TypeOK
<1>1. /\ pc' = [pc EXCEPT ![c] = "queued"]
      /\ msg' = [msg EXCEPT ![c] = m]
      /\ ind' = [ind EXCEPT ![c] = o]
      /\ waiting' = [waiting EXCEPT ![o] = @ + 1]
      /\ indicators' = indicators /\ locked' = locked
      /\ pc[c] = "out" /\ indicators[m] # Nil
  BY DEF Join, Handed
<1>2. TypeOK'
  BY <1>0, <1>1 DEF IInv, TypeOK, Pcs
<1>3. SameObject'
  BY <1>0, <1>1 DEF IInv, TypeOK, SameObject
<1>4. OneMessagePerObject'
  BY <1>1 DEF IInv, OneMessagePerObject
<1>5. HolderLocked'
  BY <1>0, <1>1 DEF IInv, TypeOK, HolderLocked
<1>6. c \notin Inside(m) /\ Inside(m)' = Inside(m) \cup {c}
  BY <1>1 DEF Inside, IInv, TypeOK
<1>7. \A n \in Msgs : n # m => Inside(n)' = Inside(n)
  BY <1>1 DEF Inside, IInv, TypeOK
<1>8. Cardinality(Inside(m)') = Cardinality(Inside(m)) + 1
  BY <1>6, InsideFinite, FS_AddElement
<1>9. Counted'
  <2> SUFFICES ASSUME NEW n \in Msgs, indicators[n] # Nil
               PROVE  Inside(n)' # {} /\ waiting'[indicators[n]] = Cardinality(Inside(n)')
    BY <1>1 DEF Counted
  <2>1. CASE n = m
    BY <2>1, <1>0, <1>1, <1>6, <1>8 DEF IInv, TypeOK, Counted
  <2>2. CASE n # m
    <3>1. indicators[n] # o /\ indicators[n] \in Objects
      BY <2>2, <1>1 DEF IInv, TypeOK, OneMessagePerObject
    <3>2. waiting'[indicators[n]] = waiting[indicators[n]]
      BY <3>1, <1>0, <1>1 DEF IInv, TypeOK
    <3> QED
      BY <2>2, <3>2, <1>7 DEF IInv, Counted
  <2> QED
    BY <2>1, <2>2
<1> QED
  BY <1>2, <1>3, <1>4, <1>5, <1>9 DEF IInv

LEMMA CreateIInv ==
    ASSUME IInv, NEW c \in Callers, NEW m \in Msgs, Create(c, m)
    PROVE  IInv'
<1> PICK o \in Objects :
         /\ Unreachable(o)
         /\ indicators' = [indicators EXCEPT ![m] = o]
         /\ waiting' = [waiting EXCEPT ![o] = 1]
         /\ locked' = [locked EXCEPT ![o] = NoCaller]
         /\ Handed(c, m, o)
  BY DEF Create
<1>1. /\ pc' = [pc EXCEPT ![c] = "queued"]
      /\ msg' = [msg EXCEPT ![c] = m]
      /\ ind' = [ind EXCEPT ![c] = o]
      /\ pc[c] = "out" /\ indicators[m] = Nil
  BY DEF Create, Handed
<1>o. o # Nil
  BY NilDistinct
<1>2. TypeOK'
  BY <1>1 DEF IInv, TypeOK, Pcs
<1>3. \A d \in Callers : pc[d] # "out" => d # c /\ msg[d] # m /\ ind[d] # o
  BY <1>1 DEF IInv, TypeOK, SameObject, Unreachable
<1>4. SameObject'
  BY <1>1, <1>3, <1>o DEF IInv, TypeOK, SameObject
<1>5. OneMessagePerObject'
  BY DEF IInv, TypeOK, OneMessagePerObject, Unreachable
<1>6. HolderLocked'
  <2> SUFFICES ASSUME NEW d \in Callers, pc'[d] = "held"
               PROVE  locked'[ind'[d]] = d
    BY DEF HolderLocked
  <2>1. d # c /\ pc[d] = "held"
    BY <1>1 DEF IInv, TypeOK
  <2>2. ind'[d] = ind[d] /\ ind[d] \in Objects /\ ind[d] # o
    BY <2>1, <1>1, <1>3 DEF IInv, TypeOK, SameObject
  <2> QED
    BY <2>1, <2>2 DEF IInv, TypeOK, HolderLocked
<1>7. Inside(m)' = {c}
  BY <1>1, <1>3 DEF Inside, IInv, TypeOK
<1>8. Cardinality(Inside(m)') = 1
  BY <1>7, FS_Singleton
<1>9. Counted'
  <2> SUFFICES ASSUME NEW n \in Msgs, indicators'[n] # Nil
               PROVE  Inside(n)' # {} /\ waiting'[indicators'[n]] = Cardinality(Inside(n)')
    BY DEF Counted
  <2>1. CASE n = m
    BY <2>1, <1>7, <1>8 DEF IInv, TypeOK
  <2>2. CASE n # m
    <3>1. indicators'[n] = indicators[n] /\ indicators[n] # o
      BY <2>2 DEF IInv, TypeOK, Unreachable
    <3>2. Inside(n)' = Inside(n)
      BY <2>2, <1>1 DEF Inside, IInv, TypeOK
    <3>3. waiting'[indicators[n]] = waiting[indicators[n]]
      BY <3>1, <2>2 DEF IInv, TypeOK
    <3> QED
      BY <3>1, <3>2, <3>3 DEF IInv, Counted
  <2> QED
    BY <2>1, <2>2
<1> QED
  BY <1>2, <1>4, <1>5, <1>6, <1>9 DEF IInv

LEMMA AcquireIInv ==
    ASSUME IInv, NEW c \in Callers, Acquire(c)
    PROVE  IInv'
<1>1. ind[c] \in Objects
  BY DEF Acquire, IInv, TypeOK, SameObject
<1>2. TypeOK'
  BY <1>1 DEF Acquire, IInv, TypeOK, Pcs
<1>3. SameObject' /\ OneMessagePerObject'
  BY DEF Acquire, IInv, TypeOK, SameObject, OneMessagePerObject
<1>4. HolderLocked'
  <2> SUFFICES ASSUME NEW d \in Callers, pc'[d] = "held"
               PROVE  locked'[ind[d]] = d
    BY DEF HolderLocked, Acquire
  <2>1. CASE d = c
    BY <2>1, <1>1 DEF Acquire, IInv, TypeOK
  <2>2. CASE d # c
    <3>1. pc[d] = "held" /\ locked[ind[d]] = d
      BY <2>2 DEF Acquire, IInv, TypeOK, HolderLocked
    <3>2. ind[d] # ind[c]
      BY <3>1, NoCallerDistinct DEF Acquire
    <3> QED
      BY <3>1, <3>2 DEF Acquire, IInv, TypeOK
  <2> QED
    BY <2>1, <2>2
<1>5. \A m \in Msgs : Inside(m)' = Inside(m)
  BY DEF Inside, Acquire, IInv, TypeOK
<1>6. Counted'
  BY <1>5 DEF Counted, Acquire, IInv
<1> QED
  BY <1>2, <1>3, <1>4, <1>6 DEF IInv

LEMMA UnlockIInv ==
    ASSUME IInv, NEW c \in Callers, Unlock(c)
    PROVE  IInv'
<1>1. ind[c] \in Objects
  BY DEF Unlock, IInv, TypeOK, SameObject
<1>2. TypeOK'
  BY <1>1 DEF Unlock, IInv, TypeOK, Pcs
<1>3. SameObject' /\ OneMessagePerObject'
  BY DEF Unlock, IInv, TypeOK, SameObject, OneMessagePerObject
<1>4. HolderLocked'
  <2> SUFFICES ASSUME NEW d \in Callers, pc'[d] = "held"
               PROVE  locked'[ind[d]] = d
    BY DEF HolderLocked, Unlock
  <2>1. d # c /\ pc[d] = "held" /\ locked[ind[d]] = d
    BY DEF Unlock, IInv, TypeOK, HolderLocked
  <2>2. ind[d] # ind[c]
    BY <2>1 DEF Unlock, IInv, HolderLocked
  <2> QED
    BY <2>1, <2>2, <1>1 DEF Unlock, IInv, TypeOK
<1>5. \A m \in Msgs : Inside(m)' = Inside(m)
  BY DEF Inside, Unlock, IInv, TypeOK
<1>6. Counted'
  BY <1>5 DEF Counted, Unlock, IInv
<1> QED
  BY <1>2, <1>3, <1>4, <1>6 DEF IInv

LEMMA CountOutIInv ==
    ASSUME IInv, NEW c \in Callers, CountOut(c)
    PROVE  IInv'
<1>0. /\ msg[c] \in Msgs
      /\ indicators[msg[c]] = ind[c]
      /\ ind[c] \in Objects
      /\ waiting[ind[c]] - 1 \in Int
  BY NilDistinct DEF CountOut, IInv, TypeOK, SameObject
<1> PICK m \in Msgs, o \in Objects, left \in Int :
         m = msg[c] /\ o = ind[c] /\ left = waiting[ind[c]] - 1
  BY <1>0
<1>1. indicators[m] = o /\ o # Nil /\ left = waiting[o] - 1
  BY <1>0, NilDistinct
<1>2. /\ waiting' = [waiting EXCEPT ![o] = left]
      /\ indicators' = [indicators EXCEPT ![m] = IF left = 0 THEN Nil ELSE indicators[m]]
      /\ pc' = [pc EXCEPT ![c] = "out"]
      /\ msg' = [msg EXCEPT ![c] = NoMsg]
      /\ ind' = [ind EXCEPT ![c] = Nil]
      /\ locked' = locked /\ pc[c] = "leaving"
  BY <1>0 DEF CountOut, EntryAfter
<1>3. c \in Inside(m) /\ Inside(m)' = Inside(m) \ {c}
  BY <1>1, <1>2, NoMsgDistinct DEF Inside, IInv, TypeOK
<1>4. Cardinality(Inside(m)') = Cardinality(Inside(m)) - 1
  <2>1. IsFiniteSet(Inside(m))
    BY InsideFinite
  <2>2. Cardinality(Inside(m) \ {c}) =
          IF c \in Inside(m) THEN Cardinality(Inside(m)) - 1 ELSE Cardinality(Inside(m))
    BY <2>1, FS_RemoveElement, Zenon
  <2> QED
    BY <1>3, <2>2
<1>5. waiting[o] = Cardinality(Inside(m))
  BY <1>1 DEF IInv, Counted
<1>6. IsFiniteSet(Inside(m)') /\ left = Cardinality(Inside(m)')
  <2>1. IsFiniteSet(Inside(m) \ {c})
    BY InsideFinite, FS_RemoveElement, Zenon
  <2> QED
    BY <2>1, <1>1, <1>3, <1>4, <1>5
<1>7. left \in Nat /\ (left = 0 <=> Inside(m)' = {})
  BY <1>6, FS_CardinalityType, FS_EmptySet
<1>8. TypeOK'
  <2>1. waiting' \in [Objects -> Nat]
    BY <1>1, <1>2, <1>7 DEF IInv, TypeOK
  <2>2. indicators' \in [Msgs -> Objects \cup {Nil}]
    BY <1>1, <1>2 DEF IInv, TypeOK
  <2> QED
    BY <2>1, <2>2, <1>2 DEF IInv, TypeOK, Pcs
<1>9. SameObject'
  <2> SUFFICES ASSUME NEW d \in Callers, pc'[d] # "out"
               PROVE  /\ msg'[d] \in Msgs
                      /\ indicators'[msg'[d]] # Nil
                      /\ ind'[d] = indicators'[msg'[d]]
    BY DEF SameObject
  <2>1. d # c /\ pc[d] # "out" /\ msg'[d] = msg[d] /\ ind'[d] = ind[d]
    BY <1>2 DEF IInv, TypeOK
  <2>2. msg[d] \in Msgs /\ indicators[msg[d]] # Nil /\ ind[d] = indicators[msg[d]]
    BY <2>1 DEF IInv, SameObject
  <2>3. msg[d] = m => left # 0
    BY <2>1, <1>3, <1>7 DEF Inside
  <2> QED
    BY <2>1, <2>2, <2>3, <1>1, <1>2 DEF IInv, TypeOK
<1>10. OneMessagePerObject'
  BY <1>1, <1>2 DEF IInv, TypeOK, OneMessagePerObject
<1>11. HolderLocked'
  BY <1>2 DEF IInv, TypeOK, HolderLocked
<1>12. Counted'
  <2> SUFFICES ASSUME NEW n \in Msgs, indicators'[n] # Nil
               PROVE  Inside(n)' # {} /\ waiting'[indicators'[n]] = Cardinality(Inside(n)')
    BY DEF Counted
  <2>1. CASE n = m
    <3>1. left # 0 /\ indicators'[m] = o
      BY <2>1, <1>1, <1>2 DEF IInv, TypeOK
    <3>2. waiting'[o] = left
      BY <1>1, <1>2 DEF IInv, TypeOK
    <3> QED
      BY <2>1, <3>1, <3>2, <1>6, <1>7
  <2>2. CASE n # m
    <3>1. indicators'[n] = indicators[n] /\ indicators[n] \in Objects
      BY <2>2, <1>1, <1>2, NilDistinct DEF IInv, TypeOK
    <3>2. indicators[n] # o
      BY <2>2, <3>1, <1>1 DEF IInv, OneMessagePerObject
    <3>3. waiting'[indicators[n]] = waiting[indicators[n]]
      BY <3>1, <3>2, <1>1, <1>2 DEF IInv, TypeOK
    <3>4. Inside(n)' = Inside(n)
      BY <2>2, <1>2, NoMsgDistinct DEF Inside, IInv, TypeOK
    <3> QED
      BY <3>1, <3>3, <3>4 DEF IInv, Counted
  <2> QED
    BY <2>1, <2>2
<1> QED
  BY <1>8, <1>9, <1>10, <1>11, <1>12 DEF IInv

LEMMA NextIInv == IInv /\ [Next]_vars => IInv'
<1> SUFFICES ASSUME IInv, [Next]_vars PROVE IInv'
  OBVIOUS
<1>1. CASE UNCHANGED vars
  <2>1. TypeOK' /\ OneMessagePerObject'
    BY <1>1 DEF vars, IInv, TypeOK, OneMessagePerObject
  <2>2. SameObject' /\ HolderLocked'
    BY <1>1 DEF vars, IInv, SameObject, HolderLocked
  <2>3. \A m \in Msgs : Inside(m)' = Inside(m)
    BY <1>1 DEF vars, Inside
  <2>4. Counted'
    BY <1>1, <2>3 DEF vars, IInv, Counted
  <2> QED
    BY <2>1, <2>2, <2>4 DEF IInv
<1>2. ASSUME NEW c \in Callers, NEW m \in Msgs, Join(c, m) \/ Create(c, m) PROVE IInv'
  BY <1>2, JoinIInv, CreateIInv
<1>3. ASSUME NEW c \in Callers, Acquire(c) \/ Unlock(c) \/ CountOut(c) PROVE IInv'
  BY <1>3, AcquireIInv, UnlockIInv, CountOutIInv
<1> QED
  BY <1>1, <1>2, <1>3 DEF Next

\* The inductive invariant holds in every reachable state.
THEOREM Inductive == Spec => []IInv
  BY InitIInv, NextIInv, PTL DEF Spec

-----------------------------------------------------------------------------
LEMMA IInvExcludes == IInv => MutualExclusion
  BY DEF IInv, SameObject, HolderLocked, MutualExclusion

LEMMA IInvLifetime == IInv => EntryLifetime
<1> SUFFICES ASSUME IInv, NEW m \in Msgs PROVE indicators[m] # Nil <=> Inside(m) # {}
  BY DEF EntryLifetime
<1>1. Inside(m) # {} => indicators[m] # Nil
  BY DEF Inside, IInv, SameObject
<1> QED
  BY <1>1 DEF IInv, Counted

\* Two goroutines are never both between lockIndicator and its release for the
\* same message, for any number of goroutines and messages.
THEOREM Exclusion == Spec => []MutualExclusion
  BY Inductive, IInvExcludes, PTL

\* The map holds an entry for a message exactly while a goroutine is inside
\* lockIndicator for it, so it neither leaks nor drops a lock in use.
THEOREM Lifetime == Spec => []EntryLifetime
  BY Inductive, IInvLifetime, PTL

\* Every variable of lockIndicator keeps its type; waiting never goes negative.
THEOREM TypeCorrect == Spec => []TypeOK
  BY Inductive, PTL DEF IInv

-----------------------------------------------------------------------------
(***************************************************************************)
(* Refinement.  With IInv at most one caller of a message holds its lock,  *)
(* so ownerBar is that caller and every step maps to a step of the mutex   *)
(* or leaves wantsBar and ownerBar alone.                                  *)
(***************************************************************************)
LEMMA OneOfFacts ==
    /\ OneOf({}) = NoCaller
    /\ \A c : OneOf({c}) = c
<1>1. ASSUME NEW c PROVE OneOf({c}) = c
  <2>1. (CHOOSE d \in {c} : TRUE) \in {c}
    OBVIOUS
  <2> QED
    BY <2>1 DEF OneOf
<1>2. OneOf({}) = NoCaller
  BY DEF OneOf
<1> QED
  BY <1>1, <1>2

LEMMA OwnerIsHolder ==
    ASSUME IInv, NEW c \in Callers, NEW m \in Msgs, pc[c] = "held", msg[c] = m
    PROVE  Holders(m) = {c} /\ ownerBar[m] = c
<1>1. Holders(m) = {c}
  BY IInvExcludes DEF MutualExclusion, Holders
<1> QED
  BY <1>1, OneOfFacts DEF ownerBar

LEMMA InitRefines == Init => Mutex!MutexInit
<1> SUFFICES ASSUME Init PROVE Mutex!MutexInit
  OBVIOUS
<1>1. wantsBar = [c \in Callers |-> NoMsg]
  BY DEF Init, wantsBar
<1>2. \A m \in Msgs : Holders(m) = {}
  BY DEF Init, Holders
<1>3. ownerBar = [m \in Msgs |-> NoCaller]
  BY <1>2, OneOfFacts DEF ownerBar
<1> QED
  BY <1>1, <1>3 DEF Mutex!MutexInit

LEMMA EnterRefines ==
    ASSUME IInv, NEW c \in Callers, NEW m \in Msgs, Join(c, m) \/ Create(c, m)
    PROVE  Mutex!Request(c, m)
<1>1. /\ pc[c] = "out"
      /\ pc' = [pc EXCEPT ![c] = "queued"]
      /\ msg' = [msg EXCEPT ![c] = m]
  BY DEF Join, Create, Handed
<1>2. wantsBar[c] = NoMsg /\ wantsBar' = [wantsBar EXCEPT ![c] = m]
  BY <1>1 DEF wantsBar, IInv, TypeOK
<1>3. \A n \in Msgs : Holders(n)' = Holders(n)
  BY <1>1 DEF Holders, IInv, TypeOK
<1>4. ownerBar' = ownerBar
  BY <1>3 DEF ownerBar
<1> QED
  BY <1>2, <1>4 DEF Mutex!Request

LEMMA AcquireRefines ==
    ASSUME IInv, NEW c \in Callers, NEW m \in Msgs, m = msg[c], Acquire(c)
    PROVE  Mutex!Grant(c, m)
<1>1. wantsBar[c] = m /\ wantsBar' = wantsBar
  BY DEF Acquire, wantsBar, IInv, TypeOK
<1>2. Holders(m) = {}
  <2> SUFFICES ASSUME NEW d \in Callers, pc[d] = "held", msg[d] = m PROVE FALSE
    BY DEF Holders
  <2>1. ind[d] = ind[c] /\ locked[ind[d]] = d
    BY DEF Acquire, IInv, SameObject, HolderLocked
  <2> QED
    BY <2>1, NoCallerDistinct DEF Acquire
<1>3. Holders(m)' = {c}
  BY <1>2 DEF Holders, Acquire, IInv, TypeOK
<1>4. \A n \in Msgs : n # m => Holders(n)' = Holders(n)
  BY DEF Holders, Acquire, IInv, TypeOK
<1>5. ownerBar[m] = NoCaller
  BY <1>2, OneOfFacts DEF ownerBar
<1>6. ownerBar' = [ownerBar EXCEPT ![m] = c]
  BY <1>3, <1>4, OneOfFacts DEF ownerBar
<1> QED
  BY <1>1, <1>5, <1>6 DEF Mutex!Grant

LEMMA UnlockRefines ==
    ASSUME IInv, NEW c \in Callers, NEW m \in Msgs, m = msg[c], Unlock(c)
    PROVE  Mutex!GiveBack(c, m)
<1>1. Holders(m) = {c} /\ ownerBar[m] = c
  BY OwnerIsHolder DEF Unlock
<1>2. Holders(m)' = {}
  BY <1>1 DEF Holders, Unlock, IInv, TypeOK
<1>3. \A n \in Msgs : n # m => Holders(n)' = Holders(n)
  BY DEF Holders, Unlock, IInv, TypeOK
<1>4. ownerBar' = [ownerBar EXCEPT ![m] = NoCaller]
  BY <1>2, <1>3, OneOfFacts DEF ownerBar
<1>5. wantsBar' = [wantsBar EXCEPT ![c] = NoMsg]
  BY DEF wantsBar, Unlock, IInv, TypeOK
<1> QED
  BY <1>1, <1>4, <1>5 DEF Mutex!GiveBack

LEMMA CountOutRefines ==
    ASSUME IInv, NEW c \in Callers, CountOut(c)
    PROVE  UNCHANGED <<wantsBar, ownerBar>>
<1>1. /\ pc[c] = "leaving"
      /\ pc' = [pc EXCEPT ![c] = "out"]
      /\ msg' = [msg EXCEPT ![c] = NoMsg]
  BY DEF CountOut
<1>2. wantsBar' = wantsBar
  BY <1>1 DEF wantsBar, IInv, TypeOK
<1>3. \A n \in Msgs : Holders(n)' = Holders(n)
  BY <1>1 DEF Holders, IInv, TypeOK
<1>4. ownerBar' = ownerBar
  BY <1>3 DEF ownerBar
<1> QED
  BY <1>2, <1>4

LEMMA NextRefines == IInv /\ [Next]_vars => [Mutex!MutexNext]_(Mutex!absVars)
<1> SUFFICES ASSUME IInv, [Next]_vars
             PROVE  Mutex!MutexNext \/ UNCHANGED <<wantsBar, ownerBar>>
  BY DEF Mutex!absVars
<1>1. CASE UNCHANGED vars
  <2>1. \A m \in Msgs : Holders(m)' = Holders(m)
    BY <1>1 DEF vars, Holders
  <2> QED
    BY <2>1, <1>1 DEF vars, wantsBar, ownerBar
<1>2. ASSUME NEW c \in Callers, NEW m \in Msgs, Join(c, m) \/ Create(c, m)
      PROVE  Mutex!MutexNext
  BY <1>2, EnterRefines DEF Mutex!MutexNext
<1>3. ASSUME NEW c \in Callers, Acquire(c) \/ Unlock(c)
      PROVE  Mutex!MutexNext
  <2>1. msg[c] \in Msgs
    BY <1>3 DEF Acquire, Unlock, IInv, SameObject
  <2> QED
    BY <2>1, <1>3, AcquireRefines, UnlockRefines DEF Mutex!MutexNext
<1>4. ASSUME NEW c \in Callers, CountOut(c) PROVE UNCHANGED <<wantsBar, ownerBar>>
  BY <1>4, CountOutRefines
<1> QED
  BY <1>1, <1>2, <1>3, <1>4 DEF Next

\* The refcounted map of locks implements one mutex per message, whatever the
\* number of callers: its callers may reason with MessageMutex alone.
THEOREM Refinement == Spec => ImplementsMutex
<1>1. Init => Mutex!MutexInit
  BY InitRefines
<1>2. IInv /\ [Next]_vars => [Mutex!MutexNext]_(Mutex!absVars)
  BY NextRefines
<1> QED
  BY <1>1, <1>2, Inductive, PTL DEF Spec, ImplementsMutex, Mutex!MutexSpec
=============================================================================
