--------------------------- MODULE CaptionsProofs ---------------------------
(***************************************************************************)
(* Proofs about the caption reader, for any lengths, bounds and settling   *)
(* time: everything a poll read is said once, with the last text read, and *)
(* the hints are in the order of time.  The heart of it is one fold: what  *)
(* blocks and open utterances make of each other (Kept, CutShort), and     *)
(* that a turn is never in two places.                                     *)
(***************************************************************************)
EXTENDS Captions, FiniteSetTheorems, SequenceTheorems, WellFoundedInduction, TLAPS

-----------------------------------------------------------------------------
(***************************************************************************)
(* Numbers and sequences.                                                  *)
(***************************************************************************)

\* A set of naturals that is not empty has a least element.
LEMMA Least ==
    ASSUME NEW T \in SUBSET Nat, T # {}
    PROVE  \E x \in T : \A y \in T : x <= y
<1>1. PICK x \in T : \A y \in T : ~(<<y, x>> \in OpToRel(<, Nat))
  BY WFMin, NatLessThanWellFounded
<1>2. \A y \in T : ~(y < x)
  BY <1>1 DEF OpToRel
<1> QED
  BY <1>2

\* A bounded one has a greatest, which Max returns.
LEMMA MaxOfSome ==
    ASSUME NEW N \in Nat, NEW S \in SUBSET (0 .. N), S # {}
    PROVE  Max(S) \in S /\ \A y \in S : y <= Max(S)
<1> DEFINE T == {N - x : x \in S}
<1>1. \A x \in S : x \in Nat /\ x <= N /\ N - x \in Nat
  OBVIOUS
<1>2. T \in SUBSET Nat /\ T # {}
  BY <1>1
<1>3. PICK m \in T : \A y \in T : m <= y
  BY <1>2, Least
<1>4. PICK x \in S : m = N - x
  OBVIOUS
<1>5. \A y \in S : x >= y
  BY <1>1, <1>3, <1>4
<1> QED
  BY <1>5 DEF Max

\* Max is the only greatest element.
LEMMA MaxIs ==
    ASSUME NEW S \in SUBSET Int, NEW x \in S, \A y \in S : y <= x
    PROVE  Max(S) = x
<1>1. \A z \in S : (\A y \in S : z >= y) => z = x
  OBVIOUS
<1> QED
  BY <1>1 DEF Max

Rank(I, i) == Cardinality({j \in I : j <= i})

\* Ranks count the positions up to i.
LEMMA RankStep ==
    ASSUME NEW n \in Nat, NEW I \in SUBSET (1 .. n)
    PROVE  /\ IsFiniteSet(I) /\ Cardinality(I) \in Nat
           /\ \A i \in 0 .. n : Rank(I, i) \in Nat
           /\ Rank(I, 0) = 0 /\ Rank(I, n) = Cardinality(I)
           /\ \A i \in 1 .. n : Rank(I, i) = Rank(I, i - 1) + (IF i \in I THEN 1 ELSE 0)
<1>1. \A j \in I : j \in Int /\ 1 <= j /\ j <= n
  OBVIOUS
<1>2. IsFiniteSet(1 .. n)
  BY FS_Interval
<1>3. IsFiniteSet(I) /\ Cardinality(I) \in Nat
  BY <1>2, FS_Subset, FS_CardinalityType
<1>4. \A i : IsFiniteSet({j \in I : j <= i}) /\ Rank(I, i) \in Nat
  <2>1. ASSUME NEW i PROVE IsFiniteSet({j \in I : j <= i}) /\ Rank(I, i) \in Nat
    <3>1. {j \in I : j <= i} \in SUBSET I
      OBVIOUS
    <3>2. IsFiniteSet({j \in I : j <= i})
      BY <1>3, <3>1, FS_Subset
    <3> QED
      BY <3>2, FS_CardinalityType DEF Rank
  <2> QED
    BY <2>1
<1>5. Rank(I, 0) = 0
  <2>1. \A j \in I : ~(j <= 0)
    BY <1>1
  <2>2. {j \in I : j <= 0} = {}
    BY <2>1
  <2> QED
    BY <2>2, FS_EmptySet DEF Rank
<1>6. Rank(I, n) = Cardinality(I)
  <2>1. {j \in I : j <= n} = I
    BY <1>1
  <2> QED
    BY <2>1 DEF Rank
<1>7. ASSUME NEW i \in 1 .. n
      PROVE  Rank(I, i) = Rank(I, i - 1) + (IF i \in I THEN 1 ELSE 0)
  <2> DEFINE A == {j \in I : j <= i - 1}
  <2>1. CASE i \in I
    <3>1. \A j \in I : j <= i <=> j <= i - 1 \/ j = i
      BY <1>1
    <3>2. i <= i /\ ~(i <= i - 1)
      OBVIOUS
    <3>3. {j \in I : j <= i} = A \cup {i} /\ i \notin A
      BY <2>1, <3>1, <3>2
    <3>4. IsFiniteSet(A)
      BY <1>4
    <3> HIDE DEF A
    <3>5. Cardinality(A \cup {i}) = Cardinality(A) + 1
      BY <3>3, <3>4, FS_AddElement
    <3> QED
      BY <2>1, <3>3, <3>5 DEF Rank, A
  <2>2. CASE i \notin I
    <3>1. {j \in I : j <= i} = A
      <4>1. \A j \in I : j <= i <=> j <= i - 1
        BY <1>1, <2>2
      <4> QED
        BY <4>1
    <3>2. Rank(I, i) = Rank(I, i - 1)
      BY <3>1 DEF Rank
    <3>3. Rank(I, i - 1) \in Nat
      BY <1>4
    <3> QED
      BY <2>2, <3>2, <3>3
  <2> QED
    BY <2>1, <2>2
<1> QED
  BY <1>3, <1>4, <1>5, <1>6, <1>7

\* Positions of a set have different ranks.
LEMMA RankStrict ==
    ASSUME NEW n \in Nat, NEW I \in SUBSET (1 .. n), NEW i \in I, NEW j \in I, i # j
    PROVE  Rank(I, i) # Rank(I, j)
<1>1. ASSUME NEW k \in I, NEW l \in I, k < l
      PROVE  Rank(I, k) # Rank(I, l)
  <2> DEFINE K == {m \in I : m <= k}
             L == {m \in I : m <= l}
  <2>1. \A m \in I : m \in Int
    OBVIOUS
  <2>2. \A m \in I : m <= k => m <= l
    BY <1>1, <2>1
  <2>3. l <= l /\ ~(l <= k)
    BY <1>1, <2>1
  <2>4. K \in SUBSET L /\ l \in L /\ l \notin K
    BY <2>2, <2>3
  <2>5. IsFiniteSet(I) /\ L \in SUBSET I
    BY RankStep
  <2> HIDE DEF K, L
  <2>6. IsFiniteSet(L)
    BY <2>5, FS_Subset
  <2>7. Cardinality(L) # Cardinality(K)
    BY <2>4, <2>6, FS_Subset
  <2> QED
    BY <2>7 DEF Rank, K, L
<1>2. i \in Int /\ j \in Int
  OBVIOUS
<1>3. CASE i < j
  BY <1>1, <1>3
<1>4. CASE j < i
  BY <1>1, <1>4
<1> QED
  BY <1>2, <1>3, <1>4

\* Every rank up to the number of positions is taken.
LEMMA RankOnto ==
    ASSUME NEW n \in Nat, NEW I \in SUBSET (1 .. n), NEW m \in 1 .. Cardinality(I)
    PROVE  \E i \in I : Rank(I, i) = m
<1> DEFINE T == {k \in 0 .. n : Rank(I, k) >= m}
<1>1. n \in T
  BY RankStep
<1>2. T \in SUBSET Nat /\ T # {}
  BY <1>1
<1>3. PICK k \in T : \A l \in T : k <= l
  BY <1>2, Least
<1>4. Cardinality(I) \in Nat /\ m \in Nat /\ m > 0
  BY RankStep
<1>5. k # 0
  <2>1. Rank(I, 0) = 0
    BY RankStep
  <2> QED
    BY <1>4, <2>1
<1>6. k \in 1 .. n /\ k - 1 \in 0 .. n /\ Rank(I, k) >= m /\ k - 1 \notin T
  BY <1>3, <1>5
<1>7. ~(Rank(I, k - 1) >= m)
  BY <1>6
<1>8. \A i \in 1 .. n : Rank(I, i) = Rank(I, i - 1) + (IF i \in I THEN 1 ELSE 0)
  BY RankStep
<1>9. \A i \in 0 .. n : Rank(I, i) \in Nat
  BY RankStep
<1>10. Rank(I, k) = Rank(I, k - 1) + (IF k \in I THEN 1 ELSE 0)
      /\ Rank(I, k - 1) \in Nat /\ Rank(I, k) \in Nat
  BY <1>6, <1>8, <1>9
<1>11. k \in I /\ Rank(I, k) = m
  BY <1>4, <1>6, <1>7, <1>10
<1> QED
  BY <1>11

\* Among lists what stands at the positions, each of them once.
LEMMA AmongFacts ==
    ASSUME NEW S, NEW seq \in Seq(S), NEW I \in SUBSET (1 .. Len(seq))
    PROVE  /\ Among(seq, I) \in Seq(S) /\ Len(Among(seq, I)) = Cardinality(I) /\ Cardinality(I) \in Nat
           /\ \A n \in 1 .. Cardinality(I) : Nth(I, n) \in I /\ Among(seq, I)[n] = seq[Nth(I, n)]
           /\ \A m, n \in 1 .. Cardinality(I) : Nth(I, m) = Nth(I, n) => m = n
           /\ \A i \in I : \E n \in 1 .. Cardinality(I) : Nth(I, n) = i
<1>1. Len(seq) \in Nat
  BY LenProperties
<1>2. Cardinality(I) \in Nat
  BY <1>1, RankStep
<1>3. \A n \in 1 .. Cardinality(I) : Nth(I, n) \in I /\ Rank(I, Nth(I, n)) = n
  <2>1. ASSUME NEW n \in 1 .. Cardinality(I)
        PROVE  Nth(I, n) \in I /\ Rank(I, Nth(I, n)) = n
    <3>1. \E i \in I : Rank(I, i) = n
      BY <1>1, RankOnto
    <3>2. Nth(I, n) = CHOOSE i \in I : Rank(I, i) = n
      BY DEF Nth, Rank
    <3> QED
      BY <3>1, <3>2
  <2> QED
    BY <2>1
<1>4. \A i \in I : Rank(I, i) \in 1 .. Cardinality(I)
  <2>1. ASSUME NEW i \in I PROVE Rank(I, i) \in 1 .. Cardinality(I)
    <3>1. IsFiniteSet(I) /\ Rank(I, i) \in Nat /\ i \in 1 .. Len(seq)
      BY <1>1, RankStep
    <3>2. Rank(I, i) <= Cardinality(I)
      <4>1. {j \in I : j <= i} \in SUBSET I
        OBVIOUS
      <4> QED
        BY <3>1, <4>1, FS_Subset DEF Rank
    <3>3. Rank(I, i) # 0
      <4>1. i \in {j \in I : j <= i} /\ {j \in I : j <= i} \in SUBSET I
        BY <3>1
      <4>2. IsFiniteSet({j \in I : j <= i})
        BY <3>1, <4>1, FS_Subset
      <4> QED
        BY <4>1, <4>2, FS_EmptySet DEF Rank
    <3> QED
      BY <1>2, <3>1, <3>2, <3>3
  <2> QED
    BY <2>1
<1>5. \A i \in I : Nth(I, Rank(I, i)) = i
  BY <1>1, <1>3, <1>4, RankStrict
<1>6. \A n \in 1 .. Cardinality(I) : Among(seq, I)[n] = seq[Nth(I, n)]
  BY DEF Among
<1>7. Among(seq, I) \in Seq(S) /\ Len(Among(seq, I)) = Cardinality(I)
  <2>1. \A n \in 1 .. Cardinality(I) : seq[Nth(I, n)] \in S
    BY <1>3, ElementOfSeq
  <2>2. Among(seq, I) \in [1 .. Cardinality(I) -> S]
    BY <2>1 DEF Among
  <2> QED
    BY <1>2, <2>2
<1> QED
  BY <1>2, <1>3, <1>4, <1>5, <1>6, <1>7

\* What stands where in two sequences one after the other.
LEMMA Joined ==
    ASSUME NEW S, NEW A \in Seq(S), NEW B \in Seq(S)
    PROVE  /\ A \o B \in Seq(S) /\ Len(A \o B) = Len(A) + Len(B) /\ Len(A) \in Nat /\ Len(B) \in Nat
           /\ \A n \in 1 .. Len(A) : n \in 1 .. Len(A \o B) /\ (A \o B)[n] = A[n]
           /\ \A n \in 1 .. Len(B) : Len(A) + n \in 1 .. Len(A \o B) /\ (A \o B)[Len(A) + n] = B[n]
           /\ \A n \in 1 .. Len(A \o B) : n \in 1 .. Len(A) \/ \E m \in 1 .. Len(B) : n = Len(A) + m
<1>1. Len(A) \in Nat /\ Len(B) \in Nat
  BY LenProperties
<1>2. /\ A \o B \in Seq(S) /\ Len(A \o B) = Len(A) + Len(B)
      /\ \A n \in 1 .. Len(A) + Len(B) : (A \o B)[n] = IF n <= Len(A) THEN A[n] ELSE B[n - Len(A)]
  BY ConcatProperties
<1> DEFINE C == A \o B
           a == Len(A)
           b == Len(B)
<1>3. /\ C \in Seq(S) /\ Len(C) = a + b
      /\ \A n \in 1 .. a + b : C[n] = IF n <= a THEN A[n] ELSE B[n - a]
  BY <1>2
<1>4. a \in Nat /\ b \in Nat
  BY <1>1
<1> HIDE DEF C, a, b
<1>5. \A n \in 1 .. a : n \in 1 .. Len(C) /\ C[n] = A[n]
  BY <1>3, <1>4
<1>6. \A n \in 1 .. b : a + n \in 1 .. Len(C) /\ C[a + n] = B[n]
  BY <1>3, <1>4
<1>7. ASSUME NEW n \in 1 .. Len(C), n \notin 1 .. a
      PROVE  \E m \in 1 .. b : n = a + m
  <2>1. n - a \in 1 .. b /\ n = a + (n - a)
    BY <1>3, <1>4, <1>7
  <2> QED
    BY <2>1
<1> QED
  BY <1>3, <1>4, <1>5, <1>6, <1>7 DEF C, a, b

Ats(n) == {seen[hints[j].text.turn].at : j \in 1 .. n}

-----------------------------------------------------------------------------
(***************************************************************************)
(* What a poll makes of blocks and open utterances.                        *)
(***************************************************************************)

\* No two of them are of one element.
OneEach(seq) == \A i, j \in 1 .. Len(seq) : seq[i].id = seq[j].id => i = j

\* An utterance and a block can be found by their element.
LEMMA ByElement ==
    ASSUME TypeOK, OneEach(open), NEW blocks \in Seq(Blocks), OneEach(blocks)
    PROVE  /\ \A j \in 1 .. Len(open) : Opened(open[j].id) /\ Utterance(open[j].id) = open[j]
           /\ \A id : Opened(id) => \E j \in 1 .. Len(open) : open[j].id = id
           /\ \A i \in 1 .. Len(blocks) : TextOf(blocks, blocks[i].id) = blocks[i].text
           /\ \A id : id \in IdsOf(blocks) <=> \E i \in 1 .. Len(blocks) : blocks[i].id = id
           /\ \A id : id \in Cleared(blocks) <=>
                  \E i \in 1 .. Len(blocks) : blocks[i].id = id /\ blocks[i].text = Empty
<1>1. ASSUME NEW j \in 1 .. Len(open)
      PROVE  Opened(open[j].id) /\ Utterance(open[j].id) = open[j]
  <2>1. (CHOOSE i \in 1 .. Len(open) : open[i].id = open[j].id) = j
    BY DEF OneEach
  <2> QED
    BY <2>1 DEF Opened, Utterance
<1>2. DOMAIN blocks = 1 .. Len(blocks)
  BY LenProperties
<1>3. ToSet(blocks) = {blocks[i] : i \in 1 .. Len(blocks)}
  BY <1>2 DEF ToSet
<1>4. ASSUME NEW i \in 1 .. Len(blocks)
      PROVE  TextOf(blocks, blocks[i].id) = blocks[i].text
  <2>1. \A b \in ToSet(blocks) : b.id = blocks[i].id => b = blocks[i]
    BY <1>3 DEF OneEach
  <2>2. blocks[i] \in ToSet(blocks)
    BY <1>3
  <2>3. (CHOOSE b \in ToSet(blocks) : b.id = blocks[i].id) = blocks[i]
    BY <2>1, <2>2
  <2> QED
    BY <2>3 DEF TextOf
<1>5. \A id : id \in Cleared(blocks) <=>
                  \E i \in 1 .. Len(blocks) : blocks[i].id = id /\ blocks[i].text = Empty
  BY <1>3 DEF Cleared
<1> QED
  BY <1>1, <1>4, <1>5 DEF Opened, IdsOf

Fresh(b) == [id |-> b.id, text |-> b.text, first |-> now', changed |-> now']

\* Open utterances and blocks have their types, and so has what becomes of them.
LEMMA UpdatedType ==
    ASSUME TypeOK, now' \in Times, OneEach(open), NEW blocks \in Seq(Blocks), OneEach(blocks)
    PROVE  /\ \A j \in 1 .. Len(open) : open[j] \in Utterances
           /\ \A i \in 1 .. Len(blocks) : blocks[i] \in Blocks
           /\ \A j \in 1 .. Len(open) : open[j].id \notin Cleared(blocks) =>
                  Updated(open[j], blocks) \in Utterances /\ Updated(open[j], blocks).id = open[j].id
           /\ \A i \in 1 .. Len(blocks) : blocks[i].text # Empty =>
                  Fresh(blocks[i]) \in Utterances /\ Fresh(blocks[i]).id = blocks[i].id
<1>1. \A j \in 1 .. Len(open) : open[j] \in Utterances
  BY ElementOfSeq DEF TypeOK
<1>2. \A i \in 1 .. Len(blocks) : blocks[i] \in Blocks
  BY ElementOfSeq
<1>3. ASSUME NEW j \in 1 .. Len(open), open[j].id \notin Cleared(blocks)
      PROVE  Updated(open[j], blocks) \in Utterances /\ Updated(open[j], blocks).id = open[j].id
  <2>1. open[j] \in [id : Ids, text : Texts, first : Times, changed : Times]
    BY <1>1 DEF Utterances
  <2>2. CASE open[j].id \notin IdsOf(blocks) \/ TextOf(blocks, open[j].id) = open[j].text
    BY <1>1, <2>2 DEF Updated
  <2>3. CASE open[j].id \in IdsOf(blocks) /\ TextOf(blocks, open[j].id) # open[j].text
    <3>1. PICK i \in 1 .. Len(blocks) : blocks[i].id = open[j].id
      BY <2>3, ByElement
    <3>2. TextOf(blocks, open[j].id) = blocks[i].text /\ blocks[i].text # Empty
      BY <1>3, <3>1, ByElement
    <3>3. blocks[i].text \in Texts
      BY <1>2, <3>2 DEF Blocks
    <3> DEFINE text == TextOf(blocks, open[j].id)
               u == [open[j] EXCEPT !.text = text, !.changed = now',
                                    !.first = IF Halved(open[j].text, text) THEN now' ELSE @]
    <3>4. Updated(open[j], blocks) = u
      BY <2>3 DEF Updated
    <3>5. text \in Texts
      BY <3>2, <3>3
    <3> HIDE DEF text
    <3>6. u \in Utterances /\ u.id = open[j].id
      BY <2>1, <3>5 DEF Utterances
    <3> QED
      BY <3>4, <3>6
  <2> QED
    BY <2>2, <2>3
<1>4. ASSUME NEW i \in 1 .. Len(blocks), blocks[i].text # Empty
      PROVE  Fresh(blocks[i]) \in Utterances /\ Fresh(blocks[i]).id = blocks[i].id
  BY <1>2, <1>4 DEF Blocks, Fresh, Utterances
<1> QED
  BY <1>1, <1>2, <1>3, <1>4

\* The open utterances afterwards: those not cleared, brought up to date, and one
\* for every new block; one of each element.
LEMMA KeptFacts ==
    ASSUME TypeOK, now' \in Times, OneEach(open), NEW blocks \in Seq(Blocks), OneEach(blocks)
    PROVE  /\ Kept(blocks) \in Seq(Utterances) /\ OneEach(Kept(blocks))
           /\ \A n \in 1 .. Len(Kept(blocks)) :
                 \/ \E j \in 1 .. Len(open) :
                       open[j].id \notin Cleared(blocks) /\ Kept(blocks)[n] = Updated(open[j], blocks)
                 \/ \E i \in 1 .. Len(blocks) :
                       IsNew(blocks[i]) /\ Kept(blocks)[n] = Fresh(blocks[i])
           /\ \A j \in 1 .. Len(open) : open[j].id \notin Cleared(blocks) =>
                 \E n \in 1 .. Len(Kept(blocks)) : Kept(blocks)[n] = Updated(open[j], blocks)
           /\ \A i \in 1 .. Len(blocks) : IsNew(blocks[i]) =>
                 \E n \in 1 .. Len(Kept(blocks)) : Kept(blocks)[n] = Fresh(blocks[i])
<1> DEFINE I == {i \in 1 .. Len(open) : open[i].id \notin Cleared(blocks)}
           J == {i \in 1 .. Len(blocks) : IsNew(blocks[i])}
           old == Among(open, I)
           fresh == Among(blocks, J)
           A == [i \in 1 .. Len(old) |-> Updated(old[i], blocks)]
           B == [i \in 1 .. Len(fresh) |-> [id |-> fresh[i].id, text |-> fresh[i].text,
                                            first |-> now', changed |-> now']]
<1>1. Kept(blocks) = A \o B
  BY DEF Kept
<1>2. I \in SUBSET (1 .. Len(open)) /\ J \in SUBSET (1 .. Len(blocks)) /\ open \in Seq(Utterances)
  BY DEF TypeOK
<1>3. \A j \in I : j \in 1 .. Len(open) /\ open[j].id \notin Cleared(blocks)
  OBVIOUS
<1>4. \A i \in J : i \in 1 .. Len(blocks) /\ IsNew(blocks[i]) /\ blocks[i].text # Empty /\ ~Opened(blocks[i].id)
  BY DEF IsNew
<1>5. \A j \in 1 .. Len(open) : open[j].id \notin Cleared(blocks) => j \in I
  OBVIOUS
<1>6. \A i \in 1 .. Len(blocks) : IsNew(blocks[i]) => i \in J
  OBVIOUS
<1> HIDE DEF I, J
<1>7. /\ Len(old) = Cardinality(I) /\ Cardinality(I) \in Nat
      /\ \A n \in 1 .. Cardinality(I) : Nth(I, n) \in I /\ old[n] = open[Nth(I, n)]
      /\ \A m, n \in 1 .. Cardinality(I) : Nth(I, m) = Nth(I, n) => m = n
      /\ \A i \in I : \E n \in 1 .. Cardinality(I) : Nth(I, n) = i
  BY <1>2, AmongFacts
<1>8. /\ Len(fresh) = Cardinality(J) /\ Cardinality(J) \in Nat
      /\ \A n \in 1 .. Cardinality(J) : Nth(J, n) \in J /\ fresh[n] = blocks[Nth(J, n)]
      /\ \A m, n \in 1 .. Cardinality(J) : Nth(J, m) = Nth(J, n) => m = n
      /\ \A i \in J : \E n \in 1 .. Cardinality(J) : Nth(J, n) = i
  BY <1>2, AmongFacts
<1> DEFINE a == Cardinality(I)
           b == Cardinality(J)
<1>9. A = [n \in 1 .. a |-> Updated(open[Nth(I, n)], blocks)]
  BY <1>7
<1>10. B = [n \in 1 .. b |-> Fresh(blocks[Nth(J, n)])]
  BY <1>8 DEF Fresh
<1>11. a \in Nat /\ b \in Nat
  BY <1>7, <1>8
<1> HIDE DEF old, fresh, A, B
<1>12. \A n \in 1 .. a : Nth(I, n) \in I /\ A[n] = Updated(open[Nth(I, n)], blocks)
                        /\ A[n] \in Utterances /\ A[n].id = open[Nth(I, n)].id
  BY <1>7, <1>3, <1>9, UpdatedType
<1>13. \A n \in 1 .. b : Nth(J, n) \in J /\ B[n] = Fresh(blocks[Nth(J, n)])
                         /\ B[n] \in Utterances /\ B[n].id = blocks[Nth(J, n)].id
  BY <1>8, <1>4, <1>10, UpdatedType
<1>14. A \in Seq(Utterances) /\ B \in Seq(Utterances) /\ Len(A) = a /\ Len(B) = b
  <2>1. A \in [1 .. a -> Utterances] /\ B \in [1 .. b -> Utterances]
    BY <1>9, <1>10, <1>12, <1>13
  <2> QED
    BY <1>11, <2>1
<1> DEFINE K == Kept(blocks)
<1> HIDE DEF a, b
<1>15. K = A \o B
  BY <1>1
<1> HIDE DEF K
<1>16. /\ K \in Seq(Utterances)
       /\ \A n \in 1 .. Len(A) : n \in 1 .. Len(K) /\ K[n] = A[n]
       /\ \A n \in 1 .. Len(B) : Len(A) + n \in 1 .. Len(K) /\ K[Len(A) + n] = B[n]
       /\ \A n \in 1 .. Len(K) : n \in 1 .. Len(A) \/ \E m \in 1 .. Len(B) : n = Len(A) + m
  <2>1. A \in Seq(Utterances) /\ B \in Seq(Utterances)
    BY <1>14
  <2>2. /\ A \o B \in Seq(Utterances)
        /\ \A n \in 1 .. Len(A) : n \in 1 .. Len(A \o B) /\ (A \o B)[n] = A[n]
    BY <2>1, Joined
  <2>3. \A n \in 1 .. Len(B) : Len(A) + n \in 1 .. Len(A \o B) /\ (A \o B)[Len(A) + n] = B[n]
    BY <2>1, Joined
  <2>4. \A n \in 1 .. Len(A \o B) : n \in 1 .. Len(A) \/ \E m \in 1 .. Len(B) : n = Len(A) + m
    BY <2>1, Joined
  <2> QED
    BY <1>15, <2>2, <2>3, <2>4
<1>17. \A n \in 1 .. a : n \in 1 .. Len(K) /\ K[n] = A[n]
  BY <1>14, <1>16
<1>18. \A n \in 1 .. b : a + n \in 1 .. Len(K) /\ K[a + n] = B[n]
  BY <1>14, <1>16
<1>19. \A n \in 1 .. Len(K) : n \in 1 .. a \/ \E m \in 1 .. b : n = a + m
  BY <1>14, <1>16
<1>20. ASSUME NEW n \in 1 .. Len(K)
       PROVE  \/ \E j \in 1 .. Len(open) :
                       open[j].id \notin Cleared(blocks) /\ K[n] = Updated(open[j], blocks)
              \/ \E i \in 1 .. Len(blocks) : IsNew(blocks[i]) /\ K[n] = Fresh(blocks[i])
  <2>1. CASE n \in 1 .. a
    BY <1>3, <1>12, <1>17, <2>1
  <2>2. CASE \E m \in 1 .. b : n = a + m
    BY <1>4, <1>13, <1>18, <2>2
  <2> QED
    BY <1>16, <1>19, <2>1, <2>2
<1>21. ASSUME NEW j \in 1 .. Len(open), open[j].id \notin Cleared(blocks)
       PROVE  \E n \in 1 .. Len(K) : K[n] = Updated(open[j], blocks)
  <2>1. PICK n \in 1 .. a : Nth(I, n) = j
    BY <1>7, <1>5, <1>21 DEF a
  <2> QED
    BY <1>12, <1>16, <1>17, <2>1
<1>22. ASSUME NEW i \in 1 .. Len(blocks), IsNew(blocks[i])
       PROVE  \E n \in 1 .. Len(K) : K[n] = Fresh(blocks[i])
  <2>1. PICK n \in 1 .. b : Nth(J, n) = i
    BY <1>8, <1>6, <1>22 DEF b
  <2> QED
    BY <1>13, <1>16, <1>18, <2>1
<1>23. OneEach(K)
  <2>1. \A m, n \in 1 .. a : A[m].id = A[n].id => m = n
    <3>1. ASSUME NEW m \in 1 .. a, NEW n \in 1 .. a, A[m].id = A[n].id PROVE m = n
      <4>1. Nth(I, m) \in 1 .. Len(open) /\ Nth(I, n) \in 1 .. Len(open)
        BY <1>3, <1>12
      <4>2. open[Nth(I, m)].id = open[Nth(I, n)].id
        BY <1>12, <3>1
      <4>3. Nth(I, m) = Nth(I, n)
        BY <4>1, <4>2 DEF OneEach
      <4> QED
        BY <1>7, <4>3 DEF a
    <3> QED
      BY <3>1
  <2>2. \A m, n \in 1 .. b : B[m].id = B[n].id => m = n
    <3>1. ASSUME NEW m \in 1 .. b, NEW n \in 1 .. b, B[m].id = B[n].id PROVE m = n
      <4>1. Nth(J, m) \in 1 .. Len(blocks) /\ Nth(J, n) \in 1 .. Len(blocks)
        BY <1>4, <1>13
      <4>2. blocks[Nth(J, m)].id = blocks[Nth(J, n)].id
        BY <1>13, <3>1
      <4>3. Nth(J, m) = Nth(J, n)
        BY <4>1, <4>2 DEF OneEach
      <4> QED
        BY <1>8, <4>3 DEF b
    <3> QED
      BY <3>1
  <2>3. \A m \in 1 .. a, n \in 1 .. b : A[m].id # B[n].id
    <3>1. ASSUME NEW m \in 1 .. a, NEW n \in 1 .. b, A[m].id = B[n].id
          PROVE  FALSE
      <4>1. open[Nth(I, m)].id = blocks[Nth(J, n)].id /\ Nth(I, m) \in 1 .. Len(open)
        BY <1>3, <1>12, <1>13, <3>1
      <4>2. Opened(blocks[Nth(J, n)].id)
        BY <4>1 DEF Opened
      <4> QED
        BY <1>4, <1>13, <4>2
    <3> QED
      BY <3>1
  <2>4. ASSUME NEW m \in 1 .. Len(K), NEW n \in 1 .. Len(K), K[m].id = K[n].id
        PROVE  m = n
    <3>1. CASE m \in 1 .. a /\ n \in 1 .. a
      BY <1>17, <2>1, <2>4, <3>1
    <3>2. CASE m \in 1 .. a /\ \E k \in 1 .. b : n = a + k
      BY <1>17, <1>18, <2>3, <2>4, <3>2
    <3>3. CASE n \in 1 .. a /\ \E k \in 1 .. b : m = a + k
      BY <1>17, <1>18, <2>3, <2>4, <3>3
    <3>4. CASE (\E k \in 1 .. b : m = a + k) /\ (\E k \in 1 .. b : n = a + k)
      BY <1>18, <2>2, <2>4, <3>4
    <3> QED
      BY <1>16, <1>19, <3>1, <3>2, <3>3, <3>4
  <2> QED
    BY <2>4 DEF OneEach
<1> QED
  BY <1>16, <1>20, <1>21, <1>22, <1>23 DEF K

\* What blocks cut short are open utterances, one of each element.
LEMMA CutFacts ==
    ASSUME TypeOK, OneEach(open), NEW blocks \in Seq(Blocks), OneEach(blocks)
    PROVE  /\ CutShort(blocks) \in Seq(Utterances) /\ OneEach(CutShort(blocks))
           /\ \A n \in 1 .. Len(CutShort(blocks)) :
                 \E j \in 1 .. Len(open), i \in 1 .. Len(blocks) :
                    /\ CutShort(blocks)[n] = open[j] /\ open[j].id = blocks[i].id
                    /\ blocks[i].text = Empty \/ Halved(open[j].text, blocks[i].text)
           /\ \A j \in 1 .. Len(open), i \in 1 .. Len(blocks) :
                 open[j].id = blocks[i].id
                 /\ (blocks[i].text = Empty \/ Halved(open[j].text, blocks[i].text))
                 => \E n \in 1 .. Len(CutShort(blocks)) : CutShort(blocks)[n] = open[j]
<1> DEFINE over(b) == Opened(b.id) /\ (b.text = Empty \/ Halved(Utterance(b.id).text, b.text))
           I == {i \in 1 .. Len(blocks) : over(blocks[i])}
           ended == Among(blocks, I)
           c == Cardinality(I)
           C == CutShort(blocks)
<1>1. C = [i \in 1 .. Len(ended) |-> Utterance(ended[i].id)]
  BY DEF CutShort
<1>2. I \in SUBSET (1 .. Len(blocks))
  OBVIOUS
<1>3. \A i \in 1 .. Len(blocks) : i \in I <=> over(blocks[i])
  OBVIOUS
<1>4. \A i \in I : /\ i \in 1 .. Len(blocks)
                   /\ \E j \in 1 .. Len(open) :
                        /\ open[j].id = blocks[i].id /\ Utterance(blocks[i].id) = open[j]
                        /\ blocks[i].text = Empty \/ Halved(open[j].text, blocks[i].text)
  <2>1. ASSUME NEW i \in I
        PROVE  \E j \in 1 .. Len(open) :
                        /\ open[j].id = blocks[i].id /\ Utterance(blocks[i].id) = open[j]
                        /\ blocks[i].text = Empty \/ Halved(open[j].text, blocks[i].text)
    <3>1. /\ Opened(blocks[i].id)
          /\ blocks[i].text = Empty \/ Halved(Utterance(blocks[i].id).text, blocks[i].text)
      BY <2>1
    <3> HIDE DEF I, over
    <3>2. PICK j \in 1 .. Len(open) : open[j].id = blocks[i].id
      BY <3>1, ByElement
    <3>3. Utterance(blocks[i].id) = open[j]
      BY <3>2, ByElement
    <3> QED
      BY <3>1, <3>2, <3>3
  <2> QED
    BY <1>2, <2>1
<1>5. \A j \in 1 .. Len(open), i \in 1 .. Len(blocks) :
          open[j].id = blocks[i].id
          /\ (blocks[i].text = Empty \/ Halved(open[j].text, blocks[i].text))
          => i \in I /\ Utterance(blocks[i].id) = open[j]
  <2>1. \A j \in 1 .. Len(open) : Opened(open[j].id) /\ Utterance(open[j].id) = open[j]
    BY ByElement
  <2> QED
    BY <2>1
<1> HIDE DEF over, I
<1>6. /\ Len(ended) = c /\ c \in Nat
      /\ \A n \in 1 .. c : Nth(I, n) \in I /\ ended[n] = blocks[Nth(I, n)]
      /\ \A m, n \in 1 .. c : Nth(I, m) = Nth(I, n) => m = n
      /\ \A i \in I : \E n \in 1 .. c : Nth(I, n) = i
  BY <1>2, AmongFacts
<1> HIDE DEF ended, C
<1>7. C = [n \in 1 .. c |-> Utterance(blocks[Nth(I, n)].id)]
  BY <1>1, <1>6
<1>8. \A j \in 1 .. Len(open) : open[j] \in Utterances
  BY ElementOfSeq DEF TypeOK
<1>9. \A n \in 1 .. c : C[n] = Utterance(blocks[Nth(I, n)].id) /\ Nth(I, n) \in I
  BY <1>6, <1>7
<1>10. \A n \in 1 .. c : C[n] \in Utterances /\ C[n].id = blocks[Nth(I, n)].id
  BY <1>4, <1>8, <1>9
<1>11. C \in Seq(Utterances) /\ Len(C) = c
  <2>1. C \in [1 .. c -> Utterances]
    BY <1>7, <1>9, <1>10
  <2> QED
    BY <1>6, <2>1
<1>12. OneEach(C)
  <2>1. ASSUME NEW m \in 1 .. c, NEW n \in 1 .. c, C[m].id = C[n].id PROVE m = n
    <3>1. Nth(I, m) \in 1 .. Len(blocks) /\ Nth(I, n) \in 1 .. Len(blocks)
      BY <1>4, <1>9
    <3>2. blocks[Nth(I, m)].id = blocks[Nth(I, n)].id
      BY <1>10, <2>1
    <3>3. Nth(I, m) = Nth(I, n)
      BY <3>1, <3>2 DEF OneEach
    <3> QED
      BY <1>6, <3>3
  <2> QED
    BY <1>11, <2>1 DEF OneEach
<1>13. \A n \in 1 .. Len(C) :
                 \E j \in 1 .. Len(open), i \in 1 .. Len(blocks) :
                    /\ C[n] = open[j] /\ open[j].id = blocks[i].id
                    /\ blocks[i].text = Empty \/ Halved(open[j].text, blocks[i].text)
  BY <1>4, <1>9, <1>11
<1>14. ASSUME NEW j \in 1 .. Len(open), NEW i \in 1 .. Len(blocks), open[j].id = blocks[i].id,
              blocks[i].text = Empty \/ Halved(open[j].text, blocks[i].text)
       PROVE  \E n \in 1 .. Len(C) : C[n] = open[j]
  <2>1. i \in I /\ Utterance(blocks[i].id) = open[j]
    BY <1>5, <1>14
  <2>2. PICK n \in 1 .. c : Nth(I, n) = i
    BY <1>6, <2>1
  <2> QED
    BY <1>9, <1>11, <2>1, <2>2
<1> QED
  BY <1>11, <1>12, <1>13, <1>14 DEF C

-----------------------------------------------------------------------------
(***************************************************************************)
(* The inductive invariant.                                                *)
(***************************************************************************)
Heard(t) == seen[t].len # 0

\* No turn is in two of them.
OneOfTurn(seq) ==
    \A i, j \in 1 .. Len(seq) : seq[i].text # Empty /\ seq[i].text.turn = seq[j].text.turn => i = j

\* What is known of elements and turns is among those there have been.
ScreenInv ==
    /\ OneEach(dom) /\ OneOfTurn(dom)
    /\ \A i \in 1 .. Len(dom) : dom[i].id <= ids /\ dom[i].text.turn <= turns
    /\ \A i \in 1 .. Len(open) : open[i].id <= ids
    /\ \A id \in done : id <= ids
    /\ \A t \in Turns : Heard(t) => t <= turns

\* An open utterance has the last text read of its turn, and nobody has said it.
OpenInv ==
    /\ OneEach(open) /\ OneOfTurn(open)
    /\ \A i \in 1 .. Len(open) :
          /\ open[i].id \notin done
          /\ ~Said(open[i].text.turn)
          /\ seen[open[i].text.turn] = [at |-> open[i].first, len |-> open[i].text.len]

HintInv ==
    /\ OneOfTurn(hints)
    /\ \A i \in 1 .. Len(hints) : seen[hints[i].text.turn].len = hints[i].text.len
    /\ prev = IF hints = <<>> THEN 0 ELSE hints[Len(hints)].offset

\* A turn that was read is said or open.
HeardInv ==
    \A t \in Turns : Heard(t) => Said(t) \/ \E i \in 1 .. Len(open) : open[i].text.turn = t

\* Block b can be read as utterance u going on.
Follows(b, u) ==
    /\ u.id = b.id /\ u.text.turn = b.text.turn
    /\ 2 * b.text.len >= Long \/ b.text.len >= u.text.len

\* What the next poll will make of a block: an element that is cleared and was read
\* since is free; a new turn is short and, where an utterance is open, starts it
\* afresh; a turn that was read goes on, or it is final, and then its block is not
\* the last.
BlockOk(b, last) ==
    /\ b.text = Empty => b.id \in unread \/ (b.id \notin done /\ ~Opened(b.id))
    /\ b.text # Empty /\ ~Heard(b.text.turn) =>
          /\ b.id \notin done
          /\ \A j \in 1 .. Len(open) : open[j].id = b.id =>
                b.id \in unread /\ b.text.len = 1 /\ open[j].text.len = Long
    /\ b.text # Empty /\ Heard(b.text.turn) =>
          \/ \E j \in 1 .. Len(open) : Follows(b, open[j])
          \/ b.id \in done /\ Said(b.text.turn) /\ ~last

BlocksOk(blocks) == \A i \in 1 .. Len(blocks) : BlockOk(blocks[i], i = Len(blocks))

IInv ==
    /\ TypeOK /\ ScreenInv /\ OpenInv /\ HintInv /\ HeardInv /\ HintsInOrder
    /\ running => BlocksOk(dom)
    /\ ~running => open = <<>>

-----------------------------------------------------------------------------
(***************************************************************************)
(* One fold.                                                               *)
(***************************************************************************)

\* The state in which blocks are folded: those on screen, or none.
Ready(blocks) ==
    /\ TypeOK /\ now' \in Times /\ OpenInv /\ HintInv /\ HeardInv
    /\ blocks \in Seq(Blocks) /\ OneEach(blocks) /\ OneOfTurn(blocks) /\ BlocksOk(blocks)

\* A text is not the empty one, and its parts are in their bounds.
LEMMA OfText ==
    ASSUME NEW x \in Texts
    PROVE  x # Empty /\ x.turn \in Turns /\ x.len \in Nat /\ 1 <= x.len /\ x.len <= Long
           /\ x = [turn |-> x.turn, len |-> x.len]
  BY BoundsAssumption DEF Texts, Empty, Turns

\* Utterances, blocks and hints have their types, one by one.
LEMMA Typed ==
    ASSUME TypeOK, NEW blocks \in Seq(Blocks)
    PROVE  /\ \A j \in 1 .. Len(open) : open[j] \in Utterances /\ open[j].text \in Texts
                                        /\ open[j].first \in Times /\ open[j].id \in Ids
           /\ \A i \in 1 .. Len(blocks) : blocks[i] \in Blocks /\ blocks[i].id \in Ids
                  /\ (blocks[i].text \in Texts \/ blocks[i].text = Empty)
           /\ \A i \in 1 .. Len(hints) : hints[i].text \in Texts /\ hints[i].offset \in Times
<1>1. \A j \in 1 .. Len(open) : open[j] \in Utterances
  BY ElementOfSeq DEF TypeOK
<1>2. \A i \in 1 .. Len(blocks) : blocks[i] \in Blocks
  BY ElementOfSeq
<1>3. \A i \in 1 .. Len(hints) : hints[i] \in [text : Texts, offset : Times]
  BY ElementOfSeq DEF TypeOK
<1> QED
  BY <1>1, <1>2, <1>3 DEF Utterances, Blocks

\* Only what was read is said.
LEMMA SaidWasHeard ==
    ASSUME TypeOK, HintInv, NEW t, Said(t)
    PROVE  Heard(t)
<1>1. PICK k \in 1 .. Len(hints) : hints[k].text.turn = t
  BY DEF Said
<1>2. hints[k].text.len # 0
  <2>1. hints \in Seq([text : Texts, offset : Times])
    BY DEF TypeOK
  <2>2. hints[k] \in [text : Texts, offset : Times]
    BY <2>1, ElementOfSeq
  <2> QED
    BY <2>2, OfText
<1> QED
  BY <1>1, <1>2 DEF HintInv, Heard

\* What the history makes of a block, of a turn no block has, of a turn that is said.
LEMMA SeenFacts ==
    ASSUME NEW blocks, Ready(blocks), seen' = SeenAfter(blocks)
    PROVE  /\ \A i \in 1 .. Len(blocks) :
                blocks[i].text # Empty /\ ~Said(blocks[i].text.turn) =>
                    /\ ~Heard(blocks[i].text.turn) =>
                           seen'[blocks[i].text.turn] = [at |-> now', len |-> blocks[i].text.len]
                    /\ Heard(blocks[i].text.turn) =>
                           seen'[blocks[i].text.turn] = [at |-> seen[blocks[i].text.turn].at,
                                                         len |-> blocks[i].text.len]
           /\ \A t \in Turns :
                (\A i \in 1 .. Len(blocks) : blocks[i].text.turn # t) => seen'[t] = seen[t]
           /\ \A t \in Turns : Said(t) => seen'[t] = seen[t]
           /\ seen' \in [Turns -> [at : Times, len : 0 .. Long]]
<1> DEFINE shown(t) == {i \in 1 .. Len(blocks) : blocks[i].text.turn = t /\ (i = Len(blocks) \/ ~Said(t))}
           after(t) == [at |-> IF seen[t].len = 0 THEN now' ELSE seen[t].at,
                        len |-> blocks[CHOOSE i \in shown(t) : TRUE].text.len]
<1>1. \A t \in Turns : seen'[t] = IF shown(t) = {} THEN seen[t] ELSE after(t)
  BY DEF Ready, SeenAfter
<1>2. \A i \in 1 .. Len(blocks) : blocks[i].text \in Texts \/ blocks[i].text = Empty
  BY Typed DEF Ready
<1>3. ASSUME NEW t \in Turns, Said(t)
      PROVE  shown(t) = {}
  <2>1. Heard(t)
    BY <1>3, SaidWasHeard DEF Ready
  <2>2. ASSUME NEW i \in shown(t)
        PROVE  FALSE
    <3>1. i \in 1 .. Len(blocks) /\ i = Len(blocks) /\ blocks[i].text.turn = t
      BY <1>3, <2>2
    <3>2. blocks[i].text # Empty
      BY <3>1 DEF Empty, Turns
    <3>3. PICK j \in 1 .. Len(open) : Follows(blocks[i], open[j])
      BY <2>1, <3>1, <3>2 DEF Ready, BlocksOk, BlockOk
    <3>4. Said(open[j].text.turn)
      BY <1>3, <3>1, <3>3 DEF Follows
    <3> QED
      BY <3>4 DEF Ready, OpenInv
  <2> QED
    BY <2>2
<1>4. ASSUME NEW i \in 1 .. Len(blocks), blocks[i].text # Empty, ~Said(blocks[i].text.turn)
      PROVE  shown(blocks[i].text.turn) = {i} /\ blocks[i].text.turn \in Turns
  <2>1. blocks[i].text.turn \in Turns
    BY <1>2, <1>4, OfText
  <2>2. \A j \in 1 .. Len(blocks) : blocks[j].text.turn = blocks[i].text.turn <=> j = i
    BY <1>4 DEF Ready, OneOfTurn
  <2> QED
    BY <1>4, <2>1, <2>2
<1>5. ASSUME NEW i \in 1 .. Len(blocks), blocks[i].text # Empty, ~Said(blocks[i].text.turn)
      PROVE  seen'[blocks[i].text.turn] = [at |-> IF Heard(blocks[i].text.turn)
                                                    THEN seen[blocks[i].text.turn].at ELSE now',
                                           len |-> blocks[i].text.len]
  <2>1. shown(blocks[i].text.turn) = {i} /\ blocks[i].text.turn \in Turns
    BY <1>4, <1>5
  <2> DEFINE t == blocks[i].text.turn
  <2>2. seen'[t] = after(t)
    BY <1>1, <2>1
  <2>3. (CHOOSE k \in shown(t) : TRUE) = i
    BY <2>1
  <2> QED
    BY <2>2, <2>3 DEF Heard
<1>6. ASSUME NEW t \in Turns, \A i \in 1 .. Len(blocks) : blocks[i].text.turn # t
      PROVE  seen'[t] = seen[t]
  BY <1>1, <1>6
<1>7. seen' \in [Turns -> [at : Times, len : 0 .. Long]]
  <2>1. ASSUME NEW t \in Turns
        PROVE  (IF shown(t) = {} THEN seen[t] ELSE after(t)) \in [at : Times, len : 0 .. Long]
    <3>1. seen[t] \in [at : Times, len : 0 .. Long]
      BY DEF Ready, TypeOK
    <3>2. CASE shown(t) # {}
      <4>1. (CHOOSE i \in shown(t) : TRUE) \in 1 .. Len(blocks)
        BY <3>2
      <4>2. \A i \in 1 .. Len(blocks) : blocks[i].text.len \in 0 .. Long
        <5>1. Empty.len \in 0 .. Long
          BY BoundsAssumption DEF Empty
        <5> QED
          BY <1>2, <5>1, OfText
      <4>3. now' \in Times
        BY DEF Ready
      <4> HIDE DEF shown
      <4> QED
        BY <3>1, <3>2, <4>1, <4>2, <4>3
    <3> QED
      BY <3>1, <3>2
  <2>2. seen' = [t \in Turns |-> IF shown(t) = {} THEN seen[t] ELSE after(t)]
    BY DEF SeenAfter
  <2> HIDE DEF shown, after
  <2> QED
    BY <2>1, <2>2
<1> HIDE DEF shown, after
<1>8. \A t \in Turns : Said(t) => seen'[t] = seen[t]
  BY <1>1, <1>3
<1> QED
  BY <1>5, <1>6, <1>7, <1>8

\* Whatever block an open utterance has: it follows it, or it ends it, and then its
\* turn is on no block.
LEMMA OpenFacts ==
    ASSUME NEW blocks, Ready(blocks), NEW j \in 1 .. Len(open)
    PROVE  /\ Heard(open[j].text.turn)
           /\ \A i \in 1 .. Len(blocks) : blocks[i].text.turn = open[j].text.turn => Follows(blocks[i], open[j])
           /\ \A i \in 1 .. Len(blocks) : blocks[i].id = open[j].id =>
                \/ blocks[i].text = Empty
                \/ ~Heard(blocks[i].text.turn) /\ Halved(open[j].text, blocks[i].text)
                \/ Follows(blocks[i], open[j]) /\ ~Halved(open[j].text, blocks[i].text)
<1>1. open[j].text \in Texts
  BY Typed DEF Ready
<1>2. Heard(open[j].text.turn)
  <2>1. seen[open[j].text.turn] = [at |-> open[j].first, len |-> open[j].text.len]
    BY DEF Ready, OpenInv
  <2>2. open[j].text.len # 0
    BY <1>1, OfText
  <2> QED
    BY <2>1, <2>2 DEF Heard
<1>3. \A i \in 1 .. Len(blocks) : blocks[i].text \in Texts \/ blocks[i].text = Empty
  BY Typed DEF Ready
<1>4. ASSUME NEW i \in 1 .. Len(blocks), blocks[i].text.turn = open[j].text.turn
      PROVE  Follows(blocks[i], open[j])
  <2>1. blocks[i].text # Empty
    BY <1>1, <1>4, OfText DEF Empty, Turns
  <2>2. ~Said(open[j].text.turn)
    BY DEF Ready, OpenInv
  <2>3. PICK k \in 1 .. Len(open) : Follows(blocks[i], open[k])
    BY <1>2, <1>4, <2>1, <2>2 DEF Ready, BlocksOk, BlockOk
  <2>4. k = j
    BY <1>1, <1>4, <2>3, OfText DEF Ready, OpenInv, OneOfTurn, Follows
  <2> QED
    BY <2>3, <2>4
<1>5. ASSUME NEW i \in 1 .. Len(blocks), blocks[i].id = open[j].id, blocks[i].text # Empty
      PROVE  \/ ~Heard(blocks[i].text.turn) /\ Halved(open[j].text, blocks[i].text)
             \/ Follows(blocks[i], open[j]) /\ ~Halved(open[j].text, blocks[i].text)
  <2>1. blocks[i].text \in Texts
    BY <1>3, <1>5
  <2>2. CASE ~Heard(blocks[i].text.turn)
    <3>1. blocks[i].text.len = 1 /\ open[j].text.len = Long
      BY <1>5, <2>2 DEF Ready, BlocksOk, BlockOk
    <3> QED
      BY <2>2, <3>1, BoundsAssumption DEF Halved
  <2>3. CASE Heard(blocks[i].text.turn)
    <3>1. open[j].id \notin done
      BY DEF Ready, OpenInv
    <3>2. PICK k \in 1 .. Len(open) : Follows(blocks[i], open[k])
      BY <1>5, <2>3, <3>1 DEF Ready, BlocksOk, BlockOk
    <3>3. k = j
      BY <1>5, <3>2 DEF Ready, OpenInv, OneEach, Follows
    <3>4. 2 * blocks[i].text.len >= Long \/ blocks[i].text.len >= open[j].text.len
      BY <3>2, <3>3 DEF Follows
    <3>5. blocks[i].text.len \in Nat /\ open[j].text.len \in Nat /\ open[j].text.len <= Long /\ Long \in Nat
      BY <1>1, <2>1, OfText, BoundsAssumption
    <3>6. ~(blocks[i].text.len * 2 < open[j].text.len)
      BY <3>4, <3>5
    <3> QED
      BY <3>2, <3>3, <3>6 DEF Halved
  <2> QED
    BY <2>2, <2>3
<1> QED
  BY <1>2, <1>4, <1>5

\* An open utterance that is not cut short: its turn goes on, or a new one starts it
\* afresh.
LEMMA UpdatedFacts ==
    ASSUME NEW blocks, Ready(blocks), seen' = SeenAfter(blocks),
           NEW j \in 1 .. Len(open), open[j].id \notin Cleared(blocks)
    PROVE  LET u == Updated(open[j], blocks) IN
           /\ u.id = open[j].id /\ u.text \in Texts /\ ~Said(u.text.turn)
           /\ seen'[u.text.turn] = [at |-> u.first, len |-> u.text.len]
           /\ \A i \in 1 .. Len(blocks) : blocks[i].id = open[j].id => u.text = blocks[i].text
           /\ \/ /\ u.text.turn = open[j].text.turn
                 /\ \A i \in 1 .. Len(blocks) : blocks[i].id = open[j].id =>
                       blocks[i].text # Empty /\ ~Halved(open[j].text, blocks[i].text)
              \/ /\ ~Heard(u.text.turn)
                 /\ \E i \in 1 .. Len(blocks) : /\ blocks[i].id = open[j].id /\ blocks[i].text = u.text
                                                /\ Halved(open[j].text, u.text)
<1> DEFINE u == Updated(open[j], blocks)
<1>1. TypeOK /\ now' \in Times /\ OneEach(open) /\ blocks \in Seq(Blocks) /\ OneEach(blocks)
  BY DEF Ready, OpenInv
<1>2. u \in Utterances /\ u.id = open[j].id
  BY <1>1, UpdatedType
<1>3. u.text \in Texts
  BY <1>2 DEF Utterances
<1>4. open[j] \in Utterances /\ open[j].text \in Texts
  BY <1>1, Typed
<1>5. /\ ~Said(open[j].text.turn)
      /\ seen[open[j].text.turn] = [at |-> open[j].first, len |-> open[j].text.len]
  BY DEF Ready, OpenInv
<1>6. CASE \A i \in 1 .. Len(blocks) : blocks[i].id # open[j].id
  <2>1. u = open[j]
    BY <1>1, <1>6, ByElement DEF Updated
  <2>2. \A i \in 1 .. Len(blocks) : blocks[i].text.turn # open[j].text.turn
    BY <1>6, OpenFacts DEF Follows
  <2>3. open[j].text.turn \in Turns
    BY <1>4, OfText
  <2>4. seen'[open[j].text.turn] = seen[open[j].text.turn]
    BY <2>2, <2>3, SeenFacts
  <2> QED
    BY <1>2, <1>3, <1>5, <1>6, <2>1, <2>4
<1>7. ASSUME NEW i \in 1 .. Len(blocks), blocks[i].id = open[j].id
      PROVE  /\ ~Said(u.text.turn)
             /\ seen'[u.text.turn] = [at |-> u.first, len |-> u.text.len]
             /\ u.text = blocks[i].text
             /\ \/ /\ u.text.turn = open[j].text.turn
                   /\ blocks[i].text # Empty /\ ~Halved(open[j].text, blocks[i].text)
                \/ ~Heard(u.text.turn) /\ Halved(open[j].text, u.text)
  <2>1. blocks[i].text # Empty /\ blocks[i].text \in Texts
    BY <1>1, <1>7, ByElement, Typed
  <2>2. open[j].id \in IdsOf(blocks) /\ TextOf(blocks, open[j].id) = blocks[i].text
    BY <1>1, <1>7, ByElement
  <2>3. u = IF blocks[i].text = open[j].text THEN open[j]
            ELSE [open[j] EXCEPT !.text = blocks[i].text, !.changed = now',
                                 !.first = IF Halved(open[j].text, blocks[i].text) THEN now' ELSE @]
    BY <2>2 DEF Updated
  <2>4. /\ u.text = blocks[i].text
        /\ u.first = IF Halved(open[j].text, blocks[i].text) THEN now' ELSE open[j].first
    <3>1. open[j] \in [id : Ids, text : Texts, first : Times, changed : Times]
      BY <1>4 DEF Utterances
    <3> HIDE DEF u
    <3>2. CASE blocks[i].text = open[j].text
      BY <2>3, <3>2 DEF Halved
    <3>3. CASE blocks[i].text # open[j].text
      BY <2>3, <3>1, <3>3
    <3> QED
      BY <3>2, <3>3
  <2> HIDE DEF u
  <2>5. CASE ~Heard(blocks[i].text.turn) /\ Halved(open[j].text, blocks[i].text)
    <3>1. ~Said(blocks[i].text.turn)
      BY <2>5, SaidWasHeard DEF Ready
    <3>2. seen'[blocks[i].text.turn] = [at |-> now', len |-> blocks[i].text.len]
      BY <2>1, <2>5, <3>1, SeenFacts
    <3> QED
      BY <2>4, <2>5, <3>1, <3>2
  <2>6. CASE Follows(blocks[i], open[j]) /\ ~Halved(open[j].text, blocks[i].text)
    <3>1. blocks[i].text.turn = open[j].text.turn
      BY <2>6 DEF Follows
    <3>2. Heard(open[j].text.turn)
      BY OpenFacts
    <3>3. seen'[blocks[i].text.turn] = [at |-> seen[blocks[i].text.turn].at, len |-> blocks[i].text.len]
      BY <1>5, <2>1, <3>1, <3>2, SeenFacts
    <3>4. seen[blocks[i].text.turn].at = open[j].first
      BY <1>5, <3>1
    <3> QED
      BY <1>5, <2>1, <2>4, <2>6, <3>1, <3>3, <3>4
  <2>7. \/ ~Heard(blocks[i].text.turn) /\ Halved(open[j].text, blocks[i].text)
        \/ Follows(blocks[i], open[j]) /\ ~Halved(open[j].text, blocks[i].text)
    BY <1>7, <2>1, OpenFacts
  <2> QED
    BY <2>5, <2>6, <2>7
<1>8. CASE \E i \in 1 .. Len(blocks) : blocks[i].id = open[j].id
  <2>1. PICK i \in 1 .. Len(blocks) : blocks[i].id = open[j].id
    BY <1>8
  <2>2. \A k \in 1 .. Len(blocks) : blocks[k].id = open[j].id => k = i
    BY <2>1 DEF Ready, OneEach
  <2>3. /\ ~Said(u.text.turn)
        /\ seen'[u.text.turn] = [at |-> u.first, len |-> u.text.len]
        /\ u.text = blocks[i].text
        /\ \/ /\ u.text.turn = open[j].text.turn
              /\ blocks[i].text # Empty /\ ~Halved(open[j].text, blocks[i].text)
           \/ ~Heard(u.text.turn) /\ Halved(open[j].text, u.text)
    BY <1>7, <2>1
  <2> HIDE DEF u
  <2>4. /\ \A k \in 1 .. Len(blocks) : blocks[k].id = open[j].id => u.text = blocks[k].text
        /\ \/ /\ u.text.turn = open[j].text.turn
              /\ \A k \in 1 .. Len(blocks) : blocks[k].id = open[j].id =>
                    blocks[k].text # Empty /\ ~Halved(open[j].text, blocks[k].text)
           \/ /\ ~Heard(u.text.turn)
              /\ \E k \in 1 .. Len(blocks) : /\ blocks[k].id = open[j].id /\ blocks[k].text = u.text
                                             /\ Halved(open[j].text, u.text)
    BY <2>1, <2>2, <2>3
  <2> QED
    BY <1>2, <1>3, <2>3, <2>4 DEF u
<1> QED
  BY <1>6, <1>8

\* A new block starts a turn that was not read before.
LEMMA FreshFacts ==
    ASSUME NEW blocks, Ready(blocks), seen' = SeenAfter(blocks),
           NEW i \in 1 .. Len(blocks), IsNew(blocks[i])
    PROVE  LET u == Fresh(blocks[i]) IN
           /\ u.id = blocks[i].id /\ u.text = blocks[i].text /\ u.text \in Texts
           /\ ~Heard(u.text.turn) /\ ~Said(u.text.turn) /\ u.id \notin done
           /\ seen'[u.text.turn] = [at |-> u.first, len |-> u.text.len]
<1>1. blocks[i].text # Empty /\ ~Opened(blocks[i].id) /\ blocks[i].id \notin done
  BY DEF IsNew
<1>2. blocks[i].text \in Texts
  BY <1>1, Typed DEF Ready
<1>3. ~Heard(blocks[i].text.turn)
  BY <1>1 DEF Ready, BlocksOk, BlockOk, Follows, Opened
<1>4. ~Said(blocks[i].text.turn)
  BY <1>3, SaidWasHeard DEF Ready
<1>5. seen'[blocks[i].text.turn] = [at |-> now', len |-> blocks[i].text.len]
  BY <1>1, <1>3, <1>4, SeenFacts
<1> QED
  BY <1>1, <1>2, <1>3, <1>4, <1>5 DEF Fresh

\* What the history says of an utterance that is neither said nor of a past block.
Told(u) ==
    /\ u.text \in Texts /\ ~Said(u.text.turn)
    /\ seen'[u.text.turn] = [at |-> u.first, len |-> u.text.len]

\* An open utterance a block ends.
CutBy(u, b) == u.id = b.id /\ (b.text = Empty \/ Halved(u.text, b.text))

\* Every utterance kept goes on with an open one or starts an unheard turn.
LEMMA KeptTold ==
    ASSUME NEW blocks, Ready(blocks), seen' = SeenAfter(blocks), NEW n \in 1 .. Len(Kept(blocks))
    PROVE  LET u == Kept(blocks)[n] IN
           /\ Told(u) /\ u.id \notin done /\ u.id \notin Cleared(blocks)
           /\ \/ \E j \in 1 .. Len(open) :
                    /\ u.id = open[j].id /\ u.text.turn = open[j].text.turn
                    /\ \A i \in 1 .. Len(blocks) : ~CutBy(open[j], blocks[i])
              \/ /\ ~Heard(u.text.turn)
                 /\ \E i \in 1 .. Len(blocks) : u.id = blocks[i].id /\ u.text = blocks[i].text
           /\ (\E j \in 1 .. Len(open) : u.id = open[j].id) \/ (\E i \in 1 .. Len(blocks) : u.id = blocks[i].id)
<1> DEFINE u == Kept(blocks)[n]
<1>1. TypeOK /\ now' \in Times /\ OneEach(open) /\ blocks \in Seq(Blocks) /\ OneEach(blocks)
  BY DEF Ready, OpenInv
<1>2. \/ \E j \in 1 .. Len(open) : open[j].id \notin Cleared(blocks) /\ u = Updated(open[j], blocks)
      \/ \E i \in 1 .. Len(blocks) : IsNew(blocks[i]) /\ u = Fresh(blocks[i])
  BY <1>1, KeptFacts
<1> HIDE DEF u
<1>3. ASSUME NEW j \in 1 .. Len(open), open[j].id \notin Cleared(blocks), u = Updated(open[j], blocks)
      PROVE  /\ Told(u) /\ u.id \notin done /\ u.id \notin Cleared(blocks) /\ u.id = open[j].id
             /\ \/ /\ u.text.turn = open[j].text.turn
                   /\ \A i \in 1 .. Len(blocks) : ~CutBy(open[j], blocks[i])
                \/ /\ ~Heard(u.text.turn)
                   /\ \E i \in 1 .. Len(blocks) : u.id = blocks[i].id /\ u.text = blocks[i].text
  <2>1. open[j].id \notin done
    BY DEF Ready, OpenInv
  <2>2. /\ u.id = open[j].id /\ u.text \in Texts /\ ~Said(u.text.turn)
        /\ seen'[u.text.turn] = [at |-> u.first, len |-> u.text.len]
        /\ \/ /\ u.text.turn = open[j].text.turn
              /\ \A i \in 1 .. Len(blocks) : blocks[i].id = open[j].id =>
                    blocks[i].text # Empty /\ ~Halved(open[j].text, blocks[i].text)
           \/ /\ ~Heard(u.text.turn)
              /\ \E i \in 1 .. Len(blocks) : /\ blocks[i].id = open[j].id /\ blocks[i].text = u.text
                                             /\ Halved(open[j].text, u.text)
    BY <1>3, UpdatedFacts
  <2> QED
    BY <1>3, <2>1, <2>2 DEF Told, CutBy
<1>4. ASSUME NEW i \in 1 .. Len(blocks), IsNew(blocks[i]), u = Fresh(blocks[i])
      PROVE  /\ Told(u) /\ u.id \notin done /\ u.id \notin Cleared(blocks)
             /\ ~Heard(u.text.turn) /\ u.id = blocks[i].id /\ u.text = blocks[i].text
  <2>1. /\ u.id = blocks[i].id /\ u.text = blocks[i].text /\ u.text \in Texts
        /\ ~Heard(u.text.turn) /\ ~Said(u.text.turn) /\ u.id \notin done
        /\ seen'[u.text.turn] = [at |-> u.first, len |-> u.text.len]
    BY <1>4, FreshFacts
  <2>2. \A k \in 1 .. Len(blocks) : blocks[k].id = u.id => blocks[k].text # Empty
    BY <1>1, <1>4, <2>1 DEF OneEach, IsNew
  <2>3. u.id \notin Cleared(blocks)
    BY <1>1, <2>2, ByElement
  <2> QED
    BY <2>1, <2>3 DEF Told
<1>5. CASE \E j \in 1 .. Len(open) : open[j].id \notin Cleared(blocks) /\ u = Updated(open[j], blocks)
  <2>1. PICK j \in 1 .. Len(open) : open[j].id \notin Cleared(blocks) /\ u = Updated(open[j], blocks)
    BY <1>5
  <2> QED
    BY <1>3, <2>1 DEF u
<1>6. CASE \E i \in 1 .. Len(blocks) : IsNew(blocks[i]) /\ u = Fresh(blocks[i])
  <2>1. PICK i \in 1 .. Len(blocks) : IsNew(blocks[i]) /\ u = Fresh(blocks[i])
    BY <1>6
  <2> QED
    BY <1>4, <2>1 DEF u
<1> QED
  BY <1>2, <1>5, <1>6

\* What is cut short is told too; its turn is on no block.
LEMMA CutTold ==
    ASSUME NEW blocks, Ready(blocks), seen' = SeenAfter(blocks), NEW n \in 1 .. Len(CutShort(blocks))
    PROVE  /\ Told(CutShort(blocks)[n])
           /\ \E j \in 1 .. Len(open) : /\ CutShort(blocks)[n] = open[j]
                                        /\ \E i \in 1 .. Len(blocks) : CutBy(open[j], blocks[i])
<1> DEFINE u == CutShort(blocks)[n]
<1>1. TypeOK /\ OneEach(open) /\ blocks \in Seq(Blocks) /\ OneEach(blocks)
  BY DEF Ready, OpenInv
<1>2. \E j \in 1 .. Len(open), i \in 1 .. Len(blocks) :
          /\ u = open[j] /\ open[j].id = blocks[i].id
          /\ blocks[i].text = Empty \/ Halved(open[j].text, blocks[i].text)
  BY <1>1, CutFacts
<1> HIDE DEF u
<1>3. PICK j \in 1 .. Len(open), i \in 1 .. Len(blocks) :
          /\ u = open[j] /\ open[j].id = blocks[i].id
          /\ blocks[i].text = Empty \/ Halved(open[j].text, blocks[i].text)
  BY <1>2
<1>4. open[j].text \in Texts /\ open[j].text.turn \in Turns
  BY <1>1, Typed, OfText
<1>5. ASSUME NEW k \in 1 .. Len(blocks), blocks[k].text.turn = open[j].text.turn
      PROVE  FALSE
  <2>1. Follows(blocks[k], open[j])
    BY <1>5, OpenFacts
  <2>2. k = i
    BY <1>3, <2>1 DEF Follows, Ready, OneEach
  <2>3. blocks[i].text # Empty
    BY <1>4, <1>5, <2>2 DEF Empty, Turns
  <2>4. Heard(blocks[i].text.turn)
    BY <1>5, <2>2, OpenFacts
  <2> QED
    BY <1>3, <2>3, <2>4, OpenFacts
<1>6. seen'[open[j].text.turn] = seen[open[j].text.turn]
  BY <1>4, <1>5, SeenFacts
<1>7. ~Said(open[j].text.turn) /\ seen[open[j].text.turn] = [at |-> open[j].first, len |-> open[j].text.len]
  BY DEF Ready, OpenInv
<1>8. Told(u)
  BY <1>3, <1>4, <1>6, <1>7 DEF Told
<1>9. CutBy(open[j], blocks[i])
  BY <1>3 DEF CutBy
<1> QED
  BY <1>3, <1>8, <1>9 DEF u

\* No turn is in two of the utterances kept and cut short.
LEMMA TurnsApart ==
    ASSUME NEW blocks, Ready(blocks), seen' = SeenAfter(blocks)
    PROVE  LET kept == Kept(blocks)
               cut  == CutShort(blocks)
           IN  /\ \A m, n \in 1 .. Len(kept) : kept[m].text.turn = kept[n].text.turn => m = n
               /\ \A m, n \in 1 .. Len(cut) : cut[m].text.turn = cut[n].text.turn => m = n
               /\ \A m \in 1 .. Len(kept), n \in 1 .. Len(cut) : kept[m].text.turn # cut[n].text.turn
<1> DEFINE kept == Kept(blocks)
           cut  == CutShort(blocks)
<1>1. /\ TypeOK /\ now' \in Times /\ OneEach(open) /\ blocks \in Seq(Blocks) /\ OneEach(blocks)
      /\ OneOfTurn(open) /\ OneOfTurn(blocks)
  BY DEF Ready, OpenInv
<1>2. OneEach(kept)
  BY <1>1, KeptFacts
<1>3. OneEach(cut)
  BY <1>1, CutFacts
<1>4. \A n \in 1 .. Len(kept) :
          \/ \E j \in 1 .. Len(open) :
                    /\ kept[n].id = open[j].id /\ kept[n].text.turn = open[j].text.turn
                    /\ \A i \in 1 .. Len(blocks) : ~CutBy(open[j], blocks[i])
          \/ /\ ~Heard(kept[n].text.turn)
             /\ \E i \in 1 .. Len(blocks) : kept[n].id = blocks[i].id /\ kept[n].text = blocks[i].text
  <2>1. ASSUME NEW n \in 1 .. Len(Kept(blocks))
        PROVE  \/ \E j \in 1 .. Len(open) :
                    /\ Kept(blocks)[n].id = open[j].id /\ Kept(blocks)[n].text.turn = open[j].text.turn
                    /\ \A i \in 1 .. Len(blocks) : ~CutBy(open[j], blocks[i])
               \/ /\ ~Heard(Kept(blocks)[n].text.turn)
                  /\ \E i \in 1 .. Len(blocks) :
                        Kept(blocks)[n].id = blocks[i].id /\ Kept(blocks)[n].text = blocks[i].text
    BY KeptTold
  <2> QED
    BY <2>1
<1>5. \A n \in 1 .. Len(cut) : \E j \in 1 .. Len(open) :
          cut[n] = open[j] /\ \E i \in 1 .. Len(blocks) : CutBy(open[j], blocks[i])
  BY CutTold
<1>6. \A n \in 1 .. Len(kept) : kept[n].text \in Texts /\ kept[n].text # Empty
  <2>1. \A n \in 1 .. Len(kept) : kept[n].text \in Texts
    BY KeptTold DEF Told
  <2> QED
    BY <2>1, OfText
<1>7. \A j \in 1 .. Len(open) : Heard(open[j].text.turn) /\ open[j].text # Empty
  BY <1>1, OpenFacts, Typed, OfText
<1>8. \A j, k \in 1 .. Len(open) : open[j].text.turn = open[k].text.turn => j = k
  BY <1>1, <1>7 DEF OneOfTurn
<1> HIDE DEF kept, cut
<1>9. ASSUME NEW m \in 1 .. Len(kept), NEW n \in 1 .. Len(kept), kept[m].text.turn = kept[n].text.turn
      PROVE  m = n
  <2>1. kept[m].id = kept[n].id
    <3>1. CASE Heard(kept[m].text.turn)
      <4>1. PICK j \in 1 .. Len(open) : kept[m].id = open[j].id /\ kept[m].text.turn = open[j].text.turn
        BY <1>4, <3>1
      <4>2. PICK k \in 1 .. Len(open) : kept[n].id = open[k].id /\ kept[n].text.turn = open[k].text.turn
        BY <1>4, <1>9, <3>1
      <4> QED
        BY <1>8, <1>9, <4>1, <4>2
    <3>2. CASE ~Heard(kept[m].text.turn)
      <4>1. PICK j \in 1 .. Len(blocks) : kept[m].id = blocks[j].id /\ kept[m].text = blocks[j].text
        BY <1>4, <1>7, <3>2
      <4>2. PICK k \in 1 .. Len(blocks) : kept[n].id = blocks[k].id /\ kept[n].text = blocks[k].text
        BY <1>4, <1>7, <1>9, <3>2
      <4>3. j = k
        BY <1>1, <1>6, <1>9, <4>1, <4>2 DEF OneOfTurn
      <4> QED
        BY <4>1, <4>2, <4>3
    <3> QED
      BY <3>1, <3>2
  <2> QED
    BY <1>2, <2>1 DEF OneEach
<1>10. ASSUME NEW m \in 1 .. Len(cut), NEW n \in 1 .. Len(cut), cut[m].text.turn = cut[n].text.turn
      PROVE  m = n
  <2>1. PICK j \in 1 .. Len(open) : cut[m] = open[j]
    BY <1>5
  <2>2. PICK k \in 1 .. Len(open) : cut[n] = open[k]
    BY <1>5
  <2>3. j = k
    BY <1>8, <1>10, <2>1, <2>2
  <2> QED
    BY <1>3, <2>1, <2>2, <2>3 DEF OneEach
<1>11. ASSUME NEW m \in 1 .. Len(kept), NEW n \in 1 .. Len(cut), kept[m].text.turn = cut[n].text.turn
       PROVE  FALSE
  <2>1. PICK k \in 1 .. Len(open) : cut[n] = open[k] /\ \E i \in 1 .. Len(blocks) : CutBy(open[k], blocks[i])
    BY <1>5
  <2>2. Heard(kept[m].text.turn)
    BY <1>7, <1>11, <2>1
  <2>3. PICK j \in 1 .. Len(open) : /\ kept[m].text.turn = open[j].text.turn
                                    /\ \A i \in 1 .. Len(blocks) : ~CutBy(open[j], blocks[i])
    BY <1>4, <2>2
  <2>4. j = k
    BY <1>8, <1>11, <2>1, <2>3
  <2> QED
    BY <2>1, <2>3, <2>4
<1> QED
  BY <1>9, <1>10, <1>11 DEF kept, cut

\* A block with a text nobody has said is kept.
LEMMA BlockKept ==
    ASSUME NEW blocks, Ready(blocks), seen' = SeenAfter(blocks),
           NEW i \in 1 .. Len(blocks), blocks[i].text # Empty, ~Said(blocks[i].text.turn)
    PROVE  \E n \in 1 .. Len(Kept(blocks)) :
               Kept(blocks)[n].id = blocks[i].id /\ Kept(blocks)[n].text = blocks[i].text
<1>1. TypeOK /\ now' \in Times /\ OneEach(open) /\ blocks \in Seq(Blocks) /\ OneEach(blocks)
  BY DEF Ready, OpenInv
<1>2. blocks[i].id \notin Cleared(blocks)
  <2>1. \A k \in 1 .. Len(blocks) : blocks[k].id = blocks[i].id => blocks[k].text # Empty
    BY <1>1 DEF OneEach
  <2> QED
    BY <1>1, <2>1, ByElement
<1>3. ASSUME NEW j \in 1 .. Len(open), open[j].id = blocks[i].id
      PROVE  \E n \in 1 .. Len(Kept(blocks)) :
                 Kept(blocks)[n].id = blocks[i].id /\ Kept(blocks)[n].text = blocks[i].text
  <2>1. open[j].id \notin Cleared(blocks)
    BY <1>2, <1>3
  <2>2. PICK n \in 1 .. Len(Kept(blocks)) : Kept(blocks)[n] = Updated(open[j], blocks)
    BY <1>1, <2>1, KeptFacts
  <2>3. Updated(open[j], blocks).id = open[j].id /\ Updated(open[j], blocks).text = blocks[i].text
    BY <1>3, <2>1, UpdatedFacts
  <2> QED
    BY <1>3, <2>2, <2>3
<1>4. CASE ~\E j \in 1 .. Len(open) : open[j].id = blocks[i].id
  <2>1. ~Opened(blocks[i].id)
    BY <1>4 DEF Opened
  <2>2. ~Heard(blocks[i].text.turn) => blocks[i].id \notin done
    BY DEF Ready, BlocksOk, BlockOk
  <2>3. ~Heard(blocks[i].text.turn)
    BY <1>4 DEF Ready, BlocksOk, BlockOk, Follows
  <2>4. IsNew(blocks[i])
    BY <2>1, <2>2, <2>3 DEF IsNew
  <2>5. PICK n \in 1 .. Len(Kept(blocks)) : Kept(blocks)[n] = Fresh(blocks[i])
    BY <1>1, <2>4, KeptFacts
  <2> QED
    BY <2>5 DEF Fresh
<1> QED
  BY <1>3, <1>4

\* A turn that was read is said, cut short or kept.
LEMMA HeardTold ==
    ASSUME NEW blocks, Ready(blocks), seen' = SeenAfter(blocks),
           NEW t \in Turns, seen'[t].len # 0
    PROVE  \/ Said(t)
           \/ \E n \in 1 .. Len(Kept(blocks)) : Kept(blocks)[n].text.turn = t
           \/ \E n \in 1 .. Len(CutShort(blocks)) : CutShort(blocks)[n].text.turn = t
<1>1. TypeOK /\ now' \in Times /\ OneEach(open) /\ blocks \in Seq(Blocks) /\ OneEach(blocks)
  BY DEF Ready, OpenInv
<1>2. CASE \E i \in 1 .. Len(blocks) : blocks[i].text.turn = t
  <2>1. PICK i \in 1 .. Len(blocks) : blocks[i].text.turn = t
    BY <1>2
  <2>2. blocks[i].text # Empty
    BY <2>1 DEF Empty, Turns
  <2> QED
    BY <2>1, <2>2, BlockKept
<1>3. CASE \A i \in 1 .. Len(blocks) : blocks[i].text.turn # t
  <2>1. Heard(t)
    BY <1>3, SeenFacts DEF Heard
  <2>2. ASSUME NEW j \in 1 .. Len(open), open[j].text.turn = t
        PROVE  \/ \E n \in 1 .. Len(Kept(blocks)) : Kept(blocks)[n].text.turn = t
               \/ \E n \in 1 .. Len(CutShort(blocks)) : CutShort(blocks)[n].text.turn = t
    <3>1. CASE \E i \in 1 .. Len(blocks) : CutBy(open[j], blocks[i])
      <4>1. PICK i \in 1 .. Len(blocks) : CutBy(open[j], blocks[i])
        BY <3>1
      <4>2. PICK n \in 1 .. Len(CutShort(blocks)) : CutShort(blocks)[n] = open[j]
        BY <1>1, <4>1, CutFacts DEF CutBy
      <4> QED
        BY <2>2, <4>2
    <3>2. CASE \A i \in 1 .. Len(blocks) : ~CutBy(open[j], blocks[i])
      <4>1. open[j].id \notin Cleared(blocks)
        <5>1. \A i \in 1 .. Len(blocks) : blocks[i].id = open[j].id => blocks[i].text # Empty
          BY <3>2 DEF CutBy
        <5>2. \A id : id \in Cleared(blocks) <=>
                  \E i \in 1 .. Len(blocks) : blocks[i].id = id /\ blocks[i].text = Empty
          BY <1>1, ByElement
        <5> QED
          BY <5>1, <5>2
      <4>2. PICK n \in 1 .. Len(Kept(blocks)) : Kept(blocks)[n] = Updated(open[j], blocks)
        BY <1>1, <4>1, KeptFacts
      <4> DEFINE u == Updated(open[j], blocks)
      <4>3. \/ u.text.turn = open[j].text.turn
            \/ \E i \in 1 .. Len(blocks) : /\ blocks[i].id = open[j].id /\ blocks[i].text = u.text
                                           /\ Halved(open[j].text, u.text)
        BY <4>1, UpdatedFacts
      <4> HIDE DEF u
      <4>4. u.text.turn = open[j].text.turn
        BY <3>2, <4>3 DEF CutBy
      <4> QED
        BY <2>2, <4>2, <4>4 DEF u
    <3> QED
      BY <3>1, <3>2
  <2> QED
    BY <2>1, <2>2 DEF Ready, HeardInv
<1> QED
  BY <1>2, <1>3

SaidAfter(t) == \E i \in 1 .. Len(hints') : hints'[i].text.turn = t
AtsAfter(n) == {seen'[hints'[j].text.turn].at : j \in 1 .. n}

\* Hints of utterances nobody has said leave the file in order and each turn in it once.
LEMMA HintStep ==
    ASSUME TypeOK, HintInv, HintsInOrder, NEW out \in Seq(Utterances),
           \A n \in 1 .. Len(out) : Told(out[n]),
           \A m, n \in 1 .. Len(out) : out[m].text.turn = out[n].text.turn => m = n,
           \A t \in Turns : Said(t) => seen'[t] = seen[t],
           hints' = hints \o [i \in 1 .. Len(out) |-> [text |-> out[i].text, offset |-> Offset(out, i)]],
           prev' = IF out = <<>> THEN prev ELSE Offset(out, Len(out))
    PROVE  /\ HintInv' /\ HintsInOrder'
           /\ hints' \in Seq([text : Texts, offset : Times]) /\ prev' \in Times
           /\ \A t : SaidAfter(t) <=> Said(t) \/ \E n \in 1 .. Len(out) : out[n].text.turn = t
<1> DEFINE R == [text : Texts, offset : Times]
           new == [i \in 1 .. Len(out) |-> [text |-> out[i].text, offset |-> Offset(out, i)]]
           h == Len(hints)
           k == Len(out)
<1>1. /\ hints \in Seq(R) /\ prev \in Times /\ MaxPolls \in Nat /\ h \in Nat /\ k \in Nat
      /\ \A n \in 1 .. h : hints[n].text \in Texts /\ hints[n].offset \in Times
  BY Typed, BoundsAssumption, LenProperties DEF TypeOK
<1>2. \A n \in 1 .. k : out[n] \in Utterances /\ out[n].text \in Texts /\ out[n].first \in Times
  <2>1. \A n \in 1 .. k : out[n] \in Utterances
    BY ElementOfSeq
  <2> QED
    BY <2>1 DEF Utterances
<1> DEFINE F(m) == {prev} \cup {out[j].first : j \in 1 .. m}
<1>3. ASSUME NEW m \in 1 .. k
      PROVE  /\ Offset(out, m) = Max(F(m)) /\ Offset(out, m) \in F(m) /\ Offset(out, m) \in Times
             /\ \A y \in F(m) : y <= Offset(out, m)
  <2>1. m \in Nat /\ \A j \in 1 .. m : j \in 1 .. k
    BY <1>1
  <2>2. F(m) \in SUBSET (0 .. MaxPolls) /\ F(m) # {}
    BY <1>1, <1>2, <2>1 DEF Times
  <2>3. Offset(out, m) = Max(F(m))
    BY DEF Offset
  <2> HIDE DEF F
  <2> QED
    BY <1>1, <2>2, <2>3, MaxOfSome DEF Times
<1>4. new \in Seq(R) /\ Len(new) = k /\ \A n \in 1 .. k : new[n] = [text |-> out[n].text, offset |-> Offset(out, n)]
  <2>1. \A n \in 1 .. k : [text |-> out[n].text, offset |-> Offset(out, n)] \in R
    BY <1>2, <1>3
  <2>2. new \in [1 .. k -> R]
    BY <2>1
  <2> QED
    BY <1>1, <2>2
<1> HIDE DEF new, F
<1>5. hints' = hints \o new
  BY DEF new
<1>6. /\ hints' \in Seq(R) /\ Len(hints') = h + k
      /\ \A n \in 1 .. h : n \in 1 .. Len(hints') /\ hints'[n] = hints[n]
      /\ \A n \in 1 .. k : h + n \in 1 .. Len(hints') /\ hints'[h + n] = new[n]
      /\ \A n \in 1 .. Len(hints') : n \in 1 .. h \/ \E m \in 1 .. k : n = h + m
  <2> DEFINE H == hints \o new
  <2> HIDE DEF R
  <2>1. /\ H \in Seq(R) /\ Len(H) = Len(hints) + Len(new)
        /\ \A n \in 1 .. Len(hints) : n \in 1 .. Len(H) /\ H[n] = hints[n]
        /\ \A n \in 1 .. Len(new) : Len(hints) + n \in 1 .. Len(H) /\ H[Len(hints) + n] = new[n]
        /\ \A n \in 1 .. Len(H) : n \in 1 .. Len(hints) \/ \E m \in 1 .. Len(new) : n = Len(hints) + m
    <3>1. hints \in Seq(R) /\ new \in Seq(R)
      BY <1>1, <1>4
    <3> QED
      <4>1. H \in Seq(R) /\ Len(H) = Len(hints) + Len(new)
        BY <3>1, Joined
      <4>2. \A n \in 1 .. Len(hints) : n \in 1 .. Len(H) /\ H[n] = hints[n]
        BY <3>1, Joined
      <4>3. \A n \in 1 .. Len(new) : Len(hints) + n \in 1 .. Len(H) /\ H[Len(hints) + n] = new[n]
        BY <3>1, Joined
      <4>4. \A n \in 1 .. Len(H) : n \in 1 .. Len(hints) \/ \E m \in 1 .. Len(new) : n = Len(hints) + m
        BY <3>1, Joined
      <4> QED
        BY <4>1, <4>2, <4>3, <4>4
  <2>2. hints' = H
    BY <1>5
  <2> HIDE DEF H
  <2>3. /\ hints' \in Seq(R) /\ Len(hints') = Len(hints) + Len(new)
        /\ \A n \in 1 .. Len(hints) : n \in 1 .. Len(hints') /\ hints'[n] = hints[n]
        /\ \A n \in 1 .. Len(new) : Len(hints) + n \in 1 .. Len(hints') /\ hints'[Len(hints) + n] = new[n]
        /\ \A n \in 1 .. Len(hints') : n \in 1 .. Len(hints) \/ \E m \in 1 .. Len(new) : n = Len(hints) + m
    BY <2>1, <2>2
  <2> QED
    BY <1>4, <2>3
<1>7. \A n \in 1 .. k : hints'[h + n].text = out[n].text /\ hints'[h + n].offset = Offset(out, n)
  <2>1. \A n \in 1 .. k : hints'[h + n] = [text |-> out[n].text, offset |-> Offset(out, n)]
    BY <1>4, <1>6
  <2> QED
    BY <2>1
<1>8. \A n \in 1 .. h : /\ hints[n].text.turn \in Turns /\ Said(hints[n].text.turn)
                        /\ seen'[hints[n].text.turn] = seen[hints[n].text.turn]
  <2>1. ASSUME NEW n \in 1 .. h
        PROVE  hints[n].text.turn \in Turns /\ Said(hints[n].text.turn)
    BY <1>1, OfText DEF Said
  <2> QED
    BY <2>1
<1>9. \A n \in 1 .. k : /\ ~Said(out[n].text.turn) /\ out[n].text # Empty
                        /\ seen'[out[n].text.turn] = [at |-> out[n].first, len |-> out[n].text.len]
  BY <1>2, OfText DEF Told
<1>10. \A t : SaidAfter(t) <=> Said(t) \/ \E n \in 1 .. k : out[n].text.turn = t
  <2>1. ASSUME NEW t, SaidAfter(t) PROVE Said(t) \/ \E n \in 1 .. k : out[n].text.turn = t
    <3>1. PICK n \in 1 .. Len(hints') : hints'[n].text.turn = t
      BY <2>1 DEF Said, SaidAfter
    <3> QED
      BY <1>6, <1>7, <3>1 DEF Said, SaidAfter
  <2>2. ASSUME NEW t, Said(t) PROVE SaidAfter(t)
    BY <1>6, <2>2 DEF Said, SaidAfter
  <2>3. ASSUME NEW t, NEW n \in 1 .. k, out[n].text.turn = t PROVE SaidAfter(t)
    BY <1>6, <1>7, <2>3 DEF SaidAfter
  <2> QED
    BY <2>1, <2>2, <2>3
<1>11. OneOfTurn(hints)'
  <2>1. ASSUME NEW m \in 1 .. Len(hints'), NEW n \in 1 .. Len(hints'),
               hints'[m].text # Empty, hints'[m].text.turn = hints'[n].text.turn
        PROVE  m = n
    <3>1. ASSUME NEW i \in 1 .. h, NEW j \in 1 .. k, hints'[i].text.turn = hints'[h + j].text.turn
          PROVE  FALSE
      <4>1. Said(hints'[i].text.turn)
        BY <1>6, <1>8
      <4>2. ~Said(hints'[h + j].text.turn)
        BY <1>7, <1>9
      <4> QED
        BY <3>1, <4>1, <4>2
    <3>2. CASE m \in 1 .. h /\ n \in 1 .. h
      BY <1>6, <2>1, <3>2 DEF HintInv, OneOfTurn
    <3>3. CASE m \in 1 .. h /\ \E i \in 1 .. k : n = h + i
      BY <2>1, <3>3, <3>1
    <3>4. CASE n \in 1 .. h /\ \E i \in 1 .. k : m = h + i
      BY <2>1, <3>4, <3>1
    <3>5. CASE (\E i \in 1 .. k : m = h + i) /\ (\E i \in 1 .. k : n = h + i)
      <4>1. PICK i \in 1 .. k : m = h + i
        BY <3>5
      <4>2. PICK j \in 1 .. k : n = h + j
        BY <3>5
      <4>3. hints'[m].text = out[i].text /\ hints'[n].text = out[j].text
        BY <1>7, <4>1, <4>2
      <4>4. out[i].text.turn = out[j].text.turn
        BY <2>1, <4>3
      <4> QED
        BY <4>1, <4>2, <4>4
    <3> QED
      BY <1>6, <3>2, <3>3, <3>4, <3>5
  <2> QED
    BY <2>1 DEF OneOfTurn
<1>12. \A n \in 1 .. Len(hints') : seen'[hints'[n].text.turn].len = hints'[n].text.len
  <2>1. \A n \in 1 .. h : seen'[hints'[n].text.turn].len = hints'[n].text.len
    <3>1. ASSUME NEW n \in 1 .. h
          PROVE  seen'[hints'[n].text.turn].len = hints'[n].text.len
      <4>1. hints'[n] = hints[n] /\ seen'[hints[n].text.turn] = seen[hints[n].text.turn]
        BY <1>6, <1>8
      <4>2. seen[hints[n].text.turn].len = hints[n].text.len
        BY DEF HintInv
      <4> QED
        BY <4>1, <4>2
    <3> QED
      BY <3>1
  <2>2. \A n \in 1 .. k : seen'[hints'[h + n].text.turn].len = hints'[h + n].text.len
    <3>1. ASSUME NEW n \in 1 .. k
          PROVE  seen'[hints'[h + n].text.turn].len = hints'[h + n].text.len
      <4>1. hints'[h + n].text = out[n].text
        BY <1>7
      <4>2. seen'[out[n].text.turn] = [at |-> out[n].first, len |-> out[n].text.len]
        BY <1>9
      <4> QED
        BY <4>1, <4>2
    <3> QED
      BY <3>1
  <2> QED
    BY <1>6, <2>1, <2>2
<1>13. prev' \in Times /\ prev' = IF hints' = <<>> THEN 0 ELSE hints'[Len(hints')].offset
  <2>1. CASE out = <<>>
    <3>1. k = 0
      BY <2>1, EmptySeq
    <3>2. new = <<>>
      BY <1>4, <3>1, EmptySeq
    <3>3. hints' = hints
      BY <1>1, <1>5, <3>2, ConcatEmptySeq
    <3> QED
      BY <1>1, <2>1, <3>3 DEF HintInv
  <2>2. CASE out # <<>>
    <3>1. k \in 1 .. k
      BY <1>1, <2>2, EmptySeq
    <3>2. prev' = Offset(out, k) /\ Offset(out, k) \in Times
      BY <1>3, <2>2, <3>1
    <3>3. hints'[Len(hints')].offset = Offset(out, k)
      BY <1>6, <1>7, <3>1
    <3>4. hints' # <<>>
      <4>1. Len(hints') # 0
        BY <1>1, <1>6, <3>1
      <4> QED
        BY <4>1, EmptySeq
    <3> QED
      BY <3>2, <3>3, <3>4
  <2> QED
    BY <2>1, <2>2
<1>14. HintsInOrder'
  <2>1. ASSUME NEW n \in 1 .. h
        PROVE  hints'[n].offset = Max(AtsAfter(n)) /\ AtsAfter(n) = Ats(n)
    <3>1. \A j \in 1 .. n : j \in 1 .. h
      BY <1>1
    <3>2. \A j \in 1 .. n : seen'[hints'[j].text.turn].at = seen[hints[j].text.turn].at
      BY <1>6, <1>8, <3>1
    <3>3. AtsAfter(n) = Ats(n)
      <4>1. ASSUME NEW y \in AtsAfter(n)
            PROVE  y \in Ats(n)
        <5>1. PICK j \in 1 .. n : y = seen'[hints'[j].text.turn].at
          BY DEF AtsAfter
        <5>2. y = seen[hints[j].text.turn].at
          BY <3>2, <5>1
        <5> QED
          BY <5>2 DEF Ats
      <4>2. ASSUME NEW y \in Ats(n)
            PROVE  y \in AtsAfter(n)
        <5>1. PICK j \in 1 .. n : y = seen[hints[j].text.turn].at
          BY DEF Ats
        <5>2. y = seen'[hints'[j].text.turn].at
          BY <3>2, <5>1
        <5> QED
          BY <5>2 DEF AtsAfter
      <4> QED
        BY <4>1, <4>2
    <3>4. hints[n].offset = Max(Ats(n))
      BY DEF HintsInOrder, Ats
    <3> QED
      BY <1>6, <3>3, <3>4
  <2>2. ASSUME NEW m \in 1 .. k
        PROVE  hints'[h + m].offset = Max(AtsAfter(h + m))
    <3> DEFINE M == Offset(out, m)
    <3>1. \A j \in 1 .. m : /\ h + j \in 1 .. h + m /\ j \in 1 .. k
                            /\ seen'[hints'[h + j].text.turn].at = out[j].first
      <4>1. \A j \in 1 .. m : h + j \in 1 .. h + m /\ j \in 1 .. k
        BY <1>1
      <4>2. ASSUME NEW j \in 1 .. k
            PROVE  seen'[hints'[h + j].text.turn].at = out[j].first
        <5>1. hints'[h + j].text = out[j].text
          BY <1>7
        <5>2. seen'[out[j].text.turn] = [at |-> out[j].first, len |-> out[j].text.len]
          BY <1>9
        <5> QED
          BY <5>1, <5>2
      <4> QED
        BY <4>1, <4>2
    <3>2. \A j \in 1 .. h : /\ j \in 1 .. h + m
                            /\ seen'[hints'[j].text.turn].at = seen[hints[j].text.turn].at
      <4>1. \A j \in 1 .. h : j \in 1 .. h + m
        BY <1>1
      <4> QED
        BY <1>6, <1>8, <4>1
    <3>3. \A j \in 1 .. h + m : j \in 1 .. h \/ \E i \in 1 .. m : j = h + i
      <4>1. ASSUME NEW j \in 1 .. h + m, j \notin 1 .. h
            PROVE  \E i \in 1 .. m : j = h + i
        <5>1. j - h \in 1 .. m /\ j = h + (j - h)
          BY <1>1, <4>1
        <5> QED
          BY <5>1
      <4> QED
        BY <4>1
    <3>4. /\ \A j \in 1 .. m : out[j].first \in AtsAfter(h + m)
          /\ \A j \in 1 .. h : seen[hints[j].text.turn].at \in AtsAfter(h + m)
          /\ \A y \in AtsAfter(h + m) : \/ \E j \in 1 .. m : y = out[j].first
                                 \/ \E j \in 1 .. h : y = seen[hints[j].text.turn].at
      <4>1. ASSUME NEW j \in 1 .. m PROVE out[j].first \in AtsAfter(h + m)
        BY <3>1 DEF AtsAfter
      <4>2. ASSUME NEW j \in 1 .. h PROVE seen[hints[j].text.turn].at \in AtsAfter(h + m)
        BY <3>2 DEF AtsAfter
      <4>3. ASSUME NEW y \in AtsAfter(h + m)
            PROVE  \/ \E j \in 1 .. m : y = out[j].first
                   \/ \E j \in 1 .. h : y = seen[hints[j].text.turn].at
        <5>1. PICK j \in 1 .. h + m : y = seen'[hints'[j].text.turn].at
          BY DEF AtsAfter
        <5>2. CASE j \in 1 .. h
          BY <3>2, <5>1, <5>2
        <5>3. CASE \E i \in 1 .. m : j = h + i
          <6>1. PICK i \in 1 .. m : j = h + i
            BY <5>3
          <6>2. seen'[hints'[j].text.turn].at = out[i].first
            BY <3>1, <6>1
          <6> QED
            BY <5>1, <6>2
        <5> QED
          BY <3>3, <5>2, <5>3
      <4> QED
        BY <4>1, <4>2, <4>3
    <3> HIDE DEF M
    <3>5. \A y \in F(m) : y <= M
      BY <1>3 DEF M
    <3>6. prev \in F(m) /\ \A j \in 1 .. m : out[j].first \in F(m)
      BY DEF F
    <3>7. M \in {prev} \cup {out[j].first : j \in 1 .. m} /\ M \in Times
      BY <1>3 DEF F, M
    <3>8. CASE h = 0
      <4>1. prev = 0
        <5>1. hints = <<>>
          BY <1>1, <3>8, EmptySeq
        <5> QED
          BY <5>1 DEF HintInv
      <4>2. 1 \in 1 .. m /\ 1 \in 1 .. k
        BY <1>1
      <4>3. out[1].first \in Nat /\ out[1].first <= M /\ out[1].first \in AtsAfter(h + m)
        BY <1>2, <3>4, <3>5, <3>6, <4>2 DEF Times
      <4>4. M \in AtsAfter(h + m)
        BY <3>4, <3>7, <4>1, <4>3
      <4>5. \A y \in AtsAfter(h + m) : y <= M
        BY <3>4, <3>5, <3>6, <3>8
      <4>6. AtsAfter(h + m) \in SUBSET Int
        <5>1. \A j \in 1 .. m : out[j].first \in Int
          BY <1>2, <3>1 DEF Times
        <5>2. \A y \in AtsAfter(h + m) : \E j \in 1 .. m : y = out[j].first
          BY <3>4, <3>8
        <5> QED
          BY <5>1, <5>2
      <4>7. Max(AtsAfter(h + m)) = M
        BY <4>4, <4>5, <4>6, MaxIs
      <4> QED
        BY <1>7, <4>7 DEF M
    <3>9. CASE h # 0
      <4>1. h \in 1 .. h
        BY <1>1, <3>9
      <4>2. prev = Max(Ats(h))
        <5>1. hints # <<>>
          BY <3>9, EmptySeq
        <5>2. prev = hints[h].offset
          BY <5>1 DEF HintInv
        <5> QED
          BY <4>1, <5>2 DEF HintsInOrder, Ats
      <4>3. Ats(h) \in SUBSET (0 .. MaxPolls) /\ Ats(h) # {}
        <5>1. \A j \in 1 .. h : seen[hints[j].text.turn].at \in 0 .. MaxPolls
          BY <1>8 DEF TypeOK, Times
        <5> QED
          BY <4>1, <5>1 DEF Ats
      <4>4. prev \in Ats(h) /\ \A y \in Ats(h) : y <= prev
        BY <1>1, <4>2, <4>3, MaxOfSome
      <4>5. prev <= M /\ M \in Int /\ prev \in Int
        BY <1>1, <3>5, <3>6, <3>7 DEF Times
      <4>6. \A j \in 1 .. h : /\ seen[hints[j].text.turn].at \in Int
                              /\ seen[hints[j].text.turn].at <= M
        <5>1. \A j \in 1 .. h : seen[hints[j].text.turn].at \in Ats(h)
          BY DEF Ats
        <5>2. Ats(h) \in SUBSET Int
          BY <4>3
        <5> QED
          BY <4>4, <4>5, <5>1, <5>2
      <4>7. M \in AtsAfter(h + m)
        <5>1. prev \in AtsAfter(h + m)
          BY <3>4, <4>4 DEF Ats
        <5> QED
          BY <3>4, <3>7, <5>1
      <4>8. AtsAfter(h + m) \in SUBSET Int /\ \A y \in AtsAfter(h + m) : y <= M
        <5>1. \A j \in 1 .. m : out[j].first \in Int /\ out[j].first <= M
          BY <1>2, <3>1, <3>5, <3>6 DEF Times
        <5> QED
          BY <3>4, <4>6, <5>1
      <4>9. Max(AtsAfter(h + m)) = M
        BY <4>7, <4>8, MaxIs
      <4> QED
        BY <1>7, <4>9 DEF M
    <3> QED
      BY <3>8, <3>9
  <2>3. \A n \in 1 .. Len(hints') : hints'[n].offset = Max(AtsAfter(n))
    <3> QED
      BY <1>6, <2>1, <2>2
  <2> QED
    BY <2>3 DEF HintsInOrder, AtsAfter
<1> QED
  BY <1>6, <1>10, <1>11, <1>12, <1>13, <1>14 DEF HintInv

\* The utterances kept at positions I: each once.
LEMMA KeptAmong ==
    ASSUME NEW blocks, Ready(blocks), seen' = SeenAfter(blocks), NEW I \in SUBSET (1 .. Len(Kept(blocks)))
    PROVE  /\ Among(Kept(blocks), I) \in Seq(Utterances)
           /\ \A n \in 1 .. Len(Among(Kept(blocks), I)) :
                 \E m \in I : Among(Kept(blocks), I)[n] = Kept(blocks)[m]
           /\ \A m \in I : \E n \in 1 .. Len(Among(Kept(blocks), I)) : Among(Kept(blocks), I)[n] = Kept(blocks)[m]
           /\ OneEach(Among(Kept(blocks), I)) /\ OneOfTurn(Among(Kept(blocks), I))
           /\ \A m, n \in 1 .. Len(Among(Kept(blocks), I)) :
                 Among(Kept(blocks), I)[m].text.turn = Among(Kept(blocks), I)[n].text.turn => m = n
<1> DEFINE kept == Kept(blocks)
           A == Among(kept, I)
<1>1. kept \in Seq(Utterances) /\ OneEach(kept)
  BY KeptFacts DEF Ready, OpenInv
<1>2. \A m, n \in 1 .. Len(kept) : kept[m].text.turn = kept[n].text.turn => m = n
  BY TurnsApart
<1>3. I \in SUBSET (1 .. Len(kept))
  OBVIOUS
<1> HIDE DEF kept
<1>4. /\ A \in Seq(Utterances) /\ Len(A) = Cardinality(I)
      /\ \A n \in 1 .. Cardinality(I) : Nth(I, n) \in I /\ A[n] = kept[Nth(I, n)]
      /\ \A m, n \in 1 .. Cardinality(I) : Nth(I, m) = Nth(I, n) => m = n
      /\ \A i \in I : \E n \in 1 .. Cardinality(I) : Nth(I, n) = i
  BY <1>1, <1>3, AmongFacts
<1> HIDE DEF A
<1>5. \A n \in 1 .. Len(A) : Nth(I, n) \in I /\ Nth(I, n) \in 1 .. Len(kept) /\ A[n] = kept[Nth(I, n)]
  BY <1>3, <1>4
<1>6. ASSUME NEW m \in 1 .. Len(A), NEW n \in 1 .. Len(A),
             A[m].id = A[n].id \/ A[m].text.turn = A[n].text.turn
      PROVE  m = n
  <2>1. Nth(I, m) = Nth(I, n)
    BY <1>1, <1>2, <1>5, <1>6 DEF OneEach
  <2> QED
    BY <1>4, <2>1
<1>7. \A n \in 1 .. Len(A) : \E m \in I : A[n] = kept[m]
  BY <1>5
<1>8. \A m \in I : \E n \in 1 .. Len(A) : A[n] = kept[m]
  BY <1>4, <1>5
<1>9. OneEach(A) /\ OneOfTurn(A) /\ \A m, n \in 1 .. Len(A) : A[m].text.turn = A[n].text.turn => m = n
  BY <1>6 DEF OneEach, OneOfTurn
<1> QED
  BY <1>4, <1>7, <1>8, <1>9 DEF A, kept

Final(blocks, flush) == {i \in 1 .. Len(Kept(blocks)) : IsFinal(Kept(blocks)[i], blocks, flush)}
Ended(blocks, flush) == Among(Kept(blocks), Final(blocks, flush))
Rest(blocks, flush) == Among(Kept(blocks), 1 .. Len(Kept(blocks)) \ Final(blocks, flush))
Out(blocks, flush) == CutShort(blocks) \o Ended(blocks, flush)

\* FoldCaptions in these terms.
LEMMA FoldIs ==
    ASSUME NEW blocks, NEW flush, FoldCaptions(blocks, flush)
    PROVE  /\ open' = Rest(blocks, flush)
           /\ done' = DoneAfter(blocks, Ended(blocks, flush))
           /\ hints' = hints \o [i \in 1 .. Len(Out(blocks, flush)) |->
                                    [text |-> Out(blocks, flush)[i].text, offset |-> Offset(Out(blocks, flush), i)]]
           /\ prev' = IF Out(blocks, flush) = <<>> THEN prev
                      ELSE Offset(Out(blocks, flush), Len(Out(blocks, flush)))
  BY DEF FoldCaptions, Rest, Ended, Out, Final

\* What leaves was cut short or is final, each turn once.
LEMMA OutFacts ==
    ASSUME NEW blocks, Ready(blocks), seen' = SeenAfter(blocks), NEW flush
    PROVE  /\ Out(blocks, flush) \in Seq(Utterances)
           /\ \A n \in 1 .. Len(Out(blocks, flush)) : Told(Out(blocks, flush)[n])
           /\ \A m, n \in 1 .. Len(Out(blocks, flush)) :
                 Out(blocks, flush)[m].text.turn = Out(blocks, flush)[n].text.turn => m = n
           /\ \A n \in 1 .. Len(CutShort(blocks)) :
                 \E m \in 1 .. Len(Out(blocks, flush)) : Out(blocks, flush)[m] = CutShort(blocks)[n]
           /\ \A n \in Final(blocks, flush) :
                 \E m \in 1 .. Len(Out(blocks, flush)) : Out(blocks, flush)[m] = Kept(blocks)[n]
           /\ \A n \in (1 .. Len(Kept(blocks))) \ Final(blocks, flush) :
                 \A m \in 1 .. Len(Out(blocks, flush)) :
                    Out(blocks, flush)[m].text.turn # Kept(blocks)[n].text.turn
<1> DEFINE kept == Kept(blocks)
           cut == CutShort(blocks)
           final == Final(blocks, flush)
           ended == Ended(blocks, flush)
           out == Out(blocks, flush)
           c == Len(cut)
           e == Len(ended)
<1>1. final \in SUBSET (1 .. Len(kept))
  BY DEF Final
<1>2. cut \in Seq(Utterances)
  BY CutFacts DEF Ready, OpenInv
<1>3. /\ ended \in Seq(Utterances)
      /\ \A n \in 1 .. e : \E m \in final : ended[n] = kept[m]
      /\ \A m \in final : \E n \in 1 .. e : ended[n] = kept[m]
      /\ \A m, n \in 1 .. e : ended[m].text.turn = ended[n].text.turn => m = n
  BY <1>1, KeptAmong DEF Ended
<1>4. /\ \A m, n \in 1 .. Len(kept) : kept[m].text.turn = kept[n].text.turn => m = n
      /\ \A m, n \in 1 .. c : cut[m].text.turn = cut[n].text.turn => m = n
      /\ \A m \in 1 .. Len(kept), n \in 1 .. c : kept[m].text.turn # cut[n].text.turn
  BY TurnsApart
<1>5. /\ \A n \in 1 .. Len(kept) : Told(kept[n])
      /\ \A n \in 1 .. c : Told(cut[n])
  BY KeptTold, CutTold
<1>6. out = cut \o ended
  BY DEF Out
<1> HIDE DEF kept, cut, final, ended, out
<1>7. /\ out \in Seq(Utterances)
      /\ \A n \in 1 .. c : n \in 1 .. Len(out) /\ out[n] = cut[n]
      /\ \A n \in 1 .. e : c + n \in 1 .. Len(out) /\ out[c + n] = ended[n]
      /\ \A n \in 1 .. Len(out) : n \in 1 .. c \/ \E m \in 1 .. e : n = c + m
  BY <1>2, <1>3, <1>6, Joined
<1> HIDE DEF c, e
<1>8. \A n \in 1 .. e : \E m \in 1 .. Len(kept) : m \in final /\ ended[n] = kept[m]
  BY <1>1, <1>3
<1>9. \A n \in 1 .. Len(out) : \/ \E m \in 1 .. c : n = m /\ out[n] = cut[m]
                               \/ \E m \in 1 .. e : n = c + m /\ out[n] = ended[m]
  BY <1>7
<1>10. \A m \in 1 .. e, n \in 1 .. c : ended[m].text.turn # cut[n].text.turn
  BY <1>4, <1>8
<1>11. \A n \in 1 .. Len(out) : Told(out[n])
  BY <1>5, <1>8, <1>9
<1>12. ASSUME NEW m \in 1 .. Len(out), NEW n \in 1 .. Len(out), out[m].text.turn = out[n].text.turn
       PROVE  m = n
  <2>1. ASSUME NEW i \in 1 .. c, m = i, out[m] = cut[i], NEW j \in 1 .. c, n = j, out[n] = cut[j]
        PROVE  m = n
    BY <1>4, <1>12, <2>1
  <2>2. ASSUME NEW i \in 1 .. e, m = c + i, out[m] = ended[i], NEW j \in 1 .. e, n = c + j, out[n] = ended[j]
        PROVE  m = n
    BY <1>3, <1>12, <2>2
  <2>3. ASSUME NEW i \in 1 .. c, out[m] = cut[i], NEW j \in 1 .. e, out[n] = ended[j]
        PROVE  FALSE
    BY <1>10, <1>12, <2>3
  <2>4. ASSUME NEW i \in 1 .. e, out[m] = ended[i], NEW j \in 1 .. c, out[n] = cut[j]
        PROVE  FALSE
    BY <1>10, <1>12, <2>4
  <2> QED
    BY <1>9, <2>1, <2>2, <2>3, <2>4
<1>13. \A n \in 1 .. c : \E m \in 1 .. Len(out) : out[m] = cut[n]
  BY <1>7
<1>14. \A n \in final : \E m \in 1 .. Len(out) : out[m] = kept[n]
  BY <1>3, <1>7
<1>15. ASSUME NEW n \in (1 .. Len(kept)) \ final, NEW m \in 1 .. Len(out)
       PROVE  out[m].text.turn # kept[n].text.turn
  <2>1. ASSUME NEW i \in 1 .. c, out[m] = cut[i]
        PROVE  out[m].text.turn # kept[n].text.turn
    BY <1>4, <2>1
  <2>2. ASSUME NEW i \in 1 .. e, out[m] = ended[i]
        PROVE  out[m].text.turn # kept[n].text.turn
    <3>1. PICK k \in 1 .. Len(kept) : k \in final /\ ended[i] = kept[k]
      BY <1>8
    <3> QED
      BY <1>4, <2>2, <3>1
  <2> QED
    BY <1>9, <2>1, <2>2
<1> QED
  BY <1>7, <1>11, <1>12, <1>13, <1>14, <1>15 DEF kept, cut, final, ended, out, c, e

\* The open utterances a fold leaves, and those it ends.
LEMMA LeftFacts ==
    ASSUME NEW blocks, NEW flush, Ready(blocks), FoldCaptions(blocks, flush), seen' = SeenAfter(blocks)
    PROVE  /\ open' \in Seq(Utterances) /\ OneEach(open') /\ OneOfTurn(open')
           /\ \A n \in 1 .. Len(open') :
                 \E m \in (1 .. Len(Kept(blocks))) \ Final(blocks, flush) : open'[n] = Kept(blocks)[m]
           /\ \A m \in (1 .. Len(Kept(blocks))) \ Final(blocks, flush) :
                 \E n \in 1 .. Len(open') : open'[n] = Kept(blocks)[m]
           /\ Ended(blocks, flush) \in Seq(Utterances) /\ Final(blocks, flush) \in SUBSET (1 .. Len(Kept(blocks)))
           /\ \A n \in 1 .. Len(Ended(blocks, flush)) :
                 \E m \in Final(blocks, flush) : Ended(blocks, flush)[n] = Kept(blocks)[m]
           /\ \A m \in Final(blocks, flush) :
                 \E n \in 1 .. Len(Ended(blocks, flush)) : Ended(blocks, flush)[n] = Kept(blocks)[m]
<1> DEFINE kept == Kept(blocks)
           final == Final(blocks, flush)
           left == (1 .. Len(kept)) \ final
           A == Among(kept, left)
<1>1. final \in SUBSET (1 .. Len(kept)) /\ left \in SUBSET (1 .. Len(kept))
  BY DEF Final
<1>2. open' = A
  BY FoldIs DEF Rest
<1>3. /\ Ended(blocks, flush) \in Seq(Utterances)
      /\ \A n \in 1 .. Len(Ended(blocks, flush)) : \E m \in final : Ended(blocks, flush)[n] = kept[m]
      /\ \A m \in final : \E n \in 1 .. Len(Ended(blocks, flush)) : Ended(blocks, flush)[n] = kept[m]
  BY <1>1, KeptAmong DEF Ended
<1>4. /\ A \in Seq(Utterances)
      /\ \A n \in 1 .. Len(A) : \E m \in left : A[n] = kept[m]
      /\ \A m \in left : \E n \in 1 .. Len(A) : A[n] = kept[m]
      /\ OneEach(A) /\ OneOfTurn(A)
  <2> HIDE DEF left, final
  <2> QED
    BY <1>1, KeptAmong
<1> HIDE DEF A
<1>5. /\ open' \in Seq(Utterances)
      /\ \A n \in 1 .. Len(open') : \E m \in left : open'[n] = kept[m]
      /\ \A m \in left : \E n \in 1 .. Len(open') : open'[n] = kept[m]
      /\ OneEach(open') /\ OneOfTurn(open')
  BY <1>2, <1>4
<1> QED
  BY <1>1, <1>3, <1>5

\* What a fold says.
LEMMA FoldSaid ==
    ASSUME NEW blocks, NEW flush, Ready(blocks), HintsInOrder,
           FoldCaptions(blocks, flush), seen' = SeenAfter(blocks)
    PROVE  /\ \A t : SaidAfter(t) <=>
                   Said(t) \/ \E n \in 1 .. Len(Out(blocks, flush)) : Out(blocks, flush)[n].text.turn = t
           /\ HintInv' /\ HintsInOrder'
           /\ hints' \in Seq([text : Texts, offset : Times]) /\ prev' \in Times
<1> DEFINE out == Out(blocks, flush)
<1>1. /\ hints' = hints \o [i \in 1 .. Len(out) |-> [text |-> out[i].text, offset |-> Offset(out, i)]]
      /\ prev' = IF out = <<>> THEN prev ELSE Offset(out, Len(out))
  BY FoldIs
<1>2. /\ out \in Seq(Utterances)
      /\ \A n \in 1 .. Len(out) : Told(out[n])
      /\ \A m, n \in 1 .. Len(out) : out[m].text.turn = out[n].text.turn => m = n
  BY OutFacts
<1>3. \A t \in Turns : Said(t) => seen'[t] = seen[t]
  BY SeenFacts
<1>4. TypeOK /\ HintInv
  BY DEF Ready
<1> HIDE DEF out
<1>5. /\ HintInv' /\ HintsInOrder'
      /\ hints' \in Seq([text : Texts, offset : Times]) /\ prev' \in Times
      /\ \A t : SaidAfter(t) <=> Said(t) \/ \E n \in 1 .. Len(out) : out[n].text.turn = t
  BY <1>1, <1>2, <1>3, <1>4, HintStep
<1> QED
  BY <1>5 DEF out

\* A fold keeps what is known of open utterances, hints and turns read.
LEMMA FoldStep ==
    ASSUME NEW blocks, NEW flush, Ready(blocks), HintsInOrder,
           FoldCaptions(blocks, flush), seen' = SeenAfter(blocks)
    PROVE  /\ open' \in Seq(Utterances) /\ done' \in SUBSET Ids
           /\ hints' \in Seq([text : Texts, offset : Times]) /\ prev' \in Times
           /\ OpenInv' /\ HintInv' /\ HeardInv' /\ HintsInOrder'
           /\ flush = TRUE => open' = <<>>
           /\ \A t : Said(t) => SaidAfter(t)
<1> DEFINE kept == Kept(blocks)
           final == Final(blocks, flush)
           ended == Ended(blocks, flush)
           out == Out(blocks, flush)
           left == (1 .. Len(kept)) \ final
<1>1. done' = DoneAfter(blocks, ended)
  BY FoldIs
<1>2. /\ \A n \in 1 .. Len(CutShort(blocks)) : \E m \in 1 .. Len(out) : out[m] = CutShort(blocks)[n]
      /\ \A n \in final : \E m \in 1 .. Len(out) : out[m] = kept[n]
      /\ \A n \in left : \A m \in 1 .. Len(out) : out[m].text.turn # kept[n].text.turn
  BY OutFacts
<1>3. TypeOK
  BY DEF Ready
<1>4. final \in SUBSET (1 .. Len(kept)) /\ left \in SUBSET (1 .. Len(kept))
  BY DEF Final
<1>5. \A n \in 1 .. Len(kept) : Told(kept[n]) /\ kept[n].id \notin done /\ kept[n] \in Utterances
  <2>1. \A n \in 1 .. Len(kept) : Told(kept[n]) /\ kept[n].id \notin done
    BY KeptTold
  <2>2. kept \in Seq(Utterances)
    BY KeptFacts DEF Ready, OpenInv
  <2> QED
    BY <2>1, <2>2, ElementOfSeq
<1>6. /\ open' \in Seq(Utterances) /\ OneEach(open') /\ OneOfTurn(open')
      /\ \A n \in 1 .. Len(open') : \E m \in left : open'[n] = kept[m]
      /\ \A m \in left : \E n \in 1 .. Len(open') : open'[n] = kept[m]
  BY LeftFacts
<1>7. /\ ended \in Seq(Utterances)
      /\ \A n \in 1 .. Len(ended) : \E m \in final : ended[n] = kept[m]
  BY LeftFacts
<1>8. OneEach(kept)
  BY KeptFacts DEF Ready, OpenInv
<1>9. \A t \in Turns : seen'[t].len # 0 =>
            \/ Said(t)
            \/ \E n \in 1 .. Len(kept) : kept[n].text.turn = t
            \/ \E n \in 1 .. Len(CutShort(blocks)) : CutShort(blocks)[n].text.turn = t
  BY HeardTold
<1>10. flush = TRUE => left = {}
  BY DEF Final, IsFinal
<1>11. left = (1 .. Len(kept)) \ final
  OBVIOUS
<1>12. \A t : SaidAfter(t) <=> Said(t) \/ \E n \in 1 .. Len(out) : out[n].text.turn = t
  BY FoldSaid
<1>13. /\ HintInv' /\ HintsInOrder'
       /\ hints' \in Seq([text : Texts, offset : Times]) /\ prev' \in Times
  BY FoldSaid
<1> HIDE DEF kept, final, ended, out, left
<1>14. /\ HintInv' /\ HintsInOrder'
       /\ hints' \in Seq([text : Texts, offset : Times]) /\ prev' \in Times
       /\ \A t : SaidAfter(t) <=> Said(t) \/ \E n \in 1 .. Len(out) : out[n].text.turn = t
  BY <1>12, <1>13
<1>15. done' \in SUBSET Ids
  <2>1. \A n \in 1 .. Len(ended) : ended[n].id \in Ids
    <3>1. \A n \in 1 .. Len(ended) : ended[n] \in Utterances
      BY <1>7, ElementOfSeq
    <3> QED
      BY <3>1 DEF Utterances
  <2>2. IdsOf(ended) \in SUBSET Ids
    BY <2>1 DEF IdsOf
  <2> QED
    BY <1>1, <1>3, <2>2 DEF DoneAfter, TypeOK
<1>16. OpenInv'
  <2>1. ASSUME NEW n \in 1 .. Len(open')
        PROVE  /\ open'[n].id \notin done'
               /\ ~SaidAfter(open'[n].text.turn)
               /\ seen'[open'[n].text.turn] = [at |-> open'[n].first, len |-> open'[n].text.len]
    <3>1. PICK m \in left : open'[n] = kept[m]
      BY <1>6
    <3>2. m \in 1 .. Len(kept) /\ m \notin final
      BY <1>11
    <3>3. kept[m].id \notin IdsOf(ended)
      <4>1. \A k \in 1 .. Len(ended) : ended[k].id # kept[m].id
        BY <1>4, <1>7, <1>8, <3>2 DEF OneEach
      <4> QED
        BY <4>1 DEF IdsOf
    <3>4. open'[n].id \notin done'
      BY <1>1, <1>5, <3>1, <3>2, <3>3 DEF DoneAfter
    <3>5. ~SaidAfter(kept[m].text.turn)
      <4>1. ~Said(kept[m].text.turn)
        BY <1>5, <3>2 DEF Told
      <4>2. \A k \in 1 .. Len(out) : out[k].text.turn # kept[m].text.turn
        BY <1>2
      <4> QED
        BY <1>14, <4>1, <4>2
    <3> QED
      <4>1. Told(kept[m])
        BY <1>5, <3>2
      <4> QED
        BY <3>1, <3>4, <3>5, <4>1 DEF Told
  <2> QED
    BY <1>6, <2>1 DEF OpenInv, OneEach, OneOfTurn, Said, SaidAfter
<1>17. HeardInv'
  <2>1. ASSUME NEW t \in Turns, seen'[t].len # 0
        PROVE  SaidAfter(t) \/ \E n \in 1 .. Len(open') : open'[n].text.turn = t
    <3>1. CASE Said(t)
      BY <1>14, <3>1
    <3>2. ASSUME NEW n \in 1 .. Len(kept), kept[n].text.turn = t
          PROVE  SaidAfter(t) \/ \E m \in 1 .. Len(open') : open'[m].text.turn = t
      <4>1. CASE n \in final
        BY <1>2, <1>14, <3>2, <4>1
      <4>2. CASE n \in left
        BY <1>6, <3>2, <4>2
      <4> QED
        BY <1>11, <4>1, <4>2
    <3>3. ASSUME NEW n \in 1 .. Len(CutShort(blocks)), CutShort(blocks)[n].text.turn = t
          PROVE  SaidAfter(t)
      BY <1>2, <1>14, <3>3
    <3> QED
      BY <1>9, <2>1, <3>1, <3>2, <3>3
  <2> QED
    BY <2>1 DEF HeardInv, Heard, Said, SaidAfter
<1>18. ASSUME flush = TRUE
       PROVE  open' = <<>>
  <2>1. \A n \in 1 .. Len(open') : FALSE
    BY <1>6, <1>18, <1>10
  <2>2. Len(open') = 0
    <3>1. Len(open') \in Nat
      BY <1>6, LenProperties
    <3>2. Len(open') # 0 => Len(open') \in 1 .. Len(open')
      BY <3>1
    <3> QED
      BY <2>1, <3>2
  <2> QED
    BY <1>6, <2>2, EmptySeq
<1> QED
  BY <1>6, <1>14, <1>15, <1>16, <1>17, <1>18

\* What a fold leaves of its blocks.
LEMMA FoldBlocks ==
    ASSUME NEW blocks, NEW flush, Ready(blocks), HintsInOrder,
           FoldCaptions(blocks, flush), seen' = SeenAfter(blocks), NEW i \in 1 .. Len(blocks)
    PROVE  /\ blocks[i].text = Empty =>
                /\ blocks[i].id \notin done'
                /\ \A j \in 1 .. Len(open') : open'[j].id # blocks[i].id
           /\ blocks[i].text # Empty => seen'[blocks[i].text.turn].len # 0
           /\ blocks[i].text # Empty /\ flush = FALSE =>
                \/ \E j \in 1 .. Len(open') : Follows(blocks[i], open'[j])
                \/ blocks[i].id \in done' /\ SaidAfter(blocks[i].text.turn) /\ i # Len(blocks)
<1> DEFINE kept == Kept(blocks)
           final == Final(blocks, flush)
           ended == Ended(blocks, flush)
           left == (1 .. Len(kept)) \ final
           b == blocks[i]
<1>1. TypeOK /\ now' \in Times /\ OneEach(open) /\ blocks \in Seq(Blocks) /\ OneEach(blocks)
  BY DEF Ready, OpenInv
<1>2. final \in SUBSET (1 .. Len(kept)) /\ left \in SUBSET (1 .. Len(kept))
  BY DEF Final
<1>3. done' = (done \ Cleared(blocks)) \cup IdsOf(ended)
  BY FoldIs DEF DoneAfter
<1>4. /\ \A n \in 1 .. Len(ended) : \E m \in final : ended[n] = kept[m]
      /\ \A m \in final : \E n \in 1 .. Len(ended) : ended[n] = kept[m]
  BY LeftFacts
<1>5. /\ \A n \in 1 .. Len(open') : \E m \in left : open'[n] = kept[m]
      /\ \A m \in left : \E n \in 1 .. Len(open') : open'[n] = kept[m]
  BY LeftFacts
<1>6. \A n \in 1 .. Len(kept) : kept[n].id \notin Cleared(blocks) /\ Told(kept[n])
  BY KeptTold
<1>7. b.text \in Texts \/ b.text = Empty
  BY <1>1, Typed
<1>8. \A id : id \in Cleared(blocks) <=>
                  \E k \in 1 .. Len(blocks) : blocks[k].id = id /\ blocks[k].text = Empty
  BY <1>1, ByElement
<1>9. /\ Out(blocks, flush) \in Seq(Utterances)
      /\ \A n \in final : \E m \in 1 .. Len(Out(blocks, flush)) : Out(blocks, flush)[m] = kept[n]
  BY OutFacts
<1>10. \A n \in final : SaidAfter(kept[n].text.turn)
  <2>1. \A t : SaidAfter(t) <=> Said(t) \/ \E n \in 1 .. Len(Out(blocks, flush)) : Out(blocks, flush)[n].text.turn = t
    BY FoldSaid
  <2> QED
    BY <1>9, <2>1
<1>11. b \in Blocks
  BY <1>1, Typed
<1>12. \A n \in final : IsFinal(kept[n], blocks, flush)
  BY DEF Final
<1>13. \A t : Said(t) => SaidAfter(t)
  BY FoldSaid
<1> HIDE DEF kept, final, ended
<1>14. ASSUME b.text = Empty
       PROVE  b.id \notin done' /\ \A j \in 1 .. Len(open') : open'[j].id # b.id
  <2>1. b.id \in Cleared(blocks)
    BY <1>8, <1>14
  <2>2. \A n \in 1 .. Len(kept) : kept[n].id # b.id
    BY <1>6, <2>1
  <2>3. b.id \notin IdsOf(ended)
    <3>1. ASSUME NEW n \in 1 .. Len(ended)
          PROVE  ended[n].id # b.id
      <4>1. PICK m \in final : ended[n] = kept[m]
        BY <1>4
      <4> QED
        BY <1>2, <2>2, <4>1
    <3> QED
      BY <3>1 DEF IdsOf
  <2>4. \A j \in 1 .. Len(open') : open'[j].id # b.id
    BY <1>5, <2>2
  <2> QED
    BY <1>3, <2>1, <2>3, <2>4
<1>15. ASSUME b.text # Empty
       PROVE  seen'[b.text.turn].len # 0
  <2>1. b.text \in Texts /\ b.text.turn \in Turns /\ b.text.len # 0
    BY <1>7, <1>15, OfText
  <2>2. CASE Said(b.text.turn)
    <3>1. seen'[b.text.turn] = seen[b.text.turn]
      BY <2>1, <2>2, SeenFacts
    <3>2. Heard(b.text.turn)
      BY <2>2, SaidWasHeard DEF Ready
    <3> QED
      BY <3>1, <3>2 DEF Heard
  <2>3. CASE ~Said(b.text.turn)
    <3>1. seen'[b.text.turn].len = b.text.len
      <4>1. /\ ~Heard(b.text.turn) => seen'[b.text.turn] = [at |-> now', len |-> b.text.len]
            /\ Heard(b.text.turn) =>
                   seen'[b.text.turn] = [at |-> seen[b.text.turn].at, len |-> b.text.len]
        BY <1>15, <2>3, SeenFacts
      <4> QED
        BY <4>1
    <3> QED
      BY <2>1, <3>1
  <2> QED
    BY <2>2, <2>3
<1>16. ASSUME b.text # Empty, flush = FALSE
       PROVE  \/ \E j \in 1 .. Len(open') : Follows(b, open'[j])
              \/ b.id \in done' /\ SaidAfter(b.text.turn) /\ i # Len(blocks)
  <2>1. b.text \in Texts
    BY <1>7, <1>16
  <2>2. CASE Said(b.text.turn)
    <3>1. Heard(b.text.turn)
      BY <2>2, SaidWasHeard DEF Ready
    <3>2. ~\E j \in 1 .. Len(open) : Follows(b, open[j])
      BY <2>2 DEF Follows, Ready, OpenInv
    <3>3. b.id \in done /\ i # Len(blocks)
      BY <1>16, <3>1, <3>2 DEF Ready, BlocksOk, BlockOk
    <3>4. b.id \notin Cleared(blocks)
      <4>1. \A k \in 1 .. Len(blocks) : blocks[k].id = b.id => blocks[k].text # Empty
        BY <1>1, <1>16 DEF OneEach
      <4> QED
        BY <1>8, <4>1
    <3>5. b.id \in done'
      BY <1>3, <3>3, <3>4
    <3> QED
      BY <1>13, <2>2, <3>3, <3>5
  <2>3. CASE ~Said(b.text.turn)
    <3>1. PICK n \in 1 .. Len(kept) : kept[n].id = b.id /\ kept[n].text = b.text
      BY <1>16, <2>3, BlockKept DEF kept
    <3>2. CASE n \in left
      <4>1. PICK j \in 1 .. Len(open') : open'[j] = kept[n]
        BY <1>5, <3>2
      <4>2. Follows(b, open'[j])
        BY <2>1, <3>1, <4>1, OfText DEF Follows
      <4> QED
        BY <4>2
    <3>3. CASE n \in final
      <4>1. b.id \in done'
        <5>1. b.id \in IdsOf(ended)
          <6>1. PICK m \in 1 .. Len(ended) : ended[m] = kept[n]
            BY <1>4, <3>3
          <6> QED
            BY <3>1, <6>1 DEF IdsOf
        <5> QED
          BY <1>3, <5>1
      <4>2. SaidAfter(b.text.turn)
        BY <1>10, <3>1, <3>3
      <4>3. ASSUME i = Len(blocks)
            PROVE  FALSE
        <5> DEFINE texts == {k \in 1 .. Len(blocks) : blocks[k].text # Empty}
        <5>1. i \in texts /\ texts \in SUBSET Int
          BY <1>16
        <5>2. \A y \in texts : y <= i
          BY <4>3
        <5>3. Max(texts) = i
          <6> HIDE DEF texts
          <6> QED
            BY <5>1, <5>2, MaxIs
        <5>4. Newest(blocks) = b.id
          BY <5>1, <5>3 DEF Newest
        <5>5. b.id \in IdsOf(blocks)
          BY DEF IdsOf
        <5>6. IsFinal(kept[n], blocks, flush)
          BY <1>12, <3>3
        <5> QED
          BY <1>16, <3>1, <5>4, <5>5, <5>6 DEF IsFinal
      <4> QED
        BY <4>1, <4>2, <4>3
    <3> QED
      BY <3>2, <3>3
  <2> QED
    BY <2>2, <2>3
<1> QED
  BY <1>14, <1>15, <1>16

\* Elements and turns stay among those there have been.
LEMMA FoldBounds ==
    ASSUME NEW blocks, NEW flush, Ready(blocks),
           FoldCaptions(blocks, flush), seen' = SeenAfter(blocks), ScreenInv,
           \A i \in 1 .. Len(blocks) : blocks[i].id <= ids /\ blocks[i].text.turn <= turns
    PROVE  /\ \A j \in 1 .. Len(open') : open'[j].id <= ids
           /\ \A id \in done' : id <= ids
           /\ \A t \in Turns : seen'[t].len # 0 => t <= turns
<1> DEFINE kept == Kept(blocks)
           final == Final(blocks, flush)
           ended == Ended(blocks, flush)
           left == (1 .. Len(kept)) \ final
<1>1. final \in SUBSET (1 .. Len(kept)) /\ left \in SUBSET (1 .. Len(kept))
  BY DEF Final
<1>2. done' = (done \ Cleared(blocks)) \cup IdsOf(ended)
  BY FoldIs DEF DoneAfter
<1>3. \A n \in 1 .. Len(ended) : \E m \in final : ended[n] = kept[m]
  BY LeftFacts
<1>4. \A n \in 1 .. Len(open') : \E m \in left : open'[n] = kept[m]
  BY LeftFacts
<1>5. \A n \in 1 .. Len(kept) : kept[n].id <= ids
  <2>1. \A n \in 1 .. Len(kept) : (\E j \in 1 .. Len(open) : kept[n].id = open[j].id)
                                  \/ (\E i \in 1 .. Len(blocks) : kept[n].id = blocks[i].id)
    BY KeptTold
  <2> HIDE DEF kept
  <2> QED
    BY <2>1 DEF ScreenInv
<1> HIDE DEF kept, final, ended
<1>6. \A j \in 1 .. Len(open') : open'[j].id <= ids
  BY <1>4, <1>5
<1>7. \A id \in done' : id <= ids
  <2>1. \A id \in IdsOf(ended) : id <= ids
    BY <1>1, <1>3, <1>5 DEF IdsOf
  <2> QED
    BY <1>2, <2>1 DEF ScreenInv
<1>8. ASSUME NEW t \in Turns, seen'[t].len # 0
      PROVE  t <= turns
  <2>1. CASE \E i \in 1 .. Len(blocks) : blocks[i].text.turn = t
    BY <2>1
  <2>2. CASE \A i \in 1 .. Len(blocks) : blocks[i].text.turn # t
    BY <1>8, <2>2, SeenFacts DEF ScreenInv, Heard
  <2> QED
    BY <2>1, <2>2
<1> QED
  BY <1>6, <1>7, <1>8

-----------------------------------------------------------------------------
(***************************************************************************)
(* The steps.                                                              *)
(***************************************************************************)

\* BlockOk of the state after a step.
OkAfter(b, last) ==
    /\ b.text = Empty => \/ b.id \in unread'
                         \/ b.id \notin done' /\ \A j \in 1 .. Len(open') : open'[j].id # b.id
    /\ b.text # Empty /\ seen'[b.text.turn].len = 0 =>
          /\ b.id \notin done'
          /\ \A j \in 1 .. Len(open') : open'[j].id = b.id =>
                b.id \in unread' /\ b.text.len = 1 /\ open'[j].text.len = Long
    /\ b.text # Empty /\ seen'[b.text.turn].len # 0 =>
          \/ \E j \in 1 .. Len(open') : Follows(b, open'[j])
          \/ b.id \in done' /\ SaidAfter(b.text.turn) /\ ~last

LEMMA BlocksAfter ==
    ASSUME \A i \in 1 .. Len(dom') : OkAfter(dom'[i], i = Len(dom'))
    PROVE  BlocksOk(dom)'
<1>1. ASSUME NEW i \in 1 .. Len(dom')
      PROVE  BlockOk(dom[i], i = Len(dom))'
  <2>1. OkAfter(dom'[i], i = Len(dom'))
    OBVIOUS
  <2> QED
    BY <2>1 DEF OkAfter, BlockOk, Heard, Said, SaidAfter, Opened, Follows
<1> QED
  BY <1>1 DEF BlocksOk

\* Meet gives the element at position i another text.
LEMMA Rewritten ==
    ASSUME dom \in Seq(Blocks), NEW i \in 1 .. Len(dom), NEW x \in Texts \cup {Empty},
           dom' = [dom EXCEPT ![i].text = x]
    PROVE  /\ dom' \in Seq(Blocks) /\ Len(dom') = Len(dom)
           /\ dom'[i].id = dom[i].id /\ dom'[i].text = x
           /\ \A k \in 1 .. Len(dom) : k # i => dom'[k] = dom[k]
           /\ \A k \in 1 .. Len(dom) : dom'[k].id = dom[k].id
<1>1. Len(dom) \in Nat /\ dom \in [1 .. Len(dom) -> Blocks] /\ dom[i] \in Blocks
  BY LenProperties, ElementOfSeq
<1>2. [dom[i] EXCEPT !.text = x] \in Blocks /\ [dom[i] EXCEPT !.text = x].id = dom[i].id
      /\ [dom[i] EXCEPT !.text = x].text = x
  BY <1>1 DEF Blocks
<1>3. dom' = [dom EXCEPT ![i] = [dom[i] EXCEPT !.text = x]]
  BY <1>1
<1>4. dom' \in [1 .. Len(dom) -> Blocks] /\ dom'[i] = [dom[i] EXCEPT !.text = x]
      /\ \A k \in 1 .. Len(dom) : k # i => dom'[k] = dom[k]
  <2> DEFINE y == [dom[i] EXCEPT !.text = x]
  <2>1. y \in Blocks /\ dom' = [dom EXCEPT ![i] = y]
    BY <1>2, <1>3
  <2> HIDE DEF y
  <2>2. dom' \in [1 .. Len(dom) -> Blocks] /\ dom'[i] = y
        /\ \A k \in 1 .. Len(dom) : k # i => dom'[k] = dom[k]
    BY <1>1, <2>1
  <2> QED
    BY <2>2 DEF y
<1>5. dom' \in Seq(Blocks) /\ Len(dom') = Len(dom)
  BY <1>1, <1>4
<1>6. dom'[i].id = dom[i].id /\ dom'[i].text = x
  BY <1>2, <1>4
<1> QED
  BY <1>4, <1>5, <1>6

\* In a step of Meet nothing moves that foldCaptions keeps.
Still == UNCHANGED <<now, running, failures, open, done, prev, hints, seen>>

\* So what is known of utterances, hints and turns stays, and what remains is the screen.
LEMMA StillStep ==
    ASSUME IInv, running, Still,
           dom' \in Seq(Blocks), ids' \in 0 .. MaxIds, turns' \in 0 .. MaxTurns, unread' \in SUBSET Ids,
           ids <= ids', turns <= turns',
           OneEach(dom'), OneOfTurn(dom'),
           \A i \in 1 .. Len(dom') : dom'[i].id <= ids' /\ dom'[i].text.turn <= turns',
           \A i \in 1 .. Len(dom') : OkAfter(dom'[i], i = Len(dom'))
    PROVE  IInv'
<1>1. TypeOK'
  BY DEF IInv, TypeOK, Still
<1>2. OpenInv' /\ HintInv' /\ HeardInv' /\ HintsInOrder'
  BY DEF IInv, Still, OpenInv, HintInv, HeardInv, HintsInOrder, Said, Heard, OneEach, OneOfTurn
<1>3. ids \in Int /\ ids' \in Int /\ turns \in Int /\ turns' \in Int
  BY DEF IInv, TypeOK
<1>4. /\ \A i \in 1 .. Len(open) : open[i].id \in Int
      /\ done \in SUBSET Int /\ Turns \in SUBSET Int
  <2>1. \A i \in 1 .. Len(open) : open[i].id \in Ids
    BY Typed DEF IInv, TypeOK
  <2>2. done \in SUBSET Ids
    BY DEF IInv, TypeOK
  <2>3. Ids \in SUBSET Int /\ Turns \in SUBSET Int
    BY DEF Ids, Turns
  <2> QED
    BY <2>1, <2>2, <2>3
<1>5. /\ \A i \in 1 .. Len(open') : open'[i].id <= ids'
      /\ \A id \in done' : id <= ids'
      /\ \A t \in Turns : Heard(t)' => t <= turns'
  <2>1. /\ \A i \in 1 .. Len(open) : open[i].id <= ids
        /\ \A id \in done : id <= ids
        /\ \A t \in Turns : Heard(t) => t <= turns
    BY DEF IInv, ScreenInv
  <2>2. open' = open /\ done' = done /\ seen' = seen
    BY DEF Still
  <2>3. \A i \in 1 .. Len(open) : open[i].id <= ids'
    BY <1>3, <1>4, <2>1
  <2>4. \A id \in done : id <= ids'
    BY <1>3, <1>4, <2>1
  <2>5. \A t \in Turns : Heard(t) => t <= turns'
    BY <1>3, <1>4, <2>1
  <2> QED
    BY <2>2, <2>3, <2>4, <2>5 DEF Heard
<1>6. ScreenInv'
  BY <1>5 DEF ScreenInv, OneEach, OneOfTurn
<1>7. BlocksOk(dom)'
  BY BlocksAfter
<1>8. running'
  BY DEF Still
<1> QED
  BY <1>1, <1>2, <1>6, <1>7, <1>8 DEF IInv

\* A block that stays as it is stays readable.
LEMMA SameBlock ==
    ASSUME IInv, running, Still, NEW i \in 1 .. Len(dom), unread \in SUBSET unread',
           NEW last, last => i = Len(dom)
    PROVE  OkAfter(dom[i], last)
<1>1. BlockOk(dom[i], i = Len(dom))
  BY DEF IInv, BlocksOk
<1>2. \A t : SaidAfter(t) <=> Said(t)
  BY DEF SaidAfter, Said, Still
<1>3. open' = open /\ done' = done /\ seen' = seen
  BY DEF Still
<1> QED
  BY <1>1, <1>2, <1>3 DEF OkAfter, BlockOk, Heard, Opened

\* The next turn is one nobody has heard.
LEMMA NextIsNew ==
    ASSUME IInv, turns < MaxTurns
    PROVE  /\ NextTurn \in Texts /\ NextTurn # Empty /\ NextTurn.turn = turns + 1 /\ NextTurn.len = 1
           /\ turns + 1 \in Turns /\ ~Heard(turns + 1)
           /\ \A i \in 1 .. Len(dom) : dom[i].text.turn # turns + 1 /\ dom[i].text.turn <= turns + 1
<1>1. turns \in Int /\ turns >= 0 /\ MaxTurns \in Int /\ Long \in Int /\ Long > 2
  BY BoundsAssumption DEF IInv, TypeOK
<1>2. turns + 1 \in Turns
  BY <1>1 DEF Turns
<1>3. NextTurn \in Texts /\ NextTurn.turn = turns + 1 /\ NextTurn.len = 1
  BY <1>1, <1>2 DEF NextTurn, Texts
<1>4. ~Heard(turns + 1)
  BY <1>1, <1>2 DEF IInv, ScreenInv
<1>5. \A i \in 1 .. Len(dom) : dom[i].text.turn \in Int /\ dom[i].text.turn <= turns
  <2>1. \A i \in 1 .. Len(dom) : dom[i].text \in Texts \/ dom[i].text = Empty
    BY Typed DEF IInv, TypeOK
  <2>2. \A x \in Texts : x.turn \in Int
    BY DEF Texts, Turns
  <2> QED
    BY <2>1, <2>2 DEF IInv, ScreenInv, Empty
<1> QED
  BY <1>1, <1>2, <1>3, <1>4, <1>5, OfText

\* Every step keeps IInv: first those of Meet.
LEMMA NewBlockStep ==
    ASSUME IInv, running, Still, NewBlock
    PROVE  IInv'
<1> DEFINE b == [id |-> ids + 1, text |-> NextTurn]
           n == Len(dom)
<1>1. /\ ids \in Int /\ ids >= 0 /\ ids < MaxIds /\ MaxIds \in Int /\ turns < MaxTurns
      /\ turns \in Int /\ turns >= 0 /\ MaxTurns \in Int
      /\ dom \in Seq(Blocks) /\ n \in Nat
  BY BoundsAssumption, LenProperties DEF IInv, TypeOK, NewBlock
<1>2. ids + 1 \in Ids /\ b \in Blocks
  BY <1>1, NextIsNew DEF Ids, Blocks
<1>3. dom' = Append(dom, b) /\ ids' = ids + 1 /\ turns' = turns + 1 /\ unread' = unread
  BY DEF NewBlock
<1>4. b.id = ids + 1 /\ b.text = NextTurn
  OBVIOUS
<1> HIDE DEF b
<1>5. /\ dom' \in Seq(Blocks) /\ Len(dom') = n + 1 /\ dom'[n + 1] = b
      /\ \A i \in 1 .. n : dom'[i] = dom[i]
  BY <1>1, <1>2, <1>3, AppendProperties
<1>6. \A i \in 1 .. Len(dom') : (i \in 1 .. n /\ i # Len(dom') /\ dom'[i] = dom[i]) \/ (i = n + 1 /\ dom'[i] = b)
  BY <1>1, <1>5
<1>7. /\ \A i \in 1 .. n : dom[i].id # ids + 1 /\ dom[i].id <= ids + 1
      /\ \A i \in 1 .. Len(open) : open[i].id # ids + 1
      /\ ids + 1 \notin done
  <2>1. /\ \A i \in 1 .. n : dom[i].id <= ids
        /\ \A i \in 1 .. Len(open) : open[i].id <= ids
        /\ \A id \in done : id <= ids
    BY DEF IInv, ScreenInv
  <2>2. \A i \in 1 .. n : dom[i].id \in Int
    BY Typed DEF IInv, TypeOK, Ids
  <2> QED
    BY <1>1, <2>1, <2>2
<1>8. /\ NextTurn # Empty /\ NextTurn.turn = turns + 1 /\ ~Heard(turns + 1)
      /\ \A i \in 1 .. n : dom[i].text.turn # turns + 1 /\ dom[i].text.turn <= turns + 1
  BY <1>1, NextIsNew
<1>9. OneEach(dom')
  <2>1. \A i, j \in 1 .. n : dom[i].id = dom[j].id => i = j
    BY DEF IInv, ScreenInv, OneEach
  <2> QED
    BY <1>4, <1>6, <1>7, <2>1 DEF OneEach
<1>10. OneOfTurn(dom')
  <2>1. \A i, j \in 1 .. n : dom[i].text # Empty /\ dom[i].text.turn = dom[j].text.turn => i = j
    BY DEF IInv, ScreenInv, OneOfTurn
  <2> QED
    BY <1>4, <1>6, <1>8, <2>1 DEF OneOfTurn
<1>11. \A i \in 1 .. Len(dom') : dom'[i].id <= ids' /\ dom'[i].text.turn <= turns'
  BY <1>1, <1>3, <1>4, <1>6, <1>7, <1>8
<1>12. ASSUME NEW i \in 1 .. Len(dom')
       PROVE  OkAfter(dom'[i], i = Len(dom'))
  <2>1. CASE i \in 1 .. n /\ i # Len(dom') /\ dom'[i] = dom[i]
    <3>1. OkAfter(dom[i], FALSE)
      BY <1>3, <2>1, SameBlock
    <3> QED
      BY <2>1, <3>1 DEF OkAfter
  <2>2. CASE dom'[i] = b
    <3>1. done' = done /\ open' = open /\ seen' = seen
      BY DEF Still
    <3> QED
      BY <1>4, <1>7, <1>8, <2>2, <3>1 DEF OkAfter, Heard
  <2> QED
    BY <1>6, <2>1, <2>2
<1>13. ids' \in 0 .. MaxIds /\ turns' \in 0 .. MaxTurns /\ unread' \in SUBSET Ids /\ ids <= ids' /\ turns <= turns'
  BY <1>1, <1>3 DEF IInv, TypeOK
<1> QED
  BY <1>5, <1>9, <1>10, <1>11, <1>12, <1>13, StillStep

\* Another text in one element: the others stay as they are.
LEMMA RewrittenStep ==
    ASSUME IInv, running, Still, NEW i \in 1 .. Len(dom), NEW x \in Texts \cup {Empty},
           dom' = [dom EXCEPT ![i].text = x], ids' = ids,
           turns' \in 0 .. MaxTurns, turns <= turns', x.turn <= turns',
           unread' \in SUBSET Ids, unread \in SUBSET unread',
           x # Empty => \A k \in 1 .. Len(dom) : k # i => dom[k].text.turn # x.turn,
           OkAfter(dom'[i], i = Len(dom))
    PROVE  IInv'
<1>1. /\ dom \in Seq(Blocks) /\ ids \in 0 .. MaxIds /\ ids \in Int /\ turns \in Int /\ turns' \in Int
  BY BoundsAssumption DEF IInv, TypeOK
<1>2. /\ dom' \in Seq(Blocks) /\ Len(dom') = Len(dom)
      /\ dom'[i].id = dom[i].id /\ dom'[i].text = x
      /\ \A k \in 1 .. Len(dom) : k # i => dom'[k] = dom[k]
      /\ \A k \in 1 .. Len(dom) : dom'[k].id = dom[k].id
  BY <1>1, Rewritten
<1>3. OneEach(dom')
  BY <1>2 DEF IInv, ScreenInv, OneEach
<1>4. OneOfTurn(dom')
  <2>1. \A k, l \in 1 .. Len(dom) : dom[k].text # Empty /\ dom[k].text.turn = dom[l].text.turn => k = l
    BY DEF IInv, ScreenInv, OneOfTurn
  <2>2. ASSUME NEW k \in 1 .. Len(dom), NEW l \in 1 .. Len(dom),
               dom'[k].text # Empty, dom'[k].text.turn = dom'[l].text.turn
        PROVE  k = l
    <3>1. CASE k # i /\ l # i
      BY <1>2, <2>1, <2>2, <3>1
    <3>2. CASE k = i /\ l # i
      BY <1>2, <2>2, <3>2
    <3>3. CASE k # i /\ l = i
      <4>1. dom[k].text # Empty /\ dom[k].text.turn = x.turn
        BY <1>2, <2>2, <3>3
      <4>2. dom[k].text \in Texts
        BY <1>1, <4>1, Typed DEF IInv
      <4>3. x # Empty
        BY <4>1, <4>2, OfText DEF Empty, Turns
      <4> QED
        BY <3>3, <4>1, <4>3
    <3> QED
      BY <3>1, <3>2, <3>3
  <2> QED
    BY <1>2, <2>2 DEF OneOfTurn
<1>5. \A k \in 1 .. Len(dom') : dom'[k].id <= ids' /\ dom'[k].text.turn <= turns'
  <2>1. \A k \in 1 .. Len(dom) : /\ dom[k].id <= ids /\ dom[k].text.turn <= turns
                                 /\ dom[k].text.turn \in Int
    <3>1. \A k \in 1 .. Len(dom) : dom[k].text \in Texts \/ dom[k].text = Empty
      BY <1>1, Typed DEF IInv
    <3>2. \A y \in Texts : y.turn \in Int
      BY DEF Texts, Turns
    <3> QED
      BY <3>1, <3>2 DEF IInv, ScreenInv, Empty
  <2>2. \A k \in 1 .. Len(dom) : dom[k].text.turn <= turns'
    BY <1>1, <2>1
  <2> QED
    BY <1>2, <2>1, <2>2
<1>6. ASSUME NEW k \in 1 .. Len(dom')
      PROVE  OkAfter(dom'[k], k = Len(dom'))
  <2>1. CASE k = i
    BY <1>2, <2>1
  <2>2. CASE k # i
    <3>1. k \in 1 .. Len(dom) /\ dom'[k] = dom[k]
      BY <1>2, <2>2
    <3>2. OkAfter(dom[k], k = Len(dom))
      BY <3>1, SameBlock
    <3> QED
      BY <1>2, <3>1, <3>2
  <2> QED
    BY <2>1, <2>2
<1>7. ids <= ids'
  BY <1>1
<1> QED
  BY <1>1, <1>2, <1>3, <1>4, <1>5, <1>6, <1>7, StillStep

\* What the invariant says of one block.
LEMMA ScreenFacts ==
    ASSUME IInv, running, NEW i \in 1 .. Len(dom)
    PROVE  /\ dom[i] \in Blocks /\ dom[i].id \in Ids /\ dom[i].text.turn <= turns
           /\ dom[i].text \in Texts \/ dom[i].text = Empty
           /\ BlockOk(dom[i], i = Len(dom))
           /\ dom[i].text # Empty =>
                \A k \in 1 .. Len(dom) : k # i => dom[k].text.turn # dom[i].text.turn
  BY Typed DEF IInv, TypeOK, ScreenInv, OneOfTurn, BlocksOk

LEMMA RewriteStep ==
    ASSUME IInv, running, Still, NEW i \in 1 .. Len(dom), Rewrite(i)
    PROVE  IInv'
<1>1. PICK n \in 1 .. Long \ {dom[i].text.len} :
          /\ n > dom[i].text.len \/ 2 * n >= Long
          /\ dom' = [dom EXCEPT ![i].text.len = n]
  BY DEF Rewrite
<1>2. /\ dom[i].text # Empty /\ dom[i].id \notin unread
      /\ ids' = ids /\ turns' = turns /\ unread' = unread
  BY DEF Rewrite, ReadSince
<1> DEFINE x == [dom[i].text EXCEPT !.len = n]
<1>3. dom[i].text \in Texts /\ dom[i] \in Blocks
  BY <1>2, ScreenFacts
<1>4. x \in Texts /\ x.turn = dom[i].text.turn /\ x.len = n
  BY <1>1, <1>3 DEF Texts
<1>5. x # Empty
  BY <1>4, OfText
<1>6. dom' = [dom EXCEPT ![i].text = x]
  BY <1>1
<1> HIDE DEF x
<1>7. dom \in Seq(Blocks) /\ turns \in 0 .. MaxTurns /\ turns \in Int /\ unread \in SUBSET Ids
  BY DEF IInv, TypeOK
<1>8. dom'[i].id = dom[i].id /\ dom'[i].text = x
  BY <1>4, <1>6, <1>7, Rewritten
<1>9. OkAfter(dom'[i], i = Len(dom))
  <2>1. /\ open' = open /\ done' = done /\ seen' = seen /\ \A t : SaidAfter(t) <=> Said(t)
    BY DEF Still, Said, SaidAfter
  <2>2. BlockOk(dom[i], i = Len(dom))
    BY ScreenFacts
  <2>3. ASSUME NEW j \in 1 .. Len(open), Follows(dom[i], open[j])
        PROVE  Follows(dom'[i], open[j])
    <3>1. open[j].text.len \in Int /\ dom[i].text.len \in Int /\ n \in Int /\ Long \in Int
      <4>1. open[j].text \in Texts
        BY <1>7, Typed DEF IInv
      <4> QED
        BY <1>3, <4>1, BoundsAssumption, OfText
    <3>2. 2 * n >= Long \/ n >= open[j].text.len
      BY <1>1, <2>3, <3>1 DEF Follows
    <3> QED
      BY <1>4, <1>8, <2>3, <3>2 DEF Follows
  <2>4. CASE Heard(dom[i].text.turn)
    <3>1. \/ \E j \in 1 .. Len(open) : Follows(dom'[i], open[j])
          \/ dom[i].id \in done /\ Said(dom[i].text.turn) /\ ~(i = Len(dom))
      BY <1>2, <2>2, <2>3, <2>4 DEF BlockOk
    <3> QED
      BY <1>4, <1>5, <1>8, <2>1, <2>4, <3>1 DEF OkAfter, Heard
  <2>5. CASE ~Heard(dom[i].text.turn)
    BY <1>2, <1>4, <1>5, <1>8, <2>1, <2>2, <2>5 DEF OkAfter, BlockOk, Heard
  <2> QED
    BY <2>4, <2>5
<1>10. /\ x.turn <= turns' /\ turns <= turns'
       /\ \A k \in 1 .. Len(dom) : k # i => dom[k].text.turn # x.turn
  BY <1>2, <1>4, <1>7, ScreenFacts
<1> QED
  BY <1>2, <1>4, <1>6, <1>7, <1>9, <1>10, RewrittenStep

LEMMA ClearStep ==
    ASSUME IInv, running, Still, NEW i \in 1 .. Len(dom), Clear(i)
    PROVE  IInv'
<1>1. /\ dom' = [dom EXCEPT ![i].text = Empty] /\ ids' = ids /\ turns' = turns
      /\ unread' = unread \cup {dom[i].id}
  BY DEF Clear
<1>2. dom \in Seq(Blocks) /\ turns \in 0 .. MaxTurns /\ turns \in Int /\ turns >= 0 /\ unread \in SUBSET Ids
      /\ Empty \in Texts \cup {Empty}
  BY DEF IInv, TypeOK
<1>3. dom'[i].id = dom[i].id /\ dom'[i].text = Empty
  BY <1>1, <1>2, Rewritten
<1>4. OkAfter(dom'[i], i = Len(dom))
  BY <1>1, <1>3 DEF OkAfter
<1>5. dom[i].id \in Ids
  BY ScreenFacts
<1>6. Empty.turn <= turns' /\ turns <= turns' /\ unread' \in SUBSET Ids /\ unread \in SUBSET unread'
  BY <1>1, <1>2, <1>5 DEF Empty
<1> QED
  BY <1>1, <1>2, <1>4, <1>6, RewrittenStep

LEMMA ReuseStep ==
    ASSUME IInv, running, Still, NEW i \in 1 .. Len(dom), Reuse(i)
    PROVE  IInv'
<1>1. /\ i = Len(dom) /\ turns < MaxTurns /\ dom[i].id \notin unread
      /\ dom' = [dom EXCEPT ![i].text = NextTurn] /\ ids' = ids /\ turns' = turns + 1
      /\ dom[i].text = Empty \/ (dom[i].text # Empty /\ dom[i].text.len = Long /\ seen[dom[i].text.turn].len = Long)
      /\ unread' = IF dom[i].text = Empty THEN unread ELSE unread \cup {dom[i].id}
  BY DEF Reuse, ReadSince
<1>2. /\ dom \in Seq(Blocks) /\ turns \in Int /\ turns >= 0 /\ MaxTurns \in Int /\ unread \in SUBSET Ids
  BY BoundsAssumption DEF IInv, TypeOK
<1>3. /\ NextTurn \in Texts /\ NextTurn # Empty /\ NextTurn.turn = turns + 1 /\ NextTurn.len = 1
      /\ ~Heard(turns + 1)
      /\ \A k \in 1 .. Len(dom) : dom[k].text.turn # turns + 1
  BY <1>1, NextIsNew
<1>4. dom'[i].id = dom[i].id /\ dom'[i].text = NextTurn
  BY <1>1, <1>2, <1>3, Rewritten
<1>5. dom[i].id \in Ids /\ BlockOk(dom[i], TRUE)
  <2>1. BlockOk(dom[i], i = Len(dom)) /\ dom[i].id \in Ids
    BY ScreenFacts
  <2> QED
    BY <1>1, <2>1 DEF BlockOk
<1>6. OkAfter(dom'[i], i = Len(dom))
  <2>1. open' = open /\ done' = done /\ seen' = seen
    BY DEF Still
  <2>2. /\ dom[i].id \notin done
        /\ \A j \in 1 .. Len(open) : open[j].id = dom[i].id =>
              dom[i].id \in unread' /\ open[j].text.len = Long
    <3>1. CASE dom[i].text = Empty
      BY <1>1, <1>5, <3>1 DEF BlockOk, Opened
    <3>2. CASE dom[i].text # Empty /\ dom[i].text.len = Long /\ seen[dom[i].text.turn].len = Long
      <4>1. Heard(dom[i].text.turn)
        BY <3>2, BoundsAssumption DEF Heard
      <4>2. PICK j \in 1 .. Len(open) : Follows(dom[i], open[j])
        BY <1>5, <3>2, <4>1 DEF BlockOk
      <4>3. /\ open[j].id = dom[i].id /\ open[j].id \notin done
            /\ seen[open[j].text.turn] = [at |-> open[j].first, len |-> open[j].text.len]
            /\ open[j].text.turn = dom[i].text.turn
        BY <4>2 DEF IInv, OpenInv, Follows
      <4>4. open[j].text.len = Long
        BY <3>2, <4>3
      <4>5. \A k \in 1 .. Len(open) : open[k].id = dom[i].id => k = j
        BY <4>3 DEF IInv, OpenInv, OneEach
      <4>6. dom[i].id \in unread'
        BY <1>1, <3>2
      <4> QED
        BY <4>3, <4>4, <4>5, <4>6
    <3> QED
      BY <1>1, <3>1, <3>2
  <2> QED
    BY <1>3, <1>4, <2>1, <2>2 DEF OkAfter, Heard
<1>7. /\ turns' \in 0 .. MaxTurns /\ turns <= turns' /\ NextTurn.turn <= turns'
      /\ unread' \in SUBSET Ids /\ unread \in SUBSET unread'
      /\ \A k \in 1 .. Len(dom) : k # i => dom[k].text.turn # NextTurn.turn
  BY <1>1, <1>2, <1>3, <1>5
<1> QED
  BY <1>1, <1>3, <1>6, <1>7, RewrittenStep

LEMMA DropOldestStep ==
    ASSUME IInv, running, Still, NEW i \in 1 .. Len(dom), DropOldest(i)
    PROVE  IInv'
<1>1. dom' = Tail(dom) /\ ids' = ids /\ turns' = turns /\ unread' = unread
  BY DEF DropOldest
<1>2. /\ dom \in Seq(Blocks) /\ ids \in 0 .. MaxIds /\ turns \in 0 .. MaxTurns /\ unread \in SUBSET Ids
      /\ ids \in Int /\ turns \in Int
  BY BoundsAssumption DEF IInv, TypeOK
<1>3. dom # <<>>
  BY <1>2, EmptySeq
<1>4. /\ dom' \in Seq(Blocks) /\ Len(dom') = Len(dom) - 1 /\ Len(dom) \in Nat
      /\ \A k \in 1 .. Len(dom') : dom'[k] = dom[k + 1]
  BY <1>1, <1>2, <1>3, HeadTailProperties, LenProperties
<1>5. \A k \in 1 .. Len(dom') : k + 1 \in 1 .. Len(dom) /\ (k = Len(dom') <=> k + 1 = Len(dom))
  BY <1>4
<1>6. OneEach(dom') /\ OneOfTurn(dom')
  <2>1. /\ \A j, k \in 1 .. Len(dom) : dom[j].id = dom[k].id => j = k
        /\ \A j, k \in 1 .. Len(dom) : dom[j].text # Empty /\ dom[j].text.turn = dom[k].text.turn => j = k
    BY DEF IInv, ScreenInv, OneEach, OneOfTurn
  <2>2. ASSUME NEW j \in 1 .. Len(dom'), NEW k \in 1 .. Len(dom'),
               dom'[j].id = dom'[k].id
               \/ (dom'[j].text # Empty /\ dom'[j].text.turn = dom'[k].text.turn)
        PROVE  j = k
    <3>1. j + 1 = k + 1
      <4>1. dom'[j] = dom[j + 1] /\ dom'[k] = dom[k + 1] /\ j + 1 \in 1 .. Len(dom) /\ k + 1 \in 1 .. Len(dom)
        BY <1>4, <1>5
      <4>2. dom[j + 1].id = dom[k + 1].id
            \/ (dom[j + 1].text # Empty /\ dom[j + 1].text.turn = dom[k + 1].text.turn)
        BY <2>2, <4>1
      <4> QED
        BY <2>1, <4>1, <4>2
    <3> QED
      BY <3>1
  <2> QED
    BY <2>2 DEF OneEach, OneOfTurn
<1>7. \A k \in 1 .. Len(dom') : dom'[k].id <= ids' /\ dom'[k].text.turn <= turns'
  BY <1>1, <1>4, <1>5 DEF IInv, ScreenInv
<1>8. ASSUME NEW k \in 1 .. Len(dom')
      PROVE  OkAfter(dom'[k], k = Len(dom'))
  <2>1. OkAfter(dom[k + 1], k = Len(dom'))
    BY <1>1, <1>5, SameBlock
  <2> QED
    BY <1>4, <2>1
<1>9. /\ ids' \in 0 .. MaxIds /\ turns' \in 0 .. MaxTurns /\ unread' \in SUBSET Ids
      /\ ids <= ids' /\ turns <= turns'
  BY <1>1, <1>2
<1> QED
  BY <1>4, <1>6, <1>7, <1>8, <1>9, StillStep

\* The blocks on screen are fit to be folded, and so are none.
LEMMA ScreenReady ==
    ASSUME IInv, running, now' \in Times
    PROVE  Ready(dom) /\ Ready(<<>>)
<1>1. Ready(dom)
  BY DEF IInv, TypeOK, ScreenInv, Ready
<1>2. <<>> \in Seq(Blocks) /\ Len(<<>>) = 0
  BY EmptySeq
<1>3. OneEach(<<>>) /\ OneOfTurn(<<>>) /\ BlocksOk(<<>>)
  BY <1>2 DEF OneEach, OneOfTurn, BlocksOk
<1> QED
  BY <1>1, <1>2, <1>3 DEF Ready

\* A poll that reads the page.
LEMMA ReadStep ==
    ASSUME IInv, running, now' \in Times, NEW flush \in BOOLEAN, Read(flush), running' = ~flush
    PROVE  IInv'
<1>1. /\ FoldCaptions(dom, flush) /\ seen' = SeenAfter(dom) /\ unread' = {}
      /\ dom' = dom /\ ids' = ids /\ turns' = turns /\ failures' = failures
  BY DEF Read
<1>2. Ready(dom) /\ HintsInOrder
  BY ScreenReady DEF IInv
<1>3. /\ open' \in Seq(Utterances) /\ done' \in SUBSET Ids
      /\ hints' \in Seq([text : Texts, offset : Times]) /\ prev' \in Times
      /\ OpenInv' /\ HintInv' /\ HeardInv' /\ HintsInOrder'
      /\ flush = TRUE => open' = <<>>
  BY <1>1, <1>2, FoldStep
<1>4. seen' \in [Turns -> [at : Times, len : 0 .. Long]]
  BY <1>1, <1>2, SeenFacts
<1>5. TypeOK'
  BY <1>1, <1>3, <1>4 DEF IInv, TypeOK
<1>6. ScreenInv'
  <2>1. \A i \in 1 .. Len(dom) : dom[i].id <= ids /\ dom[i].text.turn <= turns
    BY DEF IInv, ScreenInv
  <2>2. ScreenInv
    BY DEF IInv
  <2>3. /\ \A j \in 1 .. Len(open') : open'[j].id <= ids
        /\ \A id \in done' : id <= ids
        /\ \A t \in Turns : seen'[t].len # 0 => t <= turns
    BY <1>1, <1>2, <2>1, <2>2, FoldBounds
  <2> QED
    BY <1>1, <2>2, <2>3 DEF ScreenInv, OneEach, OneOfTurn, Heard
<1>7. ASSUME running'
      PROVE  BlocksOk(dom)'
  <2>1. flush = FALSE
    BY <1>7
  <2>2. ASSUME NEW i \in 1 .. Len(dom)
        PROVE  OkAfter(dom[i], i = Len(dom))
    <3>1. /\ dom[i].text = Empty => /\ dom[i].id \notin done'
                                    /\ \A j \in 1 .. Len(open') : open'[j].id # dom[i].id
          /\ dom[i].text # Empty => seen'[dom[i].text.turn].len # 0
          /\ dom[i].text # Empty /\ flush = FALSE =>
                \/ \E j \in 1 .. Len(open') : Follows(dom[i], open'[j])
                \/ dom[i].id \in done' /\ SaidAfter(dom[i].text.turn) /\ i # Len(dom)
      BY <1>1, <1>2, FoldBlocks
    <3> QED
      BY <2>1, <3>1 DEF OkAfter
  <2>3. \A i \in 1 .. Len(dom') : OkAfter(dom'[i], i = Len(dom'))
    BY <1>1, <2>2
  <2> QED
    BY <2>3, BlocksAfter
<1> QED
  BY <1>3, <1>5, <1>6, <1>7 DEF IInv

\* The page is gone: what is open is said.
LEMMA FlushFailsStep ==
    ASSUME IInv, FlushFails
    PROVE  IInv'
<1>1. /\ running /\ running' = FALSE /\ FoldCaptions(<<>>, TRUE) /\ now' = now /\ seen' = seen
      /\ dom' = dom /\ ids' = ids /\ turns' = turns /\ unread' = unread /\ failures' = failures
  BY DEF FlushFails, meet
<1>2. Ready(<<>>) /\ HintsInOrder
  BY <1>1, ScreenReady DEF IInv, TypeOK
<1>3. seen' = SeenAfter(<<>>)
  <2>1. \A t \in Turns : {i \in 1 .. Len(<<>>) : <<>>[i].text.turn = t /\ (i = Len(<<>>) \/ ~Said(t))} = {}
    BY EmptySeq
  <2>2. SeenAfter(<<>>) = [t \in Turns |-> seen[t]]
    BY <2>1 DEF SeenAfter
  <2>3. seen = [t \in Turns |-> seen[t]]
    BY DEF IInv, TypeOK
  <2> QED
    BY <1>1, <2>2, <2>3
<1>4. /\ open' \in Seq(Utterances) /\ done' \in SUBSET Ids
      /\ hints' \in Seq([text : Texts, offset : Times]) /\ prev' \in Times
      /\ OpenInv' /\ HintInv' /\ HeardInv' /\ HintsInOrder' /\ open' = <<>>
  BY <1>1, <1>2, <1>3, FoldStep
<1>5. TypeOK'
  BY <1>1, <1>4 DEF IInv, TypeOK
<1>6. ScreenInv'
  <2>1. \A i \in 1 .. Len(<<>>) : <<>>[i].id <= ids /\ <<>>[i].text.turn <= turns
    BY EmptySeq
  <2>2. ScreenInv
    BY DEF IInv
  <2>3. /\ \A j \in 1 .. Len(open') : open'[j].id <= ids
        /\ \A id \in done' : id <= ids
        /\ \A t \in Turns : seen'[t].len # 0 => t <= turns
    BY <1>1, <1>2, <1>3, <2>1, <2>2, FoldBounds
  <2> QED
    BY <1>1, <2>2, <2>3 DEF ScreenInv, OneEach, OneOfTurn, Heard
<1> QED
  BY <1>1, <1>4, <1>5, <1>6 DEF IInv

LEMMA MeetStep ==
    ASSUME IInv, Meet
    PROVE  IInv'
<1>1. running /\ Still
  BY DEF Meet, fold, Still
<1>2. CASE NewBlock
  BY <1>1, <1>2, NewBlockStep
<1>3. CASE \E i \in 1 .. Len(dom) : Rewrite(i) \/ Clear(i) \/ Reuse(i) \/ DropOldest(i)
  BY <1>1, <1>3, RewriteStep, ClearStep, ReuseStep, DropOldestStep
<1> QED
  BY <1>2, <1>3 DEF Meet

\* A step that leaves all the invariant is about but the clock and the failures to come.
LEMMA IdleStep ==
    ASSUME IInv, UNCHANGED <<meet, running, fold, seen>>, now' \in Times, failures' \in 0 .. MaxFailed
    PROVE  IInv'
<1>1. /\ dom' = dom /\ ids' = ids /\ turns' = turns /\ unread' = unread /\ running' = running
      /\ open' = open /\ done' = done /\ prev' = prev /\ hints' = hints /\ seen' = seen
  BY DEF meet, fold
<1>2. TypeOK'
  BY <1>1 DEF IInv, TypeOK
<1>3. ScreenInv' /\ OpenInv' /\ HintInv' /\ HeardInv' /\ HintsInOrder'
  BY <1>1 DEF IInv, ScreenInv, OpenInv, HintInv, HeardInv, HintsInOrder, OneEach, OneOfTurn, Said, Heard
<1>4. (running => BlocksOk(dom))' /\ (~running => open = <<>>)'
  BY <1>1 DEF IInv, BlocksOk, BlockOk, Opened, Said, Heard, Follows
<1> QED
  BY <1>2, <1>3, <1>4 DEF IInv

\* IInv holds at first and every step keeps it.
LEMMA InitStep ==
    ASSUME Init
    PROVE  IInv
<1>1. /\ dom = <<>> /\ ids = 0 /\ turns = 0 /\ unread = {} /\ now = 0 /\ running = TRUE /\ failures = MaxFailed
      /\ open = <<>> /\ done = {} /\ prev = 0 /\ hints = <<>>
      /\ seen = [t \in Turns |-> [at |-> 0, len |-> 0]]
  BY DEF Init
<1>2. TypeOK
  <2>1. 0 \in Times /\ 0 \in 0 .. Long
    BY BoundsAssumption DEF Times
  <2> QED
    BY <1>1, <2>1, BoundsAssumption, EmptySeq DEF TypeOK
<1>3. Len(<<>>) = 0
  BY EmptySeq
<1>4. ScreenInv /\ OpenInv /\ HintInv /\ HeardInv /\ HintsInOrder /\ BlocksOk(dom)
  BY <1>1, <1>3 DEF ScreenInv, OpenInv, HintInv, HeardInv, HintsInOrder, BlocksOk, OneEach, OneOfTurn, Heard
<1> QED
  BY <1>1, <1>2, <1>4 DEF IInv

LEMMA NextStep ==
    ASSUME IInv, [Next]_vars
    PROVE  IInv'
<1>1. now \in Times /\ now \in Int /\ MaxPolls \in Int /\ failures \in 0 .. MaxFailed /\ MaxFailed \in Int
  BY BoundsAssumption DEF IInv, TypeOK, Times
<1>2. CASE Meet
  BY <1>2, MeetStep
<1>3. CASE Poll
  <2>1. running /\ running' = running /\ now' = now + 1 /\ now < MaxPolls /\ Read(FALSE)
    BY <1>3 DEF Poll
  <2>2. now' \in Times
    BY <1>1, <2>1 DEF Times
  <2>3. running' = ~FALSE
    <3>1. running \in BOOLEAN
      BY DEF IInv, TypeOK
    <3> QED
      BY <2>1, <3>1
  <2> QED
    BY <2>1, <2>2, <2>3, ReadStep
<1>4. CASE PollFails
  <2>1. UNCHANGED <<meet, running, fold, seen>> /\ now' \in Times /\ failures' \in 0 .. MaxFailed
    BY <1>1, <1>4 DEF PollFails, Skipped, Times
  <2> QED
    BY <2>1, IdleStep
<1>5. CASE Flush
  <2>1. running /\ running' = ~TRUE /\ now' \in Times /\ Read(TRUE)
    BY <1>1, <1>5 DEF Flush
  <2> QED
    BY <2>1, ReadStep
<1>6. CASE FlushFails
  BY <1>6, FlushFailsStep
<1>7. CASE UNCHANGED vars
  <2>1. UNCHANGED <<meet, running, fold, seen>> /\ now' \in Times /\ failures' \in 0 .. MaxFailed
    BY <1>1, <1>7 DEF vars
  <2> QED
    BY <2>1, IdleStep
<1> QED
  BY <1>2, <1>3, <1>4, <1>5, <1>6, <1>7 DEF Next

\* IInv is an invariant.
LEMMA Inductive == Spec => []IInv
<1>1. Init => IInv
  BY InitStep
<1>2. IInv /\ [Next]_vars => IInv'
  BY NextStep
<1> QED
  BY <1>1, <1>2, PTL DEF Spec

\* All that the caption reader and its history hold has its type.
THEOREM TypeCorrect == Spec => []TypeOK
<1>1. IInv => TypeOK
  BY DEF IInv
<1> QED
  BY <1>1, Inductive, PTL

\* meet.js:98-107, 641-642: when the run is over, everything a poll read was said
\* once, and with the last text read of it.
THEOREM AllAreSaidOnce == Spec => []AllSaidOnce
<1>1. IInv => AllSaidOnce
  <2>1. ASSUME IInv, ~running, NEW t \in Turns, seen[t].len # 0
        PROVE  \E i \in 1 .. Len(hints) :
                  /\ hints[i].text = [turn |-> t, len |-> seen[t].len]
                  /\ \A j \in 1 .. Len(hints) : hints[j].text.turn = t => j = i
    <3>1. open = <<>>
      BY <2>1 DEF IInv
    <3>2. Said(t)
      BY <2>1, <3>1, EmptySeq DEF IInv, HeardInv, Heard
    <3>3. PICK i \in 1 .. Len(hints) : hints[i].text.turn = t
      BY <3>2 DEF Said
    <3>4. hints[i].text \in Texts
      BY <2>1, Typed DEF IInv, TypeOK
    <3>5. hints[i].text = [turn |-> t, len |-> seen[t].len]
      <4>1. hints[i].text = [turn |-> hints[i].text.turn, len |-> hints[i].text.len]
        BY <3>4, OfText
      <4>2. seen[hints[i].text.turn].len = hints[i].text.len
        BY <2>1 DEF IInv, HintInv
      <4> QED
        BY <3>3, <4>1, <4>2
    <3>6. \A j \in 1 .. Len(hints) : hints[j].text.turn = t => j = i
      BY <2>1, <3>3, <3>4, OfText DEF IInv, HintInv, OneOfTurn
    <3> QED
      BY <3>5, <3>6
  <2> QED
    BY <2>1 DEF AllSaidOnce
<1> QED
  BY <1>1, Inductive, PTL

\* recorder/README.md:262, meet.js:145-150: every hint has the time its turn was first
\* read or, if that was later, a turn before it; so offsets never decrease.
THEOREM HintsAreInOrder == Spec => []HintsInOrder
<1>1. IInv => HintsInOrder
  BY DEF IInv
<1> QED
  BY <1>1, Inductive, PTL
=============================================================================
