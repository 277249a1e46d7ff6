--------------------------- MODULE RecorderLemmas ---------------------------
(***************************************************************************)
(* Facts about the operators the recorder is built from: what a batch and  *)
(* the rest of the queue hold, and how sizes add up.                       *)
(***************************************************************************)
EXTENDS RecorderInvariant, FiniteSetTheorems, SequenceTheorems, TLAPS

\* Appending to a queue adds one element to what it holds.
LEMMA RangeOfAppend ==
  ASSUME NEW S, NEW q \in Seq(S), NEW e \in S
  PROVE  /\ Append(q, e) \in Seq(S)
         /\ Range(Append(q, e)) = Range(q) \cup {e}
         /\ Distinct(q) /\ e \notin Range(q) => Distinct(Append(q, e))
<1> DEFINE a == Append(q, e)
<1>1. /\ a \in Seq(S) /\ Len(a) = Len(q) + 1 /\ Len(q) \in Nat
      /\ DOMAIN a = 1..(Len(q) + 1) /\ DOMAIN q = 1..Len(q)
      /\ \A i \in 1..Len(q) : a[i] = q[i]
      /\ a[Len(q) + 1] = e
  BY AppendProperties, LenProperties
<1>2. Range(a) = Range(q) \cup {e}
  <2> HIDE DEF a
  <2> QED BY <1>1 DEF Range
<1>3. ASSUME Distinct(q), e \notin Range(q) PROVE Distinct(a)
  <2> HIDE DEF a
  <2> QED BY <1>1, <1>3 DEF Range, Distinct
<1> QED BY <1>1, <1>2, <1>3

\* Cutting a queue in two shares out what it holds.
LEMMA RangeOfSplit ==
  ASSUME NEW S, NEW q \in Seq(S), NEW n \in 1..Len(q)
  PROVE  LET b == SubSeq(q, 1, n)
             r == SubSeq(q, n + 1, Len(q))
         IN  /\ b \in Seq(S) /\ r \in Seq(S) /\ b # <<>>
             /\ Len(b) = n /\ \A i \in 1..n : b[i] = q[i]
             /\ Range(q) = Range(b) \cup Range(r)
             /\ Distinct(q) => /\ Distinct(b) /\ Distinct(r)
                               /\ Range(b) \cap Range(r) = {}
<1> DEFINE b == SubSeq(q, 1, n)
           r == SubSeq(q, n + 1, Len(q))
<1>1. Len(q) \in Nat /\ DOMAIN q = 1..Len(q) /\ n \in Nat /\ n <= Len(q)
      /\ n >= 1 /\ \A i \in 1..Len(q) : q[i] \in S
  BY LenProperties
<1>2. /\ b \in Seq(S) /\ Len(b) = n
      /\ \A i \in 1..n : b[i] = q[i]
  BY <1>1, SubSeqProperties
<1>3. /\ r \in Seq(S) /\ Len(r) = Len(q) - n
      /\ \A i \in 1..(Len(q) - n) : r[i] = q[i + n]
  <2>1. n + 1 \in Int /\ Len(q) \in Int
        /\ \A i \in (n + 1)..Len(q) : q[i] \in S
    BY <1>1
  <2>2. /\ r \in Seq(S)
        /\ Len(r) = IF n + 1 <= Len(q) THEN Len(q) - (n + 1) + 1 ELSE 0
        /\ \A i \in 1..(Len(q) - (n + 1) + 1) : r[i] = q[n + 1 + i - 1]
    BY <2>1, SubSeqProperties
  <2> HIDE DEF r
  <2>3. Len(q) - (n + 1) + 1 = Len(q) - n
    BY <1>1
  <2>4. \A i \in 1..(Len(q) - n) : n + 1 + i - 1 = i + n
    BY <1>1
  <2>5. Len(r) = Len(q) - n
    <3>1. CASE n + 1 <= Len(q)
      BY <2>2, <2>3, <3>1
    <3>2. CASE ~(n + 1 <= Len(q))
      <4>1. \A k, m \in Nat : m <= k /\ ~(m + 1 <= k) => k - m = 0
        OBVIOUS
      <4>2. Len(q) - n = 0
        BY <1>1, <3>2, <4>1
      <4> QED BY <2>2, <3>2, <4>2
    <3> QED BY <3>1, <3>2
  <2> QED BY <2>2, <2>3, <2>4, <2>5
<1>4. DOMAIN b = 1..n /\ DOMAIN r = 1..(Len(q) - n)
  BY <1>2, <1>3, LenProperties
<1> HIDE DEF b, r
<1>5. Range(b) = {q[i] : i \in 1..n}
  BY <1>2, <1>4 DEF Range
<1>6. Range(r) = {q[i] : i \in (n + 1)..Len(q)}
  <2>1. ASSUME NEW x \in Range(r) PROVE \E i \in (n + 1)..Len(q) : x = q[i]
    BY <1>1, <1>3, <1>4 DEF Range
  <2>2. ASSUME NEW i \in (n + 1)..Len(q) PROVE q[i] \in Range(r)
    <3>1. i - n \in 1..(Len(q) - n) /\ (i - n) + n = i
      BY <1>1
    <3> QED BY <1>3, <1>4, <3>1 DEF Range
  <2> QED BY <2>1, <2>2
<1>7. Range(q) = Range(b) \cup Range(r)
  <2>1. Range(q) = {q[i] : i \in 1..Len(q)}
    BY <1>1 DEF Range
  <2>2. 1..Len(q) = (1..n) \cup ((n + 1)..Len(q))
    BY <1>1
  <2> QED BY <1>5, <1>6, <2>1, <2>2
<1>8. ASSUME Distinct(q)
      PROVE  Distinct(b) /\ Distinct(r) /\ Range(b) \cap Range(r) = {}
  <2>1. Distinct(b)
    BY <1>1, <1>2, <1>4, <1>8 DEF Distinct
  <2>2. Distinct(r)
    <3> SUFFICES ASSUME NEW i \in DOMAIN r, NEW j \in DOMAIN r, r[i] = r[j]
                 PROVE  i = j
      BY DEF Distinct
    <3>1. i + n \in DOMAIN q /\ j + n \in DOMAIN q /\ q[i + n] = q[j + n]
      BY <1>1, <1>3, <1>4
    <3>2. i + n = j + n
      BY <1>8, <3>1 DEF Distinct
    <3> QED BY <1>1, <1>4, <3>2
  <2>3. Range(b) \cap Range(r) = {}
    BY <1>1, <1>5, <1>6, <1>8 DEF Distinct
  <2> QED BY <2>1, <2>2, <2>3
<1>9. b # <<>>
  BY <1>1, <1>2, EmptySeq
<1> QED BY <1>2, <1>3, <1>7, <1>8, <1>9 DEF b, r

\* What a queue holds is finite.
LEMMA RangeIsFinite ==
  ASSUME NEW S, NEW q \in Seq(S)
  PROVE  IsFiniteSet(Range(q)) /\ Range(q) \subseteq S
<1>1. Len(q) \in Nat /\ q \in [1..Len(q) -> S]
  BY LenProperties
<1>2. IsFiniteSet(1..Len(q))
  BY <1>1, FS_Interval
<1>3. q \in Surjection(1..Len(q), Range(q))
  BY <1>1 DEF Surjection, Range
<1> QED BY <1>1, <1>2, <1>3, FS_Surjection DEF Range

\* The bytes reserved for a finite set of envelopes are a number.
LEMMA BytesOfSet ==
  ASSUME NEW S, IsFiniteSet(S)
  PROVE  /\ ReservedBytes(S) \in Nat
         /\ IsFiniteSet({b \in S \X (1..MaxCandidateBytes) :
                           b[2] <= Bytes[b[1]]})
<1>1. IsFiniteSet(1..MaxCandidateBytes)
  BY RecorderAssumption, FS_Interval
<1>2. IsFiniteSet(S \X (1..MaxCandidateBytes))
  BY <1>1, FS_Product
<1> DEFINE T == {b \in S \X (1..MaxCandidateBytes) : b[2] <= Bytes[b[1]]}
<1>3. IsFiniteSet(T)
  BY <1>2, FS_Subset
<1> QED BY <1>3, FS_CardinalityType DEF ReservedBytes

\* Disjoint sets of envelopes reserve the sum of their bytes.
LEMMA BytesOfUnion ==
  ASSUME NEW S, NEW T, IsFiniteSet(S), IsFiniteSet(T), S \cap T = {}
  PROVE  ReservedBytes(S \cup T) = ReservedBytes(S) + ReservedBytes(T)
<1> DEFINE B(X) == {b \in X \X (1..MaxCandidateBytes) : b[2] <= Bytes[b[1]]}
<1>1. IsFiniteSet(B(S)) /\ IsFiniteSet(B(T))
  BY BytesOfSet
<1>2. B(S \cup T) = B(S) \cup B(T) /\ B(S) \cap B(T) = {}
  OBVIOUS
<1>3. Cardinality(B(S) \cup B(T)) = Cardinality(B(S)) + Cardinality(B(T))
  <2>1. /\ Cardinality(B(S)) \in Nat /\ Cardinality(B(T)) \in Nat
    BY <1>1, FS_CardinalityType
  <2>2. Cardinality(B(S) \cup B(T))
          = Cardinality(B(S)) + Cardinality(B(T)) - Cardinality({})
    BY <1>1, <1>2, FS_Union
  <2> QED BY <2>1, <2>2, FS_EmptySet
<1> QED BY <1>2, <1>3 DEF ReservedBytes

\* One admissible envelope reserves its own bytes.
LEMMA BytesOfOne ==
  ASSUME NEW e \in Envelopes, Bytes[e] <= MaxCandidateBytes
  PROVE  ReservedBytes({e}) = Bytes[e]
<1>1. Bytes[e] \in Nat \ {0} /\ MaxCandidateBytes \in Nat
  BY RecorderAssumption
<1> DEFINE B == {b \in {e} \X (1..MaxCandidateBytes) : b[2] <= Bytes[b[1]]}
           f == [i \in 1..Bytes[e] |-> <<e, i>>]
<1>2. f \in Bijection(1..Bytes[e], B)
  <2>1. f \in [1..Bytes[e] -> B]
    BY <1>1
  <2>2. f \in Injection(1..Bytes[e], B)
    BY <2>1 DEF Injection, IsInjective
  <2>3. \A b \in B : \E i \in 1..Bytes[e] : f[i] = b
    BY <1>1
  <2>4. f \in Surjection(1..Bytes[e], B)
    BY <2>1, <2>3 DEF Surjection
  <2> QED BY <2>2, <2>4 DEF Bijection
<1>3. IsFiniteSet(1..Bytes[e]) /\ Cardinality(1..Bytes[e]) = Bytes[e]
  <2>1. 1 \in Int /\ Bytes[e] \in Int /\ Bytes[e] >= 1
    BY <1>1
  <2> QED BY <2>1, FS_Interval
<1>4. ExistsBijection(1..Bytes[e], B)
  BY <1>2 DEF ExistsBijection
<1> QED BY <1>3, <1>4, FS_Bijection DEF ReservedBytes

\* Nothing reserves nothing.
LEMMA SizeOfNothing ==
  Cardinality({}) = 0 /\ ReservedBytes({}) = 0
<1>1. {b \in {} \X (1..MaxCandidateBytes) : b[2] <= Bytes[b[1]]} = {}
  OBVIOUS
<1> QED BY <1>1, FS_EmptySet DEF ReservedBytes

\* Two finite sets that share nothing have the sum of their sizes.
LEMMA SizeOfUnion ==
  ASSUME NEW S, NEW T, IsFiniteSet(S), IsFiniteSet(T), S \cap T = {}
  PROVE  /\ Cardinality(S) \in Nat /\ Cardinality(T) \in Nat
         /\ ReservedBytes(S) \in Nat /\ ReservedBytes(T) \in Nat
         /\ Cardinality(S \cup T) = Cardinality(S) + Cardinality(T)
         /\ ReservedBytes(S \cup T) = ReservedBytes(S) + ReservedBytes(T)
<1>1. Cardinality(S) \in Nat /\ Cardinality(T) \in Nat
  BY FS_CardinalityType
<1>2. Cardinality(S \cup T)
        = Cardinality(S) + Cardinality(T) - Cardinality({})
  BY FS_Union
<1>3. Cardinality(S \cup T) = Cardinality(S) + Cardinality(T)
  BY <1>1, <1>2, FS_EmptySet
<1> QED BY <1>1, <1>3, BytesOfSet, BytesOfUnion
=============================================================================
