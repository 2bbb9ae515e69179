-------------------------- MODULE RateLimiterProofs --------------------------
(***************************************************************************)
(* The bound of RateLimiter for any number of callers, any quota, window   *)
(* and clock, and any delay between clock and lock up to the window.       *)
(***************************************************************************)
EXTENDS RateLimiter, FiniteSetTheorems, SequenceTheorems, TLAPS

USE LimiterAssumption

LimiterSpec == LimiterInit /\ [][LimiterNext]_limiterVars

-----------------------------------------------------------------------------
(***************************************************************************)
(* The inductive invariant.  The entries are what is left of the admitted  *)
(* calls once the first of them are dropped, and what is dropped is too    *)
(* old to share a window with a caller that may still come to the lock.    *)
(***************************************************************************)

LimiterType ==
  /\ clock \in Nat /\ now \in [Call -> Nat \cup {Untimed}]
  /\ entries \in Seq(Nat) /\ admitted \in Seq(Nat)

\* No one holds a time for longer than Skew.
Punctual == \A c \in Call : now[c] # Untimed => now[c] <= clock /\ clock - now[c] <= Skew

Dropped == Len(admitted) - Len(entries)

Suffix ==
  /\ Len(entries) <= Len(admitted)
  /\ \A i \in 1 .. Len(entries) : entries[i] = admitted[Dropped + i]

Span == Window - Skew

DroppedIsOld == \A i \in 1 .. Dropped :
  /\ admitted[i] + Span < clock
  /\ \A c \in Call : now[c] # Untimed => admitted[i] + Span < now[c]

Within(t) == {i \in DOMAIN admitted : admitted[i] \in t .. (t + Span)}

Sparse == \A t \in Nat : Cardinality(Within(t)) <= Quota

LimiterInv == LimiterType /\ Punctual /\ Suffix /\ DroppedIsOld /\ Sparse

-----------------------------------------------------------------------------
\* The numbers a window is made of.
LEMMA SpanType == /\ Span \in Nat /\ Span <= Window
                  /\ Window \in Nat /\ Skew \in Nat /\ Quota \in Nat /\ Quota >= 1
                  /\ Span + Skew = Window
BY DEF Span

LEMMA Count ==
  ASSUME NEW n \in Nat
  PROVE  IsFiniteSet(1 .. n) /\ Cardinality(1 .. n) = n
<1>1. IsFiniteSet(1 .. n) /\ Cardinality(1 .. n) = IF 1 > n THEN 0 ELSE n - 1 + 1  BY FS_Interval
<1>2. (IF 1 > n THEN 0 ELSE n - 1 + 1) = n  OBVIOUS
<1> QED  BY <1>1, <1>2

\* What is dropped from the front is a prefix, and all of it is before the cutoff.
LEMMA SinceIsSuffix ==
  ASSUME entries \in Seq(Nat), NEW cutoff \in Int
  PROVE  \E k \in 0 .. Len(entries) :
           /\ Since(cutoff) = SubSeq(entries, k + 1, Len(entries))
           /\ \A i \in 1 .. k : entries[i] < cutoff
<1> DEFINE n == Len(entries)
           P == {i \in DOMAIN entries : \A j \in 1..i : entries[j] < cutoff}
           k == Cardinality(P)
<1>1. n \in Nat /\ DOMAIN entries = 1 .. n
  OBVIOUS
<1>2. IsFiniteSet(1 .. n) /\ Cardinality(1 .. n) = n
  BY <1>1, Count
<1>3. IsFiniteSet(P) /\ k <= n
  BY <1>1, <1>2, FS_Subset
<1>4. k \in Nat
  BY <1>3, FS_CardinalityType
<1>5. ASSUME NEW i \in P PROVE i <= k
  <2>1. i \in 1 .. n /\ 1 .. i \subseteq P
    BY <1>1
  <2>2. Cardinality(1 .. i) = i
    BY <2>1, Count
  <2>3. Cardinality(1 .. i) <= Cardinality(P)
    BY <2>1, <1>3, FS_Subset
  <2> QED BY <2>2, <2>3
<1>6. P \subseteq 1 .. k
  BY <1>1, <1>4, <1>5
<1>7. IsFiniteSet(1 .. k) /\ Cardinality(1 .. k) = k
  BY <1>4, Count
<1>8. P = 1 .. k
  BY <1>6, <1>7, FS_Subset
<1>9. \A i \in 1 .. k : entries[i] < cutoff
  BY <1>8, <1>4
<1>10. Since(cutoff) = SubSeq(entries, k + 1, Len(entries))
  BY DEF Since
<1> HIDE DEF k
<1> QED BY <1>1, <1>3, <1>4, <1>9, <1>10

\* What the limiter keeps of the entries for a caller with time T, and what
\* it has dropped by then.
LEMMA KeptAndDropped ==
  ASSUME LimiterInv, NEW c \in Call, now[c] # Untimed
  PROVE  LET v == Since(now[c] - Window)
             d == Len(admitted) - Len(v)
         IN  /\ v \in Seq(Nat) /\ d \in Nat /\ Len(v) <= Len(admitted)
             /\ \A i \in 1 .. Len(v) : v[i] = admitted[d + i]
             /\ \A i \in 1 .. d : /\ admitted[i] + Span < clock
                                  /\ \A x \in Call : now[x] # Untimed => admitted[i] + Span < now[x]
<1> DEFINE T == now[c]
           v == Since(T - Window)
           d == Len(admitted) - Len(v)
<1>1. /\ clock \in Nat /\ entries \in Seq(Nat) /\ admitted \in Seq(Nat)
      /\ \A x \in Call : now[x] # Untimed => now[x] \in Nat /\ now[x] <= clock /\ clock - now[x] <= Skew
      /\ T \in Nat /\ T - Window \in Int
      /\ Len(entries) \in Nat /\ Len(admitted) \in Nat
  BY SpanType DEF LimiterInv, LimiterType, Punctual
<1>2. PICK k \in 0 .. Len(entries) :
        /\ v = SubSeq(entries, k + 1, Len(entries))
        /\ \A i \in 1 .. k : entries[i] < T - Window
  BY <1>1, SinceIsSuffix
<1>3. /\ v \in Seq(Nat) /\ Len(v) = Len(entries) - k
      /\ \A i \in 1 .. Len(v) : v[i] = entries[k + i]
  <2> DEFINE n == Len(entries)
             w == SubSeq(entries, k + 1, n)
  <2>1. k + 1 \in 1 .. n + 1 /\ n \in (k + 1) - 1 .. n
    BY <1>1
  <2>2. /\ w \in Seq(Nat) /\ Len(w) = n - (k + 1) + 1
        /\ \A i \in 1 .. n - (k + 1) + 1 : w[i] = entries[(k + 1) + i - 1]
    <3>1. n \in Nat /\ n \in Int /\ k + 1 \in Int /\ k + 1 <= n + 1
      BY <1>1
    <3>2. \A i \in k + 1 .. n : entries[i] \in Nat
      BY <1>1
    <3>3. (IF k + 1 <= n THEN n - (k + 1) + 1 ELSE 0) = n - (k + 1) + 1
      BY <3>1
    <3> QED BY <3>1, <3>2, <3>3, SubSeqProperties
  <2>3. n - (k + 1) + 1 = n - k /\ \A i \in Nat : (k + 1) + i - 1 = k + i
    BY <1>1
  <2>4. v = w
    BY <1>2
  <2> HIDE DEF w, v, n
  <2>5. /\ v \in Seq(Nat) /\ Len(v) = n - k
        /\ \A i \in 1 .. n - k : v[i] = entries[k + i]
    BY <2>2, <2>3, <2>4
  <2> QED BY <2>5 DEF n
<1>4. /\ Len(entries) <= Len(admitted)
      /\ \A i \in 1 .. Len(entries) : entries[i] = admitted[Dropped + i]
      /\ Dropped \in Nat /\ d = Dropped + k /\ d \in Nat
  <2>1. /\ Len(entries) <= Len(admitted)
        /\ \A i \in 1 .. Len(entries) : entries[i] = admitted[Dropped + i]
    BY DEF LimiterInv, Suffix
  <2>2. k \in Nat /\ Len(v) = Len(entries) - k
    BY <1>1, <1>3
  <2> HIDE DEF v
  <2>3. Dropped \in Nat /\ d = Dropped + k /\ d \in Nat
    BY <2>1, <2>2, <1>1 DEF Dropped
  <2> QED BY <2>1, <2>3
<1>5. \A i \in 1 .. Len(v) : v[i] = admitted[d + i]
  <2> SUFFICES ASSUME NEW i \in 1 .. Len(v) PROVE v[i] = admitted[d + i]
    OBVIOUS
  <2>1. k + i \in 1 .. Len(entries) /\ v[i] = entries[k + i]
    BY <1>1, <1>3
  <2>2. entries[k + i] = admitted[Dropped + (k + i)]
    BY <2>1, <1>4
  <2>3. Dropped + (k + i) = d + i
    BY <1>4
  <2> QED BY <2>1, <2>2, <2>3
<1> HIDE DEF v
<1>6. ASSUME NEW i \in 1 .. d
      PROVE  /\ admitted[i] + Span < clock
             /\ \A x \in Call : now[x] # Untimed => admitted[i] + Span < now[x]
  <2>1. CASE i <= Dropped
    BY <2>1, <1>4 DEF LimiterInv, DroppedIsOld
  <2>2. CASE i > Dropped
    <3>1. i - Dropped \in 1 .. k /\ i - Dropped \in 1 .. Len(entries)
      BY <2>2, <1>1, <1>4
    <3>2. entries[i - Dropped] < T - Window /\ entries[i - Dropped] = admitted[Dropped + (i - Dropped)]
      BY <3>1, <1>2, <1>4
    <3>3. Dropped + (i - Dropped) = i
      BY <1>4
    <3>4. admitted[i] < T - Window /\ admitted[i] \in Nat
      <4>1. i \in 1 .. Len(admitted)
        BY <3>1, <1>1, <1>4
      <4>2. admitted[i] \in Nat
        <5>1. admitted \in Seq(Nat)
          BY <1>1
        <5> QED BY <4>1, <5>1
      <4>3. entries[i - Dropped] = admitted[i]
        BY <3>2, <3>3
      <4> HIDE DEF T
      <4> QED BY <4>2, <4>3, <3>2
    <3>5. admitted[i] + Span < T - Skew /\ T <= clock
      <4> HIDE DEF T
      <4>1. T \in Nat /\ T <= clock
        BY <1>1 DEF T
      <4> QED BY <4>1, <3>4, SpanType
    <3>6. ASSUME NEW x \in Call, now[x] # Untimed PROVE admitted[i] + Span < now[x]
      <4>1. now[x] \in Nat /\ clock - now[x] <= Skew
        BY <3>6, <1>1
      <4>2. T - Skew <= clock - Skew /\ clock - Skew <= now[x]
        <5> HIDE DEF T
        <5>1. T \in Nat /\ T <= clock
          BY <1>1 DEF T
        <5> QED BY <5>1, <4>1, <1>1, SpanType
      <4>3. admitted[i] \in Nat /\ admitted[i] + Span < T - Skew
        BY <3>4, <3>5
      <4>4. T \in Nat /\ now[x] \in Nat
        BY <4>1, <1>1
      <4> HIDE DEF T
      <4> QED BY <4>2, <4>3, <4>4, <1>1, SpanType
    <3>7. admitted[i] + Span < clock
      <4> HIDE DEF T
      <4>1. T \in Nat /\ T <= clock
        BY <1>1 DEF T
      <4> QED BY <4>1, <3>4, <3>5, <1>1, SpanType
    <3> QED BY <3>6, <3>7
  <2> QED BY <2>1, <2>2, <1>4
<1> HIDE DEF v, d
<1>7. v \in Seq(Nat) /\ d \in Nat /\ Len(v) <= Len(admitted)
  BY <1>3, <1>4, <1>1 DEF d
<1> QED BY <1>5, <1>6, <1>7 DEF v, d

\* Admitting one more call keeps the windows sparse when the calls before it
\* that may share a window with it are fewer than the quota.
LEMMA AdmitSparse ==
  ASSUME admitted \in Seq(Nat), Sparse, NEW T \in Nat, admitted' = Append(admitted, T),
         NEW d \in 0 .. Len(admitted), Len(admitted) - d < Quota,
         \A i \in 1 .. d : admitted[i] + Span < T
  PROVE  Sparse'
<1> DEFINE n == Len(admitted)
<1>1. /\ n \in Nat /\ DOMAIN admitted = 1 .. n /\ DOMAIN admitted' = 1 .. n + 1
      /\ \A i \in 1 .. n : admitted'[i] = admitted[i] /\ admitted[i] \in Nat
      /\ admitted'[n + 1] = T
      /\ Quota \in Nat /\ Span \in Nat
  BY SpanType
<1> SUFFICES ASSUME NEW t \in Nat PROVE Cardinality(Within(t)') <= Quota
  BY DEF Sparse, Within, Span
<1>2. IsFiniteSet(1 .. n) /\ Within(t) \subseteq 1 .. n
  BY <1>1, Count DEF Within
<1>3. IsFiniteSet(Within(t)) /\ Cardinality(Within(t)) \in Nat
  BY <1>2, FS_Subset, FS_CardinalityType
<1>4. CASE T \notin t .. (t + Span)
  <2>1. Within(t)' = Within(t)
    BY <1>1, <1>4 DEF Within, Span
  <2> QED BY <2>1 DEF Sparse
<1>5. CASE T \in t .. (t + Span)
  <2>1. Within(t)' = Within(t) \cup {n + 1}
    BY <1>1, <1>5 DEF Within, Span
  <2>2. ASSUME NEW i \in Within(t) PROVE i \in d + 1 .. n
    <3>1. i \in 1 .. n /\ admitted[i] \in Nat /\ t <= admitted[i]
      BY <1>1 DEF Within
    <3>2. T <= admitted[i] + Span
      BY <3>1, <1>1, <1>5
    <3>3. ~ i <= d
      BY <3>1, <3>2, <1>1
    <3> QED BY <3>1, <3>3
  <2>3. IsFiniteSet(d + 1 .. n) /\ Cardinality(d + 1 .. n) <= n - d
    <3>1. d + 1 \in Int /\ n \in Int /\ d <= n
      BY <1>1
    <3>2. (IF d + 1 > n THEN 0 ELSE n - (d + 1) + 1) <= n - d
      BY <3>1
    <3> QED BY <3>1, <3>2, FS_Interval
  <2>4. Cardinality(Within(t)) <= Cardinality(d + 1 .. n) /\ Cardinality(d + 1 .. n) \in Nat
    BY <2>2, <2>3, FS_Subset, FS_CardinalityType
  <2>5. Cardinality(Within(t)') <= Cardinality(Within(t)) + 1
    <3>1. Cardinality(Within(t) \cup {n + 1}) =
            IF n + 1 \in Within(t) THEN Cardinality(Within(t)) ELSE Cardinality(Within(t)) + 1
      BY <1>3, FS_AddElement
    <3> QED BY <2>1, <3>1, <1>3
  <2>6. Cardinality(Within(t)') \in Nat
    BY <2>1, <1>3, FS_AddElement, FS_CardinalityType
  <2> QED BY <2>3, <2>4, <2>5, <2>6, <1>1, <1>3
<1> QED BY <1>4, <1>5

\* A call that is refused or admitted keeps the invariant.
LEMMA AllowKeeps ==
  ASSUME LimiterInv, NEW c \in Call, Allow(c)
  PROVE  LimiterInv'
<1> DEFINE T == now[c]
           v == Since(T - Window)
           d == Len(admitted) - Len(v)
<1>1. /\ clock \in Nat /\ clock' = clock /\ admitted \in Seq(Nat) /\ T # Untimed
      /\ now \in [Call -> Nat \cup {Untimed}] /\ T \in Nat
      /\ now' = [now EXCEPT ![c] = Untimed]
  BY DEF Allow, LimiterInv, LimiterType
<1>2. /\ v \in Seq(Nat) /\ d \in Nat /\ Len(v) <= Len(admitted)
      /\ \A i \in 1 .. Len(v) : v[i] = admitted[d + i]
      /\ \A i \in 1 .. d : /\ admitted[i] + Span < clock
                           /\ \A x \in Call : now[x] # Untimed => admitted[i] + Span < now[x]
  BY <1>1, KeptAndDropped
<1>3. \/ Len(v) >= Quota /\ entries' = v /\ admitted' = admitted
      \/ Len(v) < Quota /\ entries' = Append(v, T) /\ admitted' = Append(admitted, T)
  BY <1>2, SpanType DEF Allow
<1>4. LimiterType' /\ Punctual'
  <2> HIDE DEF v
  <2>1. entries' \in Seq(Nat) /\ admitted' \in Seq(Nat)
    <3> HIDE DEF T
    <3>1. T \in Nat
      BY <1>1 DEF T
    <3>2. v \in Seq(Nat) /\ admitted \in Seq(Nat)
      BY <1>1, <1>2
    <3>3. Append(v, T) \in Seq(Nat) /\ Append(admitted, T) \in Seq(Nat)
      BY <3>1, <3>2
    <3> QED BY <3>2, <3>3, <1>3
  <2>2. now' \in [Call -> Nat \cup {Untimed}]
    BY <1>1
  <2>3. Punctual'
    BY <1>1 DEF LimiterInv, Punctual
  <2> QED BY <1>1, <2>1, <2>2, <2>3 DEF LimiterType
<1> HIDE DEF v
<1>5. CASE entries' = v /\ admitted' = admitted
  <2>1. Dropped' = d
    BY <1>5 DEF Dropped
  <2>2. Suffix'
    BY <1>2, <1>5, <2>1 DEF Suffix
  <2>3. DroppedIsOld'
    BY <1>1, <1>2, <1>5, <2>1 DEF DroppedIsOld, Span
  <2>4. Sparse'
    BY <1>5 DEF LimiterInv, Sparse, Within, Span
  <2> QED BY <1>4, <2>2, <2>3, <2>4 DEF LimiterInv
<1>6. CASE Len(v) < Quota /\ entries' = Append(v, T) /\ admitted' = Append(admitted, T)
  <2>0. Len(v) \in Nat /\ Len(admitted) \in Nat
    BY <1>1, <1>2
  <2>1. Len(entries') = Len(v) + 1 /\ Len(admitted') = Len(admitted) + 1 /\ Dropped' = d
    BY <1>1, <1>2, <1>6, <2>0 DEF Dropped
  <2>2. ASSUME NEW i \in 1 .. Len(v) + 1 PROVE entries'[i] = admitted'[d + i]
    <3>1. CASE i = Len(v) + 1
      <4>1. d + i = Len(admitted) + 1
        BY <3>1, <2>0
      <4> QED BY <4>1, <3>1, <1>1, <1>2, <1>6
    <3>2. CASE i \in 1 .. Len(v)
      <4>1. d + i \in 1 .. Len(admitted)
        BY <3>2, <2>0, <1>2
      <4>2. admitted'[d + i] = admitted[d + i]
        BY <4>1, <1>1, <1>6
      <4>3. entries'[i] = v[i]
        BY <3>2, <2>0, <1>1, <1>2, <1>6
      <4> QED BY <4>2, <4>3, <3>2, <1>2
    <3> QED BY <3>1, <3>2, <2>0
  <2>3. Suffix'
    BY <2>0, <2>1, <2>2, <1>2 DEF Suffix
  <2>4. \A i \in 1 .. d : admitted'[i] = admitted[i]
    BY <1>1, <1>2, <1>6, <2>0
  <2>5. DroppedIsOld'
    BY <1>1, <1>2, <2>1, <2>4 DEF DroppedIsOld, Span
  <2>6. Sparse'
    <3>1. d \in 0 .. Len(admitted) /\ Len(admitted) - d < Quota
      BY <1>2, <1>6, <2>0
    <3>2. \A i \in 1 .. d : admitted[i] + Span < T
      BY <1>1, <1>2
    <3> HIDE DEF d
    <3> QED BY <3>1, <3>2, <1>1, <1>6, AdmitSparse DEF LimiterInv
  <2> QED BY <1>4, <2>3, <2>5, <2>6 DEF LimiterInv
<1> QED BY <1>3, <1>5, <1>6

\* Every other step of the limiter does.
LEMMA NextKeeps == LimiterInv /\ [LimiterNext]_limiterVars => LimiterInv'
<1> SUFFICES ASSUME LimiterInv, [LimiterNext]_limiterVars PROVE LimiterInv'
  OBVIOUS
<1> USE DEF LimiterInv
<1>1. LimiterType
  OBVIOUS
<1>2. ASSUME UNCHANGED <<entries, admitted>> PROVE (Suffix /\ Sparse)' /\ Dropped' = Dropped
  BY <1>2 DEF Suffix, Sparse, Within, Dropped, Span
<1>3. ASSUME NEW i \in 1 .. Dropped PROVE i \in 1 .. Len(admitted) /\ admitted[i] \in Nat
  BY <1>1 DEF LimiterType, Suffix, Dropped
<1>4. CASE Tick
  <2>1. /\ clock \in Nat /\ clock' = clock + 1 /\ now' = now /\ UNCHANGED <<entries, admitted>>
        /\ \A c \in Call : now[c] # Untimed => clock - now[c] < Skew /\ now[c] \in Nat
    BY <1>1, <1>4 DEF Tick, LimiterType
  <2>2. LimiterType'
    BY <1>1, <2>1 DEF LimiterType
  <2>3. Punctual'
    BY <2>1, SpanType DEF Punctual
  <2>4. DroppedIsOld'
    BY <2>1, <1>2, <1>3, SpanType DEF DroppedIsOld, Span
  <2> QED BY <1>2, <2>1, <2>2, <2>3, <2>4
<1>5. ASSUME NEW c \in Call, ReadClock(c) PROVE LimiterInv'
  <2>1. /\ clock \in Nat /\ now \in [Call -> Nat \cup {Untimed}]
        /\ now' = [now EXCEPT ![c] = clock] /\ UNCHANGED <<clock, entries, admitted>>
    BY <1>1, <1>5 DEF ReadClock, LimiterType
  <2>2. LimiterType'
    BY <1>1, <2>1 DEF LimiterType
  <2>3. Punctual'
    BY <2>1, SpanType DEF Punctual
  <2>4. DroppedIsOld'
    BY <2>1, <1>2 DEF DroppedIsOld, Span
  <2> QED BY <1>2, <2>1, <2>2, <2>3, <2>4
<1>6. ASSUME NEW c \in Call, Allow(c) PROVE LimiterInv'
  BY <1>6, AllowKeeps
<1>7. CASE UNCHANGED limiterVars
  BY <1>7, <1>1, <1>2 DEF limiterVars, LimiterType, Punctual, DroppedIsOld, Span
<1> QED BY <1>4, <1>5, <1>6, <1>7 DEF LimiterNext

\* The limiter starts with nothing admitted.
LEMMA InitKeeps == LimiterInit => LimiterInv
<1> SUFFICES ASSUME LimiterInit PROVE LimiterInv
  OBVIOUS
<1>1. LimiterType /\ Punctual /\ Suffix /\ DroppedIsOld
  BY DEF LimiterInit, LimiterType, Punctual, Suffix, DroppedIsOld, Dropped
<1>2. \A t \in Nat : Within(t) = {}
  BY DEF LimiterInit, Within
<1>3. Sparse
  BY <1>2, FS_EmptySet, SpanType DEF Sparse
<1> QED BY <1>1, <1>3 DEF LimiterInv

\* The inductive invariant always holds.
THEOREM LimiterAlways == LimiterSpec => []LimiterInv
BY InitKeeps, NextKeeps, PTL DEF LimiterSpec

\* No window of Window - Skew admits more calls than the quota, although the
\* callers come to the lock in another order than they read the clock and an
\* entry is dropped for good once one of them finds it too old.
THEOREM WindowsAreBounded == LimiterSpec => []RateBound
<1>1. LimiterInv => RateBound
  <2> SUFFICES ASSUME LimiterInv, NEW t \in 0 .. MaxClock
               PROVE  Cardinality({i \in DOMAIN admitted : admitted[i] \in t..(t + Window - Skew)}) <= Quota
    BY DEF RateBound
  <2>1. t + Span = t + Window - Skew /\ t \in Nat
    BY SpanType DEF Span
  <2> QED BY <2>1 DEF LimiterInv, Sparse, Within
<1> QED BY <1>1, LimiterAlways, PTL

=============================================================================
