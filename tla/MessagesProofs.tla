--------------------------- MODULE MessagesProofs ---------------------------
(***************************************************************************)
(* Proofs about Messages, for any bucket, range and limit.                 *)
(***************************************************************************)
EXTENDS Messages, FiniteSetTheorems, TLAPS

\* Every non-empty finite set of integers has a greatest and a least element.
\* A smallest set without one would be larger than one with them by a single
\* element.
LEMMA FiniteHasExtremes ==
    ASSUME NEW S \in SUBSET Int, IsFiniteSet(S), S # {}
    PROVE  /\ \E m \in S : \A k \in S : m >= k
           /\ \E m \in S : \A k \in S : m <= k
<1> DEFINE Fine(T) == /\ \E m \in T : \A k \in T : m >= k
                      /\ \E m \in T : \A k \in T : m <= k
           Wrong == {T \in FiniteSubsetsOf(S) : T # {} /\ ~Fine(T)}
<1>1. FiniteSubsetsOf(S) = SUBSET S
      BY FS_FiniteSubsetsOfFinite
<1>2. ASSUME Wrong # {}
      PROVE  FALSE
  <2>1. PICK T \in Wrong :
            \A U \in Wrong : <<U, T>> \notin StrictSubsetOrdering(S)
        BY <1>2, FS_StrictSubsetOrderingWellFounded, WFMin
  <2>2. T \subseteq S /\ T # {} /\ ~Fine(T)
        BY <1>1
  <2>3. PICK x \in T : TRUE
        BY <2>2
  <2>4. T \ {x} \notin Wrong
    <3>1. <<T \ {x}, T>> \in StrictSubsetOrdering(S)
          BY <2>2, <2>3 DEF StrictSubsetOrdering
    <3>2. QED  BY <2>1, <3>1
  <2>5. T \ {x} = {} \/ Fine(T \ {x})
        BY <1>1, <2>2, <2>4
  <2>6. CASE T \ {x} = {}
        BY <2>2, <2>3, <2>6
  <2>7. CASE Fine(T \ {x})
    <3>1. PICK a \in T \ {x} : \A k \in T \ {x} : a >= k
          BY <2>7
    <3>2. PICK b \in T \ {x} : \A k \in T \ {x} : b <= k
          BY <2>7
    <3>3. T \subseteq Int
          BY <2>2
    <3>4. \E m \in T : \A k \in T : m >= k
          BY <3>1, <3>3, <2>3
    <3>5. \E m \in T : \A k \in T : m <= k
          BY <3>2, <3>3, <2>3
    <3>6. QED  BY <2>2, <3>4, <3>5
  <2>8. QED  BY <2>5, <2>6, <2>7
<1>3. QED  BY <1>1, <1>2

\* What Max and Min choose.
LEMMA MaxIsGreatest ==
    ASSUME NEW S \in SUBSET Int, IsFiniteSet(S), S # {}
    PROVE  Max(S) \in S /\ \A k \in S : Max(S) >= k
BY FiniteHasExtremes DEF Max

LEMMA MinIsLeast ==
    ASSUME NEW S \in SUBSET Int, IsFiniteSet(S), S # {}
    PROVE  Min(S) \in S /\ \A k \in S : Min(S) <= k
BY FiniteHasExtremes DEF Min

\* A sequence without repetitions is as long as the set of its elements.
LEMMA LenIsCardinality ==
    ASSUME NEW s, NEW n \in Nat, DOMAIN s = 1 .. n,
           \A j, k \in 1 .. n : j # k => s[j] # s[k]
    PROVE  IsFiniteSet(ToSet(s)) /\ Cardinality(ToSet(s)) = n
<1> DEFINE f == [j \in 1 .. n |-> s[j]]
<1>1. f \in Bijection(1 .. n, ToSet(s))
      BY DEF Bijection, Injection, Surjection, IsInjective, ToSet
<1>2. ExistsBijection(1 .. n, ToSet(s))
      BY <1>1 DEF ExistsBijection
<1>3. IsFiniteSet(1 .. n) /\ Cardinality(1 .. n) = n
      BY FS_Interval
<1>4. QED  BY <1>2, <1>3, FS_Bijection

-----------------------------------------------------------------------------
(* The inductive invariant.                                                *)

Typed ==
    /\ keys \in SUBSET Time
    /\ from \in Time /\ to \in Time
    /\ max \in Limit
    /\ pc \in {"seek", "back", "read", "reverse", "done"}
    /\ t \in Int
    /\ i \in Nat
    /\ result \in Seq(Int)

InRange == {k \in keys : from <= k /\ k <= to}

\* The messages found, in the order in which the cursor met them: result with
\* the swaps undone that have been made so far.
Found == [j \in 1 .. Len(result) |->
             IF j <= i \/ j > Len(result) - i
             THEN result[Len(result) + 1 - j] ELSE result[j]]

\* What was found is in the range, the latest message first, and no message of
\* the range is missing between two of them.
FoundOK ==
    /\ \A j \in 1 .. Len(result) : Found[j] \in InRange
    /\ \A j, k \in 1 .. Len(result) : j < k => Found[j] > Found[k]
    /\ Len(result) <= max

Seen(k) == \E j \in 1 .. Len(result) : Found[j] = k

\* The loop has all messages of the range, or as many as were asked for and none
\* later than these.
Complete ==
    /\ FoundOK
    /\ \A k \in InRange : Seen(k) \/ \A j \in 1 .. Len(result) : k < Found[j]
    /\ Len(result) = max \/ \A k \in InRange : Seen(k)

\* What the cursor has passed, by where the call stands.
Progress ==
    /\ pc \in {"seek", "back", "read"} => i = 0
    /\ pc \in {"seek", "back"} => result = <<>>
    /\ pc = "back" =>
          /\ t >= to
          /\ \A k \in keys : k >= to => k >= t
          /\ IsNil => \A k \in keys : k < t
    /\ pc = "read" =>
          /\ FoundOK
          /\ \A k \in InRange : Seen(k) \/ k <= t
          /\ \A j \in 1 .. Len(result) : t < Found[j]
          /\ IsNil => \A k \in keys : t < k
          /\ ~IsNil => t <= to
    /\ pc = "reverse" => Complete /\ 2 * i <= Len(result)
    /\ pc = "done" => Complete /\ 2 * i <= Len(result)
                          /\ i >= Len(result) \div 2

IInv == Typed /\ Progress

-----------------------------------------------------------------------------
\* Keys are integers, and the cursor leaves the bucket on one side of them all.
LEMMA CursorPlaces ==
    ASSUME Typed, NEW S \in SUBSET keys
    PROVE  /\ Least(S) \in Int /\ Greatest(S) \in Int
           /\ S = {} => /\ \A k \in Time : Least(S) > k
                        /\ \A k \in Time : Greatest(S) < k
           /\ S # {} => /\ Least(S) \in S /\ \A k \in S : Least(S) <= k
                        /\ Greatest(S) \in S /\ \A k \in S : Greatest(S) >= k
<1>1. Time \subseteq Int /\ Time # {} /\ IsFiniteSet(Time)
      BY TimeAssumption
<1>2. S \subseteq Time /\ IsFiniteSet(S) /\ S \subseteq Int
      BY <1>1, FS_Subset DEF Typed
<1>3. /\ Max(Time) \in Time /\ \A k \in Time : Max(Time) >= k
      /\ Min(Time) \in Time /\ \A k \in Time : Min(Time) <= k
      BY <1>1, MaxIsGreatest, MinIsLeast
<1>4. CASE S = {}
  <2>1. Least(S) = Max(Time) + 1 /\ Greatest(S) = Min(Time) - 1
        BY <1>4 DEF Least, Greatest
  <2>2. Max(Time) \in Int /\ Min(Time) \in Int
        BY <1>1, <1>3
  <2>3. QED  BY <1>1, <1>3, <1>4, <2>1, <2>2
<1>5. CASE S # {}
  <2>1. /\ Max(S) \in S /\ \A k \in S : Max(S) >= k
        /\ Min(S) \in S /\ \A k \in S : Min(S) <= k
        BY <1>2, <1>5, MaxIsGreatest, MinIsLeast
  <2>2. QED  BY <1>2, <1>5, <2>1 DEF Least, Greatest
<1>6. QED  BY <1>4, <1>5

\* Cursor.Prev goes to the next older message, or before all of them.
LEMMA PrevSteps ==
    ASSUME Typed, Prev
    PROVE  /\ t' \in Int
           /\ t' \in keys => t' < t
           /\ \A k \in keys : k < t => k <= t'
           /\ t' \notin keys => \A k \in keys : t' < k
<1> DEFINE S == {k \in keys : k < t}
<1>1. S \in SUBSET keys /\ keys \subseteq Time /\ keys \subseteq Int /\ t \in Int
      BY TimeAssumption DEF Typed
<1>2. t' = Greatest(S)
      BY DEF Prev
<1> HIDE DEF S
<1>3. /\ t' \in Int
      /\ S = {} => \A k \in Time : t' < k
      /\ S # {} => t' \in S /\ \A k \in S : t' >= k
      BY <1>1, <1>2, CursorPlaces
<1>4. CASE S = {}
      BY <1>1, <1>3, <1>4 DEF S
<1>5. CASE S # {}
      BY <1>1, <1>3, <1>5 DEF S
<1>6. QED  BY <1>4, <1>5

LEMMA InitIInv == Init => IInv
BY TimeAssumption DEF Init, IInv, Typed, Progress, args

\* Seek finds the first message that is not older than the range's end.
LEMMA SeekKeeps == IInv /\ Seek => IInv'
<1> SUFFICES ASSUME IInv, Seek
             PROVE  IInv'
    OBVIOUS
<1> DEFINE S == {k \in keys : k >= to}
<1>1. S \in SUBSET keys /\ keys \subseteq Time /\ Time \subseteq Int /\ to \in Int
      /\ to \in Time
      BY TimeAssumption DEF IInv, Typed
<1>2. t' = Least(S)
      BY DEF Seek
<1>3. /\ t' \in Int
      /\ S = {} => \A k \in Time : t' > k
      /\ S # {} => t' \in S /\ \A k \in S : t' <= k
  <2> HIDE DEF S
  <2> QED  BY <1>1, <1>2, CursorPlaces DEF IInv
<1>4. /\ t' >= to
      /\ \A k \in keys : k >= to => k >= t'
      /\ t' \notin keys => \A k \in keys : k < t'
  <2>1. CASE S = {}
        BY <1>1, <1>3, <2>1
  <2>2. CASE S # {}
        BY <1>1, <1>3, <2>2
  <2>3. QED  BY <2>1, <2>2
<1>5. QED  BY <1>3, <1>4 DEF IInv, Typed, Progress, Seek, args, IsNil

\* With nothing found yet, there is nothing to say about it.
LEMMA NothingFound ==
    ASSUME result = <<>>, max \in Nat
    PROVE  FoundOK /\ \A k : ~Seen(k)
BY DEF FoundOK, Seen, Found

\* The switch leaves the cursor at the latest message of the range, if any.
LEMMA BackKeeps == IInv /\ Back => IInv'
<1> SUFFICES ASSUME IInv, Back
             PROVE  IInv'
    OBVIOUS
<1>1. /\ keys \subseteq Int /\ from \in Int /\ to \in Int /\ t \in Int
      /\ max \in Nat /\ i = 0 /\ result = <<>>
      /\ t >= to
      /\ \A k \in keys : k >= to => k >= t
      /\ IsNil => \A k \in keys : k < t
      BY TimeAssumption, LimitAssumption DEF IInv, Typed, Progress, Back
<1>2. /\ UNCHANGED <<keys, from, to, max, i, result>>
      BY DEF Back, args
<1>3. FoundOK' /\ \A k : ~Seen(k)'
  <2>1. FoundOK /\ \A k : ~Seen(k)
        BY <1>1, NothingFound
  <2>2. QED  BY <1>2, <2>1 DEF FoundOK, Seen, Found, InRange
<1>4. CASE (IsNil \/ t > to) /\ Prev
  <2>1. /\ t' \in Int
        /\ t' \in keys => t' < t
        /\ \A k \in keys : k < t => k <= t'
        /\ t' \notin keys => \A k \in keys : t' < k
        BY <1>4, PrevSteps DEF IInv
  <2>2. pc' = IF t' \in keys /\ t' >= from THEN "read" ELSE "done"
        BY <1>1, <1>4 DEF Back, Prev, IsNil
  <2>3. \A k \in InRange : k <= t'
        BY <1>1, <1>4, <2>1 DEF InRange
  <2>4. t' \in keys => t' <= to
        BY <1>1, <2>1
  <2>5. pc' = "done" => InRange = {}
    <3> SUFFICES ASSUME pc' = "done", NEW k \in InRange
                 PROVE  FALSE
        OBVIOUS
    <3>1. k \in keys /\ from <= k /\ k \in Int /\ k <= t'
          BY <1>1, <2>3 DEF InRange
    <3>2. t' \in keys /\ t' >= from
          BY <1>1, <2>1, <3>1
    <3>3. QED  BY <2>2, <3>2
  <2>6. pc' = "done" => (Complete /\ 2 * i <= Len(result)
                             /\ i >= Len(result) \div 2)'
    <3>1. InRange' = InRange
          BY <1>2 DEF InRange
    <3>2. Len(result') = 0 /\ i' = 0
          BY <1>1, <1>2
    <3>3. QED  BY <1>3, <2>5, <3>1, <3>2 DEF Complete
  <2>7. pc' \in {"read", "done"}
        BY <2>2
  <2>8. /\ Typed'
        BY <1>2, <2>1, <2>7 DEF IInv, Typed
  <2>9. pc' = "read" =>
          /\ FoundOK'
          /\ \A k \in InRange' : Seen(k)' \/ k <= t'
          /\ \A j \in 1 .. Len(result') : t' < Found'[j]
          /\ t' \notin keys' => \A k \in keys' : t' < k
          /\ t' \in keys' => t' <= to'
    <3>1. InRange' = InRange
          BY <1>2 DEF InRange
    <3>2. Len(result') = 0
          BY <1>1, <1>2
    <3>3. QED  BY <1>2, <1>3, <2>1, <2>3, <2>4, <3>1, <3>2
  <2>10. QED  BY <1>1, <1>2, <2>6, <2>7, <2>8, <2>9 DEF IInv, Progress, IsNil
<1>5. CASE ~IsNil /\ t <= to /\ UNCHANGED t /\ pc' = "read"
  <2>1. t = to
        BY <1>1, <1>5
  <2>2. InRange' = InRange /\ \A k \in InRange : k <= t'
        BY <1>2, <1>5, <2>1 DEF InRange
  <2>3. Len(result') = 0
        BY <1>1, <1>2
  <2>4. Typed'
        BY <1>2, <1>5 DEF IInv, Typed
  <2>5. t' \in keys' /\ t' <= to' /\ i' = 0
        BY <1>1, <1>2, <1>5 DEF IsNil
  <2>6. QED  BY <1>3, <1>5, <2>2, <2>3, <2>4, <2>5 DEF IInv, Progress, IsNil
<1>6. QED  BY <1>1, <1>4, <1>5 DEF Back

\* The loop appends the message under the cursor, which is older than those it
\* has, and ends with a complete answer.
LEMMA ReadKeeps == IInv /\ Read => IInv'
<1> SUFFICES ASSUME IInv, Read
             PROVE  IInv'
    OBVIOUS
<1> DEFINE n == Len(result)
<1>1. /\ keys \subseteq Int /\ from \in Int /\ to \in Int /\ t \in Int
      /\ max \in Nat /\ i = 0 /\ result \in Seq(Int) /\ n \in Nat
      /\ FoundOK
      /\ \A k \in InRange : Seen(k) \/ k <= t
      /\ \A j \in 1 .. n : t < Found[j]
      /\ t \notin keys => \A k \in keys : t < k
      /\ t \in keys => t <= to
      BY TimeAssumption, LimitAssumption DEF IInv, Typed, Progress, Read, IsNil
<1>2. UNCHANGED <<keys, from, to, max, i>> /\ InRange' = InRange
      BY DEF Read, args, InRange
<1>3. \A j \in 1 .. n : Found[j] = result[j]
      BY <1>1 DEF Found
<1>4. CASE /\ ~IsNil /\ n < max /\ t >= from
           /\ result' = Append(result, t)
           /\ Prev
           /\ UNCHANGED pc
  <2>1. /\ t' \in Int
        /\ t' \in keys => t' < t
        /\ \A k \in keys : k < t => k <= t'
        /\ t' \notin keys => \A k \in keys : t' < k
        BY <1>4, PrevSteps DEF IInv
  <2>2. /\ result' \in Seq(Int) /\ Len(result') = n + 1
        /\ \A j \in 1 .. n : result'[j] = result[j]
        /\ result'[n + 1] = t
        BY <1>1, <1>4
  <2>3. /\ \A j \in 1 .. n : Found'[j] = Found[j]
        /\ Found'[n + 1] = t
        BY <1>1, <1>2, <1>3, <2>2 DEF Found
  <2>4. t \in InRange
        BY <1>1, <1>4 DEF InRange, IsNil
  <2>5. FoundOK'
        BY <1>1, <1>2, <1>4, <2>2, <2>3, <2>4 DEF FoundOK
  <2>6. \A k \in InRange' : Seen(k)' \/ k <= t'
    <3> SUFFICES ASSUME NEW k \in InRange
                 PROVE  Seen(k)' \/ k <= t'
        BY <1>2
    <3>1. k \in keys /\ k \in Int
          BY <1>1 DEF InRange
    <3>2. CASE Seen(k)
          BY <1>1, <2>2, <2>3, <3>2 DEF Seen
    <3>3. CASE k = t
          BY <1>1, <2>2, <2>3, <3>3 DEF Seen
    <3>4. CASE k < t
          BY <2>1, <3>1, <3>4
    <3>5. QED  BY <1>1, <3>1, <3>2, <3>3, <3>4
  <2>7. t' < t
    <3>1. t \in keys
          BY <1>4 DEF IsNil
    <3>2. QED  BY <2>1, <3>1
  <2>8. \A j \in 1 .. Len(result') : t' < Found'[j]
    <3> SUFFICES ASSUME NEW j \in 1 .. n + 1
                 PROVE  t' < Found'[j]
        BY <2>2
    <3>1. CASE j = n + 1
          BY <2>3, <2>7, <3>1
    <3>2. CASE j \in 1 .. n
      <4>1. t < Found[j] /\ Found'[j] = Found[j] /\ Found[j] \in Int
            BY <1>1, <1>3, <2>3, <3>2
      <4>2. QED  BY <1>1, <2>1, <2>7, <4>1
    <3>3. QED  BY <1>1, <3>1, <3>2
  <2>9. t' \in keys => t' <= to
    <3>1. t \in keys
          BY <1>4 DEF IsNil
    <3>2. QED  BY <1>1, <2>1, <2>7, <3>1
  <2>10. Typed' /\ pc' = "read"
        BY <1>2, <1>4, <2>1, <2>2 DEF IInv, Typed, Read
  <2>11. QED
        BY <1>1, <1>2, <2>1, <2>5, <2>6, <2>8, <2>9, <2>10
        DEF IInv, Progress, IsNil
<1>5. CASE /\ IsNil \/ n >= max \/ t < from
           /\ pc' = "reverse"
           /\ UNCHANGED <<t, result>>
  <2>1. Found' = Found /\ (\A k : Seen(k)' <=> Seen(k)) /\ FoundOK'
        BY <1>1, <1>2, <1>5 DEF Found, FoundOK, Seen
  <2>2. \A k \in InRange : Seen(k) \/ \A j \in 1 .. n : k < Found[j]
    <3> SUFFICES ASSUME NEW k \in InRange, k <= t, NEW j \in 1 .. n
                 PROVE  k < Found[j]
        BY <1>1
    <3>1. k \in Int /\ Found[j] \in Int /\ t < Found[j]
          BY <1>1, <1>3 DEF InRange
    <3>2. QED  BY <1>1, <3>1
  <2>3. n = max \/ \A k \in InRange : Seen(k)
    <3>1. CASE n >= max
          BY <1>1, <3>1 DEF FoundOK
    <3>2. CASE IsNil \/ t < from
      <4> SUFFICES ASSUME NEW k \in InRange, k <= t
                   PROVE  FALSE
          BY <1>1
      <4>1. k \in keys /\ k \in Int /\ from <= k
            BY <1>1 DEF InRange
      <4>2. QED  BY <1>1, <3>2, <4>1 DEF IsNil
    <3>3. QED  BY <1>5, <3>1, <3>2
  <2>4. Complete'
        BY <1>2, <1>5, <2>1, <2>2, <2>3 DEF Complete
  <2>5. Typed'
        BY <1>2, <1>5 DEF IInv, Typed
  <2>6. (2 * i <= Len(result))'
        BY <1>1, <1>2, <1>5
  <2>7. QED  BY <1>5, <2>4, <2>5, <2>6 DEF IInv, Progress
<1>6. QED  BY <1>4, <1>5 DEF Read

\* A swap puts two messages into place, and the answer stays the same.
LEMMA SwapKeeps == IInv /\ Swap => IInv'
<1> SUFFICES ASSUME IInv, Swap
             PROVE  IInv'
    OBVIOUS
<1> DEFINE n == Len(result)
<1>1. /\ i \in Nat /\ result \in Seq(Int) /\ n \in Nat
      /\ Complete /\ 2 * i <= n
      BY DEF IInv, Typed, Progress, Swap
<1>2. UNCHANGED <<keys, from, to, max, t>> /\ InRange' = InRange
      BY DEF Swap, args, InRange
<1>3. CASE i < n \div 2
  <2>1. /\ i' = i + 1 /\ pc' = "reverse"
        /\ result' = [result EXCEPT ![n - i] = result[i + 1],
                                    ![i + 1] = result[n - i]]
        BY <1>1, <1>3 DEF Swap
  <2>2. 2 * i + 2 <= n /\ i + 1 \in 1 .. n /\ n - i \in 1 .. n /\ i + 1 < n - i
        BY <1>1, <1>3
  <2>3. /\ result' \in Seq(Int) /\ Len(result') = n
        /\ \A j \in 1 .. n : result'[j] = IF j = i + 1 THEN result[n - i]
                                           ELSE IF j = n - i THEN result[i + 1]
                                           ELSE result[j]
        BY <1>1, <2>1, <2>2
  <2>4. Found' = Found
    <3>1. ASSUME NEW j \in 1 .. n
          PROVE  Found'[j] = Found[j]
      <4>1. Found'[j] = IF j <= i + 1 \/ j > n - (i + 1)
                        THEN result'[n + 1 - j] ELSE result'[j]
            BY <2>1, <2>3 DEF Found
      <4>2. n + 1 - j \in 1 .. n
            BY <1>1
      <4> HIDE DEF n
      <4>3. Found[j] = IF j <= i \/ j > n - i
                       THEN result[n + 1 - j] ELSE result[j]
            BY DEF Found, n
      <4>4. CASE j <= i \/ j > n - i
        <5>1. j <= i + 1 \/ j > n - (i + 1)
              BY <1>1, <2>2, <4>4
        <5>2. n + 1 - j # i + 1 /\ n + 1 - j # n - i
              BY <1>1, <2>2, <4>4
        <5>3. result'[n + 1 - j] = result[n + 1 - j]
              BY <2>3, <4>2, <5>2
        <5>4. QED  BY <4>1, <4>3, <4>4, <5>1, <5>3
      <4>5. CASE j = i + 1 \/ j = n - i
            BY <1>1, <2>2, <2>3, <4>1, <4>2, <4>3, <4>5
      <4>6. CASE i + 1 < j /\ j < n - i
        <5>1. ~(j <= i + 1 \/ j > n - (i + 1)) /\ ~(j <= i \/ j > n - i)
              BY <1>1, <2>2, <4>6
        <5>2. result'[j] = result[j]
              BY <1>1, <2>2, <2>3, <4>6
        <5>3. QED  BY <4>1, <4>3, <5>1, <5>2
      <4>7. QED  BY <1>1, <4>4, <4>5, <4>6
    <3>2. QED  BY <2>3, <3>1 DEF Found
  <2>5. Complete'
    <3>1. FoundOK' /\ \A k : Seen(k)' <=> Seen(k)
          BY <1>1, <1>2, <2>3, <2>4 DEF Complete, FoundOK, Seen
    <3>2. QED  BY <1>1, <1>2, <2>3, <2>4, <3>1 DEF Complete
  <2>6. QED  BY <1>1, <1>2, <2>1, <2>2, <2>3, <2>5 DEF IInv, Typed, Progress
<1>4. CASE i >= n \div 2
  <2>1. pc' = "done" /\ UNCHANGED <<i, result>>
        BY <1>1, <1>4 DEF Swap
  <2>2. Complete'
        BY <1>1, <1>2, <2>1 DEF Complete, FoundOK, Seen, Found
  <2>3. QED  BY <1>1, <1>2, <1>4, <2>1, <2>2 DEF IInv, Typed, Progress
<1>5. QED  BY <1>1, <1>3, <1>4

\* A complete answer with its halves swapped is the reference answer.
LEMMA IInvImplies == IInv => RangeIsLatest
<1> SUFFICES ASSUME IInv, pc = "done"
             PROVE  RangeIsLatest
    BY DEF RangeIsLatest
<1> DEFINE n == Len(result)
<1>1. /\ i \in Nat /\ result \in Seq(Int) /\ n \in Nat /\ max \in Nat
      /\ DOMAIN result = 1 .. n
      /\ Complete /\ 2 * i <= n /\ i >= n \div 2
      BY LimitAssumption DEF IInv, Typed, Progress
<1>2. \A j \in 1 .. n : n + 1 - j \in 1 .. n
      BY <1>1
<1>3. \A j \in 1 .. n : Found[j] = result[n + 1 - j]
  <2> SUFFICES ASSUME NEW j \in 1 .. n
               PROVE  Found[j] = result[n + 1 - j]
      OBVIOUS
  <2>1. Found[j] = IF j <= i \/ j > n - i
                   THEN result[n + 1 - j] ELSE result[j]
        BY DEF Found
  <2> HIDE DEF n
  <2>2. j <= i \/ j > n - i \/ j = n + 1 - j
        BY <1>1
  <2>3. QED  BY <2>1, <2>2
<1> HIDE DEF n
<1>4. \A j \in 1 .. n : result[j] = Found[n + 1 - j]
  <2> SUFFICES ASSUME NEW j \in 1 .. n
               PROVE  result[j] = Found[n + 1 - j]
      OBVIOUS
  <2>1. n + 1 - j \in 1 .. n /\ n + 1 - (n + 1 - j) = j
        BY <1>1
  <2>2. QED  BY <1>3, <2>1
<1>5. /\ \A j \in 1 .. n : Found[j] \in InRange
      /\ \A j, k \in 1 .. n : j < k => Found[j] > Found[k]
      /\ n <= max
      BY <1>1 DEF Complete, FoundOK, n
<1>6. InRange \subseteq Int /\ IsFiniteSet(InRange)
      BY TimeAssumption, FS_Subset DEF IInv, Typed, InRange
<1>7. \A j, k \in 1 .. n : j < k => result[j] < result[k]
  <2> SUFFICES ASSUME NEW j \in 1 .. n, NEW k \in 1 .. n, j < k
               PROVE  result[j] < result[k]
      OBVIOUS
  <2>1. n + 1 - k < n + 1 - j
        BY <1>1
  <2>2. Found[n + 1 - k] > Found[n + 1 - j]
        BY <1>2, <1>5, <2>1
  <2>3. Found[n + 1 - k] \in Int /\ Found[n + 1 - j] \in Int
        BY <1>2, <1>5, <1>6
  <2>4. QED  BY <1>4, <2>2, <2>3
<1>8. ToSet(result) \subseteq InRange
  <2>1. \A j \in 1 .. n : result[j] \in InRange
        BY <1>2, <1>4, <1>5
  <2>2. QED  BY <1>1, <2>1 DEF ToSet
<1>9. \A k : Seen(k) <=> k \in ToSet(result)
      BY <1>1, <1>2, <1>3, <1>4 DEF Seen, ToSet, n
<1>10. \A k \in InRange \ ToSet(result) : \A g \in ToSet(result) : k < g
  <2>1. \A k \in InRange : Seen(k) \/ \A j \in 1 .. n : k < Found[j]
        BY <1>1 DEF Complete, n
  <2>2. \A g \in ToSet(result) : \E j \in 1 .. n : g = Found[j]
        BY <1>1, <1>2, <1>4 DEF ToSet
  <2>3. QED  BY <1>9, <2>1, <2>2
<1>11. n = Min({max, Cardinality(InRange)})
  <2>1. \A j, k \in 1 .. n : j # k => result[j] # result[k]
    <3> SUFFICES ASSUME NEW j \in 1 .. n, NEW k \in 1 .. n, j < k
                 PROVE  result[j] # result[k]
        BY <1>1
    <3>1. result[j] < result[k] /\ result[j] \in Int
          BY <1>1, <1>7
    <3>2. QED  BY <3>1
  <2>2. Cardinality(ToSet(result)) = n
        BY <1>1, <2>1, LenIsCardinality
  <2>3. Cardinality(InRange) \in Nat /\ n <= Cardinality(InRange)
        BY <1>6, <1>8, <2>2, FS_Subset, FS_CardinalityType
  <2>4. n = max \/ n = Cardinality(InRange)
    <3>1. CASE n = max
          BY <3>1
    <3>2. CASE \A k \in InRange : Seen(k)
      <4>1. InRange = ToSet(result)
            BY <1>8, <1>9, <3>2
      <4>2. QED  BY <2>2, <4>1
    <3>3. QED  BY <1>1, <3>1, <3>2 DEF Complete, n
  <2>5. QED  BY <1>1, <1>5, <2>3, <2>4 DEF Min
<1>12. QED  BY <1>1, <1>7, <1>8, <1>10, <1>11 DEF RangeIsLatest, InRange, n

\* GetMessageRange answers with exactly the latest messages of the range, the
\* oldest first, for every bucket, every range (an empty or inverted one too)
\* and every limit.
THEOREM RangeCorrect == Spec => []RangeIsLatest
<1>1. IInv /\ [Next]_vars => IInv'
  <2>1. IInv /\ UNCHANGED vars => IInv'
        BY DEF vars, args, IInv, Typed, Progress, Complete, FoundOK, Seen,
               Found, InRange, IsNil
  <2>2. QED
        BY <2>1, SeekKeeps, BackKeeps, ReadKeeps, SwapKeeps
        DEF Next, Terminating
<1>2. QED  BY <1>1, InitIInv, IInvImplies, PTL DEF Spec
=============================================================================
