----------------------------- MODULE ListLemmas -----------------------------
(***************************************************************************)
(* What the proofs share: facts about sequences used as linked lists,      *)
(* induction over numbers and over sequences, and with it what FlattenSeq, *)
(* Total and Without compute for every sequence.                           *)
(***************************************************************************)
EXTENDS Integers, Sequences, Functions, SequencesExt, ListOps, SequenceTheorems,
        FiniteSetTheorems, WellFoundedInduction, TLAPS

(***************************************************************************)
(* What the three list operations of the pool do to the elements of a      *)
(* list: unlinking the head, linking at the tail, linking at the head.     *)
(***************************************************************************)

(* Unlinking the head takes one element away and no other.                 *)
LEMMA UnlinkHead ==
    ASSUME NEW S, NEW s \in Seq(S), s # <<>>
    PROVE  /\ Head(s) \in S
           /\ Tail(s) \in Seq(S)
           /\ Len(Tail(s)) = Len(s) - 1
           /\ Range(s) = {Head(s)} \cup Range(Tail(s))
           /\ IsInjective(s) => /\ IsInjective(Tail(s))
                                /\ Head(s) \notin Range(Tail(s))
<1>1. /\ Head(s) \in S
      /\ Tail(s) \in Seq(S)
      /\ Len(Tail(s)) = Len(s) - 1
      /\ Len(s) \in Nat \ {0}
      /\ Head(s) = s[1]
      /\ \A i \in 1..Len(Tail(s)) : Tail(s)[i] = s[i+1]
  BY HeadTailProperties, LenProperties, EmptySeq
<1>2. DOMAIN s = 1..Len(s) /\ DOMAIN Tail(s) = 1..(Len(s) - 1)
  BY <1>1, LenProperties
<1>3. Range(s) = {Head(s)} \cup Range(Tail(s))
  <2>1. ASSUME NEW x \in Range(s) PROVE x \in {Head(s)} \cup Range(Tail(s))
    <3>1. PICK i \in 1..Len(s) : x = s[i]
      BY <1>2 DEF Range
    <3>2. CASE i = 1
      BY <1>1, <3>1, <3>2
    <3>3. CASE i # 1
      <4>1. i - 1 \in 1..(Len(s) - 1) /\ Tail(s)[i-1] = s[i]
        BY <1>1, <3>1, <3>3
      <4>2. QED
        BY <3>1, <4>1, <1>2 DEF Range
    <3>4. QED
      BY <3>2, <3>3
  <2>2. ASSUME NEW x \in Range(Tail(s)) PROVE x \in Range(s)
    <3>1. PICK i \in 1..(Len(s)-1) : x = Tail(s)[i]
      BY <1>2 DEF Range
    <3>2. i + 1 \in 1..Len(s) /\ s[i+1] = x
      BY <1>1, <3>1
    <3>3. QED
      BY <3>2, <1>2 DEF Range
  <2>3. Head(s) \in Range(s)
    <3>1. 1 \in DOMAIN s
      BY <1>1, <1>2
    <3>2. QED
      BY <3>1, <1>1 DEF Range
  <2>4. QED
    BY <2>1, <2>2, <2>3
<1>4. IsInjective(s) => IsInjective(Tail(s)) /\ Head(s) \notin Range(Tail(s))
  <2> HAVE IsInjective(s)
  <2>1. \A i, j \in 1..Len(s) : s[i] = s[j] => i = j
    BY <1>2 DEF IsInjective
  <2>2. IsInjective(Tail(s))
    <3> SUFFICES ASSUME NEW i \in 1..(Len(s)-1), NEW j \in 1..(Len(s)-1),
                        Tail(s)[i] = Tail(s)[j]
                 PROVE  i = j
      BY <1>2 DEF IsInjective
    <3>1. i + 1 \in 1..Len(s) /\ j + 1 \in 1..Len(s) /\ s[i+1] = s[j+1]
      BY <1>1
    <3>2. QED
      BY <3>1, <2>1
  <2>3. ASSUME Head(s) \in Range(Tail(s)) PROVE FALSE
    <3>1. PICK i \in 1..(Len(s)-1) : Head(s) = Tail(s)[i]
      BY <1>2, <2>3 DEF Range
    <3>2. i + 1 \in 1..Len(s) /\ 1 \in 1..Len(s) /\ s[i+1] = s[1] /\ i + 1 # 1
      BY <1>1, <3>1
    <3>3. QED
      BY <3>2, <2>1
  <2>4. QED
    BY <2>2, <2>3
<1>5. QED
  BY <1>1, <1>3, <1>4

(* Linking at the tail adds one element.                                   *)
LEMMA LinkTail ==
    ASSUME NEW S, NEW s \in Seq(S), NEW e \in S
    PROVE  /\ Append(s, e) \in Seq(S)
           /\ Len(Append(s, e)) = Len(s) + 1
           /\ Range(Append(s, e)) = Range(s) \cup {e}
           /\ IsInjective(s) /\ e \notin Range(s) => IsInjective(Append(s, e))
<1>1. /\ Append(s, e) \in Seq(S)
      /\ Len(Append(s, e)) = Len(s) + 1
      /\ \A i \in 1..Len(s) : Append(s, e)[i] = s[i]
      /\ Append(s, e)[Len(s) + 1] = e
      /\ Len(s) \in Nat
  BY AppendProperties, LenProperties
<1>2. DOMAIN s = 1..Len(s) /\ DOMAIN Append(s, e) = 1..(Len(s) + 1)
  BY <1>1, LenProperties
<1>3. Range(Append(s, e)) = Range(s) \cup {e}
  <2>1. ASSUME NEW x \in Range(Append(s, e)) PROVE x \in Range(s) \cup {e}
    <3>1. PICK i \in 1..(Len(s)+1) : x = Append(s, e)[i]
      BY <1>2 DEF Range
    <3>2. CASE i = Len(s) + 1
      BY <1>1, <3>1, <3>2
    <3>3. CASE i \in 1..Len(s)
      BY <1>1, <1>2, <3>1, <3>3 DEF Range
    <3>4. QED
      BY <1>1, <3>2, <3>3
  <2>2. ASSUME NEW x \in Range(s) PROVE x \in Range(Append(s, e))
    <3>1. PICK i \in 1..Len(s) : x = s[i]
      BY <1>2 DEF Range
    <3>2. i \in 1..(Len(s)+1) /\ Append(s, e)[i] = x
      BY <1>1, <3>1
    <3>3. QED
      BY <3>2, <1>2 DEF Range
  <2>3. e \in Range(Append(s, e))
    <3>1. Len(s) + 1 \in 1..(Len(s)+1)
      BY <1>1
    <3>2. QED
      BY <3>1, <1>1, <1>2 DEF Range
  <2>4. QED
    BY <2>1, <2>2, <2>3
<1>4. IsInjective(s) /\ e \notin Range(s) => IsInjective(Append(s, e))
  <2> HAVE IsInjective(s) /\ e \notin Range(s)
  <2>1. \A i, j \in 1..Len(s) : s[i] = s[j] => i = j
    BY <1>2 DEF IsInjective
  <2>2. \A i \in 1..Len(s) : s[i] # e
    BY <1>2 DEF Range
  <2> SUFFICES ASSUME NEW i \in 1..(Len(s)+1), NEW j \in 1..(Len(s)+1),
                      Append(s, e)[i] = Append(s, e)[j]
               PROVE  i = j
    BY <1>2 DEF IsInjective
  <2>3. CASE i \in 1..Len(s) /\ j \in 1..Len(s)
    BY <1>1, <2>1, <2>3
  <2>4. CASE i = Len(s) + 1 \/ j = Len(s) + 1
    BY <1>1, <2>2, <2>4
  <2>5. QED
    BY <1>1, <2>3, <2>4
<1>5. QED
  BY <1>1, <1>3, <1>4

(* Linking at the head adds one element.                                   *)
LEMMA LinkHead ==
    ASSUME NEW S, NEW s \in Seq(S), NEW e \in S
    PROVE  /\ <<e>> \o s \in Seq(S)
           /\ Len(<<e>> \o s) = Len(s) + 1
           /\ Range(<<e>> \o s) = Range(s) \cup {e}
           /\ IsInjective(s) /\ e \notin Range(s) => IsInjective(<<e>> \o s)
<1> DEFINE u == <<e>> \o s
<1>1. u \in Seq(S) /\ u # <<>> /\ Head(u) = e /\ Tail(u) = s /\ Len(u) = Len(s) + 1
  <2>1. <<e>> \in Seq(S) /\ Len(<<e>>) = 1
    OBVIOUS
  <2>2. u \in Seq(S) /\ Len(u) = Len(s) + 1 /\ Len(s) \in Nat
    BY <2>1, ConcatProperties, LenProperties
  <2>3. u # <<>>
    BY <2>2, EmptySeq
  <2>4. \A i \in 1..Len(u) : u[i] = IF i <= 1 THEN <<e>>[i] ELSE s[i - 1]
    BY <2>1, ConcatProperties
  <2>5. Head(u) = e
    <3>1. Head(u) = u[1]
      BY <2>2, <2>3, HeadTailProperties
    <3>2. QED
      BY <2>2, <2>4, <3>1
  <2>6. Tail(u) = s
    <3>1. /\ Tail(u) \in Seq(S)
          /\ Len(Tail(u)) = Len(u) - 1
          /\ \A i \in 1..Len(Tail(u)) : Tail(u)[i] = u[i+1]
      BY <2>2, <2>3, HeadTailProperties
    <3>2. Len(Tail(u)) = Len(s)
      BY <2>2, <3>1
    <3>3. \A i \in 1..Len(s) : Tail(u)[i] = s[i]
      BY <2>2, <2>4, <3>1, <3>2
    <3>4. QED
      BY <3>1, <3>2, <3>3, SeqEqual
  <2>7. QED
    BY <2>2, <2>3, <2>5, <2>6
<1> HIDE DEF u
<1>2. Range(u) = Range(s) \cup {e}
  <2>1. Range(u) = {Head(u)} \cup Range(Tail(u))
    BY <1>1, UnlinkHead
  <2>2. QED
    BY <2>1, <1>1
<1>3. IsInjective(s) /\ e \notin Range(s) => IsInjective(u)
  <2> HAVE IsInjective(s) /\ e \notin Range(s)
  <2>1. DOMAIN s = 1..Len(s) /\ DOMAIN u = 1..(Len(s) + 1) /\ Len(s) \in Nat
    BY <1>1, LenProperties
  <2>2. \A i \in 1..Len(s) : u[i+1] = s[i]
    BY <1>1, HeadTailProperties
  <2>3. u[1] = e
    BY <1>1, HeadTailProperties
  <2>4. \A i, j \in 1..Len(s) : s[i] = s[j] => i = j
    BY <2>1 DEF IsInjective
  <2>5. \A i \in 1..Len(s) : s[i] # e
    BY <2>1 DEF Range
  <2> SUFFICES ASSUME NEW i \in 1..(Len(s)+1), NEW j \in 1..(Len(s)+1), u[i] = u[j]
               PROVE  i = j
    BY <2>1 DEF IsInjective
  <2>6. CASE i = 1 /\ j = 1
    BY <2>6
  <2>7. CASE i = 1 /\ j # 1
    <3>1. j - 1 \in 1..Len(s) /\ u[j] = s[j-1]
      BY <2>1, <2>2, <2>7
    <3>2. QED
      BY <3>1, <2>3, <2>5, <2>7
  <2>8. CASE i # 1 /\ j = 1
    <3>1. i - 1 \in 1..Len(s) /\ u[i] = s[i-1]
      BY <2>1, <2>2, <2>8
    <3>2. QED
      BY <3>1, <2>3, <2>5, <2>8
  <2>9. CASE i # 1 /\ j # 1
    <3>1. i - 1 \in 1..Len(s) /\ u[i] = s[i-1] /\ j - 1 \in 1..Len(s) /\ u[j] = s[j-1]
      BY <2>1, <2>2, <2>9
    <3>2. i - 1 = j - 1
      BY <3>1, <2>4
    <3>3. QED
      BY <3>2
  <2>10. QED
    BY <2>6, <2>7, <2>8, <2>9
<1>4. QED
  BY <1>1, <1>2, <1>3 DEF u

-----------------------------------------------------------------------------
(* A list of keys read through a function.                                 *)
Through(f, s) == [i \in 1..Len(s) |-> f[s[i]]]

(* Reading through a function is a sequence of the same length.            *)
LEMMA ThroughType ==
    ASSUME NEW S, NEW T, NEW s \in Seq(S), NEW f \in [S -> T]
    PROVE  Through(f, s) \in Seq(T) /\ Len(Through(f, s)) = Len(s)
             /\ \A i \in 1..Len(s) : Through(f, s)[i] = f[s[i]]
<1>1. Len(s) \in Nat
  BY LenProperties
<1>2. Through(f, s) \in [1..Len(s) -> T]
  BY LenProperties DEF Through
<1>3. Through(f, s) \in Seq(T)
  BY <1>1, <1>2, SeqDef
<1>4. 1..Len(Through(f, s)) = 1..Len(s) /\ Len(Through(f, s)) \in Nat
  BY <1>2, <1>3, LenProperties
<1>5. Len(Through(f, s)) = Len(s)
  BY <1>1, <1>4
<1>6. QED
  BY <1>3, <1>5 DEF Through

(* Unlinking the head unlinks the head of what is read.                    *)
LEMMA ThroughTail ==
    ASSUME NEW S, NEW T, NEW s \in Seq(S), s # <<>>, NEW f \in [S -> T]
    PROVE  /\ Through(f, s) # <<>>
           /\ Head(Through(f, s)) = f[Head(s)]
           /\ Tail(Through(f, s)) = Through(f, Tail(s))
<1> DEFINE q == Through(f, s)
<1>1. q \in Seq(T) /\ Len(q) = Len(s) /\ \A i \in 1..Len(s) : q[i] = f[s[i]]
  BY ThroughType
<1>2. /\ Tail(s) \in Seq(S) /\ Len(Tail(s)) = Len(s) - 1 /\ Len(s) \in Nat \ {0}
      /\ \A i \in 1..Len(Tail(s)) : Tail(s)[i] = s[i+1]
      /\ Head(s) = s[1]
  BY HeadTailProperties, LenProperties, EmptySeq
<1> HIDE DEF q
<1>3. q # <<>>
  BY <1>1, <1>2, EmptySeq
<1>4. /\ Tail(q) \in Seq(T) /\ Len(Tail(q)) = Len(q) - 1
      /\ \A i \in 1..Len(Tail(q)) : Tail(q)[i] = q[i+1]
      /\ Head(q) = q[1]
  BY <1>1, <1>3, HeadTailProperties
<1>5. \A i \in 1..Len(Tail(s)) : f[Tail(s)[i]] = q[i+1]
  BY <1>1, <1>2
<1>6. /\ Through(f, Tail(s)) \in Seq(T) /\ Len(Through(f, Tail(s))) = Len(Tail(s))
      /\ \A i \in 1..Len(Tail(s)) : Through(f, Tail(s))[i] = f[Tail(s)[i]]
  <2> DEFINE t == Tail(s)
  <2>1. t \in Seq(S)
    BY <1>2
  <2> HIDE DEF t
  <2>2. /\ Through(f, t) \in Seq(T) /\ Len(Through(f, t)) = Len(t)
        /\ \A i \in 1..Len(t) : Through(f, t)[i] = f[t[i]]
    BY <2>1, ThroughType, SMTT(30)
  <2>3. QED
    BY <2>2 DEF t
<1>7. Tail(q) = Through(f, Tail(s))
  <2>1. Len(Tail(q)) = Len(Through(f, Tail(s)))
    BY <1>1, <1>2, <1>4, <1>6
  <2>2. \A i \in 1..Len(Tail(q)) : Tail(q)[i] = Through(f, Tail(s))[i]
    BY <1>1, <1>2, <1>4, <1>5, <1>6
  <2>3. QED
    BY <1>4, <1>6, <2>1, <2>2, SeqEqual
<1>8. Head(q) = f[Head(s)]
  BY <1>1, <1>2, <1>4
<1>9. QED
  BY <1>3, <1>7, <1>8 DEF q

(* Linking at the tail links what is read at the tail.                     *)
LEMMA ThroughAppend ==
    ASSUME NEW S, NEW T, NEW s \in Seq(S), NEW e \in S, NEW f \in [S -> T]
    PROVE  Through(f, Append(s, e)) = Append(Through(f, s), f[e])
<1> DEFINE q == Through(f, s)
           a == Append(s, e)
<1>1. q \in Seq(T) /\ Len(q) = Len(s) /\ \A i \in 1..Len(s) : q[i] = f[s[i]]
  BY ThroughType
<1>2. /\ a \in Seq(S) /\ Len(a) = Len(s) + 1 /\ Len(s) \in Nat
      /\ \A i \in 1..Len(s) : a[i] = s[i]
      /\ a[Len(s) + 1] = e
  BY AppendProperties, LenProperties
<1> HIDE DEF q, a
<1>3. /\ Append(q, f[e]) \in Seq(T) /\ Len(Append(q, f[e])) = Len(q) + 1
      /\ \A i \in 1..Len(q) : Append(q, f[e])[i] = q[i]
      /\ Append(q, f[e])[Len(q) + 1] = f[e]
  BY <1>1, AppendProperties
<1>4. \A i \in 1..Len(a) : f[a[i]] = Append(q, f[e])[i]
  <2> TAKE i \in 1..Len(a)
  <2>1. CASE i \in 1..Len(s)
    BY <1>1, <1>2, <1>3, <2>1
  <2>2. CASE i = Len(s) + 1
    BY <1>1, <1>2, <1>3, <2>2
  <2>3. i \in 1..Len(s) \/ i = Len(s) + 1
    BY <1>2
  <2>4. QED
    BY <2>1, <2>2, <2>3
<1>5. /\ Through(f, a) \in Seq(T) /\ Len(Through(f, a)) = Len(a)
      /\ \A i \in 1..Len(a) : Through(f, a)[i] = f[a[i]]
  BY <1>2, <1>4, ThroughType
<1>6. Len(Through(f, a)) = Len(Append(q, f[e]))
  BY <1>1, <1>2, <1>3, <1>5
<1>7. \A i \in 1..Len(Through(f, a)) : Through(f, a)[i] = Append(q, f[e])[i]
  BY <1>4, <1>5
<1>8. Through(f, a) = Append(q, f[e])
  BY <1>3, <1>5, <1>6, <1>7, SeqEqual
<1>9. QED
  BY <1>8 DEF q, a

-----------------------------------------------------------------------------
(* Induction over the numbers: a set that holds 0 and with a number the    *)
(* next one holds them all.  (Of finite sets one is a smallest: were there *)
(* a number outside, the smallest 0..k with such a k would not be one.)    *)
LEMMA SetInduction ==
    ASSUME NEW S, 0 \in S, \A n \in Nat : n \in S => n+1 \in S
    PROVE  \A n \in Nat : n \in S
<1> SUFFICES ASSUME NEW n \in Nat, n \notin S PROVE FALSE
  OBVIOUS
<1> DEFINE T == {0..k : k \in (0..n) \ S}
<1> DEFINE R == StrictSubsetOrdering(0..n)
<1> DEFINE F == FiniteSubsetsOf(0..n)
<1>1. T \subseteq F
  <2> SUFFICES ASSUME NEW k \in 0..n PROVE 0..k \in F
    OBVIOUS
  <2>1. IsFiniteSet(0..k)
    BY FS_Interval
  <2>2. 0..k \in SUBSET (0..n)
    OBVIOUS
  <2>3. QED
    BY <2>1, <2>2 DEF FiniteSubsetsOf
<1>2. T # {}
  OBVIOUS
<1>3. IsWellFoundedOn(R, F)
  BY FS_StrictSubsetOrderingWellFounded
<1>4. PICK x \in T : \A y \in T : ~ (<<y, x>> \in R)
  <2> HIDE DEF T, R, F
  <2>1. QED
    BY <1>1, <1>2, <1>3, WFMin
<1>5. PICK k \in (0..n) \ S : x = 0..k
  OBVIOUS
<1>6. k # 0 /\ k - 1 \in Nat /\ k-1 \in 0..n
  OBVIOUS
<1>7. k - 1 \notin S
  OBVIOUS
<1>8. 0..(k-1) \in T
  BY <1>6, <1>7
<1>9. <<0..(k-1), x>> \in R
  BY <1>5, <1>6 DEF StrictSubsetOrdering
<1>10. QED
  BY <1>4, <1>8, <1>9

-----------------------------------------------------------------------------
(* What FlattenSeq computes, as a function of the position.                *)
SeqFlat(g, s) ==
    g = [i \in 1..Len(s) |-> IF i = 1 THEN s[i] ELSE g[i-1] \o s[i]]

(* What FlattenSeq is defined by exists                                    *)
LEMMA FlatExists ==
    ASSUME NEW A, NEW s \in Seq(Seq(A))
    PROVE  \E g \in [1..Len(s) -> Seq(A)] : SeqFlat(g, s)
<1> DEFINE Good(n, g) == /\ g \in [1..n -> Seq(A)]
                         /\ \A i \in 1..n : g[i] = IF i = 1 THEN s[i] ELSE g[i-1] \o s[i]
<1> DEFINE S == {n \in Nat : n <= Len(s) => \E g : Good(n, g)}
<1>0. Len(s) \in Nat /\ \A i \in 1..Len(s) : s[i] \in Seq(A)
  BY LenProperties, ElementOfSeq
<1>1. 0 \in S
  <2>1. Good(0, [i \in 1..0 |-> <<>>])
    OBVIOUS
  <2>2. QED
    BY <2>1
<1>2. ASSUME NEW n \in Nat, n \in S, n+1 <= Len(s) PROVE \E g : Good(n+1, g)
  <2>0. \E g : Good(n, g)
    <3> HIDE DEF Good
    <3>1. QED
      BY <1>0, <1>2
  <2>1. PICK g : Good(n, g)
    BY <2>0
  <2> DEFINE h == [i \in 1..n+1 |-> IF i = n+1 THEN (IF n = 0 THEN s[1] ELSE g[n] \o s[n+1]) ELSE g[i]]
  <2>2. \A i \in 1..n+1 : h[i] = IF i = n+1 THEN (IF n = 0 THEN s[1] ELSE g[n] \o s[n+1]) ELSE g[i]
    OBVIOUS
  <2>3. s[n+1] \in Seq(A) /\ s[1] \in Seq(A)
    BY <1>0, <1>2
  <2>4. n # 0 => g[n] \in Seq(A)
    BY <2>1
  <2>5. n # 0 => g[n] \o s[n+1] \in Seq(A)
    BY <2>3, <2>4, ConcatProperties
  <2>6. h \in [1..n+1 -> Seq(A)]
    <3>1. ASSUME NEW i \in 1..n+1 PROVE h[i] \in Seq(A)
      <4>1. CASE i = n+1
        BY <2>2, <2>3, <2>5, <4>1
      <4>2. CASE i # n+1
        <5>1. i \in 1..n
          BY <4>2
        <5>2. QED
          BY <2>2, <2>1, <4>2, <5>1
      <4>3. QED
        BY <4>1, <4>2
    <3>2. QED
      BY <3>1
  <2>7. ASSUME NEW i \in 1..n+1 PROVE h[i] = IF i = 1 THEN s[i] ELSE h[i-1] \o s[i]
    <3>1. CASE i = 1 /\ n = 0
      BY <3>1, <2>2
    <3>2. CASE i = n+1 /\ n # 0
      <4>1. i # 1 /\ i-1 = n /\ i-1 \in 1..n+1 /\ i-1 # n+1
        BY <3>2
      <4>2. h[i-1] = g[n]
        BY <4>1, <2>2
      <4>3. h[i] = g[n] \o s[i]
        BY <3>2, <2>2
      <4>4. QED
        BY <4>1, <4>2, <4>3
    <3>3. CASE i # n+1
      <4>1. i \in 1..n
        BY <3>3
      <4>2. h[i] = g[i]
        BY <2>2, <3>3
      <4>3. i # 1 => i-1 \in 1..n+1 /\ i-1 # n+1
        BY <4>1
      <4>4. i # 1 => h[i-1] = g[i-1]
        BY <4>3, <2>2
      <4> HIDE DEF h
      <4>5. QED
        BY <4>1, <4>2, <4>4, <2>1
    <3>4. QED
      BY <3>1, <3>2, <3>3
  <2>8. QED
    BY <2>6, <2>7
<1>3. \A n \in Nat : n \in S => n+1 \in S
  <2> SUFFICES ASSUME NEW n \in Nat, n \in S PROVE n+1 \in S
    <3> HIDE DEF S
    <3>1. QED
      OBVIOUS
  <2> HIDE DEF Good
  <2>1. n+1 <= Len(s) => \E g : Good(n+1, g)
    <3> HIDE DEF S
    <3>1. QED
      BY <1>2
  <2>2. n + 1 \in Nat
    OBVIOUS
  <2>3. QED
    BY <2>1, <2>2
<1>4. Len(s) \in S
  <2> HIDE DEF S
  <2>1. QED
    BY <1>0, <1>1, <1>3, SetInduction
<1>5. PICK g : Good(Len(s), g)
  BY <1>4, <1>0
<1>6. SeqFlat(g, s)
  BY <1>5 DEF SeqFlat
<1>7. QED
  BY <1>5, <1>6

(* and FlattenSeq computes it.                                             *)
LEMMA FlatIs ==
    ASSUME NEW A, NEW s \in Seq(Seq(A)), s # <<>>
    PROVE  \E g : SeqFlat(g, s) /\ FlattenSeq(s) = g[Len(s)]
<1> DEFINE f == CHOOSE g : SeqFlat(g, s)
<1>1. \E g : SeqFlat(g, s)
  BY FlatExists
<1>2. SeqFlat(f, s)
  BY <1>1, Zenon
<1>3. Len(s) # 0
  BY LenProperties, EmptySeq
<1>4. FlattenSeq(s) = f[Len(s)]
  BY <1>3, Zenon DEF FlattenSeq, SeqFlat
<1>5. QED
  BY <1>2, <1>4, Zenon

(* Sequences with the same beginning flatten to the same.                  *)
LEMMA FlatAgree ==
    ASSUME NEW s, NEW t, NEW g, NEW h, NEW n \in Nat,
           Len(s) \in Nat, Len(t) \in Nat, n <= Len(s), n <= Len(t),
           \A i \in 1..n : s[i] = t[i],
           SeqFlat(g, s), SeqFlat(h, t)
    PROVE  \A i \in 1..n : g[i] = h[i]
<1> DEFINE S == {k \in Nat : k \in 1..n => g[k] = h[k]}
<1>1. \A i \in 1..n : /\ g[i] = IF i = 1 THEN s[i] ELSE g[i-1] \o s[i]
                      /\ h[i] = IF i = 1 THEN t[i] ELSE h[i-1] \o t[i]
  <2>1. \A i \in 1..Len(s) : g[i] = IF i = 1 THEN s[i] ELSE g[i-1] \o s[i]
    BY Zenon DEF SeqFlat
  <2>2. \A i \in 1..Len(t) : h[i] = IF i = 1 THEN t[i] ELSE h[i-1] \o t[i]
    BY Zenon DEF SeqFlat
  <2>3. \A i \in 1..n : i \in 1..Len(s) /\ i \in 1..Len(t)
    OBVIOUS
  <2>4. QED
    BY <2>1, <2>2, <2>3, Zenon
<1>2. 0 \in S
  OBVIOUS
<1>3. ASSUME NEW k \in Nat, k \in S PROVE k+1 \in S
  <2> SUFFICES ASSUME k+1 \in 1..n PROVE g[k+1] = h[k+1]
    OBVIOUS
  <2>1. k = 0 => g[k+1] = h[k+1]
    BY <1>1
  <2>2. k # 0 => g[k] = h[k] /\ k = (k+1) - 1 /\ k+1 # 1
    BY <1>3
  <2>3. QED
    BY <1>1, <2>1, <2>2
<1>4. \A k \in Nat : k \in S
  <2> HIDE DEF S
  <2>1. QED
    BY <1>2, <1>3, SetInduction
<1>5. QED
  BY <1>4

(* Nothing flattens to nothing.                                            *)
LEMMA FlattenEmpty == FlattenSeq(<<>>) = <<>>
  BY EmptySeq DEF FlattenSeq

(* FlattenSeq yields a sequence of the elements of its sequences.          *)
LEMMA FlattenType ==
    ASSUME NEW A, NEW s \in Seq(Seq(A))
    PROVE  FlattenSeq(s) \in Seq(A)
<1>1. CASE s = <<>>
  BY <1>1, FlattenEmpty, EmptySeq
<1>2. CASE s # <<>>
  <2>1. PICK g : SeqFlat(g, s) /\ FlattenSeq(s) = g[Len(s)]
    BY <1>2, FlatIs
  <2>2. PICK h \in [1..Len(s) -> Seq(A)] : SeqFlat(h, s)
    BY FlatExists
  <2>3. Len(s) \in 1..Len(s) /\ Len(s) \in Nat
    BY <1>2, LenProperties, EmptySeq
  <2>4. g[Len(s)] = h[Len(s)]
    <3>1. Len(s) <= Len(s) /\ \A i \in 1..Len(s) : s[i] = s[i]
      BY <2>3
    <3>2. \A i \in 1..Len(s) : g[i] = h[i]
      BY <2>1, <2>2, <2>3, <3>1, FlatAgree
    <3>3. QED
      BY <2>3, <3>2
  <2>5. QED
    BY <2>1, <2>2, <2>3, <2>4
<1>3. QED
  BY <1>1, <1>2

(* One more sequence comes at the end.                                     *)
LEMMA FlattenAppend ==
    ASSUME NEW A, NEW s \in Seq(Seq(A)), NEW x \in Seq(A)
    PROVE  FlattenSeq(Append(s, x)) = FlattenSeq(s) \o x
<1> DEFINE t == Append(s, x)
<1>1. /\ t \in Seq(Seq(A)) /\ t # <<>> /\ Len(t) = Len(s) + 1 /\ Len(s) \in Nat
      /\ \A i \in 1..Len(s) : t[i] = s[i]
      /\ t[Len(s) + 1] = x
  BY AppendProperties, LenProperties
<1> HIDE DEF t
<1>2. PICK h : SeqFlat(h, t) /\ FlattenSeq(t) = h[Len(t)]
  BY <1>1, FlatIs
<1>3. h[Len(t)] = IF Len(t) = 1 THEN t[Len(t)] ELSE h[Len(t)-1] \o t[Len(t)]
  <2>1. Len(t) \in 1..Len(t)
    BY <1>1
  <2>2. QED
    BY <2>1, <1>2, Zenon DEF SeqFlat
<1>4. CASE s = <<>>
  <2>1. Len(t) = 1 /\ FlattenSeq(t) = x
    BY <1>1, <1>2, <1>3, <1>4, EmptySeq
  <2>2. QED
    BY <2>1, <1>4, FlattenEmpty, ConcatEmptySeq DEF t
<1>5. CASE s # <<>>
  <2>1. PICK g : SeqFlat(g, s) /\ FlattenSeq(s) = g[Len(s)]
    BY <1>5, FlatIs
  <2>2. Len(s) \in 1..Len(s)
    BY <1>1, <1>5, EmptySeq
  <2>3. \A i \in 1..Len(s) : h[i] = g[i]
    <3>1. /\ Len(t) \in Nat /\ Len(s) \in Nat /\ Len(s) <= Len(s) /\ Len(s) <= Len(t)
          /\ \A i \in 1..Len(s) : t[i] = s[i]
      BY <1>1
    <3>2. QED
      BY <3>1, <1>2, <2>1, FlatAgree
  <2>4. Len(t) # 1 /\ Len(t) - 1 = Len(s)
    BY <1>1, <2>2
  <2>5. h[Len(t)] = g[Len(s)] \o x
    BY <1>1, <1>3, <2>2, <2>3, <2>4
  <2>6. QED
    BY <1>2, <2>1, <2>5 DEF t
<1>6. QED
  BY <1>4, <1>5

-----------------------------------------------------------------------------
(* Associativity, folded so that the provers use it as it is stated.       *)
Joined(p, q, r) == (p \o q) \o r = p \o (q \o r)

(* Concatenation is associative.                                           *)
LEMMA Assoc ==
    ASSUME NEW S, NEW p \in Seq(S), NEW q \in Seq(S), NEW r \in Seq(S)
    PROVE  (p \o q) \o r = p \o (q \o r)
  BY ConcatAssociative, SMTT(60)

(* And so it is in the folded form.                                        *)
LEMMA AllJoined == ASSUME NEW S PROVE \A p, q, r \in Seq(S) : Joined(p, q, r)
<1>1. SUFFICES ASSUME NEW p \in Seq(S), NEW q \in Seq(S), NEW r \in Seq(S)
               PROVE  Joined(p, q, r)
  OBVIOUS
<1>2. (p \o q) \o r = p \o (q \o r)
  BY Assoc, SMTT(30)
<1>3. QED
  BY <1>2, Zenon DEF Joined

(* Appending to what comes second.                                         *)
LEMMA ConcatAppend ==
    ASSUME NEW S, NEW p \in Seq(S), NEW q \in Seq(S), NEW e \in S
    PROVE  /\ p \o q \in Seq(S)
           /\ p \o Append(q, e) = Append(p \o q, e)
<1>1. p \o q \in Seq(S) /\ <<e>> \in Seq(S)
  BY ConcatProperties
<1>2. Append(q, e) = q \o <<e>> /\ Append(p \o q, e) = (p \o q) \o <<e>>
  BY <1>1, AppendIsConcat
<1>3. (p \o q) \o <<e>> = p \o (q \o <<e>>)
  <2>1. Joined(p, q, <<e>>)
    BY <1>1, AllJoined
  <2>2. QED
    BY <2>1, Zenon DEF Joined
<1>4. QED
  BY <1>1, <1>2, <1>3, Zenon

(* Induction over sequences: a set that holds the empty one and with a     *)
(* sequence those that are one element longer holds them all.              *)
LEMMA SeqInduction ==
    ASSUME NEW A, NEW P, <<>> \in P, \A s \in Seq(A) : \A e \in A : s \in P => Append(s, e) \in P
    PROVE  \A s \in Seq(A) : s \in P
<1> DEFINE S == {n \in Nat : \A s \in Seq(A) : Len(s) = n => s \in P}
<1>1. 0 \in S
  BY EmptySeq
<1>2. ASSUME NEW n \in Nat, n \in S PROVE n+1 \in S
  <2> SUFFICES ASSUME NEW s \in Seq(A), Len(s) = n + 1 PROVE s \in P
    OBVIOUS
  <2>1. s # <<>>
    BY EmptySeq
  <2>2. PICK t \in Seq(A), e \in A : s = Append(t, e)
    BY <2>1, SequenceEmptyOrAppend
  <2>3. Len(t) = n
    BY <2>2, AppendProperties, LenProperties
  <2>4. QED
    BY <1>2, <2>2, <2>3
<1>3. \A n \in Nat : n \in S
  <2> HIDE DEF S
  <2>1. QED
    BY <1>1, <1>2, SetInduction
<1>4. QED
  BY <1>3, LenProperties

(* FlattenSeq goes through concatenation.                                  *)
LEMMA FlattenConcat ==
    ASSUME NEW A, NEW s \in Seq(Seq(A)), NEW t \in Seq(Seq(A))
    PROVE  FlattenSeq(s \o t) = FlattenSeq(s) \o FlattenSeq(t)
<1> DEFINE P == {u \in Seq(Seq(A)) : FlattenSeq(s \o u) = FlattenSeq(s) \o FlattenSeq(u)}
<1>1. <<>> \in P
  <2>1. s \o <<>> = s /\ FlattenSeq(s) \o <<>> = FlattenSeq(s)
    BY ConcatEmptySeq, FlattenType
  <2>2. QED
    BY <2>1, FlattenEmpty, EmptySeq
<1>2. ASSUME NEW u \in Seq(Seq(A)), NEW e \in Seq(A), u \in P PROVE Append(u, e) \in P
  <2>1. s \o Append(u, e) = Append(s \o u, e) /\ s \o u \in Seq(Seq(A))
    BY ConcatAppend, SMTT(30)
  <2>2. FlattenSeq(Append(s \o u, e)) = FlattenSeq(s \o u) \o e
    BY <2>1, FlattenAppend
  <2>3. FlattenSeq(Append(u, e)) = FlattenSeq(u) \o e
    BY FlattenAppend
  <2>4. (FlattenSeq(s) \o FlattenSeq(u)) \o e = FlattenSeq(s) \o (FlattenSeq(u) \o e)
    <3>1. FlattenSeq(s) \in Seq(A) /\ FlattenSeq(u) \in Seq(A)
      BY FlattenType
    <3>2. Joined(FlattenSeq(s), FlattenSeq(u), e)
      BY <3>1, AllJoined
    <3>3. QED
      BY <3>2, Zenon DEF Joined
  <2>5. Append(u, e) \in Seq(Seq(A))
    BY AppendProperties
  <2>6. QED
    BY <1>2, <2>1, <2>2, <2>3, <2>4, <2>5
<1>3. \A u \in Seq(Seq(A)) : u \in P
  <2> HIDE DEF P
  <2>1. QED
    BY <1>1, <1>2, SeqInduction
<1>4. QED
  BY <1>3

(* One sequence flattens to itself.                                        *)
LEMMA FlattenOne ==
    ASSUME NEW A, NEW x \in Seq(A)
    PROVE  FlattenSeq(<<x>>) = x
<1>1. Append(<<>>, x) = <<x>> /\ <<>> \in Seq(Seq(A))
  BY EmptySeq
<1>2. <<>> \o x = x
  BY ConcatEmptySeq
<1>3. QED
  BY <1>1, <1>2, FlattenAppend, FlattenEmpty

(* The first sequence comes first.                                         *)
LEMMA FlattenHead ==
    ASSUME NEW A, NEW s \in Seq(Seq(A)), s # <<>>
    PROVE  FlattenSeq(s) = Head(s) \o FlattenSeq(Tail(s))
<1>1. Head(s) \in Seq(A) /\ Tail(s) \in Seq(Seq(A)) /\ s = <<Head(s)>> \o Tail(s)
  BY HeadTailProperties, ConcatProperties, SeqEqual
<1>2. FlattenSeq(<<Head(s)>>) = Head(s)
  BY <1>1, FlattenOne
<1>3. <<Head(s)>> \in Seq(Seq(A))
  BY <1>1
<1>4. QED
  BY <1>1, <1>2, <1>3, FlattenConcat

-----------------------------------------------------------------------------
(* What Total computes, as a function of the position.                     *)
SeqTotal(g, s) == g = [n \in 0..Len(s) |-> IF n = 0 THEN 0 ELSE g[n - 1] + s[n]]

(* What Total is defined by exists                                         *)
LEMMA TotalExists ==
    ASSUME NEW s \in Seq(Nat)
    PROVE  \E g \in [0..Len(s) -> Nat] : SeqTotal(g, s)
<1> DEFINE Good(n, g) == /\ g \in [0..n -> Nat]
                         /\ \A i \in 0..n : g[i] = IF i = 0 THEN 0 ELSE g[i-1] + s[i]
<1> DEFINE S == {n \in Nat : n <= Len(s) => \E g : Good(n, g)}
<1>0. Len(s) \in Nat /\ \A i \in 1..Len(s) : s[i] \in Nat
  BY LenProperties, ElementOfSeq
<1>1. 0 \in S
  <2>1. Good(0, [i \in 0..0 |-> 0])
    OBVIOUS
  <2>2. QED
    BY <2>1
<1>2. ASSUME NEW n \in Nat, n \in S, n+1 <= Len(s) PROVE \E g : Good(n+1, g)
  <2>0. \E g : Good(n, g)
    <3> HIDE DEF Good
    <3>1. QED
      BY <1>0, <1>2
  <2>1. PICK g : Good(n, g)
    BY <2>0
  <2> DEFINE h == [i \in 0..n+1 |-> IF i = n+1 THEN g[n] + s[n+1] ELSE g[i]]
  <2>2. \A i \in 0..n+1 : h[i] = IF i = n+1 THEN g[n] + s[n+1] ELSE g[i]
    OBVIOUS
  <2>3. s[n+1] \in Nat /\ \A i \in 0..n : g[i] \in Nat
    BY <1>0, <1>2, <2>1
  <2>4. h \in [0..n+1 -> Nat]
    BY <2>3
  <2>5. ASSUME NEW i \in 0..n+1 PROVE h[i] = IF i = 0 THEN 0 ELSE h[i-1] + s[i]
    <3>1. CASE i = n+1
      <4>1. i # 0 /\ i-1 = n /\ i-1 \in 0..n+1 /\ i-1 # n+1
        BY <3>1
      <4>2. QED
        BY <4>1, <2>2, <3>1
    <3>2. CASE i # n+1
      <4>1. i \in 0..n
        BY <3>2
      <4>2. h[i] = g[i]
        BY <2>2, <3>2
      <4>3. i # 0 => i-1 \in 0..n+1 /\ i-1 # n+1
        BY <4>1
      <4>4. i # 0 => h[i-1] = g[i-1]
        BY <4>3, <2>2
      <4> HIDE DEF h
      <4>5. QED
        BY <4>1, <4>2, <4>4, <2>1
    <3>3. QED
      BY <3>1, <3>2
  <2>6. QED
    BY <2>4, <2>5
<1>3. \A n \in Nat : n \in S => n+1 \in S
  <2> SUFFICES ASSUME NEW n \in Nat, n \in S PROVE n+1 \in S
    <3> HIDE DEF S
    <3>1. QED
      OBVIOUS
  <2> HIDE DEF Good
  <2>1. n+1 <= Len(s) => \E g : Good(n+1, g)
    <3> HIDE DEF S
    <3>1. QED
      BY <1>2
  <2>2. n + 1 \in Nat
    OBVIOUS
  <2>3. QED
    BY <2>1, <2>2
<1>4. Len(s) \in S
  <2> HIDE DEF S
  <2>1. QED
    BY <1>0, <1>1, <1>3, SetInduction
<1>5. PICK g : Good(Len(s), g)
  BY <1>4, <1>0
<1>6. SeqTotal(g, s)
  BY <1>5 DEF SeqTotal
<1>7. QED
  BY <1>5, <1>6

(* and Total computes it.                                                  *)
LEMMA TotalIs ==
    ASSUME NEW s \in Seq(Nat)
    PROVE  \E g : SeqTotal(g, s) /\ Total(s) = g[Len(s)]
<1> DEFINE f == CHOOSE g : SeqTotal(g, s)
<1>1. \E g : SeqTotal(g, s)
  BY TotalExists
<1>2. SeqTotal(f, s)
  BY <1>1, Zenon
<1>3. Total(s) = f[Len(s)]
  BY Zenon DEF Total, SeqTotal
<1>4. QED
  BY <1>2, <1>3, Zenon

(* Sequences with the same beginning add up to the same.                   *)
LEMMA TotalAgree ==
    ASSUME NEW s, NEW t, NEW g, NEW h, NEW n \in Nat,
           Len(s) \in Nat, Len(t) \in Nat, n <= Len(s), n <= Len(t),
           \A i \in 1..n : s[i] = t[i],
           SeqTotal(g, s), SeqTotal(h, t)
    PROVE  \A i \in 0..n : g[i] = h[i]
<1> DEFINE S == {k \in Nat : k \in 0..n => g[k] = h[k]}
<1>1. \A i \in 0..n : /\ g[i] = IF i = 0 THEN 0 ELSE g[i-1] + s[i]
                      /\ h[i] = IF i = 0 THEN 0 ELSE h[i-1] + t[i]
  <2>1. \A i \in 0..Len(s) : g[i] = IF i = 0 THEN 0 ELSE g[i-1] + s[i]
    BY Zenon DEF SeqTotal
  <2>2. \A i \in 0..Len(t) : h[i] = IF i = 0 THEN 0 ELSE h[i-1] + t[i]
    BY Zenon DEF SeqTotal
  <2>3. \A i \in 0..n : i \in 0..Len(s) /\ i \in 0..Len(t)
    OBVIOUS
  <2>4. QED
    BY <2>1, <2>2, <2>3, Zenon
<1>2. 0 \in S
  BY <1>1
<1>3. ASSUME NEW k \in Nat, k \in S PROVE k+1 \in S
  <2> SUFFICES ASSUME k+1 \in 0..n PROVE g[k+1] = h[k+1]
    OBVIOUS
  <2>1. g[k] = h[k] /\ k = (k+1) - 1 /\ k+1 # 0 /\ k+1 \in 1..n
    BY <1>3
  <2>2. QED
    BY <1>1, <2>1
<1>4. \A k \in Nat : k \in S
  <2> HIDE DEF S
  <2>1. QED
    BY <1>2, <1>3, SetInduction
<1>5. QED
  BY <1>4

(* Nothing adds up to 0.                                                   *)
LEMMA TotalEmpty == Total(<<>>) = 0
<1>1. <<>> \in Seq(Nat) /\ Len(<<>>) = 0
  BY EmptySeq
<1>2. PICK g : SeqTotal(g, <<>>) /\ Total(<<>>) = g[0]
  BY <1>1, TotalIs
<1>3. \A n \in 0..0 : g[n] = IF n = 0 THEN 0 ELSE g[n - 1] + <<>>[n]
  BY <1>1, <1>2, Zenon DEF SeqTotal
<1>4. QED
  BY <1>2, <1>3

(* One more number is added.                                               *)
LEMMA TotalAppend ==
    ASSUME NEW s \in Seq(Nat), NEW x \in Nat
    PROVE  Total(Append(s, x)) = Total(s) + x
<1> DEFINE t == Append(s, x)
<1>1. /\ t \in Seq(Nat) /\ Len(t) = Len(s) + 1 /\ Len(s) \in Nat
      /\ \A i \in 1..Len(s) : t[i] = s[i]
      /\ t[Len(s) + 1] = x
  BY AppendProperties, LenProperties
<1> HIDE DEF t
<1>2. PICK h : SeqTotal(h, t) /\ Total(t) = h[Len(t)]
  BY <1>1, TotalIs
<1>3. PICK g : SeqTotal(g, s) /\ Total(s) = g[Len(s)]
  BY TotalIs
<1>4. h[Len(t)] = IF Len(t) = 0 THEN 0 ELSE h[Len(t)-1] + t[Len(t)]
  <2>1. Len(t) \in 0..Len(t)
    BY <1>1
  <2>2. QED
    BY <2>1, <1>2, Zenon DEF SeqTotal
<1>5. \A i \in 0..Len(s) : h[i] = g[i]
  <2>1. /\ Len(t) \in Nat /\ Len(s) \in Nat /\ Len(s) <= Len(s) /\ Len(s) <= Len(t)
        /\ \A i \in 1..Len(s) : t[i] = s[i]
    BY <1>1
  <2>2. QED
    BY <2>1, <1>2, <1>3, TotalAgree
<1>6. Len(t) # 0 /\ Len(t) - 1 = Len(s) /\ Len(s) \in 0..Len(s)
  BY <1>1
<1>7. QED
  BY <1>1, <1>2, <1>3, <1>4, <1>5, <1>6 DEF t

(* A sum of natural numbers is one.                                        *)
LEMMA TotalType ==
    ASSUME NEW s \in Seq(Nat)
    PROVE  Total(s) \in Nat
<1>1. PICK g : SeqTotal(g, s) /\ Total(s) = g[Len(s)]
  BY TotalIs
<1>2. PICK h \in [0..Len(s) -> Nat] : SeqTotal(h, s)
  BY TotalExists
<1>3. Len(s) \in 0..Len(s) /\ Len(s) \in Nat /\ Len(s) <= Len(s) /\ \A i \in 1..Len(s) : s[i] = s[i]
  BY LenProperties
<1>4. \A i \in 0..Len(s) : g[i] = h[i]
  BY <1>1, <1>2, <1>3, TotalAgree
<1>5. QED
  BY <1>1, <1>2, <1>3, <1>4

(* Total goes through concatenation.                                       *)
LEMMA TotalConcat ==
    ASSUME NEW s \in Seq(Nat), NEW t \in Seq(Nat)
    PROVE  Total(s \o t) = Total(s) + Total(t)
<1> DEFINE P == {u \in Seq(Nat) : Total(s \o u) = Total(s) + Total(u)}
<1>1. <<>> \in P
  <2>1. s \o <<>> = s /\ <<>> \in Seq(Nat)
    BY ConcatEmptySeq, EmptySeq
  <2>2. QED
    BY <2>1, TotalEmpty, TotalType
<1>2. ASSUME NEW u \in Seq(Nat), NEW e \in Nat, u \in P PROVE Append(u, e) \in P
  <2>1. s \o Append(u, e) = Append(s \o u, e) /\ s \o u \in Seq(Nat)
    BY ConcatAppend, SMTT(30)
  <2>2. Total(Append(s \o u, e)) = Total(s \o u) + e
    BY <2>1, TotalAppend
  <2>3. Total(Append(u, e)) = Total(u) + e
    BY TotalAppend
  <2>4. Total(s) \in Nat /\ Total(u) \in Nat
    BY TotalType
  <2>5. Append(u, e) \in Seq(Nat)
    BY AppendProperties
  <2>6. Total(s \o Append(u, e)) = Total(s) + Total(Append(u, e))
    BY <1>2, <2>1, <2>2, <2>3, <2>4
  <2>7. QED
    BY <2>5, <2>6
<1>3. \A u \in Seq(Nat) : u \in P
  <2> HIDE DEF P
  <2>1. QED
    BY <1>1, <1>2, SeqInduction
<1>4. QED
  BY <1>3

(* The first number is added to the sum of the others.                     *)
LEMMA TotalHead ==
    ASSUME NEW s \in Seq(Nat), s # <<>>
    PROVE  Total(s) = Head(s) + Total(Tail(s))
<1>1. Head(s) \in Nat /\ Tail(s) \in Seq(Nat) /\ s = <<Head(s)>> \o Tail(s)
  BY HeadTailProperties, ConcatProperties, SeqEqual
<1>2. Total(<<Head(s)>>) = Head(s)
  <2>1. Append(<<>>, Head(s)) = <<Head(s)>> /\ <<>> \in Seq(Nat)
    BY EmptySeq
  <2>2. Total(Append(<<>>, Head(s))) = Total(<<>>) + Head(s)
    BY <1>1, <2>1, TotalAppend
  <2>3. QED
    BY <1>1, <2>1, <2>2, TotalEmpty
<1>3. <<Head(s)>> \in Seq(Nat)
  BY <1>1
<1>4. QED
  BY <1>1, <1>2, <1>3, TotalConcat

-----------------------------------------------------------------------------
(* What Without keeps of nothing is nothing,                               *)
LEMMA WithoutEmpty == ASSUME NEW X PROVE Without(X, <<>>) = <<>>
<1>1. Len(<<>>) = 0 /\ [i \in 1..0 |-> IF <<>>[i] \in X THEN <<>> ELSE <<<<>>[i]>>] = <<>>
  OBVIOUS
<1>2. QED
  BY <1>1, FlattenEmpty DEF Without

(* and one more element comes at the end, unless it is left out.           *)
LEMMA WithoutAppend ==
    ASSUME NEW A, NEW X, NEW s \in Seq(A), NEW e \in A
    PROVE  Without(X, Append(s, e)) = Without(X, s) \o (IF e \in X THEN <<>> ELSE <<e>>)
<1> DEFINE t == Append(s, e)
           piece(x) == IF x \in X THEN <<>> ELSE <<x>>
           ps == [i \in 1..Len(s) |-> piece(s[i])]
           pt == [i \in 1..Len(t) |-> piece(t[i])]
<1>1. /\ Len(t) = Len(s) + 1 /\ Len(s) \in Nat
      /\ \A i \in 1..Len(s) : t[i] = s[i] /\ s[i] \in A
      /\ t[Len(s) + 1] = e
  BY AppendProperties, LenProperties, ElementOfSeq
<1>2. \A x \in A : piece(x) \in Seq(A)
  OBVIOUS
<1> HIDE DEF t
<1>3. ps \in Seq(Seq(A)) /\ Len(ps) = Len(s) /\ piece(e) \in Seq(A)
  <2> HIDE DEF piece
  <2>1. QED
    BY <1>1, <1>2
<1>4. pt = Append(ps, piece(e))
  <2> HIDE DEF piece
  <2>1. pt \in [1..Len(s) + 1 -> Seq(A)] /\ pt \in Seq(Seq(A)) /\ Len(pt) = Len(s) + 1
    <3>1. \A i \in 1..Len(s) + 1 : piece(t[i]) \in Seq(A)
      <4> SUFFICES ASSUME NEW i \in 1..Len(s) + 1 PROVE t[i] \in A
        BY <1>2
      <4>1. i \in 1..Len(s) \/ i = Len(s) + 1
        BY <1>1
      <4>2. QED
        BY <1>1, <4>1
    <3>2. QED
      BY <1>1, <3>1
  <2>2. /\ Append(ps, piece(e)) \in Seq(Seq(A)) /\ Len(Append(ps, piece(e))) = Len(s) + 1
        /\ \A i \in 1..Len(s) : Append(ps, piece(e))[i] = ps[i]
        /\ Append(ps, piece(e))[Len(s) + 1] = piece(e)
    <3> HIDE DEF ps
    <3>1. QED
      BY <1>3, AppendProperties
  <2>3. \A i \in 1..Len(s) : ps[i] = piece(s[i]) /\ pt[i] = piece(s[i])
    BY <1>1
  <2>4. pt[Len(s) + 1] = piece(e)
    BY <1>1
  <2> HIDE DEF ps, pt
  <2>5. \A i \in 1..Len(s) + 1 : pt[i] = Append(ps, piece(e))[i]
    <3> SUFFICES ASSUME NEW i \in 1..Len(s) + 1 PROVE pt[i] = Append(ps, piece(e))[i]
      OBVIOUS
    <3>1. CASE i = Len(s) + 1
      BY <2>2, <2>4, <3>1
    <3>2. CASE i \in 1..Len(s)
      BY <2>2, <2>3, <3>2
    <3>3. i \in 1..Len(s) \/ i = Len(s) + 1
      BY <1>1
    <3>4. QED
      BY <3>1, <3>2, <3>3
  <2>6. QED
    BY <2>1, <2>2, <2>5, SeqEqual
<1>5. FlattenSeq(Append(ps, piece(e))) = FlattenSeq(ps) \o piece(e)
  <2> HIDE DEF ps, piece
  <2>1. QED
    BY <1>3, FlattenAppend
<1>6. FlattenSeq(pt) = Without(X, t) /\ FlattenSeq(ps) = Without(X, s)
  BY DEF Without
<1> HIDE DEF ps, pt
<1>7. Without(X, t) = Without(X, s) \o piece(e)
  BY <1>4, <1>5, <1>6, Zenon
<1>8. QED
  BY <1>7, Zenon DEF t

(* What is left is a sequence of elements of the sequence.                 *)
LEMMA WithoutType ==
    ASSUME NEW A, NEW X, NEW s \in Seq(A)
    PROVE  Without(X, s) \in Seq(A)
<1>1. \A i \in 1..Len(s) : s[i] \in A
  BY ElementOfSeq
<1>2. \A i \in 1..Len(s) : (IF s[i] \in X THEN <<>> ELSE <<s[i]>>) \in Seq(A)
  BY <1>1
<1>3. [i \in 1..Len(s) |-> IF s[i] \in X THEN <<>> ELSE <<s[i]>>] \in Seq(Seq(A))
  BY <1>2, LenProperties
<1>4. QED
  BY <1>3, FlattenType DEF Without

(* Without goes through concatenation.                                     *)
LEMMA WithoutConcat ==
    ASSUME NEW A, NEW X, NEW s \in Seq(A), NEW t \in Seq(A)
    PROVE  Without(X, s \o t) = Without(X, s) \o Without(X, t)
<1> DEFINE P == {u \in Seq(A) : Without(X, s \o u) = Without(X, s) \o Without(X, u)}
<1>1. <<>> \in P
  <2>1. s \o <<>> = s /\ Without(X, s) \o <<>> = Without(X, s) /\ <<>> \in Seq(A)
    BY ConcatEmptySeq, WithoutType, EmptySeq
  <2>2. QED
    BY <2>1, WithoutEmpty
<1>2. ASSUME NEW u \in Seq(A), NEW e \in A, u \in P PROVE Append(u, e) \in P
  <2> DEFINE v == s \o u
             p == IF e \in X THEN <<>> ELSE <<e>>
  <2>1. s \o Append(u, e) = Append(s \o u, e) /\ s \o u \in Seq(A)
    BY ConcatAppend, SMTT(30)
  <2>2. Without(X, Append(s \o u, e)) = Without(X, s \o u) \o p
    <3>1. v \in Seq(A)
      BY <2>1
    <3> HIDE DEF v
    <3>2. Without(X, Append(v, e)) = Without(X, v) \o (IF e \in X THEN <<>> ELSE <<e>>)
      BY <3>1, WithoutAppend
    <3>3. QED
      BY <3>2, Zenon DEF v
  <2>3. Without(X, Append(u, e)) = Without(X, u) \o p
    BY WithoutAppend
  <2>4. p \in Seq(A)
    OBVIOUS
  <2> HIDE DEF p
  <2>5. Joined(Without(X, s), Without(X, u), p)
    BY <2>4, WithoutType, AllJoined
  <2>6. Append(u, e) \in Seq(A)
    BY AppendProperties
  <2>7. Without(X, s \o u) = Without(X, s) \o Without(X, u)
    BY <1>2
  <2>8. Without(X, s \o Append(u, e)) = Without(X, s) \o Without(X, Append(u, e))
    BY <2>1, <2>2, <2>3, <2>5, <2>7, Zenon DEF Joined
  <2>9. QED
    BY <2>6, <2>8
<1>3. \A u \in Seq(A) : u \in P
  <2> HIDE DEF P
  <2>1. QED
    BY <1>1, <1>2, SeqInduction
<1>4. QED
  BY <1>3

(* A sequence that has none of what is left out stays as it is,            *)
LEMMA WithoutNone ==
    ASSUME NEW A, NEW X, NEW s \in Seq(A), \A i \in 1..Len(s) : s[i] \notin X
    PROVE  Without(X, s) = s
<1> DEFINE P == {u \in Seq(A) : (\A i \in 1..Len(u) : u[i] \notin X) => Without(X, u) = u}
<1>1. <<>> \in P
  BY EmptySeq, WithoutEmpty
<1>2. ASSUME NEW u \in Seq(A), NEW e \in A, u \in P PROVE Append(u, e) \in P
  <2>1. Append(u, e) \in Seq(A)
    BY AppendProperties
  <2> SUFFICES ASSUME \A i \in 1..Len(Append(u, e)) : Append(u, e)[i] \notin X
               PROVE  Without(X, Append(u, e)) = Append(u, e)
    BY <2>1
  <2>2. /\ Len(Append(u, e)) = Len(u) + 1 /\ Len(u) \in Nat
        /\ \A i \in 1..Len(u) : Append(u, e)[i] = u[i]
        /\ Append(u, e)[Len(u) + 1] = e
    BY AppendProperties, LenProperties
  <2>3. e \notin X /\ \A i \in 1..Len(u) : u[i] \notin X
    BY <2>2
  <2>4. Without(X, u) = u
    BY <1>2, <2>3
  <2>5. Without(X, Append(u, e)) = Without(X, u) \o <<e>>
    BY <2>3, WithoutAppend
  <2>6. QED
    BY <2>4, <2>5, AppendIsConcat
<1>3. \A u \in Seq(A) : u \in P
  <2> HIDE DEF P
  <2>1. QED
    BY <1>1, <1>2, SeqInduction
<1>4. QED
  BY <1>3

(* and of one that has nothing else nothing is left.                       *)
LEMMA WithoutAll ==
    ASSUME NEW A, NEW X, NEW s \in Seq(A), \A i \in 1..Len(s) : s[i] \in X
    PROVE  Without(X, s) = <<>>
<1> DEFINE P == {u \in Seq(A) : (\A i \in 1..Len(u) : u[i] \in X) => Without(X, u) = <<>>}
<1>1. <<>> \in P
  BY EmptySeq, WithoutEmpty
<1>2. ASSUME NEW u \in Seq(A), NEW e \in A, u \in P PROVE Append(u, e) \in P
  <2>1. Append(u, e) \in Seq(A)
    BY AppendProperties
  <2> SUFFICES ASSUME \A i \in 1..Len(Append(u, e)) : Append(u, e)[i] \in X
               PROVE  Without(X, Append(u, e)) = <<>>
    BY <2>1
  <2>2. /\ Len(Append(u, e)) = Len(u) + 1 /\ Len(u) \in Nat
        /\ \A i \in 1..Len(u) : Append(u, e)[i] = u[i]
        /\ Append(u, e)[Len(u) + 1] = e
    BY AppendProperties, LenProperties
  <2>3. e \in X /\ \A i \in 1..Len(u) : u[i] \in X
    BY <2>2
  <2>4. Without(X, u) = <<>>
    BY <1>2, <2>3
  <2>5. Without(X, Append(u, e)) = Without(X, u) \o <<>>
    BY <2>3, WithoutAppend, ZenonT(30)
  <2>6. QED
    BY <2>4, <2>5
<1>3. \A u \in Seq(A) : u \in P
  <2> HIDE DEF P
  <2>1. QED
    BY <1>1, <1>2, SeqInduction
<1>4. QED
  BY <1>3

(* Leaving out one set and then another leaves out their union.            *)
LEMMA WithoutTwice ==
    ASSUME NEW A, NEW X, NEW Y, NEW s \in Seq(A)
    PROVE  Without(Y, Without(X, s)) = Without(X \cup Y, s)
<1> DEFINE P == {u \in Seq(A) : Without(Y, Without(X, u)) = Without(X \cup Y, u)}
<1>1. <<>> \in P
  BY EmptySeq, WithoutEmpty
<1>2. ASSUME NEW u \in Seq(A), NEW e \in A, u \in P PROVE Append(u, e) \in P
  <2>1. Append(u, e) \in Seq(A) /\ Without(X, u) \in Seq(A)
    BY AppendProperties, WithoutType
  <2>2. Without(X \cup Y, Append(u, e))
          = Without(X \cup Y, u) \o (IF e \in X \cup Y THEN <<>> ELSE <<e>>)
    BY WithoutAppend
  <2>3. Without(Y, Without(X, u)) = Without(X \cup Y, u)
    BY <1>2
  <2>4. CASE e \in X
    <3>1. Without(X, Append(u, e)) = Without(X, u)
      <4>1. Without(X, Append(u, e)) = Without(X, u) \o <<>>
        BY <2>4, WithoutAppend
      <4>2. QED
        BY <2>1, <4>1, ConcatEmptySeq
    <3>2. Without(X \cup Y, Append(u, e)) = Without(X \cup Y, u)
      <4>1. Without(X \cup Y, Append(u, e)) = Without(X \cup Y, u) \o <<>>
        BY <2>2, <2>4
      <4>2. QED
        BY <4>1, WithoutType, ConcatEmptySeq
    <3>3. QED
      BY <2>1, <2>3, <3>1, <3>2
  <2>5. CASE e \notin X
    <3>1. Without(X, Append(u, e)) = Append(Without(X, u), e)
      <4>1. Without(X, Append(u, e)) = Without(X, u) \o <<e>>
        BY <2>5, WithoutAppend
      <4>2. QED
        BY <2>1, <4>1, AppendIsConcat
    <3>2. Without(Y, Append(Without(X, u), e))
            = Without(Y, Without(X, u)) \o (IF e \in Y THEN <<>> ELSE <<e>>)
      BY <2>1, WithoutAppend
    <3>3. (e \in X \cup Y) <=> (e \in Y)
      BY <2>5
    <3>4. QED
      BY <2>1, <2>2, <2>3, <3>1, <3>2, <3>3
  <2>6. QED
    BY <2>4, <2>5
<1>3. \A u \in Seq(A) : u \in P
  <2> HIDE DEF P
  <2>1. QED
    BY <1>1, <1>2, SeqInduction
<1>4. QED
  BY <1>3

-----------------------------------------------------------------------------
(***************************************************************************)
(* Sequences of numbers in order.                                          *)
(***************************************************************************)
Ascending(q) == \A i, j \in 1..Len(q) : i < j => q[i] < q[j]
Above(q, n)  == \A i \in 1..Len(q) : n < q[i]
Below(q, n)  == \A i \in 1..Len(q) : q[i] < n

(* Without the first number, and with one more.                            *)
LEMMA TailOrdered ==
    ASSUME NEW q \in Seq(Nat), q # <<>>, Ascending(q)
    PROVE  /\ Ascending(Tail(q)) /\ Above(Tail(q), Head(q))
           /\ \A n \in Int : Above(q, n) => n < Head(q) /\ Above(Tail(q), n)
           /\ \A n \in Int : Below(q, n) => Head(q) < n /\ Below(Tail(q), n)
<1>1. /\ Len(q) \in Nat /\ Len(q) >= 1 /\ Head(q) = q[1] /\ Len(Tail(q)) = Len(q) - 1
      /\ \A i \in 1..Len(q) - 1 : Tail(q)[i] = q[i + 1]
      /\ \A i \in 1..Len(q) : q[i] \in Nat
  OBVIOUS
<1>2. \A i \in 1..Len(q) - 1 : i + 1 \in 1..Len(q) /\ 1 < i + 1 /\ 1 \in 1..Len(q)
  BY <1>1
<1>3. Ascending(Tail(q))
  <2>1. SUFFICES ASSUME NEW i \in 1..Len(q) - 1, NEW j \in 1..Len(q) - 1, i < j
                 PROVE  Tail(q)[i] < Tail(q)[j]
    BY <1>1 DEF Ascending
  <2>2. i + 1 < j + 1
    BY <1>1, <2>1
  <2>3. QED
    BY <1>1, <1>2, <2>2 DEF Ascending
<1>4. Above(Tail(q), Head(q))
  BY <1>1, <1>2 DEF Ascending, Above
<1>5. ASSUME NEW n \in Int, Above(q, n) PROVE n < Head(q) /\ Above(Tail(q), n)
  BY <1>1, <1>2, <1>5 DEF Above
<1>6. ASSUME NEW n \in Int, Below(q, n) PROVE Head(q) < n /\ Below(Tail(q), n)
  BY <1>1, <1>2, <1>6 DEF Below
<1>7. QED
  BY <1>3, <1>4, <1>5, <1>6

LEMMA AppendOrdered ==
    ASSUME NEW q \in Seq(Nat), NEW x \in Nat, Ascending(q), Below(q, x)
    PROVE  /\ Ascending(Append(q, x))
           /\ \A n \in Int : n < x /\ Above(q, n) => Above(Append(q, x), n)
           /\ Below(Append(q, x), x + 1)
<1>1. /\ Len(q) \in Nat /\ Len(Append(q, x)) = Len(q) + 1
      /\ \A i \in 1..Len(q) : Append(q, x)[i] = q[i] /\ q[i] \in Nat
      /\ Append(q, x)[Len(q) + 1] = x
  OBVIOUS
<1>2. \A i \in 1..Len(q) + 1 : i \in 1..Len(q) \/ i = Len(q) + 1
  BY <1>1
<1>3. Ascending(Append(q, x))
  <2>1. SUFFICES ASSUME NEW i \in 1..Len(q) + 1, NEW j \in 1..Len(q) + 1, i < j
                 PROVE  Append(q, x)[i] < Append(q, x)[j]
    BY <1>1 DEF Ascending
  <2>2. i \in 1..Len(q)
    BY <1>1, <2>1
  <2>3. QED
    BY <1>1, <1>2, <2>1, <2>2 DEF Ascending, Below
<1>4. ASSUME NEW n \in Int, n < x, Above(q, n) PROVE Above(Append(q, x), n)
  BY <1>1, <1>2, <1>4 DEF Above
<1>5. Below(Append(q, x), x + 1)
  BY <1>1, <1>2 DEF Below
<1>6. QED
  BY <1>3, <1>4, <1>5

-----------------------------------------------------------------------------
(***************************************************************************)
(* Strings and buffers.                                                    *)
(***************************************************************************)

(* Two ways to write a string agree where both have an element.            *)
LEMMA SameStart ==
    ASSUME NEW S, NEW p \in Seq(S), NEW w \in Seq(S), NEW m \in Seq(S), NEW r \in Seq(S),
           p \o w = m \o r, NEW i \in 1..Len(p), i \in 1..Len(m)
    PROVE  p[i] = m[i]
<1>1. /\ (p \o w)[i] = p[i]
      /\ (m \o r)[i] = m[i]
  BY ConcatProperties, LenProperties
<1>2. QED
  BY <1>1

(* If the first part of the one way is the longer, it begins with the      *)
(* first part of the other; the rest of it is where the other goes on.     *)
BeginsWith(p, w, m, r, S) ==
    p \o w = m \o r /\ Len(m) <= Len(p) => \E t \in Seq(S) : p = m \o t /\ t \o w = r

(* It holds of any four strings.                                           *)
LEMMA SplitFirst ==
    ASSUME NEW S, NEW p \in Seq(S), NEW w \in Seq(S), NEW m \in Seq(S), NEW r \in Seq(S)
    PROVE  BeginsWith(p, w, m, r, S)
<1> SUFFICES ASSUME p \o w = m \o r, Len(m) <= Len(p)
             PROVE  \E t \in Seq(S) : p = m \o t /\ t \o w = r
  BY DEF BeginsWith
<1> DEFINE t == SubSeq(p, Len(m) + 1, Len(p))
<1>1. Len(p) \in Nat /\ Len(m) \in Nat
  BY LenProperties
<1>2. \A i \in Len(m) + 1..Len(p) : p[i] \in S
  BY <1>1, ElementOfSeq
<1>3. /\ t \in Seq(S) /\ Len(t) = Len(p) - Len(m)
      /\ \A i \in 1..Len(p) - Len(m) : t[i] = p[Len(m) + i]
  <2>1. \A i \in 1..Len(p) - (Len(m) + 1) + 1 : t[i] = p[(Len(m) + 1) + i - 1]
    BY <1>1, <1>2, SubSeqProperties
  <2>2. t \in Seq(S) /\ Len(t) = Len(p) - Len(m)
    BY <1>1, <1>2, SubSeqProperties
  <2>3. QED
    BY <1>1, <2>1, <2>2
<1> HIDE DEF t
<1>4. p = m \o t
  <2>1. /\ m \o t \in Seq(S) /\ Len(m \o t) = Len(p)
        /\ \A i \in 1..Len(p) : (m \o t)[i] = IF i <= Len(m) THEN m[i] ELSE t[i - Len(m)]
    BY <1>1, <1>3, ConcatProperties
  <2>2. \A i \in 1..Len(p) : i <= Len(m) => p[i] = m[i]
    BY <1>1, SameStart
  <2>3. \A i \in 1..Len(p) : i > Len(m) => t[i - Len(m)] = p[i]
    BY <1>1, <1>3
  <2>4. \A i \in 1..Len(p) : p[i] = (m \o t)[i]
    <3> DEFINE u == m \o t
    <3>1. /\ \A i \in 1..Len(p) : u[i] = IF i <= Len(m) THEN m[i] ELSE t[i - Len(m)]
      BY <2>1
    <3> HIDE DEF u
    <3>2. \A i \in 1..Len(p) : p[i] = u[i]
      BY <1>1, <2>2, <2>3, <3>1
    <3>3. QED
      BY <3>2 DEF u
  <2>5. QED
    BY <2>1, <2>4, SeqEqual
<1>5. t \o w = r
  <2>1. m \o (t \o w) = m \o r
    <3>1. Joined(m, t, w)
      BY <1>3, AllJoined
    <3>2. QED
      BY <1>4, <3>1, Zenon DEF Joined
  <2>2. t \o w \in Seq(S)
    BY <1>3, ConcatProperties
  <2>3. QED
    BY <2>1, <2>2, ConcatSimplifications
<1>6. QED
  BY <1>3, <1>4, <1>5

(* Reading k of a string and what is left of it make up the string.        *)
LEMMA CutAt ==
    ASSUME NEW S, NEW w \in Seq(S), NEW k \in 1..Len(w)
    PROVE  /\ SubSeq(w, 1, k) \in Seq(S) /\ Len(SubSeq(w, 1, k)) = k
           /\ \A i \in 1..k : SubSeq(w, 1, k)[i] = w[i]
           /\ SubSeq(w, k + 1, Len(w)) \in Seq(S)
           /\ w = SubSeq(w, 1, k) \o SubSeq(w, k + 1, Len(w))
<1>1. Len(w) \in Nat /\ \A i \in 1..Len(w) : w[i] \in S
  BY LenProperties, ElementOfSeq
<1>2. /\ SubSeq(w, 1, k) \in Seq(S) /\ Len(SubSeq(w, 1, k)) = k
      /\ \A i \in 1..k : SubSeq(w, 1, k)[i] = w[i]
  <2>1. \A i \in 1..k : w[i] \in S
    BY <1>1
  <2>2. \A i \in 1..k - 1 + 1 : SubSeq(w, 1, k)[i] = w[1 + i - 1]
    BY <1>1, <2>1, SubSeqProperties
  <2>3. QED
    BY <1>1, <2>1, <2>2, SubSeqProperties
<1>3. SubSeq(w, k + 1, Len(w)) \in Seq(S)
  <2>1. \A i \in k + 1..Len(w) : w[i] \in S
    BY <1>1
  <2>2. QED
    BY <1>1, <2>1, SubSeqProperties
<1>4. SubSeq(w, 1, k) \o SubSeq(w, k + 1, Len(w)) = SubSeq(w, 1, Len(w))
  BY <1>1, ConcatAdjacentSubSeq
<1>5. QED
  BY <1>2, <1>3, <1>4, SubSeqFull

(* n elements of a buffer, from the h-th on.                               *)
Slice(b, h, n) == [i \in 1..n |-> b[h + i - 1]]

(* Of some numbers one is the least.                                       *)
LEMMA LeastNumber ==
    ASSUME NEW S \in SUBSET Nat, S # {}
    PROVE  \E n \in S : \A m \in S : n <= m
<1> SUFFICES ASSUME \A n \in S : \E m \in S : ~(n <= m) PROVE FALSE
  OBVIOUS
<1> DEFINE P == {n \in Nat : \A m \in 0..n : m \notin S}
<1>1. 0 \in P
  OBVIOUS
<1>2. \A n \in Nat : n \in P => n + 1 \in P
  OBVIOUS
<1>3. \A n \in Nat : n \in P
  <2> HIDE DEF P
  <2>1. QED
    BY <1>1, <1>2, SetInduction
<1>4. PICK n \in S : TRUE
  OBVIOUS
<1>5. QED
  BY <1>3, <1>4
=============================================================================
