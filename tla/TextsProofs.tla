---------------------------- MODULE TextsProofs ----------------------------
(***************************************************************************)
(* Proofs about the texts people type, for texts of every length and every *)
(* value of the limits: the identifiers of accounts and the texts of a     *)
(* word.                                                                   *)
(***************************************************************************)
EXTENDS IdentifiersProps, WordTextsProps,
        NaturalsInduction, FiniteSetTheorems, SequenceTheorems, TLAPS

-----------------------------------------------------------------------------
(* Induction, over sets: no operator is a parameter.                       *)

LEMMA AllNaturals ==
  ASSUME NEW S \in SUBSET Nat, 0 \in S, \A n \in S : n + 1 \in S
  PROVE  S = Nat
<1> SUFFICES ASSUME Nat \ S # {} PROVE FALSE
  OBVIOUS
<1>1. PICK less : less = { p \in Nat \X Nat : p[1] < p[2] }
  OBVIOUS
<1>2. IsWellFoundedOn(less, Nat)
  BY <1>1, NatLessThanWellFounded DEF OpToRel
<1>3. PICK x \in Nat \ S : \A y \in Nat \ S : ~(<<y, x>> \in less)
  BY <1>2, WFMin
<1>4. x # 0 /\ x - 1 \in Nat
  OBVIOUS
<1>5. <<x - 1, x>> \in less
  BY <1>1, <1>4
<1> QED
  BY <1>3, <1>4, <1>5

LEMMA AllSequences ==
  ASSUME NEW T, NEW Q \in SUBSET Seq(T),
         <<>> \in Q, \A s \in Q, e \in T : Append(s, e) \in Q
  PROVE  Q = Seq(T)
<1> DEFINE N == { n \in Nat : \A s \in Seq(T) : Len(s) = n => s \in Q }
<1>1. 0 \in N
  OBVIOUS
<1>2. ASSUME NEW n \in N PROVE n + 1 \in N
  <2>1. SUFFICES ASSUME NEW s \in Seq(T), Len(s) = n + 1 PROVE s \in Q
    OBVIOUS
  <2>2. s # <<>>
    BY <2>1
  <2>3. PICK t \in Seq(T), e \in T : s = Append(t, e)
    BY <2>2, SequenceEmptyOrAppend
  <2>4. Len(t) = n
    BY <2>1, <2>3
  <2> QED
    BY <2>3, <2>4
<1>3. N = Nat
  <2>1. N \in SUBSET Nat
    OBVIOUS
  <2> HIDE DEF N
  <2> QED
    BY <1>1, <1>2, <2>1, AllNaturals
<1>4. ASSUME NEW s \in Seq(T) PROVE s \in Q
  <2>1. Len(s) \in N
    BY <1>3
  <2> QED
    BY <2>1
<1> QED
  BY <1>4

\* The least and the greatest of a set of positions.
LEMMA Least ==
  ASSUME NEW S \in SUBSET Nat, S # {}
  PROVE  Min(S) \in S /\ \A n \in S : Min(S) <= n
<1>1. PICK less : less = { p \in Nat \X Nat : p[1] < p[2] }
  OBVIOUS
<1>2. IsWellFoundedOn(less, Nat)
  BY <1>1, NatLessThanWellFounded DEF OpToRel
<1>3. PICK x \in S : \A y \in S : ~(<<y, x>> \in less)
  BY <1>2, WFMin
<1>4. ASSUME NEW y \in S PROVE x <= y
  <2>1. <<y, x>> \in Nat \X Nat /\ <<y, x>>[1] = y /\ <<y, x>>[2] = x
    OBVIOUS
  <2> QED
    BY <1>1, <1>3, <2>1
<1> QED
  BY <1>4 DEF Min

LEMMA Greatest ==
  ASSUME NEW S \in SUBSET Nat, S # {}, NEW m \in Nat, \A n \in S : n <= m
  PROVE  Max(S) \in S /\ \A n \in S : n <= Max(S)
<1> DEFINE R == { m - n : n \in S }
<1>1. R \in SUBSET Nat /\ R # {}
  <2>1. \A n \in S : m - n \in Nat
    OBVIOUS
  <2> QED
    BY <2>1
<1>2. Min(R) \in R /\ \A k \in R : Min(R) <= k
  <2> HIDE DEF R
  <2> QED
    BY <1>1, Least
<1>3. PICK n \in S : Min(R) = m - n
  BY <1>2
<1>4. ASSUME NEW k \in S PROVE k <= n
  <2>1. m - k \in R
    OBVIOUS
  <2> HIDE DEF R
  <2> QED
    BY <2>1, <1>2, <1>3
<1> QED
  BY <1>4 DEF Max

-----------------------------------------------------------------------------
(* The equations of Without, and what follows from them.                   *)

\* What Without goes through: f[n] is what is kept of the first n.
IsKept(f, s, C, m) ==
  f = [n \in 0 .. m |->
        IF n = 0 THEN <<>>
        ELSE IF s[n] \in C THEN f[n - 1] ELSE Append(f[n - 1], s[n])]

\* One step of it.
KeptNext(f, s, C, n) == IF s[n] \in C THEN f[n - 1] ELSE Append(f[n - 1], s[n])

LEMMA KeptAt ==
  ASSUME NEW s, NEW C, NEW m \in Nat, NEW f, IsKept(f, s, C, m)
  PROVE  f[0] = <<>> /\ \A n \in 1 .. m : f[n] = KeptNext(f, s, C, n)
<1>1. \A i \in 0 .. m : f[i] = IF i = 0 THEN <<>> ELSE KeptNext(f, s, C, i)
  BY DEF IsKept, KeptNext
<1>2. ASSUME NEW i \in 1 .. m PROVE i \in 0 .. m /\ i # 0
  OBVIOUS
<1>3. 0 \in 0 .. m
  OBVIOUS
<1> QED
  BY <1>1, <1>2, <1>3

LEMMA KeptExists ==
  ASSUME NEW s, NEW C, NEW m \in Nat
  PROVE  \E f : IsKept(f, s, C, m)
<1> DEFINE N == { k \in Nat : \E f : IsKept(f, s, C, k) }
<1>1. 0 \in N
  <2>1. PICK f : f = [n \in 0 .. 0 |-> <<>>]
    OBVIOUS
  <2>2. f = [n \in 0 .. 0 |->
              IF n = 0 THEN <<>>
              ELSE IF s[n] \in C THEN f[n - 1] ELSE Append(f[n - 1], s[n])]
    BY <2>1
  <2>3. IsKept(f, s, C, 0)
    BY <2>2 DEF IsKept
  <2> QED
    BY <2>3
<1>2. ASSUME NEW k \in N PROVE k + 1 \in N
  <2>1. k \in Nat
    OBVIOUS
  <2>2. PICK f : IsKept(f, s, C, k)
    OBVIOUS
  <2> DEFINE next == IF s[k + 1] \in C THEN f[k] ELSE Append(f[k], s[k + 1])
  <2>3. PICK x : x = next
    OBVIOUS
  <2>4. PICK g : g = [n \in 0 .. k + 1 |-> IF n = k + 1 THEN x ELSE f[n]]
    OBVIOUS
  <2> DEFINE body(n) == IF n = 0 THEN <<>>
              ELSE IF s[n] \in C THEN g[n - 1] ELSE Append(g[n - 1], s[n])
  <2>5. ASSUME NEW n \in 0 .. k + 1 PROVE g[n] = body(n)
    <3>1. CASE n = k + 1
      <4>1. n # 0 /\ n - 1 = k /\ g[k] = f[k]
        BY <3>1, <2>1, <2>4
      <4>2. g[n] = x
        BY <3>1, <2>1, <2>4
      <4> QED
        BY <4>1, <4>2, <2>3, <3>1
    <3>2. CASE n # k + 1
      <4>1. n \in 0 .. k
        BY <3>2, <2>1
      <4>2. g[n] = f[n] /\ (n # 0 => g[n - 1] = f[n - 1])
        BY <4>1, <2>1, <2>4
      <4>3. f[n] = IF n = 0 THEN <<>>
              ELSE IF s[n] \in C THEN f[n - 1] ELSE Append(f[n - 1], s[n])
        BY <4>1, <2>2 DEF IsKept
      <4> QED
        BY <4>2, <4>3
    <3> QED
      BY <3>1, <3>2
  <2>6. g = [n \in 0 .. k + 1 |-> body(n)]
    <3> HIDE DEF body
    <3> QED
      BY <2>4, <2>5
  <2>7. IsKept(g, s, C, k + 1)
    BY <2>6 DEF IsKept
  <2> QED
    BY <2>1, <2>7
<1>3. N = Nat
  <2>1. N \in SUBSET Nat
    OBVIOUS
  <2> HIDE DEF N
  <2> QED
    BY <1>1, <1>2, <2>1, AllNaturals
<1> QED
  BY <1>3

LEMMA KeptUnique ==
  ASSUME NEW C, NEW m \in Nat, NEW k \in Nat, m <= k,
         NEW s, NEW t, \A i \in 1 .. m : s[i] = t[i],
         NEW f, IsKept(f, s, C, m), NEW g, IsKept(g, t, C, k)
  PROVE  f[m] = g[m]
<1>a. /\ \A n \in 1 .. m : f[n] = KeptNext(f, s, C, n)
      /\ \A n \in 1 .. k : g[n] = KeptNext(g, t, C, n)
  BY KeptAt
<1> DEFINE N == { n \in Nat : n <= m => f[n] = g[n] }
<1>1. 0 \in N
  <2>1. f[0] = <<>> /\ g[0] = <<>>
    BY DEF IsKept
  <2> QED
    BY <2>1
<1>2. ASSUME NEW n \in N PROVE n + 1 \in N
  <2>1. n \in Nat /\ n + 1 - 1 = n /\ n + 1 # 0
    OBVIOUS
  <2>2. SUFFICES ASSUME n + 1 <= m PROVE f[n + 1] = g[n + 1]
    BY <2>1
  <2>3. f[n] = g[n] /\ s[n + 1] = t[n + 1]
    BY <2>1, <2>2
  <2>4. PICK p : p = n + 1
    OBVIOUS
  <2>5. p \in 1 .. m /\ p \in 1 .. k /\ p - 1 = n
    BY <2>1, <2>2, <2>4
  <2>6. f[p] = KeptNext(f, s, C, p) /\ g[p] = KeptNext(g, t, C, p)
    BY <2>5, <1>a
  <2> QED
    BY <2>3, <2>4, <2>5, <2>6 DEF KeptNext
<1>3. N = Nat
  <2>1. N \in SUBSET Nat
    OBVIOUS
  <2> HIDE DEF N
  <2> QED
    BY <1>1, <1>2, <2>1, AllNaturals
<1> QED
  BY <1>3

LEMMA WithoutDef ==
  ASSUME NEW s, NEW C, Len(s) \in Nat
  PROVE  \E f : IsKept(f, s, C, Len(s)) /\ Without(s, C) = f[Len(s)]
<1>1. Without(s, C) = (CHOOSE f : IsKept(f, s, C, Len(s)))[Len(s)]
  BY Zenon DEF Without, IsKept
<1>2. \E f : IsKept(f, s, C, Len(s))
  BY KeptExists
<1> QED
  BY <1>1, <1>2, Zenon

LEMMA WithoutEmpty ==
  ASSUME NEW C
  PROVE  Without(<<>>, C) = <<>>
<1>1. Len(<<>>) = 0
  OBVIOUS
<1>2. PICK f : IsKept(f, <<>>, C, 0) /\ Without(<<>>, C) = f[0]
  BY <1>1, WithoutDef
<1> QED
  BY <1>2 DEF IsKept

LEMMA WithoutAppend ==
  ASSUME NEW S, NEW s \in Seq(S), NEW e \in S, NEW C
  PROVE  Without(Append(s, e), C) =
           IF e \in C THEN Without(s, C) ELSE Append(Without(s, C), e)
<1> DEFINE t == Append(s, e)
<1>1. /\ Len(s) \in Nat /\ Len(t) = Len(s) + 1 /\ t[Len(s) + 1] = e
      /\ \A i \in 1 .. Len(s) : s[i] = t[i]
  BY AppendProperties
<1> HIDE DEF t
<1>2. PICK f : IsKept(f, s, C, Len(s)) /\ Without(s, C) = f[Len(s)]
  BY <1>1, WithoutDef
<1>3. PICK g : IsKept(g, t, C, Len(t)) /\ Without(t, C) = g[Len(t)]
  BY <1>1, WithoutDef
<1>4. f[Len(s)] = g[Len(s)]
  BY <1>1, <1>2, <1>3, KeptUnique
<1>5. g[Len(t)] = KeptNext(g, t, C, Len(t))
  BY <1>1, <1>3, KeptAt
<1>6. Len(t) - 1 = Len(s) /\ t[Len(t)] = e
  BY <1>1
<1> QED
  BY <1>2, <1>3, <1>4, <1>5, <1>6 DEF t, KeptNext

\* The elements of a sequence.
LEMMA ToSetType ==
  ASSUME NEW S, NEW s \in Seq(S)
  PROVE  ToSet(s) \subseteq S /\ s \in Seq(ToSet(s)) /\ \A i \in 1 .. Len(s) : s[i] \in ToSet(s)
<1>1. Len(s) \in Nat /\ DOMAIN s = 1 .. Len(s) /\ s \in [1 .. Len(s) -> S]
  BY LenProperties
<1>2. \A i \in 1 .. Len(s) : s[i] \in ToSet(s)
  BY <1>1 DEF ToSet
<1>3. s \in [1 .. Len(s) -> ToSet(s)]
  BY <1>1, <1>2
<1>4. s \in Seq(ToSet(s))
  BY <1>1, <1>3, SeqDef
<1> QED
  BY <1>1, <1>2, <1>4 DEF ToSet

LEMMA ToSetEmpty == ToSet(<<>>) = {}
  BY DEF ToSet

LEMMA ToSetConcat ==
  ASSUME NEW S, NEW s \in Seq(S), NEW t \in Seq(S)
  PROVE  ToSet(s \o t) = ToSet(s) \cup ToSet(t)
<1>1. /\ Len(s) \in Nat /\ DOMAIN s = 1 .. Len(s)
      /\ Len(t) \in Nat /\ DOMAIN t = 1 .. Len(t)
  BY LenProperties
<1>2. /\ DOMAIN (s \o t) = 1 .. Len(s) + Len(t)
      /\ \A i \in 1 .. Len(s) + Len(t) :
           (s \o t)[i] = IF i <= Len(s) THEN s[i] ELSE t[i - Len(s)]
  BY ConcatProperties, LenProperties
<1>3. ASSUME NEW x \in ToSet(s \o t) PROVE x \in ToSet(s) \cup ToSet(t)
  <2>1. PICK i \in 1 .. Len(s) + Len(t) : x = (s \o t)[i]
    BY <1>2 DEF ToSet
  <2>2. CASE i <= Len(s)
    BY <1>1, <1>2, <2>1, <2>2 DEF ToSet
  <2>3. CASE ~(i <= Len(s))
    <3>1. i - Len(s) \in 1 .. Len(t) /\ x = t[i - Len(s)]
      BY <1>1, <1>2, <2>1, <2>3
    <3> QED
      BY <3>1, <1>1 DEF ToSet
  <2> QED
    BY <2>2, <2>3
<1>4. ASSUME NEW x \in ToSet(s) PROVE x \in ToSet(s \o t)
  <2>1. PICK i \in 1 .. Len(s) : x = s[i]
    BY <1>1 DEF ToSet
  <2>2. i \in 1 .. Len(s) + Len(t) /\ (s \o t)[i] = x
    BY <1>1, <1>2, <2>1
  <2> QED
    BY <1>2, <2>2 DEF ToSet
<1>5. ASSUME NEW x \in ToSet(t) PROVE x \in ToSet(s \o t)
  <2>1. PICK i \in 1 .. Len(t) : x = t[i]
    BY <1>1 DEF ToSet
  <2>2. PICK j : j = Len(s) + i
    OBVIOUS
  <2>3. j \in 1 .. Len(s) + Len(t) /\ ~(j <= Len(s)) /\ j - Len(s) = i
    BY <1>1, <2>1, <2>2
  <2>4. (s \o t)[j] = x
    BY <1>2, <2>1, <2>3
  <2> QED
    BY <1>2, <2>3, <2>4 DEF ToSet
<1> QED
  BY <1>3, <1>4, <1>5

LEMMA ToSetAppend ==
  ASSUME NEW S, NEW s \in Seq(S), NEW e \in S
  PROVE  ToSet(Append(s, e)) = ToSet(s) \cup {e}
<1>1. <<e>> \in Seq(S) /\ ToSet(<<e>>) = {e}
  BY DEF ToSet
<1>2. Append(s, e) = s \o <<e>>
  BY AppendIsConcat
<1>3. ToSet(s \o <<e>>) = ToSet(s) \cup ToSet(<<e>>)
  BY <1>1, ToSetConcat
<1> QED
  BY <1>1, <1>2, <1>3

-----------------------------------------------------------------------------

LEMMA WithoutType ==
  ASSUME NEW S, NEW s \in Seq(S), NEW C
  PROVE  Without(s, C) \in Seq(S)
<1> DEFINE Q == { t \in Seq(S) : Without(t, C) \in Seq(S) }
<1>1. <<>> \in Q
  <2>1. <<>> \in Seq(S) /\ Without(<<>>, C) = <<>>
    BY WithoutEmpty, EmptySeq
  <2> QED
    BY <2>1
<1>2. ASSUME NEW t \in Q, NEW e \in S PROVE Append(t, e) \in Q
  <2>1. Without(t, C) \in Seq(S) /\ Append(t, e) \in Seq(S)
    OBVIOUS
  <2>2. Without(Append(t, e), C) = IF e \in C THEN Without(t, C) ELSE Append(Without(t, C), e)
    BY WithoutAppend
  <2> QED
    BY <2>1, <2>2
<1>3. Q \in SUBSET Seq(S)
  OBVIOUS
<1>4. Q = Seq(S)
  <2> HIDE DEF Q
  <2> QED
    BY <1>1, <1>2, <1>3, AllSequences
<1> QED
  BY <1>4

LEMMA WithoutRange ==
  ASSUME NEW S, NEW s \in Seq(S), NEW C
  PROVE  ToSet(Without(s, C)) = ToSet(s) \ C
<1> DEFINE Q == { t \in Seq(S) : ToSet(Without(t, C)) = ToSet(t) \ C }
<1>1. <<>> \in Q
  BY WithoutEmpty, ToSetEmpty
<1>2. ASSUME NEW t \in Q, NEW e \in S PROVE Append(t, e) \in Q
  <2>1. t \in Seq(S) /\ Append(t, e) \in Seq(S) /\ Without(t, C) \in Seq(S)
    BY WithoutType
  <2>2. Without(Append(t, e), C) = IF e \in C THEN Without(t, C) ELSE Append(Without(t, C), e)
    BY WithoutAppend
  <2>3. /\ ToSet(Append(t, e)) = ToSet(t) \cup {e}
        /\ ToSet(Append(Without(t, C), e)) = ToSet(Without(t, C)) \cup {e}
    BY <2>1, ToSetAppend
  <2> QED
    BY <2>1, <2>2, <2>3
<1>3. Q \in SUBSET Seq(S)
  OBVIOUS
<1>4. Q = Seq(S)
  <2> HIDE DEF Q
  <2> QED
    BY <1>1, <1>2, <1>3, AllSequences
<1> QED
  BY <1>4

LEMMA WithoutNone ==
  ASSUME NEW S, NEW s \in Seq(S), NEW C, S \cap C = {}
  PROVE  Without(s, C) = s
<1> DEFINE Q == { t \in Seq(S) : Without(t, C) = t }
<1>1. <<>> \in Q
  BY WithoutEmpty
<1>2. ASSUME NEW t \in Q, NEW e \in S PROVE Append(t, e) \in Q
  <2>1. Without(t, C) = t /\ Append(t, e) \in Seq(S) /\ e \notin C
    OBVIOUS
  <2>2. Without(Append(t, e), C) = IF e \in C THEN Without(t, C) ELSE Append(Without(t, C), e)
    BY WithoutAppend
  <2> QED
    BY <2>1, <2>2
<1>3. Q \in SUBSET Seq(S)
  OBVIOUS
<1>4. Q = Seq(S)
  <2> HIDE DEF Q
  <2> QED
    BY <1>1, <1>2, <1>3, AllSequences
<1> QED
  BY <1>4

LEMMA WithoutConcat ==
  ASSUME NEW S, NEW s \in Seq(S), NEW t \in Seq(S), NEW C
  PROVE  Without(s \o t, C) = Without(s, C) \o Without(t, C)
<1> DEFINE Q == { u \in Seq(S) : Without(s \o u, C) = Without(s, C) \o Without(u, C) }
<1>0. Without(s, C) \in Seq(S)
  BY WithoutType
<1>1. <<>> \in Q
  BY <1>0, WithoutEmpty, ConcatEmptySeq
<1>2. ASSUME NEW u \in Q, NEW e \in S PROVE Append(u, e) \in Q
  <2>1. /\ u \in Seq(S) /\ Append(u, e) \in Seq(S) /\ Without(u, C) \in Seq(S)
        /\ <<e>> \in Seq(S) /\ s \o u \in Seq(S)
        /\ Without(s \o u, C) = Without(s, C) \o Without(u, C)
    BY WithoutType
  <2>2. s \o Append(u, e) = Append(s \o u, e)
    <3>1. s \o (u \o <<e>>) = (s \o u) \o <<e>>
      BY <2>1, ConcatAssociative
    <3>2. Append(u, e) = u \o <<e>> /\ Append(s \o u, e) = (s \o u) \o <<e>>
      BY <2>1, AppendIsConcat
    <3> QED
      BY <3>1, <3>2
  <2>3. Without(s, C) \o Append(Without(u, C), e) = Append(Without(s, C) \o Without(u, C), e)
    <3>1. Without(s, C) \o (Without(u, C) \o <<e>>) = (Without(s, C) \o Without(u, C)) \o <<e>>
      BY <1>0, <2>1, ConcatAssociative
    <3>2. Without(s, C) \o Without(u, C) \in Seq(S)
      BY <1>0, <2>1, ConcatProperties
    <3>3. /\ Append(Without(u, C), e) = Without(u, C) \o <<e>>
          /\ Append(Without(s, C) \o Without(u, C), e) = (Without(s, C) \o Without(u, C)) \o <<e>>
      BY <2>1, <3>2, AppendIsConcat
    <3> QED
      BY <3>1, <3>3
  <2>4. /\ Without(Append(u, e), C) = IF e \in C THEN Without(u, C) ELSE Append(Without(u, C), e)
        /\ Without(Append(s \o u, e), C) =
             IF e \in C THEN Without(s \o u, C) ELSE Append(Without(s \o u, C), e)
    <3>1. PICK v : v = s \o u
      OBVIOUS
    <3>2. v \in Seq(S) /\ u \in Seq(S)
      BY <2>1, <3>1
    <3>3. Without(Append(v, e), C) = IF e \in C THEN Without(v, C) ELSE Append(Without(v, C), e)
      BY <3>2, WithoutAppend
    <3>4. Without(Append(u, e), C) = IF e \in C THEN Without(u, C) ELSE Append(Without(u, C), e)
      BY <3>2, WithoutAppend
    <3> QED
      BY <3>1, <3>3, <3>4
  <2>5. Without(s \o Append(u, e), C) = Without(s, C) \o Without(Append(u, e), C)
    BY <2>1, <2>2, <2>3, <2>4
  <2> QED
    BY <2>1, <2>5
<1>3. Q \in SUBSET Seq(S)
  OBVIOUS
<1>4. Q = Seq(S)
  <2> HIDE DEF Q
  <2> QED
    BY <1>1, <1>2, <1>3, AllSequences
<1> QED
  BY <1>4

LEMMA EmptyToSet ==
  ASSUME NEW S, NEW s \in Seq(S), ToSet(s) = {}
  PROVE  s = <<>>
<1>1. Len(s) \in Nat /\ \A i \in 1 .. Len(s) : FALSE
  BY ToSetType
<1>2. Len(s) = 0
  BY <1>1
<1> QED
  BY <1>2, EmptySeq

LEMMA WithoutAll ==
  ASSUME NEW S, NEW s \in Seq(S), NEW C, S \subseteq C
  PROVE  Without(s, C) = <<>>
<1>1. Without(s, C) \in Seq(S) /\ ToSet(Without(s, C)) = {}
  BY WithoutType, WithoutRange, ToSetType
<1> QED
  BY <1>1, EmptyToSet

-----------------------------------------------------------------------------
(* What Trim cuts off, and what it leaves.                                 *)

Blanks == {" ", "~"}

\* With nothing left to cut.
Trimmed(t) == t = <<>> \/ (t[1] \notin Blanks /\ t[Len(t)] \notin Blanks)

LEMMA TrimCases ==
  ASSUME NEW S, NEW s \in Seq(S)
  PROVE  \/ ToSet(s) \subseteq Blanks /\ Trim(s) = <<>>
         \/ \E i \in 1 .. Len(s) : \E j \in i .. Len(s) :
              /\ s[i] \notin Blanks /\ s[j] \notin Blanks
              /\ \A k \in 1 .. Len(s) : k < i \/ k > j => s[k] \in Blanks
              /\ Trim(s) = SubSeq(s, i, j)
<1>1. Len(s) \in Nat /\ DOMAIN s = 1 .. Len(s)
  BY LenProperties
<1>2. PICK I : I = { i \in DOMAIN s : s[i] \notin Blanks }
  OBVIOUS
<1>a. \A i : i \in I <=> (i \in 1 .. Len(s) /\ s[i] \notin Blanks)
  BY <1>1, <1>2
<1>3. Trim(s) = IF I = {} THEN <<>> ELSE SubSeq(s, Min(I), Max(I))
  BY <1>2 DEF Trim, Blanks
<1>4. CASE I = {}
  <2>1. \A i \in DOMAIN s : s[i] \in Blanks
    BY <1>2, <1>4
  <2> QED
    BY <1>3, <1>4, <2>1 DEF ToSet
<1>5. CASE I # {}
  <2>1. I \in SUBSET Nat /\ \A i \in I : i <= Len(s)
    BY <1>1, <1>a
  <2>2. Min(I) \in I /\ \A i \in I : Min(I) <= i
    BY <1>5, <2>1, Least
  <2>3. Max(I) \in I /\ \A i \in I : i <= Max(I)
    BY <1>1, <1>5, <2>1, Greatest
  <2>4. PICK i, j : i = Min(I) /\ j = Max(I)
    OBVIOUS
  <2>5. i \in 1 .. Len(s) /\ j \in i .. Len(s)
    BY <1>1, <1>a, <2>2, <2>3, <2>4
  <2>6. s[i] \notin Blanks /\ s[j] \notin Blanks
    BY <1>a, <2>2, <2>3, <2>4
  <2>7. ASSUME NEW k \in 1 .. Len(s), k < i \/ k > j PROVE s[k] \in Blanks
    <3>1. k \notin I
      BY <1>1, <2>2, <2>3, <2>4, <2>5, <2>7
    <3> QED
      BY <1>a, <3>1
  <2>8. Trim(s) = SubSeq(s, i, j)
    BY <1>3, <1>5, <2>4
  <2> QED
    BY <2>5, <2>6, <2>7, <2>8
<1> QED
  BY <1>4, <1>5

LEMMA SubSeqToSet ==
  ASSUME NEW S, NEW s \in Seq(S), NEW m \in 1 .. Len(s) + 1, NEW n \in 0 .. Len(s)
  PROVE  /\ SubSeq(s, m, n) \in Seq(S)
         /\ ToSet(SubSeq(s, m, n)) = { s[k] : k \in m .. n }
<1>1. Len(s) \in Nat /\ \A k \in 1 .. Len(s) : s[k] \in S
  BY LenProperties
<1>2. m \in Int /\ n \in Int /\ \A k \in m .. n : s[k] \in S
  BY <1>1
<1>3. PICK t : t = SubSeq(s, m, n)
  OBVIOUS
<1>4. /\ t \in Seq(S)
      /\ Len(t) = IF m <= n THEN n - m + 1 ELSE 0
      /\ \A k \in 1 .. n - m + 1 : t[k] = s[m + k - 1]
  BY <1>2, <1>3, SubSeqProperties
<1>5. DOMAIN t = 1 .. n - m + 1
  BY <1>2, <1>4, LenProperties
<1>6. ASSUME NEW x \in ToSet(t) PROVE x \in { s[k] : k \in m .. n }
  <2>1. PICK k \in 1 .. n - m + 1 : x = t[k]
    BY <1>5 DEF ToSet
  <2>2. m + k - 1 \in m .. n /\ x = s[m + k - 1]
    BY <1>2, <1>4, <2>1
  <2> QED
    BY <2>2
<1>7. ASSUME NEW k \in m .. n PROVE s[k] \in ToSet(t)
  <2>1. PICK p : p = k - m + 1
    OBVIOUS
  <2>2. p \in 1 .. n - m + 1 /\ m + p - 1 = k
    BY <1>2, <2>1
  <2>3. t[p] = s[k]
    BY <1>4, <2>2
  <2> QED
    BY <1>5, <2>2, <2>3 DEF ToSet
<1> QED
  BY <1>3, <1>4, <1>6, <1>7

LEMMA TrimParts ==
  ASSUME NEW S, NEW s \in Seq(S)
  PROVE  /\ Trim(s) \in Seq(S)
         /\ \E l, r \in Seq(S) :
              /\ ToSet(l) \subseteq Blanks /\ ToSet(r) \subseteq Blanks
              /\ (l \o Trim(s)) \o r = s
<1>1. Len(s) \in Nat /\ <<>> \in Seq(S)
  BY LenProperties, EmptySeq
<1>2. CASE ToSet(s) \subseteq Blanks /\ Trim(s) = <<>>
  <2>1. s = (s \o <<>>) \o <<>>
    BY ConcatEmptySeq
  <2> QED
    BY <1>1, <1>2, <2>1, ToSetEmpty
<1>3. ASSUME NEW i \in 1 .. Len(s), NEW j \in i .. Len(s),
             \A k \in 1 .. Len(s) : k < i \/ k > j => s[k] \in Blanks,
             Trim(s) = SubSeq(s, i, j)
      PROVE  /\ Trim(s) \in Seq(S)
             /\ \E l, r \in Seq(S) :
                  /\ ToSet(l) \subseteq Blanks /\ ToSet(r) \subseteq Blanks
                  /\ (l \o Trim(s)) \o r = s
  <2>1. PICK l, r : l = SubSeq(s, 1, i - 1) /\ r = SubSeq(s, j + 1, Len(s))
    OBVIOUS
  <2>2. l \in Seq(S) /\ ToSet(l) = { s[k] : k \in 1 .. i - 1 }
    <3>1. 1 \in 1 .. Len(s) + 1 /\ i - 1 \in 0 .. Len(s)
      BY <1>1
    <3> QED
      BY <2>1, <3>1, SubSeqToSet
  <2>3. r \in Seq(S) /\ ToSet(r) = { s[k] : k \in j + 1 .. Len(s) }
    <3>1. j + 1 \in 1 .. Len(s) + 1 /\ Len(s) \in 0 .. Len(s)
      BY <1>1
    <3> QED
      BY <2>1, <3>1, SubSeqToSet
  <2>4. Trim(s) \in Seq(S)
    <3>1. i \in 1 .. Len(s) + 1 /\ j \in 0 .. Len(s)
      BY <1>1
    <3> QED
      BY <1>3, <3>1, SubSeqToSet
  <2>5. ToSet(l) \subseteq Blanks
    BY <1>1, <1>3, <2>2
  <2>6. ToSet(r) \subseteq Blanks
    BY <1>1, <1>3, <2>3
  <2>7. (l \o Trim(s)) \o r = s
    <3>1. l \o Trim(s) = SubSeq(s, 1, j)
      <4>1. PICK k : k = i - 1
        OBVIOUS
      <4>2. 1 \in 1 .. Len(s) + 1 /\ k \in (1 - 1) .. Len(s) /\ j \in k .. Len(s) /\ k + 1 = i
        BY <1>1, <4>1
      <4>3. SubSeq(s, 1, k) \o SubSeq(s, k + 1, j) = SubSeq(s, 1, j)
        BY <4>2, ConcatAdjacentSubSeq
      <4> QED
        BY <1>3, <2>1, <4>1, <4>2, <4>3
    <3>2. SubSeq(s, 1, j) \o SubSeq(s, j + 1, Len(s)) = SubSeq(s, 1, Len(s))
      <4>1. 1 \in 1 .. Len(s) + 1 /\ j \in (1 - 1) .. Len(s) /\ Len(s) \in j .. Len(s)
        BY <1>1
      <4> QED
        BY <4>1, ConcatAdjacentSubSeq
    <3>3. SubSeq(s, 1, Len(s)) = s
      BY SubSeqFull
    <3> QED
      BY <2>1, <3>1, <3>2, <3>3
  <2> QED
    BY <2>2, <2>3, <2>4, <2>5, <2>6, <2>7
<1> QED
  BY <1>2, <1>3, TrimCases

LEMMA TrimTrimmed ==
  ASSUME NEW S, NEW s \in Seq(S)
  PROVE  Trimmed(Trim(s))
<1>1. Len(s) \in Nat /\ \A k \in 1 .. Len(s) : s[k] \in S
  BY LenProperties
<1>2. ASSUME NEW i \in 1 .. Len(s), NEW j \in i .. Len(s),
             s[i] \notin Blanks, s[j] \notin Blanks, Trim(s) = SubSeq(s, i, j)
      PROVE  Trimmed(Trim(s))
  <2>1. i \in Int /\ j \in Int /\ i <= j /\ \A k \in i .. j : s[k] \in S
    BY <1>1
  <2>2. PICK t : t = SubSeq(s, i, j)
    OBVIOUS
  <2>3. Len(t) = j - i + 1 /\ \A k \in 1 .. j - i + 1 : t[k] = s[i + k - 1]
    BY <2>1, <2>2, SubSeqProperties
  <2>4. t[1] = s[i]
    <3>1. 1 \in 1 .. j - i + 1 /\ i + 1 - 1 = i
      BY <2>1
    <3> QED
      BY <2>3, <3>1
  <2>5. t[Len(t)] = s[j]
    <3>1. Len(t) \in 1 .. j - i + 1 /\ i + Len(t) - 1 = j
      BY <2>1, <2>3
    <3> QED
      BY <2>3, <3>1
  <2> QED
    BY <1>2, <2>2, <2>4, <2>5 DEF Trimmed
<1> QED
  BY <1>2, TrimCases DEF Trimmed

LEMMA TrimSame ==
  ASSUME NEW S, NEW t \in Seq(S), Trimmed(t)
  PROVE  Trim(t) = t
<1>1. Len(t) \in Nat /\ (t # <<>> => Len(t) > 0)
  BY EmptySeq, LenProperties
<1>2. CASE t = <<>>
  <2>1. DOMAIN t = {}
    BY <1>2
  <2> QED
    BY <1>2, <2>1 DEF Trim
<1>3. CASE t # <<>>
  <2>1. 1 \in 1 .. Len(t) /\ Len(t) \in 1 .. Len(t)
    BY <1>1, <1>3
  <2>2. t[1] \notin Blanks /\ t[Len(t)] \notin Blanks
    BY <1>3 DEF Trimmed
  <2>3. ~(ToSet(t) \subseteq Blanks)
    BY <2>1, <2>2, ToSetType
  <2>4. PICK i \in 1 .. Len(t) : \E j \in i .. Len(t) :
              /\ \A k \in 1 .. Len(t) : k < i \/ k > j => t[k] \in Blanks
              /\ Trim(t) = SubSeq(t, i, j)
    BY <2>3, TrimCases
  <2>5. PICK j \in i .. Len(t) :
              /\ \A k \in 1 .. Len(t) : k < i \/ k > j => t[k] \in Blanks
              /\ Trim(t) = SubSeq(t, i, j)
    BY <2>4
  <2>6. i = 1 /\ j = Len(t)
    BY <1>1, <2>1, <2>2, <2>5
  <2> QED
    BY <2>5, <2>6, SubSeqFull
<1> QED
  BY <1>2, <1>3

LEMMA TrimTwice ==
  ASSUME NEW S, NEW s \in Seq(S)
  PROVE  Trim(Trim(s)) = Trim(s)
<1>1. Trim(s) \in Seq(S) /\ Trimmed(Trim(s))
  BY TrimParts, TrimTrimmed
<1> QED
  BY <1>1, TrimSame

LEMMA TrimRange ==
  ASSUME NEW S, NEW s \in Seq(S)
  PROVE  ToSet(Trim(s)) \subseteq ToSet(s) /\ ToSet(s) \subseteq ToSet(Trim(s)) \cup Blanks
<1>1. PICK l, r \in Seq(S) :
        /\ ToSet(l) \subseteq Blanks /\ ToSet(r) \subseteq Blanks
        /\ (l \o Trim(s)) \o r = s
  BY TrimParts
<1>2. Trim(s) \in Seq(S)
  BY TrimParts
<1>3. PICK u : u = l \o Trim(s)
  OBVIOUS
<1>4. u \in Seq(S) /\ ToSet(u) = ToSet(l) \cup ToSet(Trim(s))
  <2>1. u \in Seq(S)
    BY <1>2, <1>3, ConcatProperties
  <2>2. ToSet(l \o Trim(s)) = ToSet(l) \cup ToSet(Trim(s))
    BY <1>2, ToSetConcat
  <2> QED
    BY <1>3, <2>1, <2>2
<1>5. ToSet(u \o r) = ToSet(u) \cup ToSet(r) /\ u \o r = s
  <2>1. ToSet(u \o r) = ToSet(u) \cup ToSet(r)
    BY <1>4, ToSetConcat
  <2> QED
    BY <1>1, <1>3, <2>1
<1> QED
  BY <1>1, <1>4, <1>5

LEMMA WithoutTrim ==
  ASSUME NEW S, NEW s \in Seq(S), NEW C, Blanks \subseteq C
  PROVE  Without(Trim(s), C) = Without(s, C)
<1>1. PICK l, r \in Seq(S) :
        /\ ToSet(l) \subseteq Blanks /\ ToSet(r) \subseteq Blanks
        /\ (l \o Trim(s)) \o r = s
  BY TrimParts
<1>2. Trim(s) \in Seq(S)
  BY TrimParts
<1>3. Without(l, C) = <<>> /\ Without(r, C) = <<>>
  <2>1. l \in Seq(ToSet(l)) /\ r \in Seq(ToSet(r)) /\ ToSet(l) \subseteq C /\ ToSet(r) \subseteq C
    BY <1>1, ToSetType
  <2> QED
    BY <2>1, WithoutAll
<1>4. PICK u : u = l \o Trim(s)
  OBVIOUS
<1>5. u \in Seq(S) /\ Without(u, C) = Without(l, C) \o Without(Trim(s), C)
  <2>1. u \in Seq(S)
    BY <1>2, <1>4, ConcatProperties
  <2>2. Without(l \o Trim(s), C) = Without(l, C) \o Without(Trim(s), C)
    BY <1>2, WithoutConcat
  <2> QED
    BY <1>4, <2>1, <2>2
<1>6. Without(u \o r, C) = Without(u, C) \o Without(r, C) /\ u \o r = s
  <2>1. u \in Seq(S)
    BY <1>5
  <2>2. Without(u \o r, C) = Without(u, C) \o Without(r, C)
    BY <2>1, WithoutConcat
  <2> QED
    BY <1>1, <1>4, <2>2
<1>7. Without(Trim(s), C) \in Seq(S)
  BY <1>2, WithoutType
<1> QED
  BY <1>3, <1>5, <1>6, <1>7, ConcatEmptySeq

-----------------------------------------------------------------------------
(* Lists of texts: what is left of them when they are tidied.              *)

\* With no blank text in it, and none with blanks around it.
Tidy(list) == \A t \in ToSet(list) : Trimmed(t) /\ t # <<>>

LEMMA TrimmedList ==
  ASSUME NEW S, NEW list \in Seq(Seq(S)), NEW l,
         l = [i \in DOMAIN list |-> Trim(list[i])]
  PROVE  /\ l \in Seq(Seq(S)) /\ Len(l) = Len(list)
         /\ \A t \in ToSet(l) : Trimmed(t) /\ \E u \in ToSet(list) : t = Trim(u)
<1>1. /\ Len(list) \in Nat /\ DOMAIN list = 1 .. Len(list)
      /\ \A i \in 1 .. Len(list) : list[i] \in Seq(S) /\ list[i] \in ToSet(list)
  BY LenProperties, ToSetType
<1>2. \A i \in 1 .. Len(list) : Trim(list[i]) \in Seq(S) /\ Trimmed(Trim(list[i]))
  BY <1>1, TrimParts, TrimTrimmed
<1>3. l \in [1 .. Len(list) -> Seq(S)]
  BY <1>1, <1>2
<1>4. l \in Seq(Seq(S)) /\ Len(l) = Len(list) /\ DOMAIN l = 1 .. Len(list)
  BY <1>1, <1>3, SeqDef
<1>5. ASSUME NEW t \in ToSet(l)
      PROVE  Trimmed(t) /\ \E u \in ToSet(list) : t = Trim(u)
  <2>1. PICK i \in 1 .. Len(list) : t = l[i]
    BY <1>4 DEF ToSet
  <2>2. t = Trim(list[i])
    BY <1>1, <2>1
  <2> QED
    BY <1>1, <1>2, <2>2
<1> QED
  BY <1>4, <1>5

LEMMA PresentTidies ==
  ASSUME NEW S, NEW list \in Seq(Seq(S))
  PROVE  /\ Present(list) \in Seq(Seq(S)) /\ Tidy(Present(list))
         /\ \A t \in ToSet(Present(list)) : \E u \in ToSet(list) : t = Trim(u)
<1>1. PICK l : l = [i \in DOMAIN list |-> Trim(list[i])]
  OBVIOUS
<1>2. /\ l \in Seq(Seq(S))
      /\ \A t \in ToSet(l) : Trimmed(t) /\ \E u \in ToSet(list) : t = Trim(u)
  BY <1>1, TrimmedList
<1>3. Present(list) = Without(l, {<<>>})
  BY <1>1 DEF Present
<1>4. Without(l, {<<>>}) \in Seq(Seq(S))
  BY <1>2, WithoutType
<1>5. ToSet(Without(l, {<<>>})) = ToSet(l) \ {<<>>}
  BY <1>2, WithoutRange
<1> QED
  BY <1>2, <1>3, <1>4, <1>5 DEF Tidy

LEMMA PresentSame ==
  ASSUME NEW S, NEW list \in Seq(Seq(S)), Tidy(list)
  PROVE  Present(list) = list
<1>1. /\ Len(list) \in Nat /\ DOMAIN list = 1 .. Len(list)
      /\ list \in Seq(ToSet(list))
      /\ \A i \in 1 .. Len(list) : list[i] \in Seq(S) /\ list[i] \in ToSet(list)
  BY LenProperties, ToSetType
<1>2. \A i \in 1 .. Len(list) : Trim(list[i]) = list[i]
  BY <1>1, TrimSame DEF Tidy
<1>3. [i \in DOMAIN list |-> Trim(list[i])] = [i \in DOMAIN list |-> list[i]]
  BY <1>1, <1>2
<1>4. [i \in DOMAIN list |-> list[i]] = list
  OBVIOUS
<1>5. ToSet(list) \cap {<<>>} = {}
  BY DEF Tidy
<1>6. Without(list, {<<>>}) = list
  BY <1>1, <1>5, WithoutNone
<1> QED
  BY <1>3, <1>4, <1>6 DEF Present

LEMMA LesserOf ==
  ASSUME NEW m \in Nat, NEW n \in Nat
  PROVE  /\ Min({m, n}) \in Nat /\ Min({m, n}) <= m /\ Min({m, n}) <= n
         /\ (m <= n => Min({m, n}) = m)
<1>1. PICK S : S = {m, n}
  OBVIOUS
<1>2. Min(S) \in S /\ \A k \in S : Min(S) <= k
  BY <1>1, Least
<1>3. m \in S /\ n \in S /\ \A k \in S : k = m \/ k = n
  BY <1>1
<1>4. Min(S) <= m /\ Min(S) <= n /\ (Min(S) = m \/ Min(S) = n)
  BY <1>2, <1>3
<1> QED
  BY <1>1, <1>4

\* What the server keeps of a list, in general and when no text is cut.
LEMMA NormaliseType ==
  ASSUME NEW S, NEW list \in Seq(Seq(S))
  PROVE  NormaliseList(list) \in Seq(Seq(S)) /\ Len(NormaliseList(list)) <= MaxList
<1>1. PICK l : l = Present(list)
  OBVIOUS
<1>2. /\ l \in Seq(Seq(S)) /\ Len(l) \in Nat
      /\ \A i \in 1 .. Len(l) : l[i] \in Seq(S) /\ Len(l[i]) \in Nat
  <2>1. l \in Seq(Seq(S))
    BY <1>1, PresentTidies
  <2> QED
    BY <2>1, LenProperties
<1>3. MaxList \in Nat /\ MaxItem \in Nat
  BY WordTextsAssumption DEF WordTextsAssumption
<1>4. PICK n : n = Min({Len(l), MaxList})
  OBVIOUS
<1>5. n \in Nat /\ n <= Len(l) /\ n <= MaxList
  BY <1>2, <1>3, <1>4, LesserOf
<1>6. ASSUME NEW i \in 1 .. n
      PROVE  SubSeq(l[i], 1, Min({Len(l[i]), MaxItem})) \in Seq(S)
  <2>1. l[i] \in Seq(S) /\ Len(l[i]) \in Nat
    BY <1>2, <1>5
  <2>2. PICK k : k = Min({Len(l[i]), MaxItem})
    OBVIOUS
  <2>3. k \in 0 .. Len(l[i]) /\ 1 \in 1 .. Len(l[i]) + 1
    <3>1. k \in Nat /\ k <= Len(l[i])
      BY <1>3, <2>1, <2>2, LesserOf
    <3> QED
      BY <2>1, <3>1
  <2> QED
    BY <2>1, <2>2, <2>3, SubSeqToSet
<1>7. PICK r : r = [i \in 1 .. n |-> SubSeq(l[i], 1, Min({Len(l[i]), MaxItem}))]
  OBVIOUS
<1>8. NormaliseList(list) = r
  BY <1>1, <1>4, <1>7 DEF NormaliseList
<1>9. r \in [1 .. n -> Seq(S)]
  BY <1>6, <1>7
<1>10. r \in Seq(Seq(S)) /\ Len(r) = n
  BY <1>5, <1>9, SeqDef
<1> QED
  BY <1>5, <1>8, <1>10

LEMMA NormaliseShort ==
  ASSUME NEW S, NEW list \in Seq(Seq(S)),
         \A t \in ToSet(Present(list)) : Len(t) <= MaxItem
  PROVE  /\ Tidy(NormaliseList(list))
         /\ \A t \in ToSet(NormaliseList(list)) : Len(t) <= MaxItem
         /\ Len(Present(list)) <= MaxList => NormaliseList(list) = Present(list)
<1>1. PICK l : l = Present(list)
  OBVIOUS
<1>2. /\ l \in Seq(Seq(S)) /\ Tidy(l) /\ Len(l) \in Nat /\ DOMAIN l = 1 .. Len(l)
      /\ \A i \in 1 .. Len(l) : l[i] \in Seq(S) /\ Len(l[i]) \in Nat /\ l[i] \in ToSet(l)
  <2>1. l \in Seq(Seq(S)) /\ Tidy(l)
    BY <1>1, PresentTidies
  <2> QED
    BY <2>1, LenProperties, ToSetType
<1>3. MaxList \in Nat /\ MaxItem \in Nat
  BY WordTextsAssumption DEF WordTextsAssumption
<1>4. PICK n : n = Min({Len(l), MaxList})
  OBVIOUS
<1>5. n \in Nat /\ n <= Len(l) /\ (Len(l) <= MaxList => n = Len(l))
  BY <1>2, <1>3, <1>4, LesserOf
<1>a. ASSUME NEW i \in 1 .. n PROVE i \in 1 .. Len(l)
  <2>1. PICK m : m = Len(l)
    OBVIOUS
  <2>2. m \in Nat /\ n <= m
    BY <1>2, <1>5, <2>1
  <2>3. i \in 1 .. m
    BY <1>5, <2>2
  <2> QED
    BY <2>1, <2>3
<1>6. ASSUME NEW i \in 1 .. Len(l)
      PROVE  SubSeq(l[i], 1, Min({Len(l[i]), MaxItem})) = l[i]
  <2>1. l[i] \in Seq(S) /\ Len(l[i]) \in Nat /\ Len(l[i]) <= MaxItem
    BY <1>1, <1>2
  <2>2. Min({Len(l[i]), MaxItem}) = Len(l[i])
    BY <1>3, <2>1, LesserOf
  <2>3. SubSeq(l[i], 1, Len(l[i])) = l[i]
    BY <2>1, SubSeqFull
  <2> QED
    BY <2>2, <2>3
<1>7. PICK r : r = NormaliseList(list)
  OBVIOUS
<1>8. r = [i \in 1 .. n |-> SubSeq(l[i], 1, Min({Len(l[i]), MaxItem}))]
  BY <1>1, <1>4, <1>7 DEF NormaliseList
<1>9. r = [i \in 1 .. n |-> l[i]]
  <2>1. \A i \in 1 .. n : i \in 1 .. Len(l)
    BY <1>a
  <2>2. \A i \in 1 .. n : SubSeq(l[i], 1, Min({Len(l[i]), MaxItem})) = l[i]
    BY <1>6, <2>1
  <2> QED
    BY <1>8, <2>2
<1>10. ASSUME NEW t \in ToSet(r) PROVE t \in ToSet(l)
  <2>1. PICK i \in 1 .. n : t = l[i]
    BY <1>9 DEF ToSet
  <2>2. i \in 1 .. Len(l)
    BY <1>a, <2>1
  <2> QED
    BY <1>2, <2>1, <2>2
<1>11. n = Len(l) => r = l
  BY <1>2, <1>9
<1> QED
  BY <1>1, <1>2, <1>5, <1>7, <1>10, <1>11 DEF Tidy

LEMMA NormaliseSame ==
  ASSUME NEW S, NEW list \in Seq(Seq(S)), Tidy(list),
         Len(list) <= MaxList, \A t \in ToSet(list) : Len(t) <= MaxItem
  PROVE  NormaliseList(list) = list
<1>1. Present(list) = list
  BY PresentSame
<1> QED
  BY <1>1, NormaliseShort

-----------------------------------------------------------------------------
(* A word: what the app makes of a form, and the server of a payload.      *)

Lists(S) == Seq(Seq(S))

Payloads(S) ==
  [word : Seq(S), meaning : Seq(S), pronunciation : Lists(S), part : Lists(S),
   source : Lists(S), examples : Lists(S), tags : Lists(S)]

LEMMA SamePayload ==
  ASSUME NEW S, NEW v \in Payloads(S), NEW w \in Payloads(S),
         v.word = w.word, v.meaning = w.meaning, v.pronunciation = w.pronunciation,
         v.part = w.part, v.source = w.source, v.examples = w.examples, v.tags = w.tags
  PROVE  v = w
  BY DEF Payloads

LEMMA SaveFields ==
  ASSUME NEW S, NEW e \in Payloads(S), NEW w, w = Save(e)
  PROVE  /\ w \in Payloads(S)
         /\ w.word = Trim(e.word) /\ w.meaning = Trim(e.meaning) /\ w.part = e.part
         /\ w.pronunciation = Present(e.pronunciation) /\ w.source = Present(e.source)
         /\ w.examples = Present(e.examples) /\ w.tags = Present(e.tags)
<1>1. /\ e.word \in Seq(S) /\ e.meaning \in Seq(S) /\ e.pronunciation \in Lists(S)
      /\ e.source \in Lists(S) /\ e.examples \in Lists(S) /\ e.tags \in Lists(S)
  BY DEF Payloads
<1>2. Trim(e.word) \in Seq(S) /\ Trim(e.meaning) \in Seq(S)
  BY <1>1, TrimParts
<1>3. /\ Present(e.pronunciation) \in Lists(S) /\ Present(e.source) \in Lists(S)
      /\ Present(e.examples) \in Lists(S) /\ Present(e.tags) \in Lists(S)
  BY <1>1, PresentTidies DEF Lists
<1> QED
  BY <1>2, <1>3 DEF Save, Payloads

LEMMA StoredFields ==
  ASSUME NEW S, NEW e \in Payloads(S), Valid(e)
  PROVE  \E w \in Payloads(S) :
           /\ IntoDomain(e) = <<w>>
           /\ w.word = Trim(e.word) /\ w.meaning = Trim(e.meaning) /\ w.part = Present(e.part)
           /\ w.pronunciation = Present(e.pronunciation) /\ w.source = Present(e.source)
           /\ w.examples = NormaliseList(e.examples) /\ w.tags = NormaliseList(e.tags)
<1>1. /\ e.word \in Seq(S) /\ e.meaning \in Seq(S) /\ e.pronunciation \in Lists(S)
      /\ e.part \in Lists(S)
      /\ e.source \in Lists(S) /\ e.examples \in Lists(S) /\ e.tags \in Lists(S)
  BY DEF Payloads
<1>2. Trim(e.word) \in Seq(S) /\ Trim(e.meaning) \in Seq(S)
  BY <1>1, TrimParts
<1>3. /\ Present(e.pronunciation) \in Lists(S) /\ Present(e.source) \in Lists(S)
      /\ Present(e.part) \in Lists(S)
  BY <1>1, PresentTidies DEF Lists
<1>4. NormaliseList(e.examples) \in Lists(S) /\ NormaliseList(e.tags) \in Lists(S)
  BY <1>1, NormaliseType DEF Lists
<1>5. PICK w : w = [e EXCEPT
             !.word = Trim(@), !.meaning = Trim(@), !.part = Present(@),
             !.pronunciation = Present(@), !.source = Present(@),
             !.examples = NormaliseList(@), !.tags = NormaliseList(@)]
  OBVIOUS
<1>6. IntoDomain(e) = <<w>>
  BY <1>5 DEF IntoDomain
<1>7. w \in Payloads(S)
  BY <1>2, <1>3, <1>4, <1>5 DEF Payloads
<1>8. /\ w.word = Trim(e.word) /\ w.meaning = Trim(e.meaning) /\ w.part = Present(e.part)
      /\ w.pronunciation = Present(e.pronunciation) /\ w.source = Present(e.source)
      /\ w.examples = NormaliseList(e.examples) /\ w.tags = NormaliseList(e.tags)
  BY <1>5 DEF Payloads
<1> QED
  BY <1>6, <1>7, <1>8

\* A word that is tidy, and accepted, is stored as it is.
LEMMA TidyIsStored ==
  ASSUME NEW S, NEW w \in Payloads(S), Valid(w),
         Trimmed(w.word), Trimmed(w.meaning), Tidy(w.part), Tidy(w.pronunciation),
         Tidy(w.source), Tidy(w.examples), Tidy(w.tags),
         Len(w.examples) <= MaxList, Len(w.tags) <= MaxList,
         \A t \in ToSet(w.examples) : Len(t) <= MaxItem,
         \A t \in ToSet(w.tags) : Len(t) <= MaxItem
  PROVE  IntoDomain(w) = <<w>>
<1>1. /\ w.word \in Seq(S) /\ w.meaning \in Seq(S) /\ w.pronunciation \in Lists(S)
      /\ w.part \in Lists(S)
      /\ w.source \in Lists(S) /\ w.examples \in Lists(S) /\ w.tags \in Lists(S)
  BY DEF Payloads
<1>2. Trim(w.word) = w.word /\ Trim(w.meaning) = w.meaning
  BY <1>1, TrimSame
<1>3. /\ Present(w.pronunciation) = w.pronunciation /\ Present(w.source) = w.source
      /\ Present(w.part) = w.part
  BY <1>1, PresentSame DEF Lists
<1>4. NormaliseList(w.examples) = w.examples
  BY <1>1, NormaliseSame DEF Lists
<1>5. NormaliseList(w.tags) = w.tags
  BY <1>1, NormaliseSame DEF Lists
<1>6. PICK v \in Payloads(S) :
           /\ IntoDomain(w) = <<v>>
           /\ v.word = Trim(w.word) /\ v.meaning = Trim(w.meaning) /\ v.part = Present(w.part)
           /\ v.pronunciation = Present(w.pronunciation) /\ v.source = Present(w.source)
           /\ v.examples = NormaliseList(w.examples) /\ v.tags = NormaliseList(w.tags)
  BY StoredFields
<1>7. v = w
  BY <1>2, <1>3, <1>4, <1>5, <1>6, SamePayload
<1> QED
  BY <1>6, <1>7

\* An optional text that was within the limit still is when it is tidied.
LEMMA OptionalKept ==
  ASSUME NEW S, NEW o \in Lists(S), OptionalText(o)
  PROVE  OptionalText(Present(o))
<1>1. SUFFICES ASSUME NEW t \in ToSet(Present(o)) PROVE Len(Trim(t)) <= MaxText
  BY DEF OptionalText
<1>2. PICK u \in ToSet(o) : t = Trim(u)
  BY PresentTidies DEF Lists
<1>3. u \in Seq(S)
  BY ToSetType DEF Lists
<1>4. Trim(t) = Trim(u)
  BY <1>2, <1>3, TrimTwice
<1> QED
  BY <1>4 DEF OptionalText

LEMMA TidyOptional ==
  ASSUME NEW S, NEW o \in Lists(S), Tidy(o), \A t \in ToSet(o) : Len(t) <= MaxText
  PROVE  OptionalText(o)
<1>1. SUFFICES ASSUME NEW t \in ToSet(o) PROVE Len(Trim(t)) <= MaxText
  BY DEF OptionalText
<1>2. t \in Seq(S) /\ Trimmed(t)
  BY ToSetType DEF Lists, Tidy
<1> QED
  BY <1>2, TrimSame

(***************************************************************************)
(* Whatever payload was sent: what was stored of it is accepted again from *)
(* the device that has taken it over, and is stored the same unless an     *)
(* item was cut.                                                           *)
(***************************************************************************)
THEOREM StoredAgain ==
  ASSUME NEW S, NEW e \in Payloads(S), NEW w \in ToSet(IntoDomain(e))
  PROVE  /\ IntoDomain(Save(w)) # <<>>
         /\ (\A t \in ToSet(e.examples \o e.tags) : Len(Trim(t)) <= MaxItem) =>
              IntoDomain(Save(w)) = <<w>>
<1>1. /\ e.word \in Seq(S) /\ e.meaning \in Seq(S) /\ e.pronunciation \in Lists(S)
      /\ e.part \in Lists(S)
      /\ e.source \in Lists(S) /\ e.examples \in Lists(S) /\ e.tags \in Lists(S)
  BY DEF Payloads
<1>2. Valid(e)
  <2>1. SUFFICES ASSUME ~Valid(e) PROVE FALSE
    OBVIOUS
  <2>2. IntoDomain(e) = <<>>
    BY <2>1 DEF IntoDomain
  <2> QED
    BY <2>2, ToSetEmpty
<1>3. /\ w \in Payloads(S)
      /\ w.word = Trim(e.word) /\ w.meaning = Trim(e.meaning) /\ w.part = Present(e.part)
      /\ w.pronunciation = Present(e.pronunciation) /\ w.source = Present(e.source)
      /\ w.examples = NormaliseList(e.examples) /\ w.tags = NormaliseList(e.tags)
  <2>1. PICK x \in Payloads(S) :
           /\ IntoDomain(e) = <<x>>
           /\ x.word = Trim(e.word) /\ x.meaning = Trim(e.meaning) /\ x.part = Present(e.part)
           /\ x.pronunciation = Present(e.pronunciation) /\ x.source = Present(e.source)
           /\ x.examples = NormaliseList(e.examples) /\ x.tags = NormaliseList(e.tags)
    BY <1>2, StoredFields
  <2>2. w = x
    BY <2>1 DEF ToSet
  <2> QED
    BY <2>1, <2>2
<1>4. PICK v : v = Save(w)
  OBVIOUS
<1>5. /\ v \in Payloads(S)
      /\ v.word = Trim(w.word) /\ v.meaning = Trim(w.meaning) /\ v.part = w.part
      /\ v.pronunciation = Present(w.pronunciation) /\ v.source = Present(w.source)
      /\ v.examples = Present(w.examples) /\ v.tags = Present(w.tags)
  BY <1>3, <1>4, SaveFields
<1>6. v.word = w.word /\ v.meaning = w.meaning
  BY <1>1, <1>3, <1>5, TrimTwice
<1>7. Tidy(w.pronunciation) /\ Tidy(w.source) /\ Tidy(w.part)
  BY <1>1, <1>3, PresentTidies DEF Lists
<1>8. v.pronunciation = w.pronunciation /\ v.source = w.source /\ Present(w.part) = w.part
  <2>1. w.pronunciation \in Lists(S) /\ w.source \in Lists(S) /\ w.part \in Lists(S)
    BY <1>3 DEF Payloads
  <2> QED
    BY <1>5, <1>7, <2>1, PresentSame DEF Lists
<1>9. Valid(v)
  <2>1. WordText(e.word) /\ WordText(e.meaning) /\ PartOfSpeech(e.part)
        /\ OptionalText(e.pronunciation) /\ OptionalText(e.source)
    BY <1>2 DEF Valid
  <2>2. WordText(v.word) /\ WordText(v.meaning)
    <3>1. Trim(v.word) = Trim(e.word) /\ Trim(v.meaning) = Trim(e.meaning)
      BY <1>1, <1>3, <1>6, TrimTwice
    <3> QED
      BY <2>1, <3>1 DEF WordText
  <2>3. OptionalText(v.pronunciation) /\ OptionalText(v.source)
    BY <1>1, <1>3, <1>8, <2>1, OptionalKept
  <2>4. PartOfSpeech(v.part)
    BY <1>3, <1>5, <1>8, <2>1 DEF PartOfSpeech
  <2> QED
    BY <2>2, <2>3, <2>4 DEF Valid
<1>10. IntoDomain(v) # <<>>
  <2>1. PICK x \in Payloads(S) : IntoDomain(v) = <<x>>
    BY <1>5, <1>9, StoredFields
  <2> QED
    BY <2>1
<1>11. ASSUME \A t \in ToSet(e.examples \o e.tags) : Len(Trim(t)) <= MaxItem
       PROVE  IntoDomain(v) = <<w>>
  <2>1. ToSet(e.examples \o e.tags) = ToSet(e.examples) \cup ToSet(e.tags)
    BY <1>1, ToSetConcat DEF Lists
  <2>2. /\ \A t \in ToSet(Present(e.examples)) : Len(t) <= MaxItem
        /\ \A t \in ToSet(Present(e.tags)) : Len(t) <= MaxItem
    BY <1>1, <1>11, <2>1, PresentTidies DEF Lists
  <2>3. Tidy(w.examples) /\ \A t \in ToSet(w.examples) : Len(t) <= MaxItem
    BY <1>1, <1>3, <2>2, NormaliseShort DEF Lists
  <2>4. Tidy(w.tags) /\ \A t \in ToSet(w.tags) : Len(t) <= MaxItem
    BY <1>1, <1>3, <2>2, NormaliseShort DEF Lists
  <2>5. Len(w.examples) <= MaxList /\ Len(w.tags) <= MaxList
    BY <1>1, <1>3, NormaliseType DEF Lists
  <2>6. v.examples = w.examples /\ v.tags = w.tags
    <3>1. w.examples \in Lists(S) /\ w.tags \in Lists(S)
      BY <1>3 DEF Payloads
    <3> QED
      BY <1>5, <2>3, <2>4, <3>1, PresentSame DEF Lists
  <2>7. v = w
    BY <1>3, <1>5, <1>6, <1>8, <2>6, SamePayload
  <2>8. Trimmed(w.word) /\ Trimmed(w.meaning)
    BY <1>1, <1>3, TrimTrimmed
  <2> QED
    BY <1>3, <1>7, <1>9, <2>3, <2>4, <2>5, <2>7, <2>8, TidyIsStored
<1> QED
  BY <1>4, <1>10, <1>11

(***************************************************************************)
(* Whatever form was filled in: a word that the app saves, with no text    *)
(* over the limits, is stored as it is.                                    *)
(***************************************************************************)
THEOREM SavedIsStored ==
  ASSUME NEW f \in Payloads(Characters),
         f.part = <<>> \/ \E c \in Codes : f.part = <<c>>,
         NEW w, w = Save(f), w.word # <<>>, w.meaning # <<>>, Small(w)
  PROVE  IntoDomain(w) = <<w>>
<1>1. /\ f.word \in Seq(Characters) /\ f.meaning \in Seq(Characters)
      /\ f.pronunciation \in Lists(Characters) /\ f.source \in Lists(Characters)
      /\ f.examples \in Lists(Characters) /\ f.tags \in Lists(Characters)
  BY DEF Payloads
<1>2. /\ w \in Payloads(Characters)
      /\ w.word = Trim(f.word) /\ w.meaning = Trim(f.meaning) /\ w.part = f.part
      /\ w.pronunciation = Present(f.pronunciation) /\ w.source = Present(f.source)
      /\ w.examples = Present(f.examples) /\ w.tags = Present(f.tags)
  BY SaveFields
<1>3. /\ w.word \in Seq(Characters) /\ w.meaning \in Seq(Characters)
      /\ w.pronunciation \in Lists(Characters) /\ w.source \in Lists(Characters)
      /\ w.examples \in Lists(Characters) /\ w.tags \in Lists(Characters)
      /\ w.part \in Lists(Characters)
  BY <1>2 DEF Payloads
<1>4. Trimmed(w.word) /\ Trimmed(w.meaning)
  BY <1>1, <1>2, TrimTrimmed
<1>5. Tidy(w.pronunciation) /\ Tidy(w.source)
  BY <1>1, <1>2, PresentTidies DEF Lists
<1>6. Tidy(w.examples) /\ Tidy(w.tags)
  BY <1>1, <1>2, PresentTidies DEF Lists
<1>7. Tidy(w.part) /\ ToSet(w.part) \subseteq Codes
  <2>1. ToSet(w.part) \subseteq Codes
    BY <1>2, ToSetEmpty DEF ToSet
  <2>2. ASSUME NEW c \in Codes PROVE Trimmed(c) /\ c # <<>>
    <3>1. c \in Seq(Characters) /\ c # <<>> /\ Trim(c) = c
      BY WordTextsAssumption DEF WordTextsAssumption
    <3>2. Trimmed(Trim(c))
      BY <3>1, TrimTrimmed
    <3> QED
      BY <3>1, <3>2
  <2> QED
    BY <2>1, <2>2 DEF Tidy
<1>8. /\ \A t \in ToSet(w.pronunciation) : Len(t) <= MaxText
      /\ \A t \in ToSet(w.source) : Len(t) <= MaxText
  <2>1. ToSet(w.pronunciation \o w.source) = ToSet(w.pronunciation) \cup ToSet(w.source)
    BY <1>3, ToSetConcat DEF Lists
  <2> QED
    BY <2>1 DEF Small
<1>9. /\ \A t \in ToSet(w.examples) : Len(t) <= MaxItem
      /\ \A t \in ToSet(w.tags) : Len(t) <= MaxItem
  <2>1. ToSet(w.examples \o w.tags) = ToSet(w.examples) \cup ToSet(w.tags)
    BY <1>3, ToSetConcat DEF Lists
  <2> QED
    BY <2>1 DEF Small
<1>10. Len(w.examples) <= MaxList /\ Len(w.tags) <= MaxList
  BY DEF Small
<1>11. Valid(w)
  <2>1. WordText(w.word) /\ WordText(w.meaning)
    <3>1. Trim(w.word) = w.word /\ Trim(w.meaning) = w.meaning
      BY <1>3, <1>4, TrimSame
    <3>2. Len(w.word) \in Nat \ {0} /\ Len(w.meaning) \in Nat \ {0}
      BY <1>3, EmptySeq
    <3>3. Len(w.word) <= MaxWord /\ Len(w.meaning) <= MaxWord /\ MaxWord \in Nat
      BY WordTextsAssumption DEF Small, WordTextsAssumption
    <3> QED
      BY <3>1, <3>2, <3>3 DEF WordText
  <2>2. OptionalText(w.pronunciation) /\ OptionalText(w.source)
    BY <1>3, <1>5, <1>8, TidyOptional
  <2>3. PartOfSpeech(w.part)
    <3>1. Present(w.part) = w.part
      BY <1>3, <1>7, PresentSame DEF Lists
    <3> QED
      BY <1>7, <3>1 DEF PartOfSpeech
  <2> QED
    BY <2>1, <2>2, <2>3 DEF Valid
<1> QED
  BY <1>2, <1>4, <1>5, <1>6, <1>7, <1>9, <1>10, <1>11, TidyIsStored

-----------------------------------------------------------------------------
(* The texts that are typed.                                               *)

Typed == raw \in Seq(Characters)

LEMMA InitTyped ==
  ASSUME Init
  PROVE  Typed
  BY EmptySeq DEF Init, Typed

LEMMA NextTyped ==
  ASSUME Typed, [Next]_raw
  PROVE  Typed'
<1>1. ASSUME NEW c \in Characters, Type(c) PROVE Typed'
  <2>1. PICK s : s = raw
    OBVIOUS
  <2>2. Append(s, c) \in Seq(Characters)
    BY <2>1, AppendProperties DEF Typed
  <2> QED
    BY <1>1, <2>1, <2>2 DEF Typed, Type
<1>2. CASE UNCHANGED raw
  BY <1>2 DEF Typed
<1> QED
  BY <1>1, <1>2 DEF Next

LEMMA TypedAlways == Spec => []Typed
  BY InitTyped, NextTyped, PTL DEF Spec

LEMMA EntriesArePayloads ==
  ASSUME Typed
  PROVE  Entries \subseteq Payloads(Characters)
<1> SUFFICES ASSUME NEW e \in Entries PROVE e \in Payloads(Characters)
  OBVIOUS
<1>1. PICK p \in Cuts, all \in BOOLEAN : e = Entry(p, all)
  <2>1. e \in UNION { {Entry(p, FALSE), Entry(p, TRUE)} : p \in Cuts }
    BY Zenon DEF Entries
  <2> QED
    BY <2>1
<1>2. PICK s : s = raw
  OBVIOUS
<1>3. s \in Seq(Characters) /\ Len(s) \in Nat
  BY <1>2 DEF Typed
<1>4. PICK i, j : i = p[1] /\ j = p[2]
  OBVIOUS
<1>5. i \in 0 .. Len(s) /\ j \in 0 .. Len(s)
  BY <1>2, <1>4 DEF Cuts
<1>6. PICK a, b, c : a = SubSeq(s, 1, i) /\ b = SubSeq(s, i + 1, j) /\ c = SubSeq(s, j + 1, Len(s))
  OBVIOUS
<1>7. a \in Seq(Characters)
  <2>1. 1 \in 1 .. Len(s) + 1
    BY <1>3
  <2> QED
    BY <1>3, <1>5, <1>6, <2>1, SubSeqToSet
<1>8. b \in Seq(Characters)
  <2>1. i + 1 \in 1 .. Len(s) + 1
    BY <1>3, <1>5
  <2> QED
    BY <1>3, <1>5, <1>6, <2>1, SubSeqToSet
<1>9. c \in Seq(Characters)
  <2>1. j + 1 \in 1 .. Len(s) + 1 /\ Len(s) \in 0 .. Len(s)
    BY <1>3, <1>5
  <2> QED
    BY <1>3, <1>6, <2>1, SubSeqToSet
<1>10. /\ <<c>> \in Lists(Characters) /\ <<b>> \in Lists(Characters)
       /\ <<c, a, b>> \in Lists(Characters) /\ <<b, c>> \in Lists(Characters)
  BY <1>7, <1>8, <1>9 DEF Lists
<1>11. Entry(p, all) =
         [word |-> a, meaning |-> b, pronunciation |-> <<c>>, part |-> <<c>>, source |-> <<b>>,
          examples |-> IF all THEN <<c, a, b>> ELSE <<c>>, tags |-> <<b, c>>]
  BY <1>2, <1>4, <1>6 DEF Entry, After
<1> QED
  BY <1>1, <1>7, <1>8, <1>10, <1>11 DEF Payloads

(***************************************************************************)
(* What the server stored it accepts again and stores the same, for texts  *)
(* of every length and every limit.                                        *)
(***************************************************************************)
THEOREM StoredTextsSettle == Spec => []StoredSettles
<1>1. ASSUME Typed PROVE StoredSettles
  <2>1. SUFFICES ASSUME NEW e \in Entries, NEW w \in ToSet(IntoDomain(e))
                 PROVE  /\ IntoDomain(Save(w)) # <<>>
                        /\ (\A t \in ToSet(e.examples \o e.tags) : Len(Trim(t)) <= MaxItem) =>
                             IntoDomain(Save(w)) = <<w>>
    BY DEF StoredSettles
  <2>2. PICK x, y : x = e /\ y = w
    OBVIOUS
  <2>3. x \in Payloads(Characters)
    BY <1>1, <2>2, EntriesArePayloads
  <2>4. y \in ToSet(IntoDomain(x))
    BY <2>2
  <2>5. /\ IntoDomain(Save(y)) # <<>>
        /\ (\A t \in ToSet(x.examples \o x.tags) : Len(Trim(t)) <= MaxItem) =>
             IntoDomain(Save(y)) = <<y>>
    BY <1>1, <2>3, <2>4, StoredAgain
  <2> QED
    BY <2>2, <2>5
<1> QED
  BY <1>1, TypedAlways, PTL

(***************************************************************************)
(* A word the app saves, with no text over the limits, comes back as it    *)
(* was, for texts of every length and every limit.                         *)
(***************************************************************************)
THEOREM SavedTextsComeBack == Spec => []SavedComesBack
<1>1. ASSUME Typed PROVE SavedComesBack
  <2>1. SUFFICES ASSUME NEW e \in Entries, NEW part \in {<<>>} \cup { <<c>> : c \in Codes },
                        NEW w, w = Save([e EXCEPT !.part = part]),
                        w.word # <<>>, w.meaning # <<>>, Small(w)
                 PROVE  IntoDomain(w) = <<w>>
    BY DEF SavedComesBack
  <2>2. PICK x, y : x = [e EXCEPT !.part = part] /\ y = part
    OBVIOUS
  <2>3. y \in Lists(Characters) /\ (y = <<>> \/ \E c \in Codes : y = <<c>>)
    <3>1. \A c \in Codes : c \in Seq(Characters)
      BY WordTextsAssumption DEF WordTextsAssumption
    <3>2. <<>> \in Seq(Seq(Characters)) /\ \A c \in Codes : <<c>> \in Seq(Seq(Characters))
      BY <3>1, EmptySeq
    <3> QED
      BY <2>2, <3>2 DEF Lists
  <2>4. x \in Payloads(Characters) /\ x.part = y
    <3>1. e \in Payloads(Characters)
      BY <1>1, EntriesArePayloads
    <3> QED
      BY <2>2, <2>3, <3>1 DEF Payloads
  <2>5. PICK v : v = w
    OBVIOUS
  <2>6. v = Save(x) /\ v.word # <<>> /\ v.meaning # <<>> /\ Small(v)
    BY <2>1, <2>2, <2>5
  <2>7. IntoDomain(v) = <<v>>
    BY <2>3, <2>4, <2>6, SavedIsStored
  <2> QED
    BY <2>5, <2>7
<1> QED
  BY <1>1, TypedAlways, PTL

-----------------------------------------------------------------------------
(* Prefixes, and small letters.                                            *)

LEMMA PrefixParts ==
  ASSUME NEW S, NEW s \in Seq(S), NEW p \in Seq(S), IsPrefix(p, s)
  PROVE  After(s, Len(p)) \in Seq(S) /\ p \o After(s, Len(p)) = s
<1>1. Len(s) \in Nat /\ Len(p) \in Nat /\ Len(p) <= Len(s)
  BY LenProperties DEF IsPrefix
<1>2. SubSeq(s, 1, Len(p)) = p
  <2>1. SubSeq(p, 1, Len(p)) = p
    BY SubSeqFull
  <2> QED
    BY <2>1 DEF IsPrefix
<1>3. PICK k : k = Len(p)
  OBVIOUS
<1>4. 1 \in 1 .. Len(s) + 1 /\ k \in 1 - 1 .. Len(s) /\ Len(s) \in k .. Len(s)
  BY <1>1, <1>3
<1>5. SubSeq(s, 1, k) \o SubSeq(s, k + 1, Len(s)) = SubSeq(s, 1, Len(s))
  BY <1>4, ConcatAdjacentSubSeq
<1>6. SubSeq(s, 1, Len(s)) = s
  BY SubSeqFull
<1>7. SubSeq(s, k + 1, Len(s)) \in Seq(S)
  <2>1. k + 1 \in 1 .. Len(s) + 1 /\ Len(s) \in 0 .. Len(s)
    BY <1>1, <1>3
  <2> QED
    BY <2>1, SubSeqToSet
<1> QED
  BY <1>2, <1>3, <1>5, <1>6, <1>7 DEF After

LEMMA PartsPrefix ==
  ASSUME NEW S, NEW p \in Seq(S), NEW t \in Seq(S)
  PROVE  IsPrefix(p, p \o t) /\ After(p \o t, Len(p)) = t
<1>1. PICK s : s = p \o t
  OBVIOUS
<1>2. /\ s \in Seq(S) /\ Len(s) = Len(p) + Len(t) /\ Len(p) \in Nat /\ Len(t) \in Nat
      /\ \A i \in 1 .. Len(p) + Len(t) : s[i] = IF i <= Len(p) THEN p[i] ELSE t[i - Len(p)]
  BY <1>1, ConcatProperties, LenProperties
<1>3. PICK u : u = SubSeq(s, 1, Len(p))
  OBVIOUS
<1>4. u \in Seq(S) /\ Len(u) = Len(p) /\ \A i \in 1 .. Len(p) : u[i] = s[i]
  <2>1. \A i \in 1 .. Len(p) : s[i] \in S
    BY <1>2, LenProperties
  <2>2. /\ u \in Seq(S) /\ Len(u) = IF 1 <= Len(p) THEN Len(p) - 1 + 1 ELSE 0
        /\ \A i \in 1 .. Len(p) - 1 + 1 : u[i] = s[1 + i - 1]
    BY <1>2, <1>3, <2>1, SubSeqProperties
  <2> QED
    BY <1>2, <2>2
<1>5. u = p
  <2>1. \A i \in 1 .. Len(u) : u[i] = p[i]
    BY <1>2, <1>4
  <2> QED
    BY <1>4, <2>1, SeqEqual
<1>6. IsPrefix(p, s)
  <2>1. SubSeq(p, 1, Len(p)) = p
    BY SubSeqFull
  <2> QED
    BY <1>2, <1>3, <1>5, <2>1 DEF IsPrefix
<1>7. After(s, Len(p)) \in Seq(S) /\ p \o After(s, Len(p)) = s
  BY <1>2, <1>6, PrefixParts
<1>8. PICK v : v = After(s, Len(p))
  OBVIOUS
<1>9. v \in Seq(S) /\ p \o v = p \o t
  BY <1>1, <1>7, <1>8
<1>10. v = t
  BY <1>9, ConcatSimplifications
<1> QED
  BY <1>1, <1>6, <1>8, <1>10

LEMMA LowerFacts ==
  ASSUME NEW S, NEW s \in Seq(S)
  PROVE  /\ Lower(s) \in Seq(S \cup {"a"})
         /\ Len(Lower(s)) = Len(s) /\ DOMAIN Lower(s) = 1 .. Len(s)
         /\ \A i \in 1 .. Len(s) : Lower(s)[i] = IF s[i] = "A" THEN "a" ELSE s[i]
         /\ Lower(Lower(s)) = Lower(s)
         /\ \A x : x \notin {"A", "a"} => (x \in ToSet(Lower(s)) <=> x \in ToSet(s))
         /\ "A" \notin ToSet(s) => Lower(s) = s
<1>1. Len(s) \in Nat /\ DOMAIN s = 1 .. Len(s) /\ s \in [1 .. Len(s) -> S]
  BY LenProperties
<1>2. PICK v : v = Lower(s)
  OBVIOUS
<1>3. v = [i \in 1 .. Len(s) |-> IF s[i] = "A" THEN "a" ELSE s[i]]
  BY <1>1, <1>2 DEF Lower
<1>4. v \in [1 .. Len(s) -> S \cup {"a"}]
  BY <1>1, <1>3
<1>5. v \in Seq(S \cup {"a"}) /\ Len(v) = Len(s) /\ DOMAIN v = 1 .. Len(s)
  BY <1>1, <1>4, SeqDef
<1>6. \A i \in 1 .. Len(s) : v[i] = IF s[i] = "A" THEN "a" ELSE s[i]
  BY <1>3
<1>7. Lower(v) = v
  <2>1. \A i \in DOMAIN v : v[i] # "A"
    BY <1>5, <1>6
  <2>2. Lower(v) = [i \in DOMAIN v |-> v[i]]
    BY <2>1 DEF Lower
  <2> QED
    BY <1>4, <2>2
<1>8. ASSUME NEW x, x \notin {"A", "a"} PROVE x \in ToSet(v) <=> x \in ToSet(s)
  <2>1. x \in ToSet(v) <=> \E i \in 1 .. Len(s) : v[i] = x
    BY <1>5 DEF ToSet
  <2>2. x \in ToSet(s) <=> \E i \in 1 .. Len(s) : s[i] = x
    BY <1>1 DEF ToSet
  <2>3. \A i \in 1 .. Len(s) : v[i] = x <=> s[i] = x
    BY <1>6, <1>8
  <2> QED
    BY <2>1, <2>2, <2>3
<1>9. ASSUME "A" \notin ToSet(s) PROVE v = s
  <2>1. \A i \in 1 .. Len(s) : s[i] # "A"
    BY <1>9, ToSetType
  <2> QED
    BY <1>1, <1>3, <2>1
<1> QED
  BY <1>2, <1>5, <1>6, <1>7, <1>8, <1>9

LEMMA TrimLower ==
  ASSUME NEW S, NEW s \in Seq(S)
  PROVE  Trim(Lower(s)) = Lower(Trim(s))
<1>1. PICK v : v = Lower(s)
  OBVIOUS
<1>2. /\ v \in Seq(S \cup {"a"}) /\ Len(v) = Len(s) /\ Len(s) \in Nat
      /\ DOMAIN v = 1 .. Len(s) /\ DOMAIN s = 1 .. Len(s)
      /\ \A i \in 1 .. Len(s) : v[i] = IF s[i] = "A" THEN "a" ELSE s[i]
  BY <1>1, LowerFacts, LenProperties
<1>3. \A i \in 1 .. Len(s) : v[i] \in Blanks <=> s[i] \in Blanks
  BY <1>2 DEF Blanks
<1>4. PICK I : I = { i \in DOMAIN s : s[i] \notin Blanks }
  OBVIOUS
<1>5. { i \in DOMAIN v : v[i] \notin Blanks } = I
  BY <1>2, <1>3, <1>4
<1>6. Trim(s) = IF I = {} THEN <<>> ELSE SubSeq(s, Min(I), Max(I))
  BY <1>4 DEF Trim, Blanks
<1>7. Trim(v) = IF I = {} THEN <<>> ELSE SubSeq(v, Min(I), Max(I))
  BY <1>5 DEF Trim, Blanks
<1>8. CASE I = {}
  <2>1. Lower(<<>>) = <<>>
    BY DEF Lower
  <2> QED
    BY <1>1, <1>6, <1>7, <1>8, <2>1
<1>9. CASE I # {}
  <2>1. I \in SUBSET Nat /\ \A i \in I : i \in 1 .. Len(s)
    BY <1>2, <1>4
  <2>2. Min(I) \in 1 .. Len(s) /\ Max(I) \in 1 .. Len(s) /\ Min(I) <= Max(I)
    <3>1. Min(I) \in I /\ \A i \in I : Min(I) <= i
      BY <1>9, <2>1, Least
    <3>2. \A i \in I : i <= Len(s)
      BY <2>1
    <3>3. Max(I) \in I
      BY <1>2, <1>9, <2>1, <3>2, Greatest
    <3> QED
      BY <2>1, <3>1, <3>3
  <2>3. PICK m, n : m = Min(I) /\ n = Max(I)
    OBVIOUS
  <2>4. m \in 1 .. Len(s) /\ n \in 1 .. Len(s) /\ m <= n
    BY <2>2, <2>3
  <2>5. PICK t, u : t = SubSeq(s, m, n) /\ u = SubSeq(v, m, n)
    OBVIOUS
  <2>6. t \in Seq(S) /\ Len(t) = n - m + 1 /\ \A i \in 1 .. n - m + 1 : t[i] = s[m + i - 1]
    <3>1. \A i \in m .. n : s[i] \in S
      BY <1>2, <2>4, LenProperties
    <3> QED
      BY <2>4, <2>5, <3>1, SubSeqProperties
  <2>7. /\ u \in Seq(S \cup {"a"}) /\ Len(u) = n - m + 1
        /\ \A i \in 1 .. n - m + 1 : u[i] = v[m + i - 1]
    <3>1. \A i \in m .. n : v[i] \in S \cup {"a"}
      BY <1>2, <2>4, LenProperties
    <3> QED
      BY <2>4, <2>5, <3>1, SubSeqProperties
  <2>8. PICK w : w = Lower(t)
    OBVIOUS
  <2>9. /\ w \in Seq(S \cup {"a"}) /\ Len(w) = n - m + 1
        /\ \A i \in 1 .. n - m + 1 : w[i] = IF t[i] = "A" THEN "a" ELSE t[i]
    BY <2>6, <2>8, LowerFacts
  <2>10. ASSUME NEW i \in 1 .. n - m + 1 PROVE u[i] = w[i]
    <3>1. m + i - 1 \in 1 .. Len(s)
      BY <1>2, <2>4
    <3> QED
      BY <1>2, <2>6, <2>7, <2>9, <3>1
  <2>11. u = w
    BY <2>7, <2>9, <2>10, SeqEqual
  <2> QED
    BY <1>1, <1>6, <1>7, <1>9, <2>3, <2>5, <2>8, <2>11
<1> QED
  BY <1>8, <1>9

-----------------------------------------------------------------------------
(* What Parse makes of a text.                                             *)

Seps == {" ", ".", "~"}

Shape(s) ==
  /\ s # <<>> /\ s[1] \in {"+", "0"}
  /\ ToSet(s) \subseteq Digits \cup {"+", " ", "."}

AsPhone(s) ==
  IF HasPrefix(s) /\ Number(Without(Body(s), Seps))
  THEN Phone(<<"+">> \o Without(Body(s), Seps)) ELSE None

AtSigns(v) == { i \in DOMAIN v : v[i] = "@" }

Addressed(v) ==
  /\ Bytes(v) <= MaxEmail /\ AtSigns(v) # {}
  /\ Min(AtSigns(v)) # 1 /\ Bytes(SubSeq(v, 1, Min(AtSigns(v)) - 1)) <= MaxLocal
  /\ Contains(After(v, Min(AtSigns(v))), ".")

AsEmail(s) == IF Addressed(Lower(s)) THEN Email(Lower(s)) ELSE None

AsIdentifier(s) == IF Shape(s) THEN AsPhone(s) ELSE AsEmail(s)

LEMMA PhoneNumberIs ==
  ASSUME NEW text
  PROVE  PhoneNumber(text) = AsPhone(Trim(text))
  BY Zenon DEF PhoneNumber, AsPhone, Seps

LEMMA EmailAddressIs ==
  ASSUME NEW text
  PROVE  EmailAddress(text) = AsEmail(Trim(text))
  BY Zenon DEF EmailAddress, AsEmail, Addressed, AtSigns

LEMMA LooksLikeIs ==
  ASSUME NEW text
  PROVE  LooksLike(text) <=> Shape(Trim(text))
<1>1. PICK s : s = Trim(text)
  OBVIOUS
<1>2. (\A i \in DOMAIN s : s[i] \in Digits \cup {"+", " ", "."})
        <=> ToSet(s) \subseteq Digits \cup {"+", " ", "."}
  BY DEF ToSet
<1> QED
  BY <1>1, <1>2, Zenon DEF LooksLike, Shape

LEMMA ParseIs ==
  ASSUME NEW S, NEW text \in Seq(S)
  PROVE  Parse(text) = AsIdentifier(Trim(text))
<1>1. PICK s : s = Trim(text)
  OBVIOUS
<1>2. Trim(s) = s
  BY <1>1, TrimTwice
<1>3. LooksLike(s) <=> Shape(s)
  BY <1>2, LooksLikeIs
<1>4. PhoneNumber(s) = AsPhone(s) /\ EmailAddress(s) = AsEmail(s)
  BY <1>2, PhoneNumberIs, EmailAddressIs
<1> QED
  BY <1>1, <1>3, <1>4, Zenon DEF Parse, AsIdentifier

LEMMA Kinds ==
  /\ None.kind = "none"
  /\ \A s : Phone(s).kind = "phone" /\ Email(s).kind = "email"
  /\ \A s : Phone(s).value = s /\ Email(s).value = s
  /\ \A s : Phone(s) # None /\ Email(s) # None
  /\ \A s, t : Phone(s) # Email(t)
  BY DEF None, Phone, Email

LEMMA NumberType ==
  ASSUME NEW S, NEW d \in Seq(S), Number(d)
  PROVE  d \in Seq(Digits)
<1>1. d \in Seq(ToSet(d)) /\ ToSet(d) \subseteq Digits
  BY ToSetType DEF Number
<1> QED
  BY <1>1, SeqMonotonic

LEMMA DigitFacts ==
  /\ Digits \cap {"+", " ", "~", ".", "@", "A", "a"} = {}
  /\ "0" \in Digits /\ MobileStart \subseteq Digits \ {"0"}
  /\ CountryCode \in Seq(Digits \ {"0"})
  BY IdentifierAssumption, Zenon DEF IdentifierAssumption

LEMMA LimitFacts ==
  /\ MinDigits \in Nat /\ MaxDigits \in Nat /\ MaxEmail \in Nat /\ MaxLocal \in Nat
  /\ NationalLength \in Nat \ {0}
  /\ MinDigits <= Len(CountryCode) + NationalLength
  /\ Len(CountryCode) + NationalLength <= MaxDigits
  BY IdentifierAssumption, Zenon DEF IdentifierAssumption

\* The parts of a text with an international prefix.
LEMMA PrefixedParts ==
  ASSUME NEW S, NEW s \in Seq(S), HasPrefix(s), {"+", "0"} \subseteq S
  PROVE  /\ Body(s) \in Seq(S)
         /\ IsPrefix(<<"+">>, s) => <<"+">> \o Body(s) = s
         /\ ~IsPrefix(<<"+">>, s) => <<"0", "0">> \o Body(s) = s
<1>1. /\ <<"+">> \in Seq(S) /\ Len(<<"+">>) = 1
      /\ <<"0", "0">> \in Seq(S) /\ Len(<<"0", "0">>) = 2
  OBVIOUS
<1>2. CASE IsPrefix(<<"+">>, s)
  <2>1. After(s, Len(<<"+">>)) \in Seq(S) /\ <<"+">> \o After(s, Len(<<"+">>)) = s
    BY <1>1, <1>2, PrefixParts
  <2> QED
    BY <1>1, <1>2, <2>1 DEF Body
<1>3. CASE ~IsPrefix(<<"+">>, s)
  <2>1. IsPrefix(<<"0", "0">>, s)
    BY <1>3 DEF HasPrefix
  <2>2. /\ After(s, Len(<<"0", "0">>)) \in Seq(S)
        /\ <<"0", "0">> \o After(s, Len(<<"0", "0">>)) = s
    BY <1>1, <2>1, PrefixParts
  <2> QED
    BY <1>1, <1>3, <2>2 DEF Body
<1> QED
  BY <1>2, <1>3

LEMMA NumberTrimmed ==
  ASSUME NEW d \in Seq(Digits)
  PROVE  Trimmed(<<"+">> \o d)
<1>1. PICK T : T = Digits \cup {"+"}
  OBVIOUS
<1>2. d \in Seq(T) /\ <<"+">> \in Seq(T) /\ Len(<<"+">>) = 1 /\ Len(d) \in Nat
  BY <1>1, SeqMonotonic, LenProperties
<1>3. PICK s : s = <<"+">> \o d
  OBVIOUS
<1>4. s \in Seq(T) /\ Len(s) = 1 + Len(d)
  BY <1>2, <1>3, ConcatProperties
<1>5. s[1] \in T /\ s[Len(s)] \in T
  BY <1>2, <1>4, ElementOfSeq
<1>6. T \cap Blanks = {}
  BY <1>1, DigitFacts DEF Blanks
<1> QED
  BY <1>3, <1>5, <1>6 DEF Trimmed

(***************************************************************************)
(* A phone as it is stored is read as that phone.                          *)
(***************************************************************************)
LEMMA StoredPhone ==
  ASSUME NEW S, NEW d \in Seq(S), Number(d)
  PROVE  Parse(<<"+">> \o d) = Phone(<<"+">> \o d)
<1> DEFINE T == Digits \cup {"+"}
<1>1. d \in Seq(Digits) /\ d \in Seq(T) /\ <<"+">> \in Seq(T) /\ Len(<<"+">>) = 1
  <2>1. d \in Seq(Digits)
    BY NumberType
  <2> QED
    BY <2>1, SeqMonotonic
<1>2. PICK s : s = <<"+">> \o d
  OBVIOUS
<1>3. /\ s \in Seq(T) /\ Len(s) = 1 + Len(d) /\ Len(d) \in Nat
      /\ s[1] = "+" /\ \A i \in 1 .. Len(s) : s[i] \in T
  <2>1. /\ <<"+">> \o d \in Seq(T) /\ Len(<<"+">> \o d) = Len(<<"+">>) + Len(d)
        /\ \A i \in 1 .. Len(<<"+">>) + Len(d) :
             (<<"+">> \o d)[i] = IF i <= Len(<<"+">>) THEN <<"+">>[i] ELSE d[i - Len(<<"+">>)]
    BY <1>1, ConcatProperties
  <2>2. Len(d) \in Nat
    BY <1>1, LenProperties
  <2>3. 1 \in 1 .. Len(<<"+">>) + Len(d) /\ 1 <= Len(<<"+">>)
    BY <1>1, <2>2
  <2>4. (<<"+">> \o d)[1] = "+"
    BY <2>1, <2>3
  <2> HIDE DEF T
  <2>5. \A i \in 1 .. Len(s) : s[i] \in T
    BY <1>2, <2>1, LenProperties
  <2> QED
    BY <1>1, <1>2, <2>1, <2>2, <2>4, <2>5
<1>4. Trim(s) = s
  <2>1. Trimmed(s)
    BY <1>1, <1>2, NumberTrimmed
  <2> QED
    BY <1>3, <2>1, TrimSame
<1>5. Shape(s)
  <2>1. s # <<>>
    BY <1>3, EmptySeq
  <2>2. ToSet(s) \subseteq T
    BY <1>3, ToSetType
  <2> QED
    BY <1>3, <2>1, <2>2 DEF Shape
<1>6. IsPrefix(<<"+">>, s) /\ After(s, 1) = d
  BY <1>1, <1>2, PartsPrefix
<1>7. HasPrefix(s) /\ Body(s) = d
  BY <1>6 DEF HasPrefix, Body
<1>8. Without(d, Seps) = d
  <2>1. Digits \cap Seps = {}
    BY DigitFacts DEF Seps
  <2> QED
    BY <1>1, <2>1, WithoutNone
<1>9. Parse(s) = AsIdentifier(s)
  BY <1>3, <1>4, ParseIs
<1> QED
  BY <1>2, <1>5, <1>7, <1>8, <1>9 DEF AsIdentifier, AsPhone

(***************************************************************************)
(* An address as it is stored is read as an address, and is that one.      *)
(***************************************************************************)
LEMMA AddressIsOne ==
  ASSUME NEW S, NEW s \in Seq(S), Trimmed(s), NEW v, v = Lower(s), "@" \in ToSet(v)
  PROVE  Parse(v) = IF Addressed(v) THEN Email(v) ELSE None
<1>1. v \in Seq(S \cup {"a"}) /\ Lower(v) = v
  BY LowerFacts
<1>2. Trim(v) = v
  <2>1. Trim(v) = Lower(Trim(s)) /\ Trim(s) = s
    BY TrimLower, TrimSame
  <2> QED
    BY <2>1
<1>3. ~Shape(v)
  BY DigitFacts DEF Shape
<1>4. Parse(v) = AsIdentifier(v)
  BY <1>1, <1>2, ParseIs
<1> QED
  BY <1>1, <1>3, <1>4 DEF AsIdentifier, AsEmail

LEMMA StoredEmail ==
  ASSUME NEW S, NEW s \in Seq(S), Trimmed(s), NEW v, v = Lower(s), Addressed(v)
  PROVE  Parse(v) = Email(v)
<1>1. "@" \in ToSet(v)
  BY DEF Addressed, AtSigns, ToSet
<1> QED
  BY <1>1, AddressIsOne

LEMMA UnfitEmail ==
  ASSUME NEW S, NEW s \in Seq(S), Trimmed(s), NEW v, v = Lower(s), "@" \in ToSet(v),
         ~Addressed(v)
  PROVE  Parse(v) = None
BY AddressIsOne

(***************************************************************************)
(* What is found in an account was parsed, or came with a one-time code.   *)
(***************************************************************************)
LEMMA AsPhoneStored ==
  ASSUME NEW S, NEW s \in Seq(S), AsPhone(s) # None
  PROVE  /\ Parse(AsPhone(s).value) = AsPhone(s) /\ AsPhone(s).kind = "phone"
         /\ HasPrefix(s) /\ Number(Without(Body(s), Seps))
         /\ AsPhone(s) = Phone(<<"+">> \o Without(Body(s), Seps))
<1> DEFINE T == S \cup {"+", "0"}
<1>1. /\ HasPrefix(s) /\ Number(Without(Body(s), Seps))
      /\ AsPhone(s) = Phone(<<"+">> \o Without(Body(s), Seps))
  BY Zenon DEF AsPhone
<1>2. s \in Seq(T)
  BY SeqMonotonic
<1>3. Body(s) \in Seq(T)
  BY <1>1, <1>2, PrefixedParts
<1>4. PICK d : d = Without(Body(s), Seps)
  OBVIOUS
<1>5. d \in Seq(T)
  BY <1>3, <1>4, WithoutType
<1>6. Parse(<<"+">> \o d) = Phone(<<"+">> \o d)
  BY <1>1, <1>4, <1>5, StoredPhone
<1> QED
  BY <1>1, <1>4, <1>6, Kinds

LEMMA AsEmailStored ==
  ASSUME NEW S, NEW s \in Seq(S), Trimmed(s), AsEmail(s) # None
  PROVE  /\ Parse(AsEmail(s).value) = AsEmail(s)
         /\ AsEmail(s) = Email(Lower(s)) /\ Addressed(Lower(s))
<1>1. AsEmail(s) = Email(Lower(s)) /\ Addressed(Lower(s))
  BY Zenon DEF AsEmail
<1>2. Parse(Lower(s)) = Email(Lower(s))
  BY <1>1, StoredEmail
<1> QED
  BY <1>1, <1>2, Kinds

LEMMA ParsedIsFound ==
  ASSUME NEW S, NEW text \in Seq(S), Parse(text) # None
  PROVE  Parse(Parse(text).value) = Parse(text)
<1>1. PICK t : t = Trim(text)
  OBVIOUS
<1>2. t \in Seq(S) /\ Trimmed(t)
  BY <1>1, TrimParts, TrimTrimmed
<1>3. Parse(text) = AsIdentifier(t)
  BY <1>1, ParseIs
<1>4. CASE Shape(t)
  <2>1. Parse(text) = AsPhone(t)
    BY <1>3, <1>4 DEF AsIdentifier
  <2> QED
    BY <1>2, <2>1, AsPhoneStored
<1>5. CASE ~Shape(t)
  <2>1. Parse(text) = AsEmail(t)
    BY <1>3, <1>5 DEF AsIdentifier
  <2> QED
    BY <1>2, <2>1, AsEmailStored
<1> QED
  BY <1>4, <1>5

\* The number that a phone for one-time codes is, and how it was spelled.
LEMMA CodeParts ==
  ASSUME NEW S, NEW c \in Seq(S), CodePhone(c) # None
  PROVE  \E n \in Seq(Digits) :
           /\ Mobile(n) /\ CodePhone(c) = Phone((<<"+">> \o CountryCode) \o n)
           /\ \/ c = (<<"+">> \o CountryCode) \o n
              \/ c = <<"0">> \o n
              \/ c = n
<1> DEFINE T == S \cup Digits \cup {"+", "0"}
<1>1. PICK p : p = <<"+">> \o CountryCode
  OBVIOUS
<1>2. c \in Seq(T)
  BY SeqMonotonic
<1>3. p \in Seq(T)
  <2>1. CountryCode \in Seq(T)
    BY DigitFacts, SeqMonotonic
  <2>2. <<"+">> \in Seq(T)
    OBVIOUS
  <2> HIDE DEF T
  <2> QED
    BY <1>1, <2>1, <2>2, ConcatProperties
<1>4. PICK n : n = IF IsPrefix(p, c) THEN After(c, Len(p))
                   ELSE IF IsPrefix(<<"0">>, c) THEN After(c, 1) ELSE c
  OBVIOUS
<1>5. Mobile(n) /\ CodePhone(c) = Phone(p \o n)
  <2>1. CodePhone(c) = IF Mobile(n) THEN Phone(p \o n) ELSE None
    BY <1>1, <1>4, Zenon DEF CodePhone
  <2> QED
    BY <2>1
<1>6. n \in Seq(T) /\ (c = p \o n \/ c = <<"0">> \o n \/ c = n)
  <2>1. CASE IsPrefix(p, c)
    BY <1>2, <1>3, <1>4, <2>1, PrefixParts
  <2>2. CASE ~IsPrefix(p, c) /\ IsPrefix(<<"0">>, c)
    <3>1. <<"0">> \in Seq(T) /\ Len(<<"0">>) = 1
      OBVIOUS
    <3>2. After(c, Len(<<"0">>)) \in Seq(T) /\ <<"0">> \o After(c, Len(<<"0">>)) = c
      BY <1>2, <2>2, <3>1, PrefixParts
    <3> QED
      BY <1>4, <2>2, <3>1, <3>2
  <2>3. CASE ~IsPrefix(p, c) /\ ~IsPrefix(<<"0">>, c)
    BY <1>2, <1>4, <2>3
  <2> QED
    BY <2>1, <2>2, <2>3
<1>7. n \in Seq(Digits)
  <2>1. n \in Seq(ToSet(n)) /\ ToSet(n) \subseteq Digits
    BY <1>5, <1>6, ToSetType DEF Mobile
  <2> QED
    BY <2>1, SeqMonotonic
<1> QED
  BY <1>1, <1>5, <1>6, <1>7

LEMMA MobileIsNumber ==
  ASSUME NEW n \in Seq(Digits), Mobile(n)
  PROVE  /\ CountryCode \o n \in Seq(Digits) /\ Number(CountryCode \o n)
         /\ (<<"+">> \o CountryCode) \o n = <<"+">> \o (CountryCode \o n)
<1>1. CountryCode \in Seq(Digits) /\ Len(CountryCode) \in Nat /\ Len(n) \in Nat
  BY DigitFacts, SeqMonotonic, LenProperties
<1>2. PICK d : d = CountryCode \o n
  OBVIOUS
<1>3. /\ d \in Seq(Digits) /\ Len(d) = Len(CountryCode) + Len(n)
      /\ \A i \in 1 .. Len(CountryCode) + Len(n) :
           d[i] = IF i <= Len(CountryCode) THEN CountryCode[i] ELSE n[i - Len(CountryCode)]
  BY <1>1, <1>2, ConcatProperties
<1>4. ToSet(d) \subseteq Digits
  BY <1>3, ToSetType
<1>5. /\ Len(n) = NationalLength /\ NationalLength \in Nat \ {0}
      /\ Len(CountryCode) + NationalLength \in MinDigits .. MaxDigits
  <2>1. Len(n) = NationalLength
    BY DEF Mobile
  <2>2. /\ NationalLength \in Nat \ {0} /\ MinDigits \in Nat /\ MaxDigits \in Nat
        /\ MinDigits <= Len(CountryCode) + NationalLength
        /\ Len(CountryCode) + NationalLength <= MaxDigits
    BY LimitFacts
  <2> QED
    BY <1>1, <2>1, <2>2
<1>6. d[1] # "0"
  <2>1. 1 \in 1 .. Len(CountryCode) + Len(n)
    BY <1>1, <1>5
  <2>2. CASE 1 <= Len(CountryCode)
    <3>1. 1 \in 1 .. Len(CountryCode)
      BY <1>1, <2>2
    <3>2. CountryCode[1] \in Digits \ {"0"}
      BY <3>1, DigitFacts, ElementOfSeq
    <3> QED
      BY <1>3, <2>1, <2>2, <3>2
  <2>3. CASE ~(1 <= Len(CountryCode))
    <3>1. 1 - Len(CountryCode) = 1
      BY <1>1, <2>3
    <3>2. n[1] \in Digits \ {"0"}
      BY DigitFacts DEF Mobile
    <3> QED
      BY <1>3, <2>1, <2>3, <3>1, <3>2
  <2> QED
    BY <2>2, <2>3
<1>7. (<<"+">> \o CountryCode) \o n = <<"+">> \o (CountryCode \o n)
  <2> DEFINE T == Digits \cup {"+"}
  <2>1. CountryCode \in Seq(T) /\ n \in Seq(T) /\ <<"+">> \in Seq(T)
    BY <1>1, SeqMonotonic
  <2> HIDE DEF T
  <2> QED
    BY <2>1, ConcatAssociative
<1> QED
  BY <1>2, <1>3, <1>4, <1>5, <1>6, <1>7 DEF Number

LEMMA CodePhoneIsFound ==
  ASSUME NEW S, NEW c \in Seq(S), CodePhone(c) # None
  PROVE  Parse(CodePhone(c).value) = CodePhone(c)
<1>1. PICK n \in Seq(Digits) :
        Mobile(n) /\ CodePhone(c) = Phone((<<"+">> \o CountryCode) \o n)
  BY CodeParts
<1>2. PICK d : d = CountryCode \o n
  OBVIOUS
<1>3. d \in Seq(Digits) /\ Number(d) /\ CodePhone(c) = Phone(<<"+">> \o d)
  BY <1>1, <1>2, MobileIsNumber
<1>4. Parse(<<"+">> \o d) = Phone(<<"+">> \o d)
  BY <1>3, StoredPhone
<1> QED
  BY <1>3, <1>4, Kinds

\* What is looked at of a typed text.
LEMMA WithoutMarks ==
  ASSUME NEW S, NEW text \in Seq(S), NEW C
  PROVE  Without(Trim(text), C) \in Seq(S)
<1>1. Trim(text) \in Seq(S)
  BY TrimParts
<1> QED
  BY <1>1, WithoutType

(***************************************************************************)
(* An identifier typed as it is stored is the account's: the identifier of *)
(* every text, of any length, and of every phone that got a code.          *)
(***************************************************************************)
THEOREM StoredIdentifierIsFound == Spec => []StoredIsFound
<1>1. ASSUME Typed PROVE StoredIsFound
  <2>1. PICK s : s = raw
    OBVIOUS
  <2>2. s \in Seq(Characters)
    BY <1>1, <2>1 DEF Typed
  <2>3. Parse(s) # None => Parse(Parse(s).value) = Parse(s)
    BY <2>2, ParsedIsFound
  <2>4. VietnamPhone(s) # None => Parse(VietnamPhone(s).value) = VietnamPhone(s)
    BY <2>2, WithoutMarks, CodePhoneIsFound DEF VietnamPhone
  <2>5. \A r \in {Parse(s), VietnamPhone(s)} : r # None => Parse(r.value) = r
    BY <2>3, <2>4
  <2> QED
    BY <2>1, <2>5 DEF StoredIsFound
<1> QED
  BY <1>1, TypedAlways, PTL

-----------------------------------------------------------------------------
(* What the app makes of a text, and the server of what the app sends.     *)

LEMMA FirstAtSign ==
  ASSUME NEW S, NEW v \in Seq(S), "@" \in ToSet(v)
  PROVE  /\ AtSigns(v) # {} /\ Min(AtSigns(v)) \in 1 .. Len(v) /\ v[Min(AtSigns(v))] = "@"
         /\ SelectInSeq(v, LAMBDA c : c = "@") = Min(AtSigns(v))
<1>1. Len(v) \in Nat /\ DOMAIN v = 1 .. Len(v)
  BY LenProperties
<1>2. PICK A : A = AtSigns(v)
  OBVIOUS
<1>3. \A i : i \in A <=> (i \in 1 .. Len(v) /\ v[i] = "@")
  BY <1>1, <1>2 DEF AtSigns
<1>4. A # {} /\ A \in SUBSET Nat
  <2>1. PICK i \in 1 .. Len(v) : v[i] = "@"
    BY <1>1 DEF ToSet
  <2> QED
    BY <1>1, <1>3, <2>1
<1>5. Min(A) \in A
  BY <1>4, Least
<1>6. { i \in 1 .. Len(v) : v[i] = "@" } = A
  BY <1>3
<1>7. SelectInSeq(v, LAMBDA c : c = "@") = Min(A)
  BY <1>4, <1>6 DEF SelectInSeq
<1> QED
  BY <1>2, <1>3, <1>4, <1>5, <1>7

LEMMA DeviceParseIs ==
  ASSUME NEW text
  PROVE  \/ DeviceParse(text) = AsPhone(Trim(text))
         \/ DeviceParse(text) = DeviceEmail(Trim(text))
<1>1. DevicePhone(Trim(text)) = AsPhone(Trim(text))
  BY Zenon DEF DevicePhone, AsPhone, Seps
<1>2. DeviceParse(text) = DevicePhone(Trim(text)) \/ DeviceParse(text) = DeviceEmail(Trim(text))
  BY DEF DeviceParse
<1> QED
  BY <1>1, <1>2

LEMMA DeviceEmailIs ==
  ASSUME NEW S, NEW s \in Seq(S), DeviceEmail(s) # None
  PROVE  LET v == Lower(s) IN
         /\ DeviceEmail(s) = Email(v) /\ Len(v) <= MaxEmail
         /\ "@" \in ToSet(v) /\ v[1] # "@" /\ Contains(After(v, Min(AtSigns(v))), ".")
<1>1. PICK v : v = Lower(s)
  OBVIOUS
<1>2. v \in Seq(S \cup {"a"})
  BY <1>1, LowerFacts
<1>3. /\ DeviceEmail(s) = Email(v) /\ Len(v) <= MaxEmail
      /\ Cardinality(AtSigns(v)) = 1 /\ v[1] # "@" /\ Contains(After(v, Min(AtSigns(v))), ".")
  BY <1>1, Zenon DEF DeviceEmail, AtSigns
<1>4. AtSigns(v) # {}
  <2>1. SUFFICES ASSUME AtSigns(v) = {} PROVE FALSE
    OBVIOUS
  <2>2. Cardinality({}) = 1
    BY <1>3, <2>1, Zenon
  <2> QED
    BY <2>2, FS_EmptySet
<1>5. "@" \in ToSet(v)
  BY <1>4 DEF AtSigns, ToSet
<1> QED
  BY <1>1, <1>3, <1>5

LEMMA AppIsRead ==
  ASSUME NEW S, NEW text \in Seq(S), NEW r, r = DeviceParse(text)
  PROVE  /\ r.kind = "phone" => Parse(r.value) = r
         /\ r.kind = "email" => Parse(r.value) = IF Fits(r.value) THEN r ELSE None
<1>1. PICK s : s = Trim(text)
  OBVIOUS
<1>2. s \in Seq(S) /\ Trimmed(s)
  BY <1>1, TrimParts, TrimTrimmed
<1>3. CASE r = None
  BY <1>3, Kinds
<1>4. CASE r # None /\ r = AsPhone(s)
  <2>1. Parse(r.value) = r /\ r.kind = "phone"
    BY <1>2, <1>4, AsPhoneStored, Kinds
  <2> QED
    BY <2>1
<1>5. CASE r # None /\ r = DeviceEmail(s)
  <2>1. PICK v : v = Lower(s)
    OBVIOUS
  <2>2. /\ r = Email(v) /\ Len(v) <= MaxEmail
        /\ "@" \in ToSet(v) /\ v[1] # "@" /\ Contains(After(v, Min(AtSigns(v))), ".")
    BY <1>2, <1>5, <2>1, DeviceEmailIs
  <2>3. r.kind = "email" /\ r.value = v
    BY <2>2, Kinds
  <2>4. v \in Seq(S \cup {"a"})
    BY <1>2, <2>1, LowerFacts
  <2>5. PICK m : m = Min(AtSigns(v))
    OBVIOUS
  <2>6. /\ AtSigns(v) # {} /\ m \in 1 .. Len(v) /\ v[m] = "@"
        /\ SelectInSeq(v, LAMBDA c : c = "@") = m
    BY <2>2, <2>4, <2>5, FirstAtSign
  <2>7. Addressed(v) <=> Fits(v)
    BY <2>2, <2>5, <2>6 DEF Addressed, Fits
  <2>8. CASE Fits(v)
    <3>1. Parse(v) = Email(v)
      BY <1>2, <2>1, <2>7, <2>8, StoredEmail
    <3> QED
      BY <2>2, <2>3, <2>8, <3>1
  <2>9. CASE ~Fits(v)
    <3>1. Parse(v) = None
      BY <1>2, <2>1, <2>2, <2>7, <2>9, UnfitEmail
    <3> QED
      BY <2>3, <2>9, <3>1
  <2> QED
    BY <2>8, <2>9
<1> QED
  BY <1>1, <1>3, <1>4, <1>5, DeviceParseIs

-----------------------------------------------------------------------------
(* Spellings of one phone.                                                 *)

LEMMA WithoutAlike ==
  ASSUME NEW S, NEW s \in Seq(S), NEW C, NEW D, S \cap C = S \cap D
  PROVE  Without(s, C) = Without(s, D)
<1> DEFINE Q == { t \in Seq(S) : Without(t, C) = Without(t, D) }
<1>1. <<>> \in Q
  <2>1. <<>> \in Seq(S) /\ Without(<<>>, C) = <<>> /\ Without(<<>>, D) = <<>>
    BY WithoutEmpty, EmptySeq
  <2> QED
    BY <2>1
<1>2. ASSUME NEW t \in Q, NEW e \in S PROVE Append(t, e) \in Q
  <2>1. t \in Seq(S) /\ Append(t, e) \in Seq(S) /\ Without(t, C) = Without(t, D)
    OBVIOUS
  <2>2. Without(Append(t, e), C) = IF e \in C THEN Without(t, C) ELSE Append(Without(t, C), e)
    BY <2>1, WithoutAppend
  <2>3. Without(Append(t, e), D) = IF e \in D THEN Without(t, D) ELSE Append(Without(t, D), e)
    BY <2>1, WithoutAppend
  <2>4. e \in C <=> e \in D
    OBVIOUS
  <2> QED
    BY <2>1, <2>2, <2>3, <2>4
<1>3. Q \in SUBSET Seq(S)
  OBVIOUS
<1>4. Q = Seq(S)
  <2> HIDE DEF Q
  <2> QED
    BY <1>1, <1>2, <1>3, AllSequences
<1> QED
  BY <1>4

\* The spacing is after the prefix, never in it.
LEMMA SpacedParts ==
  ASSUME NEW S, NEW s \in Seq(S), HasPrefix(s)
  PROVE  /\ Without(Body(s), Seps) \in Seq(S \cup {"+", "0"})
         /\ IsPrefix(<<"+">>, s) => Without(s, Seps) = <<"+">> \o Without(Body(s), Seps)
         /\ ~IsPrefix(<<"+">>, s) => Without(s, Seps) = <<"0", "0">> \o Without(Body(s), Seps)
<1> DEFINE T == S \cup {"+", "0"}
<1>1. s \in Seq(T)
  BY SeqMonotonic
<1>2. /\ Body(s) \in Seq(T)
      /\ IsPrefix(<<"+">>, s) => <<"+">> \o Body(s) = s
      /\ ~IsPrefix(<<"+">>, s) => <<"0", "0">> \o Body(s) = s
  BY <1>1, PrefixedParts
<1>3. PICK b : b = Body(s)
  OBVIOUS
<1>4. <<"+">> \in Seq(T) /\ <<"0", "0">> \in Seq(T) /\ b \in Seq(T)
  BY <1>2, <1>3
<1>5. Without(<<"+">>, Seps) = <<"+">>
  <2>1. <<"+">> \in Seq({"+"}) /\ {"+"} \cap Seps = {}
    BY DEF Seps
  <2> QED
    BY <2>1, WithoutNone
<1>6. Without(<<"0", "0">>, Seps) = <<"0", "0">>
  <2>1. <<"0", "0">> \in Seq({"0"}) /\ {"0"} \cap Seps = {}
    BY DEF Seps
  <2> QED
    BY <2>1, WithoutNone
<1> HIDE DEF T
<1>7. \A p \in Seq(T) : Without(p \o b, Seps) = Without(p, Seps) \o Without(b, Seps)
  BY <1>4, WithoutConcat
<1>8. /\ Without(<<"+">> \o b, Seps) = <<"+">> \o Without(b, Seps)
      /\ Without(<<"0", "0">> \o b, Seps) = <<"0", "0">> \o Without(b, Seps)
  BY <1>4, <1>5, <1>6, <1>7
<1>9. Without(b, Seps) \in Seq(T)
  BY <1>4, WithoutType
<1> QED
  BY <1>2, <1>3, <1>8, <1>9 DEF T

LEMMA FirstOf ==
  ASSUME NEW S, NEW x \in S, NEW d \in Seq(S)
  PROVE  /\ (<<x>> \o d)[1] = x
         /\ (<<x, x>> \o d)[1] = x /\ (<<x, x>> \o d)[2] = x
         /\ d # <<>> => (<<x>> \o d)[2] = d[1]
<1>1. /\ <<x>> \in Seq(S) /\ Len(<<x>>) = 1 /\ <<x>>[1] = x
      /\ <<x, x>> \in Seq(S) /\ Len(<<x, x>>) = 2 /\ <<x, x>>[1] = x /\ <<x, x>>[2] = x
      /\ Len(d) \in Nat /\ (d # <<>> => Len(d) > 0)
  BY LenProperties, EmptySeq
<1>2. PICK s, t : s = <<x>> /\ t = <<x, x>>
  OBVIOUS
<1>3. \A i \in 1 .. Len(s) + Len(d) : (s \o d)[i] = IF i <= Len(s) THEN s[i] ELSE d[i - Len(s)]
  BY <1>1, <1>2, ConcatProperties
<1>4. \A i \in 1 .. Len(t) + Len(d) : (t \o d)[i] = IF i <= Len(t) THEN t[i] ELSE d[i - Len(t)]
  BY <1>1, <1>2, ConcatProperties
<1>5. (s \o d)[1] = x
  BY <1>1, <1>2, <1>3
<1>6. (t \o d)[1] = x /\ (t \o d)[2] = x
  BY <1>1, <1>2, <1>4
<1>7. ASSUME d # <<>> PROVE (s \o d)[2] = d[1]
  <2>1. 2 \in 1 .. Len(s) + Len(d) /\ ~(2 <= Len(s)) /\ 2 - Len(s) = 1
    BY <1>1, <1>2, <1>7
  <2> QED
    BY <1>3, <2>1
<1> QED
  BY <1>2, <1>5, <1>6, <1>7

LEMMA SameDigits ==
  ASSUME NEW S, NEW s \in Seq(S), NEW t \in Seq(S), HasPrefix(s), HasPrefix(t),
         Without(s, Seps) = Without(t, Seps)
  PROVE  Without(Body(s), Seps) = Without(Body(t), Seps)
<1> DEFINE T == S \cup {"+", "0"}
<1>1. PICK d, e, w : d = Without(Body(s), Seps) /\ e = Without(Body(t), Seps) /\ w = Without(s, Seps)
  OBVIOUS
<1>2. /\ d \in Seq(T)
      /\ IsPrefix(<<"+">>, s) => w = <<"+">> \o d
      /\ ~IsPrefix(<<"+">>, s) => w = <<"0", "0">> \o d
  BY <1>1, SpacedParts
<1>3. /\ e \in Seq(T)
      /\ IsPrefix(<<"+">>, t) => w = <<"+">> \o e
      /\ ~IsPrefix(<<"+">>, t) => w = <<"0", "0">> \o e
  BY <1>1, SpacedParts
<1>4. "+" \in T /\ "0" \in T /\ <<"+">> \in Seq(T) /\ <<"0", "0">> \in Seq(T)
  OBVIOUS
<1> HIDE DEF T
<1>5. (<<"+">> \o d)[1] = "+" /\ (<<"+">> \o e)[1] = "+"
  BY <1>2, <1>3, <1>4, FirstOf
<1>6. (<<"0", "0">> \o d)[1] = "0" /\ (<<"0", "0">> \o e)[1] = "0"
  BY <1>2, <1>3, <1>4, FirstOf
<1>7. \/ w = <<"+">> \o d /\ w = <<"+">> \o e
      \/ w = <<"0", "0">> \o d /\ w = <<"0", "0">> \o e
  BY <1>2, <1>3, <1>5, <1>6
<1>8. d = e
  BY <1>2, <1>3, <1>4, <1>7, ConcatSimplifications
<1> QED
  BY <1>1, <1>8

\* An identifier that is a phone was of the shape of one, one that is an
\* address has an @.
LEMMA ParsedKinds ==
  ASSUME NEW S, NEW text \in Seq(S), NEW t, t = Trim(text), Parse(text) # None
  PROVE  /\ Parse(text).kind = "phone" =>
              Shape(t) /\ AsPhone(t) # None /\ Parse(text) = AsPhone(t)
         /\ "@" \notin ToSet(t) => Parse(text).kind = "phone"
<1>1. t \in Seq(S) /\ Trimmed(t)
  BY TrimParts, TrimTrimmed
<1>2. Parse(text) = AsIdentifier(t)
  BY ParseIs
<1>3. CASE Shape(t)
  <2>1. Parse(text) = AsPhone(t)
    BY <1>2, <1>3 DEF AsIdentifier
  <2>2. Parse(text).kind = "phone"
    BY <1>1, <2>1, AsPhoneStored
  <2> QED
    BY <1>3, <2>1, <2>2
<1>4. CASE ~Shape(t)
  <2>1. Parse(text) = AsEmail(t)
    BY <1>2, <1>4 DEF AsIdentifier
  <2>2. Parse(text) = Email(Lower(t)) /\ Addressed(Lower(t))
    BY <1>1, <2>1, AsEmailStored
  <2>3. Parse(text).kind = "email"
    BY <2>2, Kinds
  <2>4. "@" \in ToSet(Lower(t))
    BY <2>2 DEF Addressed, AtSigns, ToSet
  <2>5. "@" \in ToSet(t)
    BY <1>1, <2>4, LowerFacts
  <2> QED
    BY <2>3, <2>5
<1> QED
  BY <1>3, <1>4

LEMMA InsertedParts ==
  ASSUME NEW S, NEW text \in Seq(S), NEW i \in 1 .. Len(text) + 1, NEW c \in Seps
  PROVE  LET u == InsertAt(text, i, c) IN
         /\ u \in Seq(S \cup Seps) /\ ToSet(u) \subseteq ToSet(text) \cup Seps
         /\ Without(u, Seps) = Without(text, Seps)
<1> DEFINE T == S \cup Seps
<1>1. text \in Seq(T) /\ Len(text) \in Nat
  BY SeqMonotonic, LenProperties
<1> HIDE DEF T
<1>2. PICK a, b, u : a = SubSeq(text, 1, i - 1) /\ b = SubSeq(text, i, Len(text))
                     /\ u = InsertAt(text, i, c)
  OBVIOUS
<1>3. a \in Seq(T) /\ ToSet(a) \subseteq ToSet(text)
  <2>1. 1 \in 1 .. Len(text) + 1 /\ i - 1 \in 0 .. Len(text)
    BY <1>1
  <2>2. a \in Seq(T) /\ ToSet(a) = { text[k] : k \in 1 .. i - 1 }
    BY <1>1, <1>2, <2>1, SubSeqToSet
  <2>3. \A k \in 1 .. i - 1 : text[k] \in ToSet(text)
    BY <1>1, ToSetType
  <2> QED
    BY <2>2, <2>3
<1>4. b \in Seq(T) /\ ToSet(b) \subseteq ToSet(text)
  <2>1. i \in 1 .. Len(text) + 1 /\ Len(text) \in 0 .. Len(text)
    BY <1>1
  <2>2. b \in Seq(T) /\ ToSet(b) = { text[k] : k \in i .. Len(text) }
    BY <1>1, <1>2, <2>1, SubSeqToSet
  <2>3. \A k \in i .. Len(text) : text[k] \in ToSet(text)
    BY <1>1, ToSetType
  <2> QED
    BY <2>2, <2>3
<1>5. a \o b = text
  <2>1. PICK k : k = i - 1
    OBVIOUS
  <2>2. /\ 1 \in 1 .. Len(text) + 1 /\ k \in 1 - 1 .. Len(text) /\ k + 1 = i
        /\ Len(text) \in k .. Len(text)
    BY <1>1, <2>1
  <2>3. SubSeq(text, 1, k) \o SubSeq(text, k + 1, Len(text)) = SubSeq(text, 1, Len(text))
    BY <1>1, <2>2, ConcatAdjacentSubSeq
  <2>4. SubSeq(text, 1, Len(text)) = text
    BY <1>1, SubSeqFull
  <2> QED
    BY <1>2, <2>1, <2>2, <2>3, <2>4
<1>6. PICK m, v : m = <<c>> /\ v = a \o m
  OBVIOUS
<1>7. m \in Seq(T) /\ m \in Seq(Seps) /\ ToSet(m) \subseteq Seps
  BY <1>6 DEF T, ToSet
<1>8. u = v \o b
  BY <1>2, <1>6 DEF InsertAt
<1>9. v \in Seq(T) /\ u \in Seq(T)
  BY <1>3, <1>4, <1>6, <1>7, <1>8, ConcatProperties
<1>10. ToSet(u) \subseteq ToSet(text) \cup Seps
  <2>1. ToSet(a \o m) = ToSet(a) \cup ToSet(m)
    BY <1>3, <1>7, ToSetConcat
  <2>2. ToSet(v \o b) = ToSet(v) \cup ToSet(b)
    BY <1>4, <1>9, ToSetConcat
  <2> QED
    BY <1>3, <1>4, <1>6, <1>7, <1>8, <2>1, <2>2
<1>11. Without(u, Seps) = Without(text, Seps)
  <2>1. Without(v \o b, Seps) = Without(v, Seps) \o Without(b, Seps)
    BY <1>4, <1>9, WithoutConcat
  <2>2. Without(a \o m, Seps) = Without(a, Seps) \o Without(m, Seps)
    BY <1>3, <1>7, WithoutConcat
  <2>3. Without(a \o b, Seps) = Without(a, Seps) \o Without(b, Seps)
    BY <1>3, <1>4, WithoutConcat
  <2>4. Without(m, Seps) = <<>>
    BY <1>7, WithoutAll
  <2>5. Without(a, Seps) \in Seq(T)
    BY <1>3, WithoutType
  <2>6. Without(a, Seps) \o <<>> = Without(a, Seps)
    BY <2>5, ConcatEmptySeq
  <2> QED
    BY <1>5, <1>6, <1>8, <2>1, <2>2, <2>3, <2>4, <2>6
<1> QED
  BY <1>2, <1>9, <1>10, <1>11 DEF T

(***************************************************************************)
(* A phone, spaced out in any one place more, is that phone or is refused. *)
(***************************************************************************)
LEMMA SpacedPhone ==
  ASSUME NEW S, NEW text \in Seq(S), Parse(text).kind = "phone",
         NEW i \in 1 .. Len(text) + 1, NEW c \in Seps
  PROVE  Parse(InsertAt(text, i, c)) \in {Parse(text), None}
<1> DEFINE T == S \cup Seps
<1>1. PICK u, s, t : u = InsertAt(text, i, c) /\ s = Trim(u) /\ t = Trim(text)
  OBVIOUS
<1>2. /\ u \in Seq(T) /\ ToSet(u) \subseteq ToSet(text) \cup Seps
      /\ Without(u, Seps) = Without(text, Seps)
  BY <1>1, InsertedParts
<1>3. text \in Seq(T)
  BY SeqMonotonic
<1> HIDE DEF T
<1>4. Parse(text) # None
  BY Kinds
<1>5. Shape(t) /\ AsPhone(t) # None /\ Parse(text) = AsPhone(t)
  BY <1>1, <1>3, <1>4, ParsedKinds
<1>6. SUFFICES ASSUME Parse(u) # None PROVE Parse(u) = Parse(text)
  BY <1>1
<1>7. s \in Seq(T) /\ t \in Seq(T)
  BY <1>1, <1>2, <1>3, TrimParts
<1>8. "@" \notin ToSet(s)
  <2>1. ToSet(s) \subseteq ToSet(u)
    BY <1>1, <1>2, TrimRange
  <2>2. ToSet(text) \subseteq ToSet(t) \cup Blanks
    BY <1>1, <1>3, TrimRange
  <2>3. "@" \notin ToSet(t)
    BY <1>5, DigitFacts DEF Shape
  <2>4. "@" \notin Blanks /\ "@" \notin Seps
    BY DEF Blanks, Seps
  <2> QED
    BY <1>2, <2>1, <2>2, <2>3, <2>4
<1>9. AsPhone(s) # None /\ Parse(u) = AsPhone(s)
  BY <1>1, <1>2, <1>6, <1>8, ParsedKinds
<1>10. /\ HasPrefix(s) /\ AsPhone(s) = Phone(<<"+">> \o Without(Body(s), Seps))
  BY <1>7, <1>9, AsPhoneStored
<1>11. HasPrefix(t) /\ AsPhone(t) = Phone(<<"+">> \o Without(Body(t), Seps))
  BY <1>5, <1>7, AsPhoneStored
<1>12. Without(s, Seps) = Without(t, Seps)
  <2>1. Blanks \subseteq Seps
    BY DEF Blanks, Seps
  <2>2. Without(Trim(u), Seps) = Without(u, Seps)
    BY <1>2, <2>1, WithoutTrim
  <2>3. Without(Trim(text), Seps) = Without(text, Seps)
    BY <1>3, <2>1, WithoutTrim
  <2> QED
    BY <1>1, <1>2, <2>2, <2>3
<1>13. Without(Body(s), Seps) = Without(Body(t), Seps)
  BY <1>7, <1>10, <1>11, <1>12, SameDigits
<1> QED
  BY <1>5, <1>9, <1>10, <1>11, <1>13

(***************************************************************************)
(* Capitals make no other identifier.                                      *)
(***************************************************************************)
LEMMA SmallLetters ==
  ASSUME NEW S, NEW text \in Seq(S)
  PROVE  Parse(Lower(text)) = Parse(text)
<1>1. PICK t, v : t = Trim(text) /\ v = Lower(t)
  OBVIOUS
<1>2. t \in Seq(S) /\ Len(t) \in Nat
  BY <1>1, TrimParts, LenProperties
<1>3. /\ Len(v) = Len(t) /\ Lower(v) = v /\ v \in Seq(S \cup {"a"})
      /\ \A j \in 1 .. Len(t) : v[j] = IF t[j] = "A" THEN "a" ELSE t[j]
      /\ "A" \notin ToSet(t) => v = t
  BY <1>1, <1>2, LowerFacts
<1>4. Parse(Lower(text)) = AsIdentifier(v)
  <2>1. Lower(text) \in Seq(S \cup {"a"})
    BY LowerFacts
  <2>2. Trim(Lower(text)) = v
    BY <1>1, TrimLower
  <2> QED
    BY <2>1, <2>2, ParseIs
<1>5. Parse(text) = AsIdentifier(t)
  BY <1>1, ParseIs
<1>6. CASE v = t
  BY <1>4, <1>5, <1>6
<1>7. CASE v # t
  <2>1. "A" \in ToSet(t)
    BY <1>3, <1>7
  <2>2. "a" \in ToSet(v)
    <3>1. DOMAIN t = 1 .. Len(t)
      BY <1>2, LenProperties
    <3>2. PICK j \in 1 .. Len(t) : t[j] = "A"
      BY <2>1, <3>1 DEF ToSet
    <3>3. v[j] = "a"
      BY <1>3, <3>2
    <3>4. \A k \in 1 .. Len(v) : v[k] \in ToSet(v)
      BY <1>3, ToSetType
    <3> QED
      BY <1>3, <3>3, <3>4
  <2>3. ~Shape(t) /\ ~Shape(v)
    BY <2>1, <2>2, DigitFacts DEF Shape
  <2>4. AsEmail(v) = AsEmail(t)
    BY <1>1, <1>3 DEF AsEmail
  <2> QED
    BY <1>4, <1>5, <2>3, <2>4 DEF AsIdentifier
<1> QED
  BY <1>6, <1>7

(***************************************************************************)
(* A phone for a one-time code that is also an identifier is the same one. *)
(***************************************************************************)
LEMMA OneNumber ==
  ASSUME NEW S, NEW text \in Seq(S), NEW C, NEW t, NEW c
  PROVE  /\ C = Seps \/ C = {" ", "."}
         /\ t = Trim(text) /\ c = Without(t, C) /\ CodePhone(c) # None
         => "@" \notin ToSet(t) /\ AsPhone(t) \in {CodePhone(c), None}
<1>0. SUFFICES ASSUME C = Seps \/ C = {" ", "."},
                      t = Trim(text), c = Without(t, C), CodePhone(c) # None
               PROVE  "@" \notin ToSet(t) /\ AsPhone(t) \in {CodePhone(c), None}
  OBVIOUS
<1> DEFINE T == S \cup Digits \cup {"+", "0"}
<1>1. c \in Seq(S)
  BY <1>0, WithoutMarks
<1>2. t \in Seq(S) /\ t \in Seq(ToSet(t)) /\ t \in Seq(T)
  <2>1. t \in Seq(S)
    BY <1>0, TrimParts
  <2> QED
    BY <2>1, ToSetType, SeqMonotonic
<1>3. PICK n \in Seq(Digits) :
        /\ Mobile(n) /\ CodePhone(c) = Phone((<<"+">> \o CountryCode) \o n)
        /\ \/ c = (<<"+">> \o CountryCode) \o n
           \/ c = <<"0">> \o n
           \/ c = n
  BY <1>0, <1>1, CodeParts
<1>4. PICK m : m = CountryCode \o n
  OBVIOUS
<1>5. /\ CodePhone(c) = Phone(<<"+">> \o m)
      /\ c = <<"+">> \o m \/ c = <<"0">> \o n \/ c = n
  BY <1>3, <1>4, MobileIsNumber
<1>6. m \in Seq(Digits)
  BY <1>3, <1>4, MobileIsNumber
<1>7. m \in Seq(T) /\ n \in Seq(T) /\ <<"+">> \in Seq(T) /\ <<"0">> \in Seq(T)
  BY <1>3, <1>6, SeqMonotonic
<1>8. "+" \in T /\ "0" \in T
  OBVIOUS
<1> HIDE DEF T
<1>9. n # <<>> /\ n[1] \in Digits \ {"0"}
  <2>1. Len(n) \in Nat \ {0} /\ n[1] \in Digits \ {"0"}
    BY DigitFacts, LimitFacts, <1>3 DEF Mobile
  <2> QED
    BY <2>1
<1>10. ToSet(c) \subseteq Digits \cup {"+"}
  <2>1. ToSet(n) \subseteq Digits /\ ToSet(m) \subseteq Digits
    BY <1>3, <1>6, ToSetType
  <2>2. ToSet(<<"+">>) = {"+"} /\ ToSet(<<"0">>) = {"0"}
    BY DEF ToSet
  <2>3. \A p, q \in Seq(T) : ToSet(p \o q) = ToSet(p) \cup ToSet(q)
    BY ToSetConcat
  <2>4. /\ ToSet(<<"+">> \o m) = {"+"} \cup ToSet(m)
        /\ ToSet(<<"0">> \o n) = {"0"} \cup ToSet(n)
    BY <1>7, <2>2, <2>3
  <2> QED
    BY <1>5, <2>1, <2>4, DigitFacts
<1>11. "@" \notin ToSet(t) /\ (C = {" ", "."} => "~" \notin ToSet(t))
  <2>1. ToSet(Without(t, C)) = ToSet(t) \ C
    BY <1>2, WithoutRange
  <2>2. "@" \notin ToSet(c) /\ "~" \notin ToSet(c)
    BY <1>10, DigitFacts
  <2>3. "@" \notin C /\ (C = {" ", "."} => "~" \notin C)
    BY <1>0 DEF Seps
  <2> QED
    BY <1>0, <2>1, <2>2, <2>3
<1>12. Without(t, Seps) = c
  <2>1. PICK D, R : D = Seps /\ R = ToSet(t)
    OBVIOUS
  <2>2. t \in Seq(R) /\ R \cap C = R \cap D
    <3>1. CASE C = Seps
      BY <1>2, <2>1, <3>1
    <3>2. CASE C = {" ", "."}
      BY <1>2, <1>11, <2>1, <3>2 DEF Seps
    <3> QED
      BY <1>0, <3>1, <3>2
  <2>3. Without(t, C) = Without(t, D)
    BY <2>2, WithoutAlike
  <2> QED
    BY <1>0, <2>1, <2>3
<1>13. SUFFICES ASSUME AsPhone(t) # None PROVE AsPhone(t) = CodePhone(c)
  BY <1>11
<1>14. PICK d : d = Without(Body(t), Seps)
  OBVIOUS
<1>15. HasPrefix(t) /\ AsPhone(t) = Phone(<<"+">> \o d)
  BY <1>2, <1>13, <1>14, AsPhoneStored
<1>16. d \in Seq(T) /\ (c = <<"+">> \o d \/ c = <<"0", "0">> \o d)
  <2>1. d \in Seq(S \cup {"+", "0"}) /\ (c = <<"+">> \o d \/ c = <<"0", "0">> \o d)
    BY <1>2, <1>12, <1>14, <1>15, SpacedParts
  <2>2. d \in Seq(T)
    BY <2>1, SeqMonotonic DEF T
  <2> QED
    BY <2>1, <2>2
<1>17. /\ (<<"+">> \o d)[1] = "+" /\ (<<"+">> \o m)[1] = "+" /\ (<<"0">> \o n)[1] = "0"
       /\ (<<"0", "0">> \o d)[1] = "0" /\ (<<"0", "0">> \o d)[2] = "0"
       /\ (<<"0">> \o n)[2] = n[1]
  <2>1. (<<"+">> \o d)[1] = "+" /\ (<<"+">> \o m)[1] = "+"
    BY <1>7, <1>8, <1>16, FirstOf
  <2>2. (<<"0", "0">> \o d)[1] = "0" /\ (<<"0", "0">> \o d)[2] = "0"
    BY <1>8, <1>16, FirstOf
  <2>3. (<<"0">> \o n)[1] = "0" /\ (<<"0">> \o n)[2] = n[1]
    BY <1>7, <1>8, <1>9, FirstOf
  <2> QED
    BY <2>1, <2>2, <2>3
<1>18. "+" \notin Digits
  BY DigitFacts
<1>19. c = <<"+">> \o d /\ c = <<"+">> \o m
  <2>1. CASE c = <<"+">> \o d
    <3>1. c # <<"0">> \o n /\ c # n
      BY <1>9, <1>17, <1>18, <2>1
    <3> QED
      BY <1>5, <2>1, <3>1
  <2>2. CASE c = <<"0", "0">> \o d
    <3>1. c[1] = "0" /\ c[2] = "0"
      BY <1>17, <2>2
    <3>2. c # <<"+">> \o m
      BY <1>17, <3>1
    <3>3. c # <<"0">> \o n
      BY <1>9, <1>17, <3>1
    <3>4. c # n
      BY <1>9, <3>1
    <3> QED
      BY <1>5, <3>2, <3>3, <3>4
  <2> QED
    BY <1>16, <2>1, <2>2
<1> QED
  BY <1>5, <1>15, <1>19

LEMMA OneCountry ==
  ASSUME NEW S, NEW text \in Seq(S), Parse(text) # None, VietnamPhone(text) # None
  PROVE  Parse(text) = VietnamPhone(text)
<1>1. PICK t, C : t = Trim(text) /\ C = {" ", "."}
  OBVIOUS
<1>2. PICK c : c = Without(t, C)
  OBVIOUS
<1>3. VietnamPhone(text) = CodePhone(c)
  BY <1>1, <1>2 DEF VietnamPhone
<1>4. "@" \notin ToSet(t) /\ AsPhone(t) \in {CodePhone(c), None}
  BY <1>1, <1>2, <1>3, OneNumber
<1>5. AsPhone(t) # None /\ Parse(text) = AsPhone(t)
  BY <1>1, <1>4, ParsedKinds
<1> QED
  BY <1>3, <1>4, <1>5

\* The app reads it as the same one, beside a password and for a code.
LEMMA OneOnDevice ==
  ASSUME NEW S, NEW text \in Seq(S), DeviceVietnamPhone(text) # None
  PROVE  DeviceParse(text) \in {DeviceVietnamPhone(text), None}
<1>1. PICK t, C : t = Trim(text) /\ C = Seps
  OBVIOUS
<1>2. PICK c : c = Without(t, C)
  OBVIOUS
<1>3. DeviceVietnamPhone(text) = CodePhone(c)
  BY <1>1, <1>2 DEF DeviceVietnamPhone, Seps
<1>4. "@" \notin ToSet(t) /\ AsPhone(t) \in {CodePhone(c), None}
  BY <1>1, <1>2, <1>3, OneNumber
<1>5. CASE DeviceParse(text) = AsPhone(t)
  BY <1>3, <1>4, <1>5
<1>6. CASE DeviceParse(text) = DeviceEmail(t)
  <2>1. t \in Seq(S)
    BY <1>1, TrimParts
  <2>2. "@" \notin ToSet(Lower(t))
    BY <1>4, <2>1, LowerFacts DEF ToSet
  <2>3. DeviceEmail(t) = None
    BY <2>1, <2>2, DeviceEmailIs
  <2> QED
    BY <1>6, <2>3
<1> QED
  BY <1>1, <1>5, <1>6, DeviceParseIs

\* The server reads it as it was sent.
LEMMA CodeIsRead ==
  ASSUME NEW S, NEW c \in Seq(S), NEW p
  PROVE  p = CodePhone(c) /\ p # None => VietnamPhone(p.value) = p
<1>0. SUFFICES ASSUME p = CodePhone(c), p # None PROVE VietnamPhone(p.value) = p
  OBVIOUS
<1> DEFINE T == Digits \cup {"+"}
<1>1. PICK n \in Seq(Digits) :
        Mobile(n) /\ CodePhone(c) = Phone((<<"+">> \o CountryCode) \o n)
  BY <1>0, CodeParts
<1>2. PICK d, q, s : d = CountryCode \o n /\ q = <<"+">> \o CountryCode /\ s = q \o n
  OBVIOUS
<1>3. d \in Seq(Digits) /\ Number(d) /\ s = <<"+">> \o d /\ p = Phone(s)
  BY <1>0, <1>1, <1>2, MobileIsNumber
<1>4. /\ s \in Seq(T) /\ q \in Seq(T) /\ n \in Seq(T)
  <2>1. d \in Seq(T) /\ n \in Seq(T) /\ CountryCode \in Seq(T) /\ <<"+">> \in Seq(T)
    <3>1. Digits \subseteq T /\ Digits \ {"0"} \subseteq T /\ {"+"} \subseteq T
      OBVIOUS
    <3>2. PICK C : C = CountryCode
      OBVIOUS
    <3> HIDE DEF T
    <3>3. C \in Seq(Digits \ {"0"})
      BY <3>2, DigitFacts
    <3>4. d \in Seq(T) /\ n \in Seq(T) /\ C \in Seq(T)
      BY <1>1, <1>3, <3>1, <3>3, SeqMonotonic
    <3>5. <<"+">> \in Seq(T)
      BY <3>1
    <3> QED
      BY <3>2, <3>4, <3>5
  <2> HIDE DEF T
  <2> QED
    BY <1>2, <1>3, <2>1, ConcatProperties
<1> HIDE DEF T
<1>5. Without(s, {" ", "."}) = s
  <2>1. T \cap {" ", "."} = {}
    BY DigitFacts DEF T
  <2> QED
    BY <1>4, <2>1, WithoutNone
<1>6. Trim(s) = s
  <2>1. Trimmed(s)
    BY <1>3, NumberTrimmed
  <2> QED
    BY <1>4, <2>1, TrimSame
<1>7. IsPrefix(q, s) /\ After(s, Len(q)) = n
  BY <1>2, <1>4, PartsPrefix
<1>8. CodePhone(s) = Phone(s)
  BY <1>1, <1>2, <1>7, Zenon DEF CodePhone
<1>9. VietnamPhone(s) = CodePhone(s)
  BY <1>5, <1>6 DEF VietnamPhone
<1> QED
  BY <1>3, <1>8, <1>9, Kinds

(***************************************************************************)
(* What is a phone is taken for one.                                       *)
(***************************************************************************)
LEMMA PhoneIsTaken ==
  ASSUME NEW S, NEW text \in Seq(S), PhoneNumber(text) # None,
         ~Contains(Trim(text), "~")
  PROVE  Parse(text) = PhoneNumber(text)
<1> DEFINE T == S \cup {"+", "0"}
<1>1. PICK t : t = Trim(text)
  OBVIOUS
<1>2. t \in Seq(S) /\ t \in Seq(T) /\ DOMAIN t = 1 .. Len(t)
  BY <1>1, TrimParts, SeqMonotonic, LenProperties
<1>3. PhoneNumber(text) = AsPhone(t)
  BY <1>1, PhoneNumberIs
<1>4. PICK b, d : b = Body(t) /\ d = Without(b, Seps)
  OBVIOUS
<1>5. HasPrefix(t) /\ Number(d)
  BY <1>2, <1>3, <1>4, AsPhoneStored
<1>6. b \in Seq(T) /\ (t = <<"+">> \o b \/ t = <<"0", "0">> \o b)
  BY <1>2, <1>4, <1>5, PrefixedParts
<1>7. "+" \in T /\ "0" \in T /\ <<"+">> \in Seq(T) /\ <<"0", "0">> \in Seq(T)
  OBVIOUS
<1> HIDE DEF T
<1>8. ToSet(b) \subseteq Digits \cup Seps
  <2>1. ToSet(d) = ToSet(b) \ Seps
    BY <1>4, <1>6, WithoutRange
  <2> QED
    BY <1>5, <2>1 DEF Number
<1>9. ToSet(t) \subseteq Digits \cup Seps \cup {"+"}
  <2>1. ToSet(<<"+">>) = {"+"} /\ ToSet(<<"0", "0">>) = {"0"}
    BY DEF ToSet
  <2>2. ToSet(<<"+">> \o b) = ToSet(<<"+">>) \cup ToSet(b)
    BY <1>6, <1>7, ToSetConcat
  <2>3. ToSet(<<"0", "0">> \o b) = ToSet(<<"0", "0">>) \cup ToSet(b)
    BY <1>6, <1>7, ToSetConcat
  <2> QED
    BY <1>6, <1>8, <2>1, <2>2, <2>3, DigitFacts
<1>10. "~" \notin ToSet(t)
  BY <1>1, <1>2 DEF Contains, ToSet
<1>11. t[1] \in {"+", "0"}
  BY <1>6, <1>7, FirstOf
<1>12. t # <<>>
  <2>1. t # <<>>
    BY <1>6, <1>7, ConcatSimplifications
  <2> QED
    BY <2>1
<1>13. Shape(t)
  BY <1>9, <1>10, <1>11, <1>12 DEF Shape, Seps
<1>14. Parse(text) = AsIdentifier(t)
  BY <1>1, ParseIs
<1> QED
  BY <1>3, <1>13, <1>14 DEF AsIdentifier

(***************************************************************************)
(* One text is one phone, or is refused, wherever it is typed: for texts   *)
(* of every length, every country code and every limit.                    *)
(***************************************************************************)
THEOREM OnePhone == Spec => []SamePhone
<1>1. ASSUME Typed PROVE SamePhone
  <2>1. PICK s : s = raw
    OBVIOUS
  <2>2. s \in Seq(Characters)
    BY <1>1, <2>1 DEF Typed
  <2>3. Parse(s).kind = "phone" =>
          \A i \in 1 .. Len(s) + 1, c \in {" ", ".", "~"} :
            Parse(InsertAt(s, i, c)) \in {Parse(s), None}
    BY <2>2, SpacedPhone DEF Seps
  <2>4. Parse(Lower(s)) = Parse(s)
    BY <2>2, SmallLetters
  <2>5. Parse(s) # None /\ VietnamPhone(s) # None => Parse(s) = VietnamPhone(s)
    BY <2>2, OneCountry
  <2>6. PhoneNumber(s) # None /\ ~Contains(Trim(s), "~") => Parse(s) = PhoneNumber(s)
    BY <2>2, PhoneIsTaken
  <2> QED
    BY <2>1, <2>3, <2>4, <2>5, <2>6 DEF SamePhone
<1> QED
  BY <1>1, TypedAlways, PTL

(***************************************************************************)
(* The server reads what the app accepted and sends as the app read it,    *)
(* for texts of every length: a phone, typed with a password or for a      *)
(* code, always; an address if it is not too long in the server's bytes,   *)
(* and otherwise it is refused.                                            *)
(***************************************************************************)
THEOREM ServerReadsAsTheApp == Spec => []AppAgrees
<1>1. ASSUME Typed PROVE AppAgrees
  <2>1. PICK s, r, p : s = raw /\ r = DeviceParse(raw) /\ p = DeviceVietnamPhone(raw)
    OBVIOUS
  <2>2. s \in Seq(Characters) /\ r = DeviceParse(s) /\ p = DeviceVietnamPhone(s)
    BY <1>1, <2>1 DEF Typed
  <2>3. /\ r.kind = "phone" => Parse(r.value) = r
        /\ r.kind = "email" => Parse(r.value) = IF Fits(r.value) THEN r ELSE None
    BY <2>2, AppIsRead
  <2>4. ASSUME p # None PROVE VietnamPhone(p.value) = p
    <3>1. PICK c : c = Without(Trim(s), {" ", ".", "~"})
      OBVIOUS
    <3>2. c \in Seq(Characters) /\ p = CodePhone(c)
      BY <2>2, <3>1, WithoutMarks DEF DeviceVietnamPhone
    <3> QED
      BY <2>4, <3>2, CodeIsRead
  <2>5. p # None => r \in {p, None}
    BY <2>2, OneOnDevice
  <2> QED
    BY <2>1, <2>3, <2>4, <2>5 DEF AppAgrees
<1> QED
  BY <1>1, TypedAlways, PTL

=============================================================================
