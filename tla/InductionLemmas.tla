---------------------------- MODULE InductionLemmas -----------------------------
(***************************************************************************)
(* Induction over the numbers and over sequences, stated for a set, and    *)
(* what the folds of the community modules compute: the equations a proof  *)
(* by induction over the elements of a sequence starts from. Sequences     *)
(* with one element more, their beginnings, and the indices of a list in   *)
(* ascending order.                                                        *)
(***************************************************************************)
EXTENDS Integers, Sequences, SequencesExt, SequenceTheorems, FiniteSetTheorems, WellFoundedInduction, TLAPS

\* The elements of S below x; a set of naturals has a least element because the
\* finite sets Below(S, x) are well-founded by inclusion.
Below(S, x) == {z \in S : z < x}

\* What lies below a natural number is finite.
LEMMA BelowFinite ==
  ASSUME NEW S, S \subseteq Nat, NEW x \in S
  PROVE  Below(S, x) \in FiniteSubsetsOf(Nat)
<1>1. Below(S, x) \subseteq Nat
  BY DEF Below
<1>2. x \in Nat /\ \A y \in Below(S, x) : y <= x
  BY DEF Below
<1>3. IsFiniteSet(Below(S, x))
  BY <1>1, <1>2, FS_BoundedSetOfNaturals
<1> QED BY <1>1, <1>3 DEF FiniteSubsetsOf

\* The smaller the number, the smaller the set.
LEMMA BelowStrict ==
  ASSUME NEW S, S \subseteq Nat, NEW x \in S, NEW y \in S, y < x
  PROVE  <<Below(S, y), Below(S, x)>> \in StrictSubsetOrdering(Nat)
<1>1. y \in Below(S, x) /\ y \notin Below(S, y)
  BY DEF Below
<1>2. ASSUME NEW z \in Below(S, y) PROVE z \in Below(S, x)
  <2>1. z \in S /\ z < y
    BY DEF Below
  <2>2. z \in Nat /\ y \in Nat /\ x \in Nat
    BY <2>1
  <2>3. z < x
    BY <2>1, <2>2
  <2> QED BY <2>1, <2>3 DEF Below
<1>3. Below(S, x) \subseteq Nat /\ Below(S, y) \subseteq Nat
  BY DEF Below
<1> QED BY <1>1, <1>2, <1>3 DEF StrictSubsetOrdering

\* A set of naturals has a least element.
LEMMA NatMin ==
  ASSUME NEW S, S \subseteq Nat, S # {}
  PROVE  \E x \in S : \A y \in S : x <= y
<1> DEFINE D == {Below(S, w) : w \in S}
<1>1. D \subseteq FiniteSubsetsOf(Nat) /\ D # {}
  BY BelowFinite
<1>2. PICK d \in D : \A e \in D : <<e, d>> \notin StrictSubsetOrdering(Nat)
  <2>1. IsWellFoundedOn(StrictSubsetOrdering(Nat), FiniteSubsetsOf(Nat))
    BY FS_StrictSubsetOrderingWellFounded
  <2> QED BY <1>1, <2>1, WFMin
<1>3. PICK x \in S : d = Below(S, x) OBVIOUS
<1>4. \A y \in S : ~(y < x)
  BY <1>2, <1>3, BelowStrict
<1> HIDE DEF D
<1> QED BY <1>4

(* A set of numbers that has 0 and with each number the next has them all. *)
LEMMA NumberInduction ==
  ASSUME NEW S, 0 \in S, \A n \in Nat : n \in S => n + 1 \in S
  PROVE  Nat \subseteq S
<1> DEFINE Others == {n \in Nat : n \notin S}
<1>1. CASE Others = {}
  BY <1>1
<1>2. CASE Others # {}
  <2>1. PICK x \in Others : \A y \in Others : x <= y
    BY <1>2, NatMin
  <2>2. x # 0 /\ x - 1 \in Nat /\ x - 1 \notin Others
    BY <2>1
  <2> QED
    BY <2>1, <2>2
<1> QED
  BY <1>1, <1>2

(* Max and Min of sets of numbers with bounds.                             *)
LEMMA MaxIsGreatest ==
  ASSUME NEW n \in Nat, NEW S, S \subseteq 0 .. n, S # {}
  PROVE  Max(S) \in S /\ \A y \in S : Max(S) >= y
<1> DEFINE Upper == {k \in Nat : \A y \in S : y <= k}
<1>1. PICK x \in Upper : \A y \in Upper : x <= y
  <2>1. n \in Upper
    OBVIOUS
  <2> QED
    BY <2>1, NatMin
<1>2. x \in S
  <2>1. CASE x = 0
    <3>1. PICK y \in S : TRUE
      OBVIOUS
    <3>2. y \in 0 .. n /\ y <= x
      BY <1>1
    <3> QED
      BY <2>1, <3>1, <3>2
  <2>2. CASE x # 0
    <3>1. x - 1 \in Nat /\ x - 1 \notin Upper
      BY <1>1, <2>2
    <3>2. PICK y \in S : ~(y <= x - 1)
      BY <3>1
    <3> QED
      BY <1>1, <3>2
  <2> QED
    BY <2>1, <2>2
<1> QED
  BY <1>1, <1>2 DEF Max

LEMMA MaxOfPrefix ==
  ASSUME NEW n \in Nat PROVE Max(1 .. n + 1) = n + 1 /\ (1 .. n + 1) \ {n + 1} = 1 .. n
<1>1. Max(1 .. n + 1) \in 1 .. n + 1 /\ \A y \in 1 .. n + 1 : Max(1 .. n + 1) >= y
  <2>1. n + 1 \in Nat /\ 1 .. n + 1 \subseteq 0 .. n + 1 /\ n + 1 \in 1 .. n + 1
    OBVIOUS
  <2> HIDE DEF Max
  <2> QED
    BY <2>1, MaxIsGreatest
<1> QED
  BY <1>1

LEMMA MinOfTwo ==
  ASSUME NEW a \in Int, NEW b \in Int PROVE Min({a, b}) = IF a <= b THEN a ELSE b
BY DEF Min

(* The function on subsets of 1 .. n that a fold is a value of, when the    *)
(* values stay in T; it exists for every n up to N.                        *)
FoldFun(g, T, base, F, n) ==
  /\ g \in [SUBSET (1 .. n) -> T]
  /\ \A s \in SUBSET (1 .. n) : g[s] = IF s = {} THEN base ELSE F[<<g[s \ {Max(s)}], Max(s)>>]

LEMMA FoldStarts == ASSUME NEW T, NEW base \in T, NEW F PROVE \E g : FoldFun(g, T, base, F, 0)
<1> DEFINE g == [s \in SUBSET (1 .. 0) |-> base]
<1>1. \A s \in SUBSET (1 .. 0) : s = {}
  OBVIOUS
<1>2. FoldFun(g, T, base, F, 0)
  BY <1>1 DEF FoldFun
<1> QED
  BY <1>2

LEMMA FoldGoesOn ==
  ASSUME NEW T, NEW base \in T, NEW n \in Nat, NEW F, \A x \in T : F[<<x, n + 1>>] \in T,
         NEW h, FoldFun(h, T, base, F, n)
  PROVE  \E g : FoldFun(g, T, base, F, n + 1)
<1> DEFINE g == [s \in SUBSET (1 .. n + 1) |-> IF n + 1 \in s THEN F[<<h[s \ {n + 1}], n + 1>>] ELSE h[s]]
<1>1. ASSUME NEW s \in SUBSET (1 .. n + 1)
      PROVE  s \ {n + 1} \in SUBSET (1 .. n) /\ (n + 1 \notin s => s \in SUBSET (1 .. n))
  OBVIOUS
<1>2. h \in [SUBSET (1 .. n) -> T]
  BY DEF FoldFun
<1>3. ASSUME NEW s \in SUBSET (1 .. n + 1) PROVE g[s] \in T
  BY <1>1, <1>2
<1>4. ASSUME NEW s \in SUBSET (1 .. n + 1)
      PROVE  g[s] = IF s = {} THEN base ELSE F[<<g[s \ {Max(s)}], Max(s)>>]
  <2>1. CASE n + 1 \in s
    <3>1. Max(s) \in s /\ \A y \in s : Max(s) >= y
      <4>1. s \subseteq 0 .. n + 1 /\ n + 1 \in Nat
        OBVIOUS
      <4> QED
        BY <2>1, <4>1, MaxIsGreatest
    <3>2. Max(s) \in 1 .. n + 1 /\ Max(s) >= n + 1
      BY <2>1, <3>1
    <3>3. Max(s) = n + 1
      BY <3>2
    <3>4. s \ {n + 1} \in SUBSET (1 .. n + 1) /\ n + 1 \notin s \ {n + 1}
      OBVIOUS
    <3>5. g[s \ {n + 1}] = h[s \ {n + 1}]
      BY <3>4
    <3>6. g[s] = F[<<h[s \ {n + 1}], n + 1>>]
      BY <2>1
    <3> QED
      BY <2>1, <3>3, <3>5, <3>6
  <2>2. CASE n + 1 \notin s
    <3>1. s \in SUBSET (1 .. n)
      BY <1>1, <2>2
    <3>2. s \ {Max(s)} \in SUBSET (1 .. n + 1) /\ n + 1 \notin s \ {Max(s)}
      BY <2>2
    <3>3. g[s] = h[s] /\ g[s \ {Max(s)}] = h[s \ {Max(s)}]
      BY <2>2, <3>2
    <3>4. h[s] = IF s = {} THEN base ELSE F[<<h[s \ {Max(s)}], Max(s)>>]
      BY <3>1 DEF FoldFun
    <3> QED
      BY <3>3, <3>4
  <2> QED
    BY <2>1, <2>2
<1>5. g \in [SUBSET (1 .. n + 1) -> T]
  BY <1>3
<1> HIDE DEF g
<1>6. FoldFun(g, T, base, F, n + 1)
  BY <1>4, <1>5 DEF FoldFun
<1> QED
  BY <1>6

LEMMA FoldExists ==
  ASSUME NEW T, NEW base \in T, NEW N \in Nat,
         NEW F, \A x \in T : \A i \in 1 .. N : F[<<x, i>>] \in T
  PROVE  \E g : FoldFun(g, T, base, F, N)
<1> DEFINE S == {n \in Nat : n <= N => \E g : FoldFun(g, T, base, F, n)}
<1>1. 0 \in S
  BY FoldStarts
<1>2. ASSUME NEW n \in Nat, n \in S PROVE n + 1 \in S
  <2>1. SUFFICES ASSUME n + 1 <= N PROVE \E g : FoldFun(g, T, base, F, n + 1)
    OBVIOUS
  <2>2. n <= N /\ n + 1 \in 1 .. N
    BY <2>1
  <2> QED
    BY <1>2, <2>2, FoldGoesOn
<1> HIDE DEF S
<1>3. Nat \subseteq S
  BY <1>1, <1>2, NumberInduction
<1> USE DEF S
<1> QED
  BY <1>3

-------------------------------------------------------------------------------
(* Sequences                                                               *)

(* A set of sequences that has the empty one, and with each every longer   *)
(* one, has them all.                                                      *)
LEMMA SequenceInduction ==
  ASSUME NEW T, NEW A, <<>> \in A, \A s \in Seq(T), e \in T : s \in A => Append(s, e) \in A
  PROVE  Seq(T) \subseteq A
<1> DEFINE S == {n \in Nat : \A s \in Seq(T) : Len(s) = n => s \in A}
<1>1. 0 \in S
  <2>1. \A s \in Seq(T) : Len(s) = 0 => s = <<>>
    BY EmptySeq
  <2> QED
    BY <2>1
<1>2. ASSUME NEW n \in Nat, n \in S PROVE n + 1 \in S
  <2>1. SUFFICES ASSUME NEW s \in Seq(T), Len(s) = n + 1 PROVE s \in A
    OBVIOUS
  <2>2. s # <<>>
    BY <2>1
  <2>3. PICK t \in Seq(T), e \in T : s = Append(t, e)
    BY <2>2, SequenceEmptyOrAppend
  <2>4. Len(t) = n
    BY <2>1, <2>3, AppendProperties, LenProperties
  <2>5. t \in A
    BY <1>2, <2>4
  <2> QED
    BY <2>3, <2>5
<1> HIDE DEF S
<1>3. Nat \subseteq S
  BY <1>1, <1>2, NumberInduction
<1> USE DEF S
<1> QED
  BY <1>3, LenProperties

(* One element more, of whatever kind.                                     *)
Framed(w) == \E S : w \in Seq(S)
LEMMA SeqWider == ASSUME NEW S, NEW T, S \subseteq T PROVE Seq(S) \subseteq Seq(T)
<1>1. SUFFICES ASSUME NEW s \in Seq(S) PROVE s \in Seq(T)
  OBVIOUS
<1>2. Len(s) \in Nat /\ s = [n \in 1 .. Len(s) |-> s[n]]
  BY LenProperties
<1>3. \A n \in 1 .. Len(s) : s[n] \in T
  BY ElementOfSeq
<1> QED
  BY <1>2, <1>3, IsASeq

OneLonger(w, f, v) ==
  /\ Framed(v) /\ Len(w) \in Nat /\ DOMAIN w = 1 .. Len(w)
  /\ Len(v) = Len(w) + 1 /\ DOMAIN v = 1 .. Len(w) + 1 /\ v[Len(w) + 1] = f
  /\ \A n \in DOMAIN w : v[n] = w[n]
LEMMA OneLongerConcat == ASSUME NEW w, Framed(w), NEW f, NEW v, v = w \o <<f>> PROVE OneLonger(w, f, v)
<1>1. PICK S : w \in Seq(S)
  BY DEF Framed
<1>2. PICK T : T = S \cup {f}
  OBVIOUS
<1>3. w \in Seq(T) /\ <<f>> \in Seq(T)
  <2>1. S \subseteq T /\ f \in T
    BY <1>2
  <2>2. w \in Seq(T)
    BY <1>1, <2>1, SeqWider
  <2> QED
    BY <2>1, <2>2
<1>4. /\ v \in Seq(T) /\ Len(v) = Len(w) + 1 /\ v[Len(w) + 1] = f /\ \A n \in DOMAIN w : v[n] = w[n]
      /\ Len(w) \in Nat /\ DOMAIN w = 1 .. Len(w) /\ DOMAIN v = 1 .. Len(w) + 1
  BY <1>3, ConcatProperties, LenProperties
<1> QED
  BY <1>4 DEF Framed, OneLonger

LEMMA OneLongerAppend == ASSUME NEW w, Framed(w), NEW x, NEW v, v = Append(w, x) PROVE OneLonger(w, x, v)
<1>1. PICK S : w \in Seq(S)
  BY DEF Framed
<1>2. PICK T : T = S \cup {x}
  OBVIOUS
<1>3. w \in Seq(T) /\ x \in T
  <2>1. S \subseteq T /\ x \in T
    BY <1>2
  <2> QED
    BY <1>1, <2>1, SeqWider
<1>4. v = w \o <<x>>
  BY <1>3, AppendIsConcat
<1> QED
  BY <1>4, OneLongerConcat

LEMMA OneAfterAnother == ASSUME NEW f, NEW g PROVE <<f>> \o <<g>> = <<f, g>>
<1> DEFINE T == {f, g}
<1>2. f \in T /\ g \in T
  OBVIOUS
<1> HIDE DEF T
<1>3. PICK s, t : s = Append(<<f>>, g) /\ t = <<f, g>>
  OBVIOUS
<1>4. <<f>> \in Seq(T)
  BY <1>2
<1>5. s = <<f>> \o <<g>>
  BY <1>2, <1>3, <1>4, AppendIsConcat
<1>6. s \in Seq(T) /\ Len(s) = 2 /\ s[1] = f /\ s[2] = g
  BY <1>2, <1>3, <1>4, AppendProperties
<1>7. t \in Seq(T) /\ Len(t) = 2 /\ t[1] = f /\ t[2] = g
  BY <1>2, <1>3
<1>8. \A n \in 1 .. Len(s) : s[n] = t[n]
  BY <1>6, <1>7
<1>9. s = t
  BY <1>6, <1>7, <1>8, SeqEqual
<1> QED
  BY <1>3, <1>5, <1>9

LEMMA AppendIndexes ==
  ASSUME NEW T, NEW a \in Seq(T), NEW e \in T, NEW c, c = Append(a, e)
  PROVE  /\ c \in Seq(T) /\ Len(a) \in Nat /\ DOMAIN a = 1 .. Len(a) /\ c[Len(a) + 1] = e
         /\ \A m : m \in DOMAIN c <=> m \in DOMAIN a \/ m = Len(a) + 1
         /\ \A m \in DOMAIN a : c[m] = a[m] /\ m < Len(a) + 1 /\ a[m] \in T
<1>1. /\ c \in Seq(T) /\ Len(a) \in Nat /\ DOMAIN a = 1 .. Len(a) /\ c[Len(a) + 1] = e
      /\ DOMAIN c = 1 .. Len(a) + 1 /\ \A m \in 1 .. Len(a) : c[m] = a[m] /\ a[m] \in T
  BY AppendProperties, LenProperties, ElementOfSeq
<1> QED
  BY <1>1

LEMMA ConcatAppend ==
  ASSUME NEW T, NEW b \in Seq(T), NEW o \in Seq(T), NEW e \in T
  PROVE  b \o Append(o, e) = Append(b \o o, e)
<1>1. Append(o, e) = o \o <<e>> /\ <<e>> \in Seq(T)
  BY AppendIsConcat
<1>2. b \o (o \o <<e>>) = (b \o o) \o <<e>>
  BY <1>1, ConcatAssociative
<1>3. b \o o \in Seq(T)
  BY ConcatProperties
<1>4. Append(b \o o, e) = (b \o o) \o <<e>>
  BY <1>3, AppendIsConcat
<1> QED
  BY <1>1, <1>2, <1>4

LEMMA HeadMoves ==
  ASSUME NEW T, NEW a \in Seq(T), NEW c \in Seq(T), c # <<>>
  PROVE  Head(c) \in T /\ Tail(c) \in Seq(T) /\ Append(a, Head(c)) \o Tail(c) = a \o c
<1>1. PICK h, t : h = Head(c) /\ t = Tail(c)
  OBVIOUS
<1>2. h \in T /\ t \in Seq(T)
  BY <1>1, HeadTailProperties
<1>3. <<h>> \o t = c
  BY <1>1
<1>4. <<h>> \in Seq(T) /\ Append(a, h) = a \o <<h>>
  BY <1>2, AppendIsConcat
<1>5. (a \o <<h>>) \o t = a \o (<<h>> \o t)
  BY <1>2, <1>4, ConcatAssociative
<1> QED
  BY <1>1, <1>2, <1>3, <1>4, <1>5

(* The beginnings of a sequence.                                           *)
LEMMA BeginningGrows ==
  ASSUME NEW T, NEW s \in Seq(T), NEW k \in Nat, k + 1 <= Len(s)
  PROVE  SubSeq(s, 1, k) \in Seq(T) /\ SubSeq(s, 1, k + 1) = Append(SubSeq(s, 1, k), s[k + 1])
<1>1. Len(s) \in Nat /\ \A n \in 1 .. Len(s) : s[n] \in T
  BY LenProperties, ElementOfSeq
<1>2. 1 \in 1 .. Len(s) /\ k + 1 \in 1 .. Len(s) /\ (k + 1) - 1 = k /\ \A n \in 1 .. k : n \in 1 .. Len(s)
  BY <1>1
<1>3. PICK a, x : a = SubSeq(s, 1, k) /\ x = s[k + 1]
  OBVIOUS
<1>4. a \in Seq(T) /\ x \in T
  BY <1>1, <1>2, <1>3, SubSeqProperties
<1>5. SubSeq(s, 1, k + 1) = a \o <<x>>
  BY <1>2, <1>3, SubSeqRecursiveSecond
<1>6. Append(a, x) = a \o <<x>>
  BY <1>4, AppendIsConcat
<1> QED
  BY <1>3, <1>4, <1>5, <1>6

LEMMA BeforeInBeginning ==
  ASSUME NEW T, NEW b \in Seq(T), NEW c \in Seq(T), NEW n \in 1 .. Len(b) + 1
  PROVE  SubSeq(b \o c, 1, n - 1) = SubSeq(b, 1, n - 1)
<1>1. Len(b) \in Nat /\ b \o c \in Seq(T)
  BY ConcatProperties, LenProperties
<1>2. CASE n = 1
  BY <1>2, SubSeqEmpty
<1>3. CASE n # 1
  <2>1. n - 1 \in 1 .. Len(b) /\ 1 \in 1 .. Len(b)
    BY <1>1, <1>3
  <2> QED
    BY <2>1, SubSeqOfConcat1
<1> QED
  BY <1>2, <1>3

LEMMA ConcatIsPrefix == ASSUME NEW T, NEW x \in Seq(T), NEW z \in Seq(T) PROVE IsPrefix(x, x \o z)
<1>1. PICK y, m, n : y = x \o z /\ m = Len(x) /\ n = Len(z)
  OBVIOUS
<1>2. m \in Nat /\ n \in Nat /\ Len(y) = m + n
  BY <1>1, ConcatProperties, LenProperties
<1>3. SubSeq(y, 1, m) = x
  <2>1. CASE m = 0
    <3>1. x = <<>>
      BY <1>1, <2>1, EmptySeq
    <3>2. SubSeq(y, 1, 0) = <<>>
      BY SubSeqEmpty
    <3> QED
      BY <2>1, <3>1, <3>2
  <2>2. CASE m # 0
    <3>1. 1 \in 1 .. m /\ m \in 1 .. m
      BY <1>2, <2>2
    <3> QED
      BY <1>1, <3>1, SubSeqOfConcat1, SubSeqFull
  <2> QED
    BY <2>1, <2>2
<1> QED
  BY <1>1, <1>2, <1>3 DEF IsPrefix

(* Each element with the same tag.                                         *)
Tagged(k, d) == [m \in DOMAIN d |-> <<k, d[m]>>]
LEMMA TaggedConcat ==
  ASSUME NEW T, NEW k, NEW p \in Seq(T), NEW q \in Seq(T)
  PROVE  Tagged(k, p \o q) = Tagged(k, p) \o Tagged(k, q)
<1>1. PICK r, m, n : r = p \o q /\ m = Len(p) /\ n = Len(q)
  OBVIOUS
<1>2. /\ m \in Nat /\ n \in Nat /\ DOMAIN p = 1 .. m /\ DOMAIN q = 1 .. n
      /\ (\A j \in 1 .. m : p[j] \in T) /\ \A j \in 1 .. n : q[j] \in T
  BY <1>1, LenProperties, ElementOfSeq
<1>3. /\ r \in Seq(T) /\ Len(r) = Len(p) + Len(q)
      /\ \A j \in 1 .. Len(p) + Len(q) : r[j] = IF j <= Len(p) THEN p[j] ELSE q[j - Len(p)]
  BY ONLY <1>1, p \in Seq(T), q \in Seq(T), ConcatProperties
<1>4. /\ DOMAIN r = 1 .. m + n /\ (\A j \in 1 .. m + n : r[j] = IF j <= m THEN p[j] ELSE q[j - m])
      /\ \A j \in 1 .. m + n : r[j] \in T
  BY ONLY <1>1, <1>3, LenProperties, ElementOfSeq
<1>5. PICK P, Q, R : /\ P = [j \in 1 .. m |-> <<k, p[j]>>] /\ Q = [j \in 1 .. n |-> <<k, q[j]>>]
                     /\ R = [j \in 1 .. m + n |-> <<k, r[j]>>]
  OBVIOUS
<1>6. Tagged(k, p) = P /\ Tagged(k, q) = Q /\ Tagged(k, r) = R
  BY <1>2, <1>4, <1>5 DEF Tagged
<1>7. P \in Seq({k} \X T) /\ Q \in Seq({k} \X T) /\ R \in Seq({k} \X T) /\ Len(P) = m /\ Len(Q) = n /\ Len(R) = m + n
  BY <1>2, <1>4, <1>5
<1>8. PICK W : W = P \o Q
  OBVIOUS
<1>9. W \in Seq({k} \X T) /\ Len(W) = m + n /\ \A j \in 1 .. m + n : W[j] = IF j <= m THEN P[j] ELSE Q[j - m]
  BY <1>2, <1>7, <1>8, ConcatProperties
<1>10. ASSUME NEW j \in 1 .. m + n PROVE R[j] = W[j]
  <2>1. CASE j <= m
    <3>1. j \in 1 .. m
      BY <1>2, <2>1
    <3> QED
      BY <1>4, <1>5, <1>9, <2>1, <3>1
  <2>2. CASE ~(j <= m)
    <3>1. j - m \in 1 .. n
      BY <1>2, <2>2
    <3> QED
      BY <1>4, <1>5, <1>9, <2>2, <3>1
  <2> QED
    BY <2>1, <2>2
<1>11. R = W
  BY ONLY <1>7, <1>9, <1>10, SeqEqual
<1> QED
  BY <1>1, <1>6, <1>8, <1>11

(* The last of a set of places.                                            *)
LEMMA MaxWithin ==
  ASSUME NEW n \in Nat, NEW x \in SUBSET (1 .. n), x # {}
  PROVE  Max(x) \in x /\ \A y \in x : Max(x) >= y
<1>1. x \subseteq 0 .. n
  OBVIOUS
<1> QED
  BY <1>1, MaxIsGreatest

LEMMA MaxInside ==
  ASSUME NEW n \in Nat, NEW q, q = [j \in 1 .. n |-> j], NEW x \in SUBSET DOMAIN q, x # {}
  PROVE  Max(x) \in 1 .. n /\ x \ {Max(x)} \in SUBSET DOMAIN q /\ q[Max(x)] = Max(x)
<1>1. x \subseteq 0 .. n
  OBVIOUS
<1>2. PICK k : k = Max(x)
  OBVIOUS
<1>3. k \in x
  BY <1>1, <1>2, MaxIsGreatest
<1>4. k \in 1 .. n /\ x \ {k} \in SUBSET DOMAIN q /\ q[k] = k
  BY <1>3
<1> QED
  BY <1>2, <1>4

LEMMA PrefixOf ==
  ASSUME NEW n \in Nat, NEW k \in Nat, k + 1 <= n
  PROVE  /\ 1 .. k + 1 \in SUBSET (1 .. n) /\ 1 .. k + 1 # {}
         /\ Max(1 .. k + 1) = k + 1 /\ (1 .. k + 1) \ {k + 1} = 1 .. k
<1>1. k + 1 \in 1 .. k + 1 /\ \A z \in 1 .. k + 1 : z \in 1 .. n
  OBVIOUS
<1> QED
  BY <1>1, MaxOfPrefix

(* The numbers that a list has as indices, in ascending order.             *)
Rises(q, S, c) == q \in [1 .. c -> S] /\ \A m, n \in 1 .. c : m < n => q[m] < q[n]
LEMMA RisesOn ==
  ASSUME NEW S, S \subseteq Int, NEW c \in Nat, NEW q, Rises(q, S, c), NEW x \in Int, x \notin S
  PROVE  \E v : Rises(v, S \cup {x}, c + 1)
<1> DEFINE v == [m \in 1 .. c + 1 |-> IF m <= c /\ q[m] < x THEN q[m]
                                      ELSE IF m = 1 \/ q[m - 1] < x THEN x ELSE q[m - 1]]
<1>1. /\ \A m \in 1 .. c : q[m] \in S /\ q[m] \in Int /\ q[m] # x
      /\ \A m, n \in 1 .. c : m < n => q[m] < q[n]
  BY DEF Rises
<1>2. ASSUME NEW m \in 1 .. c + 1
      PROVE  \/ m <= c /\ q[m] < x /\ v[m] = q[m]
             \/ v[m] = x /\ (m <= c => x < q[m]) /\ (m > 1 => q[m - 1] < x)
             \/ m > 1 /\ m - 1 \in 1 .. c /\ x < q[m - 1] /\ v[m] = q[m - 1]
  <2>1. m \in Int /\ 1 <= m /\ m <= c + 1 /\ (m <= c => m \in 1 .. c) /\ (m # 1 => m > 1 /\ m - 1 \in 1 .. c)
    OBVIOUS
  <2>2. v[m] = IF m <= c /\ q[m] < x THEN q[m] ELSE IF m = 1 \/ q[m - 1] < x THEN x ELSE q[m - 1]
    OBVIOUS
  <2>3. CASE m <= c /\ q[m] < x
    BY <2>2, <2>3
  <2>4. CASE ~(m <= c /\ q[m] < x) /\ (m = 1 \/ q[m - 1] < x)
    <3>1. v[m] = x
      BY ONLY <2>2, <2>4
    <3>2. m <= c => x < q[m]
      BY ONLY x \in Int, <1>1, <2>1, <2>4
    <3>3. m > 1 => q[m - 1] < x
      BY ONLY <2>1, <2>4
    <3> QED
      BY ONLY <3>1, <3>2, <3>3
  <2>5. CASE ~(m <= c /\ q[m] < x) /\ ~(m = 1 \/ q[m - 1] < x)
    <3>1. v[m] = q[m - 1]
      BY ONLY <2>2, <2>5
    <3>2. x < q[m - 1]
      BY ONLY x \in Int, <1>1, <2>1, <2>5
    <3> QED
      BY ONLY <2>1, <2>5, <3>1, <3>2
  <2> QED
    BY ONLY <2>3, <2>4, <2>5
<1>3. \A m \in 1 .. c + 1 : v[m] \in S \cup {x}
  <2> HIDE DEF v
  <2> QED
    BY <1>1, <1>2
<1>4. v \in [1 .. c + 1 -> S \cup {x}]
  BY <1>3
<1>5. ASSUME NEW m \in 1 .. c + 1, NEW n \in 1 .. c + 1, m < n PROVE v[m] < v[n]
  <2> HIDE DEF v
  <2>1. m \in Int /\ n \in Int /\ 1 <= m /\ n <= c + 1 /\ m <= n - 1 /\ m \in 1 .. c /\ n - 1 \in 1 .. c /\ n > 1
            /\ m \in 1 .. c + 1
    BY <1>5
  <2>2. q[m] \in Int /\ q[n - 1] \in Int /\ (m < n - 1 => q[m] < q[n - 1]) /\ (m = n - 1 => q[m] = q[n - 1])
    BY ONLY <1>1, <2>1
  <2>3. CASE n <= c /\ q[n] < x /\ v[n] = q[n]
    <3>1. n \in 1 .. c /\ q[n] \in Int /\ q[m] < q[n] /\ q[m] < x
      <4>1. n \in 1 .. c
        BY ONLY <2>1, <2>3
      <4>2. q[n] \in Int /\ q[m] < q[n]
        BY ONLY <1>1, <1>5, <2>1, <4>1
      <4> QED
        BY ONLY x \in Int, <2>2, <2>3, <4>1, <4>2
    <3>2. v[m] = q[m]
      <4>1. m > 1 => q[m - 1] < q[m]
        BY ONLY <1>1, <2>1
      <4>2. m > 1 => m - 1 \in 1 .. c
        BY ONLY <2>1
      <4> QED
        BY ONLY x \in Int, <1>1, <1>2, <2>1, <2>2, <3>1, <4>1, <4>2
    <3> QED
      BY ONLY <2>3, <3>1, <3>2
  <2>4. CASE v[n] = x /\ q[n - 1] < x
    <3>1. q[m] < x
      BY ONLY x \in Int, <2>1, <2>2, <2>4
    <3>2. m > 1 => q[m - 1] < q[m] /\ q[m - 1] \in Int
      BY ONLY <1>1, <2>1
    <3>3. v[m] = q[m]
      BY ONLY x \in Int, <1>2, <2>1, <2>2, <3>1, <3>2
    <3> QED
      BY ONLY <2>4, <3>1, <3>3
  <2>5. CASE x < q[n - 1] /\ v[n] = q[n - 1]
    <3>1. m > 1 => m - 1 \in 1 .. c /\ q[m - 1] < q[n - 1]
      BY ONLY <1>1, <2>1
    <3>2. (v[m] = q[m] /\ q[m] < x) \/ v[m] = x \/ (m > 1 /\ v[m] = q[m - 1])
      BY ONLY <1>2, <2>1
    <3> QED
      BY ONLY x \in Int, <2>2, <2>5, <3>1, <3>2
  <2> QED
    BY <1>2, <2>1, <2>3, <2>4, <2>5
<1> HIDE DEF v
<1>6. Rises(v, S \cup {x}, c + 1)
  BY <1>4, <1>5 DEF Rises
<1> QED
  BY <1>6

Indexes(w) == {w[n].i : n \in DOMAIN w}
LEMMA RisesSomehow ==
  ASSUME NEW l \in Nat, NEW w, DOMAIN w = 1 .. l, \A n \in DOMAIN w : w[n].i \in Int
  PROVE  IsFiniteSet(Indexes(w)) /\ Indexes(w) \subseteq Int /\ \E q : Rises(q, Indexes(w), Cardinality(Indexes(w)))
<1> DEFINE Upto(n) == {w[m].i : m \in 1 .. n}
           Sorted(S) == IsFiniteSet(S) /\ \E q : Rises(q, S, Cardinality(S))
           A == {n \in Nat : n <= l => Sorted(Upto(n))}
<1>1. 0 \in A
  <2>1. Upto(0) = {} /\ IsFiniteSet({}) /\ Cardinality({}) = 0
    BY FS_EmptySet
  <2>2. PICK q : q = [m \in 1 .. 0 |-> 0]
    OBVIOUS
  <2>3. Rises(q, {}, 0)
    BY <2>2 DEF Rises
  <2>4. Sorted({})
    BY <2>1, <2>3
  <2> HIDE DEF Sorted
  <2> QED
    BY <2>1, <2>4
<1>2. ASSUME NEW n \in Nat, n \in A PROVE n + 1 \in A
  <2> HIDE DEF Sorted, Upto
  <2>1. SUFFICES ASSUME n + 1 <= l PROVE Sorted(Upto(n + 1))
    OBVIOUS
  <2>0. Sorted(Upto(n))
    BY <1>2, <2>1
  <2> USE DEF Upto
  <2>2. PICK S, x : S = Upto(n) /\ x = w[n + 1].i
    OBVIOUS
  <2>3. x \in Int /\ S \subseteq Int /\ Sorted(S)
    <3>1. n + 1 \in DOMAIN w /\ \A m \in 1 .. n : m \in DOMAIN w
      BY <2>1
    <3> QED
      BY <2>0, <2>2, <3>1
  <2> USE DEF Sorted
  <2>4. Upto(n + 1) = S \cup {x}
    <3>1. \A j : j \in 1 .. n + 1 <=> j \in 1 .. n \/ j = n + 1
      OBVIOUS
    <3> QED
      BY ONLY <2>2, <3>1
  <2>5. CASE x \in S
    <3> HIDE DEF Sorted, Upto
    <3>1. S \cup {x} = S
      BY <2>5
    <3> QED
      BY <2>3, <2>4, <3>1
  <2>6. CASE x \notin S
    <3>1. IsFiniteSet(S \cup {x}) /\ Cardinality(S \cup {x}) = Cardinality(S) + 1
      BY <2>3, <2>6, FS_AddElement
    <3>2. Cardinality(S) \in Nat
      BY <2>3, FS_CardinalityType
    <3>3. \E v : Rises(v, S \cup {x}, Cardinality(S) + 1)
      BY <2>3, <2>6, <3>2, RisesOn
    <3> HIDE DEF Upto
    <3> QED
      BY <2>4, <3>1, <3>3
  <2> HIDE DEF Sorted, Upto
  <2> QED
    BY <2>5, <2>6
<1> HIDE DEF A
<1>3. l \in A
  BY <1>1, <1>2, NumberInduction
<1>4. Indexes(w) = Upto(l)
  BY DEF Indexes
<1>5. Indexes(w) \subseteq Int
  BY DEF Indexes
<1>6. Sorted(Upto(l))
  <2> HIDE DEF Sorted, Upto
  <2> USE DEF A
  <2> QED
    BY <1>3
<1> HIDE DEF Upto
<1> QED
  BY <1>4, <1>5, <1>6

(* The ascending list leaves none out.                                      *)
LEMMA RisesThrough ==
  ASSUME NEW S, IsFiniteSet(S), S \subseteq Int, NEW c, c = Cardinality(S), NEW q, Rises(q, S, c)
  PROVE  \A x \in S : \E n \in 1 .. c : q[n] = x
<1>1. c \in Nat
  BY FS_CardinalityType
<1>2. q \in Injection(1 .. c, S)
  <2>1. ASSUME NEW m \in 1 .. c, NEW n \in 1 .. c, m # n PROVE q[m] # q[n]
    <3>1. q[m] \in Int /\ q[n] \in Int /\ (m < n => q[m] < q[n]) /\ (n < m => q[n] < q[m])
      BY ONLY m \in 1 .. c, n \in 1 .. c, S \subseteq Int, Rises(q, S, c) DEF Rises
    <3>2. m < n \/ n < m
      BY ONLY m \in 1 .. c, n \in 1 .. c, <1>1, <2>1
    <3> QED
      BY ONLY <3>1, <3>2
  <2> QED
    BY <2>1 DEF Injection, IsInjective, Rises
<1>3. Cardinality(1 .. c) = c
  <2>1. Cardinality(1 .. c) = IF 1 > c THEN 0 ELSE c - 1 + 1
    BY ONLY <1>1, FS_Interval
  <2> QED
    BY ONLY <1>1, <2>1
<1>4. q \in Surjection(1 .. c, S)
  BY ONLY IsFiniteSet(S), c = Cardinality(S), <1>2, <1>3, FS_Injection
<1> QED
  BY <1>4 DEF Surjection
===============================================================================
