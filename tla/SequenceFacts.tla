----------------------------- MODULE SequenceFacts -----------------------------
(***************************************************************************)
(* Facts about sequences that the proofs about queues need: what the       *)
(* operators Tail, Append, \o and RemoveAt make, the set of the elements,  *)
(* that no element occurs twice, and what a fold that joins sequences one  *)
(* after another makes.                                                    *)
(***************************************************************************)
EXTENDS SequencesExt, SequenceTheorems, FiniteSetTheorems, WellFoundedInduction, TLAPS

(* A set of naturals that is not empty has a least one: this is how what  *)
(* follows is proved by induction.                                         *)
LEMMA Least ==
  ASSUME NEW T, T \subseteq Nat, T # {}
  PROVE  \E n \in T : \A m \in T : n <= m
<1> DEFINE R == {ss \in Nat \X Nat : ss[1] < ss[2]}
<1>1. IsWellFoundedOn(R, Nat)
  BY NatLessThanWellFounded DEF OpToRel
<1>2. PICK n \in T : \A m \in T : ~(<<m, n>> \in R)
  <2> HIDE DEF R
  <2> QED BY <1>1, WFMin
<1>3. ASSUME NEW m \in T PROVE n <= m
  <2>1. m \in Nat /\ n \in Nat
    OBVIOUS
  <2>2. ~ (m < n)
    BY <1>2, <2>1
  <2> QED BY <2>1, <2>2
<1> QED BY <1>3

(* What a sequence without one of its elements is.                         *)
LEMMA Removed ==
  ASSUME NEW S, NEW s \in Seq(S), NEW k \in DOMAIN s
  PROVE  /\ RemoveAt(s, k) \in Seq(S) /\ Len(s) \in Nat \ {0} /\ k \in 1 .. Len(s)
         /\ DOMAIN RemoveAt(s, k) = 1 .. Len(s) - 1
         /\ \A j \in 1 .. Len(s) - 1 : RemoveAt(s, k)[j] = IF j < k THEN s[j] ELSE s[j + 1]
<1> DEFINE a == SubSeq(s, 1, k - 1)
           b == SubSeq(s, k + 1, Len(s))
           n == Len(s)
<1>1. n \in Nat \ {0} /\ k \in 1 .. n
  BY LenProperties
<1>2. /\ a \in Seq(S) /\ Len(a) = k - 1 /\ \A j \in 1 .. k - 1 : a[j] = s[j]
  <2>1. 1 .. k - 1 \subseteq 1 .. n
    BY <1>1
  <2>2. \A j \in 1 .. k - 1 : s[j] \in S
    BY <2>1, ElementOfSeq
  <2> QED BY <1>1, <2>2, SubSeqProperties
<1>3. b \in Seq(S) /\ Len(b) = n - k /\ \A j \in 1 .. n - k : b[j] = s[k + j]
  <2>1. \A j \in k + 1 .. n : s[j] \in S
    BY <1>1, ElementOfSeq
  <2> QED BY <1>1, <2>1, SubSeqProperties
<1> HIDE DEF a, b, n
<1>4. /\ a \o b \in Seq(S) /\ Len(a \o b) = Len(a) + Len(b)
      /\ \A j \in 1 .. Len(a) + Len(b) : (a \o b)[j] = IF j <= Len(a) THEN a[j] ELSE b[j - Len(a)]
  BY <1>2, <1>3, ConcatProperties
<1>5. ASSUME NEW j \in 1 .. n - 1 PROVE (a \o b)[j] = IF j < k THEN s[j] ELSE s[j + 1]
  <2>1. CASE j < k
    <3>1. j \in 1 .. k - 1 /\ j \in 1 .. Len(a) + Len(b) /\ j <= Len(a)
      BY <1>1, <1>2, <1>3, <2>1
    <3>2. (a \o b)[j] = a[j]
      BY <1>4, <3>1
    <3> QED BY <1>2, <2>1, <3>1, <3>2
  <2>2. CASE ~(j < k)
    <3>1. k \in Int /\ j \in Int /\ n \in Int /\ j - (k - 1) \in 1 .. n - k /\ k + (j - (k - 1)) = j + 1
      BY <1>1, <2>2
    <3>2. (a \o b)[j] = b[j - (k - 1)]
      <4>1. Len(a) = k - 1 /\ Len(b) = n - k
        BY <1>2, <1>3
      <4>2. Len(a) + Len(b) = n - 1
        BY <4>1, <3>1
      <4>4. ~(j <= Len(a))
        BY <4>1, <2>2, <3>1
      <4>5. j \in 1 .. Len(a) + Len(b)
        BY <4>2
      <4>3. (a \o b)[j] = b[j - Len(a)]
        BY <1>4, <4>4, <4>5
      <4> QED BY <4>1, <4>3
    <3>3. b[j - (k - 1)] = s[j + 1]
      BY <1>3, <3>1
    <3> QED BY <2>2, <3>2, <3>3
  <2> QED BY <2>1, <2>2
<1>6. DOMAIN (a \o b) = 1 .. n - 1
  BY <1>1, <1>2, <1>3, <1>4, LenProperties
<1>7. RemoveAt(s, k) = a \o b
  BY DEF RemoveAt, a, b, n
<1> QED BY <1>1, <1>4, <1>5, <1>6, <1>7 DEF n

(* What two sequences put together are.                                    *)
LEMMA Joined ==
  ASSUME NEW S, NEW s \in Seq(S), NEW t \in Seq(S)
  PROVE  /\ s \o t \in Seq(S) /\ Len(s) \in Nat /\ Len(t) \in Nat
         /\ DOMAIN s = 1 .. Len(s) /\ DOMAIN t = 1 .. Len(t) /\ DOMAIN (s \o t) = 1 .. Len(s) + Len(t)
         /\ \A k \in 1 .. Len(s) : (s \o t)[k] = s[k]
         /\ \A k \in 1 .. Len(t) : (s \o t)[Len(s) + k] = t[k]
         /\ \A k \in 1 .. Len(s) + Len(t) :
              k \in 1 .. Len(s) \/ (k - Len(s) \in 1 .. Len(t) /\ (s \o t)[k] = t[k - Len(s)])
         /\ ToSet(s \o t) = ToSet(s) \cup ToSet(t)
<1>1. Len(s) \in Nat /\ Len(t) \in Nat /\ DOMAIN s = 1 .. Len(s) /\ DOMAIN t = 1 .. Len(t)
  BY LenProperties
<1>2. /\ s \o t \in Seq(S) /\ Len(s \o t) = Len(s) + Len(t)
      /\ \A k \in 1 .. Len(s) + Len(t) : (s \o t)[k] = IF k <= Len(s) THEN s[k] ELSE t[k - Len(s)]
  BY ConcatProperties
<1>3. DOMAIN (s \o t) = 1 .. Len(s) + Len(t)
  BY <1>1, <1>2, LenProperties
<1>4. PICK u : u = s \o t
  OBVIOUS
<1>5. \A k \in 1 .. Len(s) : u[k] = s[k] /\ k \in DOMAIN u
  BY <1>1, <1>2, <1>3, <1>4
<1>6. \A k \in 1 .. Len(t) : u[Len(s) + k] = t[k] /\ Len(s) + k \in DOMAIN u
  BY <1>1, <1>2, <1>3, <1>4
<1>7. ASSUME NEW k \in 1 .. Len(s) + Len(t), k \notin 1 .. Len(s)
      PROVE  k - Len(s) \in 1 .. Len(t) /\ u[k] = t[k - Len(s)]
  <2>1. ~(k <= Len(s)) /\ k - Len(s) \in 1 .. Len(t)
    BY <1>1, <1>7
  <2> QED BY <1>2, <1>4, <2>1
<1>8. ToSet(u) \subseteq ToSet(s) \cup ToSet(t)
  BY <1>1, <1>3, <1>4, <1>5, <1>7 DEF ToSet
<1>9. ToSet(s) \subseteq ToSet(u) /\ ToSet(t) \subseteq ToSet(u)
  BY <1>1, <1>5, <1>6 DEF ToSet
<1>10. ToSet(u) = ToSet(s) \cup ToSet(t)
  BY <1>8, <1>9
<1>11. \A k \in 1 .. Len(s) + Len(t) :
         k \in 1 .. Len(s) \/ (k - Len(s) \in 1 .. Len(t) /\ u[k] = t[k - Len(s)])
  BY <1>7
<1> QED BY <1>1, <1>2, <1>3, <1>4, <1>5, <1>6, <1>10, <1>11

(* What a sequence with one more element is.                               *)
LEMMA Added ==
  ASSUME NEW S, NEW s \in Seq(S), NEW e \in S
  PROVE  /\ Append(s, e) \in Seq(S) /\ Len(s) \in Nat
         /\ DOMAIN s = 1 .. Len(s) /\ DOMAIN Append(s, e) = 1 .. Len(s) + 1
         /\ \A k \in 1 .. Len(s) : Append(s, e)[k] = s[k]
         /\ Append(s, e)[Len(s) + 1] = e
         /\ ToSet(Append(s, e)) = ToSet(s) \cup {e}
<1>1. Len(s) \in Nat /\ DOMAIN s = 1 .. Len(s)
  BY LenProperties
<1>2. PICK u : u = Append(s, e)
  OBVIOUS
<1>3. /\ u \in Seq(S) /\ Len(u) = Len(s) + 1
      /\ \A k \in 1 .. Len(s) : u[k] = s[k]
      /\ u[Len(s) + 1] = e
  BY <1>2, AppendProperties
<1>4. DOMAIN u = 1 .. Len(s) + 1
  BY <1>3, LenProperties
<1>5. \A k \in 1 .. Len(s) + 1 : k \in 1 .. Len(s) \/ k = Len(s) + 1
  BY <1>1
<1>6. 1 .. Len(s) \subseteq DOMAIN u /\ Len(s) + 1 \in DOMAIN u
  BY <1>1, <1>4
<1>7. ToSet(u) \subseteq ToSet(s) \cup {e}
  BY <1>1, <1>3, <1>4, <1>5 DEF ToSet
<1>8. ToSet(s) \subseteq ToSet(u) /\ e \in ToSet(u)
  BY <1>1, <1>3, <1>6 DEF ToSet
<1> QED BY <1>1, <1>2, <1>3, <1>4, <1>7, <1>8

(* What a sequence without its first element is.                           *)
LEMMA Shortened ==
  ASSUME NEW S, NEW s \in Seq(S), s # <<>>
  PROVE  /\ Tail(s) \in Seq(S) /\ Head(s) \in S /\ Head(s) = s[1] /\ Len(s) \in Nat \ {0}
         /\ DOMAIN s = 1 .. Len(s) /\ DOMAIN Tail(s) = 1 .. Len(s) - 1
         /\ \A k \in 1 .. Len(s) - 1 : Tail(s)[k] = s[k + 1]
         /\ ToSet(s) = {Head(s)} \cup ToSet(Tail(s))
<1>1. Len(s) \in Nat \ {0} /\ DOMAIN s = 1 .. Len(s)
  BY EmptySeq, LenProperties
<1>2. PICK t : t = Tail(s)
  OBVIOUS
<1>3. /\ t \in Seq(S) /\ Head(s) \in S /\ Head(s) = s[1] /\ Len(t) = Len(s) - 1
      /\ \A k \in 1 .. Len(t) : t[k] = s[k + 1]
  BY <1>2, HeadTailProperties
<1>4. DOMAIN t = 1 .. Len(s) - 1
  BY <1>1, <1>3, LenProperties
<1>5. ASSUME NEW k \in 1 .. Len(s), k # 1 PROVE k - 1 \in 1 .. Len(s) - 1 /\ t[k - 1] = s[k]
  <2>1. k - 1 \in 1 .. Len(s) - 1 /\ (k - 1) + 1 = k
    BY <1>1, <1>5
  <2> QED BY <1>3, <2>1
<1>6. \A k \in 1 .. Len(s) - 1 : k + 1 \in 1 .. Len(s)
  BY <1>1
<1>7. 1 \in DOMAIN s
  BY <1>1
<1>8. ASSUME NEW k \in 1 .. Len(s) PROVE s[k] \in {Head(s)} \cup ToSet(t)
  BY <1>3, <1>4, <1>5 DEF ToSet
<1>9. Head(s) \in ToSet(s) /\ ToSet(t) \subseteq ToSet(s)
  BY <1>1, <1>3, <1>4, <1>6, <1>7 DEF ToSet
<1>10. ToSet(s) = {Head(s)} \cup ToSet(t)
  BY <1>1, <1>8, <1>9 DEF ToSet
<1> QED BY <1>1, <1>2, <1>3, <1>4, <1>10

(* The first element of a queue and the rest.                              *)
LEMMA Queued1 ==
  ASSUME NEW S, NEW q \in Seq(S), q # <<>>
  PROVE  /\ Head(q) \in S /\ Tail(q) \in Seq(S)
         /\ Head(q) = q[1] /\ Len(q) \in Nat \ {0}
         /\ Len(Tail(q)) = Len(q) - 1
         /\ \A i \in 1 .. Len(q) - 1 : Tail(q)[i] = q[i + 1]
<1>1. Len(q) \in Nat \ {0}
  BY EmptySeq
<1>2. /\ Head(q) \in S /\ Tail(q) \in Seq(S)
      /\ Len(Tail(q)) = Len(q) - 1
      /\ \A i \in 1 .. Len(Tail(q)) : Tail(q)[i] = q[i + 1]
  BY HeadTailProperties
<1> QED BY <1>1, <1>2

(* The elements of a queue one of which was taken out.                     *)
LEMMA ElemsTail ==
  ASSUME NEW S, NEW q \in Seq(S), q # <<>>
  PROVE  ToSet(q) = {Head(q)} \cup ToSet(Tail(q))
BY Shortened

(* The elements of a queue to which one was added.                         *)
LEMMA ElemsAppend ==
  ASSUME NEW S, NEW q \in Seq(S), NEW e \in S
  PROVE  ToSet(Append(q, e)) = ToSet(q) \cup {e} /\ Append(q, e) \in Seq(S)
BY Added

(* The elements of two queues put together.                                *)
LEMMA ElemsConcat ==
  ASSUME NEW S, NEW p \in Seq(S), NEW q \in Seq(S)
  PROVE  ToSet(p \o q) = ToSet(p) \cup ToSet(q) /\ p \o q \in Seq(S)
BY Joined

(* The elements of three queues put together.                              *)
LEMMA ElemsConcat3 ==
  ASSUME NEW S, NEW p \in Seq(S), NEW q \in Seq(S), NEW r \in Seq(S)
  PROVE  /\ ToSet(p \o (q \o r)) = ToSet(p) \cup (ToSet(q) \cup ToSet(r))
         /\ ToSet((p \o q) \o r) = (ToSet(p) \cup ToSet(q)) \cup ToSet(r)
<1>1. PICK d : d = q \o r
  OBVIOUS
<1>2. d \in Seq(S) /\ ToSet(d) = ToSet(q) \cup ToSet(r)
  BY <1>1, ElemsConcat
<1>3. ToSet(p \o d) = ToSet(p) \cup ToSet(d)
  BY <1>2, ElemsConcat
<1>4. PICK c : c = p \o q
  OBVIOUS
<1>5. c \in Seq(S) /\ ToSet(c) = ToSet(p) \cup ToSet(q)
  BY <1>4, ElemsConcat
<1>6. ToSet(c \o r) = ToSet(c) \cup ToSet(r)
  BY <1>5, ElemsConcat
<1> QED BY <1>1, <1>2, <1>3, <1>4, <1>5, <1>6

(* An empty queue, and the elements of a sequence.                         *)
LEMMA ElemsIn ==
  ASSUME NEW S, NEW q \in Seq(S)
  PROVE  ToSet(q) \subseteq S /\ (q = <<>> <=> ToSet(q) = {})
<1>1. Len(q) \in Nat /\ DOMAIN q = 1 .. Len(q)
  BY LenProperties
<1>2. ToSet(q) \subseteq S
  BY <1>1, ElementOfSeq DEF ToSet
<1>3. q = <<>> => ToSet(q) = {}
  BY DEF ToSet
<1>4. q # <<>> => 1 \in DOMAIN q
  BY <1>1, EmptySeq
<1>5. q # <<>> => q[1] \in ToSet(q)
  BY <1>4 DEF ToSet
<1> QED BY <1>2, <1>3, <1>5

(* No element of a queue occurs twice.                                     *)
Distinct(q) == \A i, j \in DOMAIN q : q[i] = q[j] => i = j

(* A queue of distinct events without its first one.                       *)
LEMMA DistinctTail ==
  ASSUME NEW S, NEW q \in Seq(S), q # <<>>, Distinct(q)
  PROVE  /\ Distinct(Tail(q)) /\ Head(q) \notin ToSet(Tail(q))
         /\ ToSet(q) = {Head(q)} \cup ToSet(Tail(q)) /\ Tail(q) \in Seq(S)
         /\ Head(q) \in S
<1> DEFINE t == Tail(q)
<1>1. /\ t \in Seq(S) /\ Head(q) = q[1] /\ Head(q) \in S /\ Len(q) \in Nat \ {0} /\ Len(t) = Len(q) - 1
      /\ \A i \in 1 .. Len(q) - 1 : t[i] = q[i + 1]
  BY Queued1
<1>2. DOMAIN q = 1 .. Len(q) /\ DOMAIN t = 1 .. Len(q) - 1
  BY <1>1, LenProperties
<1>e. ToSet(q) = {Head(q)} \cup ToSet(t)
  BY ElemsTail
<1> HIDE DEF t
<1>3. Distinct(t)
  <2> SUFFICES ASSUME NEW i \in 1 .. Len(q) - 1, NEW j \in 1 .. Len(q) - 1, t[i] = t[j] PROVE i = j
    BY <1>2 DEF Distinct
  <2>1. q[i + 1] = q[j + 1] /\ i + 1 \in DOMAIN q /\ j + 1 \in DOMAIN q
    BY <1>1, <1>2
  <2>2. i + 1 = j + 1
    BY <2>1 DEF Distinct
  <2> QED BY <2>2
<1>4. q[1] \notin ToSet(t)
  <2> SUFFICES ASSUME NEW i \in 1 .. Len(q) - 1, t[i] = q[1] PROVE FALSE
    BY <1>2 DEF ToSet
  <2>1. q[i + 1] = q[1] /\ i + 1 \in DOMAIN q /\ 1 \in DOMAIN q
    BY <1>1, <1>2
  <2>2. i + 1 = 1
    BY <2>1 DEF Distinct
  <2> QED BY <2>2
<1> QED BY <1>1, <1>3, <1>4, <1>e DEF t

(* A queue of distinct events and a new one.                               *)
LEMMA DistinctAppend ==
  ASSUME NEW S, NEW q \in Seq(S), NEW e \in S, Distinct(q), e \notin ToSet(q)
  PROVE  Distinct(Append(q, e))
<1> DEFINE a == Append(q, e)
<1>1. /\ a \in Seq(S) /\ Len(a) = Len(q) + 1 /\ Len(q) \in Nat
      /\ \A i \in 1 .. Len(q) : a[i] = q[i]
      /\ a[Len(q) + 1] = e
  BY AppendProperties, LenProperties
<1>2. DOMAIN a = 1 .. Len(q) + 1 /\ DOMAIN q = 1 .. Len(q)
  BY <1>1, LenProperties
<1> HIDE DEF a
<1>3. \A i \in 1 .. Len(q) : q[i] # e
  BY <1>2 DEF ToSet
<1>4. \A i, j \in 1 .. Len(q) : q[i] = q[j] => i = j
  BY <1>2 DEF Distinct
<1>5. \A i \in 1 .. Len(q) + 1 : i = Len(q) + 1 \/ i \in 1 .. Len(q)
  BY <1>1
<1>6. \A i, j \in 1 .. Len(q) + 1 : a[i] = a[j] => i = j
  BY <1>1, <1>3, <1>4, <1>5
<1> QED BY <1>2, <1>6 DEF Distinct, a

(* Two queues without a common event, put together.                        *)
LEMMA DistinctConcat ==
  ASSUME NEW S, NEW p \in Seq(S), NEW q \in Seq(S), Distinct(p), Distinct(q),
         ToSet(p) \cap ToSet(q) = {}
  PROVE  Distinct(p \o q)
<1> DEFINE c == p \o q
<1>1. /\ c \in Seq(S) /\ Len(c) = Len(p) + Len(q) /\ Len(p) \in Nat /\ Len(q) \in Nat
      /\ \A i \in 1 .. Len(p) + Len(q) : c[i] = IF i <= Len(p) THEN p[i] ELSE q[i - Len(p)]
  BY ConcatProperties, LenProperties
<1>2. DOMAIN c = 1 .. Len(p) + Len(q) /\ DOMAIN p = 1 .. Len(p) /\ DOMAIN q = 1 .. Len(q)
  BY <1>1, LenProperties
<1> HIDE DEF c
<1>3. \A i \in 1 .. Len(p), j \in 1 .. Len(q) : p[i] # q[j]
  BY <1>2 DEF ToSet
<1>4. SUFFICES ASSUME NEW i \in 1 .. Len(p) + Len(q), NEW j \in 1 .. Len(p) + Len(q), c[i] = c[j]
               PROVE  i = j
  BY <1>2 DEF Distinct, c
<1>5. CASE i <= Len(p) /\ j <= Len(p)
  <2>1. p[i] = p[j] /\ i \in DOMAIN p /\ j \in DOMAIN p
    BY <1>1, <1>2, <1>4, <1>5
  <2> QED BY <2>1 DEF Distinct
<1>6. CASE ~ (i <= Len(p)) /\ ~ (j <= Len(p))
  <2>1. q[i - Len(p)] = q[j - Len(p)] /\ i - Len(p) \in DOMAIN q /\ j - Len(p) \in DOMAIN q
    BY <1>1, <1>2, <1>4, <1>6
  <2>2. i - Len(p) = j - Len(p)
    BY <2>1 DEF Distinct
  <2> QED BY <2>2, <1>1
<1>7. CASE i <= Len(p) /\ ~ (j <= Len(p))
  <2>1. i \in 1 .. Len(p) /\ j - Len(p) \in 1 .. Len(q) /\ p[i] = q[j - Len(p)]
    BY <1>1, <1>4, <1>7
  <2> QED BY <2>1, <1>3
<1>8. CASE ~ (i <= Len(p)) /\ j <= Len(p)
  <2>1. j \in 1 .. Len(p) /\ i - Len(p) \in 1 .. Len(q) /\ p[j] = q[i - Len(p)]
    BY <1>1, <1>4, <1>8
  <2> QED BY <2>1, <1>3
<1> QED BY <1>5, <1>6, <1>7, <1>8, <1>1

-----------------------------------------------------------------------------
(* Induction from 0 to n: what holds for 0 and is handed on has no         *)
(* counterexample.                                                         *)
LEMMA Climb ==
  ASSUME NEW n \in Nat, NEW T, T \subseteq 0 .. n, 0 \notin T,
         \A k \in 1 .. n : k - 1 \notin T => k \notin T
  PROVE  T = {}
<1> SUFFICES ASSUME T # {} PROVE FALSE
  OBVIOUS
<1>1. T \subseteq Nat
  OBVIOUS
<1>2. PICK k \in T : \A m \in T : k <= m
  BY <1>1, Least
<1>3. k \in 1 .. n /\ k - 1 \notin T
  <2>1. k \in 0 .. n /\ k # 0
    OBVIOUS
  <2>2. k - 1 \in Nat /\ ~ (k <= k - 1)
    BY <2>1
  <2> QED BY <1>2, <2>1, <2>2
<1> QED BY <1>3

(* The last of some positions.                                             *)
LEMMA Greatest ==
  ASSUME NEW n \in Nat, NEW s \in SUBSET (1 .. n), s # {}
  PROVE  Max(s) \in s /\ \A x \in s : x <= Max(s)
<1> DEFINE T == {n - x : x \in s}
<1>1. T \subseteq Nat /\ T # {}
  <2>1. \A x \in s : x \in 1 .. n /\ n - x \in Nat
    OBVIOUS
  <2> QED BY <2>1
<1>2. PICK m \in T : \A y \in T : m <= y
  <2> HIDE DEF T
  <2> QED BY <1>1, Least
<1>3. PICK x \in s : m = n - x
  BY <1>2
<1>4. \A y \in s : x >= y
  <2> TAKE y \in s
  <2>1. n - x <= n - y
    BY <1>2, <1>3
  <2> QED BY <2>1
<1>5. \E z \in s : \A y \in s : z >= y
  BY <1>4
<1>6. Max(s) \in s /\ \A y \in s : Max(s) >= y
  BY <1>5 DEF Max
<1> QED BY <1>6

(* A fold over the positions of a sequence, the last one outermost: g maps *)
(* a set of positions to what the fold makes of them.                      *)
Folds(g, b, h, D) ==
  \A s \in D : g[s] = IF s = {} THEN b ELSE h[Max(s)][g[s \ {Max(s)}]]

LEMMA FoldExists ==
  ASSUME NEW n \in Nat, NEW V, NEW b \in V, NEW h \in [1 .. n -> [V -> V]]
  PROVE  \E g \in [SUBSET (1 .. n) -> V] : Folds(g, b, h, SUBSET (1 .. n))
<1> DEFINE Made(k) == \E g \in [SUBSET (1 .. k) -> V] : Folds(g, b, h, SUBSET (1 .. k))
           T == {k \in 0 .. n : ~ Made(k)}
<1>1. Made(0)
  <2> DEFINE g == [s \in SUBSET (1 .. 0) |-> b]
  <2>1. 1 .. 0 = {}
    OBVIOUS
  <2>2. g \in [SUBSET (1 .. 0) -> V] /\ Folds(g, b, h, SUBSET (1 .. 0))
    BY <2>1 DEF Folds
  <2> QED BY <2>2
<1>2. ASSUME NEW k \in 1 .. n, Made(k - 1) PROVE Made(k)
  <2>1. PICK g \in [SUBSET (1 .. k - 1) -> V] : Folds(g, b, h, SUBSET (1 .. k - 1))
    BY <1>2
  <2>2. PICK f : f = [s \in SUBSET (1 .. k) |-> IF k \in s THEN h[k][g[s \ {k}]] ELSE g[s]]
    OBVIOUS
  <2>3. ASSUME NEW s \in SUBSET (1 .. k)
        PROVE  /\ k \notin s => s \in SUBSET (1 .. k - 1)
               /\ s \ {k} \in SUBSET (1 .. k - 1)
    OBVIOUS
  <2>4. f \in [SUBSET (1 .. k) -> V]
    <3>1. ASSUME NEW s \in SUBSET (1 .. k) PROVE f[s] \in V
      <4>1. CASE k \in s
        <5>1. g[s \ {k}] \in V
          BY <2>3
        <5> QED BY <2>2, <4>1, <5>1
      <4>2. CASE k \notin s
        BY <2>2, <2>3, <4>2
      <4> QED BY <4>1, <4>2
    <3> QED BY <2>2, <3>1
  <2>5. ASSUME NEW s \in SUBSET (1 .. k), s # {}
        PROVE  f[s] = h[Max(s)][f[s \ {Max(s)}]]
    <3>1. Max(s) \in s /\ \A x \in s : x <= Max(s)
      <4>1. k \in Nat
        OBVIOUS
      <4> QED BY <2>5, <4>1, Greatest
    <3>2. CASE k \in s
      <4>1. Max(s) = k
        <5>1. k <= Max(s) /\ Max(s) \in 1 .. k
          BY <3>1, <3>2
        <5> QED BY <5>1
      <4>2. f[s \ {k}] = g[s \ {k}]
        BY <2>2
      <4> QED BY <2>2, <3>2, <4>1, <4>2
    <3>3. CASE k \notin s
      <4>1. s \in SUBSET (1 .. k - 1) /\ s \ {Max(s)} \in SUBSET (1 .. k)
        BY <2>3, <3>3
      <4>2. f[s] = g[s] /\ f[s \ {Max(s)}] = g[s \ {Max(s)}]
        BY <2>2, <3>3, <4>1
      <4> QED BY <2>1, <2>5, <4>1, <4>2 DEF Folds
    <3> QED BY <3>2, <3>3
  <2>6. f[{}] = b
    <3>1. {} \in SUBSET (1 .. k) /\ {} \in SUBSET (1 .. k - 1) /\ k \notin {}
      OBVIOUS
    <3>2. f[{}] = g[{}]
      BY <2>2, <3>1
    <3> QED BY <2>1, <3>1, <3>2 DEF Folds
  <2>7. Folds(f, b, h, SUBSET (1 .. k))
    BY <2>5, <2>6 DEF Folds
  <2> QED BY <2>4, <2>7
<1> HIDE DEF Made
<1>3. T = {}
  <2>1. T \subseteq 0 .. n /\ 0 \notin T
    BY <1>1
  <2>2. \A k \in 1 .. n : k - 1 \notin T => k \notin T
    BY <1>2
  <2> HIDE DEF T
  <2> QED BY <2>1, <2>2, Climb
<1>4. Made(n)
  BY <1>3
<1> QED BY <1>4 DEF Made

(* Of the first k positions the last is k.                                 *)
LEMMA LastOf ==
  ASSUME NEW n \in Nat, NEW k \in 1 .. n
  PROVE  /\ 1 .. k \in SUBSET (1 .. n) /\ 1 .. k # {}
         /\ Max(1 .. k) = k /\ (1 .. k) \ {k} = 1 .. k - 1
<1>1. 1 .. k \in SUBSET (1 .. n) /\ 1 .. k # {} /\ (1 .. k) \ {k} = 1 .. k - 1 /\ k \in 1 .. k
  OBVIOUS
<1>2. Max(1 .. k) \in 1 .. k /\ k <= Max(1 .. k)
  BY <1>1, Greatest
<1>3. Max(1 .. k) = k
  BY <1>2
<1> QED BY <1>1, <1>3

(* Two sequences joined.                                                   *)
Glued(r, b, t) ==
  /\ Len(r) \in Nat /\ Len(b) \in Nat /\ Len(t) = Len(r) + Len(b)
  /\ \A p \in 1 .. Len(r) : t[p] = r[p]
  /\ \A p \in 1 .. Len(b) : t[Len(r) + p] = b[p]
LEMMA JoinTwo ==
  ASSUME NEW V, NEW r \in Seq(V), NEW b \in Seq(V)
  PROVE  Glued(r, b, r \o b)
<1>0. PICK t : t = r \o b
  OBVIOUS
<1>1. Len(r) \in Nat /\ Len(b) \in Nat
  OBVIOUS
<1>2. /\ Len(t) = Len(r) + Len(b)
      /\ \A i \in 1 .. Len(r) + Len(b) : t[i] = IF i <= Len(r) THEN r[i] ELSE b[i - Len(r)]
  BY <1>0, ConcatProperties
<1>3. PICK m : m = Len(r)
  OBVIOUS
<1>4. PICK n : n = Len(b)
  OBVIOUS
<1>5. ASSUME NEW p \in 1 .. n PROVE t[m + p] = b[p]
  <2>1. m + p \in 1 .. m + n /\ ~ (m + p <= m) /\ m + p - m = p
    BY <1>1, <1>3, <1>4
  <2> QED BY <1>2, <1>3, <1>4, <2>1
<1>6. \A p \in 1 .. m : p \in 1 .. m + n /\ p <= m
  BY <1>1, <1>3, <1>4
<1> QED BY <1>0, <1>1, <1>2, <1>3, <1>4, <1>5, <1>6 DEF Glued

(* Sequences joined one after another: where the elements of each come to  *)
(* be.                                                                     *)
RowAt(t, s, b) == \A p \in 1 .. Len(b) : t[s + p] = b[p]
RowsPlaced(R, S, B, m) ==
  /\ Len(R[m]) = S[m]
  /\ \A k \in 1 .. m : S[k - 1] + Len(B[k]) <= S[m] /\ RowAt(R[m], S[k - 1], B[k])
LEMMA JoinAt ==
  ASSUME NEW n \in Nat, NEW V, NEW B \in [1 .. n -> Seq(V)], NEW R \in [0 .. n -> Seq(V)],
         R[0] = <<>>, \A k \in 1 .. n : R[k] = R[k - 1] \o B[k],
         NEW S \in [0 .. n -> Nat], S[0] = 0, \A k \in 1 .. n : S[k] = S[k - 1] + Len(B[k])
  PROVE  \A m \in 0 .. n : RowsPlaced(R, S, B, m)
<1> DEFINE Right(m) == RowsPlaced(R, S, B, m)
           T == {m \in 0 .. n : ~ Right(m)}
<1>1. Right(0)
  BY DEF RowsPlaced
<1>2. ASSUME NEW m \in 1 .. n, Right(m - 1) PROVE Right(m)
  <2>1. PICK r \in Seq(V) : r = R[m - 1]
    <3>1. m - 1 \in 0 .. n
      OBVIOUS
    <3> QED BY <3>1
  <2>2. PICK t \in Seq(V) : t = R[m]
    <3>1. m \in 0 .. n
      OBVIOUS
    <3> QED BY <3>1
  <2>3. PICK a \in Nat : a = S[m - 1]
    <3>1. m - 1 \in 0 .. n
      OBVIOUS
    <3> QED BY <3>1
  <2>4. /\ t = r \o B[m] /\ Len(r) = a /\ B[m] \in Seq(V) /\ S[m] = a + Len(B[m])
        /\ \A k \in 1 .. m - 1 : S[k - 1] + Len(B[k]) <= a /\ RowAt(r, S[k - 1], B[k])
    BY <1>2, <2>1, <2>2, <2>3 DEF RowsPlaced
  <2>5. PICK c \in Nat : c = Len(B[m])
    BY <2>4
  <2>6. /\ Len(t) = a + c
        /\ \A p \in 1 .. a : t[p] = r[p]
        /\ RowAt(t, a, B[m])
    <3>1. PICK b \in Seq(V) : b = B[m]
      BY <2>4
    <3>2. /\ Len(t) = a + c
          /\ \A p \in 1 .. a : t[p] = r[p]
          /\ \A p \in 1 .. Len(b) : t[a + p] = b[p]
      <4>1. t = r \o b /\ Len(r) = a /\ Len(b) = c
        BY <2>4, <2>5, <3>1
      <4>2. Glued(r, b, t)
        BY <4>1, JoinTwo
      <4> QED BY <4>1, <4>2 DEF Glued
    <3> QED BY <3>1, <3>2 DEF RowAt
  <2>7. ASSUME NEW k \in 1 .. m
        PROVE  S[k - 1] + Len(B[k]) <= a + c /\ RowAt(t, S[k - 1], B[k])
    <3>1. CASE k = m
      <4>1. S[k - 1] = a /\ Len(B[k]) = c /\ RowAt(t, a, B[k])
        BY <2>3, <2>5, <2>6, <3>1
      <4> QED BY <4>1
    <3>2. CASE k # m
      <4>1. k \in 1 .. m - 1 /\ k - 1 \in 0 .. n /\ k \in 1 .. n
        BY <3>2
      <4>2. PICK x \in Nat : x = S[k - 1]
        BY <4>1
      <4>3. PICK b \in Seq(V) : b = B[k]
        BY <4>1
      <4>4. PICK y \in Nat : y = Len(b)
        OBVIOUS
      <4>5. x + y <= a /\ RowAt(r, x, b)
        BY <2>4, <4>1, <4>2, <4>3, <4>4
      <4>6. ASSUME NEW p \in 1 .. y PROVE t[x + p] = b[p]
        <5>1. x + p \in 1 .. a
          BY <4>5
        <5> QED BY <2>6, <4>4, <4>5, <5>1 DEF RowAt
      <4>7. RowAt(t, x, b) /\ x + y <= a + c
        BY <4>4, <4>5, <4>6 DEF RowAt
      <4> QED BY <4>2, <4>3, <4>4, <4>7
    <3> QED BY <3>1, <3>2
  <2> QED BY <2>2, <2>4, <2>5, <2>6, <2>7 DEF RowsPlaced
<1> HIDE DEF Right
<1>3. T = {}
  <2>1. T \subseteq 0 .. n /\ 0 \notin T
    BY <1>1
  <2>2. \A k \in 1 .. n : k - 1 \notin T => k \notin T
    BY <1>2
  <2> HIDE DEF T
  <2> QED BY <2>1, <2>2, Climb
<1>4. \A m \in 0 .. n : Right(m)
  BY <1>3
<1> QED BY <1>4 DEF Right

(* Each position below a sum is in one of the summands.                    *)
LEMMA SumCovers ==
  ASSUME NEW n \in Nat, NEW S \in [0 .. n -> Nat], S[0] = 0, NEW q \in Nat, q < S[n]
  PROVE  \E k \in 1 .. n : S[k - 1] <= q /\ q < S[k]
<1> DEFINE T == {k \in 0 .. n : q < S[k]}
<1>1. T \subseteq Nat /\ T # {}
  OBVIOUS
<1>2. PICK k \in T : \A m \in T : k <= m
  <2> HIDE DEF T
  <2> QED BY <1>1, Least
<1>3. k \in 1 .. n /\ k - 1 \in 0 .. n /\ k - 1 \notin T
  BY <1>2
<1>4. S[k - 1] <= q /\ q < S[k]
  BY <1>2, <1>3
<1> QED BY <1>3, <1>4

(* Sequences joined one after another, as a fold does it.                  *)
JoinMade(t, n, B) ==
  t = [s \in SUBSET (1 .. n) |-> IF s = {} THEN <<>> ELSE t[s \ {Max(s)}] \o B[Max(s)]]
RowsJoined(R, n, V, B) == /\ R \in [0 .. n -> Seq(V)] /\ R[0] = <<>>
                          /\ \A k \in 1 .. n : R[k] = R[k - 1] \o B[k]

Rows(n, V) == [1 .. n -> Seq(V)]
LEMMA JoinExists ==
  ASSUME NEW n \in Nat, NEW V, NEW B \in Rows(n, V)
  PROVE  \E g : JoinMade(g, n, B)
<1>1. PICK W : W = Seq(V)
  OBVIOUS
<1>2. <<>> \in W /\ \A k \in 1 .. n, v \in W : v \o B[k] \in W
  BY <1>1 DEF Rows
<1>3. PICK h : h = [k \in 1 .. n |-> [v \in W |-> v \o B[k]]]
  OBVIOUS
<1>4. h \in [1 .. n -> [W -> W]]
  BY <1>2, <1>3
<1>5. PICK g \in [SUBSET (1 .. n) -> W] : Folds(g, <<>>, h, SUBSET (1 .. n))
  BY <1>2, <1>4, FoldExists
<1>6. ASSUME NEW s \in SUBSET (1 .. n), s # {} PROVE g[s] = g[s \ {Max(s)}] \o B[Max(s)]
  <2>1. Max(s) \in 1 .. n
    BY <1>6, Greatest
  <2>2. g[s \ {Max(s)}] \in W
    OBVIOUS
  <2>3. g[s] = h[Max(s)][g[s \ {Max(s)}]]
    BY <1>5, <1>6 DEF Folds
  <2> QED BY <1>3, <2>1, <2>2, <2>3
<1>7. {} \in SUBSET (1 .. n)
  OBVIOUS
<1>8. g[{}] = <<>>
  BY <1>5, <1>7 DEF Folds
<1>9. JoinMade(g, n, B)
  BY <1>6, <1>8 DEF JoinMade
<1> QED BY <1>9

LEMMA JoinSteps ==
  ASSUME NEW n \in Nat, NEW V, NEW B \in Rows(n, V), NEW t, JoinMade(t, n, B)
  PROVE  \E R : RowsJoined(R, n, V, B) /\ R[n] = t[1 .. n]
<1>1. PICK W : W = Seq(V)
  OBVIOUS
<1>2. <<>> \in W /\ \A k \in 1 .. n, v \in W : v \o B[k] \in W
  BY <1>1 DEF Rows
<1>3. PICK R : R = [k \in 0 .. n |-> t[1 .. k]]
  OBVIOUS
<1>4. R[0] = <<>>
  <2>1. 1 .. 0 = {} /\ {} \in SUBSET (1 .. n) /\ 0 \in 0 .. n
    OBVIOUS
  <2>2. t[{}] = <<>>
    BY <2>1 DEF JoinMade
  <2> QED BY <1>3, <2>1, <2>2
<1>5. ASSUME NEW k \in 1 .. n PROVE R[k] = R[k - 1] \o B[k]
  <2>1. /\ 1 .. k \in SUBSET (1 .. n) /\ 1 .. k # {}
        /\ Max(1 .. k) = k /\ (1 .. k) \ {k} = 1 .. k - 1
    BY LastOf
  <2>2. t[1 .. k] = t[1 .. k - 1] \o B[k]
    BY <2>1 DEF JoinMade
  <2>3. k \in 0 .. n /\ k - 1 \in 0 .. n
    OBVIOUS
  <2> QED BY <1>3, <2>2, <2>3
<1>6. \A k \in 0 .. n : R[k] \in W
  <2> DEFINE T == {k \in 0 .. n : R[k] \notin W}
  <2> SUFFICES T = {}
    OBVIOUS
  <2>1. T \subseteq 0 .. n /\ 0 \notin T
    BY <1>2, <1>4
  <2>2. \A k \in 1 .. n : k - 1 \notin T => k \notin T
    <3> SUFFICES ASSUME NEW k \in 1 .. n, k - 1 \notin T PROVE R[k] \in W
      OBVIOUS
    <3>1. k - 1 \in 0 .. n
      OBVIOUS
    <3>2. R[k - 1] \in W
      BY <3>1
    <3> QED BY <1>2, <1>5, <3>2
  <2> HIDE DEF T
  <2> QED BY <2>1, <2>2, Climb
<1>7. RowsJoined(R, n, V, B)
  BY <1>1, <1>3, <1>4, <1>5, <1>6 DEF RowsJoined
<1>8. R[n] = t[1 .. n]
  BY <1>3
<1> QED BY <1>7, <1>8

(* What is joined of equal pieces in equal places is equal.                *)
RowSums(S, n, B) == /\ S \in [0 .. n -> Nat] /\ S[0] = 0
                    /\ \A k \in 1 .. n : S[k] = S[k - 1] + Len(B[k])
RowsAmong(B, C, n, m, S, P) ==
  \A i \in 1 .. n : \E k \in 1 .. m : S[i - 1] = P[k - 1] /\ B[i] = C[k]
LEMMA SameRows ==
  ASSUME NEW V, NEW n \in Nat, NEW m \in Nat, NEW B \in Rows(n, V), NEW C \in Rows(m, V),
         NEW R, NEW Q, RowsJoined(R, n, V, B), RowsJoined(Q, m, V, C),
         NEW S, NEW P, RowSums(S, n, B), RowSums(P, m, C), RowsAmong(B, C, n, m, S, P), S[n] = P[m]
  PROVE  R[n] = Q[m]
<1> /\ S \in [0 .. n -> Nat] /\ S[0] = 0 /\ \A k \in 1 .. n : S[k] = S[k - 1] + Len(B[k])
    /\ P \in [0 .. m -> Nat] /\ P[0] = 0 /\ \A k \in 1 .. m : P[k] = P[k - 1] + Len(C[k])
    /\ \A i \in 1 .. n : \E k \in 1 .. m : S[i - 1] = P[k - 1] /\ B[i] = C[k]
  BY DEF RowSums, RowsAmong
<1>1. RowsPlaced(R, S, B, n)
  <2>1. n \in 0 .. n
    OBVIOUS
  <2>2. \A k \in 0 .. n : RowsPlaced(R, S, B, k)
    BY JoinAt DEF RowsJoined, Rows
  <2> QED BY <2>1, <2>2
<1>2. RowsPlaced(Q, P, C, m)
  <2>1. m \in 0 .. m
    OBVIOUS
  <2>2. \A k \in 0 .. m : RowsPlaced(Q, P, C, k)
    BY JoinAt DEF RowsJoined, Rows
  <2> QED BY <2>1, <2>2
<1>3. PICK r \in Seq(V) : r = R[n]
  <2>1. n \in 0 .. n
    OBVIOUS
  <2> QED BY <2>1 DEF RowsJoined
<1>4. PICK q \in Seq(V) : q = Q[m]
  <2>1. m \in 0 .. m
    OBVIOUS
  <2> QED BY <2>1 DEF RowsJoined
<1>5. PICK l \in Nat : l = S[n]
  <2>1. n \in 0 .. n
    OBVIOUS
  <2> QED BY <2>1
<1>6. Len(r) = l /\ Len(q) = l
  BY <1>1, <1>2, <1>3, <1>4, <1>5 DEF RowsPlaced
<1>7. ASSUME NEW x \in 1 .. l PROVE r[x] = q[x]
  <2>1. PICK i \in 1 .. n : S[i - 1] <= x - 1 /\ x - 1 < S[i]
    <3>1. x - 1 \in Nat /\ x - 1 < S[n]
      BY <1>5
    <3> QED BY <3>1, SumCovers
  <2>2. PICK k \in 1 .. m : S[i - 1] = P[k - 1] /\ B[i] = C[k]
    OBVIOUS
  <2>3. PICK b \in Seq(V) : b = B[i]
    BY DEF Rows
  <2>4. PICK s \in Nat : s = S[i - 1]
    <3>1. i - 1 \in 0 .. n
      OBVIOUS
    <3> QED BY <3>1
  <2>5. S[i] = s + Len(b) /\ Len(b) \in Nat
    BY <2>3, <2>4
  <2>6. x - s \in 1 .. Len(b) /\ x = s + (x - s)
    <3>1. PICK y \in Nat : y = Len(b)
      BY <2>5
    <3>2. s <= x - 1 /\ x - 1 < s + y
      BY <2>1, <2>4, <2>5, <3>1
    <3>3. x - s \in 1 .. y /\ x = s + (x - s)
      BY ONLY s \in Nat, y \in Nat, l \in Nat, x \in 1 .. l, <3>2
    <3> QED BY <3>1, <3>3
  <2>7. RowAt(r, s, b) /\ RowAt(q, s, b)
    BY <1>1, <1>2, <1>3, <1>4, <2>2, <2>3, <2>4 DEF RowsPlaced
  <2>8. r[s + (x - s)] = b[x - s] /\ q[s + (x - s)] = b[x - s]
    BY <2>6, <2>7 DEF RowAt
  <2> QED BY <2>6, <2>8
<1>8. r = q
  BY <1>6, <1>7, SeqEqual
<1> QED BY <1>3, <1>4, <1>8
=============================================================================
