---------------------------- MODULE StartupProofs ----------------------------
(***************************************************************************)
(* That the nodes read from topology.json what the control plane reads,    *)
(* that what is sent to a node arrives there, and that a row of the        *)
(* dashboard shows the process of that row: for every file, as far as its  *)
(* words and numbers let that be, and however many control planes were     *)
(* started.                                                                *)
(*                                                                         *)
(* Most of it is about the text.  At(s, i, a) says that a stands in s      *)
(* after its first i tokens; from it follows where the searches of the     *)
(* second reader stop.  What is recursive (flattening, the scan of an      *)
(* array) is settled by least counterexamples: sets of naturals have a     *)
(* least member, and one that fails first cannot fail.                     *)
(***************************************************************************)
EXTENDS Startup, SequenceTheorems, WellFoundedInduction, TLAPS

-----------------------------------------------------------------------------
(* Sequences: what stands where in a flattened one. *)

(* A set of naturals with a member has a least one. *)
LEMMA Least ==
  ASSUME NEW S \in SUBSET Nat, S # {}
  PROVE  \E x \in S : \A y \in S : x <= y
<1> DEFINE R == {ss \in Nat \X Nat : ss[1] < ss[2]}
<1>1. IsWellFoundedOn(R, Nat)
  BY NatLessThanWellFounded, Zenon DEF OpToRel
<1>2. PICK x \in S : \A y \in S : ~ (<<y, x>> \in R)
  <2> HIDE DEF R
  <2> QED
    BY <1>1, WFMin
<1>3. ASSUME NEW y \in S PROVE x <= y
  <2>1. x \in Nat /\ y \in Nat /\ ~ (y < x)
    BY <1>2
  <2> QED
    BY <2>1
<1> QED
  BY <1>3

(* The sequence a stands in s after the first i elements. *)
At(s, i, a) ==
  /\ i \in Nat /\ i + Len(a) <= Len(s)
  /\ \A j \in 1 .. Len(a) : s[i + j] = a[j]

(* What stands in a part of a sequence stands in the sequence. *)
LEMMA AtWithin ==
  ASSUME NEW s, NEW i, NEW b, NEW j, NEW a, At(s, i, b), At(b, j, a),
         Len(s) \in Nat, Len(b) \in Nat, Len(a) \in Nat
  PROVE  At(s, i + j, a)
<1>1. ASSUME NEW k \in 1 .. Len(a) PROVE s[(i + j) + k] = a[k]
  <2>1. j + k \in 1 .. Len(b) /\ i + (j + k) = (i + j) + k
    BY DEF At
  <2> QED
    BY <2>1 DEF At
<1> QED
  BY <1>1 DEF At

(* Both parts of a concatenation stand in it. *)
LEMMA ConcatAt ==
  ASSUME NEW T, NEW a \in Seq(T), NEW b \in Seq(T)
  PROVE  /\ a \o b \in Seq(T) /\ Len(a \o b) = Len(a) + Len(b)
         /\ At(a \o b, 0, a) /\ At(a \o b, Len(a), b)
<1>1. /\ a \o b \in Seq(T) /\ Len(a \o b) = Len(a) + Len(b)
      /\ Len(a) \in Nat /\ Len(b) \in Nat
      /\ \A i \in 1 .. Len(a) + Len(b) :
           (a \o b)[i] = IF i <= Len(a) THEN a[i] ELSE b[i - Len(a)]
  BY ConcatProperties, LenProperties
<1> DEFINE c == a \o b
<1> HIDE DEF c
<1>2. ASSUME NEW i \in 1 .. Len(a) PROVE c[0 + i] = a[i]
  BY <1>1 DEF c
<1>3. ASSUME NEW i \in 1 .. Len(b) PROVE c[Len(a) + i] = b[i]
  <2>1. Len(a) + i \in 1 .. Len(a) + Len(b) /\ (Len(a) + i) - Len(a) = i
        /\ ~ (Len(a) + i <= Len(a))
    BY <1>1
  <2> QED
    BY <1>1, <2>1 DEF c
<1> QED
  BY <1>1, <1>2, <1>3 DEF At, c

(* The flattened prefixes of a sequence of sequences. *)
Flattens(ss, n, F) ==
  /\ DOMAIN F = 0 .. n /\ F[0] = <<>>
  /\ \A k \in 1 .. n : F[k] = F[k - 1] \o ss[k]

(* Any sequence of sequences can be flattened, one prefix after another. *)
LEMMA FlatteningExists ==
  ASSUME NEW ss, NEW n \in Nat
  PROVE  \E F : Flattens(ss, n, F)
<1> DEFINE S == {m \in Nat : ~ \E F : Flattens(ss, m, F)}
<1> SUFFICES ASSUME S # {} PROVE FALSE
  OBVIOUS
<1>1. PICK m \in S : \A i \in S : m <= i
  <2> HIDE DEF S
  <2>1. S \in SUBSET Nat
    BY DEF S
  <2> QED
    BY <2>1, Least
<1>2. m # 0
  <2>1. Flattens(ss, 0, [k \in 0 .. 0 |-> <<>>])
    BY DEF Flattens
  <2> QED
    BY <1>1, <2>1
<1>3. m - 1 \in Nat /\ m - 1 \notin S /\ m \in Nat \ {0}
  BY <1>1, <1>2
<1>4. PICK F : Flattens(ss, m - 1, F)
  BY <1>3
<1> DEFINE G == [k \in 0 .. m |-> IF k = m THEN F[m - 1] \o ss[m] ELSE F[k]]
<1>5. DOMAIN G = 0 .. m /\ G[0] = <<>>
  BY <1>3, <1>4 DEF Flattens
<1>6. ASSUME NEW k \in 1 .. m PROVE G[k] = G[k - 1] \o ss[k]
  <2>1. CASE k = m
    BY <1>3, <2>1
  <2>2. CASE k # m
    <3>1. k \in 1 .. m - 1 /\ k - 1 \in 0 .. m - 1 /\ k - 1 # m /\ k - 1 \in 0 .. m
      BY <1>3, <2>2
    <3> QED
      BY <1>4, <2>2, <3>1 DEF Flattens
  <2> QED
    BY <2>1, <2>2
<1> HIDE DEF G
<1>7. Flattens(ss, m, G)
  BY <1>5, <1>6 DEF Flattens
<1> QED
  BY <1>1, <1>7

(* A flattened prefix has only elements of its parts. *)
LEMMA FlatteningTyped ==
  ASSUME NEW S, NEW ss, NEW n \in Nat, NEW F, Flattens(ss, n, F),
         NEW m \in 0 .. n, \A k \in 1 .. m : ss[k] \in Seq(S)
  PROVE  F[m] \in Seq(S)
<1> DEFINE D == {k \in 0 .. m : F[k] \notin Seq(S)}
<1> SUFFICES ASSUME D # {} PROVE FALSE
  OBVIOUS
<1>1. PICK k \in D : \A i \in D : k <= i
  <2>1. D \in SUBSET Nat
    OBVIOUS
  <2> HIDE DEF D
  <2> QED
    BY <2>1, Least
<1>2. k # 0
  BY <1>1, EmptySeq DEF Flattens
<1>3. k \in 1 .. m /\ k - 1 \in 0 .. m /\ k - 1 \notin D /\ k \in 1 .. n
  BY <1>1, <1>2
<1>4. F[k - 1] \in Seq(S) /\ ss[k] \in Seq(S) /\ F[k] = F[k - 1] \o ss[k]
  BY <1>3 DEF Flattens
<1>5. F[k - 1] \o ss[k] \in Seq(S)
  BY <1>4, ConcatProperties
<1> QED
  BY <1>1, <1>4, <1>5

(* FlattenSeq is the last prefix. *)
LEMMA FlattenIsLast ==
  ASSUME NEW S, NEW ss \in Seq(Seq(S))
  PROVE  \E F : Flattens(ss, Len(ss), F) /\ FlattenSeq(ss) = F[Len(ss)]
<1> DEFINE n == Len(ss)
<1>1. n \in Nat /\ \A k \in 1 .. n : ss[k] \in Seq(S)
  BY LenProperties, ElementOfSeq
<1>2. PICK F : Flattens(ss, n, F)
  BY <1>1, FlatteningExists
<1>3. CASE n = 0
  <2>1. ss = <<>> /\ FlattenSeq(ss) = ss
    BY <1>3, EmptySeq DEF FlattenSeq
  <2> QED
    BY <1>2, <1>3, <2>1 DEF Flattens
<1>4. CASE n # 0
  <2> DEFINE Step(f) == [i \in 1 .. n |-> IF i = 1 THEN ss[i] ELSE f[i - 1] \o ss[i]]
             H == [i \in 1 .. n |-> F[i]]
             f0 == CHOOSE f : f = Step(f)
  <2>1. FlattenSeq(ss) = f0[n]
    BY <1>1, <1>4 DEF FlattenSeq
  <2>2. ASSUME NEW i \in 1 .. n
        PROVE  F[i] = IF i = 1 THEN ss[i] ELSE H[i - 1] \o ss[i]
    <3>1. F[i] = F[i - 1] \o ss[i] /\ ss[i] \in Seq(S)
      BY <1>1, <1>2 DEF Flattens
    <3>2. CASE i = 1
      <4>1. F[i - 1] = <<>>
        BY <1>2, <3>2 DEF Flattens
      <4>2. <<>> \o ss[i] = ss[i]
        BY <3>1, ConcatEmptySeq
      <4> QED
        BY <3>1, <3>2, <4>1, <4>2
    <3>3. CASE i # 1
      <4>1. i - 1 \in 1 .. n
        BY <1>1, <3>3
      <4>2. H[i - 1] = F[i - 1]
        BY <4>1
      <4> QED
        BY <3>1, <3>3, <4>2
    <3> QED
      BY <3>2, <3>3
  <2>3. H = Step(H)
    BY <2>2
  <2>4. f0 = Step(f0)
    <3> HIDE DEF H, Step
    <3> QED
      BY <2>3
  <2> DEFINE G == Step(f0)
             K == [k \in 0 .. n |-> IF k = 0 THEN <<>> ELSE f0[k]]
  <2>5. f0 = G
    BY <2>4
  <2>6. \A i \in 1 .. n : f0[i] = IF i = 1 THEN ss[i] ELSE f0[i - 1] \o ss[i]
    <3> HIDE DEF f0
    <3>1. \A i \in 1 .. n : G[i] = IF i = 1 THEN ss[i] ELSE f0[i - 1] \o ss[i]
      OBVIOUS
    <3> HIDE DEF G
    <3> QED
      BY <2>5, <3>1
  <2> HIDE DEF f0, G
  <2>7. ASSUME NEW k \in 1 .. n PROVE K[k] = K[k - 1] \o ss[k]
    <3>1. CASE k = 1
      BY <1>1, <2>6, <3>1, ConcatEmptySeq
    <3>2. CASE k # 1
      <4>1. k - 1 \in 0 .. n /\ k - 1 # 0 /\ k \in 0 .. n /\ k # 0
        BY <1>1, <3>2
      <4>2. K[k - 1] = f0[k - 1] /\ K[k] = f0[k]
        BY <4>1
      <4> QED
        BY <2>6, <3>2, <4>2
    <3> QED
      BY <3>1, <3>2
  <2>8. DOMAIN K = 0 .. n /\ K[0] = <<>> /\ K[n] = f0[n]
    BY <1>1, <1>4
  <2> HIDE DEF K
  <2>9. Flattens(ss, n, K)
    BY <2>7, <2>8 DEF Flattens
  <2> QED
    BY <2>1, <2>8, <2>9
<1> QED
  BY <1>3, <1>4

(* So has the flattened sequence. *)
LEMMA FlattenTyped ==
  ASSUME NEW S, NEW ss \in Seq(Seq(S))
  PROVE  FlattenSeq(ss) \in Seq(S)
<1>1. PICK F : Flattens(ss, Len(ss), F) /\ FlattenSeq(ss) = F[Len(ss)]
  BY FlattenIsLast
<1>2. Len(ss) \in Nat /\ Len(ss) \in 0 .. Len(ss) /\ \A k \in 1 .. Len(ss) : ss[k] \in Seq(S)
  BY LenProperties, ElementOfSeq
<1> QED
  BY <1>1, <1>2, FlatteningTyped

(* Where the prefixes stand in the whole, and each part after its prefix. *)
LEMMA PrefixAt ==
  ASSUME NEW T, NEW ss, NEW n \in Nat, NEW F, Flattens(ss, n, F),
         \A j \in 1 .. n : ss[j] \in Seq(T), NEW k \in 0 .. n
  PROVE  At(F[n], 0, F[k])
<1> DEFINE D == {m \in Nat : m \in k .. n /\ ~ At(F[m], 0, F[k])}
<1>1. \A m \in 0 .. n : F[m] \in Seq(T) /\ Len(F[m]) \in Nat
  BY FlatteningTyped, LenProperties
<1>2. D = {}
  <2> SUFFICES ASSUME D # {} PROVE FALSE
    OBVIOUS
  <2>1. PICK m \in D : \A i \in D : m <= i
    <3>1. D \in SUBSET Nat
      OBVIOUS
    <3> HIDE DEF D
    <3> QED
      BY <3>1, Least
  <2>2. m \in k .. n /\ ~ At(F[m], 0, F[k])
    BY <2>1
  <2>3. m # k
    BY <1>1, <2>2 DEF At
  <2>4. m - 1 \in k .. n /\ m - 1 \notin D /\ m - 1 \in Nat /\ m \in 1 .. n
    <3>1. m - 1 \in k .. n /\ ~ (m <= m - 1) /\ m - 1 \in Nat /\ m \in 1 .. n
      BY <2>2, <2>3
    <3> HIDE DEF D
    <3> QED
      BY <2>1, <3>1
  <2>5. At(F[m - 1], 0, F[k])
    BY <2>4
  <2>6. F[m] = F[m - 1] \o ss[m] /\ F[m - 1] \in Seq(T) /\ ss[m] \in Seq(T)
    <3>1. m - 1 \in 0 .. n
      BY <2>4
    <3> QED
      BY <1>1, <2>4, <3>1 DEF Flattens
  <2>7. At(F[m], 0, F[m - 1])
    BY <2>6, ConcatAt
  <2>8. At(F[m], 0 + 0, F[k])
    <3>1. m - 1 \in 0 .. n /\ m \in 0 .. n
      BY <2>4
    <3> QED
      BY <1>1, <2>5, <2>7, <3>1, AtWithin
  <2> QED
    BY <2>2, <2>8
<1>3. n \in k .. n
  OBVIOUS
<1> QED
  BY <1>2, <1>3

(* A part stands after the prefix before it. *)
LEMMA PartAt ==
  ASSUME NEW T, NEW ss, NEW n \in Nat, NEW F, Flattens(ss, n, F),
         \A j \in 1 .. n : ss[j] \in Seq(T), NEW k \in 1 .. n
  PROVE  /\ At(F[n], Len(F[k - 1]), ss[k])
         /\ Len(F[k]) = Len(F[k - 1]) + Len(ss[k])
<1>1. \A m \in 0 .. n : F[m] \in Seq(T) /\ Len(F[m]) \in Nat
  BY FlatteningTyped, LenProperties
<1>2. k - 1 \in 0 .. n /\ k \in 0 .. n /\ n \in 0 .. n
  OBVIOUS
<1>3. F[k] = F[k - 1] \o ss[k] /\ ss[k] \in Seq(T) /\ Len(ss[k]) \in Nat
  BY LenProperties DEF Flattens
<1>4. At(F[k], Len(F[k - 1]), ss[k]) /\ Len(F[k]) = Len(F[k - 1]) + Len(ss[k])
  BY <1>1, <1>2, <1>3, ConcatAt
<1>5. At(F[n], 0, F[k])
  BY <1>2, PrefixAt
<1>6. At(F[n], 0 + Len(F[k - 1]), ss[k])
  BY <1>1, <1>2, <1>3, <1>4, <1>5, AtWithin
<1>7. 0 + Len(F[k - 1]) = Len(F[k - 1])
  BY <1>1, <1>2
<1> QED
  BY <1>4, <1>6, <1>7

(* The parts of a flattened sequence follow one another. *)
LEMMA FlattenPlaces ==
  ASSUME NEW T, NEW ss \in Seq(Seq(T))
  PROVE  \E o \in [1 .. Len(ss) + 1 -> Nat] :
           /\ o[1] = 0 /\ o[Len(ss) + 1] = Len(FlattenSeq(ss))
           /\ \A k \in 1 .. Len(ss) :
                o[k + 1] = o[k] + Len(ss[k]) /\ At(FlattenSeq(ss), o[k], ss[k])
<1>1. PICK F : Flattens(ss, Len(ss), F) /\ FlattenSeq(ss) = F[Len(ss)]
  BY FlattenIsLast
<1> DEFINE n == Len(ss)
<1>2. n \in Nat /\ \A j \in 1 .. n : ss[j] \in Seq(T)
  BY LenProperties, ElementOfSeq
<1> DEFINE o == [k \in 1 .. n + 1 |-> Len(F[k - 1])]
<1>3. \A m \in 0 .. n : Len(F[m]) \in Nat
  BY <1>1, <1>2, FlatteningTyped, LenProperties
<1>4. o \in [1 .. n + 1 -> Nat]
  <2>1. \A k \in 1 .. n + 1 : k - 1 \in 0 .. n
    BY <1>2
  <2> QED
    BY <1>3, <2>1
<1>5. o[1] = 0 /\ o[n + 1] = Len(FlattenSeq(ss))
  <2>1. F[0] = <<>> /\ F[n] = FlattenSeq(ss) /\ (n + 1) - 1 = n /\ 1 - 1 = 0
    BY <1>1, <1>2 DEF Flattens
  <2>2. 1 \in 1 .. n + 1 /\ n + 1 \in 1 .. n + 1
    BY <1>2
  <2> QED
    BY <2>1, <2>2, EmptySeq
<1>6. ASSUME NEW k \in 1 .. n
      PROVE  o[k + 1] = o[k] + Len(ss[k]) /\ At(FlattenSeq(ss), o[k], ss[k])
  <2>1. k \in 1 .. n + 1 /\ k + 1 \in 1 .. n + 1 /\ (k + 1) - 1 = k
    BY <1>2
  <2>2. o[k] = Len(F[k - 1]) /\ o[k + 1] = Len(F[k])
    BY <2>1
  <2>3. At(F[Len(ss)], Len(F[k - 1]), ss[k])
    BY <1>1, <1>2, PartAt
  <2>4. Len(F[k]) = Len(F[k - 1]) + Len(ss[k])
    <3>1. k - 1 \in 0 .. Len(ss) /\ \A j \in 1 .. k - 1 : ss[j] \in Seq(T)
      BY <1>2
    <3>2. F[k - 1] \in Seq(T) /\ ss[k] \in Seq(T)
      BY <1>1, <1>2, <3>1, FlatteningTyped
    <3>3. F[k] = F[k - 1] \o ss[k]
      BY <1>1 DEF Flattens
    <3> HIDE DEF n, o
    <3> QED
      BY <3>2, <3>3, ConcatProperties
  <2> QED
    BY <1>1, <2>2, <2>3, <2>4
<1> QED
  BY <1>4, <1>5, <1>6

(* A part of a flattened sequence, with what comes before it. *)
LEMMA FlattenPart ==
  ASSUME NEW T, NEW S, NEW ss \in Seq(Seq(T)), NEW k \in 1 .. Len(ss),
         \A j \in 1 .. k - 1 : ss[j] \in Seq(S)
  PROVE  \E i \in Nat : /\ At(FlattenSeq(ss), i, ss[k])
                        /\ \A x \in 1 .. i : FlattenSeq(ss)[x] \in S
<1>1. PICK F : Flattens(ss, Len(ss), F) /\ FlattenSeq(ss) = F[Len(ss)]
  BY FlattenIsLast
<1>2. Len(ss) \in Nat /\ \A j \in 1 .. Len(ss) : ss[j] \in Seq(T)
  BY LenProperties, ElementOfSeq
<1>3. k - 1 \in 0 .. Len(ss)
  BY <1>2
<1>4. F[k - 1] \in Seq(S) /\ Len(F[k - 1]) \in Nat
  BY <1>1, <1>2, <1>3, FlatteningTyped, LenProperties
<1>5. At(F[Len(ss)], Len(F[k - 1]), ss[k])
  BY <1>1, <1>2, PartAt
<1>6. At(F[Len(ss)], 0, F[k - 1])
  BY <1>1, <1>2, <1>3, PrefixAt
<1>7. ASSUME NEW x \in 1 .. Len(F[k - 1]) PROVE F[Len(ss)][x] \in S
  <2>1. F[Len(ss)][0 + x] = F[k - 1][x] /\ 0 + x = x /\ F[k - 1][x] \in S
    BY <1>4, <1>6, ElementOfSeq DEF At
  <2> QED
    BY <2>1
<1> QED
  BY <1>1, <1>4, <1>5, <1>7

-----------------------------------------------------------------------------
(* std::string::find, and the recursion of for_each_object_in_array. *)

(* The provers do not know the names the file uses to be strings. *)
Spelled == STRING \cup {"nodes", "edges", "description", "id", "port", "role", "from", "to"}

Token == {LBrace, RBrace, LBrack, RBrack, Colon}
           \cup {Str(k) : k \in Spelled} \cup {Num(v) : v \in Int}
           \cup ({"str", "mark"} \X STRING)

Brackets == {LBrace, RBrace, LBrack, RBrack}

(* A member no greater than any other is the minimum. *)
LEMMA MinIs ==
  ASSUME NEW S \in SUBSET Int, NEW x \in S, \A y \in S : x <= y
  PROVE  Min(S) = x
<1> DEFINE First(y) == y \in S /\ \A z \in S : y <= z
<1>1. First(x)
  OBVIOUS
<1>3. ASSUME NEW y, First(y) PROVE y = x
  <2>1. x \in Int /\ y \in Int /\ x <= y /\ y <= x
    BY <1>3
  <2> QED
    BY <2>1
<1>2. Min(S) = CHOOSE y : First(y)
  BY DEF Min
<1> HIDE DEF First
<1> QED
  BY <1>1, <1>2, <1>3

(* What std::string::find returns is settled by what it passes over. *)
LEMMA FindIs ==
  ASSUME NEW s, Len(s) \in Nat, NEW t, NEW p \in Nat, NEW i \in p .. NPos(s),
         i # NPos(s) => s[i] = t, \A j \in p .. i - 1 : s[j] # t
  PROVE  Find(s, t, p) = i
<1> DEFINE S == {j \in p .. Len(s) : s[j] = t} \cup {NPos(s)}
<1>1. NPos(s) = Len(s) + 1
  BY DEF NPos
<1>2. S \in SUBSET Int /\ i \in S
  BY <1>1
<1>3. ASSUME NEW y \in S PROVE i <= y
  BY <1>1
<1> HIDE DEF S
<1>4. Min(S) = i
  BY <1>2, <1>3, MinIs
<1> QED
  BY <1>4 DEF Find, S

(* What find returns is a place of t, or npos (topology.h:63-70). *)
LEMMA FindRange ==
  ASSUME NEW s, Len(s) \in Nat, NEW t, NEW p \in 1 .. NPos(s)
  PROVE  /\ Find(s, t, p) \in p .. NPos(s)
         /\ Find(s, t, p) # NPos(s) => s[Find(s, t, p)] = t
<1> DEFINE S == {j \in p .. Len(s) : s[j] = t} \cup {NPos(s)}
<1>1. NPos(s) = Len(s) + 1
  BY DEF NPos
<1>2. S \in SUBSET Nat /\ S # {} /\ S \subseteq p .. NPos(s)
  BY <1>1
<1> HIDE DEF S
<1>3. PICK x \in S : \A y \in S : x <= y
  BY <1>2, Least
<1>4. Min(S) = x
  BY <1>2, <1>3, MinIs
<1>5. x # NPos(s) => s[x] = t
  BY <1>3 DEF S
<1> QED
  BY <1>2, <1>3, <1>4, <1>5 DEF Find, S

(* What the recursion of for_each_object_in_array asks of a solution at p. *)
Open(s, p)  == Find(s, LBrace, p)
Close(s, p) == Find(s, RBrace, Open(s, p))

Entry(s, rbrack, f, p) ==
  IF ~ Inside(s, Open(s, p), rbrack) THEN <<>>
  ELSE IF ~ Inside(s, Close(s, p), rbrack) THEN << <<>> >>
  ELSE <<SubSeq(s, Open(s, p), Close(s, p))>> \o f[Close(s, p) + 1]

Scan(s, rbrack, q, f) == [p \in q .. NPos(s) |-> Entry(s, rbrack, f, p)]

(* An entry depends on later ones only. *)
LEMMA EntryDepends ==
  ASSUME NEW s, Len(s) \in Nat, NEW rbrack, NEW f, NEW g, NEW p \in 1 .. NPos(s),
         \A x \in p + 1 .. NPos(s) : f[x] = g[x]
  PROVE  Entry(s, rbrack, f, p) = Entry(s, rbrack, g, p)
<1>1. NPos(s) = Len(s) + 1
  BY DEF NPos
<1>2. Open(s, p) \in p .. NPos(s)
  BY FindRange DEF Open
<1>3. Open(s, p) \in 1 .. NPos(s)
  BY <1>1, <1>2
<1>4. Close(s, p) \in Open(s, p) .. NPos(s)
  BY <1>3, FindRange DEF Close
<1>5. Close(s, p) # NPos(s) => Close(s, p) + 1 \in p + 1 .. NPos(s)
  BY <1>1, <1>2, <1>4
<1> QED
  BY <1>5 DEF Entry, Inside

(* The recursion has a solution, so that the one chosen is one. *)
LEMMA ScanExists ==
  ASSUME NEW s, Len(s) \in Nat, NEW rbrack
  PROVE  \E f : f = Scan(s, rbrack, 1, f)
<1> DEFINE M == NPos(s)
           D == {k \in Nat : k <= M /\ ~ \E f : f = Scan(s, rbrack, M + 1 - k, f)}
<1>1. M \in Nat
  BY DEF NPos
<1>2. D = {}
  <2> SUFFICES ASSUME D # {} PROVE FALSE
    OBVIOUS
  <2>1. PICK k \in D : \A i \in D : k <= i
    <3>1. D \in SUBSET Nat
      OBVIOUS
    <3> HIDE DEF D
    <3> QED
      BY <3>1, Least
  <2>2. k \in 0 .. M
    BY <1>1, <2>1
  <2>3. k # 0
    <3> DEFINE e == [p \in M + 1 .. M |-> 0]
    <3>1. e = Scan(s, rbrack, M + 1, e)
      <4>1. M + 1 .. M = {}
        BY <1>1
      <4> HIDE DEF e
      <4>2. DOMAIN e = M + 1 .. M
        BY DEF e
      <4> QED
        BY <4>1 DEF Scan, e
    <3>2. M + 1 - 0 = M + 1
      BY <1>1
    <3> QED
      BY <2>1, <3>1, <3>2
  <2> DEFINE q == M + 1 - k
  <2>4. q \in 1 .. M /\ k - 1 \in 0 .. M /\ M + 1 - (k - 1) = q + 1
    BY <1>1, <2>2, <2>3
  <2>5. k - 1 \notin D
    <3>1. ~ (k <= k - 1)
      BY <2>2
    <3> HIDE DEF D
    <3> QED
      BY <2>1, <3>1
  <2>6. PICK f : f = Scan(s, rbrack, q + 1, f)
    BY <1>1, <2>4, <2>5
  <2> DEFINE g == [p \in q .. M |-> IF p = q THEN Entry(s, rbrack, f, q) ELSE f[p]]
  <2> HIDE DEF D, q
  <2>7. ASSUME NEW p \in q .. M PROVE g[p] = Entry(s, rbrack, f, p)
    <3>1. CASE p = q
      BY <3>1
    <3>2. CASE p # q
      <4>1. p \in q + 1 .. M
        BY <1>1, <2>4, <3>2
      <4> DEFINE h == Scan(s, rbrack, q + 1, f)
      <4>2. h[p] = Entry(s, rbrack, f, p)
        BY <4>1 DEF Scan
      <4>3. f[p] = h[p]
        BY <2>6
      <4> HIDE DEF h
      <4> QED
        BY <3>2, <4>2, <4>3
    <3> QED
      BY <3>1, <3>2
  <2>8. ASSUME NEW p \in q .. M PROVE Entry(s, rbrack, f, p) = Entry(s, rbrack, g, p)
    <3>1. p \in 1 .. NPos(s) /\ \A x \in p + 1 .. M : x \in q .. M /\ x # q
      BY <1>1, <2>4
    <3>2. \A x \in p + 1 .. NPos(s) : f[x] = g[x]
      BY <3>1
    <3> HIDE DEF g, M
    <3> QED
      BY <3>1, <3>2, EntryDepends
  <2>9. g = Scan(s, rbrack, q, g)
    <3> DEFINE G == Scan(s, rbrack, q, g)
    <3>1. \A p \in q .. M : g[p] = Entry(s, rbrack, g, p)
      BY <2>7, <2>8
    <3> HIDE DEF g
    <3>2. DOMAIN g = q .. M /\ g = [p \in q .. M |-> g[p]]
      BY DEF g
    <3> QED
      BY <3>1, <3>2 DEF Scan
  <2> QED
    BY <2>1, <2>9 DEF q, D
<1>3. M \notin D /\ M + 1 - M = 1
  BY <1>1, <1>2
<1> QED
  BY <1>1, <1>3

-----------------------------------------------------------------------------
(* The objects of one array. *)

(* An object as the library's reader and the other both see it: braces with *)
(* no bracket between them.                                                 *)
IsObject(o) ==
  /\ o \in Seq(Token) /\ Len(o) >= 2
  /\ o[1] = LBrace /\ o[Len(o)] = RBrace
  /\ \A i \in 2 .. Len(o) - 1 : o[i] \notin Brackets

(* No bracket is another one, nor a colon. *)
LEMMA MarksDiffer ==
  /\ LBrace # RBrace /\ LBrace # LBrack /\ LBrace # RBrack
  /\ RBrace # LBrack /\ RBrace # RBrack /\ LBrack # RBrack
  /\ Colon # LBrack /\ Colon # RBrack
  /\ Colon \notin Brackets
  /\ LBrace \in Brackets /\ RBrace \in Brackets
  /\ LBrack \in Brackets /\ RBrack \in Brackets
<1>1. "{" # "}" /\ "{" # "[" /\ "{" # "]" /\ "}" # "[" /\ "}" # "]" /\ "[" # "]"
      /\ ":" # "[" /\ ":" # "]" /\ ":" # "{" /\ ":" # "}"
  BY Zenon
<1>2. ASSUME NEW c, NEW d, c # d PROVE Mark(c) # Mark(d)
  BY <1>2 DEF Mark
<1> QED
  BY <1>1, <1>2, Zenon DEF LBrace, RBrace, LBrack, RBrack, Colon, Brackets

(* No quoted name is a bracket or a colon. *)
LEMMA StringsDiffer ==
  ASSUME NEW k
  PROVE  /\ Colon # Str(k) /\ LBrack # Str(k) /\ RBrack # Str(k)
         /\ LBrace # Str(k) /\ RBrace # Str(k)
<1>1. \A c : Mark(c) # Str(k)
  BY DEF Mark, Str
<1> QED
  BY <1>1, Zenon DEF LBrace, RBrace, LBrack, RBrack, Colon

IsText(s)     == s \in Seq(Token)
AreObjects(os) == os \in Seq(Seq(Token)) /\ \A k \in 1 .. Len(os) : IsObject(os[k])

(* A text has a length, and npos lies past it. *)
LEMMA TextLength ==
  ASSUME NEW s, IsText(s)
  PROVE  Len(s) \in Nat /\ NPos(s) = Len(s) + 1 /\ \A j \in 1 .. Len(s) : s[j] \in Token
  BY LenProperties, ElementOfSeq DEF IsText, NPos

(* What IsObject says, without the set of all sequences. *)
LEMMA ObjectLength ==
  ASSUME NEW o, IsObject(o)
  PROVE  /\ IsText(o) /\ Len(o) \in Nat /\ 2 <= Len(o)
         /\ o[1] = LBrace /\ o[Len(o)] = RBrace
         /\ \A i \in 2 .. Len(o) - 1 : o[i] \notin Brackets
  BY LenProperties DEF IsObject, IsText

(* An object at p, p passed over for an opening brace. *)
LEMMA ObjectFound ==
  ASSUME NEW s, IsText(s), NEW o, IsObject(o), NEW i \in Nat, At(s, i, o),
         NEW p \in 1 .. i + 1, \A j \in p .. i : s[j] # LBrace
  PROVE  /\ Open(s, p) = i + 1 /\ Close(s, p) = i + Len(o)
         /\ i + Len(o) <= Len(s)
         /\ SubSeq(s, i + 1, i + Len(o)) = o
<1>1. /\ Len(s) \in Nat /\ Len(o) \in Nat /\ 2 <= Len(o) /\ NPos(s) = Len(s) + 1
      /\ i + Len(o) <= Len(s)
  BY TextLength, ObjectLength DEF At
<1>2. \A j \in 1 .. Len(o) : s[i + j] = o[j]
  BY DEF At
<1>3. Open(s, p) = i + 1
  <2>1. s[i + 1] = LBrace /\ i + 1 \in p .. NPos(s)
    BY <1>1, <1>2, ObjectLength
  <2>2. \A j \in p .. (i + 1) - 1 : s[j] # LBrace
    OBVIOUS
  <2> QED
    BY <1>1, <2>1, <2>2, FindIs DEF Open
<1>4. Close(s, p) = i + Len(o)
  <2>1. s[i + Len(o)] = RBrace /\ i + Len(o) \in i + 1 .. NPos(s) /\ i + 1 \in Nat
    BY <1>1, <1>2, ObjectLength
  <2>2. ASSUME NEW j \in i + 1 .. i + Len(o) - 1 PROVE s[j] # RBrace
    <3>1. j - i \in 1 .. Len(o) - 1 /\ s[i + (j - i)] = o[j - i] /\ i + (j - i) = j
      BY <1>1, <1>2
    <3>2. o[j - i] # RBrace
      <4>1. CASE j - i = 1
        BY <4>1, MarksDiffer, ObjectLength
      <4>2. CASE j - i # 1
        BY <1>1, <3>1, <4>2, MarksDiffer, ObjectLength
      <4> QED
        BY <4>1, <4>2
    <3> QED
      BY <3>1, <3>2
  <2> QED
    BY <1>1, <1>3, <2>1, <2>2, FindIs DEF Close
<1>5. SubSeq(s, i + 1, i + Len(o)) = o
  <2> DEFINE u == SubSeq(s, i + 1, i + Len(o))
  <2>1. \A j \in i + 1 .. i + Len(o) : s[j] \in Token
    BY <1>1, TextLength
  <2>2. /\ u \in Seq(Token)
        /\ Len(u) = IF i + 1 <= i + Len(o) THEN (i + Len(o)) - (i + 1) + 1 ELSE 0
        /\ \A j \in 1 .. (i + Len(o)) - (i + 1) + 1 : u[j] = s[(i + 1) + j - 1]
    <3>1. i + 1 \in Int /\ i + Len(o) \in Int
      BY <1>1
    <3> QED
      BY <2>1, <3>1, SubSeqProperties
  <2>3. Len(u) = Len(o)
    BY <1>1, <2>2
  <2>4. ASSUME NEW j \in 1 .. Len(u) PROVE u[j] = o[j]
    <3>1. j \in 1 .. (i + Len(o)) - (i + 1) + 1 /\ (i + 1) + j - 1 = i + j /\ j \in 1 .. Len(o)
      BY <1>1, <2>3
    <3> HIDE DEF u
    <3> QED
      BY <1>2, <2>2, <3>1
  <2>5. o \in Seq(Token)
    BY ObjectLength DEF IsText
  <2> HIDE DEF u
  <2>6. u = o
    BY <2>2, <2>3, <2>4, <2>5, SeqEqual
  <2> QED
    BY <2>6 DEF u
<1> QED
  BY <1>1, <1>3, <1>4, <1>5

(* No object holds the bracket that closes the array. *)
LEMMA ObjectsHaveNoEnd ==
  ASSUME NEW os, AreObjects(os)
  PROVE  /\ Len(FlattenSeq(os)) \in Nat
         /\ \A j \in 1 .. Len(FlattenSeq(os)) : FlattenSeq(os)[j] # RBrack
<1> DEFINE T == Token \ {RBrack}
<1>1. \A o : IsObject(o) => o \in Seq(T)
  <2> SUFFICES ASSUME NEW o, IsObject(o) PROVE o \in Seq(T)
    OBVIOUS
  <2>1. ASSUME NEW i \in 1 .. Len(o) PROVE o[i] \in T
    <3>1. o[i] \in Token
      BY ObjectLength, TextLength
    <3>2. CASE i = 1
      BY <3>1, <3>2, MarksDiffer, ObjectLength
    <3>3. CASE i = Len(o)
      BY <3>1, <3>3, MarksDiffer, ObjectLength
    <3>4. CASE i # 1 /\ i # Len(o)
      <4>1. i \in 2 .. Len(o) - 1
        BY <3>4, ObjectLength
      <4> QED
        BY <3>1, <4>1, MarksDiffer, ObjectLength
    <3> QED
      BY <3>2, <3>3, <3>4
  <2>2. o \in Seq(Token)
    BY ObjectLength DEF IsText
  <2> QED
    BY <2>1, <2>2, LenProperties
<1>2. os \in Seq(Seq(T))
  BY <1>1, LenProperties DEF AreObjects
<1>3. FlattenSeq(os) \in Seq(T)
  BY <1>2, FlattenTyped
<1> QED
  BY <1>3, LenProperties, ElementOfSeq

(* A solution of the recursion, and a stretch without an opening brace. *)
IsScan(s, rbrack, W) == \A x \in 1 .. NPos(s) : W[x] = Entry(s, rbrack, W, x)
NoBrace(s, p, i)     == \A j \in p .. i : s[j] # LBrace
OneMore(W, p, o, q)  == W[p] = <<o>> \o W[q]

(* One object more: what the recursion gives at a place from which the next *)
(* brace opens the object o.                                                *)
LEMMA ScanStep ==
  ASSUME NEW s, IsText(s), NEW rbrack \in 1 .. Len(s), NEW W,
         IsScan(s, rbrack, W),
         NEW o, IsObject(o), NEW i \in Nat, At(s, i, o), i + Len(o) < rbrack,
         NEW p \in 1 .. i + 1, NoBrace(s, p, i)
  PROVE  OneMore(W, p, o, i + Len(o) + 1)
<1>1. Len(s) \in Nat /\ NPos(s) = Len(s) + 1 /\ Len(o) \in Nat /\ 2 <= Len(o)
  BY TextLength, ObjectLength
<1>2. /\ Open(s, p) = i + 1 /\ Close(s, p) = i + Len(o)
      /\ SubSeq(s, i + 1, i + Len(o)) = o
  <2>1. \A j \in p .. i : s[j] # LBrace
    BY DEF NoBrace
  <2> QED
    BY <2>1, ObjectFound
<1>3. Inside(s, i + 1, rbrack) /\ Inside(s, i + Len(o), rbrack) /\ p \in 1 .. NPos(s)
  BY <1>1 DEF Inside
<1>4. W[p] = Entry(s, rbrack, W, p)
  BY <1>3 DEF IsScan
<1> QED
  BY <1>2, <1>3, <1>4, Zenon DEF Entry, OneMore

(* No object more: past the last one, up to the closing bracket. *)
LEMMA ScanEnd ==
  ASSUME NEW s, IsText(s), NEW rbrack \in 1 .. Len(s), s[rbrack] = RBrack, NEW W,
         IsScan(s, rbrack, W),
         NEW p \in 1 .. rbrack, NoBrace(s, p, rbrack - 1)
  PROVE  W[p] = <<>>
<1>1. Len(s) \in Nat /\ NPos(s) = Len(s) + 1 /\ p \in 1 .. NPos(s)
  BY TextLength
<1>2. Open(s, p) \in p .. NPos(s) /\ (Open(s, p) # NPos(s) => s[Open(s, p)] = LBrace)
  BY <1>1, FindRange DEF Open
<1>3. ~ Inside(s, Open(s, p), rbrack)
  <2> SUFFICES ASSUME Open(s, p) # NPos(s), Open(s, p) <= rbrack PROVE FALSE
    BY DEF Inside
  <2>1. Open(s, p) # rbrack
    BY <1>2, MarksDiffer
  <2>2. Open(s, p) \in p .. rbrack - 1
    BY <1>1, <1>2, <2>1
  <2> QED
    BY <1>2, <2>2 DEF NoBrace
<1> QED
  BY <1>1, <1>3 DEF Entry, IsScan

(* The recursion, started at the opening bracket, gives all of them. *)
LEMMA ScanGives ==
  ASSUME NEW s, IsText(s), NEW os, AreObjects(os),
         NEW l \in 1 .. Len(s), s[l] # LBrace, At(s, l, FlattenSeq(os)),
         NEW rbrack \in 1 .. Len(s), rbrack = l + Len(FlattenSeq(os)) + 1,
         s[rbrack] = RBrack, NEW W,
         IsScan(s, rbrack, W)
  PROVE  W[l] = os
<1> DEFINE n == Len(os)
           b == FlattenSeq(os)
<1>1. n \in Nat /\ \A k \in 1 .. n : IsObject(os[k])
  BY LenProperties DEF AreObjects
<1>2. PICK o \in [1 .. n + 1 -> Nat] :
        /\ o[1] = 0 /\ o[n + 1] = Len(b)
        /\ \A k \in 1 .. n : o[k + 1] = o[k] + Len(os[k]) /\ At(b, o[k], os[k])
  BY FlattenPlaces DEF AreObjects
<1>3. Len(b) \in Nat /\ Len(s) \in Nat /\ NPos(s) = Len(s) + 1
  BY ObjectsHaveNoEnd, TextLength
<1> HIDE DEF n, b
<1>4. \A k \in 1 .. n + 1 : o[k] \in Nat
  BY <1>2
<1> DEFINE From(x) == SubSeq(os, x, n)
           Good(x) == \A p \in 1 .. l + o[x] + 1 :
                        NoBrace(s, p, l + o[x]) => W[p] = From(x)
           D == {i \in Nat : i <= n /\ ~ Good(n + 1 - i)}
<1>5. Good(n + 1)
  <2>1. l + o[n + 1] + 1 = rbrack /\ l + o[n + 1] = rbrack - 1
    BY <1>2, <1>3 DEF b
  <2>2. From(n + 1) = <<>>
    BY <1>1, SubSeqEmpty
  <2> HIDE DEF From
  <2> QED
    BY <2>1, <2>2, ScanEnd
<1>6. ASSUME NEW k \in 1 .. n, Good(k + 1) PROVE Good(k)
  <2> HIDE DEF D, From
  <2> SUFFICES ASSUME NEW p \in 1 .. l + o[k] + 1, NoBrace(s, p, l + o[k])
               PROVE  W[p] = From(k)
    OBVIOUS
  <2> DEFINE m == Len(os[k])
             c == o[k]
  <2>1. c \in Nat /\ o[k + 1] = c + m /\ At(b, c, os[k]) /\ IsObject(os[k])
    BY <1>1, <1>2, <1>4
  <2>2. m \in Nat /\ 2 <= m
    BY <2>1, ObjectLength
  <2>3. c + m <= Len(b)
    BY <2>1 DEF At
  <2>4. p \in 1 .. (l + c) + 1 /\ NoBrace(s, p, l + c)
    OBVIOUS
  <2>5. At(s, l + c, os[k])
    <3>1. At(s, l, b)
      BY DEF b
    <3> QED
      BY <1>3, <2>1, <2>2, <3>1, AtWithin
  <2>6. \A q \in 1 .. l + (c + m) + 1 :
          NoBrace(s, q, l + (c + m)) => W[q] = From(k + 1)
    BY <1>6, <2>1
  <2> HIDE DEF Good, c
  <2>7. rbrack = l + Len(b) + 1
    BY DEF b
  <2>8. W[(l + c) + m + 1] = From(k + 1)
    <3> HIDE DEF m
    <3> DEFINE q == (l + c) + m + 1
    <3>1. q \in 1 .. l + (c + m) + 1 /\ NoBrace(s, q, l + (c + m))
      BY <2>1, <2>2 DEF NoBrace
    <3> HIDE DEF q
    <3>2. W[q] = From(k + 1)
      BY <2>6, <3>1
    <3> QED
      BY <3>2 DEF q
  <2>9. W[p] = <<os[k]>> \o W[(l + c) + m + 1]
    <3>1. l + c \in Nat
      BY <2>1
    <3>2. (l + c) + Len(os[k]) < rbrack
      <4> HIDE DEF m
      <4>1. (l + c) + m < rbrack
        BY <1>3, <2>1, <2>2, <2>3, <2>7
      <4> QED
        BY <4>1 DEF m
    <3> DEFINE i == l + c
    <3>4. i \in Nat /\ i + Len(os[k]) < rbrack /\ p \in 1 .. i + 1 /\ At(s, i, os[k])
          /\ NoBrace(s, p, i)
      BY <2>4, <2>5, <3>1, <3>2
    <3> HIDE DEF i
    <3>5. OneMore(W, p, os[k], i + Len(os[k]) + 1)
      BY <2>1, <3>4, ScanStep
    <3> QED
      BY <3>5 DEF i, m, OneMore
  <2>10. From(k) = <<os[k]>> \o From(k + 1)
    <3>1. n = Len(os) /\ k \in 1 .. Len(os) /\ n \in k .. Len(os)
      BY <1>1 DEF n
    <3> QED
      BY <3>1, SubSeqRecursiveFirst DEF From, AreObjects
  <2> QED
    BY <2>8, <2>9, <2>10
<1> HIDE DEF Good, From
<1>7. D = {}
  <2> SUFFICES ASSUME D # {} PROVE FALSE
    OBVIOUS
  <2>1. PICK i \in D : \A x \in D : i <= x
    <3>1. D \in SUBSET Nat
      OBVIOUS
    <3> HIDE DEF D
    <3> QED
      BY <3>1, Least
  <2>2. i \in 0 .. n /\ ~ Good(n + 1 - i)
    BY <1>1, <2>1
  <2>3. i # 0
    <3>1. n + 1 - 0 = n + 1
      BY <1>1
    <3> QED
      BY <1>5, <2>2, <3>1
  <2>4. /\ i - 1 \in 0 .. n /\ ~ (i <= i - 1) /\ n + 1 - i \in 1 .. n
        /\ n + 1 - (i - 1) = (n + 1 - i) + 1
    BY <1>1, <2>2, <2>3
  <2>5. Good(n + 1 - (i - 1))
    <3>1. i - 1 \notin D
      <4> HIDE DEF D
      <4> QED
        BY <2>1, <2>4
    <3> QED
      BY <1>1, <2>4, <3>1
  <2> QED
    BY <1>6, <2>2, <2>4, <2>5
<1>8. Good(1)
  <2>1. n \in Nat /\ n <= n /\ n + 1 - n = 1
    BY <1>1
  <2> QED
    BY <1>7, <2>1
<1>9. W[l] = From(1)
  <2>1. \A p \in 1 .. l + 0 + 1 : NoBrace(s, p, l + 0) => W[p] = From(1)
    BY <1>2, <1>8 DEF Good
  <2>2. l \in 1 .. l + 0 + 1 /\ NoBrace(s, l, l + 0)
    BY DEF NoBrace
  <2> QED
    BY <2>1, <2>2
<1>10. From(1) = os
  BY SubSeqFull DEF From, AreObjects, n
<1> QED
  BY <1>9, <1>10

(* The objects of the array under a key, when its text is what the file     *)
(* says it is: the key, a colon, the array's bracket, the objects.          *)
LEMMA ObjectsAre ==
  ASSUME NEW s, IsText(s), NEW key, NEW os, AreObjects(os),
         NEW a \in Nat, \A x \in 1 .. a : s[x] # Str(key),
         s[a + 1] = Str(key), s[a + 2] = Colon, s[a + 3] = LBrack,
         At(s, a + 3, FlattenSeq(os)),
         a + 4 + Len(FlattenSeq(os)) <= Len(s),
         s[a + 4 + Len(FlattenSeq(os))] = RBrack
  PROVE  ObjectsIn(s, key) = os
<1> DEFINE b == FlattenSeq(os)
           lbrack == a + 3
           rbrack == a + 4 + Len(b)
<1>1. Len(s) \in Nat /\ NPos(s) = Len(s) + 1
  BY TextLength
<1>2. Len(b) \in Nat /\ \A j \in 1 .. Len(b) : b[j] # RBrack
  BY ObjectsHaveNoEnd
<1>4. Find(s, Str(key), 1) = a + 1
  <2>1. a + 1 \in 1 .. NPos(s) /\ \A j \in 1 .. (a + 1) - 1 : s[j] # Str(key)
    BY <1>1, <1>2
  <2> HIDE DEF b
  <2> QED
    BY <1>1, <2>1, FindIs
<1>5. Find(s, LBrack, a + 1) = lbrack
  <2>1. /\ a + 1 \in Nat /\ lbrack \in a + 1 .. NPos(s)
        /\ \A j \in a + 1 .. lbrack - 1 : j = a + 1 \/ j = a + 2
    BY <1>1, <1>2
  <2>2. \A j \in a + 1 .. lbrack - 1 : s[j] # LBrack
    BY <2>1, MarksDiffer, StringsDiffer
  <2> HIDE DEF b
  <2> QED
    BY <1>1, <2>1, <2>2, FindIs
<1>6. /\ Find(s, RBrack, lbrack) = rbrack
      /\ rbrack \in lbrack + 1 .. Len(s) /\ s[rbrack] = RBrack
      /\ \A j \in 1 .. Len(b) : s[lbrack + j] = b[j]
  <2>1. /\ lbrack \in Nat /\ rbrack \in lbrack .. NPos(s)
        /\ rbrack \in lbrack + 1 .. Len(s) /\ s[rbrack] = RBrack
        /\ \A j \in 1 .. Len(b) : s[lbrack + j] = b[j]
    <3>1. \A j \in 1 .. Len(b) : s[lbrack + j] = b[j]
      BY DEF At
    <3>2. lbrack \in Nat /\ rbrack = lbrack + Len(b) + 1 /\ rbrack <= Len(s)
      BY <1>1, <1>2
    <3>3. s[rbrack] = RBrack
      OBVIOUS
    <3> HIDE DEF b, lbrack, rbrack
    <3>4. rbrack \in lbrack .. NPos(s) /\ rbrack \in lbrack + 1 .. Len(s)
      BY <1>1, <1>2, <3>2
    <3> QED
      BY <3>1, <3>2, <3>3, <3>4
  <2>2. ASSUME NEW j \in lbrack .. rbrack - 1 PROVE s[j] # RBrack
    <3>1. CASE j = lbrack
      BY <3>1, MarksDiffer
    <3>2. CASE j # lbrack
      <4>1. j - lbrack \in 1 .. Len(b) /\ lbrack + (j - lbrack) = j
        BY <1>2, <3>2
      <4> QED
        BY <1>2, <2>1, <4>1
    <3> QED
      BY <3>1, <3>2
  <2> HIDE DEF b, lbrack, rbrack
  <2> QED
    BY <1>1, <2>1, <2>2, FindIs
<1> DEFINE W == CHOOSE f : f = Scan(s, Find(s, RBrack, lbrack), 1, f)
<1>7. ObjectsIn(s, key) = W[lbrack]
  <2>1. ObjectsIn(s, key)
          = LET l == Find(s, LBrack, Find(s, Str(key), 1))
                r == Find(s, RBrack, l)
            IN  IF r = NPos(s) THEN << <<>> >>
                ELSE (CHOOSE f : f = Scan(s, r, 1, f))[l]
    BY DEF ObjectsIn, Scan, Entry, Open, Close
  <2>2. rbrack # NPos(s)
    BY <1>1, <1>6
  <2> HIDE DEF b, rbrack
  <2> QED
    BY <1>4, <1>5, <1>6, <2>1, <2>2
<1>8. W = Scan(s, rbrack, 1, W)
  <2>1. W = Scan(s, Find(s, RBrack, lbrack), 1, W)
    BY <1>1, ScanExists
  <2> HIDE DEF W
  <2> QED
    BY <1>6, <2>1
<1> HIDE DEF W
<1>9. IsScan(s, rbrack, W)
  <2> DEFINE V == Scan(s, rbrack, 1, W)
  <2>1. \A p \in 1 .. NPos(s) : V[p] = Entry(s, rbrack, W, p)
    BY DEF Scan
  <2> HIDE DEF V
  <2>2. W = V
    BY <1>8 DEF V
  <2> QED
    BY <2>1, <2>2, Zenon DEF IsScan
<1>10. W[lbrack] = os
  <2>1. s[lbrack] # LBrace
    BY MarksDiffer
  <2>2. lbrack \in 1 .. Len(s) /\ rbrack \in 1 .. Len(s) /\ rbrack = lbrack + Len(b) + 1
    BY <1>1, <1>2
  <2>3. s[rbrack] = RBrack /\ At(s, lbrack, b)
    BY <1>6
  <2> HIDE DEF lbrack, rbrack
  <2> QED
    BY <1>9, <2>1, <2>2, <2>3, ScanGives
<1> QED
  BY <1>7, <1>10

-----------------------------------------------------------------------------
(* One object, and the number after a key. *)

(* Three parts and nothing else. *)
Encloses(s, a, b, c) ==
  /\ Len(s) = Len(a) + Len(b) + Len(c)
  /\ At(s, 0, a) /\ At(s, Len(a), b) /\ At(s, Len(a) + Len(b), c)

(* The three parts of a concatenation of three stand in it. *)
LEMMA Enclosed ==
  ASSUME NEW T, NEW a \in Seq(T), NEW b \in Seq(T), NEW c \in Seq(T)
  PROVE  a \o b \o c \in Seq(T) /\ Encloses(a \o b \o c, a, b, c)
<1> DEFINE d == a \o b
<1>1. d \in Seq(T) /\ Len(d) = Len(a) + Len(b) /\ At(d, 0, a) /\ At(d, Len(a), b)
  BY ConcatAt
<1> HIDE DEF d
<1> DEFINE e == d \o c
<1>2. e \in Seq(T) /\ Len(e) = Len(d) + Len(c) /\ At(e, 0, d) /\ At(e, Len(d), c)
  BY <1>1, ConcatAt
<1> HIDE DEF e
<1>3. Len(a) \in Nat /\ Len(b) \in Nat /\ Len(c) \in Nat /\ Len(d) \in Nat /\ Len(e) \in Nat
  BY <1>1, <1>2, LenProperties
<1>4. At(e, 0 + 0, a) /\ At(e, 0 + Len(a), b)
  BY <1>1, <1>2, <1>3, AtWithin
<1>5. At(e, 0, a) /\ At(e, Len(a), b) /\ At(e, Len(a) + Len(b), c)
      /\ Len(e) = Len(a) + Len(b) + Len(c)
  BY <1>1, <1>2, <1>3, <1>4
<1> QED
  BY <1>2, <1>5 DEF e, d, Encloses

(* extract_int returns the number after the first place of its key          *)
(* (topology.h:38-54).                                                      *)
LEMMA ExtractIs ==
  ASSUME NEW s, IsText(s), NEW key, NEW v, NEW a \in Nat, a + 3 <= Len(s),
         \A x \in 1 .. a : s[x] # Str(key),
         s[a + 1] = Str(key), s[a + 2] = Colon, s[a + 3] = Num(v)
  PROVE  ExtractInt(s, key) = <<CInt(v)>>
<1>1. Len(s) \in Nat /\ NPos(s) = Len(s) + 1
  BY TextLength
<1>2. Find(s, Str(key), 1) = a + 1
  <2>1. a + 1 \in 1 .. NPos(s) /\ \A j \in 1 .. (a + 1) - 1 : s[j] # Str(key)
    BY <1>1
  <2> QED
    BY <1>1, <2>1, FindIs
<1>3. Find(s, Colon, a + 2) = a + 2
  <2>1. a + 2 \in a + 2 .. NPos(s) /\ a + 2 \in Nat
        /\ \A j \in a + 2 .. (a + 2) - 1 : s[j] # Colon
    BY <1>1
  <2> QED
    BY <1>1, <2>1, FindIs
<1>4. (a + 1) + 1 = a + 2 /\ (a + 2) + 1 = a + 3 /\ a + 2 < Len(s)
  BY <1>1
<1>5. s[a + 3][1] = "num" /\ s[a + 3][2] = v
  BY DEF Num
<1> QED
  BY <1>2, <1>3, <1>4, <1>5 DEF ExtractInt

Pieces(rec, keys) ==
  [i \in DOMAIN keys |-> <<Str(keys[i]), Colon>> \o Value(rec, keys[i])]

(* Three elements of a set are a sequence over it. *)
LEMMA TripleTyped ==
  ASSUME NEW S, NEW x \in S, NEW y \in S, NEW z \in S
  PROVE  <<x, y, z>> \in Seq(S) /\ Len(<<x, y, z>>) = 3
  OBVIOUS

(* One element of a set is a sequence over it. *)
LEMMA SingleTyped ==
  ASSUME NEW S, NEW x \in S
  PROVE  <<x>> \in Seq(S) /\ Len(<<x>>) = 1 /\ <<x>>[1] = x
  OBVIOUS

(* A function on 1 .. n is a sequence. *)
LEMMA FunctionIsSeq ==
  ASSUME NEW T, NEW n \in Nat, NEW f \in [1 .. n -> T]
  PROVE  f \in Seq(T) /\ Len(f) = n
  OBVIOUS

(* Two elements of a set and a sequence over it. *)
LEMMA PrefixTyped ==
  ASSUME NEW S, NEW x \in S, NEW y \in S, NEW w \in Seq(S)
  PROVE  <<x, y>> \o w \in Seq(S)
<1>1. <<x, y>> \in Seq(S)
  OBVIOUS
<1> QED
  BY <1>1, ConcatAt

(* The elements of two followed by one. *)
IsTriple(w, x, y, z) == Len(w) = 3 /\ w[1] = x /\ w[2] = y /\ w[3] = z

LEMMA PrefixOfOne ==
  ASSUME NEW x, NEW y, NEW z
  PROVE  IsTriple(<<x, y>> \o <<z>>, x, y, z)
<1> DEFINE S == {x, y, z}
           a == <<x, y>>
           b == <<z>>
           w == a \o b
<1>1. a \in Seq(S) /\ Len(a) = 2 /\ a[1] = x /\ a[2] = y
  OBVIOUS
<1>2. b \in Seq(S) /\ Len(b) = 1 /\ b[1] = z
  OBVIOUS
<1> HIDE DEF S, a, b
<1>3. Len(w) = Len(a) + Len(b) /\ At(w, 0, a) /\ At(w, Len(a), b)
  BY <1>1, <1>2, ConcatAt
<1> HIDE DEF w
<1>4. w[0 + 1] = a[1] /\ w[0 + 2] = a[2] /\ w[2 + 1] = b[1] /\ Len(w) = 3
  BY <1>1, <1>2, <1>3 DEF At
<1>5. IsTriple(w, x, y, z)
  BY <1>1, <1>2, <1>4 DEF IsTriple
<1> QED
  BY <1>5 DEF w, a, b

(* The members of an object hold only tokens of their keys and values. *)
LEMMA PiecesTyped ==
  ASSUME NEW rec, NEW Names, NEW keys \in Seq(Names), NEW S, Colon \in S,
         \A k \in Names : Str(k) \in S /\ Value(rec, k) \in Seq(S)
  PROVE  /\ Pieces(rec, keys) \in Seq(Seq(S))
         /\ Len(Pieces(rec, keys)) = Len(keys)
         /\ FlattenSeq(Pieces(rec, keys)) \in Seq(S)
<1>1. Len(keys) \in Nat /\ DOMAIN keys = 1 .. Len(keys)
      /\ \A i \in 1 .. Len(keys) : keys[i] \in Names
  BY LenProperties, ElementOfSeq
<1>2. ASSUME NEW i \in 1 .. Len(keys)
      PROVE  <<Str(keys[i]), Colon>> \o Value(rec, keys[i]) \in Seq(S)
  BY <1>1, PrefixTyped
<1>3. Pieces(rec, keys) \in [1 .. Len(keys) -> Seq(S)]
  BY <1>1, <1>2 DEF Pieces
<1>4. Pieces(rec, keys) \in Seq(Seq(S)) /\ Len(Pieces(rec, keys)) = Len(keys)
  BY <1>1, <1>3, FunctionIsSeq
<1> QED
  BY <1>4, FlattenTyped

(* So does the object, with its braces. *)
LEMMA ObjectTyped ==
  ASSUME NEW rec, NEW Names, NEW keys \in Seq(Names), NEW S,
         {Colon, LBrace, RBrace} \subseteq S,
         \A k \in Names : Str(k) \in S /\ Value(rec, k) \in Seq(S)
  PROVE  Object(rec, keys) \in Seq(S)
<1>1. FlattenSeq(Pieces(rec, keys)) \in Seq(S)
  BY PiecesTyped
<1>2. <<LBrace>> \in Seq(S) /\ <<RBrace>> \in Seq(S)
  BY SingleTyped
<1>3. <<LBrace>> \o FlattenSeq(Pieces(rec, keys)) \o <<RBrace>> \in Seq(S)
  BY <1>1, <1>2, Enclosed
<1> QED
  BY <1>3 DEF Object, Pieces

(* Names and numbers are tokens, none of them a bracket, and differ. *)
LEMMA TokensAre ==
  /\ {LBrace, RBrace, LBrack, RBrack, Colon} \subseteq Token
  /\ \A k \in Spelled : Str(k) \in Token \ Brackets
  /\ \A v \in Int : Num(v) \in Token \ Brackets
  /\ \A v, k : Num(v) # Str(k)
  /\ \A j, k : Str(j) = Str(k) => j = k
<1>1. {LBrace, RBrace, LBrack, RBrack, Colon} \subseteq Token
  BY DEF Token
<1>2. \A k \in Spelled : Str(k) \in Token
  BY Zenon DEF Token
<1>4. \A v \in Int : Num(v) \in Token
  BY Zenon DEF Token
<1>5. \A v, c : Num(v) # Mark(c)
  BY DEF Num, Mark
<1>6. \A v : Num(v) \notin Brackets
  BY <1>5, Zenon DEF Brackets, LBrace, RBrace, LBrack, RBrack
<1>7. \A k : Str(k) \notin Brackets
  BY StringsDiffer DEF Brackets
<1>8. \A v, k : Num(v) # Str(k)
  BY DEF Num, Str
<1>9. \A j, k : Str(j) = Str(k) => j = k
  BY DEF Str
<1> QED
  BY <1>1, <1>2, <1>4, <1>6, <1>7, <1>8, <1>9

(* A row is written as an object with no bracket between its braces. *)
LEMMA ObjectIs ==
  ASSUME NEW rec, NEW Names, NEW keys \in Seq(Names),
         \A k \in Names : Str(k) \in Token \ Brackets /\ Value(rec, k) \in Seq(Token \ Brackets)
  PROVE  IsObject(Object(rec, keys))
<1> DEFINE b == FlattenSeq(Pieces(rec, keys))
           a == <<LBrace>>
           c == <<RBrace>>
           o == a \o b \o c
<1>1. b \in Seq(Token)
  BY PiecesTyped, TokensAre
<1>10. b \in Seq(Token \ Brackets)
  BY PiecesTyped, TokensAre, MarksDiffer
<1>2. /\ a \in Seq(Token) /\ Len(a) = 1 /\ a[1] = LBrace
      /\ c \in Seq(Token) /\ Len(c) = 1 /\ c[1] = RBrace
  BY SingleTyped, TokensAre
<1> HIDE DEF a, b, c
<1>3. /\ o \in Seq(Token) /\ Len(o) = Len(a) + Len(b) + Len(c)
      /\ At(o, 0, a) /\ At(o, Len(a), b) /\ At(o, Len(a) + Len(b), c)
  <2>1. o \in Seq(Token) /\ Encloses(o, a, b, c)
    BY <1>1, <1>2, Enclosed
  <2> HIDE DEF o
  <2> QED
    BY <2>1 DEF Encloses
<1> HIDE DEF o
<1>4. Len(b) \in Nat /\ \A j \in 1 .. Len(b) : b[j] \notin Brackets
  BY <1>10, LenProperties, ElementOfSeq
<1>5. Len(o) = Len(b) + 2
  BY <1>2, <1>3, <1>4
<1>6. o[1] = LBrace
  <2>1. o[0 + 1] = a[1]
    BY <1>2, <1>3 DEF At
  <2> QED
    BY <1>2, <2>1
<1>7. o[Len(o)] = RBrace
  <2>1. o[(1 + Len(b)) + 1] = c[1]
    BY <1>2, <1>3, <1>4 DEF At
  <2>2. (1 + Len(b)) + 1 = Len(o)
    BY <1>4, <1>5
  <2> QED
    BY <1>2, <2>1, <2>2
<1>8. ASSUME NEW i \in 2 .. Len(o) - 1 PROVE o[i] \notin Brackets
  <2>1. i - 1 \in 1 .. Len(b) /\ 1 + (i - 1) = i
    BY <1>4, <1>5
  <2>2. o[1 + (i - 1)] = b[i - 1]
    BY <1>2, <1>3, <2>1 DEF At
  <2> QED
    BY <1>4, <2>1, <2>2
<1>9. IsObject(o)
  BY <1>3, <1>4, <1>5, <1>6, <1>7, <1>8 DEF IsObject
<1> QED
  BY <1>9 DEF o, a, b, c, Object, Pieces

-----------------------------------------------------------------------------
(* The objects and arrays as the file writes them. *)

(* A sequence without brackets is one of tokens. *)
LEMMA NoBracketSeq ==
  ASSUME NEW w \in Seq(Token \ Brackets)
  PROVE  w \in Seq(Token)
<1> DEFINE S == Token \ Brackets
<1>1. \A t \in S : t \in Token
  OBVIOUS
<1> HIDE DEF S
<1>2. w \in Seq(S)
  BY DEF S
<1>3. Len(w) \in Nat /\ \A i \in 1 .. Len(w) : w[i] \in S
  BY <1>2, LenProperties, ElementOfSeq
<1>4. w = [i \in 1 .. Len(w) |-> w[i]]
  BY <1>2
<1>5. w \in [1 .. Len(w) -> Token]
  BY <1>1, <1>3, <1>4
<1> QED
  BY <1>3, <1>5, FunctionIsSeq

(* No value of a row holds a bracket, or the name of a key. *)
NoBracketIn(rec, Names) ==
  \A k \in Names : Str(k) \in Token \ Brackets /\ Value(rec, k) \in Seq(Token \ Brackets)
NotNamed(rec, Names, key) == \A k \in Names : Value(rec, k) \in Seq(Token \ {Str(key)})
IsNumber(w, v) == w = <<Num(v)>>

(* What the reader takes from an object for a key is what the row says,     *)
(* whatever the order the members are written in.                           *)
LEMMA ObjectValue ==
  ASSUME NEW rec, NEW Names, NEW keys \in Seq(Names),
         NoBracketIn(rec, Names),
         NEW key, key \in ToSet(keys), NotNamed(rec, Names, key),
         NEW v, IsNumber(Value(rec, key), v)
  PROVE  ExtractInt(Object(rec, keys), key) = <<CInt(v)>>
<1> DEFINE P == Pieces(rec, keys)
           b == FlattenSeq(P)
           a == <<LBrace>>
           c == <<RBrace>>
           o == a \o b \o c
           S == Token \ {Str(key)}
           D == {i \in 1 .. Len(keys) : keys[i] = key}
<1>1. Len(keys) \in Nat /\ DOMAIN keys = 1 .. Len(keys)
      /\ \A i \in 1 .. Len(keys) : keys[i] \in Names
  BY LenProperties, ElementOfSeq
<1>2. PICK k \in D : \A i \in D : k <= i
  <2>1. D \in SUBSET Nat /\ D # {}
    BY <1>1 DEF ToSet
  <2> HIDE DEF D
  <2> QED
    BY <2>1, Least
<1>15. \A j \in Names : Value(rec, j) \in Seq(Token) /\ Value(rec, j) \in Seq(S)
                        /\ Str(j) \in Token
  BY NoBracketSeq DEF NoBracketIn, NotNamed
<1>3. P \in Seq(Seq(Token)) /\ Len(P) = Len(keys) /\ b \in Seq(Token)
  <2> HIDE DEF S
  <2> QED
    BY <1>15, PiecesTyped, TokensAre
<1>4. IsTriple(P[k], Str(key), Colon, Num(v))
  <2>1. P[k] = <<Str(key), Colon>> \o <<Num(v)>>
    BY <1>1, <1>2 DEF Pieces, IsNumber
  <2> QED
    BY <2>1, PrefixOfOne
<1>5. ASSUME NEW j \in 1 .. k - 1 PROVE P[j] \in Seq(S)
  <2>1. j \in 1 .. Len(keys) /\ j \notin D /\ keys[j] # key
    BY <1>1, <1>2
  <2>2. Str(keys[j]) \in S /\ Colon \in S /\ Value(rec, keys[j]) \in Seq(S)
    BY <1>1, <1>15, <2>1, TokensAre, StringsDiffer
  <2>3. <<Str(keys[j]), Colon>> \o Value(rec, keys[j]) \in Seq(S)
    <3> HIDE DEF S
    <3> QED
      BY <2>2, PrefixTyped
  <2>4. P[j] = <<Str(keys[j]), Colon>> \o Value(rec, keys[j])
    BY <1>1, <2>1 DEF Pieces
  <2> QED
    BY <2>3, <2>4
<1>6. PICK i \in Nat : At(b, i, P[k]) /\ \A x \in 1 .. i : b[x] \in S
  <2>1. k \in 1 .. Len(P)
    BY <1>2, <1>3
  <2> HIDE DEF P, S
  <2> QED
    BY <1>3, <1>5, <2>1, FlattenPart
<1>7. a \in Seq(Token) /\ Len(a) = 1 /\ a[1] = LBrace /\ c \in Seq(Token) /\ Len(c) = 1
  BY SingleTyped, TokensAre
<1> HIDE DEF P, a, b, c
<1>8. o \in Seq(Token) /\ Encloses(o, a, b, c)
  BY <1>3, <1>7, Enclosed
<1> HIDE DEF o
<1>9. Len(b) \in Nat /\ Len(o) = Len(b) + 2 /\ At(o, 0, a) /\ At(o, 1, b)
  BY <1>3, <1>7, <1>8, LenProperties DEF Encloses
<1>10. Len(P[k]) = 3 /\ P[k][1] = Str(key) /\ P[k][2] = Colon /\ P[k][3] = Num(v)
  BY <1>4 DEF IsTriple
<1>11. i + 3 <= Len(b) /\ b[i + 1] = Str(key) /\ b[i + 2] = Colon /\ b[i + 3] = Num(v)
  BY <1>6, <1>10 DEF At
<1>12. /\ o[1 + (i + 1)] = Str(key) /\ o[1 + (i + 2)] = Colon /\ o[1 + (i + 3)] = Num(v)
  <2>1. i + 1 \in 1 .. Len(b) /\ i + 2 \in 1 .. Len(b) /\ i + 3 \in 1 .. Len(b)
    BY <1>9, <1>11
  <2> QED
    BY <1>9, <1>11, <2>1 DEF At
<1>13. ASSUME NEW x \in 1 .. i + 1 PROVE o[x] # Str(key)
  <2>1. CASE x = 1
    <3>1. o[0 + 1] = a[1]
      BY <1>7, <1>9 DEF At
    <3> QED
      BY <1>7, <2>1, <3>1, StringsDiffer
  <2>2. CASE x # 1
    <3>1. x - 1 \in 1 .. i /\ x - 1 \in 1 .. Len(b) /\ 1 + (x - 1) = x
      BY <1>9, <1>11, <2>2
    <3>2. o[1 + (x - 1)] = b[x - 1]
      BY <1>9, <3>1 DEF At
    <3> QED
      BY <1>6, <3>1, <3>2
  <2> QED
    BY <2>1, <2>2
<1>14. ExtractInt(o, key) = <<CInt(v)>>
  <2> DEFINE l == i + 1
  <2>1. l \in Nat /\ l + 3 <= Len(o) /\ l + 1 = 1 + (i + 1) /\ l + 2 = 1 + (i + 2)
        /\ l + 3 = 1 + (i + 3)
    BY <1>9, <1>11
  <2>2. IsText(o) /\ \A x \in 1 .. l : o[x] # Str(key)
    BY <1>8, <1>13 DEF IsText
  <2>3. o[l + 1] = Str(key) /\ o[l + 2] = Colon /\ o[l + 3] = Num(v)
    BY <1>12, <2>1
  <2> HIDE DEF l
  <2> QED
    BY <2>1, <2>2, <2>3, ExtractIs
<1> QED
  BY <1>14 DEF o, a, b, c, P, Object, Pieces

Objects(rows, keys) == [i \in DOMAIN rows |-> Object(rows[i], keys)]

(* The rows of an array hold only tokens of their keys and values. *)
LEMMA ObjectsTyped ==
  ASSUME NEW rows, NEW n \in Nat, DOMAIN rows = 1 .. n,
         NEW Names, NEW keys \in Seq(Names), NEW S, {Colon, LBrace, RBrace} \subseteq S,
         \A k \in Names : Str(k) \in S /\ \A i \in 1 .. n : Value(rows[i], k) \in Seq(S)
  PROVE  /\ Objects(rows, keys) \in Seq(Seq(S)) /\ Len(Objects(rows, keys)) = n
         /\ FlattenSeq(Objects(rows, keys)) \in Seq(S)
<1>1. ASSUME NEW i \in 1 .. n PROVE Object(rows[i], keys) \in Seq(S)
  BY ObjectTyped
<1>2. Objects(rows, keys) \in [1 .. n -> Seq(S)]
  BY <1>1 DEF Objects
<1>3. Objects(rows, keys) \in Seq(Seq(S)) /\ Len(Objects(rows, keys)) = n
  BY <1>2, FunctionIsSeq
<1> QED
  BY <1>3, FlattenTyped

(* Every row of an array is written as an object. *)
LEMMA ObjectsAreObjects ==
  ASSUME NEW rows, NEW n \in Nat, DOMAIN rows = 1 .. n,
         NEW Names, NEW keys \in Seq(Names),
         \A k \in Names : /\ Str(k) \in Token \ Brackets
                          /\ \A i \in 1 .. n : Value(rows[i], k) \in Seq(Token \ Brackets)
  PROVE  AreObjects(Objects(rows, keys))
<1>1. Objects(rows, keys) \in Seq(Seq(Token)) /\ Len(Objects(rows, keys)) = n
  BY ObjectsTyped, TokensAre
<1>2. ASSUME NEW i \in 1 .. n PROVE IsObject(Objects(rows, keys)[i])
  <2>1. IsObject(Object(rows[i], keys))
    BY ObjectIs
  <2> QED
    BY <2>1 DEF Objects
<1> QED
  BY <1>1, <1>2 DEF AreObjects

(* An array holds only its name, its brackets and the tokens of its rows. *)
LEMMA ArrayTyped ==
  ASSUME NEW name, NEW rows, NEW n \in Nat, DOMAIN rows = 1 .. n,
         NEW Names, NEW keys \in Seq(Names), NEW S,
         {Colon, LBrace, RBrace, LBrack, RBrack} \subseteq S, Str(name) \in S,
         \A k \in Names : Str(k) \in S /\ \A i \in 1 .. n : Value(rows[i], k) \in Seq(S)
  PROVE  Array(name, rows, keys) \in Seq(S)
<1> DEFINE a == <<Str(name), Colon, LBrack>>
           b == FlattenSeq(Objects(rows, keys))
           c == <<RBrack>>
<1>1. a \in Seq(S) /\ c \in Seq(S)
  BY TripleTyped, SingleTyped
<1>2. b \in Seq(S)
  BY ObjectsTyped
<1> HIDE DEF a, b, c
<1>3. a \o b \o c \in Seq(S)
  BY <1>1, <1>2, Enclosed
<1> QED
  BY <1>3 DEF a, b, c, Array, Objects

-----------------------------------------------------------------------------
(* A well-formed file. *)

NodeKeys == {"id", "port", "role"}
EdgeKeys == {"from", "to"}
Sought   == {"nodes", "edges"}

(* A number, as the only token of a value. *)
LEMMA NumberTyped ==
  ASSUME NEW v \in Int
  PROVE  /\ <<Num(v)>> \in Seq(Token) /\ <<Num(v)>> \in Seq(Token \ Brackets)
         /\ \A key : <<Num(v)>> \in Seq(Token \ {Str(key)})
<1>1. /\ Num(v) \in Token /\ Num(v) \in Token \ Brackets
      /\ \A key : Num(v) \in Token \ {Str(key)}
  BY TokensAre
<1> QED
  BY <1>1, SingleTyped

(* A word without what the reader searches for is of harmless tokens. *)
LEMMA PlainWord ==
  ASSUME NEW w \in Words, ToSet(w) \cap Confusing = {},
         NEW S, \A t \in Token : t \notin Confusing => t \in S
  PROVE  w \in Seq(S)
<1> DEFINE G == {"str", "mark"} \X STRING
<1>1. w \in Seq(G)
  BY DEF Words
<1>2. \A g \in G : g \in Token
  BY Zenon DEF Token
<1> HIDE DEF G
<1>3. Len(w) \in Nat /\ DOMAIN w = 1 .. Len(w) /\ \A i \in 1 .. Len(w) : w[i] \in G
  BY <1>1, LenProperties, ElementOfSeq
<1>4. \A i \in 1 .. Len(w) : w[i] \in ToSet(w)
  BY <1>3 DEF ToSet
<1>5. \A i \in 1 .. Len(w) : w[i] \in S
  BY <1>2, <1>3, <1>4
<1>6. w = [i \in 1 .. Len(w) |-> w[i]]
  BY <1>1, <1>3
<1>7. w \in [1 .. Len(w) -> S]
  BY <1>5, <1>6
<1> QED
  BY <1>3, <1>7, FunctionIsSeq

(* What is confusing: the brackets, and four names. *)
LEMMA Harmless ==
  /\ \A t \in Token : t \notin Confusing => t \in Token \ Brackets
  /\ \A key \in Sought \cup {"id", "port"} :
       \A t \in Token : t \notin Confusing => t \in Token \ {Str(key)}
<1>1. Brackets \subseteq Confusing
  BY DEF Brackets, Confusing
<1>2. \A key \in Sought \cup {"id", "port"} : Str(key) \in Confusing
  BY DEF Confusing, Sought
<1> QED
  BY <1>1, <1>2

(* The rows of a well-formed file are written with tokens of their own. *)
LEMMA NodeTokens ==
  ASSUME NEW f, WellFormed(f)
  PROVE  /\ Len(f.nodes) \in Nat /\ DOMAIN f.nodes = 1 .. Len(f.nodes)
         /\ \A i \in 1 .. Len(f.nodes) :
              /\ f.nodes[i].id \in Int /\ f.nodes[i].port \in Int
              /\ f.nodes[i].role \in Words
         /\ f.nodeKeys \in Seq(NodeKeys)
<1>1. f.nodes \in Seq([id : Int, port : Int, role : Words])
  BY DEF WellFormed
<1>2. \A i \in 1 .. Len(f.nodes) : f.nodes[i] \in [id : Int, port : Int, role : Words]
  BY <1>1, ElementOfSeq
<1>3. Len(f.nodes) \in Nat /\ DOMAIN f.nodes = 1 .. Len(f.nodes)
  BY <1>1, LenProperties
<1> QED
  BY <1>2, <1>3 DEF WellFormed, NodeKeys

(* The edges of a well-formed file are pairs of integers. *)
LEMMA EdgeTokens ==
  ASSUME NEW f, WellFormed(f)
  PROVE  /\ Len(f.edges) \in Nat /\ DOMAIN f.edges = 1 .. Len(f.edges)
         /\ \A i \in 1 .. Len(f.edges) : f.edges[i].from \in Int /\ f.edges[i].to \in Int
         /\ f.edgeKeys \in Seq(EdgeKeys)
<1>1. f.edges \in Seq([from : Int, to : Int])
  BY DEF WellFormed
<1>2. \A i \in 1 .. Len(f.edges) : f.edges[i] \in [from : Int, to : Int]
  BY <1>1, ElementOfSeq
<1>3. Len(f.edges) \in Nat /\ DOMAIN f.edges = 1 .. Len(f.edges)
  BY <1>1, LenProperties
<1> QED
  BY <1>2, <1>3 DEF WellFormed, EdgeKeys

(* No value of a node holds a bracket or a name that is looked for. *)
LEMMA NodeValues ==
  ASSUME NEW f, WellFormed(f), Plain(f), NEW i \in 1 .. Len(f.nodes), NEW k \in NodeKeys
  PROVE  /\ Str(k) \in Token \ Brackets /\ Value(f.nodes[i], k) \in Seq(Token \ Brackets)
         /\ Value(f.nodes[i], k) \in Seq(Token)
         /\ \A key \in Sought \cup {"id", "port"} :
              Value(f.nodes[i], k) \in Seq(Token \ {Str(key)})
         /\ k # "role" => Value(f.nodes[i], k) = <<Num(f.nodes[i][k])>> /\ f.nodes[i][k] \in Int
<1>1. Str(k) \in Token \ Brackets
  BY TokensAre DEF NodeKeys, Spelled
<1>2. CASE k = "role"
  <2>1. Value(f.nodes[i], k) = f.nodes[i].role
    BY <1>2 DEF Value
  <2>2. f.nodes[i].role \in Words /\ ToSet(f.nodes[i].role) \cap Confusing = {}
    BY NodeTokens DEF Plain
  <2>3. f.nodes[i].role \in Seq(Token \ Brackets)
    <3> DEFINE S == Token \ Brackets
    <3>1. \A t \in Token : t \notin Confusing => t \in S
      BY Harmless
    <3> HIDE DEF S
    <3>2. f.nodes[i].role \in Seq(S)
      BY <2>2, <3>1, PlainWord
    <3> QED
      BY <3>2 DEF S
  <2>4. ASSUME NEW key \in Sought \cup {"id", "port"}
        PROVE  f.nodes[i].role \in Seq(Token \ {Str(key)})
    <3> DEFINE S == Token \ {Str(key)}
    <3>1. \A t \in Token : t \notin Confusing => t \in S
      BY Harmless
    <3> HIDE DEF S
    <3>2. f.nodes[i].role \in Seq(S)
      BY <2>2, <3>1, PlainWord
    <3> QED
      BY <3>2 DEF S
  <2>5. f.nodes[i].role \in Seq(Token)
    BY <2>2, PlainWord
  <2> QED
    BY <1>1, <1>2, <2>1, <2>3, <2>4, <2>5
<1>3. CASE k # "role"
  <2>1. Value(f.nodes[i], k) = <<Num(f.nodes[i][k])>>
    BY <1>3 DEF Value
  <2>2. f.nodes[i][k] \in Int
    BY <1>3, NodeTokens DEF NodeKeys
  <2> QED
    BY <1>1, <1>3, <2>1, <2>2, NumberTyped
<1> QED
  BY <1>2, <1>3

(* No value of an edge holds a bracket or a name. *)
LEMMA EdgeValues ==
  ASSUME NEW f, WellFormed(f), NEW i \in 1 .. Len(f.edges), NEW k \in EdgeKeys
  PROVE  /\ Str(k) \in Token \ Brackets /\ Value(f.edges[i], k) \in Seq(Token \ Brackets)
         /\ Value(f.edges[i], k) \in Seq(Token)
         /\ \A key : Value(f.edges[i], k) \in Seq(Token \ {Str(key)})
         /\ Value(f.edges[i], k) = <<Num(f.edges[i][k])>>
<1>1. Str(k) \in Token \ Brackets
  BY TokensAre DEF EdgeKeys, Spelled
<1>2. Value(f.edges[i], k) = <<Num(f.edges[i][k])>>
  BY DEF Value, EdgeKeys
<1>3. f.edges[i][k] \in Int
  BY EdgeTokens DEF EdgeKeys
<1> QED
  BY <1>1, <1>2, <1>3, NumberTyped

(* A part of the text holds the name of another one nowhere. *)
LEMMA PartTyped ==
  ASSUME NEW f, WellFormed(f), Plain(f), NEW p \in {"nodes", "edges", "description"}
  PROVE  /\ Part(f, p) \in Seq(Token)
         /\ \A key \in Sought : p # key => Part(f, p) \in Seq(Token \ {Str(key)})
<1>1. ASSUME NEW S, {Colon, LBrace, RBrace, LBrack, RBrack} \subseteq S, Str(p) \in S,
             f.about \in Seq(S),
             \A k \in NodeKeys : Str(k) \in S
                                 /\ \A i \in 1 .. Len(f.nodes) : Value(f.nodes[i], k) \in Seq(S),
             \A k \in EdgeKeys : Str(k) \in S
                                 /\ \A i \in 1 .. Len(f.edges) : Value(f.edges[i], k) \in Seq(S)
      PROVE  Part(f, p) \in Seq(S)
  <2>1. CASE p = "nodes"
    <3>1. Array(p, f.nodes, f.nodeKeys) \in Seq(S)
      BY <1>1, NodeTokens, ArrayTyped
    <3> QED
      BY <2>1, <3>1 DEF Part
  <2>2. CASE p = "edges"
    <3>1. Array(p, f.edges, f.edgeKeys) \in Seq(S)
      BY <1>1, EdgeTokens, ArrayTyped
    <3> QED
      BY <2>2, <3>1 DEF Part
  <2>3. CASE p = "description"
    <3>1. <<Str(p), Colon>> \o f.about \in Seq(S)
      BY <1>1, PrefixTyped
    <3> QED
      BY <2>3, <3>1 DEF Part
  <2> QED
    BY <2>1, <2>2, <2>3
<1>2. \A k \in Spelled : Str(k) \in Token
  BY TokensAre
<1>5. f.about \in Words /\ ToSet(f.about) \cap Confusing = {}
  BY DEF WellFormed, Plain
<1>3. Part(f, p) \in Seq(Token)
  <2>1. {Colon, LBrace, RBrace, LBrack, RBrack} \subseteq Token
    BY TokensAre
  <2>2. Str(p) \in Token /\ f.about \in Seq(Token)
    BY <1>2, <1>5, PlainWord DEF Spelled
  <2>3. \A k \in NodeKeys : /\ Str(k) \in Token
                            /\ \A i \in 1 .. Len(f.nodes) : Value(f.nodes[i], k) \in Seq(Token)
    BY <1>2, NodeValues DEF NodeKeys, Spelled
  <2>4. \A k \in EdgeKeys : /\ Str(k) \in Token
                            /\ \A i \in 1 .. Len(f.edges) : Value(f.edges[i], k) \in Seq(Token)
    BY <1>2, EdgeValues DEF EdgeKeys, Spelled
  <2> QED
    BY <1>1, <2>1, <2>2, <2>3, <2>4
<1>4. ASSUME NEW key \in Sought, p # key PROVE Part(f, p) \in Seq(Token \ {Str(key)})
  <2> DEFINE S == Token \ {Str(key)}
  <2>1. {Colon, LBrace, RBrace, LBrack, RBrack} \subseteq S
    BY TokensAre, StringsDiffer
  <2>2. \A k \in Spelled : k # key => Str(k) \in S
    BY <1>2, TokensAre
  <2>3. /\ Str(p) \in S
        /\ \A k \in NodeKeys : Str(k) \in S
        /\ \A k \in EdgeKeys : Str(k) \in S
    BY <1>4, <2>2 DEF NodeKeys, EdgeKeys, Sought, Spelled
  <2>4. \A k \in NodeKeys : \A i \in 1 .. Len(f.nodes) : Value(f.nodes[i], k) \in Seq(S)
    BY NodeValues
  <2>5. \A k \in EdgeKeys : \A i \in 1 .. Len(f.edges) : Value(f.edges[i], k) \in Seq(S)
    BY EdgeValues
  <2>7. \A t \in Token : t \notin Confusing => t \in S
    BY Harmless
  <2> HIDE DEF S
  <2>8. f.about \in Seq(S)
    BY <1>5, <2>7, PlainWord
  <2>6. Part(f, p) \in Seq(S)
    BY <1>1, <2>1, <2>3, <2>4, <2>5, <2>8
  <2> QED
    BY <2>6 DEF S
<1> QED
  BY <1>3, <1>4

-----------------------------------------------------------------------------
(* The whole text. *)

Parts(f) == [i \in DOMAIN f.parts |-> Part(f, f.parts[i])]

(* The parts of the file follow its opening brace. *)
LEMMA TextOf ==
  ASSUME NEW f, WellFormed(f), Plain(f)
  PROVE  /\ Len(f.parts) \in Nat
         /\ \A i \in 1 .. Len(f.parts) : f.parts[i] \in {"nodes", "edges", "description"}
         /\ Parts(f) \in Seq(Seq(Token)) /\ Len(Parts(f)) = Len(f.parts)
         /\ IsText(Text(f)) /\ Text(f)[1] = LBrace
         /\ At(Text(f), 1, FlattenSeq(Parts(f)))
<1> DEFINE a == <<LBrace>>
           b == FlattenSeq(Parts(f))
           c == <<RBrace>>
           s == a \o b \o c
<1>1. f.parts \in Seq({"nodes", "edges", "description"})
  BY DEF WellFormed
<1>2. /\ Len(f.parts) \in Nat /\ DOMAIN f.parts = 1 .. Len(f.parts)
      /\ \A i \in 1 .. Len(f.parts) : f.parts[i] \in {"nodes", "edges", "description"}
  BY <1>1, LenProperties, ElementOfSeq
<1>3. \A i \in 1 .. Len(f.parts) : Part(f, f.parts[i]) \in Seq(Token)
  BY <1>2, PartTyped
<1>4. Parts(f) \in [1 .. Len(f.parts) -> Seq(Token)]
  BY <1>2, <1>3 DEF Parts
<1>5. Parts(f) \in Seq(Seq(Token)) /\ Len(Parts(f)) = Len(f.parts)
  BY <1>2, <1>4, FunctionIsSeq
<1>6. b \in Seq(Token)
  BY <1>5, FlattenTyped
<1>7. a \in Seq(Token) /\ Len(a) = 1 /\ a[1] = LBrace /\ c \in Seq(Token) /\ Len(c) = 1
  BY SingleTyped, TokensAre
<1> HIDE DEF a, b, c
<1>8. s \in Seq(Token) /\ Encloses(s, a, b, c)
  BY <1>6, <1>7, Enclosed
<1> HIDE DEF s
<1>9. At(s, 1, b) /\ At(s, 0, a)
  BY <1>7, <1>8 DEF Encloses
<1>10. s[1] = LBrace
  <2>1. s[0 + 1] = a[1]
    BY <1>7, <1>9 DEF At
  <2> QED
    BY <1>7, <2>1
<1>11. s = Text(f)
  BY DEF s, a, b, c, Text, Parts
<1> QED
  BY <1>2, <1>5, <1>8, <1>9, <1>10, <1>11 DEF IsText, b

(* The reader finds the objects of an array wherever in the file it is. *)
LEMMA ArrayFound ==
  ASSUME NEW f, WellFormed(f), Plain(f), NEW key \in Sought, key \in ToSet(f.parts),
         NEW rows, NEW keys, Part(f, key) = Array(key, rows, keys),
         AreObjects(Objects(rows, keys))
  PROVE  ObjectsIn(Text(f), key) = Objects(rows, keys)
<1> DEFINE s == Text(f)
           P == Parts(f)
           F == FlattenSeq(P)
           S == Token \ {Str(key)}
           D == {i \in 1 .. Len(f.parts) : f.parts[i] = key}
           os == Objects(rows, keys)
           a == <<Str(key), Colon, LBrack>>
           b == FlattenSeq(os)
           c == <<RBrack>>
           g == a \o b \o c
<1>1. /\ Len(f.parts) \in Nat /\ DOMAIN f.parts = 1 .. Len(f.parts)
      /\ \A i \in 1 .. Len(f.parts) : f.parts[i] \in {"nodes", "edges", "description"}
  BY TextOf, LenProperties DEF WellFormed
<1>2. PICK k \in D : \A i \in D : k <= i
  <2>1. D \in SUBSET Nat /\ D # {}
    BY <1>1 DEF ToSet
  <2> HIDE DEF D
  <2> QED
    BY <2>1, Least
<1>3. ASSUME NEW j \in 1 .. k - 1 PROVE P[j] \in Seq(S)
  <2>1. j \in 1 .. Len(f.parts) /\ j \notin D /\ f.parts[j] # key
    BY <1>1, <1>2
  <2>2. Part(f, f.parts[j]) \in Seq(S)
    BY <1>1, <2>1, PartTyped
  <2>3. P[j] = Part(f, f.parts[j])
    BY <1>1, <2>1 DEF Parts
  <2> QED
    BY <2>2, <2>3
<1>4. P[k] = g
  <2>1. P[k] = Part(f, key)
    BY <1>1, <1>2 DEF Parts
  <2> QED
    BY <2>1 DEF Array, Objects
<1>5. PICK i \in Nat : At(F, i, P[k]) /\ \A x \in 1 .. i : F[x] \in S
  <2>1. k \in 1 .. Len(P) /\ P \in Seq(Seq(Token))
    BY <1>2, TextOf
  <2> HIDE DEF P, S
  <2> QED
    BY <1>3, <2>1, FlattenPart
<1>6. /\ Str(key) \in Token /\ Colon \in Token /\ LBrack \in Token /\ RBrack \in Token
  BY TokensAre DEF Sought, Spelled
<1>7. /\ a \in Seq(Token) /\ Len(a) = 3 /\ a[1] = Str(key) /\ a[2] = Colon /\ a[3] = LBrack
      /\ c \in Seq(Token) /\ Len(c) = 1 /\ c[1] = RBrack
  BY <1>6, TripleTyped, SingleTyped
<1>8. b \in Seq(Token) /\ Len(b) \in Nat
  BY FlattenTyped, LenProperties DEF AreObjects
<1> HIDE DEF a, b, c
<1>9. g \in Seq(Token) /\ Encloses(g, a, b, c)
  BY <1>7, <1>8, Enclosed
<1> HIDE DEF g
<1>10. /\ Len(g) = Len(b) + 4 /\ At(g, 0, a) /\ At(g, 3, b) /\ At(g, 3 + Len(b), c)
  BY <1>7, <1>8, <1>9 DEF Encloses
<1>11. IsText(s) /\ s[1] = LBrace /\ At(s, 1, F) /\ Len(s) \in Nat /\ Len(F) \in Nat
  <2>1. Parts(f) \in Seq(Seq(Token))
    BY TextOf
  <2>2. F \in Seq(Token)
    BY <2>1, FlattenTyped
  <2> QED
    BY <2>2, TextOf, TextLength, LenProperties
<1> HIDE DEF s, F, P
<1>12. At(s, 1 + i, g)
  BY <1>4, <1>5, <1>8, <1>10, <1>11, AtWithin
<1> DEFINE l == 1 + i
<1>13. l \in Nat /\ At(s, l, g)
  BY <1>12
<1>14. \A x \in 1 .. l : s[x] # Str(key)
  <2> SUFFICES ASSUME NEW x \in 1 .. l PROVE s[x] # Str(key)
    OBVIOUS
  <2>1. CASE x = 1
    BY <1>11, <2>1, StringsDiffer
  <2>2. CASE x # 1
    <3>1. x - 1 \in 1 .. i /\ 1 + (x - 1) = x
      BY <2>2
    <3>2. i <= Len(F)
      BY <1>4, <1>5, <1>8, <1>10, <1>11 DEF At
    <3>3. x - 1 \in 1 .. Len(F)
      BY <1>11, <3>1, <3>2
    <3>4. s[1 + (x - 1)] = F[x - 1]
      <4> HIDE DEF D, l, S, os
      <4>1. \A j \in 1 .. Len(F) : s[1 + j] = F[j]
        BY <1>11 DEF At
      <4> QED
        BY <3>3, <4>1
    <3> QED
      BY <1>5, <3>1, <3>4
  <2> QED
    BY <2>1, <2>2
<1> HIDE DEF l
<1>15. At(s, l + 0, a) /\ At(s, l + 3, b) /\ At(s, l + (3 + Len(b)), c)
  <2>1. /\ At(g, 0, a) /\ At(g, 3, b) /\ At(g, 3 + Len(b), c)
        /\ Len(g) \in Nat /\ Len(a) \in Nat /\ Len(b) \in Nat /\ Len(c) \in Nat
        /\ At(s, l, g) /\ Len(s) \in Nat
    BY <1>7, <1>8, <1>10, <1>11, <1>13
  <2>2. At(s, l + 0, a)
    BY <2>1, AtWithin
  <2>3. At(s, l + 3, b)
    BY <2>1, AtWithin
  <2>4. At(s, l + (3 + Len(b)), c)
    <3> DEFINE q == 3 + Len(b)
    <3>1. At(g, q, c)
      BY <2>1
    <3> HIDE DEF q
    <3>2. At(s, l + q, c)
      BY <2>1, <3>1, AtWithin
    <3> QED
      BY <3>2 DEF q
  <2> QED
    BY <2>2, <2>3, <2>4
<1>16. s[l + 1] = Str(key) /\ s[l + 2] = Colon /\ s[l + 3] = LBrack
  <2>1. /\ s[(l + 0) + 1] = a[1] /\ s[(l + 0) + 2] = a[2] /\ s[(l + 0) + 3] = a[3]
    BY <1>7, <1>15 DEF At
  <2>2. (l + 0) + 1 = l + 1 /\ (l + 0) + 2 = l + 2 /\ (l + 0) + 3 = l + 3
    BY <1>13
  <2> QED
    BY <1>7, <2>1, <2>2
<1>17. s[l + 4 + Len(b)] = RBrack /\ l + 4 + Len(b) <= Len(s)
  <2>1. s[(l + (3 + Len(b))) + 1] = c[1] /\ (l + (3 + Len(b))) + 1 <= Len(s)
    BY <1>7, <1>15 DEF At
  <2>2. (l + (3 + Len(b))) + 1 = l + 4 + Len(b)
    BY <1>8, <1>13
  <2> QED
    BY <1>7, <2>1, <2>2
<1>18. b = FlattenSeq(os)
  BY DEF b
<1> HIDE DEF os
<1>19. AreObjects(os)
  BY DEF os
<1>20. ObjectsIn(s, key) = os
  BY <1>11, <1>13, <1>14, <1>15, <1>16, <1>17, <1>18, <1>19, ObjectsAre
<1> QED
  BY <1>20 DEF s, os

(* The two readers agree: on a file the JSON library can read, the search   *)
(* for names and brackets finds its nodes and edges, each number converted  *)
(* to an int, whatever the order of the members and the parts and whatever  *)
(* the words in it, but for those the search looks for (topology.h:30-107,  *)
(* main.py:386-394).                                                        *)
THEOREM ParsedIs ==
  ASSUME NEW f, WellFormed(f), JsonReads(f), Plain(f)
  PROVE  Parsed(Text(f)) =
           [nodes |-> [r \in DOMAIN f.nodes |-> << <<CInt(f.nodes[r].id)>>, <<CInt(f.nodes[r].port)>> >>],
            edges |-> [e \in DOMAIN f.edges |-> << <<CInt(f.edges[e].from)>>, <<CInt(f.edges[e].to)>> >>]]
<1>1. Pairs(Text(f), "nodes", "id", "port")
        = [r \in DOMAIN f.nodes |-> << <<CInt(f.nodes[r].id)>>, <<CInt(f.nodes[r].port)>> >>]
  <2> DEFINE os == Objects(f.nodes, f.nodeKeys)
  <2>1. AreObjects(os)
    <3>1. /\ Len(f.nodes) \in Nat /\ DOMAIN f.nodes = 1 .. Len(f.nodes)
          /\ f.nodeKeys \in Seq(NodeKeys)
      BY NodeTokens
    <3>2. \A k \in NodeKeys :
            /\ Str(k) \in Token \ Brackets
            /\ \A i \in 1 .. Len(f.nodes) : Value(f.nodes[i], k) \in Seq(Token \ Brackets)
      <4>1. \A k \in NodeKeys : Str(k) \in Token \ Brackets
        BY TokensAre DEF NodeKeys, Spelled
      <4>2. \A k \in NodeKeys : \A i \in 1 .. Len(f.nodes) :
              Value(f.nodes[i], k) \in Seq(Token \ Brackets)
        BY NodeValues
      <4> QED
        BY <4>1, <4>2
    <3> QED
      BY <3>1, <3>2, ObjectsAreObjects
  <2>2. ObjectsIn(Text(f), "nodes") = os
    <3>1. Part(f, "nodes") = Array("nodes", f.nodes, f.nodeKeys)
      BY DEF Part
    <3>2. "nodes" \in Sought /\ "nodes" \in ToSet(f.parts)
      BY DEF Sought, JsonReads
    <3> HIDE DEF os
    <3>3. AreObjects(Objects(f.nodes, f.nodeKeys))
      BY <2>1 DEF os
    <3>4. ObjectsIn(Text(f), "nodes") = Objects(f.nodes, f.nodeKeys)
      BY <3>1, <3>2, <3>3, ArrayFound
    <3> QED
      BY <3>4 DEF os
  <2>3. DOMAIN os = DOMAIN f.nodes
    BY DEF Objects
  <2>4. ASSUME NEW r \in DOMAIN f.nodes
        PROVE  ExtractInt(os[r], "id") = <<CInt(f.nodes[r].id)>>
               /\ ExtractInt(os[r], "port") = <<CInt(f.nodes[r].port)>>
    <3>1. r \in 1 .. Len(f.nodes) /\ Len(f.nodes) \in Nat /\ f.nodeKeys \in Seq(NodeKeys)
      BY NodeTokens
    <3>2. f.nodes # <<>>
      BY <3>1
    <3>3. "id" \in ToSet(f.nodeKeys) /\ "port" \in ToSet(f.nodeKeys)
      BY <3>2 DEF JsonReads
    <3>4. \A k \in NodeKeys :
             /\ Str(k) \in Token \ Brackets /\ Value(f.nodes[r], k) \in Seq(Token \ Brackets)
             /\ Value(f.nodes[r], k) \in Seq(Token \ {Str("id")})
             /\ Value(f.nodes[r], k) \in Seq(Token \ {Str("port")})
      BY <3>1, NodeValues
    <3>5. Value(f.nodes[r], "id") = <<Num(f.nodes[r].id)>>
          /\ Value(f.nodes[r], "port") = <<Num(f.nodes[r].port)>>
      BY DEF Value
    <3>6. ExtractInt(Object(f.nodes[r], f.nodeKeys), "id") = <<CInt(f.nodes[r].id)>>
      <4> DEFINE rec == f.nodes[r]
                 v   == f.nodes[r].id
      <4>1. NoBracketIn(rec, NodeKeys)
        BY <3>4 DEF NoBracketIn
      <4>2. NotNamed(rec, NodeKeys, "id")
        BY <3>4 DEF NotNamed
      <4>3. IsNumber(Value(rec, "id"), v)
        BY <3>5 DEF IsNumber
      <4> HIDE DEF rec, v
      <4>4. ExtractInt(Object(rec, f.nodeKeys), "id") = <<CInt(v)>>
        BY <3>1, <3>3, <4>1, <4>2, <4>3, ObjectValue
      <4> QED
        BY <4>4 DEF rec, v
    <3>7. ExtractInt(Object(f.nodes[r], f.nodeKeys), "port") = <<CInt(f.nodes[r].port)>>
      <4> DEFINE rec == f.nodes[r]
                 v   == f.nodes[r].port
      <4>1. NoBracketIn(rec, NodeKeys)
        BY <3>4 DEF NoBracketIn
      <4>2. NotNamed(rec, NodeKeys, "port")
        BY <3>4 DEF NotNamed
      <4>3. IsNumber(Value(rec, "port"), v)
        BY <3>5 DEF IsNumber
      <4> HIDE DEF rec, v
      <4>4. ExtractInt(Object(rec, f.nodeKeys), "port") = <<CInt(v)>>
        BY <3>1, <3>3, <4>1, <4>2, <4>3, ObjectValue
      <4> QED
        BY <4>4 DEF rec, v
    <3> QED
      BY <3>6, <3>7 DEF Objects
  <2> HIDE DEF os
  <2>5. Pairs(Text(f), "nodes", "id", "port")
          = [r \in DOMAIN os |-> <<ExtractInt(os[r], "id"), ExtractInt(os[r], "port")>>]
    BY <2>2 DEF Pairs
  <2> QED
    BY <2>3, <2>4, <2>5
<1>2. Pairs(Text(f), "edges", "from", "to")
        = [e \in DOMAIN f.edges |-> << <<CInt(f.edges[e].from)>>, <<CInt(f.edges[e].to)>> >>]
  <2> DEFINE os == Objects(f.edges, f.edgeKeys)
  <2>1. AreObjects(os)
    <3>1. /\ Len(f.edges) \in Nat /\ DOMAIN f.edges = 1 .. Len(f.edges)
          /\ f.edgeKeys \in Seq(EdgeKeys)
      BY EdgeTokens
    <3>2. \A k \in EdgeKeys :
            /\ Str(k) \in Token \ Brackets
            /\ \A i \in 1 .. Len(f.edges) : Value(f.edges[i], k) \in Seq(Token \ Brackets)
      <4>1. \A k \in EdgeKeys : Str(k) \in Token \ Brackets
        BY TokensAre DEF EdgeKeys, Spelled
      <4>2. \A k \in EdgeKeys : \A i \in 1 .. Len(f.edges) :
              Value(f.edges[i], k) \in Seq(Token \ Brackets)
        BY EdgeValues
      <4> QED
        BY <4>1, <4>2
    <3> QED
      BY <3>1, <3>2, ObjectsAreObjects
  <2>2. ObjectsIn(Text(f), "edges") = os
    <3>1. Part(f, "edges") = Array("edges", f.edges, f.edgeKeys)
      BY DEF Part
    <3>2. "edges" \in Sought /\ "edges" \in ToSet(f.parts)
      BY DEF Sought, JsonReads
    <3> HIDE DEF os
    <3>3. AreObjects(Objects(f.edges, f.edgeKeys))
      BY <2>1 DEF os
    <3>4. ObjectsIn(Text(f), "edges") = Objects(f.edges, f.edgeKeys)
      BY <3>1, <3>2, <3>3, ArrayFound
    <3> QED
      BY <3>4 DEF os
  <2>3. DOMAIN os = DOMAIN f.edges
    BY DEF Objects
  <2>4. ASSUME NEW r \in DOMAIN f.edges
        PROVE  ExtractInt(os[r], "from") = <<CInt(f.edges[r].from)>>
               /\ ExtractInt(os[r], "to") = <<CInt(f.edges[r].to)>>
    <3>1. r \in 1 .. Len(f.edges) /\ Len(f.edges) \in Nat /\ f.edgeKeys \in Seq(EdgeKeys)
      BY EdgeTokens
    <3>2. f.edges # <<>>
      BY <3>1
    <3>3. "from" \in ToSet(f.edgeKeys) /\ "to" \in ToSet(f.edgeKeys)
      BY <3>2 DEF JsonReads
    <3>4. \A k \in EdgeKeys :
             /\ Str(k) \in Token \ Brackets /\ Value(f.edges[r], k) \in Seq(Token \ Brackets)
             /\ Value(f.edges[r], k) \in Seq(Token \ {Str("from")})
             /\ Value(f.edges[r], k) \in Seq(Token \ {Str("to")})
      BY <3>1, EdgeValues
    <3>5. Value(f.edges[r], "from") = <<Num(f.edges[r].from)>>
          /\ Value(f.edges[r], "to") = <<Num(f.edges[r].to)>>
      BY DEF Value
    <3>6. ExtractInt(Object(f.edges[r], f.edgeKeys), "from") = <<CInt(f.edges[r].from)>>
      <4> DEFINE rec == f.edges[r]
                 v   == f.edges[r].from
      <4>1. NoBracketIn(rec, EdgeKeys)
        BY <3>4 DEF NoBracketIn
      <4>2. NotNamed(rec, EdgeKeys, "from")
        BY <3>4 DEF NotNamed
      <4>3. IsNumber(Value(rec, "from"), v)
        BY <3>5 DEF IsNumber
      <4> HIDE DEF rec, v
      <4>4. ExtractInt(Object(rec, f.edgeKeys), "from") = <<CInt(v)>>
        BY <3>1, <3>3, <4>1, <4>2, <4>3, ObjectValue
      <4> QED
        BY <4>4 DEF rec, v
    <3>7. ExtractInt(Object(f.edges[r], f.edgeKeys), "to") = <<CInt(f.edges[r].to)>>
      <4> DEFINE rec == f.edges[r]
                 v   == f.edges[r].to
      <4>1. NoBracketIn(rec, EdgeKeys)
        BY <3>4 DEF NoBracketIn
      <4>2. NotNamed(rec, EdgeKeys, "to")
        BY <3>4 DEF NotNamed
      <4>3. IsNumber(Value(rec, "to"), v)
        BY <3>5 DEF IsNumber
      <4> HIDE DEF rec, v
      <4>4. ExtractInt(Object(rec, f.edgeKeys), "to") = <<CInt(v)>>
        BY <3>1, <3>3, <4>1, <4>2, <4>3, ObjectValue
      <4> QED
        BY <4>4 DEF rec, v
    <3> QED
      BY <3>6, <3>7 DEF Objects
  <2> HIDE DEF os
  <2>5. Pairs(Text(f), "edges", "from", "to")
          = [r \in DOMAIN os |-> <<ExtractInt(os[r], "from"), ExtractInt(os[r], "to")>>]
    BY <2>2 DEF Pairs
  <2> QED
    BY <2>3, <2>4, <2>5
<1> QED
  BY <1>1, <1>2 DEF Parsed

-----------------------------------------------------------------------------
(* The invariant. *)

Pids == (1 .. MaxRuns) \X Rows
Alive(p) == proc[p] \in {"starting", "listening"}

(* What the library gives for the file, its numbers as ints. *)
Contents ==
  [nodes |-> [r \in Rows |-> << <<CInt(Id(r))>>, <<CInt(file.nodes[r].port)>> >>],
   edges |-> [e \in DOMAIN file.edges |->
                << <<CInt(file.edges[e].from)>>, <<CInt(file.edges[e].to)>> >>]]

Typed ==
  /\ file \in Files
  /\ run \in Nat /\ killed \subseteq 1 .. run
  /\ up => run > 0
  /\ DOMAIN proc = Pids /\ DOMAIN topo = Pids /\ DOMAIN port = Pids
  /\ shown \in [0 .. U16 - 1 -> Pids \cup {Nobody}]

(* A process is of the control plane that runs, or of a killed one. *)
NoOrphans == \A p \in Pids : Alive(p) => (up /\ p[1] = run) \/ p[1] \in killed

(* A heartbeat is filed under the low bits of its sender's id, and its      *)
(* sender is such a process.                                                *)
Filed ==
  \A i \in 0 .. U16 - 1 :
    shown[i] # Nobody =>
      /\ Cut(Id(shown[i][2])) = i
      /\ up => shown[i][1] = run \/ shown[i][1] \in killed

(* No process is spawned from a file the library cannot read. *)
Readable ==
  /\ up => JsonReads(file)
  /\ \A p \in Pids : proc[p] # "absent" => JsonReads(file)

(* What a process read, and the port it took from that. *)
Read ==
  Plain(file) =>
    \A p \in Pids :
      /\ topo[p] # Unread => topo[p] = Contents
      /\ proc[p] = "listening" =>
           topo[p] = Contents /\ port[p] \in Bound(MyPort(Contents, CInt(Id(p[2]))))

IInv ==
  /\ Typed
  /\ NoOrphans
  /\ Filed
  /\ Readable
  /\ Read

(* What fits the field comes out of it unchanged. *)
LEMMA SmallMod ==
  ASSUME NEW n \in Nat \ {0}, NEW i \in 0 .. n - 1
  PROVE  i % n = i
  OBVIOUS

(* What comes out of the field fits it. *)
LEMMA InField ==
  ASSUME NEW n \in Nat \ {0}, NEW i \in Int
  PROVE  i % n \in 0 .. n - 1
  OBVIOUS

(* An int that is not too large is read as it is written. *)
LEMMA IntIs ==
  ASSUME NEW v \in Int
  PROVE  CInt(v) \in Int /\ (v \in 0 .. IntHalf - 1 => CInt(v) = v)
<1>1. IntHalf \in Nat \ {0} /\ LongHalf \in Nat /\ IntHalf <= LongHalf
  BY TopologyAssumption
<1>2. Strtol(v) \in Int /\ (v \in 0 .. IntHalf - 1 => Strtol(v) = v)
  BY <1>1 DEF Strtol
<1> DEFINE n == 2 * IntHalf
           x == Strtol(v) + IntHalf
<1>3. n \in Nat \ {0} /\ x \in Int /\ (v \in 0 .. IntHalf - 1 => x \in 0 .. n - 1)
  BY <1>1, <1>2
<1>4. CInt(v) = (x % n) - IntHalf
  BY DEF CInt
<1>5. v \in 0 .. IntHalf - 1 => x - IntHalf = v
  BY <1>1, <1>2
<1> HIDE DEF n, x
<1>6. x % n \in Int /\ (x \in 0 .. n - 1 => x % n = x)
  BY <1>3, SmallMod, InField
<1> QED
  BY <1>1, <1>3, <1>4, <1>5, <1>6

(* So is what fits 16 bits, and those are all that is left of others. *)
LEMMA CutIs ==
  ASSUME NEW v \in Int
  PROVE  Cut(v) \in 0 .. U16 - 1 /\ (v \in 0 .. U16 - 1 => Cut(v) = v)
<1>1. U16 \in Nat \ {0} /\ U16 <= IntHalf /\ IntHalf \in Nat
  BY StartupAssumption, TopologyAssumption
<1>2. CInt(v) \in Int /\ (v \in 0 .. U16 - 1 => CInt(v) = v)
  BY <1>1, IntIs
<1> QED
  BY <1>1, <1>2, SmallMod, InField DEF Cut

(* The file is well formed, and the nodes read from it what the library     *)
(* does, if that can read it and its words are harmless.                    *)
LEMMA FileIs ==
  ASSUME file \in Files
  PROVE  /\ WellFormed(file)
         /\ Len(file.nodes) \in Nat /\ Rows = 1 .. Len(file.nodes)
         /\ \A r \in Rows : Id(r) \in Int /\ file.nodes[r].port \in Int
         /\ JsonReads(file) /\ Plain(file) => Parsed(Text(file)) = Contents
<1>1. WellFormed(file)
  BY StartupAssumption
<1>2. /\ Len(file.nodes) \in Nat /\ DOMAIN file.nodes = 1 .. Len(file.nodes)
      /\ \A i \in 1 .. Len(file.nodes) : file.nodes[i].id \in Int /\ file.nodes[i].port \in Int
  BY <1>1, NodeTokens
<1>3. JsonReads(file) /\ Plain(file) => Parsed(Text(file)) = Contents
  BY <1>1, ParsedIs DEF Contents, Rows, Id
<1> QED
  BY <1>1, <1>2, <1>3 DEF Rows, Id

(* The invariant holds before any control plane was started. *)
LEMMA InitHolds == Init => IInv
  BY DEF Init, IInv, Typed, NoOrphans, Filed, Readable, Read, Pids, Alive, Rows, Nothing

(* Every step keeps it. *)
LEMMA StepHolds == IInv /\ [Next]_vars => IInv'
<1> SUFFICES ASSUME IInv, [Next]_vars PROVE IInv'
  OBVIOUS
<1> USE DEF IInv, Typed, NoOrphans, Filed, Readable, Read, Pids, Alive, Rows, Id
<1>9. ASSUME UNCHANGED file
      PROVE  /\ Contents' = Contents /\ Plain(file)' = Plain(file)
             /\ \A i : Bound(MyPort(Contents, CInt(i)))' = Bound(MyPort(Contents, CInt(i)))
  BY <1>9 DEF Contents, Plain
<1>1. CASE Start
  <2>1. /\ UNCHANGED <<file, proc, topo, port, killed>> /\ ~up
        /\ run' = run + 1 /\ up' = JsonReads(file) /\ shown' = Nothing
    BY <1>1 DEF Start
  <2>2. Typed' /\ NoOrphans' /\ Filed' /\ Readable'
    BY <2>1 DEF Nothing
  <2>3. Read'
    BY <1>9, <2>1
  <2> QED
    BY <2>2, <2>3
<1>2. CASE Spawn
  <2>1. /\ UNCHANGED <<file, run, up, topo, port, shown, killed>> /\ up
        /\ proc' = [proc EXCEPT ![<<run, row'>>] = "starting"]
    BY <1>2 DEF Spawn
  <2>2. Typed' /\ Filed' /\ Readable'
    BY <2>1
  <2>3. NoOrphans'
    BY <2>1
  <2>4. Read'
    <3>1. \A p \in Pids : proc'[p] = "listening" => proc[p] = "listening"
      BY <2>1
    <3> QED
      BY <1>9, <2>1, <3>1
  <2> QED
    BY <2>2, <2>3, <2>4
<1>3. CASE Return
  <2>1. /\ UNCHANGED <<file, run, topo, port, shown, killed>> /\ ~up'
        /\ proc' = [p \in Pids |-> IF p[1] = run /\ proc[p] # "absent"
                                   THEN "gone" ELSE proc[p]]
    BY <1>3 DEF Return, Processes
  <2>4. \A p \in Pids : /\ Alive(p)' => Alive(p) /\ p[1] # run
                        /\ proc'[p] # "absent" => proc[p] # "absent"
    BY <2>1
  <2>2. Typed' /\ Filed' /\ Readable'
    BY <2>1, <2>4
  <2>5. NoOrphans'
    <3> HIDE DEF Alive
    <3> QED
      BY <2>1, <2>4
  <2>3. Read'
    <3>1. \A p \in Pids : proc'[p] = "listening" => proc[p] = "listening"
      BY <2>1
    <3> QED
      BY <1>9, <2>1, <3>1
  <2> QED
    BY <2>2, <2>3, <2>5
<1>4. CASE Killed
  <2>1. /\ UNCHANGED <<file, run, proc, topo, port, shown>> /\ ~up' /\ up
        /\ killed' = killed \cup {run}
    BY <1>4 DEF Killed
  <2>2. Typed' /\ Filed' /\ Readable'
    BY <2>1
  <2>4. NoOrphans'
    <3>1. \A p \in Pids : Alive(p)' = Alive(p)
      BY <2>1
    <3> HIDE DEF Alive
    <3> QED
      BY <2>1, <3>1
  <2>3. Read'
    BY <1>9, <2>1
  <2> QED
    BY <2>2, <2>3, <2>4
<1>5. ASSUME NEW p \in Processes, Listen(p) PROVE IInv'
  <2> DEFINE t   == Parsed(Text(file))
             id  == CInt(Id(p[2]))
  <2>1. /\ p \in Pids /\ JsonReads(file) /\ proc[p] = "starting"
        /\ UNCHANGED <<file, run, up, row, shown, killed>>
    BY <1>5 DEF Listen, Processes
  <2>2. /\ topo' = [topo EXCEPT ![p] = IF id > 0 THEN t ELSE Unread]
        /\ \/ /\ proc' = [proc EXCEPT ![p] = "gone"] /\ UNCHANGED port
           \/ /\ id > 0 /\ proc' = [proc EXCEPT ![p] = "listening"]
              /\ \E b \in Bound(MyPort(t, id)) : port' = [port EXCEPT ![p] = b]
    BY <1>5 DEF Listen
  <2>3. Plain(file) => t = Contents
    BY <2>1, FileIs
  <2> HIDE DEF t
  <2>4. Typed' /\ NoOrphans' /\ Filed' /\ Readable'
    BY <2>1, <2>2
  <2>5. ASSUME Plain(file), NEW q \in Pids
        PROVE  /\ topo'[q] # Unread => topo'[q] = Contents
               /\ proc'[q] = "listening" =>
                    topo'[q] = Contents /\ port'[q] \in Bound(MyPort(Contents, CInt(Id(q[2]))))
    BY <2>1, <2>2, <2>3, <2>5
  <2>6. Read'
    BY <1>9, <2>1, <2>5
  <2> QED
    BY <2>4, <2>6
<1>6. ASSUME NEW p \in Processes, End(p) PROVE IInv'
  <2>1. /\ p \in Pids /\ Alive(p) /\ proc' = [proc EXCEPT ![p] = "gone"]
        /\ UNCHANGED <<file, run, up, row, topo, port, shown, killed>>
    BY <1>6 DEF End, Processes
  <2>2. Typed' /\ NoOrphans' /\ Filed' /\ Readable'
    BY <2>1
  <2>3. Read'
    BY <1>9, <2>1
  <2> QED
    BY <2>2, <2>3
<1>7. ASSUME NEW p \in Processes, Beat(p) PROVE IInv'
  <2>1. p \in Pids /\ Id(p[2]) \in Int
    BY <1>7, FileIs DEF Processes
  <2>2. Cut(Id(p[2])) \in 0 .. U16 - 1
    BY <2>1, CutIs
  <2>3. /\ UNCHANGED <<file, run, up, row, proc, topo, port, killed>>
        /\ up /\ proc[p] = "listening" /\ shown' = [shown EXCEPT ![Cut(Id(p[2]))] = p]
    BY <1>7 DEF Beat
  <2>4. Typed' /\ NoOrphans' /\ Readable'
    BY <2>1, <2>2, <2>3
  <2>5. Filed'
    BY <2>1, <2>2, <2>3
  <2>6. Read'
    BY <1>9, <2>3
  <2> QED
    BY <2>4, <2>5, <2>6
<1>8. CASE UNCHANGED vars
  <2>1. UNCHANGED <<file, run, up, row, proc, topo, port, shown, killed>>
    BY <1>8 DEF vars
  <2>2. Typed' /\ NoOrphans' /\ Filed' /\ Readable'
    BY <2>1
  <2>3. Read'
    BY <1>9, <2>1
  <2> QED
    BY <2>2, <2>3
<1> QED
  BY <1>1, <1>2, <1>3, <1>4, <1>5, <1>6, <1>7, <1>8 DEF Next

(* So it holds in every reachable state. *)
LEMMA Invariant == Spec => []IInv
  BY InitHolds, StepHolds, PTL DEF Spec

(* The figures in a row come from a process with the low bits of its id,    *)
(* its own if no other row has them, of this control plane or left behind   *)
(* by a killed one (main.py:413, 485-487, 562-582; node.cpp:129).           *)
THEOREM RowsAreTrue == Spec => []RowShowsItsOwnNode
<1>1. IInv => RowShowsItsOwnNode
  <2> SUFFICES ASSUME IInv, NEW r \in Rows, up, InRow(r) # Nobody
               PROVE  LET p == InRow(r)
                      IN  /\ Cut(Id(p[2])) = Id(r)
                          /\ LowAlone(r) => p[2] = r
                          /\ p[1] = run \/ p[1] \in killed
    BY DEF RowShowsItsOwnNode
  <2> DEFINE p == InRow(r)
  <2>1. /\ Id(r) \in 0 .. U16 - 1 /\ p = shown[Id(r)] /\ p \in Pids
        /\ Cut(Id(p[2])) = Id(r)
        /\ p[1] = run \/ p[1] \in killed
    BY DEF InRow, IInv, Typed, Filed
  <2>2. p[2] \in Rows
    BY <2>1 DEF Pids
  <2>3. Cut(Id(r)) = Id(r)
    BY <2>1, CutIs
  <2> QED
    BY <2>1, <2>2, <2>3 DEF LowAlone
<1> QED
  BY <1>1, Invariant, PTL

(* A process that read the file has the nodes and edges the control plane   *)
(* has, their numbers as ints, whatever the order of the members and parts, *)
(* unless a word of the file is one of the names or brackets it searches    *)
(* for (topology.h:30-107, main.py:386-394).                                *)
THEOREM ReadersDoAgree == Spec => []ReadersAgree
<1>1. IInv => ReadersAgree
  BY DEF IInv, Typed, Read, ReadersAgree, Contents, Processes
<1> QED
  BY <1>1, Invariant, PTL

(* The first and the last of some rows are among them. *)
LEMMA Greatest ==
  ASSUME NEW n \in Nat, NEW S \in SUBSET (1 .. n), S # {}
  PROVE  Max(S) \in S /\ Min(S) \in S
<1>1. PICK x \in S : \A y \in S : x <= y
  <2>1. S \in SUBSET Nat
    OBVIOUS
  <2> QED
    BY <2>1, Least
<1>2. PICK z \in S : \A y \in S : y <= z
  <2> DEFINE D == {n - y : y \in S}
  <2>1. D \in SUBSET Nat /\ D # {}
    OBVIOUS
  <2>2. PICK d \in D : \A e \in D : d <= e
    <3> HIDE DEF D
    <3> QED
      BY <2>1, Least
  <2>3. PICK z \in S : d = n - z
    BY <2>2
  <2>4. ASSUME NEW y \in S PROVE y <= z
    <3>1. n - y \in D
      OBVIOUS
    <3>2. n - z <= n - y /\ y \in Nat /\ z \in Nat
      BY <2>2, <2>3, <3>1
    <3> QED
      BY <3>2
  <2> QED
    BY <2>4
<1> QED
  BY <1>1, <1>2 DEF Max, Min

(* A CONTROL for a row's id goes to a port its process listens at, if it    *)
(* can be sent; the generators and the other nodes agree on one; and who    *)
(* else listens there asked for the same port, or either asked for any, or  *)
(* was left behind by a killed control plane (main.py:369-380;              *)
(* node.cpp:192-202, 244; ddos.py:40-46).                                   *)
THEOREM MessagesFind == Spec => []MessagesFindTheirNode
<1>1. IInv => MessagesFindTheirNode
  <2> SUFFICES ASSUME IInv, NEW p \in Processes, proc[p] = "listening"
               PROVE  /\ Plain(file) /\ IdsApart =>
                           /\ PortById(Id(p[2])) \in 1 .. U16 - 1 => port[p] = PortById(Id(p[2]))
                           /\ \A r \in Rows :
                                LoadNodePort(Id(r)) \in 1 .. U16 - 1 =>
                                  Endpoint(topo[p], CInt(Id(r))) = LoadNodePort(Id(r))
                      /\ \A q \in Processes :
                           proc[q] = "listening" /\ port[q] = port[p] =>
                             /\ Plain(file) /\ IdsApart =>
                                  Asked(p[2]) = Asked(q[2]) \/ 0 \in {Asked(p[2]), Asked(q[2])}
                             /\ q[1] < p[1] => q[1] \in killed
    BY DEF MessagesFindTheirNode
  <2>1. /\ Processes = Pids /\ file \in Files /\ run \in Nat /\ killed \subseteq 1 .. run
        /\ Len(file.nodes) \in Nat /\ Rows = 1 .. Len(file.nodes)
        /\ \A r \in Rows : file.nodes[r].port \in Int
        /\ \A q \in Pids : q[1] \in Nat /\ q[2] \in Rows
    BY FileIs DEF IInv, Typed, Processes, Pids
  <2> DEFINE Same(i) == {r \in Rows : Id(r) = i}
  <2>2. ASSUME IdsApart, NEW r \in Rows
        PROVE  RowsOf(Contents, CInt(Id(r))) = Same(Id(r))
    <3>1. RowsOf(Contents, CInt(Id(r))) = {q \in Rows : CInt(Id(q)) = CInt(Id(r))}
      BY DEF RowsOf, Contents
    <3> QED
      BY <2>2, <3>1 DEF IdsApart
  <2>3. ASSUME NEW r \in Rows PROVE PortAt(Contents, r) = CInt(file.nodes[r].port)
    BY DEF PortAt, Contents
  <2>4. ASSUME NEW r \in Rows
        PROVE  Max(Same(Id(r))) \in Rows /\ Min(Same(Id(r))) \in Rows /\ Same(Id(r)) # {}
    <3> DEFINE S == Same(Id(r))
    <3>1. S \in SUBSET (1 .. Len(file.nodes)) /\ S # {} /\ Len(file.nodes) \in Nat
      BY <2>1
    <3> HIDE DEF S
    <3>2. Max(S) \in S /\ Min(S) \in S
      BY <3>1, Greatest
    <3> QED
      BY <2>1, <3>1, <3>2 DEF S
  <2>5. ASSUME NEW r \in Rows
        PROVE  PortById(Id(r)) \in Int /\ LoadNodePort(Id(r)) \in Int
    BY <2>1, <2>4 DEF PortById, LoadNodePort
  <2>6. ASSUME Plain(file), IdsApart, NEW q \in Pids, proc[q] = "listening"
        PROVE  /\ topo[q] = Contents
               /\ Asked(q[2]) # 0 => port[q] = Asked(q[2])
    <3>1. q[2] \in Rows /\ topo[q] = Contents
          /\ port[q] \in Bound(MyPort(Contents, CInt(Id(q[2]))))
      BY <2>1, <2>6 DEF IInv, Read
    <3>2. MyPort(Contents, CInt(Id(q[2]))) = CInt(PortById(Id(q[2])))
      <4>1. MyPort(Contents, CInt(Id(q[2]))) = PortAt(Contents, Max(Same(Id(q[2]))))
        BY <2>2, <2>4, <2>6, <3>1 DEF MyPort
      <4> QED
        BY <2>3, <2>4, <3>1, <4>1 DEF PortById
    <3> QED
      BY <3>1, <3>2 DEF Bound, Asked, Cut
  <2>7. ASSUME Plain(file), IdsApart, PortById(Id(p[2])) \in 1 .. U16 - 1
        PROVE  port[p] = PortById(Id(p[2]))
    <3>1. Asked(p[2]) = PortById(Id(p[2])) /\ Asked(p[2]) # 0
      BY <2>1, <2>5, <2>7, CutIs DEF Asked
    <3> QED
      BY <2>1, <2>6, <2>7, <3>1
  <2>8. ASSUME Plain(file), IdsApart, NEW r \in Rows, LoadNodePort(Id(r)) \in 1 .. U16 - 1
        PROVE  Endpoint(topo[p], CInt(Id(r))) = LoadNodePort(Id(r))
    <3>1. topo[p] = Contents
      BY <2>1, <2>6, <2>8
    <3>2. PortAt(Contents, Min(Same(Id(r)))) = CInt(LoadNodePort(Id(r)))
      BY <2>3, <2>4 DEF LoadNodePort
    <3>3. Endpoint(topo[p], CInt(Id(r))) = Cut(LoadNodePort(Id(r)))
      BY <2>2, <2>8, <3>1, <3>2 DEF Endpoint, Cut
    <3> QED
      BY <2>5, <2>8, <3>3, CutIs
  <2>9. ASSUME NEW q \in Processes, proc[q] = "listening", port[q] = port[p]
        PROVE  /\ Plain(file) /\ IdsApart =>
                    Asked(p[2]) = Asked(q[2]) \/ 0 \in {Asked(p[2]), Asked(q[2])}
               /\ q[1] < p[1] => q[1] \in killed
    <3>1. Plain(file) /\ IdsApart =>
            Asked(p[2]) = Asked(q[2]) \/ 0 \in {Asked(p[2]), Asked(q[2])}
      BY <2>1, <2>6, <2>9
    <3>2. (p[1] = run \/ p[1] \in killed) /\ (q[1] = run \/ q[1] \in killed)
      BY <2>1, <2>9 DEF IInv, NoOrphans, Alive
    <3>3. p[1] <= run
      BY <2>1, <3>2
    <3> QED
      BY <2>1, <3>1, <3>2, <3>3
  <2> QED
    BY <2>7, <2>8, <2>9
<1> QED
  BY <1>1, Invariant, PTL
=============================================================================
