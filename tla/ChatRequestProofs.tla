------------------------- MODULE ChatRequestProofs -------------------------
(***************************************************************************)
(* Proofs about ChatRequest, for messages of any number, role, content and *)
(* calls: the request keeps every text, and the calls of the turn it       *)
(* continues come first and in order.  chat_to_responses is a loop over    *)
(* the messages, and the proofs are by induction over their number.        *)
(***************************************************************************)
EXTENDS ChatRequest, Integers, SequenceTheorems, FiniteSetTheorems, WellFoundedInduction,
        TLAPS

(* Sequences, by induction over their length: a set of numbers that is     *)
(* closed under successor has no least gap (WFMin).                        *)

\* Induction over Nat, for a set of numbers.
LEMMA SetInduction ==
  ASSUME NEW S, 0 \in S, \A n \in Nat : n \in S => n + 1 \in S
  PROVE  Nat \subseteq S
<1> SUFFICES ASSUME Nat \ S # {} PROVE FALSE
  OBVIOUS
<1> DEFINE T == Nat \ S
<1>1. PICK x \in T : \A y \in T : ~(<<y, x>> \in OpToRel(<, Nat))
  BY NatLessThanWellFounded, WFMin
<1>2. x # 0 /\ x - 1 \in Nat /\ x - 1 < x
  OBVIOUS
<1>3. x - 1 \in S
  <2>1. <<x-1, x>> \in OpToRel(<, Nat)
    BY <1>2 DEF OpToRel
  <2>2. QED
    BY <1>1, <1>2, <2>1
<1>4. QED
  BY <1>2, <1>3

\* The recursive function in FlattenSeq exists, for any number of parts.
LEMMA FlattenFcn ==
  ASSUME NEW s, NEW n \in Nat
  PROVE  \E f : f = [i \in 1..n |-> IF i = 1 THEN s[i] ELSE f[i-1] \o s[i]]
<1> DEFINE Exists(k) == \E f : f = [i \in 1..k |-> IF i = 1 THEN s[i] ELSE f[i-1] \o s[i]]
           S == {k \in Nat : Exists(k)}
<1>1. 0 \in S
  <2>1. [i \in 1..0 |-> 1]
          = [i \in 1..0 |-> IF i = 1 THEN s[i] ELSE [j \in 1..0 |-> 1][i-1] \o s[i]]
    OBVIOUS
  <2>2. QED
    BY <2>1
<1>2. ASSUME NEW k \in Nat, k \in S PROVE k + 1 \in S
  <2>1. PICK f : f = [i \in 1..k |-> IF i = 1 THEN s[i] ELSE f[i-1] \o s[i]]
    BY <1>2
  <2>2. \A i \in 1..k : f[i] = IF i = 1 THEN s[i] ELSE f[i-1] \o s[i]
    BY <2>1
  <2> DEFINE g == [i \in 1..k+1 |-> IF i <= k THEN f[i] ELSE IF i = 1 THEN s[i] ELSE f[i-1] \o s[i]]
  <2>3. \A i \in 1..k : g[i] = f[i]
    OBVIOUS
  <2>4. g[k+1] = IF k = 0 THEN s[1] ELSE f[k] \o s[k+1]
    OBVIOUS
  <2>5. DOMAIN g = 1..k+1 /\ g = [i \in 1..k+1 |-> g[i]]
    OBVIOUS
  <2> HIDE DEF g
  <2>6. ASSUME NEW i \in 1..k+1 PROVE g[i] = IF i = 1 THEN s[i] ELSE g[i-1] \o s[i]
    <3>1. CASE i = k + 1 /\ k = 0
      BY <3>1, <2>4
    <3>2. CASE i = k + 1 /\ k # 0
      <4>1. k \in 1..k /\ i # 1 /\ i - 1 = k
        BY <3>2
      <4>2. g[k] = f[k]
        BY <4>1, <2>3
      <4>3. QED
        BY <4>1, <4>2, <3>2, <2>4
    <3>3. CASE i \in 1..k /\ i = 1
      BY <3>3, <2>2, <2>3
    <3>4. CASE i \in 1..k /\ i # 1
      <4>1. i - 1 \in 1..k
        BY <3>4
      <4>2. g[i] = f[i] /\ g[i-1] = f[i-1]
        BY <3>4, <4>1, <2>3
      <4>3. QED
        BY <3>4, <4>2, <2>2
    <3>5. QED
      BY <3>1, <3>2, <3>3, <3>4
  <2>7. g = [i \in 1..k+1 |-> IF i = 1 THEN s[i] ELSE g[i-1] \o s[i]]
    BY <2>5, <2>6
  <2>8. Exists(k+1)
    BY <2>7
  <2> HIDE DEF Exists
  <2>9. QED
    BY <2>8
<1>3. n \in S
  BY <1>1, <1>2, SetInduction
<1>4. QED
  BY <1>3

\* FlattenSeq is a running concatenation.
LEMMA FlattenDef ==
  ASSUME NEW s, NEW n \in Nat \ {0}, Len(s) = n
  PROVE  \E f : /\ f[1] = s[1] /\ FlattenSeq(s) = f[n]
                /\ \A k \in 1..n-1 : f[k+1] = f[k] \o s[k+1]
<1>1. \E f : f = [i \in 1..n |-> IF i = 1 THEN s[i] ELSE f[i-1] \o s[i]]
  BY FlattenFcn
<1>2. PICK f : /\ f = [i \in 1..n |-> IF i = 1 THEN s[i] ELSE f[i-1] \o s[i]]
               /\ FlattenSeq(s) = f[n]
  BY <1>1 DEF FlattenSeq
<1>3. \A i \in 1..n : f[i] = IF i = 1 THEN s[i] ELSE f[i-1] \o s[i]
  BY <1>2
<1>4. f[1] = s[1]
  BY <1>3
<1>5. ASSUME NEW k \in 1..n-1 PROVE f[k+1] = f[k] \o s[k+1]
  <2>1. PICK i \in 1..n : i = k + 1 /\ i # 1 /\ i - 1 = k
    OBVIOUS
  <2>2. f[i] = f[i-1] \o s[i]
    BY <1>3, <2>1
  <2>3. QED
    BY <2>1, <2>2
<1>6. QED
  BY <1>2, <1>4, <1>5

\* Of no parts it is empty.
LEMMA FlattenNone == FlattenSeq(<<>>) = <<>>
<1>1. Len(<<>>) = 0
  BY EmptySeq
<1>2. QED
  BY <1>1 DEF FlattenSeq

\* One more part goes to the end.
LEMMA FlattenStep ==
  ASSUME NEW E, NEW f \in Seq(Seq(E)), NEW g \in Seq(Seq(E)), NEW n \in Nat,
         Len(f) = n, Len(g) = n + 1, \A i \in 1..n : g[i] = f[i]
  PROVE  FlattenSeq(g) = FlattenSeq(f) \o g[n+1]
<1>0. PICK m \in Nat \ {0} : Len(g) = m /\ m = n + 1
  OBVIOUS
<1>1. PICK b : /\ b[1] = g[1] /\ FlattenSeq(g) = b[m]
               /\ \A k \in 1..m-1 : b[k+1] = b[k] \o g[k+1]
  BY <1>0, FlattenDef, Zenon
<1>2. b[1] = g[1] /\ FlattenSeq(g) = b[n+1] /\ \A k \in 1..n : b[k+1] = b[k] \o g[k+1]
  <2>1. 1..m-1 = 1..n
    BY <1>0
  <2>2. QED
    BY <1>0, <1>1, <2>1, Zenon
<1>3. CASE n = 0
  <2>1. FlattenSeq(f) = <<>>
    BY <1>3, FlattenNone, EmptySeq
  <2>2. FlattenSeq(g) = g[1]
    BY <1>2, <1>3
  <2>3. QED
    BY <1>3, <2>1, <2>2
<1>4. CASE n # 0
  <2>1. PICK a : /\ a[1] = f[1] /\ FlattenSeq(f) = a[n]
                 /\ \A k \in 1..n-1 : a[k+1] = a[k] \o f[k+1]
    <3>1. n \in Nat \ {0}
      BY <1>4
    <3>2. QED
      BY <3>1, FlattenDef, Zenon
  <2> DEFINE S == {k \in Nat : k \in 1..n => b[k] = a[k]}
  <2>3. 0 \in S
    OBVIOUS
  <2>4. ASSUME NEW k \in Nat, k \in S PROVE k + 1 \in S
    <3> SUFFICES ASSUME k + 1 \in 1..n PROVE b[k+1] = a[k+1]
      OBVIOUS
    <3>1. k + 1 \in 1..n+1 /\ g[k+1] = f[k+1]
      OBVIOUS
    <3>2. CASE k = 0
      BY <3>1, <3>2, <1>2, <2>1
    <3>3. CASE k # 0
      <4>1. k \in 1..n /\ k \in 1..n-1
        BY <3>3
      <4>2. b[k] = a[k]
        BY <4>1, <2>4
      <4>3. b[k+1] = b[k] \o g[k+1] /\ a[k+1] = a[k] \o f[k+1]
        BY <4>1, <1>2, <2>1
      <4>4. QED
        BY <3>1, <4>2, <4>3
    <3>4. QED
      BY <3>2, <3>3
  <2>5. n \in S
    BY <2>3, <2>4, SetInduction
  <2>6. b[n] = a[n]
    BY <2>5, <1>4
  <2>7. b[n+1] = b[n] \o g[n+1]
    <3>1. n \in 1..n
      BY <1>4
    <3>2. QED
      BY <3>1, <1>2
  <2>8. QED
    BY <1>2, <2>1, <2>6, <2>7
<1>5. QED
  BY <1>3, <1>4

\* What is flattened comes from the parts.
LEMMA FlattenType ==
  ASSUME NEW E, NEW pieces \in Seq(Seq(E))
  PROVE  FlattenSeq(pieces) \in Seq(E)
<1> DEFINE Done == {n \in Nat : \A s \in Seq(Seq(E)) : Len(s) = n => FlattenSeq(s) \in Seq(E)}
<1>1. 0 \in Done
  <2>1. \A s \in Seq(Seq(E)) : Len(s) = 0 => s = <<>>
    BY EmptySeq
  <2>2. FlattenSeq(<<>>) \in Seq(E)
    BY FlattenNone, EmptySeq
  <2>3. QED
    BY <2>1, <2>2
<1>2. ASSUME NEW n \in Nat, n \in Done PROVE n + 1 \in Done
  <2> SUFFICES ASSUME NEW s \in Seq(Seq(E)), Len(s) = n + 1
               PROVE  FlattenSeq(s) \in Seq(E)
    OBVIOUS
  <2> DEFINE f == [i \in 1..n |-> s[i]]
  <2>1. /\ f \in Seq(Seq(E)) /\ Len(f) = n
        /\ \A i \in 1..n : s[i] = f[i]
        /\ s[n+1] \in Seq(E)
    OBVIOUS
  <2> HIDE DEF f
  <2>2. FlattenSeq(f) \in Seq(E)
    BY <1>2, <2>1
  <2>3. FlattenSeq(s) = FlattenSeq(f) \o s[n+1]
    BY <2>1, FlattenStep, Zenon
  <2>4. QED
    BY <2>1, <2>2, <2>3
<1>3. QED
  <2>1. Nat \subseteq Done
    BY <1>1, <1>2, SetInduction
  <2>2. Len(pieces) \in Done
    BY <2>1
  <2>3. QED
    BY <2>2

\* Flattening distributes over concatenation.
LEMMA FlattenConcat ==
  ASSUME NEW E, NEW s \in Seq(Seq(E)), NEW t \in Seq(Seq(E))
  PROVE  FlattenSeq(s \o t) = FlattenSeq(s) \o FlattenSeq(t)
<1> DEFINE Done == {n \in Nat : \A u \in Seq(Seq(E)) :
                   Len(u) = n => FlattenSeq(s \o u) = FlattenSeq(s) \o FlattenSeq(u)}
<1>1. 0 \in Done
  <2>1. \A u \in Seq(Seq(E)) : Len(u) = 0 => u = <<>>
    BY EmptySeq
  <2>2. s \o <<>> = s /\ FlattenSeq(s) \o <<>> = FlattenSeq(s)
    BY ConcatEmptySeq, FlattenType
  <2>3. QED
    BY <2>1, <2>2, FlattenNone
<1>2. ASSUME NEW n \in Nat, n \in Done PROVE n + 1 \in Done
  <2> SUFFICES ASSUME NEW u \in Seq(Seq(E)), Len(u) = n + 1
               PROVE  FlattenSeq(s \o u) = FlattenSeq(s) \o FlattenSeq(u)
    OBVIOUS
  <2> DEFINE f == [i \in 1..n |-> u[i]]
  <2>1. /\ f \in Seq(Seq(E)) /\ Len(f) = n
        /\ \A i \in 1..n : u[i] = f[i]
        /\ u[n+1] \in Seq(E)
    OBVIOUS
  <2> HIDE DEF f
  <2>2. FlattenSeq(s \o f) = FlattenSeq(s) \o FlattenSeq(f)
    BY <1>2, <2>1
  <2>3. FlattenSeq(u) = FlattenSeq(f) \o u[n+1]
    BY <2>1, FlattenStep, Zenon
  <2>4. FlattenSeq(s \o u) = FlattenSeq(s \o f) \o u[n+1]
    <3>1. PICK k \in Nat : k = Len(s) + n
      OBVIOUS
    <3>2. /\ s \o f \in Seq(Seq(E)) /\ Len(s \o f) = k
          /\ s \o u \in Seq(Seq(E)) /\ Len(s \o u) = k + 1
          /\ \A i \in 1..k : (s \o f)[i] = IF i <= Len(s) THEN s[i] ELSE f[i - Len(s)]
          /\ \A i \in 1..k+1 : (s \o u)[i] = IF i <= Len(s) THEN s[i] ELSE u[i - Len(s)]
      BY <2>1, <3>1, ConcatProperties
    <3>3. (s \o u)[k+1] = u[n+1]
      BY <3>1, <3>2
    <3>4. ASSUME NEW i \in 1..k PROVE (s \o u)[i] = (s \o f)[i]
      <4>1. i > Len(s) => i - Len(s) \in 1..n
        BY <3>1
      <4>2. QED
        BY <2>1, <3>2, <4>1
    <3>5. FlattenSeq(s \o u) = FlattenSeq(s \o f) \o (s \o u)[k+1]
      <4>1. PICK a \in Seq(Seq(E)), b \in Seq(Seq(E)) : a = s \o f /\ b = s \o u
        BY <3>2
      <4>2. Len(a) = k /\ Len(b) = k + 1 /\ \A i \in 1..k : b[i] = a[i]
        BY <3>2, <3>4, <4>1
      <4>3. FlattenSeq(b) = FlattenSeq(a) \o b[k+1]
        BY <4>2, FlattenStep
      <4>4. QED
        BY <4>1, <4>3
    <3>6. QED
      BY <3>5, <3>3, Zenon
  <2>5. FlattenSeq(s) \in Seq(E) /\ FlattenSeq(f) \in Seq(E) /\ u[n+1] \in Seq(E)
    BY <2>1, FlattenType
  <2>6. (FlattenSeq(s) \o FlattenSeq(f)) \o u[n+1] = FlattenSeq(s) \o (FlattenSeq(f) \o u[n+1])
    <3>1. PICK a \in Seq(E), b \in Seq(E), c \in Seq(E) :
            a = FlattenSeq(s) /\ b = FlattenSeq(f) /\ c = u[n+1]
      BY <2>5
    <3>2. (a \o b) \o c = a \o (b \o c)
      OBVIOUS
    <3>3. QED
      BY <3>1, <3>2
  <2>7. QED
    BY <2>2, <2>3, <2>4, <2>6
<1>3. QED
  <2>1. Nat \subseteq Done
    BY <1>1, <1>2, SetInduction
  <2>2. Len(t) \in Done
    BY <2>1
  <2>3. QED
    BY <2>2


----------------------------------------------------------------------------
(* Blocks of text.                                                         *)

\* Texts counts.
LEMMA TextsType ==
  ASSUME NEW E, NEW a \in Seq(E), NEW types
  PROVE  /\ IsFiniteSet({n \in DOMAIN a : a[n] \in types})
         /\ Texts(a, types) \in Nat
<1>1. IsFiniteSet(1..Len(a)) /\ DOMAIN a = 1..Len(a)
  BY FS_Interval, LenProperties
<1>2. IsFiniteSet({n \in DOMAIN a : a[n] \in types})
  BY <1>1, FS_Subset
<1>3. QED
  BY <1>2, FS_CardinalityType DEF Texts

\* Nothing has no text.
LEMMA TextsNone == ASSUME NEW types PROVE Texts(<<>>, types) = 0
<1>1. {n \in DOMAIN <<>> : <<>>[n] \in types} = {}
  OBVIOUS
<1>2. QED
  BY <1>1, FS_EmptySet DEF Texts

\* One block counts if it is of one of the types.
LEMMA TextsOne ==
  ASSUME NEW block, NEW types
  PROVE  Texts(<<block>>, types) = IF block \in types THEN 1 ELSE 0
<1>1. {n \in DOMAIN <<block>> : <<block>>[n] \in types} = IF block \in types THEN {1} ELSE {}
  OBVIOUS
<1>2. QED
  BY <1>1, FS_EmptySet, FS_Singleton DEF Texts

\* Texts are counted part by part.
LEMMA TextsConcat ==
  ASSUME NEW E, NEW a \in Seq(E), NEW b \in Seq(E), NEW types
  PROVE  Texts(a \o b, types) = Texts(a, types) + Texts(b, types)
<1> DEFINE In(s) == {n \in DOMAIN s : s[n] \in types}
           Moved == {n + Len(a) : n \in In(b)}
<1>1. /\ IsFiniteSet(In(a)) /\ IsFiniteSet(In(b))
      /\ Cardinality(In(a)) = Texts(a, types) /\ Cardinality(In(b)) = Texts(b, types)
      /\ Texts(a, types) \in Nat /\ Texts(b, types) \in Nat
  BY TextsType DEF Texts
<1>2. In(a \o b) = In(a) \cup Moved
  <2>1. /\ DOMAIN a = 1..Len(a) /\ DOMAIN b = 1..Len(b)
        /\ DOMAIN (a \o b) = 1..Len(a)+Len(b) /\ Len(a) \in Nat /\ Len(b) \in Nat
        /\ \A i \in 1..Len(a)+Len(b) :
             (a \o b)[i] = IF i <= Len(a) THEN a[i] ELSE b[i - Len(a)]
    BY ConcatProperties, LenProperties
  <2>2. ASSUME NEW n \in In(a \o b) PROVE n \in In(a) \cup Moved
    <3>1. CASE n <= Len(a)
      BY <2>1, <3>1
    <3>2. CASE n > Len(a)
      <4>1. PICK m \in In(b) : n = m + Len(a)
        <5>1. n - Len(a) \in In(b)
          BY <2>1, <3>2
        <5>2. n = (n - Len(a)) + Len(a)
          BY <2>1
        <5>3. QED
          BY <5>1, <5>2
      <4>2. QED
        BY <4>1
    <3>3. QED
      BY <2>1, <3>1, <3>2
  <2>3. ASSUME NEW n \in In(a) PROVE n \in In(a \o b)
    BY <2>1
  <2>4. ASSUME NEW m \in In(b) PROVE m + Len(a) \in In(a \o b)
    BY <2>1
  <2>5. QED
    BY <2>2, <2>3, <2>4
<1>3. In(a) \cap Moved = {}
  BY LenProperties
<1>4. IsFiniteSet(Moved) /\ Cardinality(Moved) = Cardinality(In(b))
  <2> DEFINE f == [n \in In(b) |-> n + Len(a)]
  <2>1. f \in [In(b) -> Moved]
    OBVIOUS
  <2>2. \A n, m \in In(b) : f[n] = f[m] => n = m
    BY LenProperties
  <2>3. \A n \in Moved : \E m \in In(b) : f[m] = n
    OBVIOUS
  <2> HIDE DEF f, Moved
  <2>4. f \in Bijection(In(b), Moved)
    BY <2>1, <2>2, <2>3 DEF Bijection, Injection, Surjection, IsInjective
  <2>5. ExistsBijection(In(b), Moved)
    BY <2>4 DEF ExistsBijection
  <2>6. QED
    BY <1>1, <2>5, FS_Bijection
<1> HIDE DEF Moved
<1>5. Cardinality(In(a \o b)) = Cardinality(In(a)) + Cardinality(Moved)
  <2>1. Cardinality(In(a) \cap Moved) = 0
    BY <1>3, FS_EmptySet
  <2>2. Cardinality(In(a) \cup Moved)
          = Cardinality(In(a)) + Cardinality(Moved) - Cardinality(In(a) \cap Moved)
    BY <1>1, <1>4, FS_Union, Zenon
  <2> HIDE DEF In
  <2>3. QED
    BY <1>1, <1>2, <1>4, <2>1, <2>2
<1>6. QED
  BY <1>1, <1>4, <1>5 DEF Texts


----------------------------------------------------------------------------
(* A message.                                                              *)

\* A table that maps to text what is heard, and nothing else, keeps what is heard of a
\* list: the induction is over the length of the list.
LEMMA TranslatedKeepsText ==
  ASSUME NEW blocks \in Seq(Blocks), NEW table, NEW types, NEW heard,
         \A b \in DOMAIN table : table[b] \in Blocks,
         \A b \in Blocks : b \in DOMAIN table /\ table[b] \in types <=> b \in heard
  PROVE  /\ Translated(blocks, table) \in Seq(Blocks)
         /\ Texts(Translated(blocks, table), types) = Texts(blocks, heard)
<1> DEFINE Piece(b) == IF b \in DOMAIN table THEN <<table[b]>> ELSE <<>>
           Pieces(n) == [i \in 1..n |-> Piece(blocks[i])]
           Lead(n) == [i \in 1..n |-> blocks[i]]
           Same(n) == n <= Len(blocks) =>
                        Texts(FlattenSeq(Pieces(n)), types) = Texts(Lead(n), heard)
           Done == {n \in Nat : Same(n)}
<1>1. /\ Len(blocks) \in Nat /\ DOMAIN blocks = 1..Len(blocks)
      /\ \A i \in 1..Len(blocks) : blocks[i] \in Blocks
  BY LenProperties, ElementOfSeq
<1>2. \A b \in Blocks :
        /\ Piece(b) \in Seq(Blocks)
        /\ Texts(Piece(b), types) = Texts(<<b>>, heard)
  <2> SUFFICES ASSUME NEW b \in Blocks
               PROVE  /\ Piece(b) \in Seq(Blocks)
                      /\ Texts(Piece(b), types) = Texts(<<b>>, heard)
    OBVIOUS
  <2>1. CASE b \in DOMAIN table
    <3>1. Piece(b) = <<table[b]>> /\ table[b] \in Blocks
      BY <2>1
    <3>2. Texts(<<table[b]>>, types) = Texts(<<b>>, heard)
      BY <2>1, TextsOne
    <3>3. <<table[b]>> \in Seq(Blocks)
      BY <3>1
    <3> HIDE DEF Piece
    <3>4. QED
      BY <3>1, <3>2, <3>3, Zenon
  <2>2. CASE b \notin DOMAIN table
    <3>1. Piece(b) = <<>> /\ b \notin heard
      BY <2>2
    <3>2. Texts(<<>>, types) = Texts(<<b>>, heard)
      BY <3>1, TextsNone, TextsOne
    <3>3. QED
      BY <3>1, <3>2, EmptySeq
  <2>3. QED
    BY <2>1, <2>2
<1> HIDE DEF Piece
<1>3. ASSUME NEW n \in Nat, n <= Len(blocks)
      PROVE  /\ Pieces(n) \in Seq(Seq(Blocks)) /\ Len(Pieces(n)) = n
             /\ Lead(n) \in Seq(Blocks) /\ Len(Lead(n)) = n
  <2>1. ASSUME NEW i \in 1..n
        PROVE  blocks[i] \in Blocks /\ Piece(blocks[i]) \in Seq(Blocks)
    <3>1. i \in 1..Len(blocks)
      BY <1>1, <1>3
    <3>2. QED
      BY <3>1, <1>1, <1>2
  <2>2. Pieces(n) \in [1..n -> Seq(Blocks)] /\ Lead(n) \in [1..n -> Blocks]
    BY <2>1
  <2> HIDE DEF Pieces, Lead
  <2>3. Pieces(n) \in Seq(Seq(Blocks)) /\ Len(Pieces(n)) = n
    BY <2>2
  <2>4. Lead(n) \in Seq(Blocks) /\ Len(Lead(n)) = n
    BY <2>2
  <2>5. QED
    BY <2>3, <2>4
<1>4. 0 \in Done
  <2>1. Pieces(0) = <<>> /\ Lead(0) = <<>>
    BY <1>1, <1>3, EmptySeq
  <2>2. Same(0)
    BY <2>1, FlattenNone, TextsNone
  <2>3. QED
    BY <2>2
<1>5. ASSUME NEW n \in Nat, n \in Done PROVE n + 1 \in Done
  <2> SUFFICES ASSUME n + 1 <= Len(blocks)
               PROVE  Texts(FlattenSeq(Pieces(n+1)), types) = Texts(Lead(n+1), heard)
    OBVIOUS
  <2> DEFINE b == blocks[n+1]
  <2>1. b \in Blocks /\ n <= Len(blocks)
    BY <1>1
  <2>2. /\ Pieces(n) \in Seq(Seq(Blocks)) /\ Len(Pieces(n)) = n
        /\ Pieces(n+1) \in Seq(Seq(Blocks)) /\ Len(Pieces(n+1)) = n + 1
        /\ Lead(n) \in Seq(Blocks)
    BY <2>1, <1>3
  <2>3. (\A i \in 1..n : Pieces(n+1)[i] = Pieces(n)[i]) /\ Pieces(n+1)[n+1] = Piece(b)
    OBVIOUS
  <2>4. Lead(n+1) = Lead(n) \o <<b>>
    BY <1>3, <2>1
  <2> HIDE DEF Pieces, Lead
  <2>5. Texts(Lead(n+1), heard) = Texts(Lead(n), heard) + Texts(<<b>>, heard)
    <3>1. <<b>> \in Seq(Blocks)
      BY <2>1
    <3>2. PICK front \in Seq(Blocks), last \in Seq(Blocks) : front = Lead(n) /\ last = <<b>>
      BY <2>2, <3>1
    <3>3. Texts(front \o last, heard) = Texts(front, heard) + Texts(last, heard)
      BY TextsConcat
    <3>4. Lead(n+1) = front \o last
      BY <2>4, <3>2
    <3>5. QED
      BY <3>2, <3>3, <3>4
  <2>6. FlattenSeq(Pieces(n+1)) = FlattenSeq(Pieces(n)) \o Piece(b)
    BY <2>2, <2>3, FlattenStep
  <2>7. FlattenSeq(Pieces(n)) \in Seq(Blocks) /\ Piece(b) \in Seq(Blocks)
    BY <2>1, <2>2, <1>2, FlattenType
  <2>8. Texts(FlattenSeq(Pieces(n)) \o Piece(b), types)
          = Texts(FlattenSeq(Pieces(n)), types) + Texts(Piece(b), types)
    BY <2>7, TextsConcat
  <2>9. QED
    BY <1>2, <1>5, <2>1, <2>5, <2>6, <2>8
<1>6. Same(Len(blocks))
  <2>1. Nat \subseteq Done
    BY <1>4, <1>5, SetInduction
  <2>2. QED
    BY <1>1, <2>1
<1>7. Lead(Len(blocks)) = blocks
  BY <1>1
<1>8. Translated(blocks, table) = FlattenSeq(Pieces(Len(blocks)))
  BY <1>1 DEF Translated, Piece
<1>9. Pieces(Len(blocks)) \in Seq(Seq(Blocks))
  <2>1. PICK n \in Nat : n = Len(blocks)
    BY <1>1
  <2> HIDE DEF Pieces, Lead
  <2>2. QED
    BY <2>1, <1>3
<1>10. FlattenSeq(Pieces(Len(blocks))) \in Seq(Blocks)
  BY <1>9, FlattenType, Zenon
<1>11. QED
  BY <1>1, <1>6, <1>7, <1>8, <1>10


\* Messages with calls and answers from given sets, and the items they become.
Messages(Calls, Ids) ==
  [role : Roles, content : Contents, calls : Seq(Calls), answers : SUBSET Ids]
InputItem(Calls, Ids) ==
  [type : Roles \cup {"function_call", "function_call_output"}, blocks : Seq(Blocks),
   call : SUBSET (Calls \cup [id : Ids, arguments : {<<>>}])]

\* A content is blocks, of which those that are text count in either form.
LEMMA ContentType ==
  ASSUME NEW content \in Contents
  PROVE  /\ content.form \in {"null", "string", "list"}
         /\ content.blocks \in Seq(Blocks)
         /\ content.form = "null" => content.blocks = <<>>
         /\ content.form # "list" => \A role \in Roles :
              Texts(content.blocks, Said) = Texts(content.blocks, Readable(role))
<1>1. content \in [form : {"null", "string", "list"}, blocks : Seq(Blocks)]
  BY DEF Contents
<1>2. /\ content.form \in {"null", "string", "list"} /\ content.blocks \in Seq(Blocks)
      /\ content.form = "null" => content.blocks = <<>>
      /\ content.form = "string" => content.blocks \in {<<"text">>, <<"blank">>}
  BY <1>1 DEF Contents
<1>3. ASSUME content.form # "list", NEW role \in Roles
      PROVE  Texts(content.blocks, Said) = Texts(content.blocks, Readable(role))
  <2>1. content.blocks \in {<<>>, <<"text">>, <<"blank">>}
    BY <1>2, <1>3
  <2>2. \A n \in DOMAIN content.blocks : content.blocks[n] \in {"text", "blank"}
    BY <2>1
  <2>3. \A b \in {"text", "blank"} : b \in Said <=> b \in Readable(role)
    BY DEF Said, Readable
  <2>4. {n \in DOMAIN content.blocks : content.blocks[n] \in Said}
          = {n \in DOMAIN content.blocks : content.blocks[n] \in Readable(role)}
    BY <2>2, <2>3
  <2>5. QED
    BY <2>4 DEF Texts
<1>4. QED
  BY <1>2, <1>3

\* What is heard of a message counts as text, and nothing else of it.
LEMMA HeardLaw ==
  ASSUME NEW m, m.content.blocks \in Seq(Blocks)
  PROVE  /\ Heard(m) \in Seq(Blocks)
         /\ Texts(Heard(m), {"text"}) = Texts(m.content.blocks, Readable(m.role))
<1> DEFINE blocks == m.content.blocks
<1>1. DOMAIN blocks = 1..Len(blocks) /\ Len(blocks) \in Nat
  BY LenProperties
<1>2. /\ DOMAIN Heard(m) = DOMAIN blocks
      /\ \A k \in DOMAIN blocks :
           Heard(m)[k] = IF blocks[k] \in Readable(m.role) THEN "text" ELSE "odd"
  BY DEF Heard
<1>3. "text" \in Blocks /\ "odd" \in Blocks
  BY DEF Blocks
<1>4. Heard(m) \in [1..Len(blocks) -> Blocks]
  BY <1>1, <1>3 DEF Heard
<1>5. {k \in DOMAIN Heard(m) : Heard(m)[k] \in {"text"}}
        = {k \in DOMAIN blocks : blocks[k] \in Readable(m.role)}
  BY <1>2
<1> HIDE DEF blocks
<1>6. Heard(m) \in Seq(Blocks)
  BY <1>1, <1>4
<1>7. QED
  BY <1>5, <1>6 DEF Texts, blocks

\* The blocks of parts, in the order of the parts.
LEMMA AllBlocksLaws ==
  ASSUME NEW E, \A x \in E : x.blocks \in Seq(Blocks)
  PROVE  /\ AllBlocks(<<>>) = <<>>
         /\ \A x \in E : AllBlocks(<<x>>) = x.blocks
         /\ \A s \in Seq(E) : AllBlocks(s) \in Seq(Blocks)
         /\ \A s \in Seq(E), t \in Seq(E) : AllBlocks(s \o t) = AllBlocks(s) \o AllBlocks(t)
<1> DEFINE Pieces(s) == [n \in DOMAIN s |-> s[n].blocks]
<1>1. AllBlocks(<<>>) = <<>>
  <2>1. Pieces(<<>>) = <<>>
    OBVIOUS
  <2>2. QED
    BY <2>1, FlattenNone DEF AllBlocks
<1>2. ASSUME NEW x \in E PROVE AllBlocks(<<x>>) = x.blocks
  <2>1. Len(Pieces(<<x>>)) = 1 /\ Pieces(<<x>>)[1] = x.blocks
    OBVIOUS
  <2> HIDE DEF Pieces
  <2>2. PICK n \in Nat \ {0} : n = 1
    OBVIOUS
  <2>3. Len(Pieces(<<x>>)) = n
    BY <2>1, <2>2
  <2>4. PICK f : f[1] = Pieces(<<x>>)[1] /\ FlattenSeq(Pieces(<<x>>)) = f[n]
    BY <2>3, FlattenDef, Zenon
  <2>5. QED
    BY <2>1, <2>2, <2>4 DEF AllBlocks, Pieces
<1>3. ASSUME NEW s \in Seq(E)
      PROVE  Pieces(s) \in Seq(Seq(Blocks)) /\ AllBlocks(s) \in Seq(Blocks)
  <2>1. \A n \in 1..Len(s) : s[n] \in E
    BY LenProperties, ElementOfSeq
  <2>2. Pieces(s) \in Seq(Seq(Blocks))
    <3>1. DOMAIN s = 1..Len(s) /\ Len(s) \in Nat
      BY LenProperties
    <3>2. Pieces(s) \in [1..Len(s) -> Seq(Blocks)]
      BY <2>1, <3>1
    <3> HIDE DEF Pieces
    <3>3. PICK n \in Nat : Pieces(s) \in [1..n -> Seq(Blocks)]
      BY <3>1, <3>2
    <3>4. QED
      BY <3>3
  <2>3. FlattenSeq(Pieces(s)) \in Seq(Blocks)
    BY <2>2, FlattenType
  <2>4. QED
    BY <2>2, <2>3 DEF AllBlocks
<1>4. ASSUME NEW s \in Seq(E), NEW t \in Seq(E)
      PROVE  AllBlocks(s \o t) = AllBlocks(s) \o AllBlocks(t)
  <2>1. /\ Pieces(s) \in Seq(Seq(Blocks)) /\ Pieces(t) \in Seq(Seq(Blocks))
        /\ s \o t \in Seq(E) /\ Pieces(s \o t) \in Seq(Seq(Blocks))
    <3>1. s \o t \in Seq(E)
      OBVIOUS
    <3>2. QED
      BY <3>1, <1>3
  <2>2. Pieces(s \o t) = Pieces(s) \o Pieces(t)
    <3> DEFINE a == Pieces(s)
               b == Pieces(t)
               c == Pieces(s \o t)
    <3>1. /\ DOMAIN s = 1..Len(s) /\ DOMAIN t = 1..Len(t) /\ Len(s) \in Nat /\ Len(t) \in Nat
          /\ DOMAIN (s \o t) = 1..Len(s) + Len(t)
          /\ \A i \in 1..Len(s) + Len(t) :
               (s \o t)[i] = IF i <= Len(s) THEN s[i] ELSE t[i - Len(s)]
      BY ConcatProperties, LenProperties
    <3>2. /\ Len(a) = Len(s) /\ Len(b) = Len(t) /\ Len(c) = Len(s) + Len(t)
          /\ \A i \in 1..Len(s) : a[i] = s[i].blocks
          /\ \A i \in 1..Len(t) : b[i] = t[i].blocks
      BY <3>1
    <3>3. ASSUME NEW i \in 1..Len(s) + Len(t)
          PROVE  c[i] = IF i <= Len(s) THEN a[i] ELSE b[i - Len(s)]
      BY <3>1
    <3>4. a \in Seq(Seq(Blocks)) /\ b \in Seq(Seq(Blocks)) /\ c \in Seq(Seq(Blocks))
      BY <2>1
    <3> HIDE DEF a, b, c
    <3>5. /\ a \o b \in Seq(Seq(Blocks)) /\ Len(a \o b) = Len(a) + Len(b)
          /\ \A i \in 1..Len(a) + Len(b) :
               (a \o b)[i] = IF i <= Len(a) THEN a[i] ELSE b[i - Len(a)]
      BY <3>4, ConcatProperties
    <3>6. Len(c) = Len(a \o b) /\ \A i \in 1..Len(c) : c[i] = (a \o b)[i]
      BY <3>1, <3>2, <3>3, <3>5
    <3>7. c = a \o b
      BY <3>4, <3>5, <3>6, SeqEqual
    <3>8. QED
      BY <3>7 DEF a, b, c
  <2> HIDE DEF Pieces
  <2>3. FlattenSeq(Pieces(s) \o Pieces(t)) = FlattenSeq(Pieces(s)) \o FlattenSeq(Pieces(t))
    BY <2>1, FlattenConcat
  <2>4. QED
    BY <2>2, <2>3 DEF AllBlocks, Pieces
<1>5. QED
  BY <1>1, <1>2, <1>3, <1>4

\* Items without blocks add none.
LEMMA SilentItems ==
  ASSUME NEW E, NEW s \in Seq(E), \A x \in E : x.blocks = <<>>
  PROVE  AllBlocks(s) = <<>>
<1> DEFINE pieces == [n \in DOMAIN s |-> s[n].blocks]
<1>1. DOMAIN s = 1..Len(s) /\ Len(s) \in Nat /\ \A n \in 1..Len(s) : s[n] \in E
  BY LenProperties, ElementOfSeq
<1>2. <<>> \in Seq({})
  BY EmptySeq
<1>3. pieces \in [1..Len(s) -> Seq({})]
  BY <1>1, <1>2
<1>4. AllBlocks(s) = FlattenSeq(pieces)
  BY DEF AllBlocks
<1> HIDE DEF pieces
<1>5. pieces \in Seq(Seq({}))
  BY <1>1, <1>3
<1>6. FlattenSeq(pieces) \in Seq({})
  BY <1>5, FlattenType
<1>7. \A x \in Seq({}) : x = <<>>
  BY LenProperties, ElementOfSeq, EmptySeq
<1>8. QED
  BY <1>4, <1>6, <1>7

\* The loop's body: what one message adds to the instructions and to the input holds
\* what is heard of it, once, whatever its role and the form of its content.
LEMMA MessageKeepsText ==
  ASSUME NEW Calls, NEW Ids, NEW m \in Messages(Calls, Ids)
  PROVE  /\ Instructions(m) \in Seq(Blocks)
         /\ InputItems(m) \in Seq(InputItem(Calls, Ids))
         /\ Texts(m.content.blocks, Readable(m.role))
              = Texts(Instructions(m), {"text"}) + Texts(AllBlocks(InputItems(m)), Said)
<1> DEFINE E == InputItem(Calls, Ids)
           blocks == m.content.blocks
           heard == Readable(m.role)
           Goal == /\ Instructions(m) \in Seq(Blocks)
                   /\ InputItems(m) \in Seq(E)
                   /\ Texts(blocks, heard)
                        = Texts(Instructions(m), {"text"})
                          + Texts(AllBlocks(InputItems(m)), Said)
<1>1. /\ m.role \in Roles /\ m.content \in Contents
      /\ m.calls \in Seq(Calls) /\ m.answers \in SUBSET Ids
  BY DEF Messages
<1>2. /\ m.content.form \in {"null", "string", "list"}
      /\ blocks \in Seq(Blocks)
      /\ m.content.form = "null" => blocks = <<>>
      /\ m.content.form # "list" => Texts(blocks, Said) = Texts(blocks, heard)
  BY <1>1, ContentType
<1>3. /\ Texts(blocks, heard) \in Nat
      /\ \A types : Texts(<<>>, types) = 0
  BY <1>2, TextsType, TextsNone
<1>4. \A x \in E : x.blocks \in Seq(Blocks)
  BY DEF InputItem
<1>5. /\ AllBlocks(<<>>) = <<>>
      /\ \A x \in E : AllBlocks(<<x>>) = x.blocks
      /\ \A s \in Seq(E), t \in Seq(E) : AllBlocks(s \o t) = AllBlocks(s) \o AllBlocks(t)
  BY <1>4, AllBlocksLaws
<1> HIDE DEF E, blocks, heard
<1>6. ASSUME NEW x \in E, InputItems(m) = <<x>>, Instructions(m) = <<>>,
             Texts(x.blocks, Said) = Texts(blocks, heard)
      PROVE  Goal
  <2>1. <<x>> \in Seq(E) /\ <<>> \in Seq(Blocks)
    BY EmptySeq
  <2>2. QED
    BY <1>3, <1>5, <1>6, <2>1
<1>7. ASSUME m.role \in {"system", "developer"} PROVE Goal
  <2>1. InputItems(m) = <<>>
    BY <1>7 DEF InputItems
  <2>2. /\ Instructions(m) \in Seq(Blocks)
        /\ Texts(Instructions(m), {"text"}) = Texts(blocks, heard)
    <3>0. heard = {"text"}
      BY <1>7 DEF Readable, heard
    <3>1. CASE m.content.form = "list"
      <4>1. Instructions(m) = Translated(blocks, TextBlock)
        BY <1>7, <3>1 DEF Instructions, blocks
      <4>2. /\ \A b \in DOMAIN TextBlock : TextBlock[b] \in Blocks
            /\ \A b \in Blocks : b \in DOMAIN TextBlock /\ TextBlock[b] \in heard <=> b \in heard
        BY <3>0 DEF TextBlock, Blocks
      <4>3. /\ Translated(blocks, TextBlock) \in Seq(Blocks)
            /\ Texts(Translated(blocks, TextBlock), heard) = Texts(blocks, heard)
        BY <1>2, <4>2, TranslatedKeepsText
      <4>4. QED
        BY <3>0, <4>1, <4>3
    <3>2. CASE m.content.form # "list"
      BY <1>7, <3>0, <3>2, <1>2 DEF Instructions, blocks
    <3>3. QED
      BY <3>1, <3>2
  <2>3. <<>> \in Seq(E)
    BY EmptySeq
  <2>4. Texts(AllBlocks(InputItems(m)), Said) = 0
    BY <2>1, <1>3, <1>5
  <2>5. QED
    BY <2>1, <2>2, <2>3, <2>4, <1>3
<1>8. ASSUME m.role = "tool" PROVE Goal
  <2> DEFINE answer == {[id |-> id, arguments |-> <<>>] : id \in m.answers}
             x == [type |-> "function_call_output", blocks |-> blocks, call |-> answer]
  <2>1. InputItems(m) = <<x>>
    <3>1. InputItems(m) = <<[Item("function_call_output", blocks) EXCEPT !.call = answer]>>
      BY <1>8 DEF InputItems, blocks
    <3>2. [Item("function_call_output", blocks) EXCEPT !.call = answer] = x
      BY DEF Item
    <3>3. QED
      BY <3>1, <3>2
  <2>2. Instructions(m) = <<>>
    BY <1>8 DEF Instructions
  <2>3. answer \subseteq [id : Ids, arguments : {<<>>}]
    BY <1>1
  <2> HIDE DEF answer
  <2>4. x \in E
    BY <1>2, <2>3 DEF E, InputItem
  <2>5. x.blocks = blocks
    OBVIOUS
  <2>6. heard = Said
    BY <1>8 DEF Readable, heard
  <2> HIDE DEF x
  <2>7. QED
    BY <1>2, <1>6, <2>1, <2>2, <2>4, <2>5, <2>6
<1>9. ASSUME m.role = "assistant" PROVE Goal
  <2> DEFINE calls == [i \in DOMAIN m.calls |-> CallItem(m.calls[i])]
             x == Item("assistant", Spoken(m.content))
             rest == IF Truthy(m.content) THEN <<x>> ELSE <<>>
             Silent == {y \in E : y.blocks = <<>>}
  <2>1. InputItems(m) = calls \o rest
    BY <1>9 DEF InputItems, AssistantItems
  <2>2. Instructions(m) = <<>> /\ <<>> \in Seq(Blocks)
    BY <1>9, EmptySeq DEF Instructions
  <2>3. calls \in Seq(Silent)
    <3>1. /\ Len(m.calls) \in Nat /\ DOMAIN m.calls = 1..Len(m.calls)
          /\ \A i \in 1..Len(m.calls) : m.calls[i] \in Calls
      BY <1>1, LenProperties, ElementOfSeq
    <3>2. \A c \in Calls : CallItem(c) \in Silent
      <4> SUFFICES ASSUME NEW c \in Calls PROVE CallItem(c) \in Silent
        OBVIOUS
      <4>1. CallItem(c) = [type |-> "function_call", blocks |-> <<>>, call |-> {c}]
        BY DEF CallItem, Item
      <4>2. <<>> \in Seq(Blocks)
        BY EmptySeq
      <4>3. CallItem(c) \in E
        BY <4>1, <4>2 DEF E, InputItem
      <4>4. QED
        BY <4>1, <4>3
    <3>3. calls \in [1..Len(m.calls) -> Silent]
      BY <3>1, <3>2
    <3> HIDE DEF calls, Silent
    <3>4. QED
      BY <3>1, <3>3
  <2>4. AllBlocks(calls) = <<>> /\ calls \in Seq(E)
    <3>1. Silent \subseteq E /\ \A y \in Silent : y.blocks = <<>>
      OBVIOUS
    <3> HIDE DEF calls, Silent
    <3>2. QED
      BY <2>3, <3>1, SilentItems, SeqMonotonic
  <2>5. /\ rest \in Seq(E)
        /\ Texts(AllBlocks(rest), Said) = Texts(blocks, heard)
    <3>0. heard = {"text", "output_text"}
      BY <1>9 DEF Readable, heard
    <3>1. CASE ~Truthy(m.content)
      <4>1. blocks = <<>> \/ blocks = <<"blank">>
        BY <1>2, <3>1 DEF Truthy, Plain, blocks
      <4>2. Texts(blocks, heard) = 0
        BY <1>3, <3>0, <4>1, TextsOne
      <4>3. rest = <<>> /\ <<>> \in Seq(E)
        BY <3>1, EmptySeq
      <4> HIDE DEF rest
      <4>4. QED
        BY <1>3, <1>5, <4>2, <4>3
    <3>2. CASE Truthy(m.content)
      <4>1. /\ Spoken(m.content) \in Seq(Blocks)
            /\ Texts(Spoken(m.content), Said) = Texts(blocks, heard)
        <5>1. CASE m.content.form = "string"
          BY <1>2, <5>1 DEF Spoken, blocks
        <5>2. CASE m.content.form # "string"
          <6>1. Spoken(m.content) = Translated(blocks, SpokenBlock)
            BY <5>2 DEF Spoken, blocks
          <6>2. /\ \A b \in DOMAIN SpokenBlock : SpokenBlock[b] \in Blocks
                /\ \A b \in Blocks :
                     b \in DOMAIN SpokenBlock /\ SpokenBlock[b] \in Said <=> b \in heard
            BY <3>0 DEF SpokenBlock, Blocks, Said
          <6>3. QED
            BY <1>2, <6>1, <6>2, TranslatedKeepsText
        <5>3. QED
          BY <5>1, <5>2
      <4>2. x = [type |-> "assistant", blocks |-> Spoken(m.content), call |-> {}]
        BY DEF Item
      <4>3. x \in E /\ x.blocks = Spoken(m.content)
        BY <4>1, <4>2 DEF E, InputItem, Roles
      <4>4. rest = <<x>>
        BY <3>2
      <4> HIDE DEF x, rest
      <4>5. QED
        BY <1>5, <4>1, <4>3, <4>4
    <3>3. QED
      BY <3>1, <3>2
  <2> HIDE DEF calls, rest, Silent
  <2>6. InputItems(m) \in Seq(E)
    BY <2>1, <2>4, <2>5, ConcatProperties
  <2>7. AllBlocks(InputItems(m)) = AllBlocks(rest)
    <3>1. AllBlocks(calls \o rest) = AllBlocks(calls) \o AllBlocks(rest)
      BY <1>5, <2>4, <2>5
    <3>2. AllBlocks(rest) \in Seq(Blocks)
      BY <1>4, <2>5, AllBlocksLaws
    <3>3. QED
      BY <2>1, <2>4, <3>1, <3>2, ConcatEmptySeq
  <2>8. QED
    BY <1>3, <2>2, <2>5, <2>6, <2>7
<1>10. ASSUME m.role = "user" PROVE Goal
  <2> DEFINE put == IF m.content.form = "list" THEN Translated(blocks, InputBlock) ELSE blocks
             x == [type |-> "user", blocks |-> put, call |-> {}]
  <2>1. InputItems(m) = <<x>>
    BY <1>10 DEF InputItems, Item, blocks
  <2>2. Instructions(m) = <<>>
    BY <1>10 DEF Instructions
  <2>3. put \in Seq(Blocks) /\ Texts(put, Said) = Texts(blocks, heard)
    <3>0. heard = {"text", "input_text"}
      BY <1>10 DEF Readable, heard
    <3>1. /\ \A b \in DOMAIN InputBlock : InputBlock[b] \in Blocks
          /\ \A b \in Blocks : b \in DOMAIN InputBlock /\ InputBlock[b] \in Said <=> b \in heard
      BY <3>0 DEF InputBlock, Blocks, Said
    <3>2. /\ Translated(blocks, InputBlock) \in Seq(Blocks)
          /\ Texts(Translated(blocks, InputBlock), Said) = Texts(blocks, heard)
      BY <1>2, <3>1, TranslatedKeepsText
    <3>3. QED
      BY <1>2, <3>2
  <2> HIDE DEF put
  <2>4. x \in E /\ x.blocks = put
    BY <2>3 DEF E, InputItem, Roles
  <2> HIDE DEF x
  <2>5. QED
    BY <1>6, <2>1, <2>2, <2>3, <2>4
<1>11. QED
  BY <1>1, <1>7, <1>8, <1>9, <1>10 DEF Roles, blocks, E, heard


\* chat_to_responses drops nothing that is text in its message's role and doubles none,
\* and lets no other text through, for any number of messages of any roles, in either
\* form, with any calls and results: by induction over the messages.
THEOREM TextIsKept ==
  ASSUME NEW Calls, NEW Ids, NEW messages \in Seq(Messages(Calls, Ids))
  PROVE  KeepsText(messages)
<1> DEFINE E == InputItem(Calls, Ids)
           Read(n) == [i \in 1..n |-> Heard(messages[i])]
           Told(n) == [i \in 1..n |-> Instructions(messages[i])]
           Put(n) == [i \in 1..n |-> InputItems(messages[i])]
           Same(n) == n <= Len(messages) =>
                        Texts(FlattenSeq(Read(n)), {"text"})
                          = Texts(FlattenSeq(Told(n)), {"text"})
                            + Texts(AllBlocks(FlattenSeq(Put(n))), Said)
           Done == {n \in Nat : Same(n)}
<1>1. /\ Len(messages) \in Nat /\ DOMAIN messages = 1..Len(messages)
      /\ \A i \in 1..Len(messages) : messages[i] \in Messages(Calls, Ids)
  BY LenProperties, ElementOfSeq
<1>2. \A i \in 1..Len(messages) :
        /\ Heard(messages[i]) \in Seq(Blocks)
        /\ Instructions(messages[i]) \in Seq(Blocks)
        /\ InputItems(messages[i]) \in Seq(E)
        /\ Texts(Heard(messages[i]), {"text"})
             = Texts(Instructions(messages[i]), {"text"})
               + Texts(AllBlocks(InputItems(messages[i])), Said)
  <2> SUFFICES ASSUME NEW m \in Messages(Calls, Ids)
               PROVE  /\ Heard(m) \in Seq(Blocks)
                      /\ Instructions(m) \in Seq(Blocks)
                      /\ InputItems(m) \in Seq(E)
                      /\ Texts(Heard(m), {"text"})
                           = Texts(Instructions(m), {"text"})
                             + Texts(AllBlocks(InputItems(m)), Said)
    BY <1>1
  <2>1. m.content \in Contents
    BY DEF Messages
  <2>2. m.content.blocks \in Seq(Blocks)
    BY <2>1, ContentType
  <2>3. Heard(m) \in Seq(Blocks) /\ Texts(Heard(m), {"text"}) = Texts(m.content.blocks, Readable(m.role))
    BY <2>2, HeardLaw
  <2>4. QED
    BY <2>3, MessageKeepsText
<1>3. \A x \in E : x.blocks \in Seq(Blocks)
  BY DEF InputItem
<1> HIDE DEF E
<1>4. ASSUME NEW n \in Nat, n <= Len(messages)
      PROVE  /\ Read(n) \in Seq(Seq(Blocks)) /\ Len(Read(n)) = n
             /\ Told(n) \in Seq(Seq(Blocks)) /\ Len(Told(n)) = n
             /\ Put(n) \in Seq(Seq(E)) /\ Len(Put(n)) = n
  <2>1. \A i \in 1..n : i \in 1..Len(messages)
    BY <1>1, <1>4
  <2>2. QED
    BY <1>2, <2>1
<1>5. 0 \in Done
  <2>1. Read(0) = <<>> /\ Told(0) = <<>> /\ Put(0) = <<>>
    BY <1>1, <1>4, EmptySeq
  <2>2. AllBlocks(<<>>) = <<>> /\ \A types : Texts(<<>>, types) = 0
    BY <1>3, AllBlocksLaws, TextsNone
  <2> HIDE DEF Read, Told, Put
  <2>3. Same(0)
    BY <2>1, <2>2, FlattenNone
  <2>4. QED
    BY <2>3
<1>6. ASSUME NEW n \in Nat, n \in Done PROVE n + 1 \in Done
  <2> SUFFICES ASSUME n + 1 <= Len(messages)
               PROVE  Texts(FlattenSeq(Read(n+1)), {"text"})
                        = Texts(FlattenSeq(Told(n+1)), {"text"})
                          + Texts(AllBlocks(FlattenSeq(Put(n+1))), Said)
    OBVIOUS
  <2>1. n <= Len(messages) /\ n + 1 \in 1..Len(messages)
    BY <1>1
  <2>2. /\ Read(n) \in Seq(Seq(Blocks)) /\ Len(Read(n)) = n
        /\ Told(n) \in Seq(Seq(Blocks)) /\ Len(Told(n)) = n
        /\ Put(n) \in Seq(Seq(E)) /\ Len(Put(n)) = n
        /\ Read(n+1) \in Seq(Seq(Blocks)) /\ Len(Read(n+1)) = n + 1
        /\ Told(n+1) \in Seq(Seq(Blocks)) /\ Len(Told(n+1)) = n + 1
        /\ Put(n+1) \in Seq(Seq(E)) /\ Len(Put(n+1)) = n + 1
    BY <2>1, <1>4
  <2>3. PICK heard \in Seq(Blocks), told \in Seq(Blocks), put \in Seq(E) :
          /\ heard = Heard(messages[n+1])
          /\ told = Instructions(messages[n+1]) /\ put = InputItems(messages[n+1])
          /\ Texts(heard, {"text"}) = Texts(told, {"text"}) + Texts(AllBlocks(put), Said)
    BY <1>2, <2>1
  <2>4. /\ \A i \in 1..n : Read(n+1)[i] = Read(n)[i]
        /\ \A i \in 1..n : Told(n+1)[i] = Told(n)[i]
        /\ \A i \in 1..n : Put(n+1)[i] = Put(n)[i]
        /\ Read(n+1)[n+1] = heard /\ Told(n+1)[n+1] = told /\ Put(n+1)[n+1] = put
    BY <2>3
  <2>5. PICK h \in Seq(Blocks), t \in Seq(Blocks), p \in Seq(E) :
          h = FlattenSeq(Read(n)) /\ t = FlattenSeq(Told(n)) /\ p = FlattenSeq(Put(n))
    <3> HIDE DEF Read, Told, Put
    <3>1. QED
      BY <2>2, FlattenType
  <2> HIDE DEF Read, Told, Put
  <2>6. FlattenSeq(Read(n+1)) = h \o heard
    BY <2>2, <2>4, <2>5, FlattenStep
  <2>7. FlattenSeq(Told(n+1)) = t \o told
    BY <2>2, <2>4, <2>5, FlattenStep
  <2>8. FlattenSeq(Put(n+1)) = p \o put
    BY <2>2, <2>4, <2>5, FlattenStep
  <2>9. /\ AllBlocks(p) \in Seq(Blocks) /\ AllBlocks(put) \in Seq(Blocks)
        /\ AllBlocks(p \o put) = AllBlocks(p) \o AllBlocks(put)
    BY <1>3, AllBlocksLaws
  <2>10. Texts(h \o heard, {"text"}) = Texts(h, {"text"}) + Texts(heard, {"text"})
    BY TextsConcat
  <2>11. Texts(t \o told, {"text"}) = Texts(t, {"text"}) + Texts(told, {"text"})
    BY TextsConcat
  <2>12. Texts(AllBlocks(p \o put), Said)
           = Texts(AllBlocks(p), Said) + Texts(AllBlocks(put), Said)
    <3>1. PICK a \in Seq(Blocks), b \in Seq(Blocks) :
            a = AllBlocks(p) /\ b = AllBlocks(put)
      BY <2>9
    <3>2. Texts(a \o b, Said) = Texts(a, Said) + Texts(b, Said)
      BY TextsConcat
    <3>3. QED
      BY <2>9, <3>1, <3>2
  <2>13. Texts(h, {"text"}) = Texts(t, {"text"}) + Texts(AllBlocks(p), Said)
    BY <1>6, <2>1, <2>5
  <2>14. /\ Texts(h, {"text"}) \in Nat /\ Texts(t, {"text"}) \in Nat
         /\ Texts(heard, {"text"}) \in Nat /\ Texts(told, {"text"}) \in Nat
         /\ Texts(AllBlocks(p), Said) \in Nat /\ Texts(AllBlocks(put), Said) \in Nat
    BY <2>9, TextsType
  <2>15. Texts(h \o heard, {"text"})
           = Texts(t \o told, {"text"}) + Texts(AllBlocks(p \o put), Said)
    BY <2>3, <2>10, <2>11, <2>12, <2>13, <2>14
  <2>16. QED
    BY <2>6, <2>7, <2>8, <2>15, Zenon
<1>7. Same(Len(messages))
  <2>1. Nat \subseteq Done
    BY <1>5, <1>6, SetInduction
  <2>2. QED
    BY <1>1, <2>1
<1>8. /\ chat_to_responses(messages).instructions = FlattenSeq(Told(Len(messages)))
      /\ chat_to_responses(messages).input = FlattenSeq(Put(Len(messages)))
  BY <1>1 DEF chat_to_responses
<1>9. FlattenSeq([n \in DOMAIN messages |-> Heard(messages[n])])
        = FlattenSeq(Read(Len(messages)))
  BY <1>1
<1> HIDE DEF Read, Told, Put
<1>10. QED
  BY <1>1, <1>7, <1>8, <1>9 DEF KeepsText


----------------------------------------------------------------------------
(* The input of a client's next turn.                                      *)

\* A sequence whose every element is in P is a sequence over P.
LEMMA Within ==
  ASSUME NEW E, NEW s \in Seq(E), NEW P, \A n \in 1..Len(s) : s[n] \in P
  PROVE  s \in Seq(P)
<1>1. Len(s) \in Nat /\ DOMAIN s = 1..Len(s) /\ s = [n \in 1..Len(s) |-> s[n]]
  BY LenProperties
<1>2. PICK k \in Nat : s \in [1..k -> P]
  BY <1>1
<1>3. QED
  BY <1>2

\* A sequence that is one sequence and then another.
LEMMA Joined ==
  ASSUME NEW E, NEW a \in Seq(E), NEW b \in Seq(E), NEW c \in Seq(E),
         Len(c) = Len(a) + Len(b),
         \A n \in 1..Len(c) : c[n] = IF n <= Len(a) THEN a[n] ELSE b[n - Len(a)]
  PROVE  c = a \o b
<1>1. /\ a \o b \in Seq(E) /\ Len(a \o b) = Len(a) + Len(b)
      /\ \A n \in 1..Len(a) + Len(b) :
           (a \o b)[n] = IF n <= Len(a) THEN a[n] ELSE b[n - Len(a)]
  BY ConcatProperties
<1>2. QED
  BY <1>1, SeqEqual

\* Every message puts items into the input.
LEMMA PutType ==
  ASSUME NEW Calls, NEW Ids, NEW s \in Seq(Messages(Calls, Ids))
  PROVE  LET put == [i \in DOMAIN s |-> InputItems(s[i])] IN
         put \in Seq(Seq(InputItem(Calls, Ids))) /\ Len(put) = Len(s)
<1> DEFINE E == InputItem(Calls, Ids)
           M == Messages(Calls, Ids)
           put == [i \in DOMAIN s |-> InputItems(s[i])]
<1>1. \A m \in M : InputItems(m) \in Seq(E)
  BY MessageKeepsText
<1> HIDE DEF E
<1>2. Len(s) \in Nat /\ DOMAIN s = 1..Len(s) /\ \A i \in 1..Len(s) : s[i] \in M
  BY LenProperties, ElementOfSeq
<1>3. PICK k \in Nat : k = Len(s) /\ put \in [1..k -> Seq(E)]
  BY <1>1, <1>2
<1> HIDE DEF put
<1>4. QED
  BY <1>3 DEF put, E

\* The input consists of items; that of one message is the message's.
LEMMA InputLaws ==
  ASSUME NEW Calls, NEW Ids
  PROVE  /\ \A s \in Seq(Messages(Calls, Ids)) :
              chat_to_responses(s).input \in Seq(InputItem(Calls, Ids))
         /\ \A m \in Messages(Calls, Ids) : chat_to_responses(<<m>>).input = InputItems(m)
<1> DEFINE E == InputItem(Calls, Ids)
           M == Messages(Calls, Ids)
           Put(s) == [i \in DOMAIN s |-> InputItems(s[i])]
<1>0. \A s : chat_to_responses(s).input = FlattenSeq(Put(s))
  BY DEF chat_to_responses
<1>1. \A m \in M : InputItems(m) \in Seq(E)
  BY MessageKeepsText
<1> HIDE DEF E, M
<1>2. ASSUME NEW s \in Seq(M)
      PROVE  Put(s) \in Seq(Seq(E)) /\ Len(Put(s)) = Len(s)
  <2>1. Len(s) \in Nat /\ DOMAIN s = 1..Len(s) /\ \A i \in 1..Len(s) : s[i] \in M
    BY LenProperties, ElementOfSeq
  <2>2. PICK k \in Nat : k = Len(s) /\ Put(s) \in [1..k -> Seq(E)]
    BY <1>1, <2>1
  <2> HIDE DEF Put
  <2>3. QED
    BY <2>2
<1>3. ASSUME NEW m \in M PROVE FlattenSeq(Put(<<m>>)) = InputItems(m)
  <2>1. Len(Put(<<m>>)) = 1 /\ Put(<<m>>)[1] = InputItems(m)
    OBVIOUS
  <2> HIDE DEF Put
  <2>2. PICK n \in Nat \ {0} : n = 1
    OBVIOUS
  <2>3. Len(Put(<<m>>)) = n
    BY <2>1, <2>2
  <2>4. PICK f : f[1] = Put(<<m>>)[1] /\ FlattenSeq(Put(<<m>>)) = f[n]
    BY <2>3, FlattenDef, Zenon
  <2>5. QED
    BY <2>1, <2>2, <2>4
<1>4. \A s \in Seq(M) : FlattenSeq(Put(s)) \in Seq(E)
  BY <1>2, FlattenType
<1> HIDE DEF Put
<1>5. QED
  BY <1>0, <1>3, <1>4 DEF E, M

\* Concatenation, opaque to the provers.
Then(s, t) == s \o t

\* The input of a conversation is that of its parts, in order.
LEMMA InputConcat ==
  ASSUME NEW Calls, NEW Ids,
         NEW s \in Seq(Messages(Calls, Ids)), NEW t \in Seq(Messages(Calls, Ids))
  PROVE  chat_to_responses(Then(s, t)).input
           = Then(chat_to_responses(s).input, chat_to_responses(t).input)
<1> DEFINE E == InputItem(Calls, Ids)
           M == Messages(Calls, Ids)
           Put(u) == [i \in DOMAIN u |-> InputItems(u[i])]
<1>0. ASSUME NEW u \in Seq(M) PROVE Put(u) \in Seq(Seq(E)) /\ Len(Put(u)) = Len(u)
  BY PutType DEF Put
<1>1. /\ DOMAIN s = 1..Len(s) /\ DOMAIN t = 1..Len(t) /\ Len(s) \in Nat /\ Len(t) \in Nat
      /\ s \o t \in Seq(M) /\ Len(s \o t) = Len(s) + Len(t)
      /\ DOMAIN (s \o t) = 1..Len(s) + Len(t)
      /\ \A i \in 1..Len(s) + Len(t) :
           (s \o t)[i] = IF i <= Len(s) THEN s[i] ELSE t[i - Len(s)]
  BY ConcatProperties, LenProperties
<1>2. PICK a \in Seq(Seq(E)), b \in Seq(Seq(E)), c \in Seq(Seq(E)) :
        /\ a = Put(s) /\ b = Put(t) /\ c = Put(s \o t)
        /\ Len(a) = Len(s) /\ Len(b) = Len(t) /\ Len(c) = Len(s \o t)
  BY <1>0, <1>1
<1>3. ASSUME NEW n \in 1..Len(c)
      PROVE  c[n] = IF n <= Len(a) THEN a[n] ELSE b[n - Len(a)]
  BY <1>1, <1>2
<1>4. c = a \o b
  BY <1>1, <1>2, <1>3, Joined
<1>5. FlattenSeq(a \o b) = FlattenSeq(a) \o FlattenSeq(b)
  BY FlattenConcat
<1>6. /\ chat_to_responses(s).input = FlattenSeq(Put(s))
      /\ chat_to_responses(t).input = FlattenSeq(Put(t))
      /\ chat_to_responses(Then(s, t)).input = FlattenSeq(Put(s \o t))
  BY DEF chat_to_responses, Then
<1> HIDE DEF Put
<1>7. chat_to_responses(Then(s, t)).input = FlattenSeq(a \o b)
  BY <1>2, <1>4, <1>6
<1>8. QED
  BY <1>2, <1>5, <1>6, <1>7 DEF Then

\* What a conversation begins with: no calls, and no results.
Quiet(Calls, Ids) ==
  {m \in Messages(Calls, Ids) : m.role # "tool" /\ m.calls = <<>>}
QuietItem(Calls, Ids) == {x \in InputItem(Calls, Ids) : x.type \in Roles}

\* Messages without calls and results add items of their roles only.
LEMMA QuietInput ==
  ASSUME NEW Calls, NEW Ids, NEW s \in Seq(Quiet(Calls, Ids))
  PROVE  chat_to_responses(s).input \in Seq(QuietItem(Calls, Ids))
<1> DEFINE E == InputItem(Calls, Ids)
           Q == QuietItem(Calls, Ids)
           Put == [i \in DOMAIN s |-> InputItems(s[i])]
<1>1. \A i \in 1..Len(s) : s[i] \in Quiet(Calls, Ids)
  BY LenProperties, ElementOfSeq
<1>2. ASSUME NEW m \in Quiet(Calls, Ids) PROVE InputItems(m) \in Seq(Q)
  <2>1. m.role \in Roles \ {"tool"} /\ m.calls = <<>> /\ InputItems(m) \in Seq(E)
    BY MessageKeepsText DEF Messages, Quiet
  <2>2. InputItems(m) = <<>> \/ \E b : InputItems(m) = <<Item(m.role, b)>>
    <3>1. CASE m.role \in {"system", "developer"}
      BY <3>1 DEF InputItems
    <3>2. CASE m.role = "assistant"
      <4> DEFINE calls == [i \in DOMAIN m.calls |-> CallItem(m.calls[i])]
                 rest == IF Truthy(m.content) THEN <<Item("assistant", Spoken(m.content))>>
                         ELSE <<>>
      <4>1. InputItems(m) = calls \o rest
        BY <3>2 DEF InputItems, AssistantItems
      <4>2. calls = <<>>
        BY <2>1
      <4> HIDE DEF calls
      <4>3. InputItems(m) = rest
        BY <4>1, <4>2
      <4>4. QED
        BY <3>2, <4>3
    <3>3. CASE m.role = "user"
      BY <3>3 DEF InputItems
    <3>4. QED
      BY <2>1, <3>1, <3>2, <3>3 DEF Roles
  <2>3. ASSUME NEW n \in 1..Len(InputItems(m)) PROVE InputItems(m)[n] \in Q
    <3>1. InputItems(m)[n] \in E
      BY <2>1, LenProperties, ElementOfSeq
    <3>2. InputItems(m)[n].type = m.role
      BY <2>2 DEF Item
    <3>3. QED
      BY <2>1, <3>1, <3>2 DEF QuietItem
  <2> HIDE DEF E, Q
  <2>4. QED
    BY <2>1, <2>3, Within
<1> HIDE DEF E, Q
<1>3. Put \in Seq(Seq(Q))
  <2>1. Len(s) \in Nat /\ DOMAIN s = 1..Len(s)
    BY LenProperties
  <2>2. \A i \in 1..Len(s) : InputItems(s[i]) \in Seq(Q)
    BY <1>1, <1>2
  <2>3. PICK k \in Nat : Put \in [1..k -> Seq(Q)]
    BY <2>1, <2>2
  <2> HIDE DEF Put
  <2>4. QED
    BY <2>3
<1>4. chat_to_responses(s).input = FlattenSeq(Put)
  BY DEF chat_to_responses
<1> HIDE DEF Put
<1>5. QED
  BY <1>3, <1>4, FlattenType DEF Q

\* The item of a result, with the id of the call it is about.
ResultItem(Calls, Ids) ==
  {x \in InputItem(Calls, Ids) :
     /\ x.type = "function_call_output"
     /\ \E id \in Ids : x.call = {[id |-> id, arguments |-> <<>>]}}

\* Tool messages add the results of the calls they answer, and nothing else.
LEMMA ToolInput ==
  ASSUME NEW Calls, NEW Ids, NEW k \in Nat, NEW order \in [1..k -> Ids]
  PROVE  LET tools == [n \in 1..k |-> Tool(order[n])] IN
         /\ tools \in Seq(Messages(Calls, Ids))
         /\ chat_to_responses(tools).input \in Seq(ResultItem(Calls, Ids))
<1> DEFINE E == InputItem(Calls, Ids)
           R == ResultItem(Calls, Ids)
           tools == [n \in 1..k |-> Tool(order[n])]
           Put == [i \in DOMAIN tools |-> InputItems(tools[i])]
<1>1. ASSUME NEW id \in Ids
      PROVE  Tool(id) \in Messages(Calls, Ids) /\ InputItems(Tool(id)) \in Seq(R)
  <2>1. Tool(id) = [role |-> "tool", content |-> Plain("text"), calls |-> <<>>, answers |-> {id}]
    <3> DEFINE c == Plain("text")
    <3> HIDE DEF c
    <3>1. PICK role, calls, none, answers :
            role = "tool" /\ calls = <<>> /\ none = {} /\ answers = {id}
      OBVIOUS
    <3>2. [[role |-> role, content |-> c, calls |-> calls, answers |-> none]
             EXCEPT !.answers = answers]
            = [role |-> role, content |-> c, calls |-> calls, answers |-> answers]
      OBVIOUS
    <3>3. Message("tool", c) = [role |-> role, content |-> c, calls |-> calls, answers |-> none]
      BY <3>1 DEF Message
    <3>4. [Message("tool", c) EXCEPT !.answers = {id}]
            = [role |-> "tool", content |-> c, calls |-> <<>>, answers |-> {id}]
      BY <3>1, <3>2, <3>3, Zenon
    <3>5. QED
      BY <3>4 DEF Tool, c
  <2>2. Plain("text") \in Contents
    <3>1. Plain("text") = [form |-> "string", blocks |-> <<"text">>]
      BY DEF Plain
    <3>2. <<"text">> \in Seq(Blocks) /\ <<"text">> \in {<<"text">>, <<"blank">>}
      BY DEF Blocks
    <3>3. Plain("text") \in [form : {"null", "string", "list"}, blocks : Seq(Blocks)]
      <4>1. PICK said : said = <<"text">> /\ said \in Seq(Blocks)
        BY <3>2
      <4>2. PICK form : form = "string" /\ form \in {"null", "string", "list"}
        OBVIOUS
      <4>3. Plain("text") = [form |-> form, blocks |-> said]
        BY <3>1, <4>1, <4>2
      <4>4. [form |-> form, blocks |-> said]
              \in [form : {"null", "string", "list"}, blocks : Seq(Blocks)]
        BY <4>1, <4>2
      <4>5. QED
        BY <4>3, <4>4, Zenon
    <3>4. Plain("text").form = "string" /\ Plain("text").blocks \in {<<"text">>, <<"blank">>}
      BY <3>1
    <3>5. QED
      BY <3>3, <3>4 DEF Contents
  <2>3. Tool(id) \in Messages(Calls, Ids)
    BY <2>1, <2>2, EmptySeq DEF Messages, Roles
  <2> DEFINE x == [type |-> "function_call_output", blocks |-> <<"text">>,
                   call |-> {[id |-> id, arguments |-> <<>>]}]
  <2>4. InputItems(Tool(id)) = <<x>>
    <3>1. /\ Tool(id).role = "tool" /\ Tool(id).answers = {id}
          /\ Tool(id).content.blocks = <<"text">>
      BY <2>1 DEF Plain
    <3>2. InputItems(Tool(id)) = <<[Item("function_call_output", <<"text">>) EXCEPT
            !.call = {[id |-> j, arguments |-> <<>>] : j \in {id}}]>>
      BY <3>1 DEF InputItems
    <3>3. {[id |-> j, arguments |-> <<>>] : j \in {id}} = {[id |-> id, arguments |-> <<>>]}
      OBVIOUS
    <3> DEFINE answer == {[id |-> id, arguments |-> <<>>]}
    <3>4. Item("function_call_output", <<"text">>)
            = [type |-> "function_call_output", blocks |-> <<"text">>, call |-> {}]
      BY DEF Item
    <3> HIDE DEF answer
    <3>5. [Item("function_call_output", <<"text">>) EXCEPT !.call = answer]
            = [type |-> "function_call_output", blocks |-> <<"text">>, call |-> answer]
      BY <3>4
    <3>6. QED
      BY <3>2, <3>3, <3>5 DEF answer
  <2>5. x \in R
    <3>1. InputItems(Tool(id)) \in Seq(E)
      BY <2>3, MessageKeepsText
    <3>2. x \in E
      BY <2>4, <3>1
    <3>3. QED
      BY <3>2 DEF ResultItem
  <2> HIDE DEF x, R
  <2>6. QED
    BY <2>3, <2>4, <2>5
<1> HIDE DEF R
<1>2. \A n \in 1..k : Tool(order[n]) \in Messages(Calls, Ids) /\ InputItems(Tool(order[n])) \in Seq(R)
  BY <1>1
<1>3. tools \in Seq(Messages(Calls, Ids))
  BY <1>2
<1>4. Put \in Seq(Seq(R))
  <2>1. Put \in [1..k -> Seq(R)]
    BY <1>2
  <2> HIDE DEF Put
  <2>2. QED
    BY <2>1
<1>5. chat_to_responses(tools).input = FlattenSeq(Put)
  BY DEF chat_to_responses
<1> HIDE DEF Put, tools
<1>6. chat_to_responses(tools).input \in Seq(R)
  BY <1>4, <1>5, FlattenType
<1>7. QED
  BY <1>3, <1>6 DEF R, tools

\* A call is one item.
LEMMA CallItemType ==
  ASSUME NEW Calls, NEW Ids, NEW c \in Calls
  PROVE  /\ CallItem(c) \in InputItem(Calls, Ids)
         /\ CallItem(c).type = "function_call" /\ CallItem(c).call = {c}
<1>1. CallItem(c) = [type |-> "function_call", blocks |-> <<>>, call |-> {c}]
  <2>1. Item("function_call", <<>>) = [type |-> "function_call", blocks |-> <<>>, call |-> {}]
    BY DEF Item
  <2>2. PICK made : made = {c}
    OBVIOUS
  <2>3. [Item("function_call", <<>>) EXCEPT !.call = made]
          = [type |-> "function_call", blocks |-> <<>>, call |-> made]
    BY <2>1
  <2>4. QED
    BY <2>2, <2>3 DEF CallItem
<1>2. <<>> \in Seq(Blocks)
  BY EmptySeq
<1>3. QED
  BY <1>1, <1>2 DEF InputItem

\* An assistant message adds its calls first, in order, and then at most its content.
LEMMA CallsInput ==
  ASSUME NEW Calls, NEW Ids, NEW content \in Contents, NEW calls \in Seq(Calls)
  PROVE  /\ Assistant(content, calls) \in Messages(Calls, Ids)
         /\ Assistant(content, calls).calls = calls
         /\ LET items == InputItems(Assistant(content, calls)) IN
            /\ items \in Seq(InputItem(Calls, Ids)) /\ Len(items) >= Len(calls)
            /\ \A n \in 1..Len(items) :
                 IF n <= Len(calls)
                   THEN items[n].type = "function_call" /\ items[n].call = {calls[n]}
                   ELSE items[n].type \in Roles
<1> DEFINE m == Assistant(content, calls)
<1>1. m = [role |-> "assistant", content |-> content, calls |-> calls, answers |-> {}]
  <2>1. PICK role, none, answers : role = "assistant" /\ none = <<>> /\ answers = {}
    OBVIOUS
  <2>2. [[role |-> role, content |-> content, calls |-> none, answers |-> answers]
           EXCEPT !.calls = calls]
          = [role |-> role, content |-> content, calls |-> calls, answers |-> answers]
    OBVIOUS
  <2>3. Message("assistant", content)
          = [role |-> role, content |-> content, calls |-> none, answers |-> answers]
    BY <2>1 DEF Message
  <2>4. [Message("assistant", content) EXCEPT !.calls = calls]
          = [role |-> "assistant", content |-> content, calls |-> calls, answers |-> {}]
    BY <2>1, <2>2, <2>3, Zenon
  <2>5. QED
    BY <2>4 DEF Assistant
<1> HIDE DEF m
<1>2. m \in Messages(Calls, Ids)
  BY <1>1 DEF Messages, Roles
<1>3. DOMAIN calls = 1..Len(calls) /\ Len(calls) \in Nat
  BY LenProperties
<1>4. /\ m.role = "assistant" /\ m.calls = calls
  BY <1>1
<1> DEFINE E == InputItem(Calls, Ids)
           made == [i \in 1..Len(calls) |-> CallItem(calls[i])]
           x == Item("assistant", Spoken(m.content))
           rest == IF Truthy(m.content) THEN <<x>> ELSE <<>>
           items == InputItems(m)
<1>5. items = made \o rest /\ items \in Seq(E)
  BY <1>2, <1>3, <1>4, MessageKeepsText DEF InputItems, AssistantItems
<1>6. \A i \in 1..Len(calls) :
        made[i].type = "function_call" /\ made[i].call = {calls[i]}
  BY <1>3, CallItemType, ElementOfSeq
<1>7. x.type = "assistant"
  BY DEF Item
<1> HIDE DEF E, items, x
<1>8. /\ Len(items) >= Len(calls)
      /\ \A n \in 1..Len(items) : IF n <= Len(calls) THEN items[n] = made[n] ELSE items[n] = x
  <2> DEFINE Turned == {made[i] : i \in 1..Len(calls)} \cup {x}
  <2>1. Len(made) = Len(calls) /\ made \in Seq(Turned)
    <3>1. \A i \in 1..Len(calls) : made[i] \in Turned
      OBVIOUS
    <3> HIDE DEF Turned
    <3>2. QED
      BY <1>3, <3>1
  <2>2. rest \in Seq(Turned) /\ Len(rest) \in {0, 1} /\ \A i \in 1..Len(rest) : rest[i] = x
    <3>1. x \in Turned
      OBVIOUS
    <3> HIDE DEF Turned
    <3>2. <<x>> \in Seq(Turned) /\ <<>> \in Seq(Turned)
      BY <3>1
    <3>3. QED
      BY <3>2
  <2> HIDE DEF made, rest, Turned
  <2>3. /\ Len(made \o rest) = Len(made) + Len(rest)
        /\ \A n \in 1..Len(made) + Len(rest) :
             (made \o rest)[n] = IF n <= Len(made) THEN made[n] ELSE rest[n - Len(made)]
    BY <2>1, <2>2, ConcatProperties
  <2>4. QED
    BY <1>3, <1>5, <2>1, <2>2, <2>3
<1> HIDE DEF made
<1>9. /\ items \in Seq(E) /\ Len(items) >= Len(calls)
      /\ \A n \in 1..Len(items) :
           IF n <= Len(calls)
             THEN items[n].type = "function_call" /\ items[n].call = {calls[n]}
             ELSE items[n].type \in Roles
  BY <1>3, <1>5, <1>6, <1>7, <1>8 DEF Roles
<1>10. QED
  BY <1>2, <1>4, <1>9 DEF m, items, E

\* A turn: the calls, and a result of each.
Turn(content, told, k, order) ==
  <<Assistant(content, told)>> \o [n \in 1..k |-> Tool(order[n])]

\* The calls stand together and in order, and every result is of a call and behind
\* them all.
HandsBack(input, told, Ids) ==
  \E before \in 0..Len(input) :
    /\ {n \in DOMAIN input : input[n].type = "function_call"} = before + 1 .. before + Len(told)
    /\ \A i \in 1..Len(told) : input[before + i].call = {told[i]}
    /\ \A n \in DOMAIN input : input[n].type = "function_call_output" =>
         /\ n > before + Len(told)
         /\ \E id \in Ids : input[n].call = {[id |-> id, arguments |-> <<>>]}

\* A turn that continues a conversation with an assistant's calls and their results
\* puts the calls together, in their order and with their arguments, behind all that
\* was there before, and every result behind the calls.
LEMMA TurnInput ==
  ASSUME NEW Calls, NEW Ids, NEW opening \in Seq(Quiet(Calls, Ids)),
         NEW content \in Contents, NEW told \in Seq(Calls),
         NEW k \in Nat, NEW order \in [1..k -> Ids],
         NEW turned, turned = Then(opening, Turn(content, told, k, order))
  PROVE  /\ turned \in Seq(Messages(Calls, Ids))
         /\ HandsBack(chat_to_responses(turned).input, told, Ids)
<1> DEFINE M == Messages(Calls, Ids)
           E == InputItem(Calls, Ids)
           m == Assistant(content, told)
           tools == [n \in 1..k |-> Tool(order[n])]
           items == InputItems(m)
           input == chat_to_responses(turned).input
<1>1. opening \in Seq(M)
  BY SeqMonotonic DEF Quiet
<1>2. /\ tools \in Seq(M) /\ m \in M /\ <<m>> \in Seq(M)
      /\ chat_to_responses(tools).input \in Seq(ResultItem(Calls, Ids))
  <2>1. /\ tools \in Seq(M)
        /\ chat_to_responses(tools).input \in Seq(ResultItem(Calls, Ids))
    BY ToolInput
  <2>2. m \in M
    BY CallsInput
  <2> HIDE DEF m, M
  <2>3. QED
    BY <2>1, <2>2
<1>3. /\ items \in Seq(E) /\ Len(items) >= Len(told) /\ Len(items) \in Nat
      /\ \A n \in 1..Len(items) :
           IF n <= Len(told)
             THEN items[n].type = "function_call" /\ items[n].call = {told[n]}
             ELSE items[n].type \in Roles
  BY CallsInput, LenProperties
<1>4. Len(told) \in Nat
  BY LenProperties
<1>5. turned = opening \o (<<m>> \o tools)
  BY DEF Then, Turn
<1>6. /\ QuietItem(Calls, Ids) \subseteq E /\ ResultItem(Calls, Ids) \subseteq E
      /\ \A x \in QuietItem(Calls, Ids) : x.type \in Roles
      /\ \A x \in ResultItem(Calls, Ids) :
           /\ x.type = "function_call_output"
           /\ \E id \in Ids : x.call = {[id |-> id, arguments |-> <<>>]}
  BY DEF QuietItem, ResultItem
<1>7. chat_to_responses(<<m>>).input = items
  BY <1>2, InputLaws
<1>8. \A u \in Seq(M), w \in Seq(M) :
        chat_to_responses(Then(u, w)).input
          = Then(chat_to_responses(u).input, chat_to_responses(w).input)
  BY InputConcat
<1> HIDE DEF M, E, m, tools, items
<1>9. PICK tail \in Seq(M) : tail = <<m>> \o tools
  BY <1>2, ConcatProperties
<1>10. turned = opening \o tail /\ turned \in Seq(M)
  <2>1. opening \o tail \in Seq(M)
    BY <1>9, <1>1, ConcatProperties
  <2>2. QED
    BY <1>5, <1>9, <2>1
<1>11. PICK a \in Seq(E) : a = chat_to_responses(opening).input /\ \A n \in 1..Len(a) : a[n].type \in Roles
  <2>1. chat_to_responses(opening).input \in Seq(QuietItem(Calls, Ids))
    BY QuietInput
  <2>2. QED
    BY <1>6, <2>1, SeqMonotonic, ElementOfSeq
<1>12. PICK d \in Seq(E) : 
         /\ d = chat_to_responses(tools).input
         /\ \A n \in 1..Len(d) : d[n] \in ResultItem(Calls, Ids)
  BY <1>2, <1>6, SeqMonotonic, ElementOfSeq
<1>13. PICK v \in Seq(E) : v = items \o d
  BY <1>3, ConcatProperties
<1>14. chat_to_responses(tail).input = v
  <2>1. PICK s \in Seq(M), t \in Seq(M) : s = <<m>> /\ t = tools
    BY <1>2
  <2>2. chat_to_responses(Then(s, t)).input
          = Then(chat_to_responses(s).input, chat_to_responses(t).input)
    BY <1>8
  <2>3. Then(s, t) = tail /\ Then(items, d) = v
    BY <1>9, <1>13, <2>1 DEF Then
  <2>4. QED
    BY <1>7, <1>12, <2>1, <2>2, <2>3
<1>15. input = a \o v
  <2>1. PICK s \in Seq(M) : s = opening
    BY <1>1
  <2>2. chat_to_responses(Then(s, tail)).input
          = Then(chat_to_responses(s).input, chat_to_responses(tail).input)
    BY <1>8
  <2>3. Then(s, tail) = turned
    BY <1>10, <2>1 DEF Then
  <2>4. input = Then(a, v)
    BY <1>11, <1>14, <2>1, <2>2, <2>3 DEF input
  <2>5. QED
    BY <2>4 DEF Then
<1>16. input \in Seq(E)
  BY <1>15, ConcatProperties
<1> HIDE DEF input
<1>17. PICK la \in Nat, lc \in Nat, li \in Nat, ld \in Nat :
         la = Len(a) /\ lc = Len(told) /\ li = Len(items) /\ ld = Len(d) /\ lc <= li
  BY <1>3, <1>4, LenProperties
<1>18. /\ Len(v) = li + ld
       /\ \A n \in 1..li + ld : v[n] = IF n <= li THEN items[n] ELSE d[n - li]
  BY <1>3, <1>13, <1>17, ConcatProperties
<1>19. /\ Len(input) = la + (li + ld) /\ DOMAIN input = 1..la + (li + ld)
       /\ \A n \in 1..la + (li + ld) : input[n] = IF n <= la THEN a[n] ELSE v[n - la]
  <2>1. /\ Len(a \o v) = Len(a) + Len(v)
        /\ \A n \in 1..Len(a) + Len(v) :
             (a \o v)[n] = IF n <= Len(a) THEN a[n] ELSE v[n - Len(a)]
    BY ConcatProperties
  <2>2. DOMAIN input = 1..Len(input)
    BY <1>16, LenProperties
  <2>3. QED
    BY <1>15, <1>17, <1>18, <2>1, <2>2
<1>20. ASSUME NEW n \in 1..la + (li + ld)
       PROVE  \/ n <= la /\ input[n].type \in Roles
              \/ /\ n > la /\ n <= la + lc
                 /\ input[n].type = "function_call" /\ input[n].call = {told[n - la]}
              \/ n > la + lc /\ input[n].type \in Roles
              \/ n > la + lc /\ input[n] \in ResultItem(Calls, Ids)
  <2>1. CASE n <= la
    <3>1. n \in 1..la /\ input[n] = a[n]
      BY <1>19, <2>1
    <3>2. input[n].type \in Roles
      BY <1>11, <1>17, <3>1
    <3>3. QED
      BY <2>1, <3>2
  <2>2. CASE n > la
    <3>1. PICK i \in 1..li + ld : n = la + i /\ i = n - la
      BY <2>2
    <3>2. input[n] = v[i]
      BY <1>19, <2>2, <3>1
    <3>3. CASE i <= li
      <4>1. i \in 1..li /\ v[i] = items[i]
        BY <1>18, <3>3
      <4>2. CASE i <= lc
        BY <1>3, <1>17, <3>1, <3>2, <4>1, <4>2
      <4>3. CASE i > lc
        BY <1>3, <1>17, <3>1, <3>2, <4>1, <4>3
      <4>4. QED
        BY <4>2, <4>3
    <3>4. CASE i > li
      <4>1. PICK j \in 1..ld : j = i - li
        BY <3>4
      <4>2. v[i] = d[j]
        BY <1>18, <3>4, <4>1
      <4>3. d[j] \in ResultItem(Calls, Ids)
        BY <1>12, <1>17, <4>1
      <4>4. n > la + lc
        BY <1>17, <3>1, <3>4
      <4>5. QED
        BY <3>2, <4>2, <4>3, <4>4
    <3>5. QED
      BY <3>3, <3>4
  <2>3. QED
    BY <2>1, <2>2
<1>21. la \in 0..Len(input)
  BY <1>19
<1>22. {n \in DOMAIN input : input[n].type = "function_call"} = la + 1 .. la + lc
  <2>1. ASSUME NEW n \in 1..la + (li + ld)
        PROVE  input[n].type = "function_call" <=> n \in la + 1 .. la + lc
    <3>1. /\ "function_call" \notin Roles
          /\ input[n] \in ResultItem(Calls, Ids) => input[n].type # "function_call"
      BY <1>6 DEF Roles
    <3>2. QED
      BY <1>20, <3>1
  <2>2. la + 1 .. la + lc \subseteq 1..la + (li + ld)
    BY <1>17
  <2>3. QED
    BY <1>19, <2>1, <2>2
<1>23. ASSUME NEW i \in 1..lc PROVE input[la + i].call = {told[i]}
  <2>1. PICK n \in Nat : n = la + i
    OBVIOUS
  <2>2. n \in 1..la + (li + ld) /\ n - la = i /\ n > la /\ n <= la + lc
    BY <1>17, <2>1
  <2>3. input[n].call = {told[n - la]}
    <3>1. ~(n <= la) /\ ~(n > la + lc)
      BY <2>2
    <3>2. QED
      BY <1>20, <2>2, <3>1
  <2>4. QED
    BY <2>1, <2>2, <2>3
<1>24. ASSUME NEW n \in DOMAIN input, input[n].type = "function_call_output"
       PROVE  /\ n > la + lc
              /\ \E id \in Ids : input[n].call = {[id |-> id, arguments |-> <<>>]}
  BY <1>6, <1>19, <1>20, <1>24 DEF Roles
<1>25. QED
  BY <1>10, <1>17, <1>21, <1>22, <1>23, <1>24 DEF input, M, HandsBack
=============================================================================
