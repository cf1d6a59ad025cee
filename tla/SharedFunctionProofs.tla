------------------------- MODULE SharedFunctionProofs -------------------------
(***************************************************************************)
(* Proofs about Serde and SharedFunction: what is encoded is decoded again *)
(* up to subclasses, so different keys have different encodings, and the   *)
(* shared cache never answers a call with the result of another one.       *)
(***************************************************************************)
EXTENDS SharedFunction, InductionLemmas, FiniteSetTheorems, SequenceTheorems, TLAPS

(***************************************************************************)
(* Concatenation, as in the loop over the items of a tuple                 *)
(***************************************************************************)

Data == Seq(Int)
Cat(s, t) == s \o t

(* The laws of concatenation, and the lengths.                             *)
LEMMA DataLaws ==
    /\ <<>> \in Data /\ Len(<<>>) = 0
    /\ \A s \in Data : Len(s) \in Nat /\ Cat(s, <<>>) = s /\ Cat(<<>>, s) = s
    /\ \A s, t \in Data : Cat(s, t) \in Data /\ Len(Cat(s, t)) = Len(s) + Len(t)
BY EmptySeq, ConcatProperties, ConcatEmptySeq DEF Data, Cat

(* Concatenation is associative.                                           *)
LEMMA CatAssociative ==
    \A s, t, u \in Data : Cat(Cat(s, t), u) = Cat(s, Cat(t, u))
BY ConcatAssociative DEF Data, Cat

(* joined[i]: the first i of n sequences, one after the other.             *)
IsJoin(joined, seqs, n) ==
    /\ joined \in [0 .. n -> Data]
    /\ joined[0] = <<>>
    /\ \A i \in 1 .. n : joined[i] = Cat(joined[i - 1], seqs[i])

Begins(whole, part) == \E r \in Data : whole = Cat(part, r)

(* FlattenSeq joins all of them.                                           *)
LEMMA FlattenJoins ==
    ASSUME NEW n \in Nat, NEW seqs \in [1 .. n -> Data]
    PROVE  \E joined : IsJoin(joined, seqs, n) /\ FlattenSeq(seqs) = joined[n]
<1> DEFINE S == Data
           empty == <<>>
           step == [i \in Nat |-> [x \in S |-> IF i \in 1 .. n THEN Cat(x, seqs[i]) ELSE x]]
<1>1. n \in Nat /\ empty \in S /\ Len(seqs) = n
  BY DataLaws
<1>2. step \in [Nat -> [S -> S]]
  BY DataLaws
<1>3. PICK f \in [Nat -> S] : f[0] = empty /\ \A i \in Nat : f[i + 1] = step[i + 1][f[i]]
  <2> HIDE DEF step, empty, S
  <2>1. Runs(S, empty, step) # {}
    BY <1>1, <1>2, Iteration, Zenon
  <2> QED BY <2>1 DEF Runs
<1>4. ASSUME NEW i \in 1 .. n PROVE f[i] = Cat(f[i - 1], seqs[i])
  <2>1. i - 1 \in Nat /\ i \in Nat /\ (i - 1) + 1 = i
    BY <1>1
  <2>2. f[i] = step[i][f[i - 1]]
    <3> HIDE DEF step
    <3> QED BY <1>3, <2>1
  <2> QED BY <2>1, <2>2, <1>3
<1> DEFINE joined == [i \in 0 .. n |-> f[i]]
<1>5. IsJoin(joined, seqs, n)
  <2>1. joined \in [0 .. n -> Data] /\ joined[0] = <<>>
    BY <1>1, <1>3
  <2>2. ASSUME NEW i \in 1 .. n PROVE joined[i] = Cat(joined[i - 1], seqs[i])
    <3>1. i \in 0 .. n /\ i - 1 \in 0 .. n
      BY <1>1
    <3>2. joined[i] = f[i] /\ joined[i - 1] = f[i - 1]
      BY <3>1
    <3> QED BY <1>4, <3>2
  <2> HIDE DEF joined
  <2> QED BY <2>1, <2>2 DEF IsJoin
<1>6. FlattenSeq(seqs) = f[n]
  <2>1. CASE n = 0
    <3>1. seqs = <<>>
      BY <1>1, <2>1
    <3> QED BY <1>1, <1>3, <2>1, <3>1 DEF FlattenSeq, Cat
  <2>2. CASE n # 0
    <3> DEFINE Q(x) == x = [i \in 1 .. n |-> IF i = 1 THEN seqs[i] ELSE Cat(x[i - 1], seqs[i])]
               g == [i \in 1 .. n |-> f[i]]
    <3>0. 1 \in 1 .. n /\ f[1] = seqs[1]
      <4>1. 1 \in 1 .. n /\ 1 - 1 = 0
        BY <1>1, <2>2
      <4>2. f[1] = Cat(f[1 - 1], seqs[1])
        BY ONLY <1>4, <4>1
      <4>3. seqs[1] \in Data /\ f[1 - 1] = <<>>
        BY <1>1, <1>3, <4>1
      <4> QED BY <4>1, <4>2, <4>3, DataLaws
    <3>1. FlattenSeq(seqs) = (CHOOSE x : Q(x))[n]
      BY <1>1, <2>2 DEF FlattenSeq, Cat
    <3>2. Q(g)
      <4>1. ASSUME NEW i \in 1 .. n
            PROVE  g[i] = IF i = 1 THEN seqs[i] ELSE Cat(g[i - 1], seqs[i])
        <5>1. CASE i = 1
          BY <3>0, <5>1
        <5>2. CASE i # 1
          <6>1. i - 1 \in 1 .. n
            BY <1>1, <5>2
          <6> QED BY <1>4, <5>2, <6>1
        <5> QED BY <5>1, <5>2
      <4> QED BY <4>1
    <3>3. PICK x : Q(x) /\ FlattenSeq(seqs) = x[n]
      <4> HIDE DEF Q, g
      <4> QED BY <3>1, <3>2
    <3> HIDE DEF g
    <3> DEFINE T == {i \in Nat : i + 1 \in 1 .. n => x[i + 1] = f[i + 1]}
    <3>4. 0 \in T
      BY <3>0, <3>3
    <3>5. ASSUME NEW i \in T PROVE i + 1 \in T
      <4> SUFFICES ASSUME (i + 1) + 1 \in 1 .. n PROVE x[(i + 1) + 1] = f[(i + 1) + 1]
        OBVIOUS
      <4>1. i + 1 \in 1 .. n /\ (i + 1) + 1 # 1 /\ ((i + 1) + 1) - 1 = i + 1
        BY <1>1
      <4>2. x[(i + 1) + 1] = Cat(x[i + 1], seqs[(i + 1) + 1])
        BY <3>3, <4>1
      <4> QED BY <4>1, <4>2, <1>4
    <3>6. T = Nat
      <4>1. T \in SUBSET Nat
        OBVIOUS
      <4> HIDE DEF T
      <4> QED BY <3>4, <3>5, <4>1, SetInduction
    <3>7. n - 1 \in Nat /\ (n - 1) + 1 = n /\ n \in 1 .. n
      BY <1>1, <2>2
    <3>8. n - 1 \in T
      BY <3>6, <3>7
    <3>9. x[n] = f[n]
      BY <3>7, <3>8
    <3> QED BY <3>3, <3>9
  <2> QED BY <2>1, <2>2
<1>7. joined[n] = f[n]
  BY <1>1
<1> HIDE DEF joined
<1> QED BY <1>5, <1>6, <1>7

(* The rest of the data is shorter by what was consumed.                   *)
LEMMA RestType ==
    ASSUME NEW data \in Data, NEW n \in Nat
    PROVE  /\ Rest(data, n) \in Data
           /\ Len(Rest(data, n)) = IF n <= Len(data) THEN Len(data) - n ELSE 0
<1>1. Len(data) \in Nat /\ \A i \in n + 1 .. Len(data) : data[i] \in Int
  BY DEF Data
<1> QED BY <1>1, SubSeqProperties DEF Rest, Data

(* What follows the first part of a concatenation is the second part.      *)
LEMMA RestOfConcat ==
    ASSUME NEW s \in Data, NEW t \in Data
    PROVE  Rest(Cat(s, t), Len(s)) = t
<1> DEFINE n == Len(s)
           m == Len(t)
           u == Cat(s, t)
           r == Rest(u, n)
<1>1. n \in Nat /\ m \in Nat /\ u \in Data /\ Len(u) = n + m
  BY DataLaws
<1>2. r \in Data /\ Len(r) = m
  <2> HIDE DEF n, m, u
  <2>1. r \in Data /\ Len(r) = IF n <= Len(u) THEN Len(u) - n ELSE 0
    BY <1>1, RestType
  <2> HIDE DEF r
  <2> QED BY <1>1, <2>1
<1>3. ASSUME NEW i \in 1 .. m PROVE r[i] = t[i]
  <2>1. \A j \in n + 1 .. n + m : u[j] \in Int
    BY <1>1 DEF Data
  <2>2. r[i] = u[n + i]
    BY <1>1, <2>1, SubSeqProperties DEF Rest
  <2>3. u[n + i] = t[i]
    BY <1>1, ConcatProperties DEF Data, Cat
  <2> QED BY <2>2, <2>3
<1> HIDE DEF n, m, u, r
<1>4. r = t
  BY <1>2, <1>3, SeqEqual DEF m, Data
<1> QED BY <1>4 DEF r, u, n

(* What is joined begins with the first i sequences.                       *)
LEMMA JoinBegins ==
    ASSUME NEW n \in Nat, NEW seqs \in [1 .. n -> Data], NEW joined,
           IsJoin(joined, seqs, n), NEW i \in 0 .. n
    PROVE  Begins(joined[n], joined[i])
<1> DEFINE T == {j \in Nat : j \in i .. n => Begins(joined[j], joined[i])}
<1>1. i \in Nat /\ joined[i] \in Data
  BY DEF IsJoin
<1>2. Begins(joined[i], joined[i])
  BY <1>1, DataLaws DEF Begins
<1>3. 0 \in T
  BY <1>1, <1>2
<1>4. ASSUME NEW j \in T PROVE j + 1 \in T
  <2>1. CASE j + 1 \notin i .. n \/ j + 1 = i
    BY <1>1, <1>2, <2>1
  <2>2. CASE j + 1 \in i .. n /\ j + 1 # i
    <3>1. j \in i .. n /\ j + 1 \in 1 .. n /\ (j + 1) - 1 = j
      BY <1>1, <2>2
    <3>2. PICK r \in Data : joined[j] = Cat(joined[i], r)
      BY <3>1 DEF Begins
    <3>3. joined[j + 1] = Cat(joined[(j + 1) - 1], seqs[j + 1]) /\ seqs[j + 1] \in Data
      BY <3>1 DEF IsJoin
    <3>4. joined[j + 1] = Cat(joined[i], Cat(r, seqs[j + 1])) /\ Cat(r, seqs[j + 1]) \in Data
      <4>1. Cat(r, seqs[j + 1]) \in Data
        BY <3>3, DataLaws
      <4>2. joined[j + 1] = Cat(Cat(joined[i], r), seqs[j + 1])
        BY <3>1, <3>2, <3>3
      <4> QED BY <1>1, <3>3, <4>1, <4>2, CatAssociative
    <3>5. Begins(joined[j + 1], joined[i])
      BY <3>4 DEF Begins
    <3> QED BY <3>5
  <2> QED BY <2>1, <2>2
<1>5. T = Nat
  <2>1. T \in SUBSET Nat
    OBVIOUS
  <2> HIDE DEF T
  <2> QED BY <1>3, <1>4, <2>1, SetInduction
<1>6. n \in T /\ n \in i .. n
  BY <1>5
<1> QED BY <1>6

SplitsAt(joined, seqs, n, i) ==
    /\ joined[i - 1] \in Data /\ seqs[i] \in Data
    /\ Len(joined[i]) = Len(joined[i - 1]) + Len(seqs[i])
    /\ \E r \in Data : joined[n] = Cat(joined[i - 1], Cat(seqs[i], r))

(* The i-th sequence stands between the ones before it and a rest.         *)
LEMMA JoinSplits ==
    ASSUME NEW n \in Nat, NEW seqs \in [1 .. n -> Data], NEW joined,
           IsJoin(joined, seqs, n), NEW i \in 1 .. n
    PROVE  SplitsAt(joined, seqs, n, i)
<1>1. /\ i \in 0 .. n /\ i - 1 \in 0 .. n
      /\ joined[i] = Cat(joined[i - 1], seqs[i])
  BY DEF IsJoin
<1>2. joined[i - 1] \in Data /\ seqs[i] \in Data
  BY <1>1 DEF IsJoin
<1>3. PICK r \in Data : joined[n] = Cat(joined[i], r)
  BY <1>1, JoinBegins DEF Begins
<1>4. joined[n] = Cat(joined[i - 1], Cat(seqs[i], r))
  BY <1>1, <1>2, <1>3, CatAssociative
<1>5. Len(joined[i]) = Len(joined[i - 1]) + Len(seqs[i])
  BY <1>1, <1>2, DataLaws
<1> QED BY <1>2, <1>4, <1>5 DEF SplitsAt

(***************************************************************************)
(* The encoder is well defined                                             *)
(***************************************************************************)

(* What f gives for the items of a tuple.                                  *)
ItemsBy(f, obj) == [i \in DOMAIN obj.s |-> f[obj.s[i]]]

(* The parts of an object.                                                 *)
LEMMA ObjectParts ==
    ASSUME NEW obj \in Objects
    PROVE  /\ obj \in [type : Types, sub : BOOLEAN, c : Seq(Int), s : Seq(Objects)]
           /\ obj.type \in Types /\ obj.c \in Data /\ obj.c \in Contents(obj.type)
           /\ Len(obj.s) \in Nat /\ DOMAIN obj.s = 1 .. Len(obj.s)
           /\ obj.type # "tuple" => obj.s = <<>>
           /\ Depth[obj] \in Nat
           /\ \A i \in 1 .. Len(obj.s) :
                obj.s[i] \in Objects /\ Depth[obj.s[i]] \in Nat /\ Depth[obj.s[i]] < Depth[obj]
<1>1. obj \in [type : Types, sub : BOOLEAN, c : Seq(Int), s : Seq(Objects)]
  BY SerdeAssumption
<1>2. obj.type \in Types /\ obj.c \in Data /\ obj.s \in Seq(Objects)
  BY <1>1 DEF Data
<1>3. /\ obj.c \in Contents(obj.type)
      /\ obj.type # "tuple" => obj.s = <<>>
      /\ Depth \in [Objects -> Nat]
      /\ \A i \in DOMAIN obj.s : Depth[obj.s[i]] < Depth[obj]
  BY SerdeAssumption
<1>4. Len(obj.s) \in Nat /\ DOMAIN obj.s = 1 .. Len(obj.s)
  BY <1>2
<1>5. \A i \in 1 .. Len(obj.s) : obj.s[i] \in Objects
  BY <1>2
<1> QED BY <1>1, <1>2, <1>3, <1>4, <1>5

(* Contents of one number.                                                 *)
LEMMA NumberContents ==
    ASSUME NEW obj \in Objects, obj.type \in {"int", "float"}
    PROVE  Len(obj.c) = 1 /\ obj.c[1] \in Int /\ obj.c = <<obj.c[1]>>
<1>1. obj.c \in {c \in Seq(Int) : Len(c) = 1}
  BY ObjectParts DEF Contents
<1> QED BY <1>1

(* The tag goes by the type.                                               *)
LEMMA TagByType ==
    ASSUME NEW obj \in Objects
    PROVE  /\ Tag(obj) \in 0 .. 8
           /\ Tag(obj) = TAG_NONE <=> obj.type = "none"
           /\ Tag(obj) = TAG_FALSE <=> obj.type = "bool" /\ obj.c # <<1>>
           /\ Tag(obj) = TAG_TRUE <=> obj.type = "bool" /\ obj.c = <<1>>
           /\ Tag(obj) = TAG_I64 <=> obj.type = "int"
           /\ Tag(obj) = TAG_F64 <=> obj.type = "float"
           /\ Tag(obj) = TAG_STR <=> obj.type = "str"
           /\ Tag(obj) = TAG_BYTES <=> obj.type = "bytes"
           /\ Tag(obj) = TAG_TUPLE <=> obj.type = "tuple"
           /\ Tag(obj) = TAG_PICKLE <=> obj.type = "other"
<1>1. obj.type \in Types
  BY ObjectParts
<1> QED BY <1>1 DEF Types, Tag, TagOfBool, is_instance_of, TAG_NONE, TAG_FALSE, TAG_TRUE,
                TAG_I64, TAG_F64, TAG_STR, TAG_BYTES, TAG_TUPLE, TAG_PICKLE

(* The u32 length of some contents is a number.                            *)
LEMMA LengthField ==
    ASSUME NEW s \in Data
    PROVE  /\ Len(s) % U32 \in Nat
           /\ Len(s) < U32 => Len(s) % U32 = Len(s)
<1>1. U32 \in Nat \ {0} /\ Len(s) \in Nat
  BY SerdeAssumption, DataLaws
<1> QED BY <1>1

(* Two numbers are data.                                                   *)
LEMMA HeadIsData ==
    /\ \A a \in Int : <<a>> \in Data /\ Len(<<a>>) = 1
    /\ \A a, b \in Int : <<a, b>> \in Data /\ Len(<<a, b>>) = 2
BY DEF Data

(* An encoding is data, whatever the items of a tuple are encoded as.      *)
LEMMA EncodingType ==
    ASSUME NEW obj \in Objects, NEW items \in [1 .. Len(obj.s) -> Data]
    PROVE  Encoding(obj, items) \in Data
<1> DEFINE tag == Tag(obj)
           n == Len(obj.s)
<1>1. tag \in Int /\ obj.c \in Data /\ n \in Nat
  <2>1. Tag(obj) \in 0 .. 8
    BY TagByType
  <2>2. obj.c \in Data /\ Len(obj.s) \in Nat
    BY ObjectParts
  <2> QED BY <2>1, <2>2
<1>2. <<tag>> \in Data /\ <<>> \in Data /\ \A m \in Int : <<tag, m>> \in Data
  BY <1>1, HeadIsData, DataLaws
<1>3. tag \in {TAG_I64, TAG_F64} => obj.c[1] \in Int
  BY TagByType, NumberContents DEF TAG_I64, TAG_F64
<1>4. WithLength(tag, obj.c) \in Data
  BY <1>1, <1>2, LengthField, DataLaws DEF WithLength, Cat
<1>5. FlattenSeq(items) \in Data
  <2>1. PICK joined : IsJoin(joined, items, n) /\ FlattenSeq(items) = joined[n]
    BY <1>1, FlattenJoins
  <2> QED BY <1>1, <2>1 DEF IsJoin
<1>6. <<tag, n>> \o FlattenSeq(items) \in Data
  <2> DEFINE a == <<tag, n>>
             b == FlattenSeq(items)
  <2>1. a \in Data /\ b \in Data
    BY <1>1, <1>2, <1>5
  <2> HIDE DEF a, b
  <2>2. Cat(a, b) \in Data
    BY <2>1, DataLaws
  <2> QED BY <2>2 DEF Cat, a, b
<1> HIDE DEF n
<1>7. <<tag, n>> \o FlattenSeq(items) = <<Tag(obj), Len(obj.s)>> \o FlattenSeq(items)
  BY DEF n
<1> HIDE DEF tag
<1> QED BY <1>2, <1>3, <1>4, <1>6, <1>7 DEF Encoding, Unsupported, tag

(* serialize_element is what its definition says, and gives data.          *)
LEMMA SerializeElement ==
    /\ serialize_element \in [Objects -> Data]
    /\ \A obj \in Objects : serialize_element[obj] = Encoding(obj, ItemsBy(serialize_element, obj))
<1> DEFINE O == Objects
           Body(f) == [obj \in O |-> Encoding(obj, ItemsBy(f, obj))]
           F == [f \in [O -> Data] |-> Body(f)]
           empty == <<>>
<1>1. ASSUME NEW f \in [O -> Data], NEW obj \in O
      PROVE  ItemsBy(f, obj) \in [1 .. Len(obj.s) -> Data]
  BY ObjectParts DEF ItemsBy
<1>2. F \in [[O -> Data] -> [O -> Data]] /\ Depth \in [O -> Nat] /\ empty \in Data
  BY <1>1, EncodingType, SerdeAssumption, DataLaws
<1>3. LooksBelow(F, O, Data, Depth)
  <2>1. ASSUME NEW f \in [O -> Data], NEW g \in [O -> Data], NEW obj \in O,
               \A y \in O : Depth[y] < Depth[obj] => f[y] = g[y]
        PROVE  F[f][obj] = F[g][obj]
    <3>1. ItemsBy(f, obj) = ItemsBy(g, obj)
      BY <2>1, ObjectParts DEF ItemsBy
    <3> QED BY <3>1
  <2> HIDE DEF F
  <2> QED BY <1>2, <2>1 DEF LooksBelow
<1>4. PICK f \in [O -> Data] : f = F[f]
  <2> HIDE DEF F, O, empty
  <2>1. Solutions(F, O, Data) # {}
    BY <1>2, <1>3, DepthRecursion, Zenon
  <2> QED BY <2>1 DEF Solutions
<1> DEFINE Q(x) == x = [obj \in Objects |-> Encoding(obj, [i \in DOMAIN obj.s |-> x[obj.s[i]]])]
<1>5. Q(f)
  BY <1>4 DEF ItemsBy
<1>6. serialize_element = CHOOSE x : Q(x)
  BY DEF serialize_element
<1>7. Q(serialize_element)
  <2> HIDE DEF Q
  <2> QED BY <1>5, <1>6
<1> DEFINE e == serialize_element
<1> HIDE DEF e
<1>8. e = [obj \in Objects |-> Encoding(obj, ItemsBy(e, obj))]
  BY <1>7 DEF e, ItemsBy
<1> DEFINE T == {d \in Nat : \A obj \in Objects : Depth[obj] < d => e[obj] \in Data}
<1>9. 0 \in T
  BY ObjectParts
<1>10. ASSUME NEW d \in T PROVE d + 1 \in T
  <2> SUFFICES ASSUME NEW obj \in Objects, Depth[obj] < d + 1 PROVE e[obj] \in Data
    OBVIOUS
  <2>1. ASSUME NEW i \in 1 .. Len(obj.s) PROVE e[obj.s[i]] \in Data
    <3>1. obj.s[i] \in Objects /\ Depth[obj.s[i]] < Depth[obj] /\ Depth[obj.s[i]] \in Nat
      BY ObjectParts
    <3>2. Depth[obj.s[i]] < d
      BY <3>1, ObjectParts
    <3> QED BY <3>1, <3>2
  <2>2. ItemsBy(e, obj) \in [1 .. Len(obj.s) -> Data]
    BY <2>1, ObjectParts DEF ItemsBy
  <2> QED BY <1>8, <2>2, EncodingType
<1>11. T = Nat
  <2>1. T \in SUBSET Nat
    OBVIOUS
  <2> HIDE DEF T
  <2> QED BY <1>9, <1>10, <2>1, SetInduction
<1>12. ASSUME NEW obj \in Objects PROVE e[obj] \in Data
  <2>1. Depth[obj] + 1 \in Nat /\ Depth[obj] < Depth[obj] + 1
    BY ObjectParts
  <2>2. Depth[obj] + 1 \in T
    BY <1>11, <2>1
  <2> QED BY <2>1, <2>2
<1>13. e \in [Objects -> Data]
  BY <1>8, <1>12
<1> QED BY <1>8, <1>13 DEF e

(***************************************************************************)
(* The objects that the decoder can build                                  *)
(***************************************************************************)

Atoms == {Object(t, c) : t \in Types, c \in Data}
Grow(A) == A \cup {Tuple(s) : s \in Seq(A)}

(* g[i]: the objects with tuples nested at most i deep, for i up to n.     *)
Levels(g, n) == g[0] = Atoms /\ \A i \in Nat : i < n => g[i + 1] = Grow(g[i])
Level(n) == (CHOOSE g : Levels(g, n))[n]

AllLevels == UNION {Level(n) : n \in Nat}

(* Each level is the one below and the tuples of its members.              *)
LEMMA LevelsGrow ==
    Level(0) = Atoms /\ \A n \in Nat : Level(n + 1) = Grow(Level(n))
<1> DEFINE Reached == {n \in Nat : \E g : Levels(g, n)}
<1>1. 0 \in Reached
  <2> DEFINE g == [i \in Nat |-> Atoms]
  <2>1. Levels(g, 0)
    BY DEF Levels
  <2> QED BY <2>1
<1>2. ASSUME NEW n \in Reached PROVE n + 1 \in Reached
  <2>1. PICK g : Levels(g, n)
    OBVIOUS
  <2> DEFINE h == [i \in Nat |-> IF i = n + 1 THEN Grow(g[n]) ELSE g[i]]
  <2>2. h[0] = Atoms
    BY <2>1 DEF Levels
  <2>3. ASSUME NEW i \in Nat, i < n + 1 PROVE h[i + 1] = Grow(h[i])
    <3>1. h[i] = g[i]
      BY <2>3
    <3>2. CASE i = n
      BY <3>1, <3>2
    <3>3. CASE i < n
      BY <2>1, <3>1, <3>3 DEF Levels
    <3> QED BY <2>3, <3>2, <3>3
  <2>4. Levels(h, n + 1)
    <3> HIDE DEF h
    <3> QED BY <2>2, <2>3 DEF Levels
  <2> HIDE DEF h
  <2> QED BY <2>4
<1>3. Reached = Nat
  <2>1. Reached \in SUBSET Nat
    OBVIOUS
  <2> HIDE DEF Reached
  <2> QED BY <1>1, <1>2, <2>1, SetInduction
<1> DEFINE a(n) == CHOOSE g : Levels(g, n)
<1>4. ASSUME NEW n \in Nat PROVE Levels(a(n), n)
  <2>1. \E g : Levels(g, n)
    BY <1>3
  <2> QED BY <2>1
<1>5. ASSUME NEW n \in Nat, NEW g, NEW h, Levels(g, n), Levels(h, n) PROVE g[n] = h[n]
  <2> DEFINE Same == {i \in Nat : i <= n => g[i] = h[i]}
  <2>1. 0 \in Same
    BY <1>5 DEF Levels
  <2>2. ASSUME NEW i \in Same PROVE i + 1 \in Same
    BY <1>5 DEF Levels
  <2>3. Same = Nat
    <3>1. Same \in SUBSET Nat
      OBVIOUS
    <3> HIDE DEF Same
    <3> QED BY <2>1, <2>2, <3>1, SetInduction
  <2> QED BY <2>3
<1>6. ASSUME NEW n \in Nat PROVE Level(n + 1) = Grow(Level(n))
  <2>1. Levels(a(n), n) /\ Levels(a(n + 1), n + 1)
    BY <1>4, n + 1 \in Nat
  <2>2. Levels(a(n + 1), n) /\ a(n + 1)[n + 1] = Grow(a(n + 1)[n])
    <3> HIDE DEF a
    <3> QED BY <2>1 DEF Levels
  <2>3. a(n + 1)[n] = a(n)[n]
    <3> HIDE DEF a
    <3> QED BY <2>1, <2>2, <1>5
  <2> QED BY <2>2, <2>3 DEF Level
<1>7. Level(0) = Atoms
  <2>1. Levels(a(0), 0)
    BY <1>4
  <2> QED BY <2>1 DEF Level, Levels
<1> QED BY <1>6, <1>7

(* The levels hold every atom and every tuple of their objects.            *)
LEMMA LevelsAreClosed ==
    /\ \A t \in Types, c \in Data : Object(t, c) \in AllLevels
    /\ \A s \in Seq(AllLevels) : Tuple(s) \in AllLevels
<1>1. ASSUME NEW t \in Types, NEW c \in Data PROVE Object(t, c) \in AllLevels
  <2>1. Object(t, c) \in Level(0)
    BY LevelsGrow DEF Atoms
  <2> QED BY <2>1 DEF AllLevels
<1>2. ASSUME NEW n \in Nat, NEW m \in Nat, n <= m PROVE Level(n) \subseteq Level(m)
  <2> DEFINE T == {d \in Nat : Level(n) \subseteq Level(n + d)}
  <2>1. 0 \in T
    BY n + 0 = n
  <2>2. ASSUME NEW d \in T PROVE d + 1 \in T
    <3>1. Level((n + d) + 1) = Grow(Level(n + d))
      BY LevelsGrow, n + d \in Nat
    <3>2. (n + d) + 1 = n + (d + 1)
      OBVIOUS
    <3> QED BY <3>1, <3>2 DEF Grow
  <2>3. T = Nat
    <3>1. T \in SUBSET Nat
      OBVIOUS
    <3> HIDE DEF T
    <3> QED BY <2>1, <2>2, <3>1, SetInduction
  <2>4. m - n \in Nat /\ n + (m - n) = m
    BY <1>2
  <2>5. m - n \in T
    BY <2>3, <2>4
  <2>6. Level(n) \subseteq Level(n + (m - n))
    BY <2>5
  <2> QED BY <2>4, <2>6
<1>3. ASSUME NEW s \in Seq(AllLevels) PROVE Tuple(s) \in AllLevels
  <2> DEFINE n == Len(s)
             Within(k, m) == \A i \in 1 .. k : i <= n => s[i] \in Level(m)
             T == {k \in Nat : \E m \in Nat : Within(k, m)}
  <2>1. n \in Nat /\ s \in [1 .. n -> AllLevels]
    OBVIOUS
  <2>2. 0 \in T
    <3>1. Within(0, 0)
      OBVIOUS
    <3> QED BY <3>1
  <2>3. ASSUME NEW k \in T PROVE k + 1 \in T
    <3>1. PICK m \in Nat : Within(k, m)
      OBVIOUS
    <3>2. CASE k + 1 > n
      <4>1. Within(k + 1, m)
        BY <2>1, <3>1, <3>2
      <4> QED BY <4>1
    <3>3. CASE k + 1 <= n
      <4>1. PICK l \in Nat : s[k + 1] \in Level(l)
        <5>1. s[k + 1] \in AllLevels
          BY <2>1, <3>3
        <5> QED BY <5>1 DEF AllLevels
      <4>2. PICK big \in Nat : m <= big /\ l <= big
        <5>1. m + l \in Nat /\ m <= m + l /\ l <= m + l
          OBVIOUS
        <5> QED BY <5>1
      <4>3. Level(m) \subseteq Level(big) /\ Level(l) \subseteq Level(big)
        BY <4>2, <1>2
      <4>4. Within(k + 1, big)
        <5> SUFFICES ASSUME NEW i \in 1 .. k + 1, i <= n PROVE s[i] \in Level(big)
          OBVIOUS
        <5>1. CASE i = k + 1
          BY <4>1, <4>3, <5>1
        <5>2. CASE i # k + 1
          <6>1. i \in 1 .. k
            BY <5>2
          <6> QED BY <3>1, <4>3, <6>1
        <5> QED BY <5>1, <5>2
      <4> HIDE DEF Within
      <4> QED BY <4>4
    <3> QED BY <2>1, <3>2, <3>3
  <2>4. T = Nat
    <3>1. T \in SUBSET Nat
      OBVIOUS
    <3> HIDE DEF T
    <3> QED BY <2>2, <2>3, <3>1, SetInduction
  <2>5. PICK m \in Nat : Within(n, m)
    <3> HIDE DEF Within
    <3> QED BY <2>1, <2>4
  <2>6. s \in Seq(Level(m))
    <3>1. \A i \in 1 .. n : s[i] \in Level(m)
      BY <2>1, <2>5
    <3> QED BY <2>1, <3>1
  <2>7. Tuple(s) \in Level(m + 1)
    BY <2>6, LevelsGrow DEF Grow
  <2> QED BY <2>7, m + 1 \in Nat DEF AllLevels
<1> QED BY <1>1, <1>3

(***************************************************************************)
(* Plain and the decoder are well defined                                  *)
(***************************************************************************)

PlainOf(obj, items) == [type |-> obj.type, sub |-> FALSE, c |-> obj.c, s |-> items]

(* A plain object is an atom, or a tuple of plain objects.                 *)
LEMMA PlainIsBuilt ==
    ASSUME NEW obj \in Objects, NEW V, NEW items \in [1 .. Len(obj.s) -> V]
    PROVE  /\ items \in Seq(V)
           /\ obj.type = "tuple" => PlainOf(obj, items) = Tuple(items)
           /\ obj.type # "tuple" => PlainOf(obj, items) = Object(obj.type, obj.c)
<1>1. Len(obj.s) \in Nat /\ (obj.type # "tuple" => obj.s = <<>>)
  BY ObjectParts
<1>2. items \in Seq(V)
  BY <1>1
<1>3. CASE obj.type = "tuple"
  <2>1. obj.c = <<>>
    BY <1>3, ObjectParts DEF Contents
  <2> QED BY <1>2, <1>3, <2>1 DEF PlainOf, Tuple
<1>4. CASE obj.type # "tuple"
  <2>1. Len(obj.s) = 0
    BY <1>1, <1>4
  <2>2. items = <<>>
    BY <2>1
  <2> QED BY <1>2, <1>4, <2>2 DEF PlainOf, Object
<1> QED BY <1>2, <1>3, <1>4

(* Plain is what its definition says.                                      *)
LEMMA PlainObject ==
    /\ \A obj \in Objects : Plain[obj] \in AllLevels
    /\ \A obj \in Objects : Plain[obj] = PlainOf(obj, ItemsBy(Plain, obj))
<1> DEFINE O == Objects
           V == AllLevels
           Body(f) == [obj \in O |-> PlainOf(obj, ItemsBy(f, obj))]
           F == [f \in [O -> V] |-> Body(f)]
           some == Object("none", <<>>)
<1>1. ASSUME NEW obj \in O, NEW items \in [1 .. Len(obj.s) -> V]
      PROVE  PlainOf(obj, items) \in V
  <2> HIDE DEF V
  <2>1. /\ items \in Seq(V)
        /\ obj.type = "tuple" => PlainOf(obj, items) = Tuple(items)
        /\ obj.type # "tuple" => PlainOf(obj, items) = Object(obj.type, obj.c)
    BY PlainIsBuilt
  <2>2. obj.type \in Types /\ obj.c \in Data
    BY ObjectParts
  <2> QED BY <2>1, <2>2, LevelsAreClosed DEF V
<1>2. ASSUME NEW f \in [O -> V], NEW obj \in O
      PROVE  ItemsBy(f, obj) \in [1 .. Len(obj.s) -> V]
  BY ObjectParts DEF ItemsBy
<1>3. F \in [[O -> V] -> [O -> V]] /\ Depth \in [O -> Nat] /\ some \in V
  <2>1. some \in V
    BY LevelsAreClosed, DataLaws DEF Types
  <2> HIDE DEF V, some
  <2> QED BY <1>1, <1>2, <2>1, SerdeAssumption
<1>4. LooksBelow(F, O, V, Depth)
  <2>1. ASSUME NEW f \in [O -> V], NEW g \in [O -> V], NEW obj \in O,
               \A y \in O : Depth[y] < Depth[obj] => f[y] = g[y]
        PROVE  F[f][obj] = F[g][obj]
    <3>1. ItemsBy(f, obj) = ItemsBy(g, obj)
      BY <2>1, ObjectParts DEF ItemsBy
    <3> QED BY <3>1
  <2> HIDE DEF F, V
  <2> QED BY <1>3, <2>1 DEF LooksBelow
<1>5. PICK f \in [O -> V] : f = F[f]
  <2> HIDE DEF F, O, V, some
  <2>1. Solutions(F, O, V) # {}
    BY <1>3, <1>4, DepthRecursion, Zenon
  <2> QED BY <2>1 DEF Solutions
<1> DEFINE Q(x) == x = [obj \in Objects |-> [type |-> obj.type, sub |-> FALSE, c |-> obj.c,
                                             s |-> [i \in DOMAIN obj.s |-> x[obj.s[i]]]]]
<1>6. Q(f)
  BY <1>5 DEF ItemsBy, PlainOf
<1>7. Plain = CHOOSE x : Q(x)
  BY DEF Plain
<1>8. Q(Plain)
  <2> HIDE DEF Q
  <2> QED BY <1>6, <1>7
<1> DEFINE e == Plain
<1> HIDE DEF e
<1>9. e = [obj \in Objects |-> PlainOf(obj, ItemsBy(e, obj))]
  BY <1>8 DEF e, ItemsBy, PlainOf
<1> HIDE DEF V
<1> DEFINE T == {d \in Nat : \A obj \in Objects : Depth[obj] < d => e[obj] \in V}
<1>10. 0 \in T
  BY ObjectParts
<1>11. ASSUME NEW d \in T PROVE d + 1 \in T
  <2> SUFFICES ASSUME NEW obj \in Objects, Depth[obj] < d + 1 PROVE e[obj] \in V
    OBVIOUS
  <2>1. ASSUME NEW i \in 1 .. Len(obj.s) PROVE e[obj.s[i]] \in V
    <3>1. obj.s[i] \in Objects /\ Depth[obj.s[i]] < Depth[obj] /\ Depth[obj.s[i]] \in Nat
      BY ObjectParts
    <3>2. Depth[obj.s[i]] < d
      BY <3>1, ObjectParts
    <3> QED BY <3>1, <3>2
  <2>2. ItemsBy(e, obj) \in [1 .. Len(obj.s) -> V]
    BY <2>1, ObjectParts DEF ItemsBy
  <2> QED BY <1>1, <1>9, <2>2
<1>12. T = Nat
  <2>1. T \in SUBSET Nat
    OBVIOUS
  <2> HIDE DEF T
  <2> QED BY <1>10, <1>11, <2>1, SetInduction
<1>13. ASSUME NEW obj \in Objects PROVE e[obj] \in V
  <2>1. Depth[obj] + 1 \in Nat /\ Depth[obj] < Depth[obj] + 1
    BY ObjectParts
  <2>2. Depth[obj] + 1 \in T
    BY <1>12, <2>1
  <2> QED BY <2>1, <2>2
<1> QED BY <1>9, <1>13 DEF e, V

(* What the decoder answers, and what it has gathered within a tuple.      *)
Answers == {Nothing} \cup [found : {TRUE}, obj : AllLevels, used : Nat]
Gathered == {Nothing} \cup [found : {TRUE}, obj : Seq(AllLevels), used : Nat]

(* An iteration of the loop of Items.                                      *)
ItemStep(one, data, got) ==
    LET next == one[Rest(data, got.used)]
    IN IF got.found /\ next.found
       THEN Found(Append(got.obj, next.obj), got.used + next.used)
       ELSE Nothing

(* after[i] is what the loop has after i iterations.                       *)
IsLoop(after, one, data, count) ==
    /\ after \in [0 .. count -> Gathered]
    /\ after[0] = Found(<<>>, 0)
    /\ \A i \in 1 .. count : after[i] = ItemStep(one, data, after[i - 1])

(* Found and Nothing are told apart.                                       *)
LEMMA FoundOrNothing ==
    /\ Nothing.found = FALSE
    /\ \A obj, used : /\ Found(obj, used).found = TRUE
                      /\ Found(obj, used).obj = obj
                      /\ Found(obj, used).used = used
    /\ \A obj \in AllLevels, used \in Nat : Found(obj, used) \in Answers
    /\ \A obj \in Seq(AllLevels), used \in Nat : Found(obj, used) \in Gathered
    /\ Nothing \in Answers /\ Nothing \in Gathered
    /\ \A x \in Answers : x.found \in BOOLEAN /\ (x.found => x.obj \in AllLevels /\ x.used \in Nat)
    /\ \A x \in Gathered :
        x.found \in BOOLEAN /\ (x.found => x.obj \in Seq(AllLevels) /\ x.used \in Nat)
<1> DEFINE V == AllLevels
           W == Seq(V)
<1> HIDE DEF V, W
<1>1. Answers = {Nothing} \cup [found : {TRUE}, obj : V, used : Nat]
  BY DEF Answers, V
<1>2. Gathered = {Nothing} \cup [found : {TRUE}, obj : W, used : Nat]
  BY DEF Gathered, V, W
<1>3. /\ Nothing.found = FALSE
      /\ \A obj, used : /\ Found(obj, used).found = TRUE
                        /\ Found(obj, used).obj = obj
                        /\ Found(obj, used).used = used
  BY DEF Found, Nothing
<1>4. /\ \A obj \in V, used \in Nat : Found(obj, used) \in Answers
      /\ \A obj \in W, used \in Nat : Found(obj, used) \in Gathered
      /\ Nothing \in Answers /\ Nothing \in Gathered
  BY <1>1, <1>2 DEF Found
<1>5. \A x \in Answers : x.found \in BOOLEAN /\ (x.found => x.obj \in V /\ x.used \in Nat)
  BY <1>1, <1>3
<1>6. \A x \in Gathered : x.found \in BOOLEAN /\ (x.found => x.obj \in W /\ x.used \in Nat)
  BY <1>2, <1>3
<1> QED BY <1>3, <1>4, <1>5, <1>6 DEF V, W

(* An iteration keeps the type.                                            *)
LEMMA ItemStepType ==
    ASSUME NEW one \in [Data -> Answers], NEW data \in Data, NEW got \in Gathered
    PROVE  ItemStep(one, data, got) \in Gathered
<1> DEFINE next == one[Rest(data, got.used)]
<1>1. CASE got.found /\ next.found
  <2>1. got.obj \in Seq(AllLevels) /\ got.used \in Nat
    BY <1>1, FoundOrNothing
  <2>2. Rest(data, got.used) \in Data
    BY <2>1, RestType
  <2>3. next \in Answers
    BY <2>2
  <2> HIDE DEF next
  <2>4. next.obj \in AllLevels /\ next.used \in Nat
    BY <1>1, <2>3, FoundOrNothing
  <2>5. Append(got.obj, next.obj) \in Seq(AllLevels) /\ got.used + next.used \in Nat
    BY <2>1, <2>4
  <2> QED BY <1>1, <2>5, FoundOrNothing DEF ItemStep, next
<1>2. CASE ~(got.found /\ next.found)
  BY <1>2, FoundOrNothing DEF ItemStep
<1> QED BY <1>1, <1>2

(* Items is its loop.                                                      *)
LEMMA ItemsIsLoop ==
    ASSUME NEW one \in [Data -> Answers], NEW data \in Data, NEW count \in Nat
    PROVE  \E after : IsLoop(after, one, data, count) /\ Items(one, data, count) = after[count]
<1> DEFINE s0 == Found(<<>>, 0)
           step == [i \in Nat |-> [x \in Gathered |-> ItemStep(one, data, x)]]
<1>1. s0 \in Gathered
  <2> DEFINE none == <<>>
  <2>1. none \in Seq(AllLevels) /\ 0 \in Nat
    BY EmptySeq
  <2> HIDE DEF none
  <2>2. Found(none, 0) \in Gathered
    BY <2>1, FoundOrNothing
  <2> QED BY <2>2 DEF none
<1> HIDE DEF s0
<1>2. step \in [Nat -> [Gathered -> Gathered]]
  BY ItemStepType
<1>3. PICK f \in [Nat -> Gathered] : f[0] = s0 /\ \A i \in Nat : f[i + 1] = step[i + 1][f[i]]
  <2> HIDE DEF step
  <2>1. Runs(Gathered, s0, step) # {}
    BY <1>1, <1>2, Iteration, Zenon
  <2> QED BY <2>1 DEF Runs
<1>4. ASSUME NEW i \in 1 .. count PROVE f[i] = ItemStep(one, data, f[i - 1])
  <2>1. i - 1 \in Nat /\ i \in Nat /\ (i - 1) + 1 = i
    OBVIOUS
  <2>2. f[i] = step[i][f[i - 1]]
    <3> HIDE DEF step
    <3> QED BY <1>3, <2>1
  <2> QED BY <2>1, <2>2, <1>3
<1> HIDE DEF step
<1> DEFINE g == [i \in 0 .. count |-> f[i]]
           Q(x) == x = [i \in 0 .. count |-> IF i = 0 THEN s0 ELSE ItemStep(one, data, x[i - 1])]
<1>5. Q(g)
  <2>1. ASSUME NEW i \in 0 .. count
        PROVE  g[i] = IF i = 0 THEN s0 ELSE ItemStep(one, data, g[i - 1])
    <3>1. CASE i = 0
      BY <1>3, <3>1
    <3>2. CASE i # 0
      <4>1. i \in 1 .. count /\ i - 1 \in 0 .. count
        BY <3>2
      <4> QED BY <1>4, <3>2, <4>1
    <3> QED BY <3>1, <3>2
  <2> QED BY <2>1
<1>6. Items(one, data, count) = (CHOOSE x : Q(x))[count]
  BY DEF Items, ItemStep, s0
<1>7. PICK e : Q(e) /\ Items(one, data, count) = e[count]
  <2> HIDE DEF Q, g
  <2> QED BY <1>5, <1>6
<1> HIDE DEF g
<1>8. e[0] = s0
  <2>1. 0 \in 0 .. count
    OBVIOUS
  <2> QED BY <1>7, <2>1
<1>9. ASSUME NEW i \in 1 .. count PROVE e[i] = ItemStep(one, data, e[i - 1])
  <2>1. i \in 0 .. count /\ i # 0
    OBVIOUS
  <2> QED BY <1>7, <2>1
<1>10. DOMAIN e = 0 .. count /\ e = [i \in 0 .. count |-> e[i]]
  BY <1>7
<1> HIDE DEF Q
<1> DEFINE T == {i \in Nat : i <= count => e[i] \in Gathered}
<1>11. 0 \in T
  BY <1>1, <1>8
<1>12. ASSUME NEW i \in T PROVE i + 1 \in T
  <2> SUFFICES ASSUME i + 1 <= count PROVE e[i + 1] \in Gathered
    OBVIOUS
  <2>1. i \in Nat /\ e[i] \in Gathered /\ i + 1 \in 1 .. count /\ (i + 1) - 1 = i
    OBVIOUS
  <2>2. ItemStep(one, data, e[i]) \in Gathered
    BY <2>1, ItemStepType
  <2>3. e[i + 1] = ItemStep(one, data, e[(i + 1) - 1])
    BY <1>9, <2>1
  <2> QED BY <2>1, <2>2, <2>3
<1>13. T = Nat
  <2>1. T \in SUBSET Nat
    OBVIOUS
  <2> HIDE DEF T
  <2> QED BY <1>11, <1>12, <2>1, SetInduction
<1>14. e \in [0 .. count -> Gathered]
  <2>1. ASSUME NEW i \in 0 .. count PROVE e[i] \in Gathered
    <3>1. i \in T /\ i <= count
      BY <1>13
    <3> QED BY <3>1
  <2> QED BY <1>10, <2>1
<1>15. IsLoop(e, one, data, count)
  BY <1>8, <1>9, <1>14 DEF IsLoop, s0
<1> QED BY <1>7, <1>15

(* Items looks at one only for data that is not longer than its own.       *)
LEMMA ItemsAgree ==
    ASSUME NEW one \in [Data -> Answers], NEW two,
           NEW data \in Data, NEW count \in Nat,
           \A y \in Data : Len(y) <= Len(data) => one[y] = two[y]
    PROVE  Items(one, data, count) = Items(two, data, count)
<1>1. PICK a : IsLoop(a, one, data, count) /\ Items(one, data, count) = a[count]
  BY ItemsIsLoop
<1>2. ASSUME NEW i \in 0 .. count PROVE ItemStep(one, data, a[i]) = ItemStep(two, data, a[i])
  <2>1. a[i] \in Gathered
    BY <1>1 DEF IsLoop
  <2>2. CASE a[i].found
    <3> DEFINE r == Rest(data, a[i].used)
    <3>1. a[i].used \in Nat
      BY <2>1, <2>2, FoundOrNothing
    <3>2. r \in Data /\ Len(r) = IF a[i].used <= Len(data) THEN Len(data) - a[i].used ELSE 0
      BY <3>1, RestType
    <3>3. Len(r) <= Len(data)
      <4> DEFINE u == a[i].used
                 l == Len(data)
                 lr == Len(r)
      <4>1. u \in Nat /\ l \in Nat /\ lr = IF u <= l THEN l - u ELSE 0
        BY <3>1, <3>2, DataLaws
      <4> HIDE DEF u, l, lr
      <4>2. lr <= l
        BY <4>1
      <4> QED BY <4>2 DEF l, lr
    <3> HIDE DEF r
    <3>4. one[r] = two[r]
      BY <3>2, <3>3
    <3> QED BY <3>4 DEF ItemStep, r
  <2>3. CASE ~a[i].found
    BY <2>3 DEF ItemStep
  <2> QED BY <2>2, <2>3
<1> DEFINE s0 == Found(<<>>, 0)
<1> HIDE DEF s0
<1> DEFINE Q(x) == x = [i \in 0 .. count |-> IF i = 0 THEN s0 ELSE ItemStep(two, data, x[i - 1])]
<1>3. Q(a)
  <2>1. ASSUME NEW i \in 0 .. count
        PROVE  a[i] = IF i = 0 THEN s0 ELSE ItemStep(two, data, a[i - 1])
    <3>1. CASE i = 0
      BY <1>1, <3>1 DEF IsLoop, s0
    <3>2. CASE i # 0
      <4>1. i \in 1 .. count /\ i - 1 \in 0 .. count
        BY <3>2
      <4>2. a[i] = ItemStep(one, data, a[i - 1])
        BY <1>1, <4>1 DEF IsLoop
      <4> QED BY <1>2, <3>2, <4>1, <4>2
    <3> QED BY <3>1, <3>2
  <2>2. a \in [0 .. count -> Gathered]
    BY <1>1 DEF IsLoop
  <2> QED BY <2>1, <2>2
<1>4. Items(two, data, count) = (CHOOSE x : Q(x))[count]
  BY DEF Items, ItemStep, s0
<1>5. PICK b : Q(b) /\ Items(two, data, count) = b[count]
  <2> HIDE DEF Q
  <2> QED BY <1>3, <1>4
<1> DEFINE T == {i \in Nat : i <= count => a[i] = b[i]}
<1>6. 0 \in T
  <2>1. 0 \in 0 .. count
    OBVIOUS
  <2> QED BY <1>3, <1>5, <2>1
<1>7. ASSUME NEW i \in T PROVE i + 1 \in T
  <2> SUFFICES ASSUME i + 1 <= count PROVE a[i + 1] = b[i + 1]
    OBVIOUS
  <2>1. i + 1 \in 0 .. count /\ i + 1 # 0 /\ (i + 1) - 1 = i /\ a[i] = b[i]
    OBVIOUS
  <2>2. /\ a[i + 1] = ItemStep(two, data, a[(i + 1) - 1])
        /\ b[i + 1] = ItemStep(two, data, b[(i + 1) - 1])
    BY <1>3, <1>5, <2>1
  <2> QED BY <2>1, <2>2
<1>8. T = Nat
  <2>1. T \in SUBSET Nat
    OBVIOUS
  <2> HIDE DEF T
  <2> QED BY <1>6, <1>7, <2>1, SetInduction
<1>9. a[count] = b[count]
  BY <1>8
<1> QED BY <1>1, <1>5, <1>9

(* The fields of data are numbers.                                         *)
LEMMA DataFields ==
    ASSUME NEW data \in Data, data # <<>>
    PROVE  /\ Len(data) \in Nat \ {0} /\ data[1] \in Int
           /\ Len(data) >= 2 => data[2] \in Int
BY DEF Data

(* The characters of a str or of bytes.                                    *)
LEMMA TextType ==
    ASSUME NEW type \in Types, NEW data \in Data, Len(data) >= 2, data[2] \in Nat
    PROVE  Text(type, data) \in Answers
<1> DEFINE n == data[2]
           chars == SubSeq(data, 3, 2 + n)
<1>1. CASE Len(data) < 2 + n
  BY <1>1, FoundOrNothing DEF Text
<1>2. CASE ~(Len(data) < 2 + n)
  <2>1. Len(data) \in Nat /\ \A i \in 3 .. 2 + n : data[i] \in Int
    BY <1>2 DEF Data
  <2>2. chars \in Data
    BY <2>1, SubSeqProperties DEF Data
  <2>3. Object(type, chars) \in AllLevels
    <3> HIDE DEF chars
    <3> QED BY <2>2, LevelsAreClosed
  <2> DEFINE obj == Object(type, chars)
  <2> HIDE DEF obj
  <2>4. Found(obj, 2 + n) \in Answers
    BY <2>3, FoundOrNothing DEF obj
  <2> QED BY <1>2, <2>4 DEF Text, obj
<1> QED BY <1>1, <1>2

(* The branch for a tuple.                                                 *)
DecodedTuple(one, data) ==
    LET items == Items(one, Rest(data, 2), data[2])
    IN IF items.found THEN Found(Tuple(items.obj), 2 + items.used) ELSE Nothing

(* A tuple is built of what the items gave.                                *)
LEMMA DecodedTupleType ==
    ASSUME NEW one \in [Data -> Answers], NEW data \in Data, data[2] \in Nat
    PROVE  DecodedTuple(one, data) \in Answers
<1> DEFINE items == Items(one, Rest(data, 2), data[2])
<1>1. Rest(data, 2) \in Data
  BY RestType
<1>2. PICK after : /\ IsLoop(after, one, Rest(data, 2), data[2])
                   /\ items = after[data[2]]
  BY <1>1, ItemsIsLoop
<1>3. items \in Gathered
  BY <1>2 DEF IsLoop
<1> HIDE DEF items
<1>4. CASE items.found
  <2>1. items.obj \in Seq(AllLevels) /\ items.used \in Nat
    BY <1>3, <1>4, FoundOrNothing
  <2>2. Tuple(items.obj) \in AllLevels /\ 2 + items.used \in Nat
    BY <2>1, LevelsAreClosed
  <2> QED BY <1>4, <2>2, FoundOrNothing DEF DecodedTuple, items
<1>5. CASE ~items.found
  BY <1>5, FoundOrNothing DEF DecodedTuple, items
<1> QED BY <1>4, <1>5

(* The branches of deserialize_one, with names for the conditions.         *)
LEMMA DecodingCases ==
    ASSUME NEW one, NEW data \in Data, data # <<>>
    PROVE  LET long == Len(data) >= 2
               sized == long /\ data[2] \in Nat
           IN /\ data[1] = TAG_NONE => Decoding(one, data) = Found(Object("none", <<>>), 1)
              /\ data[1] = TAG_FALSE => Decoding(one, data) = Found(Object("bool", <<0>>), 1)
              /\ data[1] = TAG_TRUE => Decoding(one, data) = Found(Object("bool", <<1>>), 1)
              /\ data[1] = TAG_I64 /\ long =>
                    Decoding(one, data) = Found(Object("int", <<data[2]>>), 2)
              /\ data[1] = TAG_F64 /\ long =>
                    Decoding(one, data) = Found(Object("float", <<data[2]>>), 2)
              /\ data[1] = TAG_STR /\ sized => Decoding(one, data) = Text("str", data)
              /\ data[1] = TAG_BYTES /\ sized => Decoding(one, data) = Text("bytes", data)
              /\ data[1] = TAG_TUPLE /\ sized => Decoding(one, data) = DecodedTuple(one, data)
              /\ \/ data[1] \in {TAG_NONE, TAG_FALSE, TAG_TRUE}
                 \/ data[1] \in {TAG_I64, TAG_F64} /\ long
                 \/ data[1] \in {TAG_STR, TAG_BYTES, TAG_TUPLE} /\ sized
                 \/ Decoding(one, data) = Nothing
BY DataFields DEF Decoding, DecodedTuple, TAG_NONE, TAG_FALSE, TAG_TRUE,
                  TAG_I64, TAG_F64, TAG_STR, TAG_BYTES, TAG_TUPLE

(* The decoder answers with an object of some level, or with nothing.      *)
LEMMA DecodingType ==
    ASSUME NEW one \in [Data -> Answers], NEW data \in Data, data # <<>>
    PROVE  Decoding(one, data) \in Answers
<1> DEFINE long == Len(data) >= 2
           sized == long /\ data[2] \in Nat
           result == Decoding(one, data)
<1>1. /\ data[1] = TAG_NONE => result = Found(Object("none", <<>>), 1)
      /\ data[1] = TAG_FALSE => result = Found(Object("bool", <<0>>), 1)
      /\ data[1] = TAG_TRUE => result = Found(Object("bool", <<1>>), 1)
      /\ data[1] = TAG_I64 /\ long => result = Found(Object("int", <<data[2]>>), 2)
      /\ data[1] = TAG_F64 /\ long => result = Found(Object("float", <<data[2]>>), 2)
      /\ data[1] = TAG_STR /\ sized => result = Text("str", data)
      /\ data[1] = TAG_BYTES /\ sized => result = Text("bytes", data)
      /\ data[1] = TAG_TUPLE /\ sized => result = DecodedTuple(one, data)
      /\ \/ data[1] \in {TAG_NONE, TAG_FALSE, TAG_TRUE}
         \/ data[1] \in {TAG_I64, TAG_F64} /\ long
         \/ data[1] \in {TAG_STR, TAG_BYTES, TAG_TUPLE} /\ sized
         \/ result = Nothing
  BY DecodingCases
<1> SUFFICES result \in Answers
  OBVIOUS
<1> HIDE DEF result
<1>2. \A t \in Types, c \in Data : Found(Object(t, c), 1) \in Answers /\ Found(Object(t, c), 2) \in Answers
  BY LevelsAreClosed, FoundOrNothing
<1>3. {"none", "bool", "int", "float", "str", "bytes"} \subseteq Types
  BY DEF Types
<1>4. CASE data[1] \in {TAG_NONE, TAG_FALSE, TAG_TRUE}
  <2>1. <<>> \in Data /\ <<0>> \in Data /\ <<1>> \in Data
    BY DataLaws, HeadIsData
  <2> QED BY <1>1, <1>2, <1>3, <1>4, <2>1
<1>5. CASE data[1] \in {TAG_I64, TAG_F64} /\ long
  <2>1. <<data[2]>> \in Data
    BY <1>5, DataFields, HeadIsData
  <2> QED BY <1>1, <1>2, <1>3, <1>5, <2>1
<1>6. CASE data[1] \in {TAG_STR, TAG_BYTES, TAG_TUPLE} /\ sized
  <2>1. Text("str", data) \in Answers /\ Text("bytes", data) \in Answers
    BY <1>3, <1>6, TextType
  <2>2. DecodedTuple(one, data) \in Answers
    BY <1>6, DecodedTupleType
  <2> QED BY <1>1, <1>6, <2>1, <2>2
<1>7. CASE result = Nothing
  BY <1>7, FoundOrNothing
<1> QED BY <1>1, <1>4, <1>5, <1>6, <1>7

(* The items of a tuple are decoded from shorter data.                     *)
LEMMA DecodingAgrees ==
    ASSUME NEW one \in [Data -> Answers], NEW two, NEW data \in Data, data # <<>>,
           \A y \in Data : Len(y) < Len(data) => one[y] = two[y]
    PROVE  Decoding(one, data) = Decoding(two, data)
<1>1. CASE data[1] = TAG_TUPLE /\ Len(data) >= 2 /\ data[2] \in Nat
  <2> DEFINE rest == Rest(data, 2)
             l == Len(data)
             lr == Len(rest)
  <2>1. rest \in Data /\ lr = (IF 2 <= l THEN l - 2 ELSE 0) /\ l \in Nat /\ l >= 2
    BY <1>1, RestType, DataLaws
  <2> HIDE DEF rest, l, lr
  <2>2. \A x \in Nat : x <= lr => x < l
    BY <2>1
  <2>3. \A y \in Data : Len(y) <= Len(rest) => one[y] = two[y]
    BY <2>2, DataLaws DEF l, lr
  <2>4. Items(one, rest, data[2]) = Items(two, rest, data[2])
    BY <1>1, <2>1, <2>3, ItemsAgree
  <2>5. DecodedTuple(one, data) = DecodedTuple(two, data)
    BY <2>4 DEF DecodedTuple, rest
  <2>6. Decoding(one, data) = DecodedTuple(one, data) /\ Decoding(two, data) = DecodedTuple(two, data)
    BY <1>1, DecodingCases
  <2> QED BY <2>5, <2>6
<1>2. CASE ~(data[1] = TAG_TUPLE /\ Len(data) >= 2 /\ data[2] \in Nat)
  BY <1>2 DEF Decoding
<1> QED BY <1>1, <1>2

(* deserialize_one is what its definition says.                            *)
LEMMA DeserializeOne ==
    /\ deserialize_one \in [Data -> Answers]
    /\ \A data \in Data : data # <<>> => deserialize_one[data] = Decoding(deserialize_one, data)
<1> DEFINE Body(f, data) == IF data = <<>> THEN Nothing ELSE Decoding(f, data)
           F == [f \in [Data -> Answers] |-> [data \in Data |-> Body(f, data)]]
           len == [data \in Data |-> Len(data)]
<1>1. ASSUME NEW f \in [Data -> Answers], NEW data \in Data PROVE Body(f, data) \in Answers
  BY DecodingType, FoundOrNothing
<1>2. F \in [[Data -> Answers] -> [Data -> Answers]] /\ len \in [Data -> Nat] /\ Nothing \in Answers
  <2> HIDE DEF Body
  <2> QED BY <1>1, DataLaws, FoundOrNothing
<1>3. LooksBelow(F, Data, Answers, len)
  <2>1. ASSUME NEW f \in [Data -> Answers], NEW g \in [Data -> Answers], NEW data \in Data,
               \A y \in Data : len[y] < len[data] => f[y] = g[y]
        PROVE  F[f][data] = F[g][data]
    <3>1. \A y \in Data : Len(y) < Len(data) => f[y] = g[y]
      BY <2>1
    <3>2. Body(f, data) = Body(g, data)
      BY <3>1, DecodingAgrees
    <3> HIDE DEF Body
    <3> QED BY <3>2
  <2> HIDE DEF F, len
  <2> QED BY <1>2, <2>1 DEF LooksBelow
<1>4. PICK f \in [Data -> Answers] : f = F[f]
  <2> HIDE DEF F, len
  <2>1. Solutions(F, Data, Answers) # {}
    BY <1>2, <1>3, DepthRecursion, Zenon
  <2> QED BY <2>1 DEF Solutions
<1> DEFINE Q(x) == x = [data \in Seq(Int) |-> IF data = <<>> THEN Nothing ELSE Decoding(x, data)]
<1>5. Q(f)
  BY <1>4 DEF Data
<1>6. deserialize_one = CHOOSE x : Q(x)
  BY DEF deserialize_one
<1>7. Q(deserialize_one)
  <2> HIDE DEF Q
  <2> QED BY <1>5, <1>6
<1> DEFINE e == deserialize_one
<1> HIDE DEF e
<1>8. e = [data \in Data |-> Body(e, data)]
  BY <1>7 DEF e, Data
<1> HIDE DEF F, len, Q
<1> DEFINE T == {d \in Nat : \A data \in Data : Len(data) < d => f[data] = e[data]}
<1>9. f = [data \in Data |-> Body(f, data)]
  BY <1>4 DEF F
<1>10. 0 \in T
  BY DataLaws
<1>11. ASSUME NEW d \in T PROVE d + 1 \in T
  <2> SUFFICES ASSUME NEW data \in Data, Len(data) < d + 1 PROVE f[data] = e[data]
    OBVIOUS
  <2>1. \A y \in Data : Len(y) < Len(data) => f[y] = e[y]
    <3>1. Len(data) \in Nat /\ \A y \in Data : Len(y) \in Nat
      BY DataLaws
    <3> QED BY <3>1
  <2>2. Body(f, data) = Body(e, data)
    BY <2>1, DecodingAgrees
  <2> HIDE DEF Body
  <2> QED BY <1>8, <1>9, <2>2
<1>12. T = Nat
  <2>1. T \in SUBSET Nat
    OBVIOUS
  <2> HIDE DEF T
  <2> QED BY <1>10, <1>11, <2>1, SetInduction
<1>13. ASSUME NEW data \in Data PROVE f[data] = e[data]
  <2>0. Len(data) \in Nat
    BY DataLaws
  <2>1. Len(data) + 1 \in Nat /\ Len(data) < Len(data) + 1
    BY <2>0
  <2>2. Len(data) + 1 \in T
    BY <1>12, <2>1
  <2> QED BY <2>1, <2>2
<1>14. e \in [Data -> Answers]
  BY <1>8, <1>13
<1> QED BY <1>8, <1>14 DEF e

(***************************************************************************)
(* What is encoded is decoded again                                        *)
(***************************************************************************)

(* A first field, and what follows it.                                     *)
LEMMA HeadFields ==
    ASSUME NEW a \in Int, NEW u \in Data
    PROVE  Cat(<<a>>, u) \in Data /\ Cat(<<a>>, u) # <<>> /\ Cat(<<a>>, u)[1] = a
<1>1. /\ Cat(<<a>>, u) \in Data /\ Len(Cat(<<a>>, u)) = 1 + Len(u) /\ Cat(<<a>>, u)[1] = a
      /\ Len(u) \in Nat
  BY DEF Data, Cat
<1>2. Cat(<<a>>, u) # <<>>
  BY <1>1, DataLaws
<1> QED BY <1>1, <1>2

Two(a, b) == <<a, b>>

(* The first two fields, and what follows them.                            *)
LEMMA TwoFields ==
    ASSUME NEW a \in Int, NEW b \in Int, NEW u \in Data
    PROVE  LET data == Cat(Two(a, b), u)
           IN /\ data \in Data /\ data # <<>> /\ data[1] = a /\ data[2] = b
              /\ Len(data) = 2 + Len(u) /\ Len(data) >= 2 /\ Rest(data, 2) = u
<1> DEFINE data == Cat(Two(a, b), u)
<1>1. /\ data \in Data /\ Len(u) \in Nat /\ data[1] = a /\ data[2] = b
      /\ Len(data) = 2 + Len(u)
  BY DEF Data, Cat, Two
<1>2. data # <<>> /\ Len(data) >= 2
  BY <1>1, DataLaws
<1>3. Two(a, b) \in Data /\ Len(Two(a, b)) = 2
  BY HeadIsData DEF Two
<1>4. Rest(data, Len(Two(a, b))) = u
  BY <1>3, RestOfConcat
<1> QED BY <1>1, <1>2, <1>3, <1>4

(* An object without items is plain once its subclass is forgotten.        *)
LEMMA PlainAtom ==
    ASSUME NEW obj \in Objects, obj.type # "tuple"
    PROVE  Plain[obj] = Object(obj.type, obj.c)
<1>1. ItemsBy(Plain, obj) \in [1 .. Len(obj.s) -> AllLevels]
  BY PlainObject, ObjectParts DEF ItemsBy
<1> QED BY <1>1, PlainObject, PlainIsBuilt

(* A plain tuple is the tuple of its plain items.                          *)
LEMMA PlainTuple ==
    ASSUME NEW obj \in Objects, obj.type = "tuple"
    PROVE  Plain[obj] = Tuple([k \in 1 .. Len(obj.s) |-> Plain[obj.s[k]]])
<1>1. ItemsBy(Plain, obj) \in [1 .. Len(obj.s) -> AllLevels]
  BY PlainObject, ObjectParts DEF ItemsBy
<1>2. Plain[obj] = Tuple(ItemsBy(Plain, obj))
  BY <1>1, PlainObject, PlainIsBuilt
<1>3. ItemsBy(Plain, obj) = [k \in 1 .. Len(obj.s) |-> Plain[obj.s[k]]]
  BY ObjectParts DEF ItemsBy
<1> QED BY <1>2, <1>3

(* Whatever follows its encoding, obj is decoded, without its subclasses,  *)
(* and exactly its encoding is consumed.  A longer encoding than u32 can   *)
(* count is excepted.                                                      *)
ComesBack(obj) ==
    serialize_element[obj] # Unsupported /\ Len(serialize_element[obj]) < U32 =>
        \A u \in Data : deserialize_one[Cat(serialize_element[obj], u)]
                            = Found(Plain[obj], Len(serialize_element[obj]))

(* None, bool, int and float.                                              *)
LEMMA ScalarComesBack ==
    ASSUME NEW obj \in Objects, obj.type \in {"none", "bool", "int", "float"}
    PROVE  ComesBack(obj)
<1> SUFFICES ASSUME NEW u \in Data, serialize_element[obj] # Unsupported
             PROVE  deserialize_one[Cat(serialize_element[obj], u)]
                        = Found(Plain[obj], Len(serialize_element[obj]))
  BY DEF ComesBack
<1> DEFINE e == serialize_element[obj]
           data == Cat(e, u)
<1>1. e = Encoding(obj, ItemsBy(serialize_element, obj)) /\ Plain[obj] = Object(obj.type, obj.c)
  BY SerializeElement, PlainAtom
<1>2. CASE obj.type \in {"none", "bool"}
  <2>1. /\ Tag(obj) \in {TAG_NONE, TAG_FALSE, TAG_TRUE}
        /\ obj.type = "none" => Tag(obj) = TAG_NONE
        /\ obj.type = "bool" => Tag(obj) = IF obj.c = <<1>> THEN TAG_TRUE ELSE TAG_FALSE
    BY <1>2, TagByType
  <2>2. e = <<Tag(obj)>> /\ Tag(obj) \in Int /\ Len(e) = 1
    <3> DEFINE t == Tag(obj)
    <3>1. t \in {TAG_NONE, TAG_FALSE, TAG_TRUE} /\ t \in Int
      BY <2>1 DEF TAG_NONE, TAG_FALSE, TAG_TRUE
    <3>2. e = <<t>>
      <4> HIDE DEF t
      <4>1. Encoding(obj, ItemsBy(serialize_element, obj)) = <<t>>
        BY <3>1 DEF Encoding, t, TAG_NONE, TAG_FALSE, TAG_TRUE, TAG_I64, TAG_F64, TAG_STR,
                    TAG_BYTES, TAG_TUPLE
      <4> QED BY <1>1, <4>1
    <3> HIDE DEF t, e
    <3>3. Len(e) = 1
      BY <3>1, <3>2, HeadIsData
    <3> QED BY <3>1, <3>2, <3>3 DEF t
  <2>3. data \in Data /\ data # <<>> /\ data[1] = Tag(obj)
    <3> DEFINE t == Tag(obj)
    <3>1. t \in Int /\ e = <<t>>
      BY <2>2
    <3> HIDE DEF t, e
    <3> QED BY <3>1, HeadFields DEF t
  <2>4. deserialize_one[data] = Decoding(deserialize_one, data)
    BY <2>3, DeserializeOne
  <2>5. /\ obj.type = "none" => obj.c = <<>>
        /\ obj.type = "bool" => obj.c = <<0>> \/ obj.c = <<1>>
    BY ObjectParts DEF Contents
  <2> HIDE DEF data
  <2>6. Decoding(deserialize_one, data) = Found(Object(obj.type, obj.c), 1)
    BY <1>2, <2>1, <2>3, <2>5, DecodingCases
  <2> QED BY <1>1, <2>2, <2>4, <2>6 DEF data
<1>3. CASE obj.type \in {"int", "float"}
  <2>1. /\ obj.type = "int" => Tag(obj) = TAG_I64
        /\ obj.type = "float" => Tag(obj) = TAG_F64
    BY TagByType
  <2>2. obj.c = <<obj.c[1]>> /\ obj.c[1] \in Int
    BY <1>3, NumberContents
  <2>3. e = <<Tag(obj), obj.c[1]>> /\ Tag(obj) \in Int /\ Len(e) = 2
    BY <1>1, <1>3, <2>1, <2>2 DEF Encoding, Unsupported, TAG_I64, TAG_F64, TAG_NONE, TAG_FALSE,
                                  TAG_TRUE, TAG_STR, TAG_BYTES, TAG_TUPLE
  <2>4. data \in Data /\ data # <<>> /\ data[1] = Tag(obj) /\ data[2] = obj.c[1] /\ Len(data) >= 2
    <3> DEFINE t == Tag(obj)
               x == obj.c[1]
    <3>1. t \in Int /\ x \in Int /\ e = Two(t, x)
      BY <2>2, <2>3 DEF Two
    <3> HIDE DEF t, x, e
    <3>2. data \in Data /\ data # <<>> /\ data[1] = t /\ data[2] = x /\ Len(data) >= 2
      BY <3>1, TwoFields
    <3> QED BY <3>2 DEF t, x
  <2>5. deserialize_one[data] = Decoding(deserialize_one, data)
    BY <2>4, DeserializeOne
  <2> HIDE DEF data
  <2>6. Decoding(deserialize_one, data) = Found(Object(obj.type, <<data[2]>>), 2)
    BY <1>3, <2>1, <2>4, DecodingCases
  <2> QED BY <1>1, <2>2, <2>3, <2>4, <2>5, <2>6 DEF data
<1> QED BY <1>2, <1>3


(* What stands after two fields and before a rest.                         *)
LEMMA AfterTwo ==
    ASSUME NEW a \in Int, NEW b \in Int, NEW c \in Data, NEW u \in Data
    PROVE  SubSeq(Cat(Two(a, b), Cat(c, u)), 3, 2 + Len(c)) = c
<1> DEFINE data == Cat(Two(a, b), Cat(c, u))
           m == Len(c)
           part == SubSeq(data, 3, 2 + m)
<1>1. m \in Nat /\ Len(u) \in Nat /\ Cat(c, u) \in Data /\ Len(Cat(c, u)) = m + Len(u)
  BY DataLaws
<1>2. \A i \in 1 .. m : Cat(c, u)[i] = c[i] /\ c[i] \in Int
  BY DEF Cat, Data
<1>3. ASSUME NEW i \in 1 .. m PROVE data[2 + i] = c[i]
  <2> DEFINE v == Cat(c, u)
             l == Len(v)
  <2>1. v \in Data /\ l \in Nat /\ i \in 1 .. l /\ v[i] = c[i]
    BY <1>1, <1>2
  <2> HIDE DEF v, m
  <2>2. Cat(Two(a, b), v)[2 + i] = v[i]
    BY <2>1 DEF Cat, Two, Data
  <2> QED BY <2>1, <2>2 DEF v
<1>4. \A i \in 3 .. 2 + m : data[i] \in Int
  <2> SUFFICES ASSUME NEW i \in 3 .. 2 + m PROVE data[i] \in Int
    OBVIOUS
  <2> DEFINE k == i - 2
  <2>1. k \in 1 .. m /\ 2 + k = i
    BY <1>1
  <2> HIDE DEF k, data, m
  <2> QED BY <1>2, <1>3, <2>1
<1> HIDE DEF data
<1>5. /\ part \in Seq(Int) /\ Len(part) = m
      /\ \A i \in 1 .. m : part[i] = data[2 + i]
  <2> HIDE DEF m
  <2>1. /\ SubSeq(data, 3, 2 + m) \in Seq(Int)
        /\ Len(SubSeq(data, 3, 2 + m)) = IF 3 <= 2 + m THEN (2 + m) - 3 + 1 ELSE 0
        /\ \A i \in 1 .. (2 + m) - 3 + 1 : SubSeq(data, 3, 2 + m)[i] = data[3 + i - 1]
    BY <1>1, <1>4, SubSeqProperties
  <2> HIDE DEF part
  <2>2. (IF 3 <= 2 + m THEN (2 + m) - 3 + 1 ELSE 0) = m /\ (2 + m) - 3 + 1 = m
        /\ \A i \in 1 .. m : 3 + i - 1 = 2 + i
    BY <1>1
  <2> QED BY <2>1, <2>2 DEF part
<1> HIDE DEF part
<1>6. \A i \in 1 .. m : part[i] = c[i]
  <2> HIDE DEF m
  <2> QED BY <1>3, <1>5
<1>7. part = c
  BY <1>5, <1>6, SeqEqual DEF Data
<1> QED BY <1>7 DEF part, data

(* str and bytes.                                                          *)
LEMMA TextComesBack ==
    ASSUME NEW obj \in Objects, obj.type \in {"str", "bytes"}
    PROVE  ComesBack(obj)
<1> SUFFICES ASSUME NEW u \in Data, serialize_element[obj] # Unsupported,
                    Len(serialize_element[obj]) < U32
             PROVE  deserialize_one[Cat(serialize_element[obj], u)]
                        = Found(Plain[obj], Len(serialize_element[obj]))
  BY DEF ComesBack
<1> DEFINE e == serialize_element[obj]
           data == Cat(e, u)
           t == Tag(obj)
           c == obj.c
           m == Len(c)
<1>1. e = Encoding(obj, ItemsBy(serialize_element, obj)) /\ Plain[obj] = Object(obj.type, c)
  BY SerializeElement, PlainAtom
<1>2. /\ obj.type = "str" => t = TAG_STR
      /\ obj.type = "bytes" => t = TAG_BYTES
  BY TagByType
<1>3. c \in Data /\ m \in Nat /\ t \in Int /\ m % U32 \in Int
  <2>1. t \in Int
    BY <1>2 DEF TAG_STR, TAG_BYTES
  <2>2. c \in Data
    BY ObjectParts
  <2> HIDE DEF c, t
  <2>3. m \in Nat /\ m % U32 \in Nat
    BY <2>2, DataLaws, LengthField
  <2> QED BY <2>1, <2>2, <2>3
<1>4. e = Cat(Two(t, m % U32), c)
  BY <1>1, <1>2 DEF Encoding, WithLength, Cat, Two, Unsupported, TAG_I64, TAG_F64, TAG_NONE,
                    TAG_FALSE, TAG_TRUE, TAG_STR, TAG_BYTES, TAG_TUPLE
<1> HIDE DEF e, t, c
<1>5. Len(e) = 2 + m /\ Len(e) < U32
  BY <1>3, <1>4, TwoFields DEF e
<1>6. m % U32 = m
  <2>1. U32 \in Nat
    BY SerdeAssumption
  <2>2. m < U32
    BY <1>3, <1>5, <2>1
  <2> QED BY <1>3, <2>2, LengthField
<1> DEFINE v == Cat(c, u)
<1>7. v \in Data /\ Len(v) = m + Len(u) /\ Len(u) \in Nat
  BY <1>3, DataLaws
<1>8. data = Cat(Two(t, m), v)
  <2>1. Two(t, m) \in Data
    BY <1>3, HeadIsData DEF Two
  <2> QED BY <1>3, <1>4, <1>6, <2>1, CatAssociative
<1>9. SubSeq(data, 3, 2 + m) = c
  BY <1>3, <1>8, AfterTwo
<1> HIDE DEF v, m, data
<1>10. /\ data \in Data /\ data # <<>> /\ data[1] = t /\ data[2] = m
       /\ Len(data) = 2 + Len(v) /\ Len(data) >= 2
  BY <1>3, <1>7, <1>8, TwoFields
<1>11. deserialize_one[data] = Decoding(deserialize_one, data)
  BY <1>10, DeserializeOne
<1>12. Decoding(deserialize_one, data) = Text(obj.type, data)
  BY <1>2, <1>3, <1>10, DecodingCases
<1>13. ~(Len(data) < 2 + m)
  BY <1>3, <1>7, <1>10
<1>14. Text(obj.type, data) = Found(Object(obj.type, c), 2 + m)
  BY <1>9, <1>10, <1>13 DEF Text
<1> QED BY <1>1, <1>5, <1>11, <1>12, <1>14 DEF data, e

Prefix(g, i) == [k \in 1 .. i |-> g[k]]

(* A prefix grows by one.                                                  *)
LEMMA PrefixGrows ==
    ASSUME NEW V, NEW n \in Nat, NEW g \in [1 .. n -> V], NEW i \in Nat, i + 1 <= n
    PROVE  Append(Prefix(g, i), g[i + 1]) = Prefix(g, i + 1)
<1> DEFINE s == Prefix(g, i)
           x == g[i + 1]
<1>1. s \in Seq(V) /\ Len(s) = i /\ x \in V
  BY DEF Prefix
<1>2. \A k \in 1 .. i : s[k] = g[k]
  BY DEF Prefix
<1> HIDE DEF s, x
<1>3. /\ Append(s, x) \in Seq(V) /\ Len(Append(s, x)) = i + 1
      /\ \A k \in 1 .. i : Append(s, x)[k] = s[k]
      /\ Append(s, x)[i + 1] = x
  BY <1>1, AppendProperties
<1>4. Prefix(g, i + 1) \in Seq(V) /\ Len(Prefix(g, i + 1)) = i + 1
  BY DEF Prefix
<1>5. ASSUME NEW k \in 1 .. i + 1 PROVE Append(s, x)[k] = Prefix(g, i + 1)[k]
  <2>1. Prefix(g, i + 1)[k] = g[k]
    BY DEF Prefix
  <2>2. CASE k = i + 1
    BY <1>3, <2>1, <2>2 DEF x
  <2>3. CASE k # i + 1
    <3>1. k \in 1 .. i
      BY <2>3
    <3> QED BY <1>2, <1>3, <2>1, <3>1
  <2> QED BY <2>2, <2>3
<1>6. Append(s, x) = Prefix(g, i + 1)
  BY <1>3, <1>4, <1>5, SeqEqual
<1> QED BY <1>6 DEF s, x

(* The loop over the items of a tuple finds each of them.                  *)
LEMMA ItemsComeBack ==
    ASSUME NEW obj \in Objects, obj.type = "tuple",
           \A i \in 1 .. Len(obj.s) : ComesBack(obj.s[i]),
           NEW items, items = ItemsBy(serialize_element, obj),
           \A i \in 1 .. Len(obj.s) : items[i] # Unsupported,
           Len(FlattenSeq(items)) < U32, NEW u \in Data
    PROVE  Items(deserialize_one, Cat(FlattenSeq(items), u), Len(obj.s))
               = Found([k \in 1 .. Len(obj.s) |-> Plain[obj.s[k]]], Len(FlattenSeq(items)))
<1> DEFINE n == Len(obj.s)
           one == deserialize_one
           g == [k \in 1 .. n |-> Plain[obj.s[k]]]
<1>1. n \in Nat /\ items \in [1 .. n -> Data] /\ \A i \in 1 .. n : items[i] = serialize_element[obj.s[i]]
  BY ObjectParts, SerializeElement DEF ItemsBy
<1>2. g \in [1 .. n -> AllLevels]
  BY ObjectParts, PlainObject
<1>3. one \in [Data -> Answers]
  BY DeserializeOne
<1>4. ASSUME NEW i \in 1 .. n, Len(items[i]) < U32, NEW v \in Data
      PROVE  one[Cat(items[i], v)] = Found(g[i], Len(items[i]))
  BY <1>1, <1>4 DEF ComesBack
<1> HIDE DEF n, g, one
<1>5. PICK J : IsJoin(J, items, n) /\ FlattenSeq(items) = J[n]
  BY <1>1, FlattenJoins
<1>6. \A i \in 0 .. n : J[i] \in Data /\ Len(J[i]) \in Nat
  BY <1>5, DataLaws DEF IsJoin
<1> DEFINE rest == Cat(J[n], u)
<1>7. rest \in Data /\ J[n] \in Data /\ Len(J[n]) < U32
  <2>1. n \in 0 .. n
    BY <1>1
  <2> QED BY <1>5, <1>6, <2>1, DataLaws
<1>8. PICK after : IsLoop(after, one, rest, n) /\ Items(one, rest, n) = after[n]
  <2> HIDE DEF rest
  <2> QED BY <1>1, <1>3, <1>7, ItemsIsLoop
<1> DEFINE T == {i \in Nat : i <= n => after[i] = Found(Prefix(g, i), Len(J[i]))}
<1>9. 0 \in T
  <2>1. J[0] = <<>> /\ after[0] = Found(<<>>, 0)
    BY <1>5, <1>8 DEF IsJoin, IsLoop
  <2>2. Prefix(g, 0) = <<>>
    BY DEF Prefix
  <2>3. Len(J[0]) = 0
    BY <2>1, DataLaws
  <2> QED BY <2>1, <2>2, <2>3
<1>10. ASSUME NEW i \in T PROVE i + 1 \in T
  <2> SUFFICES ASSUME i + 1 <= n PROVE after[i + 1] = Found(Prefix(g, i + 1), Len(J[i + 1]))
    OBVIOUS
  <2> DEFINE j == i + 1
  <2>1. i \in Nat /\ j \in 1 .. n /\ j - 1 = i /\ after[i] = Found(Prefix(g, i), Len(J[i]))
    BY <1>1
  <2>2. i \in 0 .. n
    BY <1>1, <2>1
  <2> HIDE DEF j, T
  <2>3. /\ J[j - 1] \in Data /\ items[j] \in Data /\ Len(J[j]) = Len(J[j - 1]) + Len(items[j])
        /\ \E r \in Data : J[n] = Cat(J[j - 1], Cat(items[j], r))
    <3>1. n \in Nat /\ items \in [1 .. n -> Data] /\ IsJoin(J, items, n) /\ j \in 1 .. n
      BY <1>1, <1>5, <2>1
    <3>2. SplitsAt(J, items, n, j)
      BY <3>1, JoinSplits
    <3> QED BY <3>2 DEF SplitsAt
  <2>4. PICK r \in Data : J[n] = Cat(J[i], Cat(items[j], r))
    BY <2>1, <2>3
  <2> DEFINE a == J[i]
             b == items[j]
  <2>5. a \in Data /\ b \in Data /\ Len(J[j]) = Len(a) + Len(b)
    BY <2>1, <2>3
  <2>6. rest = Cat(Cat(a, Cat(b, r)), u) /\ Len(J[n]) = Len(Cat(a, Cat(b, r)))
    BY <2>4
  <2> HIDE DEF a, b, rest
  <2>7. /\ Cat(b, r) \in Data /\ Cat(r, u) \in Data /\ Cat(Cat(b, r), u) \in Data
        /\ Cat(b, Cat(r, u)) \in Data
    BY <2>5, DataLaws
  <2>8. rest = Cat(a, Cat(b, Cat(r, u)))
    <3>1. rest = Cat(a, Cat(Cat(b, r), u))
      BY <2>5, <2>6, <2>7, CatAssociative
    <3>2. Cat(Cat(b, r), u) = Cat(b, Cat(r, u))
      BY <2>5, CatAssociative
    <3> QED BY <3>1, <3>2
  <2>9. Rest(rest, Len(a)) = Cat(b, Cat(r, u))
    BY <2>5, <2>7, <2>8, RestOfConcat
  <2>10. Len(b) < U32
    <3> DEFINE la == Len(a)
               lb == Len(b)
               lr == Len(r)
               lj == Len(J[n])
    <3>1. lj = la + (lb + lr)
      <4>1. Len(Cat(b, r)) = lb + lr
        BY <2>5, DataLaws
      <4>2. Len(Cat(a, Cat(b, r))) = la + Len(Cat(b, r))
        BY <2>5, <2>7, DataLaws
      <4> HIDE DEF la, lb, lr
      <4> QED BY <2>6, <4>1, <4>2
    <3>2. la \in Nat /\ lb \in Nat /\ lr \in Nat /\ lj < U32 /\ U32 \in Nat
      BY <1>7, <2>5, DataLaws, SerdeAssumption
    <3> HIDE DEF la, lb, lr, lj
    <3>3. lb < U32
      BY <3>1, <3>2
    <3> QED BY <3>3 DEF lb
  <2>11. one[Cat(b, Cat(r, u))] = Found(g[j], Len(b))
    BY <1>4, <2>1, <2>7, <2>10 DEF b
  <2>12. after[j] = ItemStep(one, rest, after[i])
    <3>1. after[j] = ItemStep(one, rest, after[j - 1])
      BY <1>8, <2>1 DEF IsLoop
    <3> QED BY <2>1, <3>1
  <2> DEFINE got == after[i]
             next == one[Rest(rest, got.used)]
  <2>13. got.found = TRUE /\ got.obj = Prefix(g, i) /\ got.used = Len(a)
    BY <2>1, FoundOrNothing DEF a
  <2>14. next = Found(g[j], Len(b))
    BY <2>9, <2>11, <2>13
  <2>15. next.found = TRUE /\ next.obj = g[j] /\ next.used = Len(b)
    BY <2>14, FoundOrNothing
  <2>16. ItemStep(one, rest, got) = Found(Append(got.obj, next.obj), got.used + next.used)
    BY <2>13, <2>15 DEF ItemStep
  <2>17. Append(Prefix(g, i), g[i + 1]) = Prefix(g, i + 1)
    BY <1>1, <1>2, <2>1, PrefixGrows
  <2> HIDE DEF got, next
  <2>18. ItemStep(one, rest, got) = Found(Prefix(g, i + 1), Len(J[j]))
    BY <2>5, <2>13, <2>15, <2>16, <2>17 DEF j
  <2> QED BY <2>12, <2>18 DEF got, j
<1>11. T = Nat
  <2>1. T \in SUBSET Nat
    OBVIOUS
  <2> HIDE DEF T
  <2> QED BY <1>9, <1>10, <2>1, SetInduction
<1>12. after[n] = Found(Prefix(g, n), Len(J[n]))
  <2>1. n \in T /\ n <= n
    BY <1>1, <1>11
  <2> QED BY <2>1
<1>13. Prefix(g, n) = [k \in 1 .. n |-> Plain[obj.s[k]]]
  BY DEF Prefix, g
<1> QED BY <1>5, <1>8, <1>12, <1>13 DEF n, one

(* What a tuple that can be encoded is encoded as.                         *)
LEMMA TupleEncoding ==
    ASSUME NEW obj \in Objects, obj.type = "tuple", serialize_element[obj] # Unsupported,
           NEW items, items = ItemsBy(serialize_element, obj)
    PROVE  /\ items \in [1 .. Len(obj.s) -> Data]
           /\ FlattenSeq(items) \in Data
           /\ \A i \in 1 .. Len(obj.s) : items[i] # Unsupported
           /\ serialize_element[obj] = Cat(Two(TAG_TUPLE, Len(obj.s)), FlattenSeq(items))
<1>1. Tag(obj) = TAG_TUPLE
  BY TagByType
<1>2. Len(obj.s) \in Nat /\ items \in [1 .. Len(obj.s) -> Data]
  BY ObjectParts, SerializeElement DEF ItemsBy
<1>3. FlattenSeq(items) \in Data
  <2> DEFINE n == Len(obj.s)
  <2>1. PICK joined : IsJoin(joined, items, n) /\ FlattenSeq(items) = joined[n]
    BY <1>2, FlattenJoins
  <2>2. n \in 0 .. n
    BY <1>2
  <2> HIDE DEF n
  <2> QED BY <2>1, <2>2 DEF IsJoin
<1>4. Encoding(obj, items) # Unsupported
  BY SerializeElement
<1> DEFINE n == Len(obj.s)
           flat == FlattenSeq(items)
           e == Encoding(obj, items)
           ok == n <= TUPLE_MAX /\ Unsupported \notin ToSet(items)
<1>5. e = IF ok THEN <<TAG_TUPLE, n>> \o flat ELSE Unsupported
  <2> HIDE DEF flat, n
  <2> QED BY <1>1 DEF Encoding, flat, n, TAG_I64, TAG_F64, TAG_NONE, TAG_FALSE, TAG_TRUE, TAG_STR,
                  TAG_BYTES, TAG_TUPLE
<1> HIDE DEF flat, n, e
<1>6. ok /\ e = <<TAG_TUPLE, n>> \o flat
  BY <1>4, <1>5 DEF e
<1>7. \A i \in 1 .. n : items[i] # Unsupported
  BY <1>2, <1>6 DEF ToSet, n
<1>8. serialize_element[obj] = e
  BY SerializeElement DEF e
<1>9. serialize_element[obj] = Cat(Two(TAG_TUPLE, n), flat)
  BY <1>6, <1>8 DEF Cat, Two
<1> QED BY <1>2, <1>3, <1>7, <1>9 DEF n, flat

(* A tuple comes back when its items do.                                   *)
LEMMA TupleComesBack ==
    ASSUME NEW obj \in Objects, obj.type = "tuple",
           \A i \in 1 .. Len(obj.s) : ComesBack(obj.s[i])
    PROVE  ComesBack(obj)
<1> SUFFICES ASSUME NEW u \in Data, serialize_element[obj] # Unsupported,
                    Len(serialize_element[obj]) < U32
             PROVE  deserialize_one[Cat(serialize_element[obj], u)]
                        = Found(Plain[obj], Len(serialize_element[obj]))
  BY DEF ComesBack
<1> DEFINE items == ItemsBy(serialize_element, obj)
           n == Len(obj.s)
           flat == FlattenSeq(items)
           e == serialize_element[obj]
           data == Cat(e, u)
           v == Cat(flat, u)
           plain == [k \in 1 .. n |-> Plain[obj.s[k]]]
           t == TAG_TUPLE
<1>1. /\ flat \in Data /\ e = Cat(Two(t, n), flat)
      /\ \A i \in 1 .. n : items[i] # Unsupported
  BY TupleEncoding
<1>2. n \in Nat /\ n \in Int /\ t \in Int /\ U32 \in Nat /\ Plain[obj] = Tuple(plain)
  <2>1. Len(obj.s) \in Nat
    BY ObjectParts
  <2>2. Plain[obj] = Tuple(plain)
    BY PlainTuple
  <2> QED BY <2>1, <2>2, SerdeAssumption DEF TAG_TUPLE
<1> HIDE DEF flat, e, n, t, plain
<1>3. Len(e) = 2 + Len(flat) /\ Len(e) < U32 /\ Len(flat) \in Nat
  BY <1>1, <1>2, TwoFields, DataLaws DEF e
<1>4. Len(flat) < U32
  BY <1>2, <1>3
<1>5. v \in Data
  BY <1>1, DataLaws
<1>6. data = Cat(Two(t, n), v)
  <2>1. Two(t, n) \in Data
    BY <1>2, HeadIsData DEF Two
  <2> QED BY <1>1, <2>1, CatAssociative
<1>7. Items(deserialize_one, v, n) = Found(plain, Len(flat))
  BY <1>1, <1>4, ItemsComeBack DEF flat, n, plain
<1> HIDE DEF v, data
<1>8. /\ data \in Data /\ data # <<>> /\ data[1] = t /\ data[2] = n /\ Len(data) >= 2
      /\ Rest(data, 2) = v
  BY <1>2, <1>5, <1>6, TwoFields
<1>9. deserialize_one[data] = Decoding(deserialize_one, data)
  BY <1>8, DeserializeOne
<1>10. Decoding(deserialize_one, data) = DecodedTuple(deserialize_one, data)
  BY <1>2, <1>8, DecodingCases DEF t
<1>11. DecodedTuple(deserialize_one, data) = Found(Tuple(plain), 2 + Len(flat))
  <2> DEFINE x == Items(deserialize_one, v, n)
  <2>1. x.found = TRUE /\ x.obj = plain /\ x.used = Len(flat)
    BY <1>7, FoundOrNothing
  <2> QED BY <1>8, <2>1 DEF DecodedTuple
<1> QED BY <1>2, <1>3, <1>9, <1>10, <1>11 DEF data, e

(* Every object comes back: deserialize_one(serialize_element(obj))        *)
(* answers obj with its subclasses forgotten, at any depth, whatever data  *)
(* follows it, and consumes exactly what was written.                      *)
THEOREM RoundTrip == \A obj \in Objects : ComesBack(obj)
<1> DEFINE T == {d \in Nat : \A obj \in Objects : Depth[obj] < d => ComesBack(obj)}
<1>1. 0 \in T
  BY ObjectParts
<1>2. ASSUME NEW d \in T PROVE d + 1 \in T
  <2> SUFFICES ASSUME NEW obj \in Objects, Depth[obj] < d + 1 PROVE ComesBack(obj)
    OBVIOUS
  <2>1. ASSUME NEW i \in 1 .. Len(obj.s) PROVE ComesBack(obj.s[i])
    <3>1. obj.s[i] \in Objects /\ Depth[obj.s[i]] < Depth[obj] /\ Depth[obj.s[i]] \in Nat
      BY ObjectParts
    <3>2. Depth[obj.s[i]] < d
      BY <3>1, ObjectParts
    <3> QED BY <3>1, <3>2
  <2>2. CASE obj.type = "tuple"
    BY <2>1, <2>2, TupleComesBack
  <2>3. CASE obj.type \in {"none", "bool", "int", "float"}
    BY <2>3, ScalarComesBack
  <2>4. CASE obj.type \in {"str", "bytes"}
    BY <2>4, TextComesBack
  <2>5. CASE obj.type = "other"
    <3>1. Tag(obj) = TAG_PICKLE
      BY <2>5, TagByType
    <3>2. Encoding(obj, ItemsBy(serialize_element, obj)) = Unsupported
      BY <3>1 DEF Encoding, TAG_PICKLE, TAG_I64, TAG_F64, TAG_NONE, TAG_FALSE, TAG_TRUE,
                  TAG_STR, TAG_BYTES, TAG_TUPLE
    <3> QED BY <3>2, SerializeElement DEF ComesBack
  <2>6. obj.type \in Types
    BY ObjectParts
  <2> QED BY <2>2, <2>3, <2>4, <2>5, <2>6 DEF Types
<1>3. T = Nat
  <2>1. T \in SUBSET Nat
    OBVIOUS
  <2> HIDE DEF T
  <2> QED BY <1>1, <1>2, <2>1, SetInduction
<1>4. ASSUME NEW obj \in Objects PROVE ComesBack(obj)
  <2>1. Depth[obj] + 1 \in Nat /\ Depth[obj] < Depth[obj] + 1
    BY ObjectParts
  <2>2. Depth[obj] + 1 \in T
    BY <1>3, <2>1
  <2> QED BY <2>1, <2>2
<1> QED BY <1>4

(* An encoding that is not a pickle is told apart by its first field.      *)
LEMMA SerializedIsTagged ==
    ASSUME NEW obj \in Objects, serialize(obj) # Unsupported, Len(serialize(obj)) < U32
    PROVE  /\ serialize(obj) # <<>> /\ serialize(obj)[1] # TAG_PICKLE
           /\ deserialize_one[serialize(obj)] = Found(Plain[obj], Len(serialize(obj)))
<1> DEFINE e == serialize(obj)
<1>1. e \in Data /\ e # <<>>
  BY SerializeElement DEF serialize, Unsupported
<1>2. ComesBack(obj)
  BY RoundTrip
<1>3. \A u \in Data : deserialize_one[Cat(e, u)] = Found(Plain[obj], Len(e))
  BY <1>2 DEF ComesBack, serialize
<1> HIDE DEF e
<1>4. deserialize_one[e] = Found(Plain[obj], Len(e))
  <2> DEFINE none == <<>>
  <2>1. none \in Data /\ Cat(e, none) = e
    BY <1>1, DataLaws
  <2> HIDE DEF none
  <2> QED BY <1>3, <2>1
<1>5. deserialize_one[e] = Decoding(deserialize_one, e)
  BY <1>1, DeserializeOne
<1>6. Decoding(deserialize_one, e) # Nothing
  <2> DEFINE answer == Found(Plain[obj], Len(e))
  <2>1. answer.found = TRUE /\ Nothing.found = FALSE
    BY FoundOrNothing
  <2> HIDE DEF answer
  <2>2. answer # Nothing
    BY <2>1
  <2> QED BY <1>4, <1>5, <2>2 DEF answer
<1>7. \/ e[1] \in {TAG_NONE, TAG_FALSE, TAG_TRUE}
      \/ e[1] \in {TAG_I64, TAG_F64}
      \/ e[1] \in {TAG_STR, TAG_BYTES, TAG_TUPLE}
  BY <1>1, <1>6, DecodingCases
<1>8. e[1] # TAG_PICKLE
  BY <1>7 DEF TAG_PICKLE, TAG_I64, TAG_F64, TAG_NONE, TAG_FALSE, TAG_TRUE, TAG_STR, TAG_BYTES,
              TAG_TUPLE
<1> QED BY <1>1, <1>4, <1>8 DEF e

(* What deserialize_value makes of an encoding: the object, without its    *)
(* subclasses when it took the fast path.                                  *)
THEOREM EncodedIsDecoded ==
    ASSUME NEW obj \in Objects, NEW variant, Len(Encoded(obj, variant)) < U32
    PROVE  Decoded(Encoded(obj, variant)) =
               IF serialize(obj) # Unsupported THEN Plain[obj] ELSE obj
<1>1. CASE serialize(obj) # Unsupported
  <2> DEFINE e == serialize(obj)
  <2>1. Encoded(obj, variant) = e
    BY <1>1 DEF Encoded
  <2>2. /\ e # <<>> /\ e[1] # TAG_PICKLE
        /\ deserialize_one[e] = Found(Plain[obj], Len(e))
    BY <1>1, <2>1, SerializedIsTagged
  <2> HIDE DEF e
  <2>3. deserialize(e) = Found(Plain[obj], Len(e))
    BY <2>2 DEF deserialize
  <2>4. Decoded(e) = Plain[obj]
    BY <2>3, FoundOrNothing DEF Decoded
  <2> QED BY <1>1, <2>1, <2>4
<1>2. CASE serialize(obj) = Unsupported
  <2> DEFINE e == wrap_pickle(obj, variant)
  <2>1. Encoded(obj, variant) = e
    BY <1>2 DEF Encoded
  <2>2. e[1] = TAG_PICKLE /\ pickle_payload(e) = obj
    BY DEF wrap_pickle, pickle_payload
  <2> HIDE DEF e
  <2>3. deserialize(e) = Nothing
    BY <2>2 DEF deserialize
  <2>4. Decoded(e) = obj
    BY <2>2, <2>3, FoundOrNothing DEF Decoded
  <2> QED BY <1>2, <2>1, <2>4
<1> QED BY <1>1, <1>2

(* Two objects have one encoding only when they are the same up to         *)
(* subclasses: no two keys collide, on the fast path or as pickles.        *)
THEOREM EncodingsDiffer ==
    ASSUME NEW a \in Objects, NEW b \in Objects, NEW i, NEW j,
           Encoded(a, i) = Encoded(b, j), Len(Encoded(a, i)) < U32
    PROVE  Plain[a] = Plain[b]
<1>1. ASSUME NEW x \in Objects, NEW v, serialize(x) # Unsupported, Len(Encoded(x, v)) < U32
      PROVE  Encoded(x, v)[1] # TAG_PICKLE
  BY <1>1, SerializedIsTagged DEF Encoded
<1>2. ASSUME NEW x \in Objects, NEW v, serialize(x) = Unsupported
      PROVE  Encoded(x, v)[1] = TAG_PICKLE
  BY <1>2 DEF Encoded, wrap_pickle
<1>3. /\ Decoded(Encoded(a, i)) = IF serialize(a) # Unsupported THEN Plain[a] ELSE a
      /\ Decoded(Encoded(b, j)) = IF serialize(b) # Unsupported THEN Plain[b] ELSE b
  BY EncodedIsDecoded
<1>4. serialize(a) = Unsupported <=> serialize(b) = Unsupported
  BY <1>1, <1>2
<1> QED BY <1>3, <1>4

(***************************************************************************)
(* The shared function                                                     *)
(***************************************************************************)

(* The limits and the slot they make fit u32, which the code casts them    *)
(* to.                                                                     *)
LimitsFitU32 == SLOT_HEADER_SIZE + max_key_size + max_value_size < U32

(* A call and a result of it: the key and the value of an entry.           *)
EntryOf(b, k, v) == k \in KeysOf[b] /\ v \in ValuesOf[b]

WaitingCalls ==
    {x \in SharedCalls \X UNION {KeysOf[c] : c \in SharedCalls} : x[2] \in KeysOf[x[1]]}

EntriesBelong == \A k \in DOMAIN store : \E b \in SharedCalls : EntryOf(b, k, store[k].val)
EntriesFit ==
    \A k \in DOMAIN store : Len(k) <= max_key_size /\ Len(store[k].val) <= max_value_size
CacheIsBounded == IsFiniteSet(DOMAIN store) /\ Cardinality(DOMAIN store) <= Capacity
PendingIsCall == pending \in [Procs -> {<<>>} \cup WaitingCalls]
SkipsType == skips \in 0 .. StatMod - 1

(* The inductive invariant: each entry is some shared call's, key and      *)
(* value, and within the limits.                                           *)
FunctionInv == EntriesBelong /\ EntriesFit /\ CacheIsBounded /\ PendingIsCall /\ SkipsType

EntriesInv == EntriesBelong /\ EntriesFit /\ CacheIsBounded

(* The cache's instance of the contract has its own copy of Cardinality.   *)
LEMMA SameCardinality ==
    ASSUME NEW S
    PROVE  Cache!Cardinality(S) = Cardinality(S)
BY DEF Cache!Cardinality, Cardinality

(* The length of an encoding is a number.                                  *)
LEMMA EncodedLength ==
    ASSUME NEW obj \in Objects, NEW variant
    PROVE  Len(Encoded(obj, variant)) \in Nat
<1>1. CASE serialize(obj) # Unsupported
  BY <1>1, SerializeElement, DataLaws DEF Encoded, serialize
<1>2. CASE serialize(obj) = Unsupported
  BY <1>2 DEF Encoded, wrap_pickle
<1> QED BY <1>1, <1>2

(* The key and the value of a call are encodings.                          *)
LEMMA EntryParts ==
    ASSUME NEW b \in SharedCalls, NEW k, NEW v
    PROVE  /\ b \in Calls /\ KeyObject(b) \in Objects /\ Results[b] \in Objects
           /\ k \in KeysOf[b] => /\ \E i \in Variants : k = Encoded(KeyObject(b), i)
                                 /\ Len(k) \in Nat
           /\ v \in ValuesOf[b] => /\ \E i \in Variants : v = Encoded(Results[b], i)
                                   /\ Len(v) \in Nat
<1>1. b \in Calls /\ KeyObject(b) \in Objects /\ Results[b] \in Objects
  BY KeyAssumption, FunctionAssumption DEF SharedCalls
<1>2. k \in KeysOf[b] => \E i \in Variants : k = Encoded(KeyObject(b), i)
  BY <1>1 DEF KeysOf, make_key
<1>3. v \in ValuesOf[b] => \E i \in Variants : v = Encoded(Results[b], i)
  BY <1>1 DEF ValuesOf
<1> QED BY <1>1, <1>2, <1>3, EncodedLength

(* Putting a result of a call that fits, with room made for it.            *)
LEMMA PutKeeps ==
    ASSUME EntriesInv, NEW p, NEW b \in SharedCalls, NEW k, NEW v, EntryOf(b, k, v),
           ~Oversize(k, v), Cache!Put(p, k, v)
    PROVE  EntriesInv'
<1> DEFINE D == DOMAIN store
<1>1. PICK gone \in SUBSET (D \ {k}) :
        /\ IF k \notin D /\ Cardinality(D) = Capacity THEN Cardinality(gone) = 1 ELSE gone = {}
        /\ store' = [x \in (D \ gone) \cup {k} |->
                        IF x = k THEN [val |-> v, created |-> now] ELSE store[x]]
  BY SameCardinality DEF Cache!Put
<1> DEFINE E == (D \ gone) \cup {k}
<1>2. DOMAIN store' = E /\ store'[k].val = v /\ \A x \in E : x # k => store'[x] = store[x] /\ x \in D
  BY <1>1
<1>3. EntriesBelong'
  <2>1. ASSUME NEW x \in DOMAIN store' PROVE \E c \in SharedCalls : EntryOf(c, x, store'[x].val)
    BY <1>2 DEF EntriesInv, EntriesBelong
  <2> QED BY <2>1 DEF EntriesBelong
<1>4. EntriesFit'
  <2>1. Len(k) \in Nat /\ Len(v) \in Nat /\ max_key_size \in Nat /\ max_value_size \in Nat
    BY EntryParts, FunctionAssumption DEF EntryOf
  <2>2. Len(k) <= max_key_size /\ Len(v) <= max_value_size
    BY <2>1 DEF Oversize, KeyTooLarge
  <2>3. ASSUME NEW x \in DOMAIN store'
        PROVE  Len(x) <= max_key_size /\ Len(store'[x].val) <= max_value_size
    BY <1>2, <2>2 DEF EntriesInv, EntriesFit
  <2> QED BY <2>3 DEF EntriesFit
<1>5. CacheIsBounded'
  <2>1. IsFiniteSet(D) /\ Cardinality(D) <= Capacity /\ Cardinality(D) \in Nat /\ Capacity \in Nat
    BY FS_CardinalityType, FunctionAssumption DEF EntriesInv, CacheIsBounded
  <2> HIDE DEF D
  <2>2. IsFiniteSet(E) /\ Cardinality(E) <= Capacity
    <3>1. CASE k \notin D /\ Cardinality(D) = Capacity
      <4>1. PICK g : gone = {g}
        <5>1. IsFiniteSet(gone) /\ Cardinality(gone) = 1
          BY <1>1, <2>1, <3>1, FS_Subset
        <5> QED BY <5>1, FS_Singleton
      <4>2. g \in D
        BY <4>1
      <4>3. IsFiniteSet(D \ {g}) /\ Cardinality(D \ {g}) = Cardinality(D) - 1
        BY <2>1, <4>2, FS_RemoveElement
      <4>4. k \notin D \ {g}
        BY <3>1
      <4> DEFINE R == D \ {g}
      <4> HIDE DEF R
      <4>5. IsFiniteSet(R \cup {k}) /\ Cardinality(R \cup {k}) = Cardinality(R) + 1
        BY <4>3, <4>4, FS_AddElement DEF R
      <4>6. E = R \cup {k}
        BY <4>1 DEF R
      <4> QED BY <2>1, <3>1, <4>3, <4>5, <4>6 DEF R
    <3>2. CASE ~(k \notin D /\ Cardinality(D) = Capacity)
      <4>1. E = D \cup {k}
        BY <1>1, <3>2
      <4>2. /\ IsFiniteSet(D \cup {k})
            /\ Cardinality(D \cup {k}) = IF k \in D THEN Cardinality(D) ELSE Cardinality(D) + 1
        BY <2>1, FS_AddElement
      <4> QED BY <2>1, <3>2, <4>1, <4>2
    <3> QED BY <3>1, <3>2
  <2> QED BY <1>2, <2>2 DEF CacheIsBounded
<1> QED BY <1>3, <1>4, <1>5 DEF EntriesInv

(* A cache that has lost entries is still right.                           *)
LEMMA LossKeeps ==
    ASSUME EntriesInv, DOMAIN store' \subseteq DOMAIN store,
           \A k \in DOMAIN store' : store'[k] = store[k]
    PROVE  EntriesInv'
<1>1. EntriesBelong'
  <2>1. ASSUME NEW x \in DOMAIN store' PROVE \E c \in SharedCalls : EntryOf(c, x, store'[x].val)
    BY DEF EntriesInv, EntriesBelong
  <2> QED BY <2>1 DEF EntriesBelong
<1>2. EntriesFit'
  <2>1. ASSUME NEW x \in DOMAIN store'
        PROVE  Len(x) <= max_key_size /\ Len(store'[x].val) <= max_value_size
    BY DEF EntriesInv, EntriesFit
  <2> QED BY <2>1 DEF EntriesFit
<1>3. CacheIsBounded'
  <2> DEFINE D == DOMAIN store
             E == DOMAIN store'
  <2>1. IsFiniteSet(D) /\ Cardinality(D) <= Capacity /\ E \in SUBSET D /\ Capacity \in Nat
    BY FunctionAssumption DEF EntriesInv, CacheIsBounded
  <2> HIDE DEF D, E
  <2>2. IsFiniteSet(E) /\ Cardinality(E) <= Cardinality(D)
    BY <2>1, FS_Subset
  <2>3. Cardinality(E) \in Nat /\ Cardinality(D) \in Nat
    BY <2>1, <2>2, FS_CardinalityType
  <2>4. IsFiniteSet(E) /\ Cardinality(E) <= Capacity
    BY <2>1, <2>2, <2>3
  <2> QED BY <2>4 DEF CacheIsBounded, E
<1> QED BY <1>1, <1>2, <1>3 DEF EntriesInv

(* The counter wraps.                                                      *)
LEMMA SkipCounts ==
    ASSUME SkipsType, record_oversize_skip
    PROVE  SkipsType'
<1>1. StatMod \in Nat \ {0} /\ skips \in Nat
  BY FunctionAssumption DEF SkipsType
<1>2. (skips + 1) % StatMod \in 0 .. StatMod - 1
  BY <1>1
<1> QED BY <1>2 DEF SkipsType, record_oversize_skip

(* The end of store_result, for a call and a result of it.                 *)
LEMMA StoreKeeps ==
    ASSUME EntriesInv, SkipsType, NEW p, NEW b \in SharedCalls, NEW k, NEW v,
           EntryOf(b, k, v), store_result(p, k, v)
    PROVE  EntriesInv' /\ SkipsType'
<1>1. CASE Oversize(k, v)
  <2>1. record_oversize_skip /\ store' = store
    BY <1>1 DEF store_result
  <2>2. EntriesInv'
    BY <2>1, LossKeeps
  <2> QED BY <2>1, <2>2, SkipCounts
<1>2. CASE ~Oversize(k, v)
  <2>1. Cache!Put(p, k, v) /\ skips' = skips
    BY <1>2 DEF store_result
  <2>2. EntriesInv'
    BY <1>2, <2>1, PutKeeps
  <2> QED BY <2>1, <2>2 DEF SkipsType
<1> QED BY <1>1, <1>2

(* The invariant holds at first.                                           *)
LEMMA FunctionInitially == Init => FunctionInv
<1> SUFFICES ASSUME Init PROVE FunctionInv
  OBVIOUS
<1>1. DOMAIN store = {} /\ pending = [p \in Procs |-> <<>>] /\ skips = 0
  BY DEF Init, Cache!Init
<1>2. EntriesBelong /\ EntriesFit
  BY <1>1 DEF EntriesBelong, EntriesFit
<1>3. CacheIsBounded
  BY <1>1, FS_EmptySet, FunctionAssumption DEF CacheIsBounded
<1>4. PendingIsCall
  <2> DEFINE W == WaitingCalls
             none == <<>>
  <2>1. pending = [p \in Procs |-> none]
    BY <1>1
  <2> HIDE DEF W, none
  <2>2. pending \in [Procs -> {none} \cup W]
    BY <2>1
  <2> QED BY <2>2 DEF PendingIsCall, W, none
<1>5. SkipsType
  BY <1>1, FunctionAssumption DEF SkipsType
<1> QED BY <1>2, <1>3, <1>4, <1>5 DEF FunctionInv

(* pending is typed, before and after a change for one process.            *)
LEMMA PendingChange ==
    ASSUME PendingIsCall, NEW p \in Procs, NEW x \in {<<>>} \cup WaitingCalls,
           pending' = [pending EXCEPT ![p] = x]
    PROVE  PendingIsCall'
<1> DEFINE S == {<<>>} \cup WaitingCalls
<1>1. pending \in [Procs -> S] /\ x \in S
  BY DEF PendingIsCall
<1> HIDE DEF S
<1>2. pending' \in [Procs -> S]
  BY <1>1
<1> QED BY <1>2 DEF PendingIsCall, S

(* Every step keeps it.                                                    *)
LEMMA FunctionStep == FunctionInv /\ [Next]_vars => FunctionInv'
<1> SUFFICES ASSUME FunctionInv, [Next]_vars PROVE FunctionInv'
  OBVIOUS
<1>0. EntriesInv /\ PendingIsCall /\ SkipsType
  BY DEF FunctionInv, EntriesInv
<1> SUFFICES EntriesInv' /\ PendingIsCall' /\ SkipsType'
  BY DEF FunctionInv, EntriesInv
<1>1. ASSUME store' = store PROVE EntriesInv'
  BY <1>0, <1>1, LossKeeps
<1>2. ASSUME pending' = pending PROVE PendingIsCall'
  BY <1>0, <1>2 DEF PendingIsCall
<1>3. ASSUME skips' = skips PROVE SkipsType'
  BY <1>0, <1>3 DEF SkipsType
<1>4. ASSUME NEW p \in Procs, NEW c \in SharedCalls, NEW k \in KeysOf[c],
             CallUncached(p, c, k) \/ CallHit(p, c, k) \/ CallMiss(p, c, k)
                \/ Probe(p, c, k) \/ Set(p, c, k)
      PROVE  EntriesInv' /\ PendingIsCall' /\ SkipsType'
  <2>1. CASE CallUncached(p, c, k)
    <3>1. record_oversize_skip /\ store' = store /\ pending' = pending
      BY <2>1 DEF CallUncached
    <3> QED BY <1>0, <1>1, <1>2, <3>1, SkipCounts
  <2>2. CASE CallHit(p, c, k) \/ Probe(p, c, k)
    <3>1. store' = store /\ pending' = pending /\ skips' = skips
      BY <2>2 DEF CallHit, Probe, Cache!Get
    <3> QED BY <1>1, <1>2, <1>3, <3>1
  <2>3. CASE CallMiss(p, c, k)
    <3> DEFINE x == <<c, k>>
    <3>1. store' = store /\ skips' = skips /\ pending' = [pending EXCEPT ![p] = x]
      BY <2>3 DEF CallMiss, Cache!Get
    <3>2. x \in WaitingCalls
      <4>1. k \in UNION {KeysOf[b] : b \in SharedCalls}
        OBVIOUS
      <4>2. x[1] = c /\ x[2] = k
        OBVIOUS
      <4> QED BY <4>1, <4>2 DEF WaitingCalls
    <3> HIDE DEF x
    <3>3. PendingIsCall'
      BY <1>0, <3>1, <3>2, PendingChange
    <3> QED BY <1>1, <1>3, <3>1, <3>3
  <2>4. CASE Set(p, c, k)
    <3>1. PICK v \in ValuesOf[c] : store_result(p, k, v) /\ pending' = pending
      BY <2>4 DEF Set
    <3>2. EntriesInv' /\ SkipsType'
      BY <1>0, <3>1, StoreKeeps DEF EntryOf
    <3> QED BY <1>2, <3>1, <3>2
  <2> QED BY <1>4, <2>1, <2>2, <2>3, <2>4
<1>5. ASSUME NEW p \in Procs, ReturnComputed(p)
      PROVE  EntriesInv' /\ PendingIsCall' /\ SkipsType'
  <2>1. pending[p] # <<>> /\ pending' = [pending EXCEPT ![p] = <<>>]
    BY <1>5 DEF ReturnComputed
  <2>2. pending[p] \in WaitingCalls
    BY <1>0, <2>1 DEF PendingIsCall
  <2> DEFINE c == pending[p][1]
             k == pending[p][2]
  <2>3. c \in SharedCalls /\ k \in KeysOf[c]
    BY <2>2 DEF WaitingCalls
  <2>4. PICK v \in ValuesOf[c] : store_result(p, k, v)
    BY <1>5 DEF ReturnComputed
  <2> HIDE DEF c, k
  <2>5. EntriesInv' /\ SkipsType'
    BY <1>0, <2>3, <2>4, StoreKeeps DEF EntryOf
  <2>6. PendingIsCall'
    BY <1>0, <2>1, PendingChange
  <2> QED BY <2>5, <2>6
<1>6. ASSUME NEW p \in Procs, Raise(p) PROVE EntriesInv' /\ PendingIsCall' /\ SkipsType'
  <2>1. store' = store /\ skips' = skips /\ pending' = [pending EXCEPT ![p] = <<>>]
    BY <1>6 DEF Raise
  <2>2. PendingIsCall'
    BY <1>0, <2>1, PendingChange
  <2> QED BY <1>1, <1>3, <2>1, <2>2
<1>7. ASSUME NEW p \in Procs, CacheClear(p) PROVE EntriesInv' /\ PendingIsCall' /\ SkipsType'
  <2>1. DOMAIN store' = {} /\ skips' = 0 /\ pending' = pending
    BY <1>7 DEF CacheClear, Cache!Clear
  <2>2. EntriesInv'
    BY <1>0, <2>1, LossKeeps
  <2>3. SkipsType'
    BY <2>1, FunctionAssumption DEF SkipsType
  <2> QED BY <1>2, <2>1, <2>2, <2>3
<1>8. ASSUME NEW k \in DOMAIN store, Drop(k) PROVE EntriesInv' /\ PendingIsCall' /\ SkipsType'
  <2>1. /\ pending' = pending /\ skips' = skips
        /\ store' = [x \in DOMAIN store \ {k} |-> store[x]]
    BY <1>8 DEF Drop, Cache!Drop, Cache!Restrict
  <2>2. EntriesInv'
    BY <1>0, <2>1, LossKeeps
  <2> QED BY <1>2, <1>3, <2>1, <2>2
<1>9. CASE UNCHANGED vars
  BY <1>1, <1>2, <1>3, <1>9 DEF vars
<1> QED BY <1>4, <1>5, <1>6, <1>7, <1>8, <1>9 DEF Next

(* Type correctness of the shared cached function: the cache holds keys    *)
(* and results of calls of the functions that share it, at most Capacity.  *)
THEOREM TypeCorrect == Spec => []TypeOK
<1>1. FunctionInv => TypeOK
  <2> SUFFICES ASSUME FunctionInv PROVE TypeOK
    OBVIOUS
  <2>1. /\ DOMAIN store \subseteq UNION {KeysOf[c] : c \in SharedCalls}
        /\ \A k \in DOMAIN store : store[k].val \in UNION {ValuesOf[c] : c \in SharedCalls}
    BY DEF FunctionInv, EntriesBelong, EntryOf
  <2>2. ASSUME NEW p \in Procs, pending[p] # <<>>
        PROVE  \E c \in SharedCalls : \E k \in KeysOf[c] : pending[p] = <<c, k>>
    <3>1. pending[p] \in WaitingCalls
      BY <2>2 DEF FunctionInv, PendingIsCall
    <3> DEFINE x == pending[p]
    <3> HIDE DEF x
    <3>2. x[1] \in SharedCalls /\ x[2] \in KeysOf[x[1]] /\ x = <<x[1], x[2]>>
      BY <3>1 DEF WaitingCalls, x
    <3> QED BY <3>2 DEF x
  <2>3. Cardinality(DOMAIN store) <= Capacity /\ skips \in 0 .. StatMod - 1
    BY DEF FunctionInv, CacheIsBounded, SkipsType
  <2> QED BY <2>1, <2>2, <2>3 DEF TypeOK
<1> QED BY <1>1, FunctionInitially, FunctionStep, PTL DEF Spec

(* No entry outgrows the slot that create_or_open has sized for it, as     *)
(* long as the limits fit u32.                                             *)
THEOREM EntriesFitSlots ==
    ASSUME LimitsFitU32
    PROVE  Spec => []EntriesFitTheirSlot
<1>1. slot_size = SLOT_HEADER_SIZE + max_key_size + max_value_size
  <2>1. /\ U32 \in Nat \ {0} /\ max_key_size \in Nat /\ max_value_size \in Nat
        /\ 1 + max_key_size + max_value_size < U32
    BY SerdeAssumption, FunctionAssumption DEF LimitsFitU32, SLOT_HEADER_SIZE
  <2>2. \A x \in Nat : x < U32 => x % U32 = x
    BY <2>1
  <2>3. /\ max_key_size < U32 /\ max_value_size < U32
        /\ 1 + max_key_size + max_value_size \in Nat
    BY <2>1
  <2> QED BY <2>1, <2>2, <2>3 DEF slot_size, SLOT_HEADER_SIZE
<1>2. FunctionInv => EntriesFitTheirSlot
  <2> SUFFICES ASSUME FunctionInv, NEW k \in DOMAIN store
               PROVE  SLOT_HEADER_SIZE + Len(k) + Len(store[k].val) <= slot_size
    BY DEF EntriesFitTheirSlot
  <2> DEFINE v == store[k].val
  <2>1. PICK b \in SharedCalls : k \in KeysOf[b] /\ v \in ValuesOf[b]
    BY DEF FunctionInv, EntriesBelong, EntryOf
  <2>2. Len(k) <= max_key_size /\ Len(v) <= max_value_size
    BY DEF FunctionInv, EntriesFit
  <2> HIDE DEF v
  <2>3. Len(k) \in Nat /\ Len(v) \in Nat
    BY <2>1, EntryParts
  <2>4. max_key_size \in Nat /\ max_value_size \in Nat
    BY FunctionAssumption
  <2>5. SLOT_HEADER_SIZE + Len(k) + Len(v) <= SLOT_HEADER_SIZE + max_key_size + max_value_size
    BY <2>2, <2>3, <2>4 DEF SLOT_HEADER_SIZE
  <2> QED BY <1>1, <2>5 DEF v
<1> QED BY <1>2, FunctionInitially, FunctionStep, PTL DEF Spec

(***************************************************************************)
(* The keyword arguments are sorted                                        *)
(***************************************************************************)

Kwargs == [name : Int, value : Objects]
NamesDiffer(S) == \A x, y \in S : x.name = y.name => x = y
Increases(s, n) == \A i, j \in 1 .. n : i < j => s[i].name < s[j].name
Sortings(S, n) == {s \in [1 .. n -> S] : Increases(s, n)}
Greatest(S) == {x \in S : \A y \in S : y.name <= x.name}

(* Of finitely many keyword arguments one has the greatest name.           *)
LEMMA GreatestName ==
    ASSUME NEW S \in SUBSET Kwargs, IsFiniteSet(S), S # {}
    PROVE  Greatest(S) # {}
<1> DEFINE Sized(R, n) == IsFiniteSet(R) /\ Cardinality(R) = n + 1
           T == {n \in Nat : \A R \in SUBSET Kwargs : Sized(R, n) => Greatest(R) # {}}
<1>0. \A x \in Kwargs : x.name \in Int
  BY DEF Kwargs
<1>1. 0 \in T
  <2> SUFFICES ASSUME NEW R \in SUBSET Kwargs, IsFiniteSet(R), Cardinality(R) = 1
               PROVE  Greatest(R) # {}
    OBVIOUS
  <2>1. PICK x : R = {x}
    BY FS_Singleton
  <2>2. x.name <= x.name
    BY <1>0, <2>1
  <2> QED BY <2>1, <2>2 DEF Greatest
<1>2. ASSUME NEW n \in T PROVE n + 1 \in T
  <2> SUFFICES ASSUME NEW R \in SUBSET Kwargs, IsFiniteSet(R), Cardinality(R) = (n + 1) + 1
               PROVE  Greatest(R) # {}
    OBVIOUS
  <2>0. n \in Nat
    OBVIOUS
  <2>1. PICK x : x \in R
    BY <2>0, FS_EmptySet
  <2> DEFINE Q == R \ {x}
  <2>2. IsFiniteSet(Q) /\ Cardinality(Q) = n + 1 /\ Q \in SUBSET Kwargs
    BY <2>0, <2>1, FS_RemoveElement
  <2>3. PICK y : y \in Greatest(Q)
    BY <2>2
  <2>4. y \in R /\ \A z \in R : z # x => z.name <= y.name
    BY <2>3 DEF Greatest
  <2>5. x.name \in Int /\ y.name \in Int /\ \A z \in R : z.name \in Int
    BY <1>0, <2>1, <2>4
  <2>6. CASE x.name <= y.name
    BY <2>4, <2>6 DEF Greatest
  <2>7. CASE ~(x.name <= y.name)
    <3>1. \A z \in R : z.name <= x.name
      BY <2>4, <2>5, <2>7
    <3> QED BY <2>1, <3>1 DEF Greatest
  <2> QED BY <2>6, <2>7
<1>3. T = Nat
  <2>1. T \in SUBSET Nat
    OBVIOUS
  <2> HIDE DEF T
  <2> QED BY <1>1, <1>2, <2>1, SetInduction
<1> DEFINE n == Cardinality(S) - 1
<1>4. n \in Nat /\ Cardinality(S) = n + 1
  <2>1. Cardinality(S) \in Nat /\ Cardinality(S) # 0
    BY FS_CardinalityType, FS_EmptySet
  <2> QED BY <2>1
<1> HIDE DEF n
<1>5. n \in T
  BY <1>3, <1>4
<1> QED BY <1>4, <1>5

(* Finitely many of them, no two of one name, can be sorted.               *)
LEMMA SortingExists ==
    ASSUME NEW S \in SUBSET Kwargs, IsFiniteSet(S), NamesDiffer(S)
    PROVE  Sortings(S, Cardinality(S)) # {}
<1> DEFINE Sized(R, n) == IsFiniteSet(R) /\ Cardinality(R) = n /\ NamesDiffer(R)
           T == {n \in Nat : \A R \in SUBSET Kwargs : Sized(R, n) => Sortings(R, n) # {}}
<1>0. \A x \in Kwargs : x.name \in Int
  BY DEF Kwargs
<1>1. 0 \in T
  <2> SUFFICES ASSUME NEW R \in SUBSET Kwargs, Sized(R, 0) PROVE Sortings(R, 0) # {}
    OBVIOUS
  <2> DEFINE s == [i \in 1 .. 0 |-> CHOOSE x \in R : TRUE]
  <2>1. s \in [1 .. 0 -> R] /\ Increases(s, 0)
    BY DEF Increases
  <2> HIDE DEF s
  <2> QED BY <2>1 DEF Sortings
<1>2. ASSUME NEW n \in T PROVE n + 1 \in T
  <2> SUFFICES ASSUME NEW R \in SUBSET Kwargs, Sized(R, n + 1) PROVE Sortings(R, n + 1) # {}
    OBVIOUS
  <2>0. n \in Nat
    OBVIOUS
  <2>1. R # {}
    BY <2>0, FS_EmptySet
  <2>2. PICK x : x \in Greatest(R)
    BY <2>1, GreatestName
  <2>3. x \in R /\ \A y \in R : y.name <= x.name
    BY <2>2 DEF Greatest
  <2> DEFINE Q == R \ {x}
  <2>4. Sized(Q, n) /\ Q \in SUBSET Kwargs
    <3>1. IsFiniteSet(Q) /\ Cardinality(Q) = n
      <4>1. IsFiniteSet(Q) /\ Cardinality(Q) = Cardinality(R) - 1
        BY <2>3, FS_RemoveElement
      <4>2. (n + 1) - 1 = n
        BY <2>0
      <4> QED BY <4>1, <4>2
    <3> QED BY <3>1 DEF NamesDiffer
  <2>5. PICK r : r \in [1 .. n -> Q] /\ Increases(r, n)
    <3> HIDE DEF Sized, Q
    <3>1. Sortings(Q, n) # {}
      BY <2>4
    <3> QED BY <3>1 DEF Sortings
  <2>6. ASSUME NEW y \in Q PROVE y.name < x.name
    <3>1. y \in R /\ y # x /\ y.name <= x.name /\ y.name \in Int /\ x.name \in Int
      BY <1>0, <2>3
    <3>2. y.name # x.name
      BY <2>3, <3>1 DEF NamesDiffer
    <3> QED BY <3>1, <3>2
  <2> DEFINE s == [i \in 1 .. n + 1 |-> IF i = n + 1 THEN x ELSE r[i]]
  <2>7. \A i \in 1 .. n : i \in 1 .. n + 1 /\ s[i] = r[i] /\ r[i] \in Q
    BY <2>0, <2>5
  <2>8. s[n + 1] = x /\ n + 1 \in 1 .. n + 1
    BY <2>0
  <2>9. \A i \in 1 .. n + 1 : i \in 1 .. n \/ i = n + 1
    BY <2>0
  <2>10. s \in [1 .. n + 1 -> R]
    <3>1. ASSUME NEW i \in 1 .. n + 1 PROVE s[i] \in R
      <4> HIDE DEF s
      <4> QED BY <2>3, <2>7, <2>8, <2>9
    <3> QED BY <3>1
  <2> HIDE DEF s, Q
  <2>11. Increases(s, n + 1)
    <3> SUFFICES ASSUME NEW i \in 1 .. n + 1, NEW j \in 1 .. n + 1, i < j
                 PROVE  s[i].name < s[j].name
      BY DEF Increases
    <3>1. i \in 1 .. n
      BY <2>0
    <3>2. CASE j = n + 1
      BY <2>6, <2>7, <2>8, <3>1, <3>2
    <3>3. CASE j \in 1 .. n
      BY <2>5, <2>7, <3>1, <3>3 DEF Increases
    <3> QED BY <2>9, <3>2, <3>3
  <2> QED BY <2>10, <2>11 DEF Sortings
<1>3. T = Nat
  <2>1. T \in SUBSET Nat
    OBVIOUS
  <2> HIDE DEF T
  <2> QED BY <1>1, <1>2, <2>1, SetInduction
<1>4. Cardinality(S) \in Nat
  BY FS_CardinalityType
<1>5. Cardinality(S) \in T
  BY <1>3, <1>4
<1> QED BY <1>5

(* The keyword arguments of a call differ in their names, and are as many  *)
(* as were written.                                                        *)
LEMMA KwargsOfCall ==
    ASSUME NEW c \in Calls
    PROVE  /\ Len(c.kw) \in Nat /\ DOMAIN c.kw = 1 .. Len(c.kw)
           /\ ToSet(c.kw) \in SUBSET Kwargs /\ NamesDiffer(ToSet(c.kw))
           /\ IsFiniteSet(ToSet(c.kw)) /\ Cardinality(ToSet(c.kw)) = Len(c.kw)
<1> DEFINE kw == c.kw
           n == Len(kw)
           S == ToSet(kw)
<1>1. kw \in Seq(Kwargs) /\ \A i, j \in DOMAIN kw : kw[i].name = kw[j].name => i = j
  BY FunctionAssumption DEF Kwargs
<1> HIDE DEF kw
<1>2. n \in Nat /\ DOMAIN kw = 1 .. n /\ kw \in [1 .. n -> Kwargs]
  BY <1>1
<1>3. S = {kw[i] : i \in 1 .. n}
  BY <1>2 DEF ToSet
<1> HIDE DEF n, S
<1>4. S \in SUBSET Kwargs /\ NamesDiffer(S)
  <2>1. S \in SUBSET Kwargs
    BY <1>2, <1>3
  <2>2. ASSUME NEW x \in S, NEW y \in S, x.name = y.name PROVE x = y
    <3>1. PICK i \in 1 .. n, j \in 1 .. n : x = kw[i] /\ y = kw[j]
      BY <1>3
    <3> QED BY <1>1, <1>2, <2>2, <3>1
  <2> QED BY <2>1, <2>2 DEF NamesDiffer
<1>5. kw \in Surjection(1 .. n, S) /\ kw \in Injection(1 .. n, S)
  <2>1. kw \in [1 .. n -> S] /\ \A x \in S : \E i \in 1 .. n : kw[i] = x
    BY <1>2, <1>3
  <2>2. \A i, j \in 1 .. n : kw[i] = kw[j] => i = j
    BY <1>1, <1>2
  <2>3. kw \in Surjection(1 .. n, S)
    BY <2>1 DEF Surjection
  <2>4. kw \in Injection(1 .. n, S)
    BY <1>2, <2>1, <2>2 DEF Injection, IsInjective
  <2> QED BY <2>3, <2>4
<1>6. IsFiniteSet(1 .. n) /\ Cardinality(1 .. n) = n
  BY <1>2, FS_Interval
<1>7. IsFiniteSet(S) /\ Cardinality(S) = n
  BY <1>5, <1>6, FS_Surjection
<1> QED BY <1>2, <1>4, <1>7 DEF kw, n, S

SortedOf(D, S) == CHOOSE s \in [D -> S] : \A i, j \in D : i < j => s[i].name < s[j].name

(* sorted() gives the keyword arguments of a call in the order of their    *)
(* names, all of them.                                                     *)
LEMMA SortedKwargs ==
    ASSUME NEW c \in Calls
    PROVE  LET n == Len(c.kw)
               s == sorted(c.kw)
           IN /\ s = SortedOf(1 .. n, ToSet(c.kw))
              /\ s \in [1 .. n -> ToSet(c.kw)] /\ Increases(s, n)
              /\ {s[i] : i \in 1 .. n} = ToSet(c.kw)
<1> DEFINE n == Len(c.kw)
           S == ToSet(c.kw)
           s == sorted(c.kw)
<1>1. /\ n \in Nat /\ DOMAIN c.kw = 1 .. n /\ S \in SUBSET Kwargs /\ NamesDiffer(S)
      /\ IsFiniteSet(S) /\ Cardinality(S) = n
  BY KwargsOfCall
<1>2. s = SortedOf(DOMAIN c.kw, S)
  BY DEF sorted, SortedOf
<1>3. s = SortedOf(1 .. n, S)
  BY <1>1, <1>2
<1> HIDE DEF n, S, s
<1>4. PICK r : r \in [1 .. n -> S] /\ Increases(r, n)
  <2>1. Sortings(S, n) # {}
    BY <1>1, SortingExists
  <2> QED BY <2>1 DEF Sortings
<1>5. s \in [1 .. n -> S] /\ Increases(s, n)
  BY <1>3, <1>4 DEF SortedOf, Increases
<1>6. s \in Surjection(1 .. n, S)
  <2>1. ASSUME NEW i \in 1 .. n, NEW j \in 1 .. n, s[i] = s[j] PROVE i = j
    <3>1. s[i].name \in Int /\ s[j].name \in Int
      BY <1>1, <1>5 DEF Kwargs
    <3>2. ~(i < j) /\ ~(j < i)
      BY <1>5, <2>1, <3>1 DEF Increases
    <3> QED BY <1>1, <3>2
  <2>2. s \in Injection(1 .. n, S)
    BY <1>5, <2>1 DEF Injection, IsInjective
  <2>3. IsFiniteSet(1 .. n) /\ Cardinality(1 .. n) = n
    BY <1>1, FS_Interval
  <2> QED BY <1>1, <2>2, <2>3, FS_Injection
<1>7. {s[i] : i \in 1 .. n} = S
  BY <1>5, <1>6 DEF Surjection
<1> QED BY <1>3, <1>5, <1>7 DEF n, S, s

(* The parts of the key tuple of a call.                                   *)
LEMMA KeyParts ==
    ASSUME NEW c \in Calls
    PROVE  /\ c.kw = <<>> => KeyObject(c).s = c.args
           /\ c.kw # <<>> =>
                /\ KeyObject(c).s[1].s = c.args
                /\ KeyObject(c).s[2].s = [i \in 1 .. Len(c.kw) |-> Item(sorted(c.kw)[i])]
<1>1. CASE c.kw = <<>>
  BY <1>1 DEF KeyObject, Tuple
<1>2. CASE c.kw # <<>>
  <2> DEFINE items == sorted(c.kw)
             a == Tuple(c.args)
             b == Tuple([i \in DOMAIN items |-> Item(items[i])])
  <2>1. DOMAIN items = 1 .. Len(c.kw)
    BY SortedKwargs
  <2>2. KeyObject(c) = Tuple(<<a, b>>)
    BY <1>2 DEF KeyObject
  <2> HIDE DEF items
  <2>3. a.s = c.args /\ b.s = [i \in 1 .. Len(c.kw) |-> Item(items[i])]
    BY <2>1 DEF Tuple
  <2> HIDE DEF a, b
  <2>4. KeyObject(c).s[1] = a /\ KeyObject(c).s[2] = b
    BY <2>2 DEF Tuple
  <2> QED BY <1>2, <2>3, <2>4 DEF items
<1> QED BY <1>1, <1>2

(* The key tuple forgets nothing of a call but the order of its keyword    *)
(* arguments: calls with keyword arguments have one key tuple exactly when *)
(* they have the same positional ones and the same items of kwargs, and so *)
(* have calls without.                                                     *)
THEOREM SameKeyTuple ==
    ASSUME NEW b \in Calls, NEW c \in Calls, b.kw = <<>> <=> c.kw = <<>>
    PROVE  KeyObject(b) = KeyObject(c) <=> b.args = c.args /\ ToSet(b.kw) = ToSet(c.kw)
<1>1. ASSUME b.args = c.args, ToSet(b.kw) = ToSet(c.kw) PROVE KeyObject(b) = KeyObject(c)
  <2>1. Len(b.kw) = Len(c.kw)
    BY <1>1, KwargsOfCall
  <2>2. sorted(b.kw) = sorted(c.kw)
    BY <1>1, <2>1, SortedKwargs
  <2> QED BY <1>1, <2>2 DEF KeyObject
<1>2. ASSUME KeyObject(b) = KeyObject(c) PROVE b.args = c.args /\ ToSet(b.kw) = ToSet(c.kw)
  <2>1. CASE b.kw = <<>>
    <3>1. b.kw = c.kw
      BY <2>1
    <3> QED BY <1>2, <2>1, <3>1, KeyParts
  <2>2. CASE b.kw # <<>>
    <3> DEFINE x == sorted(b.kw)
               y == sorted(c.kw)
               n == Len(b.kw)
               m == Len(c.kw)
    <3>1. b.args = c.args /\ [i \in 1 .. n |-> Item(x[i])] = [i \in 1 .. m |-> Item(y[i])]
      BY <1>2, <2>2, KeyParts
    <3>2. n \in Nat /\ m \in Nat
      BY KwargsOfCall
    <3>3. {x[i] : i \in 1 .. n} = ToSet(b.kw) /\ {y[i] : i \in 1 .. m} = ToSet(c.kw)
      BY SortedKwargs
    <3>4. /\ \A i \in 1 .. n : x[i] \in Kwargs
          /\ \A i \in 1 .. m : y[i] \in Kwargs
      <4>1. ToSet(b.kw) \in SUBSET Kwargs /\ ToSet(c.kw) \in SUBSET Kwargs
        BY KwargsOfCall
      <4> HIDE DEF x, y, n, m
      <4> QED BY <3>3, <4>1
    <3> HIDE DEF x, y, n, m
    <3>5. 1 .. n = 1 .. m
      <4>1. DOMAIN [i \in 1 .. n |-> Item(x[i])] = DOMAIN [i \in 1 .. m |-> Item(y[i])]
        BY <3>1
      <4> QED BY <4>1
    <3>6. ASSUME NEW i \in 1 .. n PROVE x[i] = y[i]
      <4>1. Item(x[i]) = Item(y[i])
        <5>1. [j \in 1 .. n |-> Item(x[j])][i] = [j \in 1 .. m |-> Item(y[j])][i]
          BY <3>1
        <5> QED BY <3>5, <5>1
      <4>2. ASSUME NEW z \in Kwargs
            PROVE  Item(z).s[1].c[1] = z.name /\ Item(z).s[2] = z.value
        BY DEF Item, Tuple, Object
      <4>3. x[i] \in Kwargs /\ y[i] \in Kwargs
        BY <3>4, <3>5
      <4>4. x[i].name = y[i].name /\ x[i].value = y[i].value
        BY <4>1, <4>2, <4>3
      <4> QED BY <4>3, <4>4 DEF Kwargs
    <3>7. {x[i] : i \in 1 .. n} = {y[i] : i \in 1 .. m}
      BY <3>5, <3>6
    <3> QED BY <3>1, <3>3, <3>7
  <2> QED BY <2>1, <2>2
<1> QED BY <1>1, <1>2

(* Two ways of writing one call have one entry at most, whatever the order *)
(* of the keyword arguments, unless the key is a pickle.                   *)
THEOREM OneEntry == Spec => []OneEntryPerCall
<1>1. OneEntryPerCall
  <2> SUFFICES ASSUME NEW b \in SharedCalls, NEW c \in SharedCalls,
                      b.args = c.args, ToSet(b.kw) = ToSet(c.kw),
                      serialize(KeyObject(b)) # Unsupported
               PROVE  Cardinality((KeysOf[b] \cup KeysOf[c]) \cap DOMAIN store) <= 1
    BY DEF OneEntryPerCall
  <2>1. b \in Calls /\ c \in Calls
    BY DEF SharedCalls
  <2>2. b.kw = <<>> <=> c.kw = <<>>
    <3>1. Len(b.kw) = Len(c.kw)
      BY <2>1, KwargsOfCall
    <3>2. ASSUME NEW d \in Calls PROVE d.kw = <<>> <=> Len(d.kw) = 0
      BY FunctionAssumption, EmptySeq
    <3> QED BY <2>1, <3>1, <3>2
  <2>3. KeyObject(b) = KeyObject(c)
    BY <2>1, <2>2, SameKeyTuple
  <2> DEFINE e == serialize(KeyObject(b))
             K == (KeysOf[b] \cup KeysOf[c]) \cap DOMAIN store
  <2>4. KeysOf[b] \subseteq {e} /\ KeysOf[c] \subseteq {e}
    BY <2>1, <2>3 DEF KeysOf, make_key, Encoded
  <2> HIDE DEF e
  <2>5. K \in SUBSET {e}
    BY <2>4
  <2> HIDE DEF K
  <2>6. IsFiniteSet({e}) /\ Cardinality({e}) = 1
    BY FS_Singleton
  <2>7. Cardinality(K) <= Cardinality({e})
    BY <2>5, <2>6, FS_Subset
  <2> QED BY <2>6, <2>7 DEF K
<1> QED BY <1>1, PTL

(* The calls that the code can tell apart: of one function, without        *)
(* subclasses of the built-in types in arguments and results, and where no *)
(* call spells out the key tuple of another's keyword arguments.           *)
DistinguishableCalls ==
    \A b, c \in SharedCalls :
        /\ b.fn = c.fn
        /\ KeyObject(b) = KeyObject(c) => (b.kw = <<>> <=> c.kw = <<>>)
        /\ Plain[KeyObject(b)] = KeyObject(b)
        /\ Plain[Results[b]] = Results[b]

(* What the cache answers a call with is, decoded, what its function has   *)
(* returned for the same arguments, for any such calls and objects, at any *)
(* depth of tuples, on the fast path and as pickles (make_key, serialize,  *)
(* deserialize_value), as long as the limits fit u32.                      *)
THEOREM AnswersAreOwn ==
    ASSUME LimitsFitU32, DistinguishableCalls
    PROVE  Spec => []CachedAnswersAreOwn
<1>1. FunctionInv => CachedAnswersAreOwn
  <2> SUFFICES ASSUME FunctionInv, NEW k \in DOMAIN store, NEW c \in SharedCalls, k \in KeysOf[c]
               PROVE  \E b \in SharedCalls :
                        /\ b.fn = c.fn /\ b.args = c.args /\ ToSet(b.kw) = ToSet(c.kw)
                        /\ Decoded(store[k].val) = Results[b]
    BY DEF CachedAnswersAreOwn
  <2> DEFINE v == store[k].val
  <2>1. PICK b \in SharedCalls : k \in KeysOf[b] /\ v \in ValuesOf[b]
    BY DEF FunctionInv, EntriesBelong, EntryOf
  <2>2. Len(k) <= max_key_size /\ Len(v) <= max_value_size
    BY DEF FunctionInv, EntriesFit
  <2> HIDE DEF v
  <2>3. Len(k) < U32 /\ Len(v) < U32
    <3>1. Len(k) \in Nat /\ Len(v) \in Nat
      BY <2>1, EntryParts
    <3>2. U32 \in Nat /\ max_key_size \in Nat /\ max_value_size \in Nat
      BY SerdeAssumption, FunctionAssumption
    <3> QED BY <2>2, <3>1, <3>2 DEF LimitsFitU32, SLOT_HEADER_SIZE
  <2>4. KeyObject(b) \in Objects /\ KeyObject(c) \in Objects /\ Results[b] \in Objects
    BY EntryParts
  <2>5. PICK i \in Variants : k = Encoded(KeyObject(b), i)
    BY <2>1, EntryParts
  <2>6. PICK j \in Variants : k = Encoded(KeyObject(c), j)
    BY EntryParts
  <2>7. PICK h \in Variants : v = Encoded(Results[b], h)
    BY <2>1, EntryParts
  <2>8. b.args = c.args /\ ToSet(b.kw) = ToSet(c.kw)
    <3>1. Plain[KeyObject(b)] = Plain[KeyObject(c)]
      BY <2>3, <2>4, <2>5, <2>6, EncodingsDiffer
    <3>2. KeyObject(b) = KeyObject(c)
      BY <3>1 DEF DistinguishableCalls
    <3>3. b.kw = <<>> <=> c.kw = <<>>
      BY <3>2 DEF DistinguishableCalls
    <3>4. b \in Calls /\ c \in Calls
      BY DEF SharedCalls
    <3> QED BY <3>2, <3>3, <3>4, SameKeyTuple
  <2>9. Decoded(v) = Results[b]
    <3>1. Decoded(v) = IF serialize(Results[b]) # Unsupported THEN Plain[Results[b]] ELSE Results[b]
      BY <2>3, <2>4, <2>7, EncodedIsDecoded
    <3>2. Plain[Results[b]] = Results[b]
      BY DEF DistinguishableCalls
    <3> QED BY <3>1, <3>2
  <2>10. b.fn = c.fn
    BY DEF DistinguishableCalls
  <2> QED BY <2>8, <2>9, <2>10 DEF v
<1> QED BY <1>1, FunctionInitially, FunctionStep, PTL DEF Spec

===============================================================================
