--------------------------------- MODULE Serde ---------------------------------
(***************************************************************************)
(* The tagged encoding of src/serde.rs.                                    *)
(*                                                                         *)
(* A Python object is a record: type is the built-in type it is an         *)
(* instance of ("other" for the rest), sub whether it is of a proper       *)
(* subclass, c its contents as numbers (the number of an int or a float,   *)
(* the characters of a str), s the items of a tuple.  Encoded data is a    *)
(* sequence of fields: a tag, a length, a count, a fixed-width number or a *)
(* character is one number each, and a pickle is one record.               *)
(***************************************************************************)
EXTENDS Integers, SequencesExt

CONSTANTS
    Objects,     \* the objects of calls and results, and the items of their tuples
    Depth,       \* Depth[obj]: how deep tuples are nested in obj
    I64,         \* 2^63 in the code: ints outside -I64 .. I64 - 1 do not fit
    U32,         \* 2^32 in the code: lengths are cast to u32
    TUPLE_MAX,   \* 255 in the code: the longest tuple that is encoded
    SURROGATE    \* a character that has no UTF-8 encoding

Types == {"none", "bool", "int", "float", "str", "bytes", "tuple", "other"}

(* No contents, a truth value, one number, or any number of characters.    *)
Contents(type) ==
    CASE type \in {"none", "tuple"} -> {<<>>}
      [] type = "bool" -> {<<0>>, <<1>>}
      [] type \in {"int", "float"} -> {c \in Seq(Int) : Len(c) = 1}
      [] OTHER -> Seq(Int)

ASSUME SerdeAssumption ==
    /\ {I64, TUPLE_MAX, SURROGATE} \subseteq Nat
    /\ U32 \in Nat \ {0}
    /\ Depth \in [Objects -> Nat]
    /\ \A obj \in Objects :
        /\ obj \in [type : Types, sub : BOOLEAN, c : Seq(Int), s : Seq(Objects)]
        /\ obj.c \in Contents(obj.type)
        /\ obj.type # "tuple" => obj.s = <<>>
        /\ \A i \in DOMAIN obj.s : Depth[obj.s[i]] < Depth[obj]

Object(type, contents) == [type |-> type, sub |-> FALSE, c |-> contents, s |-> <<>>]
Tuple(items) == [type |-> "tuple", sub |-> FALSE, c |-> <<>>, s |-> items]

TAG_PICKLE == 0
TAG_NONE == 1
TAG_FALSE == 2
TAG_TRUE == 3
TAG_I64 == 4
TAG_F64 == 5
TAG_STR == 6
TAG_BYTES == 7
TAG_TUPLE == 8

(* No encoding, and nothing decoded.                                       *)
Unsupported == <<>>
Nothing == [found |-> FALSE]

(* is_instance_of: bool is a subclass of int, and other subclasses count.  *)
is_instance_of(obj, type) == obj.type = type \/ (type = "int" /\ obj.type = "bool")

TagOfBool(obj) == IF obj.c = <<1>> THEN TAG_TRUE ELSE TAG_FALSE

(* Mutant: int is asked for before bool.                                   *)
TagIntFirst(obj) ==
    IF is_instance_of(obj, "none") THEN TAG_NONE
    ELSE IF is_instance_of(obj, "int") THEN TAG_I64
    ELSE IF is_instance_of(obj, "bool") THEN TagOfBool(obj)
    ELSE IF is_instance_of(obj, "float") THEN TAG_F64
    ELSE IF is_instance_of(obj, "str") THEN TAG_STR
    ELSE IF is_instance_of(obj, "bytes") THEN TAG_BYTES
    ELSE IF is_instance_of(obj, "tuple") THEN TAG_TUPLE
    ELSE TAG_PICKLE

(* The tests of serialize_element, in their order.                         *)
Tag(obj) ==
    IF is_instance_of(obj, "none") THEN TAG_NONE
    ELSE IF is_instance_of(obj, "bool") THEN TagOfBool(obj)
    ELSE IF is_instance_of(obj, "int") THEN TAG_I64
    ELSE IF is_instance_of(obj, "float") THEN TAG_F64
    ELSE IF is_instance_of(obj, "str") THEN TAG_STR
    ELSE IF is_instance_of(obj, "bytes") THEN TAG_BYTES
    ELSE IF is_instance_of(obj, "tuple") THEN TAG_TUPLE
    ELSE TAG_PICKLE

(* The length is cast to u32, whatever it is.                              *)
WithLength(tag, s) == <<tag, Len(s) % U32>> \o s

(* The branches of serialize_element; items are the encoded items of a     *)
(* tuple.                                                                  *)
Encoding(obj, items) ==
    LET tag == Tag(obj)
    IN CASE tag \in {TAG_NONE, TAG_FALSE, TAG_TRUE} -> <<tag>>
         [] tag = TAG_I64 /\ obj.c[1] \in -I64 .. I64 - 1 -> <<tag, obj.c[1]>>
         [] tag = TAG_F64 -> <<tag, obj.c[1]>>
         [] tag = TAG_STR /\ SURROGATE \notin ToSet(obj.c) -> WithLength(tag, obj.c)
         [] tag = TAG_BYTES -> WithLength(tag, obj.c)
         [] tag = TAG_TUPLE /\ Len(obj.s) <= TUPLE_MAX /\ Unsupported \notin ToSet(items) ->
                <<tag, Len(obj.s)>> \o FlattenSeq(items)
         [] OTHER -> Unsupported

serialize_element[obj \in Objects] ==
    Encoding(obj, [i \in DOMAIN obj.s |-> serialize_element[obj.s[i]]])

serialize(obj) == serialize_element[obj]

(* pickle.dumps has no canonical answer: equal objects may differ in what  *)
(* they share, or in the order of a set.                                   *)
wrap_pickle(obj, variant) == <<TAG_PICKLE, [pickle |-> obj, variant |-> variant]>>

(* The encoding of obj: the fast path, or a pickle (make_key,              *)
(* store_result).                                                          *)
Encoded(obj, variant) ==
    IF serialize(obj) # Unsupported THEN serialize(obj) ELSE wrap_pickle(obj, variant)

-------------------------------------------------------------------------------

Found(obj, used) == [found |-> TRUE, obj |-> obj, used |-> used]

Rest(data, n) == SubSeq(data, n + 1, Len(data))

Text(type, data) ==
    LET n == data[2]
    IN IF Len(data) < 2 + n THEN Nothing
       ELSE Found(Object(type, SubSeq(data, 3, 2 + n)), 2 + n)

(* The loop for TAG_TUPLE: after[i] is what the first i items have given.  *)
Items(one, data, count) ==
    LET after[i \in 0 .. count] ==
            IF i = 0 THEN Found(<<>>, 0)
            ELSE LET got == after[i - 1]
                     next == one[Rest(data, got.used)]
                 IN IF got.found /\ next.found
                    THEN Found(Append(got.obj, next.obj), got.used + next.used)
                    ELSE Nothing
    IN after[count]

(* The branches of deserialize_one; one is the decoder of the items.       *)
(* Lengths and counts are unsigned.                                        *)
Decoding(one, data) ==
    LET tag == data[1]
        long == Len(data) >= 2
        sized == long /\ data[2] \in Nat
    IN CASE tag = TAG_NONE -> Found(Object("none", <<>>), 1)
         [] tag = TAG_FALSE -> Found(Object("bool", <<0>>), 1)
         [] tag = TAG_TRUE -> Found(Object("bool", <<1>>), 1)
         [] tag = TAG_I64 /\ long -> Found(Object("int", <<data[2]>>), 2)
         [] tag = TAG_F64 /\ long -> Found(Object("float", <<data[2]>>), 2)
         [] tag = TAG_STR /\ sized -> Text("str", data)
         [] tag = TAG_BYTES /\ sized -> Text("bytes", data)
         [] tag = TAG_TUPLE /\ sized ->
                LET items == Items(one, Rest(data, 2), data[2])
                IN IF items.found THEN Found(Tuple(items.obj), 2 + items.used) ELSE Nothing
         [] OTHER -> Nothing

deserialize_one[data \in Seq(Int)] ==
    IF data = <<>> THEN Nothing ELSE Decoding(deserialize_one, data)

deserialize(data) ==
    IF data = <<>> \/ data[1] = TAG_PICKLE THEN Nothing ELSE deserialize_one[data]

pickle_payload(data) == data[2].pickle

(* deserialize_value: the fast path, or pickle.loads of what follows the   *)
(* first byte.                                                             *)
Decoded(data) ==
    IF deserialize(data).found THEN deserialize(data).obj ELSE pickle_payload(data)

-------------------------------------------------------------------------------

(* The object with every subclass forgotten.                               *)
Plain[obj \in Objects] ==
    [type |-> obj.type, sub |-> FALSE, c |-> obj.c,
     s |-> [i \in DOMAIN obj.s |-> Plain[obj.s[i]]]]
===============================================================================
