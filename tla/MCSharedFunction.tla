--------------------------- MODULE MCSharedFunction ---------------------------
(* Instances of SharedFunction for TLC. *)
EXTENDS SharedFunction

CONSTANTS p1, p2

TwoProcs == {p1, p2}
Symmetry == Permutations(TwoProcs)

Defined(module, qualname, id) == [module |-> module, qualname |-> qualname, id |-> id]
f == Defined("m", "f", 1)
other == Defined("m", "g", 2)
namesake == Defined("n", "f", 3)
ThreeFunctions == {f, other, namesake}
RegionOfF == <<"m", "f">>

Call(fn, args, kw) == [fn |-> fn, args |-> args, kw |-> kw]
PyInt(n) == Object("int", <<n>>)
PyFloat(n) == Object("float", <<n>>)
PyBool(n) == Object("bool", <<n>>)
PyStr(s) == Object("str", s)
PyBytes(s) == Object("bytes", s)
PyNone == Object("none", <<>>)
AnyObject(n) == Object("other", <<n>>)
Kw(name, n) == [name |-> name, value |-> PyInt(n)]

(* Each call with what it returns.  Several return their own number, so that answers   *)
(* that belong to another call show.  No argument or result is of a subclass of a      *)
(* built-in type, no two functions have one name, and no call spells out the key tuple *)
(* of another: these are the cases where the code mixes calls up.                      *)
Table ==
    {<<Call(f, <<PyInt(1)>>, <<>>), Tuple(<<PyInt(7), Tuple(<<PyStr(<<1>>), PyNone>>)>>)>>,
     <<Call(f, <<PyBool(1)>>, <<>>), PyBytes(<<2>>)>>,
     <<Call(f, <<PyFloat(1)>>, <<>>), Tuple(<<PyFloat(3), PyNone, PyNone>>)>>,
     <<Call(other, <<PyInt(1)>>, <<>>), PyNone>>,
     <<Call(namesake, <<PyInt(1)>>, <<>>), PyBool(1)>>,
     <<Call(f, <<PyStr(<<6, 1>>), PyStr(<<1>>)>>, <<>>), PyInt(-5)>>,
     <<Call(f, <<PyStr(<<6>>), PyStr(<<1, 1>>)>>, <<>>), PyInt(20)>>,
     <<Call(f, <<PyInt(1)>>, <<Kw(1, 2), Kw(2, 3)>>), PyInt(7)>>,
     <<Call(f, <<PyInt(1)>>, <<Kw(2, 3), Kw(1, 2)>>), PyInt(7)>>,
     <<Call(f, <<Tuple(<<PyInt(1)>>), Tuple(<<Item(Kw(1, 2))>>)>>, <<>>), PyInt(8)>>,
     <<Call(f, <<PyInt(20)>>, <<>>), Tuple(<<PyInt(1), AnyObject(9)>>)>>,
     <<Call(f, <<PyStr(<<99>>)>>, <<>>), PyStr(<<1, 2, 3, 4, 5, 6, 7, 8, 9, 10>>)>>,
     <<Call(f, <<PyBytes([i \in 1 .. 40 |-> i])>>, <<>>), PyNone>>}

PlainCalls == {row[1] : row \in Table}
TheirResults == [c \in Calls |-> (CHOOSE row \in Table : row[1] = c)[2]]

(* Everything that is encoded, and the items in it, however deep.                      *)
With(objs) == objs \cup UNION {ToSet(obj.s) : obj \in objs}
SomeObjects ==
    With(With(With({KeyObject(row[1]) : row \in Table} \cup {row[2] : row \in Table})))
TheirDepth[obj \in SomeObjects] ==
    IF obj.s = <<>> THEN 0 ELSE 1 + Max({TheirDepth[x] : x \in ToSet(obj.s)})
===============================================================================
