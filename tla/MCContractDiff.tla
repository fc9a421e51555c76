--------------------------- MODULE MCContractDiff ---------------------------
EXTENDS ContractDiff

F(b, fields, set, es, c) == [base |-> b, fields |-> fields, set |-> set, es |-> es, chain |-> c]
E(b, set, es, c) == F(b, EmptyMap, set, es, c)
C(m) == [m |-> m, n |-> 0, set |-> {}, es |-> <<>>, each |-> FALSE]
CN(m, n) == [C(m) EXCEPT !.n = n]
CS(m, set) == [C(m) EXCEPT !.set = set]
CE(m, e) == [C(m) EXCEPT !.es = <<e>>]
Str == E("string", {}, <<>>, <<>>)
Num == E("number", {}, <<>>, <<>>)
Obj(k, e) == F("object", Put(EmptyMap, k, e), {}, <<>>, <<>>)

MCBases ==
    {Str, Num, E("int", {}, <<>>, <<>>), E("boolean", {}, <<>>, <<>>), E("any", {}, <<>>, <<>>),
     E("optional", {}, <<Str>>, <<>>), E("enum", {"p", "q"}, <<>>, <<>>), Obj("x", Str),
     E("array", {}, <<Str>>, <<>>), E("union", {}, <<Str, Num>>, <<>>), E("tuple", {}, <<Str, Num>>, <<>>)}
MCCalls ==
    {C("optional"), C("nullable"), C("nullish"), CN("min", 1), CN("min", 2), CN("max", 2), CN("gt", 1), C("int"),
     CN("email", 1), C("trim"), CS("exclude", {"p"}), CS("extract", {"p"}), CE("or", Num), C("array"), C("element"),
     C("deepPartial"), CE("extend", Obj("x", Num)), CE("merge", Obj("y", Str))}
MCTopCalls ==
    {C("partial"), CS("partial", {"b"}), C("required"), CS("pick", {"a"}), CS("omit", {"a"}), C("nullable"), C("keyof"),
     C("deepPartial"), CE("extend", Obj("c", Num)), CE("merge", Str)}

Two(b, x, y) == F(b, [k \in {"a", "b"} |-> IF k = "a" THEN x ELSE y], {}, <<>>, <<>>)
Deco(ann, c) == E("decorated", {}, <<ann>>, c)
MCRoots ==
    {[decl |-> d, suffix |-> s, dto |-> FALSE] :
        d \in {Two("object", Str, E("number", {}, <<>>, <<C("optional")>>)),
               Two("object", E("enum", {"p", "q"}, <<>>, <<>>), E("array", {}, <<Str>>, <<CN("max", 2)>>)),
               Two("object", E("int", {}, <<>>, <<CN("min", 2)>>), E("union", {}, <<Str, Num>>, <<>>)),
               Two("object", Obj("x", Num), Str)},
        s \in {"request", "response", ""}}
    \cup {[decl |-> d, suffix |-> "", dto |-> TRUE] :
             d \in {Two("class", Deco(Str, <<C("IsString"), C("IsNotEmpty")>>),
                        Deco(E("array", {}, <<Num>>, <<>>), <<C("ArrayNotEmpty")>>)),
                    [Two("class", Deco(Str, <<CS("IsIn", {"p"}), C("IsOptional")>>), Deco(Num, <<CN("Max", 2)>>))
                       EXCEPT !.es = <<Obj("c", Str)>>]}}
MCParents == {<<>>} \cup {<<[Two("class", Num, Str) EXCEPT !.fields = Put(@, "c", Num), !.chain = c]>> :
                            c \in {<<>>, <<C("partial")>>, <<CS("pick", {"c"})>>, <<CE("merge", Obj("c", Str))>>}}
MCDecorators == {C("IsOptional"), C("IsDefined"), C("IsInt"), C("IsNotEmpty"), CN("MinLength", 2), C("ArrayNotEmpty"),
                 [C("IsString") EXCEPT !.each = TRUE], C("Allow"), CN("Max", 3)}

O(how, key) == [how |-> how, key |-> key]
MCUses == {{O("member", "a")}, {O("payload", "a"), O("element", "b")}, {O("sent", "a")}, {O("sent", "a"), O("sent", "b")},
           {O("destructured", "a"), O("spread", "b")}, {O("member", "b"), O("sent", "a"), O("literal spread", "b")},
           {O("member", "a"), O("forwarded", "b")}, {O("sent", "a"), O("forwarded", "a")},
           {O("alias", "b")}, {O("member", "a"), O("return", "b")}, {O("wrapper", "b")}, {}}

Val(t, w, n, f, s, o) == [t |-> t, w |-> w, n |-> n, f |-> f, s |-> s, o |-> o]
Plain(t, w, n, f) == Val(t, w, n, f, <<>>, EmptyMap)
Texts == {Plain("string", "p", 1, FALSE), Plain("string", "q", 2, TRUE), Plain("string", "", 0, FALSE),
          Plain("string", "long", 3, FALSE)}
Numbers == {Plain("number", "", n, FALSE) : n \in 0..4}
List(s) == Val("array", "", Len(s), FALSE, s, EmptyMap)
Struct(o) == Val("object", "", 0, FALSE, <<>>, o)
MCScalars ==
    Texts \cup Numbers \cup {Plain("null", "", 0, FALSE), Plain("boolean", "", 0, FALSE)}
    \cup {List(<<>>)} \cup {List(<<x>>) : x \in Texts \cup Numbers} \cup {List(<<x, y>>) : x \in Texts, y \in Numbers}
    \cup {List(<<x, y, x>>) : x, y \in {v \in Texts : v.n = 2}}
    \cup {Struct(EmptyMap)} \cup {Struct(Put(EmptyMap, "x", v)) : v \in Texts \cup Numbers}
    \cup {Struct(Put(Put(EmptyMap, "x", v), "y", w)) : v \in Numbers, w \in Texts}
=============================================================================
