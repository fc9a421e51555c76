---------------------------- MODULE ContractDiff ----------------------------
(***************************************************************************)
(* Contract diff of .github/graph-admission/tools/graph/contract_diff.py:  *)
(* the schema-lite of a declared contract, the changes between the schema  *)
(* of two revisions with their severity, and the verdict on one consumer.  *)
(*                                                                         *)
(* A declaration is an expression [base, fields, set, es, chain]: the      *)
(* function called or kind of declaration, the expressions of its          *)
(* properties, its literals, its other expressions, and the calls [m, n,   *)
(* set, es, each] that follow it, which are the decorators of a DTO's      *)
(* property.  A schema has the same shape whatever its kind, with the      *)
(* parts its kind does not use left empty.                                 *)
(***************************************************************************)
EXTENDS Naturals, Sequences, FiniteSets, SequencesExt, FiniteSetsExt, Functions

CONSTANTS Roots,     \* the declarations the base revision may hold
          Calls,     \* the calls the author may append to an expression
          Bases,     \* the expressions a property may be replaced by
          TopCalls,  \* the calls the author may append to the object
          Parents,   \* what the author may let a class extend
          Decorators, \* the decorators the author may set
          Uses,      \* what the consumer may do with the contract
          Scalars,   \* the values tried against the schemas
          NewKey,    \* the property the author may add
          MaxEdits   \* edits between base and head

VARIABLES base,      \* the declaration at the base revision, with what its symbol is named for
          head,      \* the declaration at the head revision, or Removed
          use,       \* the consumer at the head revision
          edits

vars == <<base, head, use, edits>>

EmptyMap == [x \in {} |-> x]
Removed == [base |-> "removed", fields |-> EmptyMap, set |-> {}, es |-> <<>>, chain |-> <<>>]

Schema(kind) == [kind |-> kind, nullable |-> FALSE, optional |-> FALSE, values |-> {}, props |-> EmptyMap,
                 items |-> <<>>, variants |-> {}, cons |-> EmptyMap]
Object(props) == [Schema("object") EXCEPT !.props = props]
Enum(values) == [Schema("enum") EXCEPT !.values = values]
Put(f, k, v) == [x \in DOMAIN f \cup {k} |-> IF x = k THEN v ELSE f[x]]

-----------------------------------------------------------------------------
(* Extraction. *)

StripFlags(s) == [s EXCEPT !.optional = FALSE]

MergeObjects(a, b) ==
    IF a.kind # "object" THEN b ELSE IF b.kind # "object" THEN a
    ELSE Object([k \in DOMAIN a.props \cup DOMAIN b.props |-> IF k \in DOMAIN b.props THEN b.props[k] ELSE a.props[k]])

\* make_union: unions are flattened, enumerations joined.
MakeUnion(vs) ==
    LET flat == UNION {IF v.kind = "union" THEN v.variants ELSE {v} : v \in vs}
    IN IF Cardinality(flat) = 1 THEN CHOOSE v \in flat : TRUE
       ELSE IF \A v \in flat : v.kind = "enum" THEN Enum(UNION {v.values : v \in flat})
       ELSE [Schema("union") EXCEPT !.variants = flat, !.nullable = \E v \in flat : v.nullable]

\* deep_partial: the properties of nested objects too.  A nested object is built anew, without
\* the mark that it is optional.
RECURSIVE DeepPartial(_)
DeepPartial(s) ==
    IF s.kind # "object" THEN s
    ELSE Object([k \in DOMAIN s.props |-> DeepPartial([s.props[k] EXCEPT !.optional = TRUE])])

\* apply_constraint.
ApplyConstraint(s, m, n) ==
    LET suffix == CASE s.kind = "string" -> "Length" [] s.kind = "array" -> "Items" [] OTHER -> ""
        low == CASE suffix = "Length" -> "minLength" [] suffix = "Items" -> "minItems" [] OTHER -> "min"
        high == CASE suffix = "Length" -> "maxLength" [] suffix = "Items" -> "maxItems" [] OTHER -> "max"
        put(k, v) == [s EXCEPT !.cons = Put(s.cons, k, v)]
    IN CASE m = "min" -> put(low, n) [] m = "max" -> put(high, n)
         [] m = "gt" -> put("exclusiveMin", n) [] m = "lt" -> put("exclusiveMax", n)
         [] m = "length" -> [s EXCEPT !.cons = Put(Put(s.cons, "minLength", n), "maxLength", n)]
         [] m = "nonempty" -> put(IF s.kind = "string" THEN "minLength" ELSE "minItems", 1)
         [] m = "nonnegative" -> put("min", 0)
         [] m = "int" -> [s EXCEPT !.kind = "integer"]
         [] m = "multipleOf" -> put("multipleOf", n)
         [] m = "trim" -> s
         [] OTHER -> put("format", n)

\* zod_base, zod_object and cv_class: what `z.name(...)` or a class stands for, its arguments and
\* properties being read.  A class is its own properties over those of what it extends, a mapped
\* type being calls on another class.
ZodBase(e, args, own) ==
    CASE e.base = "object" -> own
      [] e.base = "class" -> IF args = <<>> THEN own ELSE MergeObjects(args[1], own)
      [] e.base \in {"string", "number", "boolean", "null", "date"} -> Schema(e.base)
      [] e.base = "int" -> Schema("integer")
      [] e.base = "email" -> [Schema("string") EXCEPT !.cons = Put(EmptyMap, "format", 1)]
      [] e.base \in {"literal", "enum"} -> Enum(e.set)
      [] e.base \in {"array", "record", "tuple"} -> [Schema(e.base) EXCEPT !.items = args]
      [] e.base = "optional" -> [args[1] EXCEPT !.optional = TRUE]
      [] e.base = "union" -> MakeUnion(Range(args))
      [] e.base = "intersection" ->
             IF args[1].kind = "object" /\ args[2].kind = "object" THEN MergeObjects(args[1], args[2])
             ELSE [Schema("intersection") EXCEPT !.items = args]
      [] OTHER -> Schema("any")

\* partial and required: the named properties, or all.
SetOptional(s, keys, to) ==
    Object([k \in DOMAIN s.props |->
               IF keys = {} \/ k \in keys THEN [s.props[k] EXCEPT !.optional = to] ELSE s.props[k]])

\* zod_method: one call of the chain, its own arguments being read.
ZodMethod(s, c) ==
    CASE c.m \in {"optional", "default", "catch"} -> [s EXCEPT !.optional = TRUE]
      [] c.m = "nullable" -> [s EXCEPT !.nullable = TRUE]
      [] c.m = "nullish" -> [s EXCEPT !.optional = TRUE, !.nullable = TRUE]
      [] c.m \in {"min", "max", "gt", "lt", "length", "nonempty", "nonnegative", "int", "multipleOf", "trim", "email"} ->
             ApplyConstraint(s, c.m, c.n)
      [] c.m = "array" -> [Schema("array") EXCEPT !.items = <<s>>]
      [] c.m = "partial" /\ s.kind = "object" -> SetOptional(s, c.set, TRUE)
      [] c.m = "required" /\ s.kind = "object" -> SetOptional(s, c.set, FALSE)
      [] c.m = "deepPartial" -> DeepPartial(s)
      [] c.m = "extend" -> MergeObjects(s, c.es[1])
      [] c.m \in {"merge", "and"} ->
             IF c.es[1].kind = "object" /\ s.kind = "object" THEN MergeObjects(s, c.es[1]) ELSE s
      [] c.m \in {"pick", "omit"} /\ s.kind = "object" ->
             Object([k \in {x \in DOMAIN s.props : (x \in c.set) = (c.m = "pick")} |-> s.props[k]])
      [] c.m = "or" -> MakeUnion({s, c.es[1]})
      [] c.m \in {"exclude", "extract"} /\ s.kind = "enum" ->
             Enum({v \in s.values : (v \in c.set) = (c.m = "extract")})
      [] c.m = "keyof" -> Enum(DOMAIN s.props)
      [] c.m = "element" -> IF s.kind = "array" THEN s.items[1] ELSE Schema("any")
      [] OTHER -> s

\* apply_decorators: the decorators are read in their order, and what they say of the type wins
\* over the annotation.  Limits on the number of elements go to the array when there is one.
ApplyDecorators(ann, decos) ==
    LET none == <<>>
        read(r, c) ==
            LET typed(kind) == IF r.typed = none THEN [r EXCEPT !.typed = <<Schema(kind)>>] ELSE r
                limit(k, n) == [r EXCEPT !.cons = Put(@, k, n)]
            IN CASE c.m = "IsOptional" -> [r EXCEPT !.optional = TRUE]
                 [] c.m = "IsDefined" -> [r EXCEPT !.optional = FALSE]
                 [] c.m = "IsString" -> typed("string")
                 [] c.m = "IsNumber" -> typed("number")
                 [] c.m = "IsInt" -> [r EXCEPT !.typed = <<Schema("integer")>>]
                 [] c.m = "IsEmail" -> [r EXCEPT !.typed = <<Schema("string")>>, !.cons = Put(@, "format", 1)]
                 [] c.m = "IsIn" -> [r EXCEPT !.typed = <<Enum(c.set)>>]
                 [] c.m = "Allow" -> [r EXCEPT !.typed = <<Schema("any")>>]
                 [] c.m = "ArrayNotEmpty" -> limit("minItems", 1)
                 [] c.m = "ArrayMaxSize" -> limit("maxItems", c.n)
                 [] c.m = "IsNotEmpty" -> IF "minLength" \in DOMAIN r.cons THEN r ELSE limit("minLength", 1)
                 [] c.m = "MinLength" -> limit("minLength", c.n)
                 [] c.m = "MaxLength" -> limit("maxLength", c.n)
                 [] c.m = "Min" -> limit("min", c.n)
                 [] c.m = "Max" -> limit("max", c.n)
                 [] OTHER -> r
        said == FoldLeft(read, [typed |-> none, cons |-> EmptyMap, optional |-> ann.optional], decos)
        isArray == ann.kind = "array" \/ \E c \in Range(decos) : c.m = "IsArray" \/ c.each
        item == IF ann.kind = "array" THEN ann.items[1] ELSE ann
        chosen == IF said.typed = none THEN item ELSE said.typed[1]
        cons == said.cons @@ chosen.cons
        counts == {"minItems", "maxItems"} \cap DOMAIN cons
        limited(limits) == [chosen EXCEPT !.cons = limits, !.nullable = item.nullable, !.optional = FALSE]
        schema == IF isArray
                  THEN [Schema("array") EXCEPT !.items = <<limited(Restrict(cons, DOMAIN cons \ counts))>>,
                                               !.cons = Restrict(cons, counts)]
                  ELSE limited(cons)
    IN [schema EXCEPT !.optional = said.optional]

\* zod: the base and then its chain of calls, the expressions in both being read first.
RECURSIVE Zod(_)
Zod(e) ==
    LET all(es) == [i \in DOMAIN es |-> Zod(es[i])]
        args == all(e.es)
        own == Object([k \in DOMAIN e.fields |-> Zod(e.fields[k])])
        chain == [i \in DOMAIN e.chain |-> [e.chain[i] EXCEPT !.es = all(@)]]
    IN IF e.base = "decorated" THEN ApplyDecorators(args[1], chain)
       ELSE FoldLeft(ZodMethod, ZodBase(e, args, own), chain)

\* schema_of: the schema of a declaration.
SchemaOf(d) == Zod(d)

-----------------------------------------------------------------------------
(* Differ: a change is [code, path], the path a sequence of property names *)
(* and element marks. *)

BREAKING_ALWAYS == {"CONTRACT_REMOVED", "FIELD_REMOVED", "FIELD_RENAMED", "NEW_REQUIRED_FIELD", "FIELD_MADE_REQUIRED",
                    "TYPE_CHANGED", "TYPE_NARROWED", "ENUM_VALUE_REMOVED", "ERROR_CODE_CHANGED"}
BREAKING_UNLESS_INPUT == {"REQUIRED_TO_OPTIONAL", "TYPE_WIDENED", "ENUM_VALUE_ADDED"}

\* Mutant: a widening is compatible whatever the direction.
SeverityIgnoresDirection(code, direction) == IF code \in BREAKING_ALWAYS THEN "breaking" ELSE "compatible"

Severity(code, direction) ==
    IF code \in BREAKING_ALWAYS THEN "breaking"
    ELSE IF code \in BREAKING_UNLESS_INPUT /\ direction # "input" THEN "breaking"
    ELSE IF code = "NON_SEMANTIC_TEXT" THEN "info"
    ELSE "compatible"

Change(code, path) == [code |-> code, path |-> path]
When(p, c) == IF p THEN {c} ELSE {}

WIDEN == {<<"integer", "number">>, <<"enum", "string">>, <<"enum", "number">>, <<"enum", "integer">>,
          <<"enum", "boolean">>, <<"date", "string">>, <<"null", "any">>}

\* kind_change.
KindChange(a, b, path) ==
    LET widened == \/ b.kind = "any"
                   \/ b.kind = "union" /\ \E v \in b.variants : StripFlags(v) = StripFlags(a)
        narrowed == \/ a.kind = "any"
                    \/ a.kind = "union" /\ \E v \in a.variants : StripFlags(v) = StripFlags(b)
    IN {Change(IF widened THEN "TYPE_WIDENED" ELSE IF narrowed THEN "TYPE_NARROWED"
               ELSE IF <<a.kind, b.kind>> \in WIDEN THEN "TYPE_WIDENED"
               ELSE IF <<b.kind, a.kind>> \in WIDEN THEN "TYPE_NARROWED"
               ELSE "TYPE_CHANGED", path)}

UPPER == {"maxLength", "max", "maxItems", "exclusiveMax"}
LOWER == {"minLength", "min", "minItems", "exclusiveMin"}

\* constraints: an absent limit is the widest.
Tightens(a, b, k) ==
    IF k \notin DOMAIN b THEN FALSE
    ELSE IF k \notin DOMAIN a THEN TRUE
    ELSE IF k \in UPPER THEN b[k] < a[k]
    ELSE IF k \in LOWER THEN b[k] > a[k]
    ELSE TRUE

Relaxes(a, b, k) ==
    \/ k \notin DOMAIN b
    \/ k \in DOMAIN a /\ CASE k \in UPPER -> b[k] > a[k] [] k \in LOWER -> b[k] < a[k] [] OTHER -> TRUE

Constraints(a, b, path) ==
    LET differ == {k \in DOMAIN a.cons \cup DOMAIN b.cons :
                      ~(k \in DOMAIN a.cons /\ k \in DOMAIN b.cons /\ a.cons[k] = b.cons[k])}
    IN When(\E k \in differ : Tightens(a.cons, b.cons, k), Change("TYPE_NARROWED", path))
       \cup When(\E k \in differ : Relaxes(a.cons, b.cons, k), Change("TYPE_WIDENED", path))

RECURSIVE SchemaChanges(_, _, _)

\* objects: a removed property with exactly one added property of the same
\* schema is renamed.
Objects(a, b, path) ==
    LET removed == DOMAIN a.props \ DOMAIN b.props
        added == DOMAIN b.props \ DOMAIN a.props
        match(r) == {x \in added : /\ StripFlags(a.props[r]) = StripFlags(b.props[x])
                                   /\ a.props[r].optional = b.props[x].optional}
        pair(m, r) == LET free == match(r) \ Range(m)
                      IN IF Cardinality(free) = 1 THEN Put(m, r, CHOOSE x \in free : TRUE) ELSE m
        renamed == FoldLeft(pair, EmptyMap, SetToSeq(removed))
    IN {Change(IF r \in DOMAIN renamed THEN "FIELD_RENAMED" ELSE "FIELD_REMOVED", Append(path, r)) : r \in removed}
       \cup {Change(IF b.props[x].optional THEN "FIELD_ADDED_OPTIONAL" ELSE "NEW_REQUIRED_FIELD", Append(path, x))
                : x \in added \ Range(renamed)}
       \cup UNION {LET p == Append(path, k) x == a.props[k] y == b.props[k]
                   IN When(x.optional /\ ~y.optional, Change("FIELD_MADE_REQUIRED", p))
                      \cup When(y.optional /\ ~x.optional, Change("REQUIRED_TO_OPTIONAL", p))
                      \cup SchemaChanges(x, y, p) : k \in DOMAIN a.props \cap DOMAIN b.props}

\* schema: the changes of one schema, its kind deciding what is compared.
SchemaChanges(a, b, path) ==
    LET element == Append(path, "[]")
        variants == When(a.variants \ b.variants # {}, Change("TYPE_NARROWED", path))
                    \cup When(b.variants \ a.variants # {}, Change("TYPE_WIDENED", path))
        same == CASE a.kind = "object" -> Objects(a, b, path)
                  [] a.kind = "enum" -> When(a.values \ b.values # {}, Change("ENUM_VALUE_REMOVED", path))
                                        \cup When(b.values \ a.values # {}, Change("ENUM_VALUE_ADDED", path))
                  [] a.kind = "array" -> SchemaChanges(a.items[1], b.items[1], element) \cup Constraints(a, b, path)
                  [] a.kind = "record" -> SchemaChanges(a.items[1], b.items[1], element)
                  [] a.kind = "tuple" -> IF Len(a.items) # Len(b.items) THEN {Change("TYPE_CHANGED", path)}
                                         ELSE UNION {SchemaChanges(a.items[i], b.items[i], element) : i \in DOMAIN a.items}
                  [] a.kind = "union" -> variants
                  [] OTHER -> Constraints(a, b, path)
    IN When(a.nullable /\ ~b.nullable, Change("TYPE_NARROWED", path))
       \cup When(b.nullable /\ ~a.nullable, Change("TYPE_WIDENED", path))
       \cup IF a.kind # b.kind THEN KindChange(a, b, path) ELSE same

\* contract: the changes of a declaration between two revisions.
OrText(changes) == IF changes = {} THEN {Change("NON_SEMANTIC_TEXT", <<>>)} ELSE changes
ContractChanges(old, new) ==
    IF new = Removed THEN {Change("CONTRACT_REMOVED", <<>>)}
    ELSE IF old = new THEN {}
    ELSE OrText(SchemaChanges(SchemaOf(old), SchemaOf(new), <<>>))

Breaking(old, new, direction) == {c \in ContractChanges(old, new) : Severity(c.code, direction) = "breaking"}

-----------------------------------------------------------------------------
(* Consumers. *)

(***************************************************************************)
(* A consumer is the set of the places [how, key] in its text at which it  *)
(* uses what is bound to the contract: a key it reads there, by whichever  *)
(* road, or a key of the literal it writes.                                *)
(***************************************************************************)
READS == {"member", "destructured", "payload", "element"}  \* x.k, {k} = x, r.data.k, xs[0].k
ESCAPES == {"rest", "spread", "computed", "iterated", "literal spread"}
UNRESOLVED == {"wrapper", "container"}    \* the result of safeParse, or an array, as a whole
UNNOTICED == {"alias", "return"}          \* `y = x; y.k`, and `return x`, are not looked for

Keys(u, hows) == {o.key : o \in {x \in u : x.how \in hows}}
Has(u, hows) == \E o \in u : o.how \in hows

\* Mutant: a value that is handed to a call is not followed.
ProjectionForgetsForwarding(u) ==
    [keysRead |-> Keys(u, READS), keysSent |-> Keys(u, {"sent"}), literals |-> Has(u, {"sent"}),
     complete |-> u # {} /\ ~Has(u, ESCAPES \cup UNRESOLVED),
     unresolved |-> Has(u, UNRESOLVED)]

\* projection: the keys a consumer's text reads and the keys of the literals it writes.  A value
\* that is spread, indexed, iterated or forwarded leaves the projection incomplete, unless it is
\* its own literal that is forwarded; so does a file without any binding.
Projection(u) ==
    [keysRead |-> Keys(u, READS), keysSent |-> Keys(u, {"sent"}), literals |-> Has(u, {"sent"}),
     complete |-> /\ u # {} /\ ~Has(u, ESCAPES \cup UNRESOLVED)
                  /\ Has(u, {"forwarded"}) => Has(u, {"sent"}),
     unresolved |-> Has(u, UNRESOLVED)]

\* edge_verdict for a contract, s its schema, and a deterministic edge.
EdgeVerdict(p, new, s, breaking) ==
    LET used == p.keysRead \cup p.keysSent
        unattributable == \E c \in breaking : c.path = <<>> /\ c.code \in {"TYPE_WIDENED", "REQUIRED_TO_OPTIONAL"}
    IN IF new = Removed THEN "failed"
       ELSE IF s.kind = "object" /\ ~used \subseteq DOMAIN s.props THEN "failed"
       ELSE IF s.kind = "object" /\ p.literals /\ p.complete
              /\ \E k \in DOMAIN s.props : ~s.props[k].optional /\ k \notin p.keysSent THEN "failed"
       ELSE IF s.kind = "object" /\ (\E c \in breaking : c.path # <<>> /\ c.path[1] \in used) THEN "failed"
       ELSE IF p.unresolved THEN "not_measured"
       ELSE IF breaking = {} THEN "verified"
       ELSE IF ~p.complete \/ s.kind # "object" THEN "not_measured"
       ELSE IF unattributable THEN "not_measured"
       ELSE "verified"

\* run_diff: the provider's verdict and the consumer's.
VerdictsOn(breaking, new, u) ==
    [breaking |-> breaking,
     provider |-> IF breaking = {} THEN "verified" ELSE "failed",
     consumer |-> EdgeVerdict(Projection(u), new, SchemaOf(new), breaking)]
RunDiff(old, new, direction, u) == VerdictsOn(Breaking(old, new, direction), new, u)

-----------------------------------------------------------------------------
(* The author's edits between the two revisions. *)

\* direction_of: a DTO and what is named for a request are input, what is named
\* for a response is output, anything else goes both ways.
DirectionOf(b) == IF b.suffix = "response" THEN "output"
                  ELSE IF b.dto \/ b.suffix = "request" THEN "input"
                  ELSE "bidirectional"

Init == /\ base \in Roots
        /\ head = base.decl
        /\ use \in Uses
        /\ LET props == SchemaOf(head).props IN
              /\ {o.key : o \in use} \subseteq DOMAIN props
              /\ Has(use, {"sent"}) => \A k \in DOMAIN props \ Keys(use, {"sent"}) : props[k].optional
        /\ edits = 0

Edit(d) == /\ edits < MaxEdits
           /\ head # Removed
           /\ d # head
           /\ head' = d
           /\ edits' = edits + 1
           /\ UNCHANGED <<base, use>>

\* The methods zod has for an expression of a kind.
MethodsOf(kind) ==
    {"optional", "nullable", "nullish", "default", "array", "or"}
    \cup CASE kind = "string" -> {"min", "max", "length", "nonempty", "trim", "email"}
           [] kind \in {"number", "integer"} -> {"min", "max", "gt", "lt", "int", "nonnegative"}
           [] kind = "array" -> {"min", "max", "nonempty", "element"}
           [] kind = "enum" -> {"exclude", "extract"}
           [] kind = "object" -> {"partial", "deepPartial", "extend", "merge"}
           [] OTHER -> {}

AppendCall == \E k \in DOMAIN head.fields, c \in Calls :
                 /\ head.fields[k].base # "decorated"
                 /\ c.m \in MethodsOf(Zod(head.fields[k]).kind)
                 /\ Edit([head EXCEPT !.fields[k].chain = Append(@, c)])
DropCall == \E k \in DOMAIN head.fields :
               /\ head.fields[k].base # "decorated" /\ head.fields[k].chain # <<>>
               /\ Edit([head EXCEPT !.fields[k].chain = Front(@)])
Decorate == \E k \in DOMAIN head.fields, c \in Decorators :
               /\ head.fields[k].base = "decorated"
               /\ Edit([head EXCEPT !.fields[k].chain = IF c \in Range(@) THEN SelectSeq(@, LAMBDA d : d # c)
                                                       ELSE Append(@, c)])
Extend == \E es \in Parents : head.base = "class" /\ Edit([head EXCEPT !.es = es])
Replace == \E k \in DOMAIN head.fields, e \in Bases : Edit([head EXCEPT !.fields[k] = e])
AddField == \E e \in Bases : NewKey \notin DOMAIN head.fields /\ Edit([head EXCEPT !.fields = Put(@, NewKey, e)])
DropField == \E k \in DOMAIN head.fields : Edit([head EXCEPT !.fields = Restrict(@, DOMAIN @ \ {k})])
Rename == \E k \in DOMAIN head.fields :
             NewKey \notin DOMAIN head.fields
             /\ Edit([head EXCEPT !.fields = Put(Restrict(@, DOMAIN @ \ {k}), NewKey, @[k])])
TopCall == \E c \in TopCalls : head.base = "object" /\ Edit([head EXCEPT !.chain = Append(@, c)])
DropContract == Edit(Removed)

Next == AppendCall \/ DropCall \/ Decorate \/ Extend \/ Replace \/ AddField \/ DropField \/ Rename \/ TopCall \/ DropContract

Spec == Init /\ [][Next]_vars

-----------------------------------------------------------------------------
(* What a schema means: the values it admits.  A value is [t, w, n, f, s,  *)
(* o]: its type, its text, its size or magnitude, whether it has the       *)
(* format, the elements of an array, and the properties of an object.      *)

Within(cons, x) ==
    \A k \in DOMAIN cons :
        CASE k \in {"minLength", "minItems", "min"} -> x.n >= cons[k]
          [] k \in {"maxLength", "maxItems", "max"} -> x.n <= cons[k]
          [] k = "exclusiveMin" -> x.n > cons[k]
          [] k = "exclusiveMax" -> x.n < cons[k]
          [] OTHER -> x.f

\* With open, properties that an object schema does not declare are not looked at.
RECURSIVE Admits(_, _, _)
Admits(s, x, open) ==
    \/ s.nullable /\ x.t = "null"
    \/ CASE s.kind = "any" -> TRUE
         [] s.kind = "enum" -> x.t = "string" /\ x.w \in s.values
         [] s.kind = "integer" -> x.t = "number" /\ x.n % 2 = 0 /\ Within(s.cons, x)
         [] s.kind = "array" -> x.t = "array" /\ Within(s.cons, x) /\ \A i \in DOMAIN x.s : Admits(s.items[1], x.s[i], open)
         [] s.kind = "tuple" -> /\ x.t = "array" /\ Len(x.s) = Len(s.items)
                                /\ \A i \in DOMAIN x.s : Admits(s.items[i], x.s[i], open)
         [] s.kind = "union" -> \E v \in s.variants : Admits(v, x, open)
         [] s.kind = "intersection" -> \A i \in DOMAIN s.items : Admits(s.items[i], x, open)
         [] s.kind = "object" -> /\ x.t = "object" /\ (open \/ DOMAIN x.o \subseteq DOMAIN s.props)
                                 /\ \A k \in DOMAIN s.props : IF k \in DOMAIN x.o THEN Admits(s.props[k], x.o[k], open)
                                                                ELSE s.props[k].optional
         [] s.kind \in {"record", "date"} -> FALSE
         [] OTHER -> x.t = s.kind /\ Within(s.cons, x)

\* What object o says of its property k: that it may be absent, that it may be x.
MayLack(o, k) == k \notin DOMAIN o.props \/ o.props[k].optional
MayHold(o, k, x, open) == k \in DOMAIN o.props /\ Admits(o.props[k], x, open)

\* Every object that conforms to a conforms to b; with open, b's reader does not
\* look at the properties b has not declared.
Conforms(a, b, open) ==
    /\ a.nullable => b.nullable
    /\ \A k \in DOMAIN a.props \cup DOMAIN b.props :
          /\ MayLack(a, k) => MayLack(b, k)
          /\ \A x \in Scalars :
                MayHold(a, k, x, FALSE) => MayHold(b, k, x, open) \/ (open /\ k \notin DOMAIN b.props)

\* What kind_change does not look at: limits that change with the kind, and the
\* literals of an enumeration that becomes a number or a boolean.
RECURSIVE BlindSpot(_, _)
BlindSpot(x, y) ==
    \/ x.kind # y.kind /\ x.cons # y.cons
    \/ x.kind = "enum" /\ y.kind \in {"number", "integer", "boolean"}
    \/ x.kind = "array" /\ y.kind = "array" /\ BlindSpot(x.items[1], y.items[1])
    \/ \E k \in DOMAIN x.props \cap DOMAIN y.props : BlindSpot(x.props[k], y.props[k])

IsObject(d) == d # Removed /\ SchemaOf(d).kind = "object"

(***************************************************************************)
(* A change the differ calls compatible is one: what the senders of an     *)
(* input contract sent is still admitted, and what the provider of an      *)
(* output contract now sends its readers can read.  Excepted is what the   *)
(* differ cannot see: schema compares no limits once the kinds differ, so  *)
(* an integer that becomes a number with a minimum is only "widened", and  *)
(* so is an enumeration of texts that becomes a number.                    *)
(***************************************************************************)
CompatibleIsSubstitutable ==
    LET a == SchemaOf(base.decl)
        b == SchemaOf(head)
        d == DirectionOf(base)
    IN IsObject(head) /\ Breaking(base.decl, head, d) = {} /\ ~BlindSpot(a, b) =>
         /\ d \in {"input", "bidirectional"} => Conforms(a, b, FALSE)
         /\ d \in {"output", "bidirectional"} => Conforms(b, a, TRUE)

\* A consumer u written for schema a works with schema b: the literal it writes is still
\* admitted, and of a contract that is not pure input every key it reads holds what it held.
WorksWith(u, a, b, d) ==
    LET sent == Keys(u, {"sent"})
        read == {o.key : o \in {x \in u : x.how \notin {"sent"} \cup (IF sent # {} THEN {"forwarded"} ELSE {})}}
    IN /\ sent # {} /\ ~Has(u, {"literal spread"}) =>
             /\ \A k \in DOMAIN b.props \ sent : MayLack(b, k)
             /\ \A k \in sent, x \in Scalars : MayHold(a, k, x, FALSE) => MayHold(b, k, x, FALSE)
       /\ d # "input" =>
             \A k \in read :
                 /\ MayLack(b, k) => MayLack(a, k)
                 /\ \A x \in Scalars : MayHold(b, k, x, FALSE) => MayHold(a, k, x, TRUE)

\* The diff verifies the consumer, which has no use the projection would not notice.
Verified(diff) == diff.consumer = "verified" /\ (diff.breaking = {} \/ ~Has(use, UNNOTICED))

(***************************************************************************)
(* A consumer the diff verifies is not broken, even by a change that       *)
(* breaks others: the literal it writes is still admitted, and of a        *)
(* contract that is not pure input every key it reads still holds what it  *)
(* was written for, by whichever road it reads it: also a key that is read *)
(* where a value went that it spread, indexed, iterated or handed on.      *)
(* Excepted is what projection does not notice: with breaking changes a    *)
(* consumer that returns the value, or reads it under another name, is     *)
(* verified whatever it reads there (1838-1846, 1888-1889).                *)
(***************************************************************************)
VerifiedConsumerSafe ==
    LET a == SchemaOf(base.decl)
        b == SchemaOf(head)
        d == DirectionOf(base)
    IN IsObject(head) /\ ~BlindSpot(a, b) /\ Verified(RunDiff(base.decl, head, d, use)) => WorksWith(use, a, b, d)
=============================================================================
