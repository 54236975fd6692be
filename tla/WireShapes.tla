----------------------------- MODULE WireShapes -----------------------------
(***************************************************************************)
(* How the generated wire types are written and read.                      *)
(*                                                                         *)
(* A struct of the generated code is a table of its fields: the name on    *)
(* the wire, the type of the field, and how serde treats it when it is     *)
(* empty.  Write is Serialize, Readable says whether Deserialize accepts a *)
(* JSON value, and Parsed is what it then returns.  No generated struct    *)
(* denies unknown fields, `type' and `method' are plain strings, and an    *)
(* untagged enum is read as the FIRST variant that accepts the value.      *)
(*                                                                         *)
(* A JSON value says which kind it is, because handlers supply free JSON;  *)
(* a string, number or boolean is a token.  A Rust value is read along     *)
(* its shape: Option is a sequence of length at most one, Vec a sequence,  *)
(* a map a function on strings, an enum with payload a record with the     *)
(* name of its variant.                                                    *)
(***************************************************************************)
EXTENDS Naturals, Sequences

(* As in module TLC, whose definitions are out of a proof's reach: g where  *)
(* f says nothing, and the function that says v of k.                      *)
f @@ g == [x \in DOMAIN f \union DOMAIN g |-> IF x \in DOMAIN f THEN f[x] ELSE g[x]]
k :> v == [x \in {k} |-> v]

Token(v) == [json |-> "token", of |-> v]
List(s)  == [json |-> "list", items |-> s]
Obj(f)   == [json |-> "object", fields |-> f]
JsonNull == [json |-> "null"]

IsObject(j) == j.json = "object"
Has(j, f)   == IsObject(j) /\ f \in DOMAIN j.fields

(* Map::insert on an object, and entry().or_insert(). *)
Put(j, k, v)     == Obj((k :> v) @@ j.fields)
OrInsert(j, k, v) == IF Has(j, k) THEN j ELSE Put(j, k, v)

None    == <<>>
Some(v) == <<v>>
IsEmpty(v) == DOMAIN v = {}
EmptyMap == [f \in {} |-> None]

Scalar == [shape |-> "scalar"]
Json   == [shape |-> "json"]
OneOf(names)     == [shape |-> "enum", names |-> names]
ListOf(s)        == [shape |-> "list", of |-> s]
BagOf(s)         == [shape |-> "bag", of |-> s]
Bag              == BagOf(Json)
Untagged(vs)     == [shape |-> "untagged", variants |-> vs]
Struct(fields)   == [shape |-> "struct", fields |-> fields]

(* Fields: always written; an Option, skipped when None; an Option without *)
(* a skip attribute, written as null; a Vec or map that is skipped when    *)
(* empty; and the flattened map that collects every other key.             *)
Fields(how, table) == [f \in DOMAIN table |-> [how |-> how, of |-> table[f]]]
Need(table)     == Fields("need", table)
Maybe(table)    == Fields("maybe", table)
Nullable(table) == Fields("nullable", table)
Filled(table)   == Fields("filled", table)
Rest            == "extra" :> [how |-> "rest", of |-> Bag]

(***************************************************************************)
(* One level of a shape is written and read here: into which parts a value  *)
(* falls, each of a shape of its own, and what is made of the parts when    *)
(* they are written or read.  No type of the protocol is deeper than        *)
(* Write9, Readable18 and Parsed9 go (a prompt's message; a question with a *)
(* conversation in it), and what serde does is to go as deep as a type does. *)
(***************************************************************************)
Part(shape, value) == [of |-> shape, value |-> value]

(* Serialize: the fields of a struct that are written under their names; a  *)
(* None among them is a null. *)
Written(s, v) ==
  LET Skipped(f) == s.fields[f].how \in {"maybe", "filled"} /\ IsEmpty(v[f])
  IN {f \in DOMAIN s.fields : s.fields[f].how # "rest" /\ ~Skipped(f)}
ValueParts(s, v) ==
  LET IsOption(f) == s.fields[f].how \in {"maybe", "nullable"}
  IN CASE s.shape \in {"list", "bag"} -> [k \in DOMAIN v |-> Part(s.of, v[k])]
       [] s.shape = "untagged" ->
            [i \in {i \in DOMAIN s.variants : s.variants[i][1] = v.variant} |->
               Part(s.variants[i][2], v.value)]
       [] s.shape = "struct" ->
            [f \in {f \in Written(s, v) : s.fields[f].how = "nullable" => ~IsEmpty(v[f])} |->
               Part(s.fields[f].of, IF IsOption(f) THEN v[f][1] ELSE v[f])]
       [] OTHER -> EmptyMap
Assembled(s, v, parts) ==
  CASE s.shape \in {"scalar", "enum"} -> Token(v)
    [] s.shape = "json" -> v
    [] s.shape = "list" -> List(parts)
    [] s.shape = "bag"  -> Obj(parts)
    [] s.shape = "untagged" -> parts[CHOOSE i \in DOMAIN parts : TRUE]
    [] s.shape = "struct" ->
         Obj(parts @@ [f \in Written(s, v) |-> JsonNull]
             @@ IF "extra" \in DOMAIN s.fields THEN v.extra ELSE EmptyMap)
WriteAt(WritePart(_, _), s, v) ==
  LET From(parts) ==
        Assembled(s, v, [k \in DOMAIN parts |-> WritePart(parts[k].of, parts[k].value)])
  IN From(ValueParts(s, v))

(* Deserialize: a null stands for an Option that is None, and an untagged   *)
(* enum is tried as the variants given. *)
JsonParts(s, j, variants) ==
  LET IsNone(f) == s.fields[f].how \in {"maybe", "nullable"} /\ j.fields[f].json = "null"
  IN CASE s.shape = "list" /\ j.json = "list" -> [i \in DOMAIN j.items |-> Part(s.of, j.items[i])]
       [] s.shape = "bag" /\ IsObject(j) -> [k \in DOMAIN j.fields |-> Part(s.of, j.fields[k])]
       [] s.shape = "untagged" -> [i \in variants |-> Part(s.variants[i][2], j)]
       [] s.shape = "struct" ->
            [f \in {f \in DOMAIN s.fields : s.fields[f].how # "rest" /\ Has(j, f) /\ ~IsNone(f)} |->
               Part(s.fields[f].of, j.fields[f])]
       [] OTHER -> EmptyMap

(* Whether it accepts the JSON value, of which the parts in `read' are      *)
(* readable out of `parts'. *)
Accepted(s, j, parts, read) ==
  CASE s.shape = "scalar" -> j.json = "token"
    [] s.shape = "enum"   -> j.json = "token" /\ j.of \in s.names
    [] s.shape = "json"   -> TRUE
    [] s.shape = "list"   -> j.json = "list" /\ read = parts
    [] s.shape = "bag"    -> IsObject(j) /\ read = parts
    [] s.shape = "untagged" -> read # {}
    [] s.shape = "struct" ->
         /\ IsObject(j) /\ \A f \in DOMAIN s.fields : s.fields[f].how = "need" => Has(j, f)
         /\ read = parts
Variants(s) == IF s.shape = "untagged" THEN DOMAIN s.variants ELSE {}
ReadableAt(ReadablePart(_, _), s, j) ==
  LET From(parts) ==
        Accepted(s, j, DOMAIN parts,
                 {k \in DOMAIN parts : ReadablePart(parts[k].of, parts[k].value)})
  IN From(JsonParts(s, j, Variants(s)))

(* What it returns for a value it accepts, an untagged enum as its first    *)
(* variant that does. *)
First(numbers) == {i \in numbers : \A k \in numbers : i <= k}
Built(s, j, parts) ==
  LET Field(f) == CASE s.fields[f].how = "rest" ->
                         [k \in DOMAIN j.fields \ DOMAIN s.fields |-> j.fields[k]]
                    [] s.fields[f].how # "rest" /\ f \notin DOMAIN parts -> None
                    [] s.fields[f].how \in {"maybe", "nullable"} /\ f \in DOMAIN parts -> Some(parts[f])
                    [] OTHER -> parts[f]
  IN CASE s.shape \in {"scalar", "enum"} -> j.of
       [] s.shape = "json" -> j
       [] s.shape \in {"list", "bag"} -> parts
       [] s.shape = "untagged" ->
            LET i == CHOOSE i \in DOMAIN parts : TRUE
            IN [variant |-> s.variants[i][1], value |-> parts[i]]
       [] s.shape = "struct" -> [f \in DOMAIN s.fields |-> Field(f)]
ParsedAt(ReadablePart(_, _), ParsedPart(_, _), s, j) ==
  LET From(parts) ==
        Built(s, j, [k \in DOMAIN parts |-> ParsedPart(parts[k].of, parts[k].value)])
  IN From(JsonParts(s, j, First({i \in Variants(s) : ReadablePart(s.variants[i][2], j)})))

Write0(s, v)    == JsonNull
Readable0(s, j) == FALSE
Parsed0(s, j)   == None
Write1(s, v) == WriteAt(Write0, s, v)
Write2(s, v) == WriteAt(Write1, s, v)
Write3(s, v) == WriteAt(Write2, s, v)
Write4(s, v) == WriteAt(Write3, s, v)
Write5(s, v) == WriteAt(Write4, s, v)
Write6(s, v) == WriteAt(Write5, s, v)
Write7(s, v) == WriteAt(Write6, s, v)
Write8(s, v) == WriteAt(Write7, s, v)
Write9(s, v) == WriteAt(Write8, s, v)
Readable1(s, j) == ReadableAt(Readable0, s, j)
Readable2(s, j) == ReadableAt(Readable1, s, j)
Readable3(s, j) == ReadableAt(Readable2, s, j)
Readable4(s, j) == ReadableAt(Readable3, s, j)
Readable5(s, j) == ReadableAt(Readable4, s, j)
Readable6(s, j) == ReadableAt(Readable5, s, j)
Readable7(s, j) == ReadableAt(Readable6, s, j)
Readable8(s, j) == ReadableAt(Readable7, s, j)
Readable9(s, j) == ReadableAt(Readable8, s, j)
Readable10(s, j) == ReadableAt(Readable9, s, j)
Readable11(s, j) == ReadableAt(Readable10, s, j)
Readable12(s, j) == ReadableAt(Readable11, s, j)
Readable13(s, j) == ReadableAt(Readable12, s, j)
Readable14(s, j) == ReadableAt(Readable13, s, j)
Readable15(s, j) == ReadableAt(Readable14, s, j)
Readable16(s, j) == ReadableAt(Readable15, s, j)
Readable17(s, j) == ReadableAt(Readable16, s, j)
Readable18(s, j) == ReadableAt(Readable17, s, j)
Parsed1(s, j) == ParsedAt(Readable0, Parsed0, s, j)
Parsed2(s, j) == ParsedAt(Readable1, Parsed1, s, j)
Parsed3(s, j) == ParsedAt(Readable2, Parsed2, s, j)
Parsed4(s, j) == ParsedAt(Readable3, Parsed3, s, j)
Parsed5(s, j) == ParsedAt(Readable4, Parsed4, s, j)
Parsed6(s, j) == ParsedAt(Readable5, Parsed5, s, j)
Parsed7(s, j) == ParsedAt(Readable6, Parsed6, s, j)
Parsed8(s, j) == ParsedAt(Readable7, Parsed7, s, j)
Parsed9(s, j) == ParsedAt(Readable8, Parsed8, s, j)

Write(s, v)    == Write9(s, v)
Readable(s, j) == Readable18(s, j)
Parsed(s, j)   == Parsed9(s, j)

(* A Rust value with some of its fields left empty: all of them filled,    *)
(* none of them, each one alone empty. *)
Variations(full, bare) ==
  {full, bare} \union {[full EXCEPT ![f] = bare[f]] : f \in DOMAIN bare \intersect DOMAIN full}
==============================================================================
