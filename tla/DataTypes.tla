------------------------------ MODULE DataTypes ------------------------------
(***************************************************************************)
(* src/src/data-types: what `digest` of each type makes of the value of a  *)
(* parameter, as the set of its results: none where it throws, for sure or *)
(* in a DTO's constructor.                                                 *)
(*                                                                         *)
(* A value is one atom, or an array of whatever atoms: the code asks the   *)
(* same of each of its elements.                                           *)
(***************************************************************************)
EXTENDS Naturals

\* Texts, each named after an example of those the code treats alike.
Whole == {"'1'", "'12'"}
Numeric == Whole \cup {"'1.5'", "'19.0001'"}   \* isNumeric()
Truths == {"'1'", "'yes'", "'true'"}
Stamps == {"'1.5'", "'1980-06-09'"}            \* numeric once stripped, Date.parse reads them
Numbers == Numeric \cup {"'[1,2]'"}            \* numeric between the commas
Objects == {"'{}'"}
Lists == {"'[{}]'", "'[null]'", "'[1,2]'"}
Texts == Numbers \cup Truths \cup Stamps \cup Objects \cup Lists \cup {"'{e.g.:'", "'null'", "'word'"}

\* The other atoms of JSON: null and lists are met in arrays only.
Others == {"boolean", "integer", "float", "object", "null", "list"}

One(atom) == [array |-> FALSE, of |-> {atom}]
Many(atoms) == [array |-> TRUE, of |-> atoms]
Values == {v \in [array : BOOLEAN, of : SUBSET (Texts \cup Others)] :
             v.array \/ \E a \in Texts \cup (Others \ {"null", "list"}) : v.of = {a}}

Is(v, atoms) == ~v.array /\ v.of \subseteq atoms
All(v, atoms) == v.array /\ v.of \subseteq atoms
If(accepted, result) == IF accepted THEN {result} ELSE {}

-------------------------------------------------------------------------------
Types == {"Boolean", "Date", "DateTime", "Number", "NumberArray", "Object", "ObjectArray",
          "Password", "String", "StringArray", "Http201", "Http202", "Http204"}

BooleanType(v) == If(Is(v, Truths \cup {"boolean"}), One("boolean"))
NumberType(v) == If(Is(v, Numeric \cup {"integer", "float"}), One("number"))
StringType(v) == If(Is(v, Texts), One("string"))

\* An integer is a number of milliseconds; what Date.parse cannot read is
\* an invalid date.
Dated == Whole \cup Stamps \cup {"integer"}
DateTimeUnchecked(v) == If(Is(v, Dated \cup Numeric),
                           One(IF Is(v, Dated) THEN "date" ELSE "invalid date"))
DateTimeType(v) == If(Is(v, Dated), One("date"))

StringArrayType(v) == If(Is(v, Texts), Many({"string"}))
                        \cup If(All(v, Texts), Many({"string" : a \in v.of}))
NumberArrayType(v) == If(Is(v, Numbers), Many({"number"}))
                        \cup If(All(v, Numeric \cup {"integer", "float"}),
                                Many({"number" : a \in v.of}))

Boxed(dto) == One(IF dto THEN "dto" ELSE "object")
ObjectType(v, dto) == If(Is(v, Objects \cup {"object"}), Boxed(dto))

(* Elements that are strings are parsed, and may hold any JSON; the elements *)
(* of a list in a string may be anything whose typeof is 'object'.           *)
Parsed == [a \in (Texts \ {"'yes'", "'1980-06-09'", "'{e.g.:'", "'word'"}) \cup {"object"} |->
             IF a \in Numeric THEN "number"
             ELSE IF a = "'true'" THEN "boolean"
             ELSE IF a = "'null'" THEN "null"
             ELSE IF a \in Lists THEN "list" ELSE "object"]
Listed(v) == If(All(v, DOMAIN Parsed), {Parsed[a] : a \in v.of})
               \cup If(Is(v, Objects \cup {"'[{}]'"}), {"object"})
               \cup If(Is(v, {"'[null]'"}), {"null"})
ObjectArrayType(v, dto) ==
  {Many(IF dto THEN {"dto" : a \in as} ELSE as) : as \in Listed(v)}

\* DataTypes.get(type).digest: there is no instance for the types that only
\* a response may have, so that asking it throws as well.
Digest(type, dto, v) ==
  CASE type = "Boolean" -> BooleanType(v)
    [] type = "Number" -> NumberType(v)
    [] type \in {"Date", "DateTime"} -> DateTimeType(v)
    [] type \in {"String", "Password"} -> StringType(v)
    [] type = "StringArray" -> StringArrayType(v)
    [] type = "NumberArray" -> NumberArrayType(v)
    [] type = "Object" -> ObjectType(v, dto)
    [] type = "ObjectArray" -> ObjectArrayType(v, dto)
    [] OTHER -> {}

\* What an action may rely on.  Only a DTO makes the elements of an
\* ObjectArray objects.
Promised(type, dto) ==
  CASE type = "Boolean" -> {One("boolean")}
    [] type = "Number" -> {One("number")}
    [] type \in {"Date", "DateTime"} -> {One("date")}
    [] type \in {"String", "Password"} -> {One("string")}
    [] type = "StringArray" -> {Many(as) : as \in SUBSET {"string"}}
    [] type = "NumberArray" -> {Many(as) : as \in SUBSET {"number"}}
    [] type = "Object" -> {Boxed(dto)}
    [] type = "ObjectArray" ->
         {Many(as) : as \in SUBSET (IF dto THEN {"dto"}
                                    ELSE {"object", "number", "boolean", "null", "list"})}
    [] OTHER -> {}
===============================================================================
