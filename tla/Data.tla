-------------------------------- MODULE Data --------------------------------
(***************************************************************************)
(* Unstructured values and the functions on them (pkg/data, and            *)
(* pkg/data/convert).  A value is a record whose one field tells its Go    *)
(* type.  A float64 and a json.Number are told by the number of halves in  *)
(* them.  Strings are members of a small set, and what the string          *)
(* functions of Go do to them is given by the tables Trim, Lower, Number   *)
(* and Decimal; map keys that are array indices are given by Index.        *)
(***************************************************************************)
EXTENDS Integers, Sequences, FiniteSets

CONSTANTS Trim,    \* strings.TrimSpace, where it changes a string
          Lower,   \* strings.ToLower, where it changes a string
          Number,  \* strconv.ParseInt: the strings that are numbers
          Decimal, \* strconv.ParseFloat: the strings that are numbers, in halves
          Sprint,  \* fmt.Sprint of the numbers in use, by their halves
          Index    \* strconv.Atoi of the keys that are numbers

Nil == [nil |-> TRUE]
Str(s) == [str |-> s]
Int64(n) == [int |-> n]
Float64(h) == [float |-> h]
JSONNumber(h) == [number |-> h]
Bool(b) == [bool |-> b]
Map(f) == [map |-> f]            \* map[string]interface{}
DataObject(f) == [object |-> f]  \* data.Object, which is no map[string]interface{}
List(s) == [list |-> s]
Strings(s) == [strings |-> s]    \* []string

IsMap(v) == "map" \in DOMAIN v
IsList(v) == "list" \in DOMAIN v
IsStr(v) == "str" \in DOMAIN v

NoMap == <<>>

Over(table, s) == IF s \in DOMAIN table THEN table[s] ELSE s

With(f, k, v) == [x \in DOMAIN f \cup {k} |-> IF x = k THEN v ELSE f[x]]
Without(f, k) == [x \in DOMAIN f \ {k} |-> f[x]]

\* The map a value is, or the nil map (a type assertion that fails).
ToMapInterface(v) == IF IsMap(v) THEN v.map ELSE NoMap

ToInterfaceSlice(v) == IF IsList(v) THEN v.list ELSE <<>>

\* []map[string]interface{}, or nil when an item is not a map.
ToMapSlice(v) ==
    LET s == ToInterfaceSlice(v) IN
    IF \A n \in DOMAIN s : IsMap(s[n]) THEN [n \in DOMAIN s |-> s[n].map] ELSE <<>>

-----------------------------------------------------------------------------
(***************************************************************************)
(* values.go                                                               *)
(***************************************************************************)

\* What a lookup returns.
Found(v) == [ok |-> TRUE, val |-> v]
Missing == [ok |-> FALSE, val |-> Nil]

RECURSIVE GetValue(_, _)
GetValue(data, keys) ==
    IF keys = <<>> \/ Head(keys) \notin DOMAIN data THEN Missing
    ELSE IF Len(keys) = 1 THEN Found(data[Head(keys)])
    ELSE GetValue(ToMapInterface(data[Head(keys)]), Tail(keys))

GetValueN(data, keys) == GetValue(data, keys).val

\* The item of a list or of a []string that key names.
Item(v, key) ==
    LET s == IF IsList(v) THEN v.list ELSE IF "strings" \in DOMAIN v THEN v.strings ELSE <<>> IN
    IF key \in DOMAIN Index /\ Index[key] \in 0 .. Len(s) - 1
    THEN Found(IF IsList(v) THEN s[Index[key] + 1] ELSE Str(s[Index[key] + 1]))
    ELSE Missing

RECURSIVE GetValueFromAny(_, _)
GetValueFromAny(v, keys) ==
    LET step == IF IsMap(v)
                THEN IF Head(keys) \in DOMAIN v.map THEN Found(v.map[Head(keys)]) ELSE Missing
                ELSE Item(v, Head(keys))
    IN IF keys = <<>> THEN Missing
       ELSE IF Len(keys) = 1 \/ ~step.ok THEN step
       ELSE GetValueFromAny(step.val, Tail(keys))

\* The map after the removal; the value removed is that of GetValue before it.
RECURSIVE RemoveValue(_, _)
RemoveValue(data, keys) ==
    IF keys = <<>> \/ Head(keys) \notin DOMAIN data THEN data
    ELSE IF Len(keys) = 1 THEN Without(data, Head(keys))
    ELSE IF ~IsMap(data[Head(keys)]) THEN data
    ELSE With(data, Head(keys), Map(RemoveValue(data[Head(keys)].map, Tail(keys))))

\* A path through a value that is not a map is not written; a missing step is
\* created as an empty map.
RECURSIVE PutValue(_, _, _)
PutValue(data, val, keys) ==
    LET k == Head(keys)
        sub == IF k \in DOMAIN data THEN data[k] ELSE Map(NoMap)
    IN IF Len(keys) = 1 THEN With(data, k, val)
       ELSE IF ~IsMap(sub) THEN data
       ELSE With(data, k, Map(PutValue(sub.map, val, Tail(keys))))

-----------------------------------------------------------------------------
(***************************************************************************)
(* merge.go                                                                *)
(***************************************************************************)

bothMaps(l, r) == IsMap(l) /\ IsMap(r)
bothSlices(l, r) == IsList(l) /\ IsList(r)

At(f, k) == IF k \in DOMAIN f THEN f[k] ELSE Nil

RECURSIVE MergeMaps(_, _)
MergeMaps(base, overlay) ==
    [k \in DOMAIN base \cup DOMAIN overlay |->
        IF k \notin DOMAIN overlay THEN base[k]
        ELSE IF bothMaps(At(base, k), overlay[k])
             THEN Map(MergeMaps(base[k].map, overlay[k].map))
             ELSE overlay[k]]

\* Lists are concatenated at the top level only: below it MergeMaps replaces.
MergeMapsConcatSlice(base, overlay) ==
    [k \in DOMAIN base \cup DOMAIN overlay |->
        IF k \notin DOMAIN overlay THEN base[k]
        ELSE IF bothMaps(At(base, k), overlay[k])
             THEN Map(MergeMaps(base[k].map, overlay[k].map))
             ELSE IF bothSlices(At(base, k), overlay[k])
             THEN List(base[k].list \o overlay[k].list)
             ELSE overlay[k]]

-----------------------------------------------------------------------------
(***************************************************************************)
(* data.go                                                                 *)
(***************************************************************************)

MapAt(o, names) == ToMapInterface(GetValueN(o, names))

\* Object.Slice: an item that is not a map becomes the nil map.
SliceAt(o, names) ==
    LET s == ToInterfaceSlice(GetValueN(o, names)) IN [n \in DOMAIN s |-> ToMapInterface(s[n])]

-----------------------------------------------------------------------------
(***************************************************************************)
(* convert.go                                                              *)
(***************************************************************************)

Singular(v) ==
    IF IsList(v) THEN IF v.list = <<>> THEN Nil ELSE v.list[1]
    ELSE IF "strings" \in DOMAIN v THEN IF v.strings = <<>> THEN Nil ELSE Str(v.strings[1])
    ELSE v

\* The halves in a number, <<>> for what is none.
Halves(v) ==
    CASE "int" \in DOMAIN v -> <<2 * v.int>>
      [] "float" \in DOMAIN v -> <<v.float>>
      [] "number" \in DOMAIN v -> <<v.number>>
      [] OTHER -> <<>>

\* The string of a scalar; of a map fmt.Sprint makes one that is no token here.
ToStringNoTrim(value) ==
    LET v == Singular(value) IN
    IF IsStr(v) THEN v.str
    ELSE IF Halves(v) # <<>> THEN Sprint[Halves(v)[1]]
    ELSE IF "bool" \in DOMAIN v THEN IF v.bool THEN "true" ELSE "false"
    ELSE IF v = Nil THEN "" ELSE "map[]"

ToString(value) == Over(Trim, ToStringNoTrim(value))

ToBool(value) ==
    LET v == Singular(value) IN
    IF "bool" \in DOMAIN v THEN v.bool
    ELSE Over(Lower, ToString(v)) \in {"true", "t", "yes", "y"}

\* int64 of a float: towards zero.
Truncated(h) == IF h < 0 THEN -(-h \div 2) ELSE h \div 2

\* ToNumber and ToFloat: the number, or Missing for an error.
ToNumber(value) ==
    LET v == Singular(value) IN
    IF Halves(v) # <<>> THEN Found(Int64(Truncated(Halves(v)[1])))
    ELSE IF ToString(v) \in DOMAIN Number THEN Found(Int64(Number[ToString(v)]))
    ELSE Missing

ToFloat(value) ==
    LET v == Singular(value) IN
    IF {"float", "number"} \cap DOMAIN v # {} THEN Found(Float64(Halves(v)[1]))
    ELSE IF ToString(v) \in DOMAIN Decimal THEN Found(Float64(Decimal[ToString(v)]))
    ELSE Missing

\* EncodeToMap of a data.Object goes through JSON, all of its values with it:
\* maps and lists come back as plain ones, numbers as json.Number.
RECURSIVE Encoded(_)
Encoded(v) ==
    LET EncodedMap(f) == Map([k \in DOMAIN f |-> Encoded(f[k])]) IN
    CASE IsMap(v) -> EncodedMap(v.map)
      [] "object" \in DOMAIN v -> EncodedMap(v.object)
      [] IsList(v) -> List([n \in DOMAIN v.list |-> Encoded(v.list[n])])
      [] "strings" \in DOMAIN v -> List([n \in DOMAIN v.strings |-> Str(v.strings[n])])
      [] Halves(v) # <<>> -> JSONNumber(Halves(v)[1])
      [] OTHER -> v

EncodeToMap(o) == Encoded(DataObject(o)).map

ToStringSlice(v) ==
    IF "strings" \in DOMAIN v THEN v.strings
    ELSE IF IsList(v) THEN [n \in DOMAIN v.list |-> ToString(v.list[n])]
    ELSE IF IsStr(v) THEN <<v.str>>
    ELSE <<>>
=============================================================================
