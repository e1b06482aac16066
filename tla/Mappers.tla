------------------------------ MODULE Mappers -------------------------------
(***************************************************************************)
(* Mappers between the internal and the external form of an object         *)
(* (pkg/schemas/mapper.go, pkg/schemas/mappers).  A mapper is a record     *)
(* whose "op" is its Go type and whose other fields are the struct's.      *)
(*                                                                         *)
(* The registry of schemas (Schemas of schemas.go) is a record: "schemas"  *)
(* is the list s.schemas, to which is only ever appended, and "byID" maps  *)
(* an ID to a place in it, as both hold the same pointers.  A type of a    *)
(* field is a tuple: <<"string">>, <<"array", T>>, <<"map", T>>,           *)
(* <<"schema", id>>.                                                       *)
(***************************************************************************)
EXTENDS Data

LOCAL S == INSTANCE SequencesExt

NoType == <<"">>
NoMapper == [none |-> TRUE]

\* Field of types.go; a limit is <<>> or <<n>>.
ZeroField == [type |-> NoType, default |-> Nil, nullable |-> FALSE, create |-> FALSE,
              update |-> FALSE, writeOnly |-> FALSE, required |-> FALSE,
              minLength |-> <<>>, maxLength |-> <<>>, min |-> <<>>, max |-> <<>>,
              options |-> <<>>, validChars |-> "", invalidChars |-> ""]

IsArrayType(t) == t[1] = "array"
IsMapType(t) == t[1] = "map"
SubType(t) == IF Len(t) = 2 /\ t[1] # "schema" THEN t[2] ELSE t

\* The name of a type as doSchema is asked for it: only a schema is found.
NameOf(t) == IF t[1] = "schema" THEN t[2] ELSE ""

\* doSchema: by ID, or the first schema of the list whose ID or plural is the
\* name without regard to case.  0 when there is none.
doSchema(reg, name) ==
    LET eq(a) == Over(Lower, a) = Over(Lower, name)
        hits == {n \in DOMAIN reg.schemas : eq(reg.schemas[n].id) \/ eq(reg.schemas[n].plural)}
    IN IF name \in DOMAIN reg.byID THEN reg.byID[name]
       ELSE IF hits = {} THEN 0 ELSE CHOOSE n \in hits : \A k \in hits : n <= k

FieldOf(fields, name) == IF name \in DOMAIN fields THEN fields[name] ELSE ZeroField

\* getField of move.go: the schema a path leads to ("at", 0 for the schema the
\* walk began at), and its field.
RECURSIVE getField(_, _, _, _)
getField(fields, at, reg, path) ==
    LET f == FieldOf(fields, Head(path))
        t == IF IsArrayType(f.type) THEN SubType(f.type) ELSE f.type
        n == doSchema(reg, NameOf(t))
    IN IF Len(path) = 1
       THEN [err |-> FALSE, at |-> at, name |-> Head(path), ok |-> Head(path) \in DOMAIN fields, field |-> f]
       ELSE IF n = 0 THEN [err |-> TRUE]
       ELSE getField(reg.schemas[n].fields, n, reg, Tail(path))

\* ModifySchema returns the schema, the registry (mappers reach into the
\* schemas of sub-objects), the mapper with the state it keeps, and whether it
\* failed; "locks" tells that it called Schemas.Schema, which takes the lock.
Modified(m, s, reg) == [m |-> m, s |-> s, reg |-> reg, err |-> FALSE, locks |-> FALSE]
ModifiedBoth(m, x) == Modified(m, x.s, x.reg)
Refused(m, s, reg) == [Modified(m, s, reg) EXCEPT !.err = TRUE]

SetFields(s, reg, at, fields) ==
    IF at = 0 THEN [s |-> [s EXCEPT !.fields = fields], reg |-> reg]
    ELSE [s |-> s, reg |-> [reg EXCEPT !.schemas[at].fields = fields]]

FieldsAt(s, reg, at) == IF at = 0 THEN s.fields ELSE reg.schemas[at].fields

-----------------------------------------------------------------------------
(***************************************************************************)
(* move.go                                                                 *)
(***************************************************************************)

moveValue(d, from, to) ==
    LET v == GetValue(d, from) IN
    IF v.ok THEN PutValue(RemoveValue(d, from), v.val, to) ELSE d

moveFromInternal(m, d) == moveValue(d, m.from, m.to)
moveToInternal(m, d) == moveValue(d, m.to, m.from)

\* The source field is deleted under the whole path m.From, so that one of a
\* sub-schema stays.
PutField(x, to, field) ==
    SetFields(x.s, x.reg, to.at, With(FieldsAt(x.s, x.reg, to.at), to.name, field))

moveField(m, s, reg, from, to) ==
    LET one == IF Len(m.from) = 1 /\ ~m.nodelete
               THEN SetFields(s, reg, from.at, Without(FieldsAt(s, reg, from.at), m.from[1]))
               ELSE [s |-> s, reg |-> reg]
        locks == Len(m.from) > 1 \/ Len(m.to) > 1
    IN IF from.err THEN [Refused(m, s, reg) EXCEPT !.locks = locks]
       ELSE IF ~from.ok THEN [Modified(m, s, reg) EXCEPT !.err = ~m.optional, !.locks = locks]
       ELSE IF to.err \/ (to.ok /\ Len(m.to) = 1 /\ ~m.dest)
       THEN [Refused(m, s, reg) EXCEPT !.locks = locks]
       ELSE [ModifiedBoth(m, IF m.dest THEN one ELSE PutField(one, to, from.field)) EXCEPT !.locks = locks]

moveModify(m, s, reg) ==
    moveField(m, s, reg, getField(s.fields, 0, reg, m.from), getField(s.fields, 0, reg, m.to))

-----------------------------------------------------------------------------
(***************************************************************************)
(* embed.go                                                                *)
(***************************************************************************)

embedFromInternal(m, d) ==
    LET sub == MapAt(d, <<m.field>>)
        moved == DOMAIN sub \cap m.embedded
    IN [k \in (DOMAIN d \ {m.field}) \cup (moved \ {m.field}) |->
           IF k \in moved THEN sub[k] ELSE d[k]]

embedToInternal(m, d) ==
    LET sub == [k \in DOMAIN d \cap m.embedded |-> d[k]]
        rest == [k \in DOMAIN d \ m.embedded |-> d[k]]
    IN IF DOMAIN sub # {} THEN With(rest, m.field, Map(sub))
       ELSE IF m.emptyOk THEN With(rest, m.field, Nil) ELSE rest

embedModify(m, s, reg) ==
    LET n == doSchema(reg, NameOf(FieldOf(s.fields, m.field).type))
        all == reg.schemas[n].fields
        names == DOMAIN all \ m.ignore
        clash == (names \ {m.field}) \cap DOMAIN s.fields
        kept == IF m.field \in names THEN s.fields ELSE Without(s.fields, m.field)
        field(k) == IF m.readOnly THEN [all[k] EXCEPT !.create = FALSE, !.update = FALSE] ELSE all[k]
    IN IF m.field \notin DOMAIN s.fields THEN [Modified(m, s, reg) EXCEPT !.err = ~m.optional]
       ELSE IF n = 0
       THEN [Modified([m EXCEPT !.embedded = {}], s, reg) EXCEPT !.err = ~m.optional, !.locks = TRUE]
       ELSE IF clash # {} THEN [Refused(m, s, reg) EXCEPT !.locks = TRUE]
       ELSE [Modified([m EXCEPT !.embedded = names],
                      [s EXCEPT !.fields = [k \in DOMAIN kept \cup names |->
                                               IF k \in names THEN field(k) ELSE kept[k]]], reg)
                EXCEPT !.locks = TRUE]

-----------------------------------------------------------------------------
(***************************************************************************)
(* slice_to_map.go                                                         *)
(***************************************************************************)

\* The items become values of the map as the data.Object that Slice made of
\* them, a nil one of an item that was no map.
sliceFromInternal(m, d) ==
    LET given == ToInterfaceSlice(GetValueN(d, <<m.field>>))
        items == SliceAt(d, <<m.field>>)
        name(i) == IF m.key \in DOMAIN i /\ IsStr(i[m.key]) THEN i[m.key].str ELSE ""
        names == {name(items[n]) : n \in DOMAIN items}
        last(k) == CHOOSE n \in DOMAIN items :
                      name(items[n]) = k /\ \A j \in DOMAIN items : name(items[j]) = k => j <= n
    IN IF items = <<>> THEN d
       ELSE With(d, m.field, Map([k \in names |->
                IF IsMap(given[last(k)]) THEN DataObject(Without(items[last(k)], m.key)) ELSE Nil]))

\* The map is walked in any order; the order of the list is not looked at.  A
\* data.Object fails the type assertion: what FromInternal has left is skipped,
\* unless it has been encoded since.
sliceToInternal(m, d) ==
    LET datas == MapAt(d, <<m.field>>)
        items == {k \in DOMAIN datas : IsMap(datas[k])}
        order == S!SetToSeq(items)
    IN IF ~IsMap(GetValueN(d, <<m.field>>)) THEN d
       ELSE With(d, m.field, List([n \in DOMAIN order |->
                Map(With(datas[order[n]].map, m.key, Str(order[n])))]))

\* The key is deleted from the fields of the sub-schema, wherever it is used.
sliceField(m, s, reg, sub) ==
    LET f == FieldOf(s.fields, m.field)
        one == [s EXCEPT !.fields[m.field].type = <<"map", SubType(f.type)>>]
    IN IF m.field \notin DOMAIN s.fields THEN Refused(m, s, reg)
       ELSE IF sub.err \/ ~IsArrayType(f.type) THEN [Refused(m, s, reg) EXCEPT !.locks = TRUE]
       ELSE [ModifiedBoth(m, SetFields(one, reg, sub.at, Without(FieldsAt(one, reg, sub.at), sub.name)))
                EXCEPT !.locks = TRUE]

sliceModify(m, s, reg) == sliceField(m, s, reg, getField(s.fields, 0, reg, <<m.field, m.key>>))

-----------------------------------------------------------------------------
(***************************************************************************)
(* The smaller mappers                                                     *)
(***************************************************************************)

\* check.go
ValidateField(field, s) == field \in DOMAIN s.fields

\* access.go: "fields" maps a name to the letters of its access.
accessModify(m, s, reg) ==
    LET missing == DOMAIN m.fields \ DOMAIN s.fields
        set(k) == [s.fields[k] EXCEPT !.create = "c" \in m.fields[k], !.update = "u" \in m.fields[k],
                                      !.writeOnly = "o" \in m.fields[k]]
    IN IF missing # {} /\ ~m.optional THEN Refused(m, s, reg)
       ELSE Modified(m, [s EXCEPT !.fields = [k \in DOMAIN @ |->
                            IF k \in DOMAIN m.fields THEN set(k) ELSE @[k]]], reg)

\* alias.go: of several aliases the last one present wins.
RECURSIVE aliasToInternal(_, _, _)
aliasToInternal(m, names, d) ==
    IF names = <<>> THEN d
    ELSE aliasToInternal(m, Tail(names),
            IF Head(names) \in DOMAIN d
            THEN With(Without(d, Head(names)), m.field, d[Head(names)]) ELSE d)

aliasModify(m, s, reg) ==
    LET names == {m.names[n] : n \in DOMAIN m.names}
        t == [s EXCEPT !.fields = [k \in DOMAIN @ \cup names |-> IF k \in names THEN ZeroField ELSE @[k]]]
    IN [Modified(m, t, reg) EXCEPT !.err = ~ValidateField(m.field, t)]

\* copy.go
copyFromInternal(m, d) == IF m.from \in DOMAIN d THEN With(d, m.to, d[m.from]) ELSE d

copyToInternal(m, d) ==
    IF m.to \in DOMAIN d /\ m.from \notin DOMAIN d THEN With(d, m.from, d[m.to]) ELSE d

copyModify(m, s, reg) ==
    IF m.from \notin DOMAIN s.fields THEN Refused(m, s, reg)
    ELSE Modified(m, [s EXCEPT !.fields = With(@, m.to, @[m.from])], reg)

\* drop.go
dropModify(m, s, reg) ==
    IF m.field \notin DOMAIN s.fields /\ ~m.optional THEN Refused(m, s, reg)
    ELSE Modified(m, [s EXCEPT !.fields = Without(@, m.field)], reg)

\* enum.go: the values are kept under their normal form.
enumToInternal(m, d) ==
    LET v == Over(Lower, ToString(d[m.field])) IN
    IF m.field \notin DOMAIN d THEN [d |-> d, err |-> FALSE]
    ELSE IF v \in DOMAIN m.vals THEN [d |-> With(d, m.field, Str(m.vals[v])), err |-> FALSE]
    ELSE [d |-> d, err |-> TRUE]

\* set_value.go
setValue(field, v, d) == IF v = Nil THEN d ELSE With(d, field, v)

\* condition.go
holds(m, d) == At(d, m.field) = m.value

-----------------------------------------------------------------------------
(***************************************************************************)
(* mapper.go: one mapper, lists of mappers, and the mapper of a type       *)
(***************************************************************************)

RECURSIVE FromInternal(_, _)
FromInternal(m, d) ==
    CASE m.op = "move" -> moveFromInternal(m, d)
      [] m.op = "embed" -> embedFromInternal(m, d)
      [] m.op = "sliceToMap" -> sliceFromInternal(m, d)
      [] m.op = "copy" -> copyFromInternal(m, d)
      [] m.op = "drop" -> Without(d, m.field)
      [] m.op = "setValue" -> setValue(m.field, m.external, d)
      [] m.op = "condition" -> IF holds(m, d) THEN FromInternal(m.mapper, d) ELSE d
      [] m.op = "exists" -> IF m.enabled THEN FromInternal(m.mapper, d) ELSE d
      [] OTHER -> d

FromInternalAll(ms, d) == S!FoldLeft(LAMBDA acc, m : FromInternal(m, acc), d, ms)

RECURSIVE ToInternal(_, _)
ToInternal(m, d) ==
    LET Ok(e) == [d |-> e, err |-> FALSE] IN
    CASE m.op = "move" -> Ok(moveToInternal(m, d))
      [] m.op = "embed" -> Ok(embedToInternal(m, d))
      [] m.op = "sliceToMap" -> Ok(sliceToInternal(m, d))
      [] m.op = "alias" -> Ok(aliasToInternal(m, m.names, d))
      [] m.op = "copy" -> Ok(copyToInternal(m, d))
      [] m.op = "enum" -> enumToInternal(m, d)
      [] m.op = "setValue" -> Ok(setValue(m.field, m.internal, d))
      [] m.op = "condition" -> IF holds(m, d) THEN ToInternal(m.mapper, d) ELSE Ok(d)
      [] m.op = "exists" -> IF m.enabled THEN ToInternal(m.mapper, d) ELSE Ok(d)
      [] OTHER -> Ok(d)

\* A bug: the mappers are applied in the order of FromInternal.
ToInternalForward(ms, d) ==
    S!FoldLeft(LAMBDA acc, m : LET r == ToInternal(m, acc.d) IN [d |-> r.d, err |-> acc.err \/ r.err],
               [d |-> d, err |-> FALSE], ms)

\* In reverse order; an error does not end the loop.
ToInternalAll(ms, d) ==
    S!FoldLeft(LAMBDA acc, m : LET r == ToInternal(m, acc.d) IN [d |-> r.d, err |-> acc.err \/ r.err],
               [d |-> d, err |-> FALSE], S!Reverse(ms))

RECURSIVE ModifySchema(_, _, _)
ModifySchema(m, s, reg) ==
    CASE m.op = "move" -> moveModify(m, s, reg)
      [] m.op = "embed" -> embedModify(m, s, reg)
      [] m.op = "sliceToMap" -> sliceModify(m, s, reg)
      [] m.op = "access" -> accessModify(m, s, reg)
      [] m.op = "alias" -> aliasModify(m, s, reg)
      [] m.op = "copy" -> copyModify(m, s, reg)
      [] m.op = "drop" -> dropModify(m, s, reg)
      [] m.op \in {"setValue", "enum"} -> [Modified(m, s, reg) EXCEPT !.err = ~ValidateField(m.field, s)]
      [] m.op = "condition" ->
            LET r == ModifySchema(m.mapper, s, reg) IN [r EXCEPT !.m = [m EXCEPT !.mapper = r.m]]
      [] m.op = "exists" ->
            IF m.field \notin DOMAIN s.fields THEN Modified(m, s, reg)
            ELSE LET r == ModifySchema(m.mapper, s, reg)
                 IN [r EXCEPT !.m = [m EXCEPT !.enabled = TRUE, !.mapper = r.m]]
      [] OTHER -> Modified(m, s, reg)

\* Mappers.ModifySchema: the first error ends the loop.  In the result "m" is
\* the list of the mappers.
Joined(acc, r) == [r EXCEPT !.m = Append(acc.m, @), !.locks = acc.locks \/ @]
ModifySchemaAll(ms, s, reg) ==
    S!FoldLeft(LAMBDA acc, m : IF acc.err THEN acc ELSE Joined(acc, ModifySchema(m, acc.s, acc.reg)),
               Modified(<<>>, s, reg), ms)

\* The values below a field that the mapper of its schema is applied to: a
\* sub-object, the items of a list, the values of a map.  An absent or a
\* scalar value is a nil map to the mapper, which every mapper leaves alone.
Below(F(_), tm, k, v) ==
    LET one(x) == IF IsMap(x) THEN Map(F(x.map)) ELSE x IN
    IF k \in DOMAIN tm.sub THEN one(v)
    ELSE IF k \in DOMAIN tm.subMap /\ IsMap(v) THEN Map([j \in DOMAIN v.map |-> one(v.map[j])])
    ELSE IF k \in DOMAIN tm.subArray /\ IsList(v) THEN List([j \in DOMAIN v.list |-> one(v.list[j])])
    ELSE v

SubSchema(tm, k) ==
    IF k \in DOMAIN tm.sub THEN tm.sub[k]
    ELSE IF k \in DOMAIN tm.subMap THEN tm.subMap[k]
    ELSE IF k \in DOMAIN tm.subArray THEN tm.subArray[k] ELSE 0

RECURSIVE fromInternal(_, _, _)
fromInternal(reg, tm, d) ==
    LET F(k, x) == IF SubSchema(tm, k) = 0 THEN x
                   ELSE fromInternal(reg, reg.schemas[SubSchema(tm, k)].mapper, x)
    IN FromInternalAll(tm.ms, [k \in DOMAIN d |-> Below(LAMBDA x : F(k, x), tm, k, d[k])])

\* The errors of the sub-objects are joined; here only the result is kept.
RECURSIVE toInternal(_, _, _)
toInternal(reg, tm, d) ==
    LET e == ToInternalAll(tm.ms, d).d
        F(k, x) == IF SubSchema(tm, k) = 0 THEN x
                   ELSE toInternal(reg, reg.schemas[SubSchema(tm, k)].mapper, x)
    IN [k \in DOMAIN e |-> Below(LAMBDA x : F(k, x), tm, k, e[k])]

\* typeMapper.ModifySchema: the schemas of the fields are looked up as they
\* are in the registry now, by the fields before any mapper changed them.
typeModify(ms, s, reg) ==
    LET known(k, t) == doSchema(reg, NameOf(t))
        sub == {k \in DOMAIN s.fields : known(k, s.fields[k].type) # 0}
        inner(k) == SubType(s.fields[k].type)
        arr == {k \in DOMAIN s.fields : IsArrayType(s.fields[k].type) /\ known(k, inner(k)) # 0}
        map == {k \in DOMAIN s.fields : IsMapType(s.fields[k].type) /\ known(k, inner(k)) # 0}
    IN [ModifySchemaAll(ms, s, reg) EXCEPT
                   !.m = [ms |-> @,
                          sub |-> [k \in sub |-> known(k, s.fields[k].type)],
                          subArray |-> [k \in arr |-> known(k, inner(k))],
                          subMap |-> [k \in map |-> known(k, inner(k))]]]

\* metadata.go
NewMetadataMapper ==
    LET Move(f, t) == [op |-> "move", from |-> <<f>>, to |-> <<t>>, optional |-> FALSE,
                       dest |-> FALSE, nodelete |-> FALSE]
        Drop(f) == [op |-> "drop", field |-> f, optional |-> FALSE]
    IN <<Move("name", "id"), Drop("namespace"), Drop("generateName"), Move("uid", "uuid"),
         Drop("resourceVersion"), Drop("generation"), Move("creationTimestamp", "created"),
         Move("deletionTimestamp", "removed"), Drop("deletionGracePeriodSeconds"),
         Drop("initializers"), Drop("finalizers"), Drop("managedFields"),
         Drop("ownerReferences"), Drop("clusterName"), Drop("selfLink"),
         [op |-> "access", optional |-> FALSE,
          fields |-> [k \in {"labels", "annotations"} |-> {"c", "u"}]]>>
=============================================================================
