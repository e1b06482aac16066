------------------------------ MODULE Schemas -------------------------------
(***************************************************************************)
(* The registry of schemas (pkg/schemas/schemas.go, reflection.go): schemas *)
(* are read from Go types by Import, with the schemas of the structs they   *)
(* hold, or added by hand with AddSchema; the mappers of an ID are assigned *)
(* to its schema when it is added.                                          *)
(*                                                                         *)
(* A Go type is a tuple: <<"struct", T>>, <<"slice", t>>, <<"map", t>>,     *)
(* <<"ptr", t>>, or a kind such as <<"string">>.  GoTypes gives the fields  *)
(* of the structs.                                                          *)
(***************************************************************************)
EXTENDS Mappers

LOCAL S == INSTANCE SequencesExt

CONSTANTS GoTypes,           \* struct -> [id, fields]; a field is [go, json, type, anonymous,
                             \* exported, tag, mappers, column]: "json" is the name in its
                             \* JSON tag, "tag" the wrangler tag, a sequence of [key, value]
          LowerTitle,        \* the Go names of fields without a JSON name, as fields
          Plural,            \* name.GuessPluralName of the IDs in use
          DefaultMapper,     \* <<>> or <<mapper>>, for the schemas that can be listed
          DefaultPostMapper, \* likewise, after the others
          FieldMappers       \* name -> mapper factories, of a field name

Kinds == [uint8 |-> "byte", bool |-> "boolean", int |-> "int", float |-> "float",
          interface |-> "json", string |-> "string"]
Builtin == [Time |-> "date", IntOrString |-> "intOrString", Quantity |-> "string"]

EmptySchemas == [schemas |-> <<>>, byID |-> <<>>, mappers |-> <<>>, processing |-> {}]

\* A schema as newSchemaFromType begins it.
NewSchema(id) == [id |-> id, plural |-> "", fields |-> <<>>, list |-> FALSE,
                  internal |-> <<>>, mapper |-> NoMapper]

\* The outcome of an operation: the registry, whether it returned an error,
\* and whether it waits for a lock its own goroutine holds.
Result(reg) == [reg |-> reg, err |-> FALSE, blocked |-> FALSE]
Ok(r) == ~r.err /\ ~r.blocked

getTypeName(t) == GoTypes[t].id
AddMapper(reg, id, m) ==
    [reg EXCEPT !.mappers = With(@, id, Append(IF id \in DOMAIN @ THEN @[id] ELSE <<>>, m))]

\* AddMapperForType: several mappers are one of type Mappers, which does what
\* they do one after the other.
AddMappers(reg, id, ms) == S!FoldLeft(LAMBDA r, m : AddMapper(r, id, m), reg, ms)

-----------------------------------------------------------------------------
\* A schema that has a mapper keeps it.  The mappers of the ID come between the
\* defaults of schemas that can be listed; with any mapper the fields as they
\* were are kept as the internal schema.  On an error the schema gets no
\* mapper, but what the mappers did to other schemas stays.
Assigned(r, internal) ==
    [r EXCEPT !.s = [@ EXCEPT !.internal = internal, !.mapper = IF r.err THEN NoMapper ELSE r.m]]

assignMappers(s, reg) ==
    LET own == IF s.id \in DOMAIN reg.mappers THEN reg.mappers[s.id] ELSE <<>>
        ms == IF s.list THEN DefaultMapper \o own \o DefaultPostMapper ELSE own
    IN IF s.mapper # NoMapper THEN Modified(s.mapper, s, reg)
       ELSE Assigned(typeModify(ms, s, reg), IF ms = <<>> THEN <<>> ELSE <<s.fields>>)

setupDefaults(s) == [s EXCEPT !.plural = IF @ = "" THEN Over(Plural, s.id) ELSE @]

\* AddSchema holds the lock, and so may not assign a mapper that asks the
\* registry for a schema.
doAddSchema(s, reg, r) ==
    LET at == IF s.id \in DOMAIN reg.byID THEN reg.byID[s.id] ELSE Len(reg.schemas) + 1
    IN IF s.id = "" THEN [Result(reg) EXCEPT !.err = TRUE]
       ELSE IF r.locks THEN [Result(reg) EXCEPT !.blocked = TRUE]
       ELSE IF r.err THEN [Result(r.reg) EXCEPT !.err = TRUE]
       ELSE Result([r.reg EXCEPT !.byID = With(@, s.id, at),
                                 !.schemas = IF at > Len(@) THEN Append(@, r.s)
                                             ELSE [@ EXCEPT ![at] = r.s]])

AddSchema(s, reg) == doAddSchema(s, reg, assignMappers(setupDefaults(s), reg))

\* Only the ID is forgotten: the schema stays in the list, where doSchema still
\* finds it.
RemoveSchema(id, reg) == [reg EXCEPT !.byID = Without(@, id)]

-----------------------------------------------------------------------------
(***************************************************************************)
(* Import                                                                  *)
(***************************************************************************)

deRef(t) == IF t[1] = "ptr" THEN t[2] ELSE t

\* One part of a wrangler tag.  "err" tells of a key or a number that is not
\* valid; a number is kept in its limit.
Limits == {"minLength", "maxLength", "min", "max"}
Flags == [nullable |-> <<"nullable", TRUE>>, notnullable |-> <<"nullable", FALSE>>,
          create |-> <<"create", TRUE>>, nocreate |-> <<"create", FALSE>>,
          update |-> <<"update", TRUE>>, noupdate |-> <<"update", FALSE>>,
          writeOnly |-> <<"writeOnly", TRUE>>, required |-> <<"required", TRUE>>]

applyTag(tag, field) ==
    LET part(acc, p) ==
            IF acc.err THEN acc
            ELSE IF p.key \in DOMAIN Flags
            THEN [acc EXCEPT !.f = [@ EXCEPT ![Flags[p.key][1]] = Flags[p.key][2]]]
            ELSE IF p.key \in Limits
            THEN IF p.value \in DOMAIN Number
                 THEN [acc EXCEPT !.f = [@ EXCEPT ![p.key] = <<Number[p.value]>>]]
                 ELSE [acc EXCEPT !.err = TRUE]
            ELSE IF p.key = "options"
            THEN [acc EXCEPT !.f.options = p.value,
                             !.f.type = IF @ = NoType THEN <<"enum">> ELSE @]
            ELSE IF p.key \in {"type", "default", "validChars", "invalidChars"}
            THEN [acc EXCEPT !.f = [@ EXCEPT ![p.key] = p.value]]
            ELSE [acc EXCEPT !.err = p.key # "codeName"]
    IN S!FoldLeft(part, [f |-> field, err |-> FALSE], tag)

\* A default is a string, and becomes a value of the field's type.
Defaulted(f) ==
    LET value == CASE f.default = Nil -> Found(Nil)
                   [] f.default # Nil /\ f.type = <<"int">> -> ToNumber(f.default)
                   [] f.default # Nil /\ f.type = <<"float">> -> ToFloat(f.default)
                   [] f.default # Nil /\ f.type = <<"boolean">> -> Found(Bool(ToBool(f.default)))
                   [] OTHER -> Found(f.default)
    IN [f |-> [f EXCEPT !.default = value.val], err |-> ~value.ok]

fieldName(f) == IF f.json # "" THEN f.json ELSE Over(LowerTitle, f.go)

processFieldsMappers(reg, id, f) ==
    LET add(acc, name) ==
            IF acc.err \/ name \notin DOMAIN FieldMappers THEN [acc EXCEPT !.err = TRUE]
            ELSE [acc EXCEPT !.reg = AddMapper(@, id, [FieldMappers[name] EXCEPT !.field = fieldName(f)])]
    IN S!FoldLeft(add, Result(reg), f.mappers)

\* Reading is recursive: a struct imports the structs of its fields.  The
\* schema being read, "s", is a part of the outcome.
Read(s, r) == [s |-> s, reg |-> r.reg, err |-> r.err, blocked |-> r.blocked]

RECURSIVE importType(_, _, _), readFields(_, _, _), determineSchemaType(_, _)

\* The type of a field as a schema names it, and the registry with what was
\* imported on the way.
determineSchemaType(reg, t) ==
    LET sub == determineSchemaType(reg, deRef(t[2]))
        r == importType(reg, t[2], <<>>)
        As(x, type) == [reg |-> x.reg, err |-> x.err, blocked |-> x.blocked, type |-> type]
    IN CASE t[1] \in DOMAIN Kinds -> As(Result(reg), <<Kinds[t[1]]>>)
         [] t[1] = "map" -> As(sub, <<"map", sub.type>>)
         [] t[1] = "slice" -> As(sub, IF sub.type = <<"byte">> THEN <<"base64">> ELSE <<"array", sub.type>>)
         [] t[1] = "struct" /\ t[2] \in DOMAIN Builtin -> As(Result(reg), <<Builtin[t[2]]>>)
         [] t[1] = "struct" /\ t[2] = "Duration" -> As(r, <<"string">>)
         [] t[1] = "struct" /\ t[2] \notin DOMAIN Builtin \cup {"Duration"} ->
                As(r, <<"schema", IF Ok(r) THEN r.id ELSE "">>)
         [] OTHER -> [As(Result(reg), NoType) EXCEPT !.err = TRUE]

\* An embedded struct without a name of its own lends its fields.  A type with
\* TypeMeta and ObjectMeta is a resource, that can be listed.
WithoutMeta(r, meta, has) ==
    IF Ok(r) /\ has THEN [r EXCEPT !.s.list = TRUE, !.s.fields = [k \in DOMAIN @ \ meta |-> @[k]]] ELSE r

readFields(reg, s, t) ==
    LET skips(f) == ~f.exported \/ f.json = "-"
        inline(f) == f.anonymous /\ f.json = ""
        begun(f) == [ZeroField EXCEPT !.create = TRUE, !.update = TRUE, !.nullable = f.type[1] = "ptr"]
        field(acc, f) ==
            LET tagged == applyTag(f.tag, begun(f))
                typed == determineSchemaType(acc.reg, deRef(f.type))
                given == tagged.f.type # NoType
                d == Defaulted(IF given THEN tagged.f ELSE [tagged.f EXCEPT !.type = typed.type])
                reg1 == IF given THEN acc.reg ELSE typed.reg
                done == processFieldsMappers(reg1, s.id, f)
            IN IF tagged.err THEN [acc EXCEPT !.err = TRUE]
               ELSE IF ~given /\ ~Ok(typed)
               THEN [acc EXCEPT !.reg = typed.reg, !.err = typed.err, !.blocked = typed.blocked]
               ELSE IF d.err \/ done.err THEN [acc EXCEPT !.reg = done.reg, !.err = TRUE]
               ELSE Read([acc.s EXCEPT !.fields = With(@, fieldName(f), d.f)], done)
        step(acc, f) ==
            IF ~Ok(acc) \/ skips(f) THEN acc
            ELSE IF inline(f)
            THEN IF deRef(f.type)[1] = "struct" THEN readFields(acc.reg, acc.s, deRef(f.type)[2]) ELSE acc
            ELSE IF fieldName(f) \in {"links", "actions"} THEN acc ELSE field(acc, f)
        has(name, type) == \E n \in DOMAIN GoTypes[t].fields : LET f == GoTypes[t].fields[n] IN
                              ~skips(f) /\ f.anonymous /\ f.json = name /\ f.type = <<"struct", type>>
    IN WithoutMeta(S!FoldLeft(step, Read(s, Result(reg)), GoTypes[t].fields),
                   {"kind", "apiVersion", "metadata"}, has("", "TypeMeta") /\ has("metadata", "ObjectMeta"))

\* While a type is read it is half built: a field that leads back to it gets
\* its ID only.
newSchemaFromType(reg, t) ==
    [readFields([reg EXCEPT !.processing = @ \cup {t}], NewSchema(getTypeName(t)), t)
        EXCEPT !.reg.processing = @ \ {t}]

\* How the import of a type ends, by what was read of it and by its mappers.
ImportedAs(r, i) == [reg |-> r.reg, err |-> r.err, blocked |-> r.blocked, id |-> i]
AddMapped(id, a) ==
    IF a.err THEN ImportedAs([Result(a.reg) EXCEPT !.err = TRUE], "") ELSE ImportedAs(AddSchema(a.s, a.reg), id)
AddRead(id, read) == IF Ok(read) THEN AddMapped(id, assignMappers(read.s, read.reg)) ELSE ImportedAs(read, "")
AddReadLate(id, read) == IF Ok(read) THEN ImportedAs(AddSchema(read.s, read.reg), id) ELSE ImportedAs(read, "")

\* A bug: the mappers are left to AddSchema.
importTypeLate(reg, t, overrides) ==
    LET id == getTypeName(t)
        n == doSchema(reg, id)
    IN IF n # 0 THEN ImportedAs(Result(reg), reg.schemas[n].id)
       ELSE IF t \in reg.processing THEN ImportedAs(Result(reg), id)
       ELSE AddReadLate(id, newSchemaFromType(reg, t))

\* The fields of the type, then those of the overrides.  The mappers are
\* assigned before AddSchema takes the lock.
importType(reg, t, overrides) ==
    LET id == getTypeName(t)
        n == doSchema(reg, id)
    IN IF n # 0 THEN ImportedAs(Result(reg), reg.schemas[n].id)
       ELSE IF t \in reg.processing THEN ImportedAs(Result(reg), id)
       ELSE AddRead(id, S!FoldLeft(LAMBDA acc, o : IF Ok(acc) THEN readFields(acc.reg, acc.s, o) ELSE acc,
                                   newSchemaFromType(reg, t), overrides))
=============================================================================
