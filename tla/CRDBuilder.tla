----------------------------- MODULE CRDBuilder -----------------------------
(***************************************************************************)
(* The CRD of pkg/crd/init.go, a value that the With functions copy and    *)
(* extend, and the object it stands for.  A name is a pair of the plural   *)
(* and the group, a path a sequence of fields.                             *)
(***************************************************************************)
EXTENDS OpenAPI

LOCAL S == INSTANCE SequencesExt

CONSTANT Packages  \* struct -> [group, version], the last parts of its package path

New == [override |-> <<>>, group |-> "", version |-> "", kind |-> "", plural |-> "", singular |-> "",
        nonNamespace |-> FALSE, schema |-> <<>>, object |-> "", columns |-> <<>>,
        status |-> FALSE, scale |-> FALSE]

\* A type named Kind.group/version, as its three parts.
NamespacedType(name) ==
    [New EXCEPT !.kind = name.kind, !.group = Over(Lower, name.group), !.version = name.version]
NonNamespacedType(name) == [NamespacedType(name) EXCEPT !.nonNamespace = TRUE]

-----------------------------------------------------------------------------
(***************************************************************************)
(* Columns                                                                 *)
(***************************************************************************)

ColumnFormats == {"int32", "int64", "float", "double", "byte", "date", "date-time", "password"}

\* The types that bring an OpenAPI type and a format of their own.
openAPISchema == [Time |-> <<"string", "date-time">>, IntOrString |-> <<"string", "int-or-string">>,
                  Quantity |-> <<"string", "">>, Duration |-> <<"string", "">>]

kindToType == [bool |-> "boolean", uint8 |-> "integer", int |-> "integer", float |-> "number",
               string |-> "string", slice |-> "slice", map |-> "map", interface |-> "interface"]

\* The column of a field that has the tag, in which any part may be replaced.
tagToColumn(f, type, format, path) ==
    LET c == [name |-> f.go, type |-> kindToType[type], path |-> path, priority |-> 0,
              format |-> IF format \in ColumnFormats THEN format ELSE ""]
    IN IF f.column = <<>> THEN <<>>
       ELSE <<[k \in DOMAIN c |-> IF k \in DOMAIN f.column[1] THEN f.column[1][k] ELSE c[k]]>>

\* The name a field has in a path: that of Go if it has none in JSON.
columnName(f) == IF f.json = "-" THEN "" ELSE IF f.json = "" THEN f.go ELSE f.json

RECURSIVE readCustomColumns(_, _)

\* A bug: the columns of an embedded struct are looked for below its name.
readColumnsBelow(t, path) ==
    LET ft(f) == deRef(f.type)
        field(f) == IF columnName(f) = "" THEN <<>>
                    ELSE IF ft(f)[1] = "struct" /\ ft(f)[2] \notin DOMAIN openAPISchema
                    THEN readCustomColumns(ft(f)[2], Append(path, columnName(f)))
                    ELSE IF ft(f)[1] = "struct" THEN <<>>
                    ELSE tagToColumn(f, ft(f)[1], "", Append(path, columnName(f)))
    IN S!FoldLeft(LAMBDA acc, f : acc \o field(f), <<>>, GoTypes[t].fields)

\* An embedded struct lends its columns, with a JSON name or without.
readCustomColumns(t, path) ==
    LET field(f) ==
            LET ft == deRef(f.type)
                to == Append(path, columnName(f))
            IN IF columnName(f) = "" THEN <<>>
               ELSE IF ft[1] = "struct" /\ ft[2] \in DOMAIN openAPISchema
               THEN tagToColumn(f, openAPISchema[ft[2]][1], openAPISchema[ft[2]][2], to)
               ELSE IF ft[1] = "struct"
               THEN readCustomColumns(ft[2], IF f.anonymous THEN path ELSE to)
               ELSE tagToColumn(f, ft[1], "", to)
    IN S!FoldLeft(LAMBDA acc, f : acc \o field(f), <<>>, GoTypes[t].fields)

WithColumn(c, name, path) ==
    [c EXCEPT !.columns = Append(@, [name |-> name, type |-> "string", path |-> path,
                                     priority |-> 0, format |-> ""])]
WithColumnsFromStruct(c, t) == [c EXCEPT !.columns = @ \o readCustomColumns(t, <<>>)]

-----------------------------------------------------------------------------
(***************************************************************************)
(* The object                                                              *)
(***************************************************************************)

\* What is not set comes from the struct.
Resolved(c) ==
    IF c.object = "" THEN c
    ELSE [c EXCEPT !.kind = IF @ = "" THEN c.object ELSE @,
                   !.version = IF @ = "" THEN Packages[c.object].version ELSE @,
                   !.group = IF @ = "" THEN Packages[c.object].group ELSE @]

PluralOf(c) == IF c.plural = "" THEN Over(Lower, Over(Plural, Resolved(c).kind)) ELSE c.plural

Name(c) ==
    IF c.override # <<>> THEN c.override[1].name
    ELSE <<Over(Lower, PluralOf(c)), Over(Lower, Resolved(c).group)>>

\* The schema of the struct goes before one that was given; without either
\* spec and status are left open.
Definition(c, r, generated) ==
    LET open == [ZeroProps EXCEPT !.preserve = TRUE]
        dummy == [ZeroProps EXCEPT !.type = "object", !.props = [k \in {"spec", "status"} |-> open]]
        schema == IF c.object # "" THEN generated.p
                  ELSE IF c.schema # <<>> THEN c.schema[1] ELSE dummy
    IN IF c.override # <<>> THEN Found(c.override[1])
       ELSE IF c.object # "" /\ generated.err THEN Missing
       ELSE Found([name |-> Name(c), group |-> r.group, version |-> r.version, kind |-> r.kind,
                   plural |-> PluralOf(c),
                   singular |-> IF c.singular = "" THEN Over(Lower, r.kind) ELSE c.singular,
                   columns |-> c.columns, schema |-> schema,
                   subresources |-> (IF c.status THEN {"status"} ELSE {})
                                    \cup (IF c.status /\ c.scale THEN {"scale"} ELSE {}),
                   scope |-> IF c.nonNamespace THEN "Cluster" ELSE "Namespaced"])

ToCustomResourceDefinition(c) == Definition(c, Resolved(c), ToOpenAPIFromStruct(c.object))
=============================================================================
