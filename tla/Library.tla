------------------------------ MODULE Library -------------------------------
(***************************************************************************)
(* The packages that programs use as libraries: the values of type Apply,  *)
(* schemas and the CRD builder on top of them, summaries, the router of    *)
(* webhooks, the streams and the broadcaster.  A behaviour is a program    *)
(* that uses one of them (part); what the packages share are the operators.*)
(***************************************************************************)
EXTENDS CRDBuilder, Streams, Broadcaster, Programs, Summary, Webhook

LOCAL S == INSTANCE SequencesExt

CONSTANTS Parts,       \* the programs that are looked at
          Mapped,      \* what AddMapperForType is called with: <<id, mappers>>
          Imported,    \* what Import is called with: <<type, overrides>>
          Added,       \* schemas that AddSchema is called with
          Removed,     \* IDs that RemoveSchema is called with
          Docs,        \* ID -> objects of the internal form
          FieldValues, \* values that fields are checked with
          Builders     \* the CRDs a program begins with

VARIABLES part,
          reg,         \* the registry
          call,        \* its last call: the name, and how it ended
          crd          \* the CRD being built
registryVars == <<reg, call, crd>>
channelVars == <<streamVars, broadcasterVars>>
libraryVars == <<part, registryVars, programVars, summaryVars, channelVars, webhookVars>>

NoCall == [op |-> "", err |-> FALSE, blocked |-> FALSE]

LibraryInit ==
    /\ part \in Parts
    /\ reg = EmptySchemas /\ call = NoCall
    /\ crd \in IF part = "crd" THEN Builders ELSE {New}
    /\ IF part \in {"calls", "options"} THEN ProgramsInit ELSE ProgramsRest
    /\ IF part = "calls" THEN CallsInit ELSE OptionsInit
    /\ IF part = "summary" THEN SummaryInit ELSE SummaryRest
    /\ StreamsInit /\ BroadcasterInit
    /\ WebhookInit

-----------------------------------------------------------------------------
(***************************************************************************)
(* The registry.  Nothing returns once a call waits for its own lock.      *)
(***************************************************************************)
Registry == part = "schemas" /\ ~call.blocked /\ OneCall
            /\ UNCHANGED <<part, crd, aps, mem, store, seen, rls, last, summaryVars, channelVars, webhookVars>>
Ended(op, r) == reg' = r.reg /\ call' = [op |-> op, err |-> r.err, blocked |-> r.blocked]

CallAddMapper ==
    /\ Registry
    /\ \E m \in Mapped : Ended("AddMapper", Result(AddMappers(reg, m[1], m[2])))

CallImport ==
    /\ Registry
    /\ \E i \in Imported : Ended("Import", importType(reg, i[1], i[2]))

CallAddSchema ==
    /\ Registry
    /\ \E s \in Added : Ended("AddSchema", AddSchema(s, reg))

CallRemoveSchema ==
    /\ Registry
    /\ \E id \in Removed : Ended("RemoveSchema", Result(RemoveSchema(id, reg)))

-----------------------------------------------------------------------------
(***************************************************************************)
(* The builder.                                                            *)
(***************************************************************************)
Build(c) == part = "crd" /\ OneCall /\ crd' = c
            /\ UNCHANGED <<part, reg, call, aps, mem, store, seen, rls, last, summaryVars, channelVars, webhookVars>>

WithSchemaFromStruct == \E t \in DOMAIN Packages : Build([crd EXCEPT !.object = t])
WithSchema == Build([crd EXCEPT !.schema = <<[ZeroProps EXCEPT !.type = "object"]>>])
WithColumns == \E t \in DOMAIN Packages : Build(WithColumnsFromStruct(crd, t))
WithOneColumn == Build(WithColumn(crd, "Age", <<"metadata", "age">>))
WithStatus == Build([crd EXCEPT !.status = TRUE])
WithScale == Build([crd EXCEPT !.scale = TRUE])
WithGroup == \E g \in {Packages[t].group : t \in DOMAIN Packages} : Build([crd EXCEPT !.group = g])

-----------------------------------------------------------------------------
(***************************************************************************)
(* The router.                                                             *)
(***************************************************************************)
Webhooks == part = "webhook"
            /\ UNCHANGED <<part, registryVars, aps, mem, store, seen, rls, last, summaryVars, channelVars>>

BuildRoute == Webhooks /\ OneCall /\ (Route \/ RouteMatch)
Serve == Webhooks /\ UNCHANGED calls /\ asked = <<>> /\ \E rv \in Reviews : ServeHTTP(rv)

-----------------------------------------------------------------------------
LibraryNext ==
    \/ BuildRoute \/ Serve
    \/ CallAddMapper \/ CallImport \/ CallAddSchema \/ CallRemoveSchema
    \/ WithSchemaFromStruct \/ WithSchema \/ WithColumns \/ WithOneColumn
    \/ WithStatus \/ WithScale \/ WithGroup
    \/ part = "streams" /\ StreamsNext
       /\ UNCHANGED <<part, registryVars, programVars, summaryVars, broadcasterVars, webhookVars>>
    \/ part = "broadcaster" /\ BroadcasterNext
       /\ UNCHANGED <<part, registryVars, programVars, summaryVars, streamVars, webhookVars>>
    \/ part = "summary" /\ SummaryNext /\ UNCHANGED <<part, registryVars, programVars, channelVars, webhookVars>>
    \/ part = "options" /\ Options /\ UNCHANGED <<part, registryVars, summaryVars, channelVars, webhookVars>>
    \/ part = "calls" /\ Calls /\ UNCHANGED <<part, registryVars, summaryVars, channelVars, webhookVars>>

\* In the behaviours of another part the streams and the broadcaster are at rest.
LibrarySpec ==
    LibraryInit /\ [][LibraryNext]_libraryVars /\ StreamsFairness /\ BroadcasterFairness

-----------------------------------------------------------------------------
(***************************************************************************)
(* Properties                                                              *)
(***************************************************************************)

\* The schemas a field of schema s leads to, in the internal form.
Inner(t) == IF t[1] \in {"array", "map"} THEN NameOf(t[2]) ELSE NameOf(t)
Refers(n) == {doSchema(reg, Inner(f.type)) : f \in S!Range(InternalFields(reg.schemas[n]))} \ {0}
Reaches(n) ==
    LET more(ns) == ns \cup UNION {Refers(k) : k \in ns}
    IN S!FoldLeft(LAMBDA ns, k : more(ns), Refers(n), reg.schemas)

\* Import never waits for the lock it holds, and what it registers maps the
\* object of every field that has a schema: only a field that leads back to
\* its own type, which was half built at the time, is left alone.
ImportComplete ==
    /\ call.op = "Import" => ~call.blocked
    /\ \A n \in DOMAIN reg.schemas : reg.schemas[n].id \in {GoTypes[t].id : t \in DOMAIN GoTypes} =>
          LET s == reg.schemas[n]
              to(k) == doSchema(reg, Inner(InternalFields(s)[k].type))
          IN \A k \in DOMAIN InternalFields(s) :
                to(k) # 0 /\ n \notin Reaches(to(k)) => SubSchema(s.mapper, k) = to(k)

\* A value without what the mappers lose by design: empty objects, and the
\* order of lists.
RECURSIVE Pruned(_)
Pruned(v) ==
    IF IsList(v) THEN [items |-> {Pruned(v.list[n]) : n \in DOMAIN v.list}]
    ELSE IF ~IsMap(v) THEN v
    ELSE LET kept == {k \in DOMAIN v.map : Pruned(v.map[k]) # [map |-> <<>>]}
         IN [map |-> [k \in kept |-> Pruned(v.map[k])]]

\* The objects d and e are the same JSON.
Same(d, e) == Pruned(Map(EncodeToMap(d))) = Pruned(Map(EncodeToMap(e)))

Keeps == {"move", "embed", "sliceToMap", "alias", "access"}
AllOf(n, ops) ==
    \A k \in Reaches(n) \cup {n} : \A i \in DOMAIN reg.schemas[k].mapper.ms :
        LET m == reg.schemas[k].mapper.ms[i]
        IN m.op \in ops \/ (m.op = "exists" /\ m.mapper.op \in ops)

\* An object that is brought into its external form, encoded and decoded, and
\* brought back is the same, for mappers that drop nothing, however they were
\* combined on a schema and on the schemas below it.  Without the JSON in
\* between it is the same only if no SliceToMap is among them: that one does
\* not find its own items again.
RoundTrip ==
    \A n \in DOMAIN reg.schemas : reg.schemas[n].id \in DOMAIN Docs /\ AllOf(n, Keeps) =>
        \A d \in Docs[reg.schemas[n].id] :
            LET tm == reg.schemas[n].mapper
                out == fromInternal(reg, tm, d)
            IN /\ Same(toInternal(reg, tm, EncodeToMap(out)), d)
               /\ AllOf(n, Keeps \ {"sliceToMap"}) => Same(toInternal(reg, tm, out), d)

\* The paths of an OpenAPI schema, and the walks over the fields of the
\* schemas that enter no schema twice.
Content(p) == IF p.items # <<>> THEN p.items[1] ELSE IF p.additional # <<>> THEN p.additional[1] ELSE p
RECURSIVE Paths(_)
Paths(p) ==
    LET q == Content(p)
    IN {<<k>> : k \in DOMAIN q.props} \cup
       UNION {{<<k>> \o r : r \in Paths(q.props[k])} : k \in DOMAIN q.props}

Walks(n, path) ==
    LET step(acc, k) ==
            IF acc.at = 0 \/ acc.at \in acc.seen \/ k \notin DOMAIN InternalFields(reg.schemas[acc.at])
            THEN [acc EXCEPT !.ok = FALSE]
            ELSE [acc EXCEPT !.seen = @ \cup {acc.at},
                             !.at = doSchema(reg, Inner(InternalFields(reg.schemas[acc.at])[k].type))]
    IN path[1] \notin Metadata
       /\ S!FoldLeft(step, [at |-> n, seen |-> {}, ok |-> TRUE], path).ok

\* The OpenAPI schema of a type has the properties of every object below it,
\* whichever fields share a schema, and is cut only where a type comes back
\* to itself.
PropsComplete ==
    \A n \in DOMAIN reg.schemas :
        LET r == ToOpenAPI(reg, reg.schemas[n].id)
            names == UNION {DOMAIN InternalFields(reg.schemas[k]) : k \in Reaches(n) \cup {n}}
            has == Paths(r.p)
        IN ~r.err /\ reg.schemas[n].id \in DOMAIN reg.byID =>
              \A path \in has \cup {<<k>> : k \in names} \cup {<<j, k>> : j, k \in names}
                          \cup UNION {{Append(p, k) : k \in names} : p \in has} :
                  path \in has <=> Walks(n, path)

\* Characters with a meaning of their own in a character class.
Special == {"^", "-", "[", "]", "\\"}

\* Where the validation is the laxer one.  It holds only a given int64 against
\* the limits, neither a float nor a default; it counts bytes where the CRD
\* counts characters; it takes the characters of a field as they are, where
\* the CRD has a regular expression; and it lets any value of "json" pass.
Laxer(f, given, stored) ==
    \/ "int" \notin DOMAIN given /\ ~Within(f, stored)
    \/ IsStr(stored) /\ Below0(f.minLength, Runes[stored.str])
    \/ (Chars[f.validChars] \cup Chars[f.invalidChars]) \cap Special # {}
    \/ f.type = <<"json">>

\* A value that the validation of a field accepts is accepted by the CRD that
\* was generated from the same field, as given or as its default, except for
\* the differences that Laxer names (CheckFieldCriteria, populateField).
ValidImpliesProps ==
    \A n \in DOMAIN reg.schemas : \A f \in S!Range(InternalFields(reg.schemas[n])) :
        \A v \in FieldValues :
            LET c == ConvertSimple(f.type, v)
                stored == IF c.val = Nil THEN f.default ELSE c.val
                p == typeToProps(reg, f.type, {})
            IN c.ok /\ ~p.err /\ CheckFieldCriteria(f, c.val) = "" =>
                  stored = Nil \/ Accepts(populateField(p.p, f), stored) \/ Laxer(f, c.val, stored)

\* The fields of a type, and of the structs in it, have JSON names, except the
\* structs it embeds: one that has a name has no columns.
RECURSIVE Tagged(_)
Tagged(t) == \A n \in DOMAIN GoTypes[t].fields :
    LET f == GoTypes[t].fields[n]
        ft == deRef(f.type)
        struct == ft[1] = "struct" /\ ft[2] \in DOMAIN GoTypes
    IN /\ f.json = "" => f.anonymous
       /\ f.anonymous /\ f.json # "" => readCustomColumns(ft[2], <<>>) = <<>>
       /\ struct /\ ft[2] # t => Tagged(ft[2])

\* The columns read from a struct are paths of the schema generated from it.
ColumnsInSchema ==
    part = "crd" /\ crd.object # "" /\ crd.override = <<>> /\ Tagged(crd.object) =>
        \A o \in {ToCustomResourceDefinition(crd)} : o.ok =>
            \A column \in S!Range(readCustomColumns(crd.object, <<>>)) :
                column.path \in Paths(o.val.schema)
=============================================================================
