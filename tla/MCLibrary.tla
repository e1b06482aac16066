----------------------------- MODULE MCLibrary ------------------------------
EXTENDS Library, MCPrograms, MCSummary

MCTrim == [pad |-> "b"]
MCLower == [Root |-> "root", Leaves |-> "leaves", Roots |-> "roots", Flat |-> "flat", Flats |-> "flats",
            Example |-> "example"]
MCNumber == [s \in {"1", "2", "3", "5"} |-> CASE s = "1" -> 1 [] s = "2" -> 2 [] s = "3" -> 3 [] s = "5" -> 5]
MCDecimal == [s \in {"0.5"} \cup DOMAIN MCNumber |-> IF s = "0.5" THEN 1 ELSE 2 * MCNumber[s]]
MCSprint == [h \in {0, 1, 2, 6, 7, 10} |->
                CASE h = 0 -> "0" [] h = 1 -> "0.5" [] h = 2 -> "1" [] h = 6 -> "3" [] h = 7 -> "3.5" [] h = 10 -> "5"]
MCIndex == [first |-> 0]
MCPlural == [Root |-> "Roots", Flat |-> "Flats", root |-> "roots", spec |-> "specs", leaf |-> "leaves",
             port |-> "ports", node |-> "nodes", peer |-> "peers", flat |-> "flats", typeMeta |-> "typeMetas",
             objectMeta |-> "objectMetas", extra |-> "extras"]
MCLowerTitle == [Untagged |-> "untagged"]
\* How the strings of values and tags are spelt; "pad" stands for " b".
MCSpelt ==
    [s \in {"", "a", "b", "x", "-", "é", "0", "1", "2", "3", "5", "0.5", "3.5", "ab", "a-x", "pad", "true", "false", "map[]"} |->
        CASE s = "" -> <<>>
          [] s = "0.5" -> <<"0", ".", "5">>
          [] s = "3.5" -> <<"3", ".", "5">>
          [] s = "ab" -> <<"a", "b">>
          [] s = "a-x" -> <<"a", "-", "x">>
          [] s = "pad" -> <<" ", "b">>
          [] s = "true" -> <<"t", "r", "u", "e">>
          [] s = "false" -> <<"f", "a", "l", "s", "e">>
          [] s = "map[]" -> <<"m", "a", "p", "[", "]">>
          [] OTHER -> <<s>>]
MCRunes == [s \in DOMAIN MCSpelt |-> Len(MCSpelt[s])]
MCLength == [s \in DOMAIN MCSpelt |-> MCRunes[s] + IF s = "é" THEN 1 ELSE 0]
MCChars == [s \in DOMAIN MCSpelt |-> {MCSpelt[s][n] : n \in DOMAIN MCSpelt[s]}]
\* What the classes match, of the characters in use.
MCCharacters == UNION {MCChars[s] : s \in DOMAIN MCChars}
MCClass == [p \in BOOLEAN \X {"x", "ab", "a-x"} |->
                LET of == IF p[2] = "a-x" THEN {"a", "b", "x"} ELSE MCChars[p[2]]
                IN IF p[1] THEN MCCharacters \ of ELSE of]
MCDns == [hostname |-> {"a"}, dnsLabel |-> {"a"}]

\* Go fields.
F(json, type) == [go |-> json, json |-> json, type |-> type, anonymous |-> FALSE, exported |-> TRUE,
                  tag |-> <<>>, mappers |-> <<>>, column |-> <<>>]
Tag(f, tag) == [f EXCEPT !.tag = tag]
T(key, value) == [key |-> key, value |-> value]
Column(f) == [f EXCEPT !.column = <<[priority |-> 1]>>]
Embedded(t, json) == [F(json, <<"struct", t>>) EXCEPT !.anonymous = TRUE, !.go = t]
Ptr(t) == <<"ptr", <<"struct", t>>>>

MCGoTypes ==
    [TypeMeta |-> [id |-> "typeMeta", fields |-> <<F("kind", <<"string">>), F("apiVersion", <<"string">>)>>],
     ObjectMeta |-> [id |-> "objectMeta", fields |-> <<F("name", <<"string">>), F("uid", <<"string">>)>>],
     Root |-> [id |-> "root", fields |->
        <<Embedded("TypeMeta", ""), Embedded("ObjectMeta", "metadata"),
          F("spec", <<"struct", "Spec">>), F("first", Ptr("Leaf"))>>],
     Spec |-> [id |-> "spec", fields |->
        <<Tag(F("mode", <<"string">>), <<T("type", <<"string">>), T("options", <<"a", "b">>), T("nullable", "")>>),
          Tag(Column(F("count", <<"int">>)), <<T("min", "1"), T("max", "3"), T("default", Str("3"))>>),
          F("ports", <<"slice", <<"struct", "Port">>>>), F("leaf", <<"struct", "Leaf">>),
          F("other", Ptr("Leaf")), F("links", <<"string">>),
          Tag(F("ratio", <<"float">>), <<T("min", "1"), T("max", "3"), T("default", Str("0.5"))>>),
          [F("secret", <<"string">>) EXCEPT !.exported = FALSE], F("-", <<"string">>)>>],
     Port |-> [id |-> "port", fields |->
        <<Tag(F("name", <<"string">>), <<T("required", ""), T("minLength", "1")>>),
          Tag(F("number", <<"int">>), <<T("max", "3"), T("default", Str("5"))>>)>>],
     Leaf |-> [id |-> "leaf", fields |->
        <<Tag(Column(F("a", <<"string">>)), <<T("validChars", "ab"), T("maxLength", "1")>>),
          Tag(F("b", <<"string">>), <<T("options", <<"a">>), T("notnullable", ""), T("default", Str("a"))>>),
          Tag(F("tags", <<"map", <<"string">>>>), <<T("invalidChars", "x")>>), F("raw", <<"interface">>),
          Column(F("since", Ptr("Time")))>>],
     Node |-> [id |-> "node", fields |->
        <<F("value", <<"bool">>), F("next", Ptr("Node")), F("peers", <<"map", <<"struct", "Peer">>>>),
          Tag([F("", <<"string">>) EXCEPT !.go = "Untagged"], <<T("type", <<"hostname">>), T("nocreate", "")>>),
          Tag(F("range", <<"string">>), <<T("validChars", "a-x")>>),
          Tag(F("word", <<"string">>), <<T("invalidChars", "x"), T("minLength", "2"), T("nullable", "")>>)>>],
     Peer |-> [id |-> "peer", fields |-> <<F("back", Ptr("Node")), F("leaf", <<"struct", "Leaf">>),
                                           F("size", <<"slice", <<"uint8">>>>)>>],
     Flat |-> [id |-> "flat", fields |->
        <<Embedded("Leaf", ""), [F("mark", <<"string">>) EXCEPT !.mappers = <<"drop">>],
          Embedded("Port", "port")>>],
     Wrong |-> [id |-> "wrong", fields |-> <<Tag(F("w", <<"string">>), <<T("min", "many")>>)>>]]

\* Mappers.
Move(from, to) == [op |-> "move", from |-> from, to |-> to, optional |-> FALSE, dest |-> FALSE,
                   nodelete |-> FALSE]
Embed(f) == [op |-> "embed", field |-> f, optional |-> FALSE, readOnly |-> FALSE, ignore |-> {},
             emptyOk |-> FALSE, embedded |-> {}]
MCFieldMappers == [drop |-> [op |-> "drop", field |-> "", optional |-> TRUE]]
Access(f) == [op |-> "access", optional |-> TRUE, fields |-> [k \in {f} |-> {"c"}]]

MCMapped ==
    {<<"root", <<Embed("spec")>>>>, <<"root", <<Embed("spec"), Move(<<"mode">>, <<"kind">>)>>>>,
     <<"root", <<Move(<<"spec", "count">>, <<"count">>)>>>>, <<"root", <<Move(<<"first">>, <<"leaf">>)>>>>,
     <<"root", <<[op |-> "exists", field |-> "first", enabled |-> FALSE, mapper |-> Move(<<"first">>, <<"one">>)],
                 [op |-> "exists", field |-> "mode", enabled |-> FALSE, mapper |-> Move(<<"mode">>, <<"two">>)]>>>>,
     <<"spec", <<[op |-> "sliceToMap", field |-> "ports", key |-> "name"]>>>>,
     <<"spec", <<Move(<<"count">>, <<"size">>)>>>>, <<"spec", <<Move(<<"size">>, <<"leaf", "size">>)>>>>,
     <<"leaf", <<[op |-> "alias", field |-> "a", names |-> <<"alpha", "one">>]>>>>,
     <<"leaf", <<Move(<<"a">>, <<"alpha">>)>>>>, <<"node", <<Access("value")>>>>,
     <<"leaf", <<[op |-> "copy", from |-> "a", to |-> "z"],
                 [op |-> "setValue", field |-> "b", internal |-> Str("a"), external |-> Nil],
                 [op |-> "enum", field |-> "z", vals |-> [a |-> "a"]],
                 [op |-> "condition", field |-> "b", value |-> Str("b"), mapper |-> Move(<<"b">>, <<"beta">>)]>>>>,
     <<"extra", <<Embed("leaf")>>>>}
MCDefaultMapper == <<>>
MCDefaultPostMapper == <<Access("first")>>

MCImported == {<<"Root", <<>>>>, <<"Spec", <<>>>>, <<"Node", <<>>>>, <<"Flat", <<"Leaf">>>>, <<"Leaf", <<>>>>,
               <<"Wrong", <<>>>>}
MCAdded == {[NewSchema("extra") EXCEPT !.fields = [leaf |-> [ZeroField EXCEPT !.type = <<"schema", "leaf">>]]],
            NewSchema("")}
MCRemoved == {"leaf", "spec"}

LeafDoc(x) == Map([a |-> Str(x), b |-> Str("b")])
PortDoc(x) == Map([name |-> Str(x), number |-> Int64(1)])
SpecDocs ==
    {[mode |-> Str("a"), count |-> Int64(3), ports |-> List(<<PortDoc("a"), PortDoc("b")>>),
      leaf |-> LeafDoc("a")],
     [count |-> Int64(1), leaf |-> Map(<<>>), other |-> LeafDoc("b")],
     [ports |-> List(<<PortDoc("x")>>), mode |-> Str("")]}
MCDocs == [spec |-> SpecDocs,
           root |-> {[spec |-> Map(d), first |-> LeafDoc("x")] : d \in SpecDocs} \cup {[first |-> LeafDoc("a")]},
           node |-> {[value |-> Bool(TRUE), next |-> Map([peers |-> Map([x |-> Map([leaf |-> LeafDoc("a")])])]),
                      peers |-> Map([x |-> Map([leaf |-> LeafDoc("a"), back |-> Map(<<>>)])])]},
           leaf |-> {LeafDoc("a").map, <<>>}]

\* What the functions on values promise one another, over these objects: a
\* value is read where it was put, unless a value that is not a map is on the
\* way; a lookup through lists agrees with one through maps; a merge has what
\* the overlay says.
DataPaths == {<<"spec">>, <<"spec", "mode">>, <<"spec", "leaf", "a">>, <<"first", "b">>, <<"ports">>, <<"mode">>}
DataObjects == UNION {MCDocs[id] : id \in DOMAIN MCDocs}
Open(d, path) == \A n \in 1 .. Len(path) - 1 :
    GetValue(d, SubSeq(path, 1, n)).ok => IsMap(GetValueN(d, SubSeq(path, 1, n)))
ASSUME DataLaws ==
    \A d \in DataObjects :
        /\ \A path \in DataPaths :
            /\ Open(d, path) => GetValue(PutValue(d, Str("x"), path), path) = Found(Str("x"))
            /\ ~GetValue(RemoveValue(d, path), path).ok
            /\ Open(d, path) => GetValueFromAny(Map(d), path) = GetValue(d, path)
        /\ \A e \in DataObjects, path \in DataPaths :
            LET over == GetValue(e, path)
                both == GetValueN(MergeMapsConcatSlice(d, e), path)
            IN /\ over.ok /\ ~IsMap(over.val) => GetValue(MergeMaps(d, e), path) = over
               /\ ~over.ok /\ Open(e, path) => GetValue(MergeMaps(d, e), path) = GetValue(d, path)
               /\ bothSlices(GetValueN(d, path), over.val) /\ Len(path) = 1 =>
                     ToMapSlice(both) = ToMapSlice(GetValueN(d, path)) \o ToMapSlice(over.val)

MCFieldValues == {Nil, Str(""), Str("a"), Str("ab"), Str("x"), Str("é"), Str("pad"), Str("1"), Str("5"),
                  Str("-"), Str("0.5"), Int64(1), Int64(5), Float64(1), Float64(6), Float64(7), Float64(10),
                  JSONNumber(7), Bool(TRUE), List(<<Str("b")>>)}

MCPackages == [Root |-> [group |-> "Example", version |-> "v1"], Flat |-> [group |-> "example", version |-> "v2"]]
OfKind(k) == [kind |-> k, group |-> "Example", version |-> "v3"]
MCBuilders == {New, NamespacedType(OfKind("Root")), NonNamespacedType(OfKind("Flat")),
               [New EXCEPT !.override = <<[name |-> <<"flats", "example">>]>>]}

\* Routes, and requests for a deployment and for its scale.
MCCriteria == {<<"kind", "Deployment">>, <<"group", "apps">>, <<"group", "autoscaling">>,
               <<"subResource", "scale">>, <<"operation", "DELETE">>, <<"dryRun", "false">>, <<"name", "">>}
MCHandlers == [allow |-> <<<<"Allow">>>>, patch |-> <<<<"DecodeObject">>, <<"Allow">>, <<"CreatePatch", "p">>>>,
               twice |-> <<<<"CreatePatch", "p">>, <<"CreatePatch", "q">>, <<"Allow">>>>,
               old |-> <<<<"DecodeOldObject">>, <<"Allow">>>>, refuse |-> <<<<"Fail">>>>]
Update == [uid |-> "u1", kind |-> <<"apps", "v1", "Deployment">>, resource |-> <<"apps", "v1", "deployments">>,
           subResource |-> "", name |-> "d", namespace |-> "n", operation |-> "UPDATE", dryRun |-> "false",
           object |-> "new", oldObject |-> "old"]
Scale == [Update EXCEPT !.uid = "u2", !.kind = <<"autoscaling", "v1", "Scale">>, !.subResource = "scale",
                        !.dryRun = "", !.oldObject = ""]
Removal == [Update EXCEPT !.uid = "u3", !.resource = <<>>, !.operation = "DELETE", !.object = ""]
MCReviews == {[request |-> <<r>>, decodes |-> TRUE] : r \in {Update, Scale, Removal}}
             \cup {[request |-> <<>>, decodes |-> d] : d \in BOOLEAN}
             \cup {[request |-> <<Update>>, decodes |-> FALSE]}
=============================================================================
