------------------------------ MODULE OpenAPI -------------------------------
(***************************************************************************)
(* What the schemas are used for: the OpenAPI schema of a CRD              *)
(* (pkg/schemas/openapi), the validation of a field's value                *)
(* (pkg/schemas/validation) and the CRD itself (pkg/crd/init.go).          *)
(***************************************************************************)
EXTENDS Schemas

LOCAL S == INSTANCE SequencesExt

CONSTANTS EndsInMap, \* IDs that end in "map", in any case
          Length,    \* string -> its length in bytes
          Runes,     \* string -> its length in characters
          Chars,     \* string -> the characters in it
          Class,     \* <<negated, string>> -> the characters that the regular
                     \* expressions [string] and [^string] match, for those that compile
          Dns        \* type -> the strings in the format of the type

\* JSONSchemaProps: "items" and "additional" are <<>> or hold one schema.
ZeroProps == [type |-> "", props |-> <<>>, items |-> <<>>, additional |-> <<>>,
              nullable |-> FALSE, preserve |-> FALSE, xIntOrString |-> FALSE,
              required |-> {}, enum |-> <<>>, pattern |-> <<>>,
              minLength |-> <<>>, maxLength |-> <<>>, min |-> <<>>, max |-> <<>>,
              default |-> Nil]

\* A bug: the options are taken as they are.
populateFieldStrict(p, f) ==
    [p EXCEPT !.nullable = @ \/ f.nullable,
              !.enum = IF f.type = <<"string">> THEN f.options ELSE @, !.default = f.default]

\* Nullable is never taken back.  The empty string is added to the options, and
\* one pattern replaces the other.  The characters are put between the brackets
\* of a character class as they are.
populateField(p, f) ==
    [p EXCEPT !.nullable = @ \/ f.nullable,
              !.minLength = f.minLength, !.maxLength = f.maxLength,
              !.enum = IF f.type = <<"string">> /\ f.options # <<>> THEN Append(f.options, "") ELSE @,
              !.pattern = IF f.validChars # "" THEN <<FALSE, f.validChars>>
                          ELSE IF f.invalidChars # "" THEN <<TRUE, f.invalidChars>> ELSE <<>>,
              !.min = f.min, !.max = f.max, !.default = f.default]

\* typeAndSchema: the OpenAPI type of the types that are not schemas.
OpenAPIType == [int |-> "integer", float |-> "number", boolean |-> "boolean", json |-> "object",
                intOrString |-> "intOrString", string |-> "string", date |-> "string",
                enum |-> "string", base64 |-> "string", password |-> "string",
                hostname |-> "string", reference |-> "string"]

\* The schema of a type is that of the internal object, if there is one.
InternalFields(s) == IF s.internal = <<>> THEN s.fields ELSE s.internal[1]

Props(p) == [err |-> FALSE, p |-> p]
NoProps == [err |-> TRUE, p |-> ZeroProps]

RECURSIVE typeToProps(_, _, _), schemaToProps(_, _, _, _)

typeToProps(reg, t, inflight) ==
    LET n == doSchema(reg, NameOf(t))
        sub == typeToProps(reg, SubType(t), inflight)
        scalar == OpenAPIType[t[1]]
    IN CASE t[1] = "schema" ->
              IF n = 0 THEN NoProps
              ELSE schemaToProps(reg, reg.schemas[n].id, InternalFields(reg.schemas[n]), inflight)
         [] t[1] = "map" ->
              LET open == t[2] = <<"json">> IN
              [sub EXCEPT !.p = [ZeroProps EXCEPT !.type = "object", !.nullable = TRUE, !.preserve = open,
                                                  !.additional = IF open THEN <<>> ELSE <<sub.p>>]]
         [] t[1] = "array" ->
              [sub EXCEPT !.p = [ZeroProps EXCEPT !.type = "array", !.nullable = TRUE, !.items = <<sub.p>>]]
         [] t[1] \in DOMAIN OpenAPIType ->
              Props([ZeroProps EXCEPT !.type = IF scalar = "intOrString" THEN "" ELSE scalar,
                                      !.xIntOrString = scalar = "intOrString",
                                      !.nullable = scalar = "string",
                                      !.preserve = scalar = "object"])
         [] OTHER -> NoProps

\* A bug: a schema stays in flight when it is done, so that a later field of
\* the same schema gets none of its properties.
schemaToPropsOnce(reg, id, fields, inflight) ==
    LET order == S!SetToSeq(DOMAIN fields)
        before(k) == {NameOf(fields[order[n]].type) : n \in {i \in DOMAIN order :
                         \E j \in DOMAIN order : order[j] = k /\ i < j}} \ {""}
        sub(k) == typeToProps(reg, fields[k].type, inflight \cup {id} \cup before(k))
    IN IF id \in inflight THEN Props([ZeroProps EXCEPT !.type = "object"])
       ELSE [err |-> \E k \in DOMAIN fields : sub(k).err,
             p |-> [ZeroProps EXCEPT !.type = "object",
                       !.props = [k \in DOMAIN fields |-> populateField(sub(k).p, fields[k])]]]

\* A schema that is in flight already, in a cycle of types, is an object of
\* which nothing is said.
schemaToProps(reg, id, fields, inflight) ==
    LET sub(k) == typeToProps(reg, fields[k].type, inflight \cup {id})
    IN IF id \in inflight THEN Props([ZeroProps EXCEPT !.type = "object"])
       ELSE [err |-> \E k \in DOMAIN fields : sub(k).err,
             p |-> [ZeroProps EXCEPT !.type = "object",
                       !.props = [k \in DOMAIN fields |-> populateField(sub(k).p, fields[k])],
                       !.required = {k \in DOMAIN fields : fields[k].required},
                       !.preserve = DOMAIN fields = {} /\ id \in EndsInMap]]

Metadata == {"kind", "apiVersion", "metadata"}

ToOpenAPI(reg, name) ==
    LET s == reg.schemas[doSchema(reg, name)]
        fields == InternalFields(s)
    IN IF doSchema(reg, name) = 0 THEN NoProps
       ELSE schemaToProps(reg, s.id, [k \in DOMAIN fields \ Metadata |-> fields[k]], {})

\* On a registry of its own, without mappers.
PropsOf(r) == IF Ok(r) THEN ToOpenAPI(r.reg, r.id) ELSE NoProps
ToOpenAPIFromStruct(t) == PropsOf(importType(EmptySchemas, t, <<>>))

-----------------------------------------------------------------------------
(***************************************************************************)
(* validation.go                                                           *)
(***************************************************************************)

Below0(limit, n) == limit # <<>> /\ n < limit[1]
Above0(limit, n) == limit # <<>> /\ n > limit[1]

\* Whether the value is a number is seen before the default replaces it, and
\* only of an int64, so that neither a default nor a float is held against min
\* and max.
CheckFieldCriteria(f, given) ==
    LET value == IF given = Nil THEN f.default ELSE given
        hasStrVal == value \notin {Nil, Str("")}
        strVal == IF hasStrVal THEN ToStringNoTrim(value) ELSE ""
    IN CASE ~hasStrVal /\ ~f.nullable /\ f.default = Nil -> "NotNullable"
         [] "int" \in DOMAIN given /\ Below0(f.min, given.int) -> "MinLimitExceeded"
         [] "int" \in DOMAIN given /\ Above0(f.max, given.int) -> "MaxLimitExceeded"
         [] value # Nil /\ Below0(f.minLength, Length[strVal]) -> "MinLengthExceeded"
         [] value # Nil /\ Above0(f.maxLength, Length[strVal]) -> "MaxLengthExceeded"
         [] f.options # <<>> /\ (hasStrVal \/ ~f.nullable)
              /\ \A n \in DOMAIN f.options : f.options[n] # strVal -> "InvalidOption"
         [] hasStrVal /\ f.validChars # "" /\ ~(Chars[strVal] \subseteq Chars[f.validChars]) -> "InvalidCharacters"
         [] hasStrVal /\ Chars[strVal] \cap Chars[f.invalidChars] # {} -> "InvalidCharacters"
         [] OTHER -> ""

ConvertSimple(t, value) ==
    LET str == ToString(value)
    IN IF value = Nil THEN Found(Nil)
       ELSE CASE t = <<"json">> -> Found(value)
              [] t = <<"date">> -> Found(IF str = "" THEN Nil ELSE Str(str))
              [] t = <<"boolean">> -> Found(Bool(ToBool(value)))
              [] t = <<"int">> -> ToNumber(value)
              [] t = <<"float">> -> ToFloat(value)
              [] t \in {<<"enum">>, <<"password">>, <<"string">>, <<"base64">>, <<"reference">>} ->
                   Found(Str(str))
              [] t[1] \in DOMAIN Dns -> IF str = "" \/ str \in Dns[t[1]] THEN Found(Str(str)) ELSE Missing
              [] t = <<"intOrString">> -> IF ToNumber(value).ok THEN ToNumber(value) ELSE Found(Str(str))
              [] OTHER -> Missing

\* A number is within the limits of x, a field or its OpenAPI schema.
Within(x, v) ==
    \A h \in {Halves(v)[n] : n \in DOMAIN Halves(v)} :
        (x.min # <<>> => h >= 2 * x.min[1]) /\ (x.max # <<>> => h <= 2 * x.max[1])

\* What the API server makes of the OpenAPI schema of a simple field.
Accepts(p, v) ==
    \/ v = Nil /\ p.nullable
    \/ /\ CASE p.type = "string" -> IsStr(v)
            [] p.type = "integer" -> "int" \in DOMAIN v
            [] p.type = "number" -> Halves(v) # <<>>
            [] p.type = "boolean" -> "bool" \in DOMAIN v
            [] OTHER -> p.xIntOrString
       /\ Within(p, v)
       /\ IsStr(v) => /\ ~Below0(p.minLength, Runes[v.str]) /\ ~Above0(p.maxLength, Runes[v.str])
                      /\ p.pattern # <<>> =>
                            p.pattern \in DOMAIN Class /\ Chars[v.str] \subseteq Class[p.pattern]
                      /\ p.enum # <<>> => \E n \in DOMAIN p.enum : p.enum[n] = v.str
=============================================================================
