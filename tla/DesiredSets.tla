---------------------------- MODULE DesiredSets -----------------------------
(***************************************************************************)
(* The values of type Apply (pkg/apply): how they are derived from one     *)
(* another by options, what one call makes of the options and of an object *)
(* set, and the search for the owner of an object.  Apply.tla has the      *)
(* steps of a call and what happens between them; here a call is one step, *)
(* and what counts is what it computes.                                    *)
(*                                                                         *)
(* Go maps and the arrays under slices are cells of a memory, so that two  *)
(* desiredSets can share them.  A name, a namespace or a set ID is a       *)
(* sequence of tokens, <<>> the empty string: what the code concatenates   *)
(* and splits is concatenated and split here.  A GVK is <<group, version,  *)
(* kind>>, an object key <<namespace, name>>.                              *)
(***************************************************************************)
EXTENDS Integers, Sequences, FiniteSets

SeqX == INSTANCE SequencesExt
SetX == INSTANCE FiniteSetsExt

CONSTANTS APIs,      \* discovery: served GVK -> is it namespaced
          GVKSeq,    \* the GVKs in the order of their strings
          Informers, \* GVKs whose informers New was called with
          Factory,   \* GVKs the informer factory can construct
          Injectors, \* name -> the injector registered for it
          Injected      \* the object the injector "add" adds

\* The empty string as one token.
NoString == ""
Group(g) == <<g[1], g[3]>>
Str1(s) == IF s = NoString THEN <<>> ELSE <<s>>
gvkString(g) == Str1(g[1]) \o <<"/", g[2], ", Kind=", g[3]>>

\* strings.SplitN(s, sep, 2)
Cut(s, sep) ==
    LET at == {n \in DOMAIN s : s[n] = sep}
    IN IF at = {} THEN <<s>>
       ELSE <<SubSeq(s, 1, SetX!Min(at) - 1), SubSeq(s, SetX!Min(at) + 1, Len(s))>>
Split(s, sep) == IF Len(Cut(s, sep)) = 1 THEN <<s, <<>>>> ELSE Cut(s, sep)
RSplit(s, sep) == IF Len(Cut(s, sep)) = 1 THEN <<<<>>, s>> ELSE Cut(s, sep)

-----------------------------------------------------------------------------
(***************************************************************************)
(* Options.  An Apply in memory m is [o: the desiredSet, mem: m].          *)
(***************************************************************************)

NoOwner == [gvk |-> <<>>, key |-> <<<<>>, <<>>>>, uid |-> NoString]
NoSlice == [array |-> 0, len |-> 0]
Default == <<"default">>

\* The memory a program begins with: the package's default reconcilers.
defaultReconcilers == 1
FirstMemory == <<[map |-> <<>>]>>

newDesiredSet ==
    [setID |-> <<>>, owner |-> NoOwner, defaultNamespace |-> Default, listerNamespace |-> <<>>,
     ignorePreviousApplied |-> FALSE, setOwnerReference |-> FALSE, strictCaching |-> TRUE,
     restrictClusterScoped |-> FALSE, informerFactory |-> FALSE, noDelete |-> FALSE, qps |-> 1,
     pruneTypes |-> 0, patchers |-> 0, reconcilers |-> defaultReconcilers, diffPatches |-> 0,
     noDeleteGVK |-> 0, injectors |-> NoSlice, injectorNames |-> NoSlice]

\* The map at ref; 0 is nil.
Cell(mem, ref) == IF ref = 0 THEN <<>> ELSE mem[ref].map
Entry(m, k, v) == [x \in DOMAIN m \cup {k} |-> IF x = k THEN v ELSE m[x]]

\* A copy of the map at o[field] with one more entry.
Copied(a, field, k, v) ==
    [o |-> [a.o EXCEPT ![field] = Len(a.mem) + 1],
     mem |-> Append(a.mem, [map |-> Entry(Cell(a.mem, a.o[field]), k, v)])]

\* The entry is written into the map at o[field], which is made if it is nil.
Shared(a, field, k, v) ==
    IF a.o[field] = 0 THEN Copied(a, field, k, v)
    ELSE [a EXCEPT !.mem[a.o[field]].map = Entry(@, k, v)]

\* append(s, item): the array is reused while it has room.
Spare == NoString
Array(mem, s) == IF s.array = 0 THEN <<>> ELSE mem[s.array].array
Items(mem, s) == SubSeq(Array(mem, s), 1, s.len)
appended(mem, s, item) ==
    LET old == Array(mem, s)
        grown == Append(Items(mem, s), item) \o
                 [n \in 1 .. (IF s.len = 0 THEN 0 ELSE s.len - 1) |-> Spare]
    IN IF s.len < Len(old)
       THEN [s |-> [s EXCEPT !.len = @ + 1], mem |-> [mem EXCEPT ![s.array].array[s.len + 1] = item]]
       ELSE [s |-> [array |-> Len(mem) + 1, len |-> s.len + 1], mem |-> Append(mem, [array |-> grown])]
AppendTo(a, field, item) ==
    LET r == appended(a.mem, a.o[field], item)
    IN [o |-> [a.o EXCEPT ![field] = r.s], mem |-> r.mem]

WithDiffPatch(a, g, key, patch) ==
    LET patches == Cell(a.mem, a.o.diffPatches)
        r == appended(a.mem, IF <<g, key>> \in DOMAIN patches THEN patches[<<g, key>>] ELSE NoSlice, patch)
    IN Copied([a EXCEPT !.mem = r.mem], "diffPatches", <<g, key>>, r.s)
WithGVK(a, g) == Copied(a, "pruneTypes", g, "nil")
WithSetID(a, id) == [a EXCEPT !.o.setID = id]
WithOwner(a, owner) == [a EXCEPT !.o.owner = owner]
WithOwnerKey(a, key, g) == WithOwner(a, [gvk |-> g, key |-> RSplit(key, "/"), uid |-> NoString])
WithSetOwnerReference(a) == [a EXCEPT !.o.setOwnerReference = TRUE]
WithInjector(a, inj) == AppendTo(a, "injectors", inj)
WithInjectorName(a, name) == AppendTo(a, "injectorNames", name)
WithCacheTypeFactory(a) == [a EXCEPT !.o.informerFactory = TRUE]
WithIgnorePreviousApplied(a) == [a EXCEPT !.o.ignorePreviousApplied = TRUE]
WithCacheTypes(a, g) == Copied(a, "pruneTypes", g, "informer")
WithPatcher(a, g, p) == Copied(a, "patchers", g, p)
WithReconcilerShared(a, g, r) == Shared(a, "reconcilers", g, r)
WithReconciler(a, g, r) == Copied(a, "reconcilers", g, r)
WithStrictCaching(a) == [a EXCEPT !.o.strictCaching = TRUE]
WithDynamicLookup(a) == [a EXCEPT !.o.strictCaching = FALSE]
WithRestrictClusterScoped(a) == [a EXCEPT !.o.restrictClusterScoped = TRUE]
WithDefaultNamespace(a, ns) == [a EXCEPT !.o.defaultNamespace = IF ns = <<>> THEN Default ELSE ns]
WithListerNamespace(a, ns) == [a EXCEPT !.o.listerNamespace = ns]
WithRateLimiting(a, qps) == [a EXCEPT !.o.qps = qps]
WithNoDelete(a) == [a EXCEPT !.o.noDelete = TRUE]
WithNoDeleteGVK(a, g) == Shared(a, "noDeleteGVK", g, NoString)

-----------------------------------------------------------------------------
(***************************************************************************)
(* Object sets (pkg/objectset).  An object given to a set is NilObject, or       *)
(* [gvk, key, prune]; a kind that no scheme knows has the GVK <<>>.        *)
(***************************************************************************)

NilObject == [gvk |-> <<"nil">>]
EmptySet == [objects |-> <<>>, gks |-> {}, gvkOrder |-> <<>>, err |-> FALSE]

add(os, obj) ==
    IF obj = NilObject THEN os
    ELSE IF obj.gvk = <<>> THEN [os EXCEPT !.err = TRUE]
    ELSE [os EXCEPT !.objects = Entry(@, <<obj.gvk, obj.key>>, obj),
                    !.gks = @ \cup {<<Group(obj.gvk), obj.key>>},
                    !.gvkOrder = IF obj.gvk \in SeqX!Range(@) THEN @ ELSE Append(@, obj.gvk)]
NewObjectSet(objs) ==
    LET set[n \in 0 .. Len(objs)] == IF n = 0 THEN EmptySet ELSE add(set[n - 1], objs[n])
    IN set[Len(objs)]
ContainsKey(os, g, key) == <<Group(g), key>> \in os.gks
\* The GVKs as they were added, then the rest of the known ones by their strings.
GVKOrder(os, known) ==
    LET order[n \in 0 .. Len(GVKSeq)] ==
            IF n = 0 THEN os.gvkOrder
            ELSE IF GVKSeq[n] \in known \ SeqX!Range(os.gvkOrder) THEN Append(order[n - 1], GVKSeq[n])
            ELSE order[n - 1]
    IN order[Len(GVKSeq)]

-----------------------------------------------------------------------------
(***************************************************************************)
(* Labels.  The hash is that of the values one after the other, which is   *)
(* modelled by what is hashed.                                             *)
(***************************************************************************)

Annotations(o) ==
    [id |-> o.setID, gvk |-> IF o.owner = NoOwner THEN <<>> ELSE gvkString(o.owner.gvk),
     name |-> o.owner.key[2], namespace |-> o.owner.key[1]]
objectSetHash(ann) == ann.id \o ann.gvk \o ann.name \o ann.namespace
LabelsMissing(o) == o.setID = <<>> /\ o.owner = NoOwner
NoAnnotations == [id |-> <<>>, gvk |-> <<>>, name |-> <<>>, namespace |-> <<>>]

\* The objects of the set, by GVK and key, with labels and annotations.
Labelled(o, obj) == [hash |-> objectSetHash(Annotations(o)), ann |-> Annotations(o),
                     prune |-> obj.prune, refs |-> {}]
injectLabelsAndAnnotations(o, os) == [k \in DOMAIN os.objects |-> Labelled(o, os.objects[k])]

\* Injectors see the labelled objects: "add" adds one without labels, "drop"
\* drops all, "fail" fails.
Inject(inj, r) ==
    IF r.err \/ inj = NoString THEN r
    ELSE IF inj = "fail" THEN [r EXCEPT !.err = TRUE]
    ELSE IF inj = "drop" THEN [r EXCEPT !.objs = <<>>]
    ELSE IF inj = "add"
    THEN [r EXCEPT !.objs = Entry(@, <<Injected.gvk, Injected.key>>,
                                  [hash |-> <<>>, ann |-> NoAnnotations, prune |-> Injected.prune, refs |-> {}])]
    ELSE r
Registered(name) == IF name \in DOMAIN Injectors THEN Injectors[name] ELSE NoString
runInjectors(a, objs) ==
    LET named == Items(a.mem, a.o.injectorNames)
        all == Items(a.mem, a.o.injectors) \o [n \in DOMAIN named |-> Registered(named[n])]
    IN SeqX!FoldLeft(LAMBDA r, inj : Inject(inj, r), [objs |-> objs, err |-> FALSE], all)

\* getRateLimit: an empty set forgets the limiter; the first call for a hash
\* decides its rate.
getRateLimit(rls, hash, qps, remove) ==
    IF remove THEN [h \in DOMAIN rls \ {hash} |-> rls[h]]
    ELSE IF hash \in DOMAIN rls THEN rls ELSE Entry(rls, hash, qps)

-----------------------------------------------------------------------------
(***************************************************************************)
(* process: one GVK of a call.  The store maps <<group/kind, key>> to an   *)
(* object; seen is the store as the informers know it.                     *)
(***************************************************************************)

IsNamespaced(g) == APIs[g]

\* Discovery of a group and version that is not served is a "not found" of
\* the API server; that of a kind missing in one that is served is not.
getControllerAndClient(a, g) ==
    LET prune == Cell(a.mem, a.o.pruneTypes)
        known == IF g \in DOMAIN prune THEN prune[g] = "informer" ELSE g \in Informers
        made == ~known /\ a.o.informerFactory
        informer == known \/ (made /\ g \in Factory)
    IN [err |-> \/ g \notin DOMAIN APIs
                \/ made /\ g \notin Factory
                \/ ~informer /\ a.o.strictCaching,
        notFound |-> \A h \in DOMAIN APIs : <<h[1], h[2]>> # <<g[1], g[2]>>, informer |-> informer]

\* assignOwnerReference, adjustNamespace, clearNamespace: where an object of
\* GVK g goes, and whom it then refers to.
Assigns(o) == o.setOwnerReference /\ o.owner # NoOwner
Adopts(o, g, ns) ==
    /\ Assigns(o)
    /\ IsNamespaced(o.owner.gvk) => IsNamespaced(g) /\ ns \in {<<>>, o.owner.key[1]}
Namespace(o, g, ns) ==
    LET assigned == IF Adopts(o, g, ns) /\ ns = <<>> THEN o.owner.key[1] ELSE ns
    IN IF ~IsNamespaced(g) THEN <<>> ELSE IF assigned = <<>> THEN o.defaultNamespace ELSE assigned
Placed(o, g, objs) ==
    LET keys == {k \in {j[2] : j \in DOMAIN objs} : <<g, k>> \in DOMAIN objs}
        at(k) == <<Namespace(o, g, k[1]), k[2]>>
        refs(k) == IF Adopts(o, g, k[1]) THEN {o.owner.uid} ELSE {}
        put(k) == LET obj == objs[<<g, k>>] IN
                  [hash |-> obj.hash, ann |-> obj.ann, prune |-> obj.prune, refs |-> refs(k)]
    IN [p \in {at(k) : k \in keys} |-> put(CHOOSE k \in keys : at(k) = p)]

\* The namespaces that are listed; <<>> is all of them.
Listed(o, g, informer, objs) ==
    IF informer THEN {IF IsNamespaced(g) THEN o.listerNamespace ELSE <<>>}
    ELSE IF o.listerNamespace # <<>> THEN {o.listerNamespace}
    ELSE IF o.owner # NoOwner THEN {<<>>} ELSE {p[1] : p \in DOMAIN objs}
ListFails(o, g, informer) == ~informer /\ ~IsNamespaced(g) /\ o.listerNamespace # <<>>
list(o, g, hash, view, namespaces) ==
    LET keys == {k \in {j[2] : j \in DOMAIN view} :
                    /\ <<Group(g), k>> \in DOMAIN view /\ view[<<Group(g), k>>].hash = hash
                    /\ \E ns \in namespaces : ns \in {<<>>, k[1]}}
    IN [k \in keys |-> view[<<Group(g), k>>]]

filterNone(o, os, g, keys) == keys
filterCrossVersion(o, os, g, keys) ==
    {k \in keys : /\ ~ContainsKey(os, g, k)
                  /\ ~(k[1] = o.defaultNamespace /\ ContainsKey(os, g, <<<<>>, k[2]>>))}

\* What the patch makes of an object; without the state applied before it
\* removes nothing.
Patched(o, old, new) ==
    IF o.ignorePreviousApplied
    THEN [new EXCEPT !.refs = @ \cup old.refs, !.prune = @ /\ old.prune] ELSE new
AnnotationsOnly(old, new) == [old EXCEPT !.ann = new.ann] = new

EntryAt(m, g) == IF g \in DOMAIN m THEN m[g] ELSE NoString

\* The API calls of process, on r = [store, err, plan].  The API server has no
\* object that refers to an owner without a UID.
createF(a, g, objs, r, k) ==
    IF NoString \in objs[k].refs THEN [r EXCEPT !.err = TRUE]
    ELSE [r EXCEPT !.store = Entry(@, <<Group(g), k>>, objs[k])]
remove(r, g, k) ==
    IF <<Group(g), k>> \notin DOMAIN r.store THEN [r EXCEPT !.err = TRUE]
    ELSE [r EXCEPT !.store = [j \in DOMAIN @ \ {<<Group(g), k>>} |-> @[j]]]
updateF(a, g, old, objs, r, k) ==
    LET new == Patched(a.o, old, objs[k])
        replace == "replace" \in {EntryAt(Cell(a.mem, a.o.reconcilers), g), EntryAt(Cell(a.mem, a.o.patchers), g)}
    IN IF new = old \/ EntryAt(Cell(a.mem, a.o.reconcilers), g) = "handled" THEN r
       ELSE IF replace THEN [remove(r, g, k) EXCEPT !.err = TRUE]
       ELSE IF NoString \in new.refs \/ <<Group(g), k>> \notin DOMAIN r.store THEN [r EXCEPT !.err = TRUE]
       ELSE [r EXCEPT !.store[<<Group(g), k>>] = new]
deleteF(a, g, r, k) ==
    IF a.o.noDelete \/ g \in DOMAIN Cell(a.mem, a.o.noDeleteGVK) THEN r ELSE remove(r, g, k)

\* What a call finds, what of it is to be deleted, and what is done about the
\* object at key k.
Existing(a, g, hash, objs, store, seen) ==
    LET informer == getControllerAndClient(a, g).informer
    IN list(a.o, g, hash, IF informer THEN seen ELSE store, Listed(a.o, g, informer, objs))
toDelete(a, os, g, objs, existing) ==
    filterCrossVersion(a.o, os, g, {k \in DOMAIN existing \ DOMAIN objs : existing[k].prune})
One(a, g, objs, existing, r, k) ==
    IF k \notin DOMAIN objs THEN deleteF(a, g, r, k)
    ELSE IF k \in DOMAIN existing THEN updateF(a, g, existing[k], objs, r, k)
    ELSE IF <<Group(g), k>> \in DOMAIN r.store THEN updateF(a, g, r.store[<<Group(g), k>>], objs, r, k)
    ELSE createF(a, g, objs, r, k)
\* The calls for the objects at keys, which do not touch one another.
All(a, g, objs, existing, keys, r) ==
    LET one(k) == One(a, g, objs, existing, r, k)
        mine == {<<Group(g), k>> : k \in keys}
        left == (DOMAIN r.store \ mine) \cup {j \in mine : j \in DOMAIN one(j[2]).store}
    IN [r EXCEPT !.store = [j \in left |-> IF j \in mine THEN one(j[2]).store[j] ELSE r.store[j]],
                 !.err = @ \/ \E k \in keys : one(k).err]

Rejects(a, g) ==
    LET c == getControllerAndClient(a, g)
    IN \/ c.err \/ (~IsNamespaced(g) /\ a.o.restrictClusterScoped)
       \/ Assigns(a.o) /\ a.o.owner.gvk \notin DOMAIN APIs
       \/ ListFails(a.o, g, c.informer)
process(a, os, all, hash, seen, dry, r, g) ==
    LET objs == Placed(a.o, g, all)
        existing == Existing(a, g, hash, objs, r.store, seen)
        deleted == toDelete(a, os, g, objs, existing)
        change(k) == Patched(a.o, existing[k], objs[k])
    IN IF Rejects(a, g) THEN [r EXCEPT !.err = TRUE]
       ELSE IF dry
       THEN [r EXCEPT !.plan = @ \cup ({"create"} \X {<<g, k>> : k \in DOMAIN objs \ DOMAIN existing})
                                 \cup ({"delete"} \X {<<g, k>> : k \in deleted})
                                 \cup ({"update"} \X {<<g, k>> : k \in {j \in DOMAIN objs \cap DOMAIN existing :
                                          ~AnnotationsOnly(existing[j], change(j))}})]
       ELSE All(a, g, objs, existing, DOMAIN objs \cup deleted, r)

\* The GVKs one after the other.
processAll(a, os, all, order, hash, seen, dry, r) ==
    LET after[n \in 0 .. Len(order)] ==
            IF n = 0 THEN r ELSE process(a, os, all, hash, seen, dry, after[n - 1], order[n])
    IN after[Len(order)]

\* apply and dryRun: what the call leaves behind.
apply(a, objs, store, seen, rls, dry) ==
    LET os == NewObjectSet(objs)
        gone == os.objects = <<>>
        hash == objectSetHash(Annotations(a.o))
        injected == runInjectors(a, injectLabelsAndAnnotations(a.o, os))
        r == [store |-> store, err |-> FALSE, plan |-> {}, rls |-> rls]
        limited == [r EXCEPT !.rls = getRateLimit(rls, hash, a.o.qps, gone)]
        order == GVKOrder(os, DOMAIN Cell(a.mem, a.o.pruneTypes))
    IN IF os.err \/ LabelsMissing(a.o) THEN [r EXCEPT !.err = TRUE]
       ELSE IF injected.err THEN [limited EXCEPT !.err = TRUE]
       ELSE processAll(a, os, injected.objs, order, hash, seen, dry, limited)

-----------------------------------------------------------------------------
(***************************************************************************)
(* Owners.                                                                 *)
(***************************************************************************)

getGVK(label) ==
    LET parts == Cut(label, ", Kind=")
        gv == Split(parts[1], "/")
    IN IF Len(parts) # 2 THEN <<>>
       ELSE <<IF gv[1] = <<>> THEN NoString ELSE gv[1][1], gv[2][1], parts[2][1]>>

\* The key of the owner in the store, or why there is none.
FindOwnerByName(a, obj, store, seen) ==
    LET g == getGVK(obj.ann.gvk)
        key == <<Group(g), <<<<>>, obj.ann.name>>>>
    IN IF obj.ann.gvk = <<>> THEN [err |-> "no owner", owner |-> <<>>]
       ELSE IF key \in DOMAIN store THEN [err |-> "nil", owner |-> key]
       ELSE [err |-> "not found", owner |-> <<>>]
FindOwner(a, obj, store, seen) ==
    LET g == getGVK(obj.ann.gvk)
        c == getControllerAndClient(a, g)
        key == <<Group(g), <<obj.ann.namespace, obj.ann.name>>>>
    IN IF obj.ann.gvk = <<>> THEN [err |-> "no owner", owner |-> <<>>]
       ELSE IF c.err THEN [err |-> IF c.notFound THEN "not found" ELSE "error", owner |-> <<>>]
       ELSE IF key \in DOMAIN (IF c.informer THEN seen ELSE store) THEN [err |-> "nil", owner |-> key]
       ELSE [err |-> "not found", owner |-> <<>>]

\* PurgeOrphan of the object at key k, whose GVK is g.
PurgeOrphan(a, g, k, obj, store, seen) ==
    LET found == FindOwner(a, obj, store, seen)
        c == getControllerAndClient([a EXCEPT !.o.strictCaching = FALSE], g)
        r == [store |-> store, err |-> FALSE]
    IN IF found.err \in {"nil", "no owner"} THEN r
       ELSE IF found.err = "error" \/ c.err THEN [r EXCEPT !.err = TRUE]
       ELSE remove(r, g, k)
=============================================================================
