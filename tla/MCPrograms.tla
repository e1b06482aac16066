----------------------------- MODULE MCPrograms -----------------------------
EXTENDS Programs

LOCAL INSTANCE TLC

\* A kind of owners, a kind in two versions and one without namespaces; the
\* version v0 of the owners is no longer served.
Own0 == <<"g", "v0", "Own">>
Own1 == <<"g", "v1", "Own">>
Obj1 == <<"h", "v1", "Obj">>
Obj2 == <<"h", "v2", "Obj">>
Top == <<"h", "v1", "Top">>
MCAPIs == (Own1 :> TRUE) @@ (Obj1 :> TRUE) @@ (Obj2 :> TRUE) @@ (Top :> FALSE)
MCGVKSeq == <<Own1, Obj1, Top, Obj2>>
MCInformers == {Own1}
MCFactory == {Obj1, Top, Obj2}
MCInjectors == [add |-> "add", drop |-> "drop"]
MCOptionKinds == {Obj1, Obj2}

\* Objects, in the namespace n, in another one and in none.
N == <<"n">>
Object(g, ns, name) == [gvk |-> g, key |-> <<ns, <<name>>>>, prune |-> TRUE]
MCInjected == Object(Obj2, N, "e")
MCOwnerKeys == {<<Group(Own1), <<N, <<"a">>>>>>}
MCObjectSets ==
    {<<>>,
     <<Object(Obj1, <<>>, "x"), NilObject>>,
     <<Object(Obj2, N, "x"), Object(Top, <<>>, "t")>>,
     <<Object(Obj1, N, "x"), [Object(Obj1, N, "y") EXCEPT !.prune = FALSE], Object(Top, N, "t")>>,
     <<Object(<<"h", "v9", "Obj">>, <<>>, "x"), Object(Obj2, N, "y")>>,
     <<Object(<<>>, <<>>, "x")>>}

\* Applies without informers and with them, for the owner a and for the set s.
Uncached(a) == WithGVK(WithGVK(WithGVK(WithDynamicLookup(a), Obj1), Obj2), Top)
CachedOnly(a) == WithCacheTypes(WithCacheTypes(a, Obj1), Obj2)
Partly(a) == WithCacheTypeFactory(WithCacheTypes(a, Obj2))
ForA(a, g) == WithOwner(a, [gvk |-> g, key |-> <<N, <<"a">>>>, uid |-> "u"])
ForKey(a) == WithOwnerKey(a, <<"n", "/", "a">>, Own1)
ForS(m) == WithSetID(Uncached([Base EXCEPT !.mem = m]), <<"s">>)

First == {ForA(CachedOnly(Base), Own1), ForA(Partly(Base), Own1), ForA(Base, Own1),
          ForA(Uncached(Base), Own0), ForKey(Uncached(Base))}
         \cup {WithSetOwnerReference(a) : a \in {ForA(Uncached(Base), Own1), ForA(Uncached(Base), Own0),
                                                 ForKey(Uncached(Base))}}
Second(a) == {WithSetID(a, <<"s">>), WithListerNamespace(a, N), WithNoDeleteGVK(a, Obj1), WithNoDelete(a),
              WithIgnorePreviousApplied(a), WithRestrictClusterScoped(a), WithDefaultNamespace(a, N),
              WithInjector(a, "add"), WithInjector(a, "drop"), WithInjector(a, "fail"),
              WithInjectorName(a, "none"), WithPatcher(a, Obj1, "replace"),
              WithReconciler(a, Obj2, "handled")}

Pair(a, b) == [aps |-> <<a.o, b.o>>, mem |-> b.mem]
MCApplies == {Pair(ForA(Uncached(Base), Own1), b) : b \in Second(ForA(Uncached(Base), Own1))}
             \cup {Pair(a, ForS(a.mem)) : a \in First}
=============================================================================
