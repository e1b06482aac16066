------------------------------ MODULE Programs ------------------------------
(***************************************************************************)
(* Programs that use the values of type Apply.  One derives Applies from   *)
(* one another ("options"); one makes calls with a few of them, while      *)
(* owners come and go and the informers fall behind ("calls").             *)
(***************************************************************************)
EXTENDS DesiredSets

CONSTANTS OptionKinds,      \* GVKs that options are given for
          Applies,    \* what a program of calls has: sequences of Applies
          ObjectSets, \* what Apply and DryRun are called with
          OwnerKeys,  \* owners that come and go: <<group/kind, key>>
          MaxDerived, \* options given in a program of options
          MaxCalls    \* calls in another one

VARIABLES aps,        \* the desiredSets there are
          mem,        \* the memory they share
          store,      \* the objects in the API server
          seen,       \* and in the informers
          rls,        \* the rate limiters of the process, by hash
          last,       \* the last call, if it was one of Apply or PurgeOrphan and went well
          calls
programVars == <<aps, mem, store, seen, rls, last, calls>>

NoLast == [op |-> "none"]
Unlabelled == [hash |-> <<>>, ann |-> NoAnnotations, prune |-> TRUE, refs |-> {}]
Base == [o |-> newDesiredSet, mem |-> FirstMemory]
Ap(n) == [o |-> aps[n], mem |-> mem]

\* What an option may write into: the maps that are copied, and the arrays of
\* injectors, of their names and of the patches for each object.
CopiedMaps == {"pruneTypes", "patchers", "reconcilers", "diffPatches"}
Slices(m, o) == {o.injectors, o.injectorNames} \cup SeqX!Range(Cell(m, o.diffPatches))

\* A program's Applies in memory m: their maps and arrays are there, a slice is
\* no longer than its array, and a map that WithNoDeleteGVK writes into is no
\* map that other options copy.
IsSeq(s) == s \in Seq(SeqX!Range(s))
MapThere(m, r) == r = 0 \/ (r \in DOMAIN m /\ DOMAIN m[r] = {"map"})
SliceThere(m, s) ==
    /\ s \in [array: Nat, len: Nat]
    /\ s.array = 0 => s.len = 0
    /\ s.array # 0 => /\ s.array \in DOMAIN m /\ DOMAIN m[s.array] = {"array"}
                      /\ IsSeq(m[s.array].array)
                      /\ s.len <= Len(m[s.array].array)
Sound(as, m) ==
    /\ IsSeq(m) /\ IsSeq(as)
    /\ \A n \in DOMAIN as :
          /\ DOMAIN as[n] = DOMAIN newDesiredSet
          /\ \A f \in CopiedMaps \cup {"noDeleteGVK"} : as[n][f] \in Nat /\ MapThere(m, as[n][f])
          /\ \A s \in Slices(m, as[n]) : SliceThere(m, s)
          /\ as[n].noDeleteGVK # 0 => \A k \in DOMAIN as, f \in CopiedMaps : as[k][f] # as[n].noDeleteGVK

\* The key of an owner is a namespace and a name; the separators of a GVK's
\* string are in none of its parts; objects are given in a list.
IsKey(k) == k = <<k[1], k[2]>>
ASSUME ProgramsAssumption ==
    /\ IsSeq(GVKSeq) /\ \A objs \in ObjectSets : IsSeq(objs)
    /\ \A as \in Applies : Sound(as.aps, as.mem) /\ \A n \in DOMAIN as.aps : IsKey(as.aps[n].owner.key)
    /\ \A k \in OwnerKeys : IsKey(k[2])
    /\ \A g \in DOMAIN APIs : g = <<g[1], g[2], g[3]>> /\ {g[1], g[2], g[3]} \cap {"/", ", Kind="} = {}

ProgramsInit ==
    /\ calls = 0 /\ rls = <<>> /\ last = NoLast
    /\ store \in {[k \in ks |-> Unlabelled] : ks \in SUBSET OwnerKeys} /\ seen = store

\* In a program that does something else there is nothing to see.
ProgramsRest == calls = 0 /\ rls = <<>> /\ last = NoLast /\ store = <<>> /\ seen = store

\* A program that has one Apply with three injectors, and the first of all.
OptionsInit ==
    LET a == WithInjector(WithInjector(WithInjector(Base, "same"), "same"), "same")
    IN aps = <<newDesiredSet, a.o>> /\ mem = a.mem
\* Applies that were derived one after the other.
CallsInit == \E as \in Applies : aps = as.aps /\ mem = as.mem

OneCall == calls < MaxCalls /\ calls' = calls + 1

-----------------------------------------------------------------------------
(***************************************************************************)
(* Options: the nth Apply begets another.                                  *)
(***************************************************************************)
Derive(r) == /\ calls < MaxDerived /\ calls' = calls + 1
             /\ aps' = Append(aps, r.o) /\ mem' = r.mem
             /\ UNCHANGED <<store, seen, rls, last>>

\* What a generating handler makes of its Apply for an object; the option
\* NoOwnerReference is the one that sets owner references.
ConfigureApplyForObject(a, ns, opts) ==
    LET dynamic == IF "DynamicLookup" \in opts THEN WithDynamicLookup(a) ELSE a
        owned == IF "NoOwnerReference" \in opts THEN WithSetOwnerReference(dynamic) ELSE dynamic
        within == IF "AllowCrossNamespace" \in opts /\ "AllowClusterScoped" \notin opts
                  THEN WithListerNamespace(WithDefaultNamespace(owned, ns), ns) ELSE owned
    IN  IF "AllowClusterScoped" \in opts THEN within ELSE WithRestrictClusterScoped(within)

Derives(n) ==
    LET a == Ap(n) IN
    \/ \E opts \in {{}, {"NoOwnerReference", "AllowCrossNamespace"}, {"DynamicLookup", "AllowClusterScoped"}} :
        Derive(ConfigureApplyForObject(a, <<"n">>, opts))
    \/ Derive(WithSetID(a, <<"s">>)) \/ Derive(WithSetOwnerReference(a))
    \/ Derive(WithCacheTypeFactory(a)) \/ Derive(WithIgnorePreviousApplied(a))
    \/ Derive(WithStrictCaching(a)) \/ Derive(WithDynamicLookup(a))
    \/ Derive(WithRestrictClusterScoped(a)) \/ Derive(WithNoDelete(a))
    \/ Derive(WithRateLimiting(a, 2))
    \/ \E ns \in {<<>>, <<"n">>} : \/ Derive(WithDefaultNamespace(a, ns)) \/ Derive(WithListerNamespace(a, ns))
    \/ \E k \in OwnerKeys, g \in OptionKinds : Derive(WithOwner(a, [gvk |-> g, key |-> k[2], uid |-> "u"]))
    \/ \E k \in {<<"n">>, <<"n", "/", "m">>}, g \in OptionKinds : Derive(WithOwnerKey(a, k, g))
    \/ \E inj \in {"add", "drop"} : Derive(WithInjector(a, inj)) \/ Derive(WithInjectorName(a, inj))
    \/ \E g \in OptionKinds :
        \/ Derive(WithGVK(a, g)) \/ Derive(WithCacheTypes(a, g)) \/ Derive(WithNoDeleteGVK(a, g))
        \/ Derive(WithPatcher(a, g, "replace")) \/ Derive(WithReconciler(a, g, "handled"))
        \/ \E p \in {"p", "q"} : Derive(WithDiffPatch(a, g, <<<<>>, <<"x">>>>, p))

-----------------------------------------------------------------------------
(***************************************************************************)
(* Calls.                                                                  *)
(***************************************************************************)
Did(op, n, what, r) ==
    /\ last' = IF r.err THEN NoLast
               ELSE [op |-> op, a |-> Ap(n), what |-> what, before |-> store, seen |-> seen]
    /\ UNCHANGED <<aps, mem, seen>>

Apply(n) == OneCall /\ \E objs \in ObjectSets :
    \E r \in {apply(Ap(n), objs, store, seen, rls, FALSE)} :
        Did("Apply", n, objs, r) /\ store' = r.store /\ rls' = r.rls

DryRun(n) == OneCall /\ \E objs \in ObjectSets :
    \E r \in {apply(Ap(n), objs, store, seen, rls, TRUE)} :
        store' = r.store /\ rls' = r.rls /\ last' = NoLast /\ UNCHANGED <<aps, mem, seen>>

\* A handler that was told of an object, as the informer has it.
Purge(n) == OneCall /\ \E k \in DOMAIN seen \ OwnerKeys, g \in DOMAIN APIs :
    /\ Group(g) = k[1]
    /\ \E r \in {PurgeOrphan(Ap(n), g, k[2], seen[k], store, seen)} :
          Did("PurgeOrphan", n, k, r) /\ store' = r.store /\ UNCHANGED rls

\* Others: an owner comes or goes, the informers catch up.
Owner == \E k \in OwnerKeys :
    /\ store' = IF k \in DOMAIN store THEN [j \in DOMAIN store \ {k} |-> store[j]] ELSE Entry(store, k, Unlabelled)
    /\ last' = NoLast /\ OneCall /\ UNCHANGED <<aps, mem, seen, rls>>
Sync ==
    /\ seen # store /\ seen' = store /\ last' = NoLast
    /\ UNCHANGED <<aps, mem, store, rls, calls>>

Calls == (\E n \in DOMAIN aps : Apply(n) \/ DryRun(n) \/ Purge(n)) \/ Owner \/ Sync
Options == \E n \in DOMAIN aps : Derives(n)

\* A program may do both, in any order.
ProgramsNext == Options \/ Calls
ProgramsSpec == ProgramsInit /\ (OptionsInit \/ CallsInit) /\ [][ProgramsNext]_programVars

-----------------------------------------------------------------------------
(***************************************************************************)
(* Properties                                                              *)
(***************************************************************************)
Given(o, field) == Cell(mem, o[field])
GivenNow(o, field) == Cell(mem', o[field])

\* An option given to an Apply b leaves b and every other Apply as they were,
\* and so the default reconcilers of every Apply.  Two things are shared: the
\* GVKs of WithNoDeleteGVK, of which there may be more, and the room behind the
\* injectors and patches of b, where another Apply that was derived from b has
\* its next one: only that one may be replaced.
OptionsStay ==
    [][\E b \in DOMAIN aps : \A n \in DOMAIN aps :
         LET o == aps[n] IN
         /\ aps'[n] = o
         /\ \A f \in CopiedMaps : GivenNow(o, f) = Given(o, f)
         /\ DOMAIN Given(o, "noDeleteGVK") \subseteq DOMAIN GivenNow(o, "noDeleteGVK")
         /\ \A s \in Slices(mem, o) : \A i \in 1 .. s.len :
              \/ Items(mem', s)[i] = Items(mem, s)[i]
              \/ \E t \in Slices(mem, aps[b]) : t.array = s.array /\ i = t.len + 1]_<<aps, mem>>

\* The objects of a call as the injectors return them, the ones among them with
\* the labels of the set, and where an object belongs.
Returned(a, objs) == runInjectors(a, injectLabelsAndAnnotations(a.o, NewObjectSet(objs))).objs
Kept(a, objs) ==
    LET all == Returned(a, objs) IN {k \in DOMAIN all : all[k].hash = objectSetHash(Annotations(a.o))}
Place(o, k) == <<Namespace(o, k[1], k[2][1]), k[2][2]>>
Spot(o, k) == <<Group(k[1]), Place(o, k)>>
There(a, k) ==
    Spot(a.o, k) \in DOMAIN store /\ store[Spot(a.o, k)].hash = objectSetHash(Annotations(a.o))

\* filterCrossVersion knows an object of the set by the namespace it was given,
\* or the default one if it was given none.
Recognised(a, objs) == \A k \in Kept(a, objs) :
    /\ k \in DOMAIN NewObjectSet(objs).objects
    /\ \/ Place(a.o, k) = k[2]
       \/ k[2] = <<<<>>, k[2][2]>> /\ Place(a.o, k) = <<a.o.defaultNamespace, k[2][2]>>
\* No reconciler takes care of an object, and no injector puts one without
\* labels in its place.
Labels(a, objs, k) ==
    /\ EntryAt(Cell(a.mem, a.o.reconcilers), k[1]) # "handled"
    /\ \A j \in DOMAIN Returned(a, objs) : Spot(a.o, j) = Spot(a.o, k) => j \in Kept(a, objs)

\* After a call of Apply that returned no error every object of the set is
\* there with the labels of the set, although the GVKs that follow may be other
\* versions of its kind, and a dry run had planned each of the deletions.
AppliedStays ==
    LET a == last.a
        plan == apply(a, last.what, last.before, last.seen, rls, TRUE).plan
    IN last.op = "Apply" /\ Recognised(a, last.what) =>
          /\ last.seen = last.before =>
                \A k \in Kept(a, last.what) : Labels(a, last.what, k) => There(a, k)
          /\ \A k \in DOMAIN last.before \ DOMAIN store :
                \E p \in plan : p[1] = "delete" /\ Group(p[2][1]) = k[1] /\ p[2][2] = k[2]

\* PurgeOrphan deletes no object whose owner is there, in the API server and in
\* the informers.  The version of the owner must be served: the discovery of
\* another one answers "not found" as well.
PurgeSpares ==
    last.op = "PurgeOrphan" /\ last.what \in DOMAIN last.before \ DOMAIN store =>
        \A n \in DOMAIN aps :
            /\ aps[n].owner # NoOwner /\ aps[n].owner.gvk \in DOMAIN APIs
            /\ last.seen[last.what].ann = Annotations(aps[n])
            => <<Group(aps[n].owner.gvk), aps[n].owner.key>> \notin DOMAIN last.before \cap DOMAIN last.seen

\* "check for resources in the objectset but under a different version of the
\* same group/kind", says the comment in process where it takes these from what
\* it is about to delete: what a call has applied it does not delete.
CrossVersionKept ==
    last.op = "Apply" /\ last.seen = last.before =>
        \A k \in Kept(last.a, last.what) : There(last.a, k)

\* "desiredSets without owners will never return objects to delete", says the
\* comment in list.
NoOwnerNoDelete ==
    last.op = "Apply" /\ last.a.o.owner = NoOwner => DOMAIN last.before \subseteq DOMAIN store
=============================================================================
