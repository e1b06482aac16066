-------------------------- MODULE NeedACert_proofs --------------------------
(* Proofs about the certificates of services: a configuration trusts only    *)
(* certificates that were stored, and when the controllers rest every        *)
(* service has its certificate and every configuration trusts it; for any    *)
(* services, configurations, workers and disturbances.                       *)
EXTENDS NeedACert, SequenceTheorems, FiniteSetTheorems, WellFoundedInduction, TLAPS

\* The types of services, secrets and bundles.
Names == {v.dns : v \in Variants}
Svc == [annotated: BOOLEAN, dns: Names, caOnly: BOOLEAN, uid: Nat \ {0}]
Sec == [serial: Nat \ {0}, dns: Names, owner: Nat]
Bundle == [serial: Nat, caOnly: BOOLEAN]
BundlesOf(c) == [DOMAIN Calls[c] -> Bundle]
Bundles == UNION {BundlesOf(c) : c \in Configs}
AllKeys == Services \cup Configs

\* What a worker holds while it is in generateSecret, and before its write.
Base == [bundle: Bundles, current: BOOLEAN]
InGenerate == [pc: {"lock", "create", "get", "update"}, key: AllKeys, svc: Services, seen: Svc,
               i: Nat, base: Base \cup {<<>>}, copy: Bundles \cup {<<>>}, sec: Sec \cup {NoSecret}]
InWrite == [pc: {"write"}, key: Configs, base: Base, copy: Bundles]

\* The certificates of bundle b of c were stored in the secrets of the services.
IsStored(c, b, st) ==
    \A i \in DOMAIN Calls[c] : b[i] # NoBundle => <<Calls[c][i], b[i].serial>> \in st
SecStored(s, sec, st) == sec # NoSecret => <<s, sec.serial>> \in st

\* A worker has a key of its own, and works for a service the key calls.
ServiceJob(w, j) == j \in InGenerate /\ j.key \in Services \cap Keys[w] /\ j.svc = j.key
ConfigJob(w, j, st) ==
    /\ j \in InGenerate /\ j.key \in Configs \cap Keys[w]
    /\ j.i \in DOMAIN Calls[j.key] /\ j.svc = Calls[j.key][j.i]
    /\ j.base \in Base /\ j.base.bundle \in BundlesOf(j.key)
    /\ j.copy \in BundlesOf(j.key) /\ IsStored(j.key, j.copy, st)
WriteJob(w, j, st) ==
    /\ j \in InWrite /\ j.key \in Configs \cap Keys[w]
    /\ j.copy \in BundlesOf(j.key) /\ IsStored(j.key, j.copy, st)
JobOK(w, j, st) ==
    \/ j = Idle
    \/ (ServiceJob(w, j) \/ ConfigJob(w, j, st)) /\ (j.pc = "update" => j.sec \in Sec)
    \/ WriteJob(w, j, st)

\* The same of all configurations, and of all secrets.
ConfigsOK(f, st) == /\ f \in [Configs -> Bundles]
                    /\ \A c \in Configs : f[c] \in BundlesOf(c) /\ IsStored(c, f[c], st)
SecretsOK(f, st) == /\ f \in [Services -> Sec \cup {NoSecret}]
                    /\ \A s \in Services : SecStored(s, f[s], st)

\* Every value has its type, every bundle the length of the calls it is for,
\* and every certificate at hand was stored in the secret of its service.
StoredInv ==
    /\ service \in [Services -> Svc \cup {Absent}]
    /\ SecretsOK(secret, stored) /\ ConfigsOK(config, stored)
    /\ DOMAIN cache = {"service", "secret", "config"}
    /\ cache = [service |-> cache.service, secret |-> cache.secret, config |-> cache.config]
    /\ cache.service \in [Services -> Svc \cup {Absent}]
    /\ SecretsOK(cache.secret, stored) /\ ConfigsOK(cache.config, stored)
    /\ news \subseteq AllKeys /\ queue \subseteq AllKeys
    /\ timer \in [Services -> Nat]
    /\ DOMAIN work = Workers /\ work = [w \in Workers |-> work[w]]
    /\ \A w \in Workers : JobOK(w, work[w], stored)
    /\ serials \in Nat /\ uids \in Nat /\ due \in Nat

-----------------------------------------------------------------------------
(* Lemmas about the operators *)

\* A nonempty set of numbers has a least one.
LEMMA LeastNumber ==
    ASSUME NEW S \in SUBSET Nat, S # {}
    PROVE  \E k \in S : \A l \in S : k <= l
<1>1. PICK k \in S : \A l \in S : ~(<<l, k>> \in OpToRel(<, Nat))
  BY WFMin, NatLessThanWellFounded
<1>2. ASSUME NEW l \in S, l < k PROVE FALSE
  <2>1. <<l, k>> \in OpToRel(<, Nat)
    BY <1>2 DEF OpToRel
  <2> QED BY <1>1, <2>1
<1> QED BY <1>2

\* Where Entry stops: at a missing service, at an annotated one, or at the end.
LEMMA EntryCases ==
    ASSUME NEW key \in Configs, NEW i \in Nat \ {0}, NEW base, NEW copy,
           cache.service \in [Services -> Svc \cup {Absent}]
    PROVE  LET named(n) == cache.service[Calls[key][n]]
               passed(m) == \A n \in i .. m : named(n) \in Svc /\ ~named(n).annotated
           IN  \/ /\ \E n \in DOMAIN Calls[key] : named(n) = Absent
                  /\ Entry(key, i, base, copy) = Idle
               \/ \E j \in i .. Len(Calls[key]) :
                     /\ named(j) \in Svc /\ named(j).annotated /\ passed(j - 1)
                     /\ Entry(key, i, base, copy) = Generating(key, Calls[key][j], j, base, copy)
               \/ /\ passed(Len(Calls[key])) /\ copy = base.bundle
                  /\ Entry(key, i, base, copy) = Idle
               \/ /\ passed(Len(Calls[key])) /\ copy # base.bundle
                  /\ Entry(key, i, base, copy) =
                        [pc |-> "write", key |-> key, base |-> base, copy |-> copy]
<1> DEFINE named(n) == cache.service[Calls[key][n]]
           stop(n) == named(n) = Absent \/ named(n).annotated
           stops == {n \in i .. Len(Calls[key]) : stop(n)}
           j == CHOOSE k \in stops : \A l \in stops : k <= l
<1>1. Calls[key] \in Seq(Services) /\ Len(Calls[key]) \in Nat
      /\ DOMAIN Calls[key] = 1 .. Len(Calls[key])
  BY CallsAssumption
<1>2. \A n \in i .. Len(Calls[key]) :
         n \in DOMAIN Calls[key] /\ Calls[key][n] \in Services /\ named(n) \in Svc \cup {Absent}
  BY <1>1
<1>3. Entry(key, i, base, copy) =
         IF stops # {}
         THEN IF named(j) = Absent THEN Idle ELSE Generating(key, Calls[key][j], j, base, copy)
         ELSE IF copy = base.bundle THEN Idle
         ELSE [pc |-> "write", key |-> key, base |-> base, copy |-> copy]
  BY Zenon DEF Entry
<1>4. CASE stops = {}
  <2>1. \A n \in i .. Len(Calls[key]) : named(n) \in Svc /\ ~named(n).annotated
    BY <1>2, <1>4
  <2> QED BY <1>3, <1>4, <2>1
<1>5. CASE stops # {}
  <2>1. stops \in SUBSET Nat
    BY <1>1
  <2>2. j \in stops /\ \A l \in stops : j <= l
    <3> HIDE DEF stops
    <3>1. \E k \in stops : \A l \in stops : k <= l
      BY <1>5, <2>1, LeastNumber
    <3> QED BY <3>1, Zenon
  <2> HIDE DEF j
  <2>3. j \in i .. Len(Calls[key]) /\ stop(j)
    BY <2>2
  <2>4. \A n \in i .. (j - 1) : named(n) \in Svc /\ ~named(n).annotated
    <3>1. \A n \in i .. (j - 1) : n \in i .. Len(Calls[key]) /\ n \notin stops
      BY <2>2, <2>3, <1>1
    <3> QED BY <3>1, <1>2
  <2>5. CASE named(j) = Absent
    BY <1>2, <1>3, <1>5, <2>3, <2>5
  <2>6. CASE named(j) # Absent
    <3>1. Entry(key, i, base, copy) = Generating(key, Calls[key][j], j, base, copy)
      BY <1>3, <1>5, <2>6
    <3>2. named(j) \in Svc /\ named(j).annotated
      BY <1>2, <2>3, <2>6
    <3> QED BY <3>1, <3>2, <2>3, <2>4
  <2> QED BY <2>5, <2>6
<1> QED BY <1>4, <1>5

\* A record of generateSecret stands for the fields it is made of.
LEMMA GeneratingType ==
    ASSUME NEW key \in AllKeys, NEW s \in Services, NEW i \in Nat, NEW base \in Base \cup {<<>>},
           NEW copy \in Bundles \cup {<<>>}, cache.service[s] \in Svc
    PROVE  LET g == Generating(key, s, i, base, copy)
           IN  /\ g \in InGenerate /\ g.pc = "lock" /\ g.key = key /\ g.svc = s /\ g.i = i
               /\ g.base = base /\ g.copy = copy /\ g.seen = cache.service[s]
BY DEF Generating, InGenerate

\* The handler of a service generates its secret with nothing to copy to.
LEMMA OwnGenerating ==
    ASSUME NEW s \in Services, cache.service[s] \in Svc
    PROVE  LET g == Generating(s, s, 0, <<>>, <<>>)
           IN  /\ g \in InGenerate /\ g.pc = "lock" /\ g.key = s /\ g.svc = s
               /\ g.seen = cache.service[s]
<1>1. PICK e : e = <<>>
  OBVIOUS
<1>2. s \in AllKeys /\ e \in Base \cup {<<>>} /\ e \in Bundles \cup {<<>>}
  BY <1>1 DEF AllKeys
<1> DEFINE g == Generating(s, s, 0, e, e)
<1>3. g = [pc |-> "lock", key |-> s, svc |-> s, seen |-> cache.service[s], i |-> 0,
           base |-> e, copy |-> e, sec |-> NoSecret]
  BY DEF Generating
<1> HIDE DEF g
<1>4. g.pc = "lock" /\ g.key = s /\ g.svc = s /\ g.seen = cache.service[s]
  BY <1>3
<1>5. g \in InGenerate
  BY <1>2, <1>3 DEF InGenerate
<1> QED BY <1>1, <1>4, <1>5 DEF g

\* A walk stops at a call it generates for, at its write, or for good.
LEMMA EntryStops ==
    ASSUME NEW key \in Configs, NEW i \in Nat \ {0}, NEW base, NEW copy,
           cache.service \in [Services -> Svc \cup {Absent}]
    PROVE  Entry(key, i, base, copy).pc \in {"idle", "lock", "write"}
<1>1. PICK e : e = Entry(key, i, base, copy)
  OBVIOUS
<1>2. \/ e = Idle
      \/ \E j : e = Generating(key, Calls[key][j], j, base, copy)
      \/ e = [pc |-> "write", key |-> key, base |-> base, copy |-> copy]
  BY <1>1, EntryCases
<1>3. e.pc \in {"idle", "lock", "write"}
  BY <1>2 DEF Generating, Idle
<1> QED BY <1>1, <1>3

\* A worker's program counter tells what it holds.
LEMMA Kinds ==
    ASSUME NEW w, NEW j, NEW st, JobOK(w, j, st)
    PROVE  /\ j.pc = "idle" <=> j = Idle
           /\ j.pc = "write" <=> WriteJob(w, j, st)
           /\ j.pc \in {"lock", "create", "get", "update"} <=> j \in InGenerate
           /\ j \in InGenerate => /\ ServiceJob(w, j) \/ ConfigJob(w, j, st)
                                  /\ j.pc = "update" => j.sec \in Sec
           /\ j \in InGenerate \/ j \in InWrite \/ j = Idle
           /\ j # Idle => j.key \in Keys[w] /\ j.key \in AllKeys
BY DEF JobOK, ServiceJob, ConfigJob, WriteJob, InGenerate, InWrite, Idle, AllKeys

\* What was stored stays stored.
LEMMA StoredGrows ==
    ASSUME NEW st, NEW tt, st \subseteq tt
    PROVE  /\ \A c, b : IsStored(c, b, st) => IsStored(c, b, tt)
           /\ \A s, x : SecStored(s, x, st) => SecStored(s, x, tt)
           /\ \A w, j : JobOK(w, j, st) => JobOK(w, j, tt)
           /\ \A f : ConfigsOK(f, st) => ConfigsOK(f, tt)
           /\ \A f : SecretsOK(f, st) => SecretsOK(f, tt)
<1>1. \A c, b : IsStored(c, b, st) => IsStored(c, b, tt)
  BY DEF IsStored
<1>2. \A s, x : SecStored(s, x, st) => SecStored(s, x, tt)
  BY DEF SecStored
<1>3. \A w, j : JobOK(w, j, st) => JobOK(w, j, tt)
  BY <1>1 DEF JobOK, ConfigJob, WriteJob
<1>4. \A f : ConfigsOK(f, st) => ConfigsOK(f, tt)
  BY <1>1 DEF ConfigsOK
<1>5. \A f : SecretsOK(f, st) => SecretsOK(f, tt)
  BY <1>2 DEF SecretsOK
<1> QED BY <1>1, <1>2, <1>3, <1>4, <1>5

\* A walk that goes on leaves the worker with a job that fits.
LEMMA EntryOK ==
    ASSUME NEW st, NEW w, NEW key \in Configs \cap Keys[w], NEW i \in Nat \ {0},
           NEW base \in Base, NEW copy \in BundlesOf(key), base.bundle \in BundlesOf(key),
           IsStored(key, copy, st), cache.service \in [Services -> Svc \cup {Absent}]
    PROVE  JobOK(w, Entry(key, i, base, copy), st)
<1>1. copy \in Bundles /\ key \in AllKeys
  BY DEF Bundles, AllKeys
<1>2. CASE Entry(key, i, base, copy) = Idle
  BY <1>2 DEF JobOK
<1>3. CASE \E j \in i .. Len(Calls[key]) :
              /\ cache.service[Calls[key][j]] \in Svc
              /\ Entry(key, i, base, copy) = Generating(key, Calls[key][j], j, base, copy)
  <2>1. PICK j \in i .. Len(Calls[key]) :
              /\ cache.service[Calls[key][j]] \in Svc
              /\ Entry(key, i, base, copy) = Generating(key, Calls[key][j], j, base, copy)
    BY <1>3
  <2>2. j \in DOMAIN Calls[key] /\ Calls[key][j] \in Services /\ j \in Nat
    BY CallsAssumption
  <2> DEFINE g == Generating(key, Calls[key][j], j, base, copy)
  <2>3. /\ g \in InGenerate /\ g.pc = "lock" /\ g.key = key /\ g.svc = Calls[key][j] /\ g.i = j
        /\ g.base = base /\ g.copy = copy
    BY <1>1, <2>1, <2>2, GeneratingType
  <2> HIDE DEF g
  <2>4. ConfigJob(w, g, st) /\ g.pc # "update"
    BY <2>2, <2>3 DEF ConfigJob
  <2> QED BY <2>1, <2>4 DEF JobOK, g
<1>4. CASE Entry(key, i, base, copy) =
              [pc |-> "write", key |-> key, base |-> base, copy |-> copy]
  <2> DEFINE g == [pc |-> "write", key |-> key, base |-> base, copy |-> copy]
  <2>1. g \in InWrite /\ g.key = key /\ g.copy = copy
    BY <1>1 DEF InWrite
  <2> HIDE DEF g
  <2>2. WriteJob(w, g, st)
    BY <2>1 DEF WriteJob
  <2> QED BY <1>4, <2>2 DEF JobOK, g
<1> HIDE DEF Entry
<1> QED BY <1>2, <1>3, <1>4, EntryCases

-----------------------------------------------------------------------------
(* The steps of generateSecret *)

\* The caches are behind for what is in the news only, and no certificate has
\* a number that was not given out.
CachedInv ==
    /\ \A s \in Services : s \notin news => cache.secret[s] = secret[s]
    /\ \A c \in Configs : c \notin news => cache.config[c] = config[c]
    /\ \A s \in Services : secret[s].serial <= serials /\ cache.secret[s].serial <= serials
    /\ due <= serials

\* A step stores nothing, or a new certificate for the service at hand.
Storing(w) ==
    \/ UNCHANGED <<secret, news, serials, stored>>
    \/ \E new \in Sec : new.serial = serials + 1 /\ Put(work[w].svc, new)
\* The worker goes on to another API call for its service,
OnTo(j, k) ==
    /\ k \in InGenerate /\ k.pc # "lock" /\ (k.pc = "update" => k.sec \in Sec)
    /\ k.key = j.key /\ k.svc = j.svc /\ k.seen = j.seen /\ k.i = j.i
    /\ k.base = j.base /\ k.copy = j.copy
Stays(w) == \E k : OnTo(work[w], k) /\ Go(w, k) /\ queue' = queue /\ timer' = timer
\* or has a certificate that is not due and is for the names it knows,
Has(w, sec) ==
    /\ Generated(w, sec) /\ <<work[w].svc, sec.serial>> \in stored'
    /\ sec.serial > due /\ sec.dns = work[w].seen.dns
    /\ work[w].svc \in news' \/ sec = cache.secret[work[w].svc]
    /\ work[w].pc = "lock" => sec = cache.secret[work[w].svc]
\* or fails.
Fails(w) == Failed(w) /\ timer' = timer /\ work[w].pc # "lock"

Generates(w) == Lock(w) \/ Create(w) \/ Get(w) \/ Update(w) \/ CallFails(w)

\* Past the lock the worker has one API call to make after another.
LEMMA OnToUpdate ==
    ASSUME NEW j \in InGenerate, NEW sec \in Sec, NEW p \in {"create", "get"}
    PROVE  /\ OnTo(j, [j EXCEPT !.pc = "update", !.sec = sec])
           /\ OnTo(j, [j EXCEPT !.pc = p])
<1>1. OnTo(j, [j EXCEPT !.pc = "update", !.sec = sec])
  <2> DEFINE k == [[j EXCEPT !.pc = "update"] EXCEPT !.sec = sec]
  <2>1. k \in InGenerate /\ k.pc = "update" /\ k.sec = sec
        /\ k.key = j.key /\ k.svc = j.svc /\ k.seen = j.seen /\ k.i = j.i
        /\ k.base = j.base /\ k.copy = j.copy
    BY DEF InGenerate
  <2>2. k = [j EXCEPT !.pc = "update", !.sec = sec]
    BY DEF InGenerate
  <2> HIDE DEF k
  <2>3. OnTo(j, k)
    BY <2>1 DEF OnTo
  <2> QED BY <2>2, <2>3
<1>2. OnTo(j, [j EXCEPT !.pc = p])
  <2> DEFINE k == [j EXCEPT !.pc = p]
  <2>1. k \in InGenerate /\ k.pc = p
        /\ k.key = j.key /\ k.svc = j.svc /\ k.seen = j.seen /\ k.i = j.i
        /\ k.base = j.base /\ k.copy = j.copy
    BY DEF InGenerate
  <2> HIDE DEF k
  <2>2. OnTo(j, k)
    BY <2>1 DEF OnTo
  <2> QED BY <2>2 DEF k
<1> QED BY <1>1, <1>2

\* A certificate that passes the check ends generateSecret, and one that does
\* not leads on.
LEMMA CheckOutcome ==
    ASSUME NEW w \in Workers, work[w] \in InGenerate, due \in Nat, NEW sec \in Sec, Check(w, sec),
           <<work[w].svc, sec.serial>> \in stored',
           work[w].svc \in news' \/ sec = cache.secret[work[w].svc],
           work[w].pc = "lock" => sec = cache.secret[work[w].svc]
    PROVE  Stays(w) \/ Has(w, sec)
<1>1. CASE updateSecret(sec, work[w].seen)
  <2>1. OnTo(work[w], [work[w] EXCEPT !.pc = "update", !.sec = sec])
    BY OnToUpdate
  <2>2. Go(w, [work[w] EXCEPT !.pc = "update", !.sec = sec]) /\ queue' = queue /\ timer' = timer
    BY <1>1 DEF Check
  <2> QED BY <2>1, <2>2 DEF Stays
<1>2. CASE ~updateSecret(sec, work[w].seen)
  <2>1. Generated(w, sec)
    BY <1>2 DEF Check
  <2>2. sec.serial > due /\ sec.dns = work[w].seen.dns
    BY <1>2 DEF updateSecret, Sec
  <2> QED BY <2>1, <2>2 DEF Has
<1> QED BY <1>1, <1>2

\* A secret that is created or renewed has a serial number of its own.
LEMMA NewSecrets ==
    ASSUME NEW w, work[w] \in InGenerate, serials \in Nat
    PROVE  /\ createSecret(w) \in Sec /\ createSecret(w).serial = serials + 1
           /\ work[w].sec \in Sec => /\ renewed(w) \in Sec /\ renewed(w).serial = serials + 1
                                     /\ renewed(w).dns = work[w].seen.dns
<1>1. work[w].seen \in Svc
  BY DEF InGenerate
<1>2. work[w].seen.dns \in Names /\ work[w].seen.uid \in Nat
  BY <1>1 DEF Svc
<1>3. createSecret(w) \in Sec /\ createSecret(w).serial = serials + 1
      /\ createSecret(w).dns = work[w].seen.dns
  BY <1>2 DEF createSecret, Sec
<1>4. ASSUME work[w].sec \in Sec
      PROVE  renewed(w) \in Sec /\ renewed(w).serial = serials + 1
             /\ renewed(w).dns = work[w].seen.dns
  <2>1. work[w].sec.owner \in Nat
    BY <1>4 DEF Sec
  <2> DEFINE c == createSecret(w)
  <2>2. c \in Sec /\ c.serial = serials + 1 /\ c.dns = work[w].seen.dns
    BY <1>3
  <2>3. renewed(w) = [c EXCEPT !.owner = work[w].sec.owner]
    BY DEF renewed
  <2> HIDE DEF c
  <2> QED BY <2>1, <2>2, <2>3 DEF Sec
<1> QED BY <1>3, <1>4

\* What is written is stored, and announced.
LEMMA PutStores ==
    ASSUME NEW s, NEW new, Put(s, new)
    PROVE  s \in news' /\ <<s, new.serial>> \in stored'
BY DEF Put

\* What a step of generateSecret comes to.
LEMMA Outcomes ==
    ASSUME StoredInv, CachedInv, NEW w \in Workers, Generates(w)
    PROVE  /\ work[w] \in InGenerate
           /\ UNCHANGED <<service, config, uids, cache, due>>
           /\ Storing(w)
           /\ Stays(w) \/ Fails(w) \/ \E sec \in Sec : Has(w, sec)
<1> DEFINE j == work[w]
           s == work[w].svc
<1>0. work[w] \in InGenerate
  <2>1. j.pc \in {"lock", "create", "get", "update"}
    BY DEF Generates, Lock, Create, Get, Update, CallFails
  <2>2. JobOK(w, j, stored)
    BY DEF StoredInv
  <2> QED BY <2>1, <2>2, Kinds
<1>1. UNCHANGED <<service, config, uids, cache, due>>
  BY DEF Generates, Lock, Create, Get, Update, CallFails, server
<1>2. /\ serials \in Nat /\ due \in Nat /\ due <= serials /\ s \in Services
      /\ \A x \in Services : secret[x] \in Sec \cup {NoSecret}
                             /\ cache.secret[x] \in Sec \cup {NoSecret}
                             /\ SecStored(x, secret[x], stored)
                             /\ SecStored(x, cache.secret[x], stored)
                             /\ (x \notin news => cache.secret[x] = secret[x])
      /\ j.pc = "update" => j.sec \in Sec
  <2>1. s \in Services
    BY <1>0 DEF InGenerate
  <2>2. JobOK(w, j, stored)
    BY DEF StoredInv
  <2>3. j.pc = "update" => j.sec \in Sec
    BY <1>0, <2>2, Kinds
  <2> QED BY <2>1, <2>3 DEF StoredInv, CachedInv, SecretsOK
<1>3. CASE Lock(w)
  <2>1. UNCHANGED <<secret, news, serials, stored>> /\ j.pc = "lock"
    BY <1>3 DEF Lock, server
  <2>2. CASE cache.secret[s] # NoSecret
    <3>1. Check(w, cache.secret[s])
      BY <1>3, <2>2 DEF Lock
    <3>2. cache.secret[s] \in Sec /\ <<s, cache.secret[s].serial>> \in stored'
      BY <1>2, <2>1, <2>2 DEF SecStored
    <3> QED BY <1>0, <1>1, <1>2, <2>1, <3>1, <3>2, CheckOutcome DEF Storing
  <2>3. CASE cache.secret[s] = NoSecret
    <3>1. Go(w, [work[w] EXCEPT !.pc = "create"]) /\ queue' = queue /\ timer' = timer
      BY <1>3, <2>3 DEF Lock
    <3>2. PICK x \in Sec : TRUE
      BY <1>0, <1>2, NewSecrets
    <3>3. OnTo(work[w], [work[w] EXCEPT !.pc = "create"])
      BY <1>0, OnToUpdate
    <3> QED BY <1>0, <1>1, <2>1, <3>1, <3>3 DEF Stays, Storing
  <2> QED BY <2>2, <2>3
<1>4. CASE Create(w)
  <2>1. CASE secret[s] = NoSecret
    <3>1. Put(s, createSecret(w)) /\ Check(w, createSecret(w)) /\ j.pc = "create"
      BY <1>4, <2>1 DEF Create
    <3>2. createSecret(w) \in Sec /\ createSecret(w).serial = serials + 1
      BY <1>0, <1>2, NewSecrets
    <3>3. s \in news' /\ <<s, createSecret(w).serial>> \in stored'
      BY <3>1, PutStores
    <3>4. Storing(w)
      BY <3>1, <3>2 DEF Storing
    <3>5. Stays(w) \/ Has(w, createSecret(w))
      BY <1>0, <1>2, <3>1, <3>2, <3>3, CheckOutcome
    <3> QED BY <1>0, <1>1, <3>2, <3>4, <3>5
  <2>2. CASE secret[s] # NoSecret
    <3>1. /\ Go(w, [work[w] EXCEPT !.pc = "get"]) /\ queue' = queue /\ timer' = timer
          /\ UNCHANGED <<secret, news, serials, stored>>
      BY <1>4, <2>2 DEF Create
    <3>2. createSecret(w) \in Sec
      BY <1>0, <1>2, NewSecrets
    <3>3. OnTo(work[w], [work[w] EXCEPT !.pc = "get"])
      BY <1>0, <3>2, OnToUpdate
    <3> QED BY <1>0, <1>1, <3>1, <3>3 DEF Stays, Storing
  <2> QED BY <2>1, <2>2
<1>5. CASE Get(w)
  <2>1. UNCHANGED <<secret, news, serials, stored>> /\ j.pc = "get"
    BY <1>5 DEF Get, server
  <2>2. CASE secret[s] = NoSecret
    <3>1. Fails(w)
      BY <1>5, <2>1, <2>2 DEF Get, Fails
    <3> QED BY <1>0, <1>1, <2>1, <3>1 DEF Storing
  <2>3. CASE secret[s] # NoSecret
    <3>1. Check(w, secret[s])
      BY <1>5, <2>3 DEF Get
    <3>2. secret[s] \in Sec /\ <<s, secret[s].serial>> \in stored'
      BY <1>2, <2>1, <2>3 DEF SecStored
    <3>3. s \in news' \/ secret[s] = cache.secret[s]
      BY <1>2, <2>1
    <3> QED BY <1>0, <1>1, <1>2, <2>1, <3>1, <3>2, <3>3, CheckOutcome DEF Storing
  <2> QED BY <2>2, <2>3
<1>6. CASE Update(w)
  <2>1. j.pc = "update" /\ j.sec \in Sec
    BY <1>2, <1>6 DEF Update
  <2>2. CASE secret[s] = j.sec
    <3>1. Put(s, renewed(w)) /\ Generated(w, renewed(w))
      BY <1>6, <2>2 DEF Update
    <3>2. /\ renewed(w) \in Sec /\ renewed(w).serial = serials + 1
          /\ renewed(w).dns = work[w].seen.dns
      BY <1>0, <1>2, <2>1, NewSecrets
    <3>3. s \in news' /\ <<s, renewed(w).serial>> \in stored'
      BY <3>1, PutStores
    <3>4. renewed(w).serial > due
      BY <1>2, <3>2
    <3>5. Has(w, renewed(w))
      BY <2>1, <3>1, <3>2, <3>3, <3>4 DEF Has
    <3>6. Storing(w)
      BY <3>1, <3>2 DEF Storing
    <3> QED BY <1>0, <1>1, <3>2, <3>5, <3>6
  <2>3. CASE secret[s] # j.sec
    <3>1. Fails(w) /\ UNCHANGED <<secret, news, serials, stored>>
      BY <1>6, <2>1, <2>3 DEF Update, Fails
    <3> QED BY <1>0, <1>1, <3>1 DEF Storing
  <2> QED BY <2>2, <2>3
<1>7. CASE CallFails(w)
  <2>1. Fails(w)
    BY <1>7 DEF CallFails, Fails
  <2>2. CASE UNCHANGED <<secret, news, serials, stored>>
    BY <1>0, <1>1, <2>1, <2>2 DEF Storing
  <2>3. CASE j.pc = "update" /\ Put(s, renewed(w))
    <3>1. renewed(w) \in Sec /\ renewed(w).serial = serials + 1
      BY <1>0, <1>2, <2>3, NewSecrets
    <3> QED BY <1>0, <1>1, <2>1, <2>3, <3>1 DEF Storing
  <2> QED BY <1>7, <2>2, <2>3 DEF CallFails
<1> QED BY <1>3, <1>4, <1>5, <1>6, <1>7 DEF Generates

\* What a step stores keeps the invariants of secrets and caches.
LEMMA StoringKeeps ==
    ASSUME StoredInv, CachedInv, NEW w \in Workers, work[w].svc \in Services, Storing(w),
           UNCHANGED <<config, cache, due>>
    PROVE  /\ stored \subseteq stored' /\ SecretsOK(secret', stored')
           /\ serials' \in Nat /\ news' \subseteq AllKeys /\ news \subseteq news'
           /\ \A k : k \in news' => k \in news \/ k = work[w].svc
           /\ CachedInv'
<1> DEFINE s == work[w].svc
<1>1. CASE UNCHANGED <<secret, news, serials, stored>>
  BY <1>1 DEF StoredInv, CachedInv
<1>2. CASE \E new \in Sec : new.serial = serials + 1 /\ Put(s, new)
  <2>1. PICK new \in Sec : new.serial = serials + 1 /\ Put(s, new)
    BY <1>2
  <2>2. /\ secret' = [secret EXCEPT ![s] = new] /\ news' = news \cup {s}
        /\ serials' = serials + 1 /\ stored' = stored \cup {<<s, new.serial>>}
    BY <2>1 DEF Put
  <2>3. secret \in [Services -> Sec \cup {NoSecret}]
        /\ \A x \in Services : SecStored(x, secret[x], stored)
    BY DEF StoredInv, SecretsOK
  <2>4. secret' \in [Services -> Sec \cup {NoSecret}]
        /\ \A x \in Services : secret'[x] = IF x = s THEN new ELSE secret[x]
    BY <2>2, <2>3
  <2>5. \A x \in Services : SecStored(x, secret'[x], stored')
    BY <2>2, <2>3, <2>4 DEF SecStored
  <2>6. SecretsOK(secret', stored')
    BY <2>4, <2>5 DEF SecretsOK
  <2>7. serials \in Nat /\ due \in Nat /\ news \subseteq AllKeys
    BY DEF StoredInv
  <2>8. CachedInv'
    <3>1. \A x \in Services : x \notin news' => cache'.secret[x] = secret'[x]
      BY <2>2, <2>4 DEF CachedInv
    <3>2. \A c \in Configs : c \notin news' => cache'.config[c] = config'[c]
      BY <2>2 DEF CachedInv
    <3>3. \A x \in Services : secret[x].serial \in Nat /\ cache.secret[x].serial \in Nat
      BY DEF StoredInv, SecretsOK, Sec, NoSecret
    <3>4. \A x \in Services : secret'[x].serial <= serials' /\ cache'.secret[x].serial <= serials'
      <4>1. \A x \in Services : secret'[x].serial = serials + 1 \/ secret'[x].serial = secret[x].serial
        BY <2>1, <2>4
      <4> QED BY <4>1, <2>2, <2>7, <3>3 DEF CachedInv
    <3>5. due' <= serials'
      BY <2>2, <2>7 DEF CachedInv
    <3> QED BY <3>1, <3>2, <3>4, <3>5 DEF CachedInv
  <2> QED BY <2>2, <2>6, <2>7, <2>8 DEF AllKeys
<1> QED BY <1>1, <1>2 DEF Storing

-----------------------------------------------------------------------------
(* What is trusted was stored *)

\* A step of one worker leaves the others their jobs.
LEMMA JobsKept ==
    ASSUME StoredInv, NEW w \in Workers, NEW k, Go(w, k), stored \subseteq stored',
           JobOK(w, k, stored')
    PROVE  /\ DOMAIN work' = Workers /\ work' = [v \in Workers |-> work'[v]]
           /\ \A v \in Workers : JobOK(v, work'[v], stored')
           /\ work'[w] = k /\ \A v \in Workers \ {w} : work'[v] = work[v]
<1>1. DOMAIN work = Workers /\ \A v \in Workers : JobOK(v, work[v], stored)
  BY DEF StoredInv
<1>2. \A v \in Workers : JobOK(v, work[v], stored')
  BY <1>1, StoredGrows
<1>3. work' = [work EXCEPT ![w] = k]
  BY DEF Go
<1>4. /\ DOMAIN work' = Workers /\ work' = [v \in Workers |-> work'[v]]
      /\ \A v \in Workers : work'[v] = IF v = w THEN k ELSE work[v]
  BY <1>1, <1>3
<1> QED BY <1>2, <1>4

\* A bundle for the certificate at hand takes its place in the copy.
LEMMA CopyKept ==
    ASSUME NEW c \in Configs, NEW st, NEW b \in BundlesOf(c), IsStored(c, b, st),
           NEW i \in DOMAIN Calls[c], NEW x \in Bundle, <<Calls[c][i], x.serial>> \in st
    PROVE  /\ [b EXCEPT ![i] = x] \in BundlesOf(c)
           /\ IsStored(c, [b EXCEPT ![i] = x], st)
           /\ \A n \in DOMAIN Calls[c] : [b EXCEPT ![i] = x][n] = IF n = i THEN x ELSE b[n]
BY DEF BundlesOf, IsStored

\* Everything that generateSecret leaves alone.
LEMMA GeneratesJob ==
    ASSUME StoredInv, CachedInv, NEW w \in Workers, Generates(w)
    PROVE  /\ \E k : Go(w, k) /\ JobOK(w, k, stored')
           /\ queue' \subseteq AllKeys /\ timer' \in [Services -> Nat]
<1> DEFINE j == work[w]
           s == work[w].svc
<1>1. /\ j \in InGenerate /\ cache' = cache /\ Storing(w)
      /\ UNCHANGED <<service, config, uids, cache, due>>
      /\ Stays(w) \/ Fails(w) \/ \E sec \in Sec : Has(w, sec)
  BY Outcomes
<1>2. s \in Services /\ j.key \in AllKeys /\ j.seen \in Svc
  BY <1>1 DEF InGenerate
<1>3. stored \subseteq stored'
  BY <1>1, <1>2, StoringKeeps
<1>4. JobOK(w, j, stored')
  BY <1>3, StoredGrows DEF StoredInv
<1>5. ServiceJob(w, j) \/ ConfigJob(w, j, stored')
  BY <1>1, <1>4, Kinds
<1>6. queue \subseteq AllKeys /\ timer \in [Services -> Nat]
  BY DEF StoredInv
<1>7. CASE Stays(w)
  <2>1. PICK k : OnTo(j, k) /\ Go(w, k) /\ queue' = queue /\ timer' = timer
    BY <1>7 DEF Stays
  <2>2. ServiceJob(w, k) \/ ConfigJob(w, k, stored')
    BY <1>5, <2>1 DEF OnTo, ServiceJob, ConfigJob
  <2>3. JobOK(w, k, stored')
    BY <2>1, <2>2 DEF OnTo, JobOK
  <2> QED BY <1>6, <2>1, <2>3
<1>8. CASE Fails(w)
  <2>1. Go(w, Idle) /\ JobOK(w, Idle, stored')
    BY <1>8 DEF Fails, Failed, Done, JobOK
  <2> QED BY <1>2, <1>6, <1>8, <2>1 DEF Fails, Failed
<1>9. ASSUME NEW sec \in Sec, Has(w, sec)
      PROVE  /\ \E k : Go(w, k) /\ JobOK(w, k, stored')
             /\ queue' \subseteq AllKeys /\ timer' \in [Services -> Nat]
  <2>1. Generated(w, sec) /\ <<s, sec.serial>> \in stored'
    BY <1>9 DEF Has
  <2>2. timer' \in [Services -> Nat]
    <3>1. timer' = [timer EXCEPT ![s] = IF @ = 0 \/ sec.serial < @ THEN sec.serial ELSE @]
      BY <2>1 DEF Generated, scheduleNextCertCheck
    <3>2. sec.serial \in Nat
      BY DEF Sec
    <3> QED BY <1>2, <1>6, <3>1, <3>2
  <2>3. CASE j.key \in Services
    <3>1. queue' = OnService(s) /\ Go(w, Idle)
      BY <2>1, <2>3 DEF Generated, Done
    <3>2. queue' \subseteq AllKeys
      BY <1>6, <3>1 DEF OnService, byService, AllKeys
    <3> QED BY <2>2, <3>1, <3>2 DEF JobOK
  <2>4. CASE j.key \notin Services
    <3> DEFINE x == caBundleFor(j.seen, sec)
               copy == [j.copy EXCEPT ![j.i] = x]
    <3>1. Go(w, Entry(j.key, j.i + 1, j.base, copy)) /\ queue' = queue
      BY <2>1, <2>4 DEF Generated
    <3>2. ConfigJob(w, j, stored')
      BY <1>5, <2>4 DEF ServiceJob
    <3>3. x \in Bundle /\ x.serial = sec.serial
      BY <1>2 DEF caBundleFor, Bundle, Sec, Svc
    <3> HIDE DEF x
    <3>4. copy \in BundlesOf(j.key) /\ IsStored(j.key, copy, stored')
      BY <2>1, <3>2, <3>3, CopyKept DEF ConfigJob
    <3> HIDE DEF copy
    <3>5. j.i + 1 \in Nat \ {0} /\ j.key \in Configs \cap Keys[w] /\ j.base \in Base
          /\ j.base.bundle \in BundlesOf(j.key)
      BY <1>1, <3>2 DEF ConfigJob, InGenerate
    <3>6. cache.service \in [Services -> Svc \cup {Absent}]
      BY DEF StoredInv
    <3>7. JobOK(w, Entry(j.key, j.i + 1, j.base, copy), stored')
      BY <3>4, <3>5, <3>6, EntryOK
    <3> QED BY <1>6, <2>2, <3>1, <3>7
  <2> QED BY <2>3, <2>4
<1> QED BY <1>1, <1>7, <1>8, <1>9

\* generateSecret hands on only what was stored.
LEMMA GeneratesStored ==
    ASSUME StoredInv, CachedInv, NEW w \in Workers, Generates(w)
    PROVE  StoredInv' /\ CachedInv'
<1>1. /\ work[w] \in InGenerate /\ Storing(w)
      /\ UNCHANGED <<service, config, uids, cache, due>>
  BY Outcomes
<1>2. work[w].svc \in Services
  BY <1>1 DEF InGenerate
<1>3. /\ stored \subseteq stored' /\ SecretsOK(secret', stored')
      /\ serials' \in Nat /\ news' \subseteq AllKeys /\ CachedInv'
  BY <1>1, <1>2, StoringKeeps
<1>4. PICK k : Go(w, k) /\ JobOK(w, k, stored')
  BY GeneratesJob
<1>5. queue' \subseteq AllKeys /\ timer' \in [Services -> Nat]
  BY GeneratesJob
<1>6. /\ DOMAIN work' = Workers /\ work' = [v \in Workers |-> work'[v]]
      /\ \A v \in Workers : JobOK(v, work'[v], stored')
  BY <1>3, <1>4, JobsKept
<1>7. ConfigsOK(config', stored') /\ SecretsOK(cache'.secret, stored')
      /\ ConfigsOK(cache'.config, stored')
  BY <1>1, <1>3, StoredGrows DEF StoredInv
<1> QED BY <1>1, <1>3, <1>5, <1>6, <1>7 DEF StoredInv

\* A handler begins with what the caches have.
LEMMA TakeStored ==
    ASSUME StoredInv, CachedInv, NEW w \in Workers, Take(w)
    PROVE  StoredInv' /\ CachedInv'
<1> USE DEF server
<1>1. UNCHANGED <<service, secret, config, cache, news, timer, serials, due, uids, stored>>
  BY DEF Take
<1>2. CachedInv'
  BY <1>1 DEF CachedInv
<1>3. PICK key \in queue \cap Keys[w] :
          LET svc == cache.service[key]
          IN  IF key \in Configs
              THEN /\ queue' = queue \ {key}
                   /\ Go(w, Entry(key, 1, [bundle |-> cache.config[key], current |-> key \notin news],
                                  cache.config[key]))
              ELSE IF svc # Absent /\ svc.annotated
              THEN /\ queue' = queue \ {key}
                   /\ Go(w, Generating(key, key, 0, <<>>, <<>>))
              ELSE /\ queue' = (IF svc = Absent THEN queue ELSE OnService(key)) \ {key}
                   /\ UNCHANGED work
  BY DEF Take
<1>4. queue' \subseteq AllKeys
  BY <1>3 DEF StoredInv, OnService, byService, AllKeys
<1>5. /\ DOMAIN work' = Workers /\ work' = [v \in Workers |-> work'[v]]
      /\ \A v \in Workers : JobOK(v, work'[v], stored')
  <2>1. CASE key \in Configs
    <3> DEFINE base == [bundle |-> cache.config[key], current |-> key \notin news]
               copy == cache.config[key]
    <3>1. copy \in BundlesOf(key) /\ IsStored(key, copy, stored) /\ copy \in Bundles
      BY <2>1 DEF StoredInv, ConfigsOK
    <3>2. base \in Base /\ base.bundle = copy
      BY <3>1 DEF Base
    <3>3. cache.service \in [Services -> Svc \cup {Absent}]
      BY DEF StoredInv
    <3>4. Go(w, Entry(key, 1, base, copy))
      BY <1>3, <2>1
    <3> HIDE DEF base, copy
    <3>5. JobOK(w, Entry(key, 1, base, copy), stored')
      BY <1>1, <2>1, <3>1, <3>2, <3>3, EntryOK
    <3> QED BY <1>1, <3>4, <3>5, JobsKept
  <2>2. CASE key \notin Configs /\ cache.service[key] # Absent /\ cache.service[key].annotated
    <3>1. key \in Services
      BY <2>2 DEF StoredInv, AllKeys
    <3>2. cache.service[key] \in Svc
      BY <2>2, <3>1 DEF StoredInv
    <3> DEFINE g == Generating(key, key, 0, <<>>, <<>>)
    <3>3. g \in InGenerate /\ g.pc = "lock" /\ g.key = key /\ g.svc = key
      BY <3>1, <3>2, OwnGenerating
    <3>4. Go(w, g)
      BY <1>3, <2>2
    <3> HIDE DEF g
    <3>5. JobOK(w, g, stored')
      BY <3>1, <3>3 DEF JobOK, ServiceJob
    <3> QED BY <1>1, <3>4, <3>5, JobsKept
  <2>3. CASE UNCHANGED work
    BY <1>1, <2>3 DEF StoredInv
  <2> QED BY <1>3, <2>1, <2>2, <2>3
<1> QED BY <1>1, <1>2, <1>4, <1>5 DEF StoredInv

\* A handler writes what it was handed.
LEMMA WriteStored ==
    ASSUME StoredInv, CachedInv, NEW w \in Workers, Write(w) \/ WriteFails(w)
    PROVE  StoredInv' /\ CachedInv'
<1> DEFINE j == work[w]
<1>1. UNCHANGED <<service, secret, cache, timer, serials, due, uids, stored>>
  BY DEF Write, WriteFails
<1>2. WriteJob(w, j, stored)
  BY Kinds DEF StoredInv, Write, WriteFails
<1>3. /\ j.key \in Configs /\ j.key \in AllKeys /\ j.copy \in BundlesOf(j.key) /\ j.copy \in Bundles
      /\ IsStored(j.key, j.copy, stored)
  BY <1>2 DEF WriteJob, Bundles, AllKeys
<1>4. queue' \subseteq AllKeys
  BY <1>3 DEF StoredInv, Write, WriteFails
<1>5. Go(w, Idle) /\ JobOK(w, Idle, stored')
  BY DEF Write, WriteFails, Done, JobOK
<1>6. /\ DOMAIN work' = Workers /\ work' = [v \in Workers |-> work'[v]]
      /\ \A v \in Workers : JobOK(v, work'[v], stored')
  BY <1>1, <1>5, JobsKept
<1>7. \/ UNCHANGED <<config, news>>
      \/ config' = [config EXCEPT ![j.key] = j.copy] /\ news' = news \cup {j.key}
  BY DEF Write, WriteFails, Updated
<1>8. ConfigsOK(config', stored') /\ news' \subseteq AllKeys
      /\ (\A c \in Configs : c \notin news' => cache'.config[c] = config'[c])
      /\ (\A s \in Services : s \notin news' => s \notin news)
  BY <1>1, <1>3, <1>7 DEF StoredInv, ConfigsOK, CachedInv, AllKeys
<1>9. CachedInv'
  BY <1>1, <1>8 DEF CachedInv
<1> QED BY <1>1, <1>4, <1>6, <1>8, <1>9 DEF StoredInv

\* An informer brings one entry of its cache up to date.
LEMMA InformerCases ==
    ASSUME StoredInv, Informer
    PROVE  /\ UNCHANGED <<service, secret, config, serials, uids, stored, timer, work, due>>
           /\ \/ \E s \in Services :
                    /\ cache' = [service |-> [cache.service EXCEPT ![s] = service[s]],
                                 secret |-> cache.secret, config |-> cache.config]
                    /\ queue' = queue \cup {s} /\ news' = news
              \/ \E s \in Services \cap news :
                    /\ cache' = [service |-> cache.service, config |-> cache.config,
                                 secret |-> [cache.secret EXCEPT ![s] = secret[s]]]
                    /\ queue' = queue \cup resolveServiceFromSecret(s) /\ news' = news \ {s}
              \/ \E c \in Configs \cap news :
                    /\ cache' = [service |-> cache.service, secret |-> cache.secret,
                                 config |-> [cache.config EXCEPT ![c] = config[c]]]
                    /\ queue' = queue \cup {c} /\ news' = news \ {c}
<1>1. cache = [service |-> cache.service, secret |-> cache.secret, config |-> cache.config]
  BY DEF StoredInv
<1>2. UNCHANGED <<service, secret, config, serials, uids, stored, timer, work, due>>
  BY DEF Informer
<1>3. ASSUME NEW s \in Services, cache' = [cache EXCEPT !.service[s] = service[s]]
      PROVE  cache' = [service |-> [cache.service EXCEPT ![s] = service[s]],
                       secret |-> cache.secret, config |-> cache.config]
  BY <1>1, <1>3
<1>4. ASSUME NEW s \in Services, cache' = [cache EXCEPT !.secret[s] = secret[s]]
      PROVE  cache' = [service |-> cache.service, config |-> cache.config,
                       secret |-> [cache.secret EXCEPT ![s] = secret[s]]]
  BY <1>1, <1>4
<1>5. ASSUME NEW c \in Configs, cache' = [cache EXCEPT !.config[c] = config[c]]
      PROVE  cache' = [service |-> cache.service, secret |-> cache.secret,
                       config |-> [cache.config EXCEPT ![c] = config[c]]]
  BY <1>1, <1>5
<1>6. \/ \E s \in Services : /\ cache' = [cache EXCEPT !.service[s] = service[s]]
                             /\ queue' = queue \cup {s} /\ news' = news
      \/ \E s \in news \cap Services : /\ cache' = [cache EXCEPT !.secret[s] = secret[s]]
                                       /\ news' = news \ {s}
                                       /\ queue' = queue \cup resolveServiceFromSecret(s)
      \/ \E c \in news \cap Configs : /\ cache' = [cache EXCEPT !.config[c] = config[c]]
                                      /\ news' = news \ {c} /\ queue' = queue \cup {c}
  BY DEF Informer
<1> QED BY <1>2, <1>3, <1>4, <1>5, <1>6

\* The caches get what the API server has.
LEMMA InformerStored ==
    ASSUME StoredInv, CachedInv, Informer
    PROVE  StoredInv' /\ CachedInv'
<1> DEFINE Same == UNCHANGED <<service, secret, config, serials, uids, stored, timer, work, due>>
<1>0. Same
  BY InformerCases
<1>1. /\ service \in [Services -> Svc \cup {Absent}]
      /\ cache.service \in [Services -> Svc \cup {Absent}]
      /\ SecretsOK(secret, stored) /\ SecretsOK(cache.secret, stored)
      /\ ConfigsOK(config, stored) /\ ConfigsOK(cache.config, stored)
      /\ news \subseteq AllKeys /\ queue \subseteq AllKeys
  BY DEF StoredInv
<1>2. CASE \E s \in Services :
              /\ cache' = [service |-> [cache.service EXCEPT ![s] = service[s]],
                           secret |-> cache.secret, config |-> cache.config]
              /\ queue' = queue \cup {s} /\ news' = news
  <2>1. PICK s \in Services :
              /\ cache' = [service |-> [cache.service EXCEPT ![s] = service[s]],
                           secret |-> cache.secret, config |-> cache.config]
              /\ queue' = queue \cup {s} /\ news' = news
    BY <1>2
  <2>2. /\ cache'.service = [cache.service EXCEPT ![s] = service[s]]
        /\ cache'.secret = cache.secret /\ cache'.config = cache.config
        /\ DOMAIN cache' = {"service", "secret", "config"}
        /\ cache' = [service |-> cache'.service, secret |-> cache'.secret, config |-> cache'.config]
    BY <2>1
  <2>3. cache'.service \in [Services -> Svc \cup {Absent}]
    BY <1>1, <2>2
  <2>4. queue' \subseteq AllKeys
    BY <1>1, <2>1 DEF AllKeys
  <2>5. CachedInv'
    BY <1>0, <2>1, <2>2 DEF CachedInv
  <2> QED BY <1>0, <2>1, <2>2, <2>3, <2>4, <2>5 DEF StoredInv
<1>3. CASE \E s \in Services \cap news :
              /\ cache' = [service |-> cache.service, config |-> cache.config,
                           secret |-> [cache.secret EXCEPT ![s] = secret[s]]]
              /\ queue' = queue \cup resolveServiceFromSecret(s) /\ news' = news \ {s}
  <2>1. PICK s \in Services \cap news :
              /\ cache' = [service |-> cache.service, config |-> cache.config,
                           secret |-> [cache.secret EXCEPT ![s] = secret[s]]]
              /\ queue' = queue \cup resolveServiceFromSecret(s) /\ news' = news \ {s}
    BY <1>3
  <2>2. /\ cache'.secret = [cache.secret EXCEPT ![s] = secret[s]]
        /\ cache'.service = cache.service /\ cache'.config = cache.config
        /\ DOMAIN cache' = {"service", "secret", "config"}
        /\ cache' = [service |-> cache'.service, secret |-> cache'.secret, config |-> cache'.config]
    BY <2>1
  <2>3. SecretsOK(cache'.secret, stored')
        /\ \A x \in Services : cache'.secret[x] = IF x = s THEN secret[s] ELSE cache.secret[x]
    BY <1>0, <1>1, <2>2 DEF SecretsOK
  <2>4. queue' \subseteq AllKeys
    BY <1>1, <2>1 DEF AllKeys, resolveServiceFromSecret
  <2>5. CachedInv'
    BY <1>0, <2>1, <2>2, <2>3, DisjointKeys DEF CachedInv
  <2> QED BY <1>0, <1>1, <2>1, <2>2, <2>3, <2>4, <2>5 DEF StoredInv
<1>4. CASE \E c \in Configs \cap news :
              /\ cache' = [service |-> cache.service, secret |-> cache.secret,
                           config |-> [cache.config EXCEPT ![c] = config[c]]]
              /\ queue' = queue \cup {c} /\ news' = news \ {c}
  <2>1. PICK c \in Configs \cap news :
              /\ cache' = [service |-> cache.service, secret |-> cache.secret,
                           config |-> [cache.config EXCEPT ![c] = config[c]]]
              /\ queue' = queue \cup {c} /\ news' = news \ {c}
    BY <1>4
  <2>2. /\ cache'.config = [cache.config EXCEPT ![c] = config[c]]
        /\ cache'.service = cache.service /\ cache'.secret = cache.secret
        /\ DOMAIN cache' = {"service", "secret", "config"}
        /\ cache' = [service |-> cache'.service, secret |-> cache'.secret, config |-> cache'.config]
    BY <2>1
  <2>3. ConfigsOK(cache'.config, stored')
        /\ \A x \in Configs : cache'.config[x] = IF x = c THEN config[c] ELSE cache.config[x]
    BY <1>0, <1>1, <2>2 DEF ConfigsOK
  <2>4. queue' \subseteq AllKeys
    BY <1>1, <2>1 DEF AllKeys
  <2>5. CachedInv'
    BY <1>0, <2>1, <2>2, <2>3, DisjointKeys DEF CachedInv
  <2> QED BY <1>0, <1>1, <2>1, <2>2, <2>3, <2>4, <2>5 DEF StoredInv
<1> QED BY <1>2, <1>3, <1>4, InformerCases

\* A timer queues a service.
LEMMA TimerStored ==
    ASSUME StoredInv, CachedInv, Timer
    PROVE  StoredInv' /\ CachedInv'
<1> USE DEF server
<1>1. UNCHANGED <<service, secret, config, cache, news, work, serials, due, uids, stored>>
  BY DEF Timer
<1>2. timer' \in [Services -> Nat] /\ queue' \subseteq AllKeys
  BY DEF Timer, StoredInv, AllKeys
<1>3. CachedInv'
  BY <1>1 DEF CachedInv
<1> QED BY <1>1, <1>2, <1>3 DEF StoredInv

\* A secret goes away: the collector or another client deletes it.
Gone(s) == secret' = [secret EXCEPT ![s] = NoSecret] /\ news' = news \cup {s}

\* A secret goes, and was stored all the same.
LEMMA GoneStored ==
    ASSUME StoredInv, CachedInv, NEW s \in Services, Gone(s),
           UNCHANGED <<service, config, serials, uids, stored, cache, queue, timer, work, due>>
    PROVE  StoredInv' /\ CachedInv'
<1>1. SecretsOK(secret', stored')
      /\ \A x \in Services : secret'[x] = IF x = s THEN NoSecret ELSE secret[x]
  BY DEF Gone, SecretsOK, StoredInv, SecStored
<1>2. news' \subseteq AllKeys
  BY DEF Gone, StoredInv, AllKeys
<1>3. CachedInv'
  <2>1. NoSecret.serial = 0 /\ serials \in Nat
    BY DEF NoSecret, StoredInv
  <2> QED BY <1>1, <2>1 DEF CachedInv, Gone
<1> QED BY <1>1, <1>2, <1>3 DEF StoredInv

\* So it does when it is collected.
LEMMA CollectStored ==
    ASSUME StoredInv, CachedInv, Collect
    PROVE  StoredInv' /\ CachedInv'
<1>1. PICK s \in Services : Gone(s)
  BY DEF Collect, Gone
<1>2. UNCHANGED <<service, config, serials, uids, stored, cache, queue, timer, work, due>>
  BY DEF Collect
<1> QED BY <1>1, <1>2, GoneStored

\* What another client can change: a service, a secret, or the time.
LEMMA ChangeCases ==
    ASSUME StoredInv, Change
    PROVE  /\ UNCHANGED <<config, serials, stored, cache, queue, timer, work>>
           /\ \/ /\ service' \in [Services -> Svc \cup {Absent}] /\ uids' \in Nat
                 /\ UNCHANGED <<secret, news, due>>
              \/ \E s \in Services : Gone(s) /\ UNCHANGED <<service, due, uids>>
              \/ due < serials /\ due' = serials /\ UNCHANGED <<service, secret, news, uids>>
<1>0. service \in [Services -> Svc \cup {Absent}] /\ uids \in Nat
  BY DEF StoredInv
<1>1. UNCHANGED <<config, serials, stored, cache, queue, timer, work>>
  BY DEF Change
<1>2. ASSUME NEW s \in Services, NEW v \in Variants,
             uids' = IF service[s] = Absent THEN uids + 1 ELSE uids,
             service' = [service EXCEPT ![s] = WithUid(v, IF @ = Absent THEN uids + 1 ELSE @.uid)]
      PROVE  service' \in [Services -> Svc \cup {Absent}] /\ uids' \in Nat
  <2> DEFINE u == IF service[s] = Absent THEN uids + 1 ELSE service[s].uid
  <2>1. u \in Nat \ {0}
    BY <1>0 DEF Svc
  <2>2. service' = [service EXCEPT ![s] = WithUid(v, u)]
    BY <1>0, <1>2
  <2> HIDE DEF u
  <2>3. WithUid(v, u) \in Svc
    BY <2>1, VariantsAssumption DEF WithUid, Svc, Names
  <2> QED BY <1>0, <1>2, <2>2, <2>3
<1>3. ASSUME NEW s \in Services, service' = [service EXCEPT ![s] = Absent]
      PROVE  service' \in [Services -> Svc \cup {Absent}]
  BY <1>0, <1>3
<1>4. \/ \E s \in Services, v \in Variants :
            /\ uids' = IF service[s] = Absent THEN uids + 1 ELSE uids
            /\ service' = [service EXCEPT ![s] = WithUid(v, IF @ = Absent THEN uids + 1 ELSE @.uid)]
            /\ UNCHANGED <<secret, news, due>>
      \/ \E s \in Services : /\ service' = [service EXCEPT ![s] = Absent]
                              /\ UNCHANGED <<secret, news, due, uids>>
      \/ \E s \in Services : /\ secret' = [secret EXCEPT ![s] = NoSecret]
                              /\ news' = news \cup {s} /\ UNCHANGED <<service, due, uids>>
      \/ due < serials /\ due' = serials /\ UNCHANGED <<service, secret, news, uids>>
  BY DEF Change
<1> QED BY <1>0, <1>1, <1>2, <1>3, <1>4 DEF Gone

\* A disturbance brings in no certificate.
LEMMA ChangeStored ==
    ASSUME StoredInv, CachedInv, Change
    PROVE  StoredInv' /\ CachedInv'
<1>1. UNCHANGED <<config, serials, stored, cache, queue, timer, work>>
  BY ChangeCases
<1>2. CASE /\ service' \in [Services -> Svc \cup {Absent}] /\ uids' \in Nat
           /\ UNCHANGED <<secret, news, due>>
  <2>1. CachedInv'
    BY <1>1, <1>2 DEF CachedInv
  <2> QED BY <1>1, <1>2, <2>1 DEF StoredInv
<1>3. CASE \E s \in Services : Gone(s) /\ UNCHANGED <<service, due, uids>>
  BY <1>1, <1>3, GoneStored
<1>4. CASE due' = serials /\ UNCHANGED <<service, secret, news, uids>>
  <2>1. CachedInv'
    BY <1>1, <1>4 DEF CachedInv, StoredInv
  <2> QED BY <1>1, <1>4, <2>1 DEF StoredInv
<1> QED BY <1>2, <1>3, <1>4, ChangeCases

\* The informers of a new process have seen everything.
LEMMA SeenAll ==
    /\ View.service = service /\ View.secret = secret /\ View.config = config
    /\ DOMAIN View = {"service", "secret", "config"}
    /\ View = [service |-> View.service, secret |-> View.secret, config |-> View.config]
BY DEF View

\* A restart forgets the work and lists afresh.
LEMMA RestartStored ==
    ASSUME StoredInv, CachedInv, Restart
    PROVE  StoredInv' /\ CachedInv'
<1>1. /\ UNCHANGED <<service, secret, config, serials, uids, stored, due>>
      /\ cache' = View /\ news' = {} /\ queue' \subseteq AllKeys
      /\ timer' \in [Services -> Nat] /\ work' = [w \in Workers |-> Idle]
  BY DEF Restart, AllKeys
<1>2. /\ cache'.service = service' /\ cache'.secret = secret' /\ cache'.config = config'
      /\ DOMAIN cache' = {"service", "secret", "config"}
      /\ cache' = [service |-> cache'.service, secret |-> cache'.secret, config |-> cache'.config]
  BY <1>1, SeenAll
<1>3. CachedInv'
  BY <1>1, <1>2 DEF CachedInv
<1>4. \A w \in Workers : JobOK(w, work'[w], stored')
  BY <1>1 DEF JobOK
<1>5. DOMAIN work' = Workers /\ work' = [w \in Workers |-> work'[w]]
  BY <1>1
<1> QED BY <1>1, <1>2, <1>3, <1>4, <1>5 DEF StoredInv

\* Both parts hold at first.
LEMMA InitStored == Init => StoredInv /\ CachedInv
<1> SUFFICES ASSUME Init PROVE StoredInv /\ CachedInv
  OBVIOUS
<1> DEFINE v == CHOOSE x \in Variants : x.annotated
           present == {s \in Services : Existing[s] # 0}
<1>1. v \in Variants /\ v.annotated
  BY VariantsAssumption
<1> HIDE DEF v
<1>2. /\ service = [s \in Services |-> IF Existing[s] = 0 THEN Absent ELSE WithUid(v, Existing[s])]
      /\ secret = [s \in Services |-> IF Existing[s] = 0 THEN NoSecret
                     ELSE [serial |-> Existing[s], dns |-> service[s].dns, owner |-> Existing[s]]]
      /\ serials = Cardinality(present) /\ stored = {<<s, Existing[s]>> : s \in present}
  BY DEF Init, v
<1>3. serials \in Nat /\ \A s \in Services : Existing[s] \in Nat /\ Existing[s] <= serials
  <2>1. IsFiniteSet(present)
    BY ExistingAssumption, FS_Subset
  <2> QED BY <1>2, <2>1, ExistingAssumption, FS_CardinalityType
<1>4. \A s \in Services : Existing[s] # 0 =>
          /\ WithUid(v, Existing[s]) \in Svc /\ WithUid(v, Existing[s]).dns \in Names
  BY <1>1, <1>3, VariantsAssumption DEF WithUid, Svc, Names
<1>5. service \in [Services -> Svc \cup {Absent}]
  BY <1>2, <1>4
<1>6. \A s \in Services :
         \/ Existing[s] = 0 /\ service[s] = Absent /\ secret[s] = NoSecret
         \/ /\ Existing[s] # 0 /\ service[s] \in Svc /\ secret[s] \in Sec
            /\ secret[s].serial = Existing[s] /\ <<s, secret[s].serial>> \in stored
  <2> TAKE s \in Services
  <2>1. CASE Existing[s] = 0
    BY <1>2, <2>1
  <2>2. CASE Existing[s] # 0
    <3>1. service[s] = WithUid(v, Existing[s]) /\ service[s] \in Svc /\ service[s].dns \in Names
      BY <1>2, <1>4, <2>2
    <3>2. secret[s] = [serial |-> Existing[s], dns |-> service[s].dns, owner |-> Existing[s]]
      BY <1>2, <2>2
    <3>3. secret[s] \in Sec /\ secret[s].serial = Existing[s]
      BY <1>3, <2>2, <3>1, <3>2 DEF Sec
    <3>4. <<s, Existing[s]>> \in stored
      BY <1>2, <2>2
    <3> QED BY <2>2, <3>1, <3>3, <3>4
  <2> QED BY <2>1, <2>2
<1>7. SecretsOK(secret, stored) /\ \A s \in Services : secret[s].serial <= serials
  <2>1. \A s \in Services : secret[s] \in Sec \cup {NoSecret} /\ SecStored(s, secret[s], stored)
    BY <1>6 DEF SecStored
  <2>2. secret \in [Services -> Sec \cup {NoSecret}]
    BY <1>2, <2>1
  <2>3. \A s \in Services : secret[s].serial <= serials
    <3>1. NoSecret.serial = 0
      BY DEF NoSecret
    <3> QED BY <1>3, <1>6, <3>1
  <2> QED BY <2>1, <2>2, <2>3 DEF SecretsOK
<1>8. ConfigsOK(config, stored)
  <2>1. ASSUME NEW c \in Configs
        PROVE  config[c] \in BundlesOf(c) /\ IsStored(c, config[c], stored)
    <3>1. config[c] = [i \in DOMAIN Calls[c] |->
                          IF \A s \in Range(Calls[c]) : Existing[s] # 0
                          THEN caBundleFor(service[Calls[c][i]], secret[Calls[c][i]]) ELSE NoBundle]
      BY DEF Init
    <3>2. \A i \in DOMAIN Calls[c] : Calls[c][i] \in Services /\ Calls[c][i] \in Range(Calls[c])
      BY CallsAssumption DEF Range
    <3>3. ASSUME NEW i \in DOMAIN Calls[c], Existing[Calls[c][i]] # 0
          PROVE  LET b == caBundleFor(service[Calls[c][i]], secret[Calls[c][i]])
                 IN  b \in Bundle /\ <<Calls[c][i], b.serial>> \in stored
      BY <1>6, <3>2, <3>3 DEF caBundleFor, Bundle, Svc, Sec
    <3>4. NoBundle \in Bundle
      BY DEF NoBundle, Bundle
    <3>5. \A i \in DOMAIN Calls[c] :
             \/ config[c][i] = NoBundle
             \/ config[c][i] \in Bundle /\ <<Calls[c][i], config[c][i].serial>> \in stored
      BY <3>1, <3>2, <3>3
    <3> QED BY <3>1, <3>4, <3>5 DEF BundlesOf, IsStored
  <2>2. config \in [Configs -> Bundles]
    <3>1. DOMAIN config = Configs /\ config = [c \in Configs |-> config[c]]
      BY DEF Init
    <3>2. \A c \in Configs : config[c] \in Bundles
      BY <2>1 DEF Bundles
    <3> QED BY <3>1, <3>2
  <2> QED BY <2>1, <2>2 DEF ConfigsOK
<1>9. /\ cache.service = service /\ cache.secret = secret /\ cache.config = config
      /\ DOMAIN cache = {"service", "secret", "config"}
      /\ cache = [service |-> cache.service, secret |-> cache.secret, config |-> cache.config]
  BY SeenAll DEF Init
<1>10. /\ news = {} /\ queue = {} /\ timer \in [Services -> Nat] /\ due = 0 /\ uids = serials
       /\ work = [w \in Workers |-> Idle]
  BY ExistingAssumption DEF Init
<1>11. \A w \in Workers : JobOK(w, work[w], stored)
  BY <1>10 DEF JobOK
<1>12. CachedInv
  BY <1>3, <1>7, <1>9, <1>10 DEF CachedInv
<1>13. DOMAIN work = Workers /\ work = [w \in Workers |-> work[w]]
  BY <1>10
<1> QED BY <1>3, <1>5, <1>7, <1>8, <1>9, <1>10, <1>11, <1>12, <1>13 DEF StoredInv

\* Every step preserves them.
LEMMA NextStored == StoredInv /\ CachedInv /\ [Next]_vars => StoredInv' /\ CachedInv'
<1> SUFFICES ASSUME StoredInv, CachedInv, [Next]_vars PROVE StoredInv' /\ CachedInv'
  OBVIOUS
<1>1. CASE UNCHANGED vars
  BY <1>1 DEF vars, StoredInv, CachedInv
<1>2. ASSUME NEW w \in Workers, Step(w) \/ CallFails(w) \/ WriteFails(w)
      PROVE  StoredInv' /\ CachedInv'
  BY <1>2, TakeStored, GeneratesStored, WriteStored DEF Step, Generates
<1> QED BY <1>1, <1>2, InformerStored, TimerStored, CollectStored, ChangeStored, RestartStored
        DEF Next

\* A configuration trusts only certificates that were stored in the secret of
\* the service it calls.
THEOREM OnlyStoredTrusted == Spec => []TrustsOnlyStored
<1>1. StoredInv => TrustsOnlyStored
  BY DEF StoredInv, ConfigsOK, IsStored, TrustsOnlyStored
<1> QED BY <1>1, InitStored, NextStored, PTL DEF Spec

-----------------------------------------------------------------------------
(* What is still to be done *)

\* A worker has key k; the cache has service s with its annotation.
Busy(k) == \E w \in Workers : work[w] # Idle /\ work[w].key = k
Annotated(s) == cache.service[s] # Absent /\ cache.service[s].annotated

\* The service will be handled, or is.
Active(s) == s \in queue \/ Busy(s) \/ s \in news \/ timer[s] \in 1 .. due

\* The entry of s in c does not matter, or c will be handled after s was.
Unsettled(s, c) == Active(s) \/ c \in queue \/ ~Annotated(s)

\* Bundle b is the one for call i of c, as far as the caches know.
Fine(c, i, b) ==
    LET s == Calls[c][i]
    IN  Unsettled(s, c) \/ b = caBundleFor(cache.service[s], cache.secret[s])

\* A service that nobody will handle has what it needs.
ServiceOK(s) ==
    Annotated(s) /\ ~Active(s) =>
        /\ cache.secret[s] # NoSecret /\ cache.secret[s].dns = cache.service[s].dns
        /\ cache.secret[s].serial > due /\ timer[s] \in 1 .. cache.secret[s].serial

\* A worker knows its service as the cache does, or the service is queued again.
OwnOK(w) == work[w] \in InGenerate /\ work[w].key \in Services =>
               work[w].seen = cache.service[work[w].key] \/ work[w].key \in queue

\* A worker on its way through the calls of a configuration.  It is past the
\* lock only for a service that will be handled: for others the cached secret
\* is good.
WalkOK(w) ==
    LET j == work[w] IN
    j \in InGenerate /\ j.key \in Configs =>
        /\ j.base.bundle = config[j.key] \/ j.key \in news \/ j.key \in queue
        /\ \A n \in 1 .. j.i - 1 : Fine(j.key, n, j.copy[n])
        /\ j.seen = cache.service[j.svc] \/ Unsettled(j.svc, j.key)
        /\ j.pc # "lock" => Unsettled(j.svc, j.key)

\* The service is missing, or its handler will queue its configurations.
Pending(s) == cache.service[s] = Absent \/ s \in queue \/ Busy(s)

\* A configuration that nobody will handle is as it should be.
ConfigOK(c) ==
    \/ c \in queue \/ c \in news \/ Busy(c)
    \/ \E n \in DOMAIN Calls[c] : Pending(Calls[c][n])
    \/ \A n \in DOMAIN Calls[c] : Fine(c, n, config[c][n])

\* With StoredInv and CachedInv, the inductive invariant.
RestInv == /\ \A s \in Services : ServiceOK(s)
           /\ \A w \in Workers : OwnOK(w) /\ WalkOK(w)
           /\ \A c \in Configs : ConfigOK(c)

\* What a step must not do to a service: forget it, or change what is known
\* of it, without a handler to follow.
KeepsService(s) ==
    /\ Active(s) => Active(s)' \/ ~Annotated(s)' \/ byService(s) \subseteq queue'
    /\ \/ cache'.service[s] = cache.service[s] /\ cache'.secret[s] = cache.secret[s]
       \/ s \in queue' \/ ~Annotated(s)'
    /\ Pending(s) => Pending(s)' \/ byService(s) \subseteq queue'

\* A configuration is found by the services it calls.
LEMMA Called ==
    ASSUME NEW c \in Configs, NEW n \in DOMAIN Calls[c]
    PROVE  Calls[c][n] \in Services /\ c \in byService(Calls[c][n])
BY CallsAssumption DEF byService, Range

\* What is unsettled stays so as long as nobody forgets it.
LEMMA UnsettledKept ==
    ASSUME NEW c \in Configs, NEW n \in DOMAIN Calls[c], KeepsService(Calls[c][n]),
           c \in queue => c \in queue', Unsettled(Calls[c][n], c)
    PROVE  Unsettled(Calls[c][n], c)'
<1> DEFINE s == Calls[c][n]
<1>0. c \in byService(s)
  BY Called
<1>1. CASE Active(s)
  BY <1>0, <1>1 DEF KeepsService, Unsettled
<1>2. CASE c \in queue
  BY <1>2 DEF Unsettled
<1>3. CASE ~Annotated(s)
  <2>1. CASE cache'.service[s] = cache.service[s]
    BY <1>3, <2>1 DEF Annotated, Unsettled
  <2> QED BY <2>1 DEF KeepsService, Unsettled, Active
<1> QED BY <1>1, <1>2, <1>3 DEF Unsettled

\* A bundle stays fine in the same way.
LEMMA FineKept ==
    ASSUME NEW c \in Configs, NEW n \in DOMAIN Calls[c], KeepsService(Calls[c][n]),
           c \in queue => c \in queue', NEW b, Fine(c, n, b)
    PROVE  Fine(c, n, b)'
<1> DEFINE s == Calls[c][n]
<1>1. CASE Unsettled(s, c)
  BY <1>1, UnsettledKept DEF Fine
<1>2. CASE b = caBundleFor(cache.service[s], cache.secret[s])
  <2>1. CASE cache'.service[s] = cache.service[s] /\ cache'.secret[s] = cache.secret[s]
    BY <1>2, <2>1 DEF Fine
  <2>2. CASE s \in queue' \/ ~Annotated(s)'
    BY <2>2 DEF Fine, Unsettled, Active
  <2> QED BY <2>1, <2>2 DEF KeepsService
<1> QED BY <1>1, <1>2 DEF Fine

\* A service keeps what it needs.
LEMMA ServiceKept ==
    ASSUME NEW s \in Services, ServiceOK(s), due' = due,
           Active(s) => Active(s)' \/ ~Annotated(s)',
           \/ cache'.service[s] = cache.service[s] /\ cache'.secret[s] = cache.secret[s]
           \/ s \in queue' \/ ~Annotated(s)',
           timer[s] \in 1 .. cache.secret[s].serial => timer'[s] \in 1 .. cache.secret[s].serial
    PROVE  ServiceOK(s)'
<1>1. CASE cache'.service[s] = cache.service[s] /\ cache'.secret[s] = cache.secret[s]
  <2>1. Annotated(s)' => Annotated(s)
    BY <1>1 DEF Annotated
  <2> QED BY <1>1, <2>1 DEF ServiceOK
<1>2. CASE s \in queue' \/ ~Annotated(s)'
  BY <1>2 DEF ServiceOK, Active
<1> QED BY <1>1, <1>2

\* A worker that does not move keeps knowing its service.
LEMMA OwnKept ==
    ASSUME NEW v \in Workers, OwnOK(v), work'[v] = work[v],
           LET k == work[v].key
           IN  /\ k \in queue => k \in queue'
               /\ k \in Services => cache'.service[k] = cache.service[k] \/ k \in queue'
    PROVE  OwnOK(v)'
BY DEF OwnOK

\* A worker that does not move keeps what it has copied.
LEMMA WalkKept ==
    ASSUME StoredInv, NEW v \in Workers, WalkOK(v), work'[v] = work[v],
           \A s \in Services : KeepsService(s),
           LET c == work[v].key
           IN  /\ c \in queue => c \in queue'
               /\ c \in news => c \in news' \/ c \in queue'
               /\ c \in Configs => config'[c] = config[c] \/ c \in news'
    PROVE  WalkOK(v)'
<1> DEFINE j == work[v]
<1> SUFFICES ASSUME j \in InGenerate, j.key \in Configs
             PROVE  /\ j.base.bundle = config'[j.key] \/ j.key \in news' \/ j.key \in queue'
                    /\ \A n \in 1 .. j.i - 1 : Fine(j.key, n, j.copy[n])'
                    /\ j.seen = cache'.service[j.svc] \/ Unsettled(j.svc, j.key)'
                    /\ j.pc # "lock" => Unsettled(j.svc, j.key)'
  BY DEF WalkOK
<1>1. JobOK(v, j, stored)
  BY DEF StoredInv
<1>2. ConfigJob(v, j, stored)
  BY <1>1, Kinds, DisjointKeys DEF ServiceJob
<1>3. j.i \in DOMAIN Calls[j.key] /\ j.svc = Calls[j.key][j.i] /\ j.i \in Nat
      /\ j.svc \in Services
  BY <1>2, Called DEF ConfigJob, InGenerate
<1>4. \A n \in 1 .. j.i - 1 : n \in DOMAIN Calls[j.key] /\ Calls[j.key][n] \in Services
  BY <1>3, CallsAssumption
<1>5. Unsettled(j.svc, j.key) => Unsettled(j.svc, j.key)'
  BY <1>3, UnsettledKept
<1>6. j.base.bundle = config'[j.key] \/ j.key \in news' \/ j.key \in queue'
  BY DEF WalkOK
<1>7. ASSUME NEW n \in 1 .. j.i - 1 PROVE Fine(j.key, n, j.copy[n])'
  <2> DEFINE b == j.copy[n]
             c == j.key
  <2>1. Fine(c, n, b) /\ n \in DOMAIN Calls[c] /\ KeepsService(Calls[c][n])
    BY <1>4 DEF WalkOK
  <2>2. b = b' /\ c = c'
    OBVIOUS
  <2> HIDE DEF b, c
  <2>3. Fine(c, n, b)'
    BY <2>1, <2>2, FineKept DEF c
  <2> QED BY <2>3 DEF b, c
<1>8. j.seen = cache'.service[j.svc] \/ Unsettled(j.svc, j.key)'
  <2>1. CASE cache'.service[j.svc] = cache.service[j.svc]
    BY <1>5, <2>1 DEF WalkOK
  <2>2. CASE j.svc \in queue' \/ ~Annotated(j.svc)'
    BY <2>2 DEF Unsettled, Active
  <2> QED BY <1>3, <2>1, <2>2 DEF KeepsService
<1> QED BY <1>5, <1>6, <1>7, <1>8 DEF WalkOK

\* A configuration stays as it should be.
LEMMA ConfigKept ==
    ASSUME NEW c \in Configs, ConfigOK(c), \A s \in Services : KeepsService(s),
           c \in queue => c \in queue', c \in news => c \in news' \/ c \in queue',
           Busy(c) => Busy(c)', config'[c] = config[c] \/ c \in news'
    PROVE  ConfigOK(c)'
<1>1. CASE c \in queue \/ c \in news \/ Busy(c)
  BY <1>1 DEF ConfigOK
<1>2. CASE \E n \in DOMAIN Calls[c] : Pending(Calls[c][n])
  <2>1. PICK n \in DOMAIN Calls[c] : Pending(Calls[c][n])
    BY <1>2
  <2>2. Pending(Calls[c][n])' \/ c \in queue'
    BY <2>1, Called DEF KeepsService
  <2> QED BY <2>2 DEF ConfigOK
<1>3. CASE \A n \in DOMAIN Calls[c] : Fine(c, n, config[c][n])
  <2>1. CASE config'[c] = config[c]
    <3>1. ASSUME NEW n \in DOMAIN Calls[c] PROVE Fine(c, n, config[c][n])'
      <4>1. PICK b : b = config[c][n]
        OBVIOUS
      <4>2. Fine(c, n, b)
        BY <1>3, <4>1
      <4>3. Fine(c, n, b)'
        BY <4>2, Called, FineKept
      <4>4. b = config'[c][n]
        BY <2>1, <4>1
      <4> QED BY <4>3, <4>4 DEF Fine
    <3> QED BY <3>1 DEF ConfigOK
  <2>2. CASE c \in news'
    BY <2>2 DEF ConfigOK
  <2> QED BY <2>1, <2>2
<1> QED BY <1>1, <1>2, <1>3 DEF ConfigOK

\* A step that leaves the workers alone keeps the invariant, if it keeps what
\* the services need.
LEMMA StillKept ==
    ASSUME StoredInv, RestInv, UNCHANGED <<work, config>>, \A s \in Services : KeepsService(s),
           queue \subseteq queue', \A c \in Configs : c \in news => c \in news' \/ c \in queue',
           \A s \in Services : cache'.service[s] = cache.service[s] \/ s \in queue',
           \A s \in Services : ServiceOK(s)'
    PROVE  RestInv'
<1>1. \A v \in Workers : work'[v] = work[v]
  OBVIOUS
<1>2. \A k : Busy(k) => Busy(k)'
  BY DEF Busy
<1>3. ASSUME NEW v \in Workers PROVE OwnOK(v)' /\ WalkOK(v)'
  <2>1. OwnOK(v) /\ WalkOK(v)
    BY DEF RestInv
  <2>2. OwnOK(v)'
    BY <1>1, <2>1, OwnKept
  <2>3. CASE work[v].key \in Configs
    BY <1>1, <2>1, <2>2, <2>3, WalkKept
  <2>4. CASE work[v].key \notin Configs
    BY <1>1, <2>2, <2>4 DEF WalkOK
  <2> QED BY <2>2, <2>3, <2>4
<1>4. ASSUME NEW c \in Configs PROVE ConfigOK(c)'
  BY <1>2, ConfigKept DEF RestInv
<1> QED BY <1>3, <1>4 DEF RestInv

\* What changes in a cache is queued.
LEMMA InformerRest ==
    ASSUME StoredInv, RestInv, Informer
    PROVE  RestInv'
<1>0. UNCHANGED <<config, timer, work, due>>
  BY InformerCases
<1>1. \A k : Busy(k)' <=> Busy(k)
  BY <1>0 DEF Busy
<1>2. cache.service \in [Services -> Svc \cup {Absent}]
      /\ cache.secret \in [Services -> Sec \cup {NoSecret}]
  BY DEF StoredInv, SecretsOK
<1>3. ASSUME NEW s \in Services,
             cache' = [service |-> [cache.service EXCEPT ![s] = service[s]],
                       secret |-> cache.secret, config |-> cache.config],
             queue' = queue \cup {s}, news' = news
      PROVE  RestInv'
  <2>1. \A x \in Services : x # s => cache'.service[x] = cache.service[x]
    BY <1>2, <1>3
  <2>2. \A x \in Services : cache'.secret[x] = cache.secret[x]
    BY <1>3
  <2>3. \A x \in Services : KeepsService(x)
    BY <1>0, <1>1, <1>3, <2>1, <2>2 DEF KeepsService, Active, Pending
  <2>4. \A x \in Services : Active(x) => Active(x)'
    BY <1>0, <1>1, <1>3 DEF Active
  <2>5. \A x \in Services : ServiceOK(x)'
    BY <1>0, <1>3, <2>1, <2>2, <2>4, ServiceKept DEF RestInv
  <2> QED BY <1>0, <1>3, <2>1, <2>3, <2>5, StillKept
<1>4. ASSUME NEW s \in Services \cap news,
             cache' = [service |-> cache.service, config |-> cache.config,
                       secret |-> [cache.secret EXCEPT ![s] = secret[s]]],
             queue' = queue \cup resolveServiceFromSecret(s), news' = news \ {s}
      PROVE  RestInv'
  <2>1. \A x \in Services : cache'.service[x] = cache.service[x]
    BY <1>4
  <2>2. \A x \in Services : x # s => cache'.secret[x] = cache.secret[x]
    BY <1>2, <1>4
  <2>3. s \in queue' \/ ~Annotated(s)'
    BY <1>4, <2>1 DEF Annotated, resolveServiceFromSecret
  <2>4. \A x \in Services : Active(x) => Active(x)' \/ ~Annotated(x)'
    BY <1>0, <1>1, <1>4, <2>3 DEF Active
  <2>5. \A x \in Services : Pending(x) => Pending(x)'
    BY <1>1, <1>4, <2>1 DEF Pending
  <2>6. \A x \in Services : KeepsService(x)
    BY <2>1, <2>2, <2>3, <2>4, <2>5 DEF KeepsService
  <2>7. \A x \in Services : ServiceOK(x)'
    BY <1>0, <2>1, <2>2, <2>3, <2>4, ServiceKept DEF RestInv
  <2>8. \A c \in Configs : c \in news => c \in news'
    BY <1>4, DisjointKeys
  <2> QED BY <1>0, <1>4, <2>1, <2>6, <2>7, <2>8, StillKept
<1>5. ASSUME NEW c \in Configs \cap news,
             cache' = [service |-> cache.service, secret |-> cache.secret,
                       config |-> [cache.config EXCEPT ![c] = config[c]]],
             queue' = queue \cup {c}, news' = news \ {c}
      PROVE  RestInv'
  <2>1. \A x \in Services : /\ cache'.service[x] = cache.service[x]
                            /\ cache'.secret[x] = cache.secret[x]
    BY <1>5
  <2>2. \A x \in Services : x \in news => x \in news'
    BY <1>5, DisjointKeys
  <2>3. \A x \in Services : Active(x) => Active(x)'
    BY <1>0, <1>1, <1>5, <2>2 DEF Active
  <2>4. \A x \in Services : Pending(x) => Pending(x)'
    BY <1>1, <1>5, <2>1 DEF Pending
  <2>5. \A x \in Services : KeepsService(x)
    BY <2>1, <2>3, <2>4 DEF KeepsService
  <2>6. \A x \in Services : ServiceOK(x)'
    BY <1>0, <2>1, <2>3, ServiceKept DEF RestInv
  <2> QED BY <1>0, <1>5, <2>1, <2>5, <2>6, StillKept
<1> QED BY <1>3, <1>4, <1>5, InformerCases

\* A timer that fires queues its service.
LEMMA TimerRest ==
    ASSUME StoredInv, RestInv, Timer
    PROVE  RestInv'
<1>0. UNCHANGED <<config, cache, news, work, due>>
  BY DEF Timer, server
<1>1. PICK s \in Services : timer' = [timer EXCEPT ![s] = 0] /\ queue' = queue \cup {s}
  BY DEF Timer
<1>2. \A k : Busy(k)' <=> Busy(k)
  BY <1>0 DEF Busy
<1>3. \A x \in Services : x # s => timer'[x] = timer[x]
  BY <1>1 DEF StoredInv
<1>4. \A x \in Services : Active(x) => Active(x)'
  BY <1>0, <1>1, <1>2, <1>3 DEF Active
<1>5. \A x \in Services : KeepsService(x)
  BY <1>0, <1>1, <1>2, <1>4 DEF KeepsService, Pending
<1>6. ASSUME NEW x \in Services PROVE ServiceOK(x)'
  <2>1. CASE x = s
    BY <1>1, <2>1 DEF ServiceOK, Active
  <2>2. CASE x # s
    BY <1>0, <1>3, <1>4, <2>2, ServiceKept DEF RestInv
  <2> QED BY <2>1, <2>2
<1> QED BY <1>0, <1>1, <1>5, <1>6, StillKept

\* News only adds to what will be handled.
LEMMA NewsRest ==
    ASSUME StoredInv, RestInv, news \subseteq news', UNCHANGED <<config, cache, queue, timer, work, due>>
    PROVE  RestInv'
<1>1. \A k : Busy(k)' <=> Busy(k)
  BY DEF Busy
<1>2. \A x \in Services : Active(x) => Active(x)'
  BY <1>1 DEF Active
<1>3. \A x \in Services : KeepsService(x)
  BY <1>1, <1>2 DEF KeepsService, Pending
<1>4. \A x \in Services : ServiceOK(x)'
  BY <1>2, ServiceKept DEF RestInv
<1> QED BY <1>3, <1>4, StillKept

\* A disturbance leaves the caches alone, or makes certificates due, which the
\* timers know.
LEMMA ChangeRest ==
    ASSUME StoredInv, CachedInv, RestInv, Change
    PROVE  RestInv'
<1>0. UNCHANGED <<config, cache, queue, timer, work>>
  BY ChangeCases
<1>1. CASE UNCHANGED <<secret, news, due>>
  BY <1>0, <1>1, NewsRest
<1>2. CASE \E s \in Services : Gone(s) /\ UNCHANGED <<service, due, uids>>
  BY <1>0, <1>2, NewsRest DEF Gone
<1>3. CASE due < serials /\ due' = serials /\ UNCHANGED <<service, secret, news, uids>>
  <2>1. \A k : Busy(k)' <=> Busy(k)
    BY <1>0 DEF Busy
  <2>2. \A x \in Services : Active(x) => Active(x)'
    BY <1>0, <1>3, <2>1 DEF Active, StoredInv
  <2>3. \A x \in Services : KeepsService(x)
    BY <1>0, <2>1, <2>2 DEF KeepsService, Pending
  <2>4. ASSUME NEW x \in Services PROVE ServiceOK(x)'
    <3> SUFFICES ASSUME Annotated(x)', ~Active(x)' PROVE FALSE
      BY DEF ServiceOK
    <3>1. Annotated(x) /\ ~Active(x)
      BY <1>0, <2>2 DEF Annotated
    <3>2. timer[x] \in 1 .. cache.secret[x].serial
      BY <3>1 DEF RestInv, ServiceOK
    <3>3. cache.secret[x].serial <= serials /\ serials \in Nat /\ cache.secret[x].serial \in Nat
      BY DEF CachedInv, StoredInv, SecretsOK, Sec, NoSecret
    <3>4. timer'[x] \in 1 .. due'
      BY <1>0, <1>3, <3>2, <3>3
    <3> QED BY <3>4 DEF Active
  <2> QED BY <1>0, <1>3, <2>3, <2>4, StillKept
<1> QED BY <1>1, <1>2, <1>3, ChangeCases

\* After a restart everything is queued.
LEMMA RestartRest ==
    ASSUME Restart
    PROVE  RestInv'
<1>1. /\ cache' = View /\ service' = service /\ work' = [w \in Workers |-> Idle]
      /\ queue' = Configs \cup {s \in Services : service[s] # Absent}
  BY DEF Restart
<1>2. ASSUME NEW s \in Services PROVE ServiceOK(s)'
  <2>1. cache'.service = service
    BY <1>1, SeenAll
  <2>2. Annotated(s)' => s \in queue'
    BY <1>1, <2>1 DEF Annotated
  <2> QED BY <2>2 DEF ServiceOK, Active
<1>3. ASSUME NEW w \in Workers PROVE OwnOK(w)' /\ WalkOK(w)'
  <2>1. work'[w] = Idle /\ Idle \notin InGenerate
    BY <1>1 DEF Idle, InGenerate
  <2> QED BY <2>1 DEF OwnOK, WalkOK
<1>4. \A c \in Configs : ConfigOK(c)'
  BY <1>1 DEF ConfigOK
<1> QED BY <1>2, <1>3, <1>4 DEF RestInv

\* Two workers are never busy with the same key.
LEMMA OtherKeys ==
    ASSUME StoredInv, NEW v \in Workers, NEW w \in Workers, v # w, work[v] # Idle
    PROVE  work[v].key \notin Keys[w]
<1>1. JobOK(v, work[v], stored)
  BY DEF StoredInv
<1>2. work[v].key \in Keys[v]
  BY <1>1, Kinds
<1> QED BY <1>2, KeysAssumption DEF Workers

\* A step of worker w that keeps what the services need keeps the invariant,
\* if it does so for what w is busy with.
LEMMA StepKept ==
    ASSUME StoredInv, RestInv, NEW w \in Workers, NEW key \in Keys[w], UNCHANGED cache,
           \A v \in Workers \ {w} : work'[v] = work[v],
           \A s \in Services : KeepsService(s),
           \A k : k # key /\ k \in queue => k \in queue', news \subseteq news',
           \A c \in Configs : config'[c] = config[c] \/ c \in news',
           work[w] # Idle => work[w].key = key,
           \A s \in Services : ServiceOK(s)', OwnOK(w)' /\ WalkOK(w)',
           key \in Configs => ConfigOK(key)'
    PROVE  RestInv'
<1>1. ASSUME NEW v \in Workers, v # w PROVE OwnOK(v)' /\ WalkOK(v)'
  <2>1. OwnOK(v) /\ WalkOK(v) /\ work'[v] = work[v]
    BY <1>1 DEF RestInv
  <2>2. CASE work[v] = Idle
    <3>1. Idle \notin InGenerate
      BY DEF Idle, InGenerate
    <3> QED BY <2>1, <2>2, <3>1 DEF OwnOK, WalkOK
  <2>3. CASE work[v] # Idle
    <3>1. work[v].key # key
      BY <1>1, <2>3, OtherKeys
    <3>2. OwnOK(v)'
      BY <2>1, <3>1, OwnKept
    <3>3. WalkOK(v)'
      BY <2>1, <3>1, WalkKept
    <3> QED BY <3>2, <3>3
  <2> QED BY <2>2, <2>3
<1>2. ASSUME NEW c \in Configs, c # key PROVE ConfigOK(c)'
  <2>1. Busy(c) => Busy(c)'
    BY <1>2 DEF Busy
  <2>2. ConfigOK(c)
    BY DEF RestInv
  <2> QED BY <1>2, <2>1, <2>2, ConfigKept
<1> QED BY <1>1, <1>2 DEF RestInv

\* The walk goes on behind the calls that are fine.
LEMMA EntryWalk ==
    ASSUME StoredInv, NEW w \in Workers, NEW key \in Configs \cap Keys[w], NEW i \in Nat \ {0},
           NEW base \in Base, NEW copy \in BundlesOf(key), UNCHANGED <<cache, config>>,
           i - 1 <= Len(Calls[key]), work'[w] = Entry(key, i, base, copy),
           base.bundle = config[key] \/ key \in news' \/ key \in queue',
           \A n \in 1 .. i - 1 : Fine(key, n, copy[n])'
    PROVE  OwnOK(w)' /\ WalkOK(w)' /\ ConfigOK(key)'
<1> DEFINE named(n) == cache.service[Calls[key][n]]
           passed(m) == \A n \in i .. m : named(n) \in Svc /\ ~named(n).annotated
<1>0. cache.service \in [Services -> Svc \cup {Absent}]
  BY DEF StoredInv
<1>1. Calls[key] \in Seq(Services) /\ Len(Calls[key]) \in Nat
      /\ DOMAIN Calls[key] = 1 .. Len(Calls[key])
  BY CallsAssumption
<1>2. ASSUME NEW m \in Nat, m <= Len(Calls[key]), passed(m), NEW n \in 1 .. m
      PROVE  Fine(key, n, copy[n])'
  <2>1. CASE n <= i - 1
    BY <2>1
  <2>2. CASE n > i - 1
    <3>1. ~named(n).annotated
      BY <1>2, <2>2
    <3>2. ~Annotated(Calls[key][n])'
      BY <3>1 DEF Annotated
    <3> QED BY <3>2 DEF Fine, Unsettled
  <2> QED BY <2>1, <2>2
<1>3. Idle \notin InGenerate
  BY DEF Idle, InGenerate
<1>4. CASE /\ \E n \in DOMAIN Calls[key] : named(n) = Absent
           /\ Entry(key, i, base, copy) = Idle
  <2>1. PICK n \in DOMAIN Calls[key] : named(n) = Absent
    BY <1>4
  <2>2. Pending(Calls[key][n])'
    BY <2>1 DEF Pending
  <2> QED BY <1>3, <1>4, <2>2 DEF ConfigOK, OwnOK, WalkOK
<1>5. ASSUME NEW j \in i .. Len(Calls[key]), named(j) \in Svc, passed(j - 1),
             Entry(key, i, base, copy) = Generating(key, Calls[key][j], j, base, copy)
      PROVE  OwnOK(w)' /\ WalkOK(w)' /\ ConfigOK(key)'
  <2> DEFINE g == Generating(key, Calls[key][j], j, base, copy)
  <2>1. Calls[key][j] \in Services /\ key \in AllKeys /\ copy \in Bundles /\ j \in Nat
    BY <1>1 DEF AllKeys, Bundles
  <2>2. /\ g \in InGenerate /\ g.pc = "lock" /\ g.key = key /\ g.svc = Calls[key][j] /\ g.i = j
        /\ g.base = base /\ g.copy = copy /\ g.seen = cache.service[Calls[key][j]]
    BY <1>5, <2>1, GeneratingType
  <2>3. work'[w] = g
    BY <1>5
  <2> HIDE DEF g
  <2>4. OwnOK(w)'
    BY <2>2, <2>3, DisjointKeys DEF OwnOK
  <2>5. ConfigOK(key)'
    <3>1. g # Idle
      BY <1>3, <2>2
    <3> QED BY <2>2, <2>3, <3>1 DEF ConfigOK, Busy
  <2>6. WalkOK(w)'
    <3>1. \A n \in 1 .. j - 1 : Fine(key, n, copy[n])'
      BY <1>1, <1>2, <1>5
    <3> QED BY <2>2, <2>3, <3>1 DEF WalkOK
  <2> QED BY <2>4, <2>5, <2>6
<1>6. CASE /\ passed(Len(Calls[key])) /\ copy = base.bundle
           /\ Entry(key, i, base, copy) = Idle
  <2>1. \A n \in DOMAIN Calls[key] : Fine(key, n, copy[n])'
    BY <1>1, <1>2, <1>6
  <2>2. CASE key \in news' \/ key \in queue'
    BY <1>3, <1>6, <2>2 DEF ConfigOK, OwnOK, WalkOK
  <2>3. CASE copy = config'[key]
    BY <1>3, <1>6, <2>1, <2>3 DEF ConfigOK, OwnOK, WalkOK
  <2> QED BY <1>6, <2>2, <2>3
<1>7. CASE Entry(key, i, base, copy) =
              [pc |-> "write", key |-> key, base |-> base, copy |-> copy]
  <2> DEFINE g == [pc |-> "write", key |-> key, base |-> base, copy |-> copy]
  <2>1. g.key = key /\ g # Idle /\ g \notin InGenerate
    BY DEF Idle, InGenerate
  <2>2. work'[w] = g
    BY <1>7
  <2> HIDE DEF g
  <2> QED BY <2>1, <2>2 DEF ConfigOK, Busy, OwnOK, WalkOK
<1> QED BY <1>0, <1>4, <1>5, <1>6, <1>7, EntryCases

\* A handler that returns at once had nothing to do, or has queued the rest.
LEMMA TakeRest ==
    ASSUME StoredInv, CachedInv, RestInv, NEW w \in Workers, Take(w)
    PROVE  RestInv'
<1> USE DEF server
<1>0. UNCHANGED <<config, cache, news, timer, due>>
  BY DEF Take
<1>1. work[w] = Idle /\ DOMAIN work = Workers
  <2>1. JobOK(w, work[w], stored) /\ DOMAIN work = Workers
    BY DEF StoredInv
  <2> QED BY <2>1, Kinds DEF Take
<1>2. PICK key \in queue \cap Keys[w] :
          LET svc == cache.service[key]
          IN  IF key \in Configs
              THEN /\ queue' = queue \ {key}
                   /\ Go(w, Entry(key, 1, [bundle |-> cache.config[key], current |-> key \notin news],
                                  cache.config[key]))
              ELSE IF svc # Absent /\ svc.annotated
              THEN /\ queue' = queue \ {key}
                   /\ Go(w, Generating(key, key, 0, <<>>, <<>>))
              ELSE /\ queue' = (IF svc = Absent THEN queue ELSE OnService(key)) \ {key}
                   /\ UNCHANGED work
  BY DEF Take
<1>3. \A v \in Workers \ {w} : work'[v] = work[v]
  BY <1>1, <1>2 DEF Go
<1>4. \A k : k # key /\ k \in queue => k \in queue'
  BY <1>2 DEF OnService
<1>5. \A k : Busy(k) => Busy(k)'
  BY <1>1, <1>3 DEF Busy
<1>6. ASSUME NEW s \in Services, s # key
      PROVE  (Active(s) => Active(s)') /\ (Pending(s) => Pending(s)')
  BY <1>0, <1>4, <1>5, <1>6 DEF Active, Pending
<1>7. CASE key \in Configs
  <2>1. \A s \in Services : s # key
    BY <1>7, DisjointKeys
  <2>2. \A s \in Services : KeepsService(s)
    BY <1>0, <1>6, <2>1 DEF KeepsService
  <2>3. \A s \in Services : ServiceOK(s)'
    BY <1>0, <1>6, <2>1, ServiceKept DEF RestInv
  <2>4. OwnOK(w)' /\ WalkOK(w)' /\ ConfigOK(key)'
    <3> DEFINE base == [bundle |-> cache.config[key], current |-> key \notin news]
               copy == cache.config[key]
    <3>1. copy \in BundlesOf(key) /\ copy \in Bundles
      BY <1>7 DEF StoredInv, ConfigsOK
    <3>2. base \in Base /\ base.bundle = copy
      BY <3>1 DEF Base
    <3>3. work'[w] = Entry(key, 1, base, copy)
      BY <1>1, <1>2, <1>7 DEF Go
    <3>4. copy = config[key] \/ key \in news'
      BY <1>0, <1>7 DEF CachedInv
    <3> HIDE DEF base, copy
    <3>5. 1 \in Nat \ {0} /\ 1 - 1 <= Len(Calls[key]) /\ 1 .. 1 - 1 = {}
      BY <1>7, CallsAssumption
    <3> QED BY <1>0, <1>7, <3>1, <3>2, <3>3, <3>4, <3>5, EntryWalk
  <2> QED BY <1>0, <1>1, <1>3, <1>4, <2>2, <2>3, <2>4, StepKept
<1>8. CASE key \notin Configs /\ cache.service[key] # Absent /\ cache.service[key].annotated
  <2>1. key \in Services
    BY <1>8 DEF StoredInv, AllKeys
  <2>2. cache.service[key] \in Svc
    BY <1>8, <2>1 DEF StoredInv
  <2> DEFINE g == Generating(key, key, 0, <<>>, <<>>)
  <2>3. g \in InGenerate /\ g.key = key /\ g.svc = key /\ g.seen = cache.service[key]
    BY <2>1, <2>2, OwnGenerating
  <2>4. work'[w] = g
    BY <1>1, <1>2, <1>8 DEF Go
  <2> HIDE DEF g
  <2>5. Busy(key)'
    <3>1. g # Idle
      BY <2>3 DEF InGenerate, Idle
    <3> QED BY <2>3, <2>4, <3>1 DEF Busy
  <2>6. \A s \in Services : (Active(s) => Active(s)') /\ (Pending(s) => Pending(s)')
    BY <1>6, <2>5 DEF Active, Pending
  <2>7. \A s \in Services : KeepsService(s)
    BY <1>0, <2>6 DEF KeepsService
  <2>8. \A s \in Services : ServiceOK(s)'
    BY <1>0, <2>6, ServiceKept DEF RestInv
  <2>9. OwnOK(w)' /\ WalkOK(w)'
    BY <1>0, <1>8, <2>3, <2>4 DEF OwnOK, WalkOK
  <2> QED BY <1>0, <1>1, <1>3, <1>4, <1>8, <2>7, <2>8, <2>9, StepKept
<1>9. CASE key \notin Configs /\ ~(cache.service[key] # Absent /\ cache.service[key].annotated)
  <2>1. key \in Services
    BY <1>9 DEF StoredInv, AllKeys
  <2>2. work'[w] = Idle
    BY <1>1, <1>2, <1>9
  <2>3. ~Annotated(key)'
    BY <1>0, <1>9 DEF Annotated
  <2>4. cache.service[key] # Absent => byService(key) \subseteq queue'
    BY <1>2, <1>9 DEF OnService, byService
  <2>5. \A s \in Services : Active(s) => Active(s)' \/ ~Annotated(s)'
    BY <1>6, <2>3
  <2>6. \A s \in Services : Pending(s) => Pending(s)' \/ byService(s) \subseteq queue'
    BY <1>0, <1>6, <2>4 DEF Pending
  <2>7. \A s \in Services : KeepsService(s)
    BY <1>0, <2>5, <2>6 DEF KeepsService
  <2>8. \A s \in Services : ServiceOK(s)'
    BY <1>0, <2>5, ServiceKept DEF RestInv
  <2>9. OwnOK(w)' /\ WalkOK(w)'
    BY <2>2 DEF OwnOK, WalkOK, Idle, InGenerate
  <2> QED BY <1>0, <1>1, <1>3, <1>4, <1>9, <2>7, <2>8, <2>9, StepKept
<1> QED BY <1>7, <1>8, <1>9

\* A write that succeeds settles the configuration, one that fails queues it.
LEMMA WriteRest ==
    ASSUME StoredInv, RestInv, NEW w \in Workers, Write(w) \/ WriteFails(w)
    PROVE  RestInv'
<1> DEFINE key == work[w].key
<1>0. UNCHANGED <<cache, timer, due>>
  BY DEF Write, WriteFails
<1>1. WriteJob(w, work[w], stored) /\ DOMAIN work = Workers
      /\ config \in [Configs -> Bundles]
  BY Kinds DEF StoredInv, Write, WriteFails, ConfigsOK
<1>2. key \in Configs \cap Keys[w]
  BY <1>1 DEF WriteJob
<1>3. work'[w] = Idle /\ \A v \in Workers \ {w} : work'[v] = work[v]
  BY <1>1 DEF Write, WriteFails, Done, Go
<1>4. /\ queue \subseteq queue' /\ news \subseteq news' /\ key \in queue' \cup news'
      /\ \A c \in Configs : config'[c] = config[c] \/ c \in news'
  <2>1. \/ config' = [config EXCEPT ![key] = work[w].copy] /\ news' = news \cup {key}
        \/ UNCHANGED <<config, news>>
    BY DEF Write, WriteFails, Updated
  <2>2. \A c \in Configs : config'[c] = config[c] \/ c \in news'
    BY <1>1, <2>1
  <2>3. queue \subseteq queue' /\ news \subseteq news' /\ key \in queue' \cup news'
    BY DEF Write, WriteFails
  <2> QED BY <2>2, <2>3
<1>5. \A s \in Services : Busy(s) => Busy(s)'
  BY <1>2, <1>3, DisjointKeys DEF Busy
<1>6. \A s \in Services : (Active(s) => Active(s)') /\ (Pending(s) => Pending(s)')
  BY <1>0, <1>4, <1>5 DEF Active, Pending
<1>7. \A s \in Services : KeepsService(s)
  BY <1>0, <1>6 DEF KeepsService
<1>8. \A s \in Services : ServiceOK(s)'
  BY <1>0, <1>6, ServiceKept DEF RestInv
<1>9. OwnOK(w)' /\ WalkOK(w)'
  BY <1>3 DEF OwnOK, WalkOK, Idle, InGenerate
<1>10. PICK k \in Configs \cap Keys[w] : k = key
  BY <1>2
<1>11. ConfigOK(k)'
  BY <1>4, <1>10 DEF ConfigOK
<1> QED BY <1>0, <1>3, <1>4, <1>7, <1>8, <1>9, <1>10, <1>11, StepKept

\* Whatever generateSecret comes to, the services keep what they need, and all
\* but the service that has been handled need nothing else.
LEMMA GeneratesKeep ==
    ASSUME StoredInv, CachedInv, RestInv, NEW w \in Workers, Generates(w),
           NEW key \in AllKeys, key = work[w].key
    PROVE  /\ \A s \in Services : KeepsService(s)
           /\ \A s \in Services : ServiceOK(s)' \/ (s = key /\ \E sec \in Sec : Has(w, sec))
           /\ queue \subseteq queue' /\ news \subseteq news'
           /\ \A v \in Workers \ {w} : work'[v] = work[v]
<1>1. /\ work[w] \in InGenerate /\ UNCHANGED <<service, config, uids, cache, due>>
      /\ Storing(w) /\ (Stays(w) \/ Fails(w) \/ \E sec \in Sec : Has(w, sec))
  BY Outcomes
<1>2. work[w].svc \in Services /\ work[w] # Idle
  BY <1>1 DEF InGenerate, Idle
<1>3. news \subseteq news'
  BY <1>1, <1>2, StoringKeeps
<1>4. PICK k : Go(w, k)
  BY GeneratesJob
<1>5. DOMAIN work = Workers /\ timer \in [Services -> Nat] /\ due \in Nat
      /\ \A s \in Services : cache.secret[s].serial \in Nat
  BY DEF StoredInv, SecretsOK, Sec, NoSecret
<1>6. work'[w] = k /\ \A v \in Workers \ {w} : work'[v] = work[v]
  BY <1>4, <1>5 DEF Go
<1>7. queue \subseteq queue'
  BY <1>1 DEF Stays, Fails, Failed, Has, Generated, OnService
<1>8. \A s \in Services : s # key /\ Busy(s) => Busy(s)'
  BY <1>6 DEF Busy
<1>9. ASSUME key \in Services
      PROVE  key \in queue' \/ Busy(key)' \/ (byService(key) \subseteq queue' /\ \E sec \in Sec : Has(w, sec))
  <2>0. ServiceJob(w, work[w])
    <3>1. JobOK(w, work[w], stored)
      BY DEF StoredInv
    <3> QED BY <1>1, <1>9, <3>1, Kinds, DisjointKeys DEF ConfigJob
  <2>1. CASE Stays(w)
    <3>1. PICK g : OnTo(work[w], g) /\ Go(w, g)
      BY <2>1 DEF Stays
    <3>2. work'[w] = g
      BY <1>5, <3>1 DEF Go
    <3>3. g.key = key /\ g # Idle
      BY <3>1 DEF OnTo, InGenerate, Idle
    <3> QED BY <3>2, <3>3 DEF Busy
  <2>2. CASE Fails(w)
    <3>1. key \notin CRDs
      BY <1>9, DisjointKeys DEF Configs
    <3> QED BY <2>2, <3>1 DEF Fails, Failed
  <2>3. ASSUME NEW sec \in Sec, Has(w, sec) PROVE byService(key) \subseteq queue'
    BY <1>9, <2>0, <2>3 DEF Has, Generated, OnService, ServiceJob
  <2> QED BY <1>1, <2>1, <2>2, <2>3
<1>10. \A s \in Services :
          /\ timer[s] \in 1 .. due => timer'[s] \in 1 .. due
          /\ timer[s] \in 1 .. cache.secret[s].serial => timer'[s] \in 1 .. cache.secret[s].serial
  <2>1. CASE timer' = timer
    BY <2>1
  <2>2. ASSUME NEW sec \in Sec, Has(w, sec)
        PROVE  \A s \in Services :
                  /\ timer[s] \in 1 .. due => timer'[s] \in 1 .. due
                  /\ timer[s] \in 1 .. cache.secret[s].serial => timer'[s] \in 1 .. cache.secret[s].serial
    <3>1. timer' = [timer EXCEPT ![work[w].svc] = IF @ = 0 \/ sec.serial < @ THEN sec.serial ELSE @]
      BY <2>2 DEF Has, Generated, scheduleNextCertCheck
    <3>2. sec.serial \in Nat \ {0}
      BY DEF Sec
    <3>3. \A s \in Services :
             timer'[s] = timer[s] \/ timer[s] = 0 \/ (timer'[s] < timer[s] /\ timer'[s] = sec.serial)
      BY <1>5, <3>1
    <3> QED BY <1>5, <3>2, <3>3
  <2> QED BY <1>1, <2>1, <2>2 DEF Stays, Fails
<1>11. ASSUME NEW s \in Services
       PROVE  /\ Active(s) => Active(s)' \/ (byService(s) \subseteq queue' /\ s = key
                                             /\ \E sec \in Sec : Has(w, sec))
              /\ Pending(s) => Pending(s)' \/ byService(s) \subseteq queue'
  BY <1>1, <1>3, <1>7, <1>8, <1>9, <1>10 DEF Active, Pending
<1>12. \A s \in Services : KeepsService(s)
  BY <1>1, <1>11 DEF KeepsService
<1>13. ASSUME NEW s \in Services, ~(s = key /\ \E sec \in Sec : Has(w, sec))
       PROVE  ServiceOK(s)'
  BY <1>1, <1>10, <1>11, <1>13, ServiceKept DEF RestInv
<1> QED BY <1>3, <1>6, <1>7, <1>12, <1>13

\* A worker that stays in generateSecret keeps its own part.
LEMMA StaysRest ==
    ASSUME StoredInv, CachedInv, RestInv, NEW w \in Workers, Generates(w), Stays(w),
           NEW key \in AllKeys, key = work[w].key
    PROVE  OwnOK(w)' /\ WalkOK(w)' /\ (key \in Configs => ConfigOK(key)')
<1> DEFINE j == work[w]
<1>1. work[w] \in InGenerate /\ UNCHANGED <<service, config, uids, cache, due>>
  BY Outcomes
<1>2. /\ \A s \in Services : KeepsService(s)
      /\ queue \subseteq queue' /\ news \subseteq news'
  BY GeneratesKeep
<1>3. PICK g : OnTo(j, g) /\ Go(w, g)
  BY DEF Stays
<1>4. work'[w] = g
  BY <1>3 DEF Go, StoredInv
<1>5. /\ g \in InGenerate /\ g.key = key /\ g.svc = j.svc /\ g.seen = j.seen /\ g.i = j.i
      /\ g.base = j.base /\ g.copy = j.copy /\ g # Idle
  BY <1>3 DEF OnTo, InGenerate, Idle
<1>6. OwnOK(w)'
  BY <1>1, <1>2, <1>4, <1>5 DEF OwnOK, RestInv
<1>7. ConfigOK(key)'
  BY <1>4, <1>5 DEF ConfigOK, Busy
<1>8. ASSUME key \in Configs PROVE WalkOK(w)'
  <2>1. JobOK(w, j, stored)
    BY DEF StoredInv
  <2>2. ConfigJob(w, j, stored)
    BY <1>1, <1>8, <2>1, Kinds, DisjointKeys DEF ServiceJob
  <2>3. PICK i \in DOMAIN Calls[key] : i = j.i /\ j.svc = Calls[key][i]
    BY <2>2 DEF ConfigJob
  <2>4. i \in Nat /\ Calls[key][i] \in Services /\ DOMAIN Calls[key] = 1 .. Len(Calls[key])
        /\ Len(Calls[key]) \in Nat
    BY <1>8, CallsAssumption
  <2>5. /\ j.base.bundle = config[key] \/ key \in news \/ key \in queue
        /\ \A n \in 1 .. i - 1 : Fine(key, n, j.copy[n])
        /\ j.seen = cache.service[j.svc] \/ Unsettled(j.svc, key)
        /\ j.pc # "lock" => Unsettled(j.svc, key)
    BY <1>1, <1>8, <2>3 DEF RestInv, WalkOK
  <2>6. Unsettled(Calls[key][i], key)
    <3>1. CASE j.pc # "lock"
      BY <2>3, <2>5, <3>1
    <3>2. CASE j.pc = "lock"
      <4>1. Lock(w)
        BY <3>2 DEF Generates, Create, Get, Update, CallFails
      <4>2. cache.secret[j.svc] = NoSecret \/ updateSecret(cache.secret[j.svc], j.seen)
        <5>1. SUFFICES ASSUME cache.secret[j.svc] # NoSecret,
                              ~updateSecret(cache.secret[j.svc], j.seen)
                       PROVE  FALSE
          OBVIOUS
        <5>2. Generated(w, cache.secret[j.svc])
          BY <4>1, <5>1 DEF Lock, Check
        <5>3. Go(w, Entry(key, j.i + 1, j.base,
                          [j.copy EXCEPT ![j.i] = caBundleFor(j.seen, cache.secret[j.svc])]))
          BY <1>8, <5>2, DisjointKeys DEF Generated
        <5>4. g = Entry(key, j.i + 1, j.base,
                        [j.copy EXCEPT ![j.i] = caBundleFor(j.seen, cache.secret[j.svc])])
          BY <1>4, <5>3 DEF Go, StoredInv
        <5>5. PICK x \in Nat \ {0} : \E b, c : g = Entry(key, x, b, c)
          <6>1. j.i + 1 \in Nat \ {0}
            BY <2>3, <2>4
          <6> QED BY <5>4, <6>1
        <5>6. cache.service \in [Services -> Svc \cup {Absent}]
          BY DEF StoredInv
        <5>7. g.pc \in {"idle", "lock", "write"}
          BY <1>8, <5>5, <5>6, EntryStops
        <5> QED BY <1>3, <5>7 DEF OnTo, InGenerate
      <4>3. CASE j.seen = cache.service[j.svc]
        <5>1. ServiceOK(Calls[key][i])
          BY <2>4 DEF RestInv
        <5>2. cache.secret[j.svc].serial \in Nat /\ due \in Nat
          BY <2>3, <2>4 DEF StoredInv, SecretsOK, Sec, NoSecret
        <5>3. PICK s : s = j.svc
          OBVIOUS
        <5>4. s = Calls[key][i]
          BY <2>3, <5>3
        <5>5. \/ cache.secret[s] = NoSecret
              \/ cache.secret[s].serial <= due
              \/ cache.secret[s].dns # cache.service[s].dns
          BY <4>2, <4>3, <5>3 DEF updateSecret
        <5>6. ~(Annotated(s) /\ ~Active(s))
          BY <5>1, <5>2, <5>3, <5>4, <5>5 DEF ServiceOK
        <5> QED BY <5>4, <5>6 DEF Unsettled
      <4> QED BY <2>3, <2>5, <4>3
    <3> QED BY <3>1, <3>2
  <2>7. Unsettled(Calls[key][i], key)'
    BY <1>2, <1>8, <2>4, <2>6, UnsettledKept
  <2>8. ASSUME NEW n \in 1 .. i - 1 PROVE Fine(key, n, g.copy[n])'
    <3>1. PICK b : b = g.copy[n]
      OBVIOUS
    <3>2. Fine(key, n, b) /\ n \in DOMAIN Calls[key]
      BY <1>5, <2>4, <2>5, <3>1
    <3>3. KeepsService(Calls[key][n])
      BY <1>2, <1>8, <3>2, Called
    <3>4. Fine(key, n, b)'
      BY <1>2, <1>8, <3>2, <3>3, FineKept
    <3> QED BY <3>1, <3>4
  <2> QED BY <1>1, <1>2, <1>4, <1>5, <2>3, <2>5, <2>7, <2>8 DEF WalkOK
<1>9. ASSUME key \notin Configs PROVE WalkOK(w)'
  BY <1>4, <1>5, <1>9 DEF WalkOK
<1> QED BY <1>6, <1>7, <1>8, <1>9

\* A failure is tried again; the handler of a CRD, whose failure nobody sees,
\* only fails for a service that will be handled.
LEMMA FailsRest ==
    ASSUME StoredInv, CachedInv, RestInv, NEW w \in Workers, Generates(w), Fails(w),
           NEW key \in AllKeys, key = work[w].key
    PROVE  OwnOK(w)' /\ WalkOK(w)' /\ (key \in Configs => ConfigOK(key)')
<1> DEFINE j == work[w]
<1>1. work[w] \in InGenerate /\ UNCHANGED <<service, config, uids, cache, due>>
  BY Outcomes
<1>2. \A s \in Services : KeepsService(s) /\ queue \subseteq queue'
  BY GeneratesKeep
<1>3. work'[w] = Idle
  BY DEF Fails, Failed, Done, Go, StoredInv
<1>4. OwnOK(w)' /\ WalkOK(w)'
  BY <1>3 DEF OwnOK, WalkOK, Idle, InGenerate
<1>5. CASE key \notin CRDs
  BY <1>4, <1>5 DEF ConfigOK, Fails, Failed
<1>6. CASE key \in CRDs
  <2>1. key \in Configs /\ Len(Calls[key]) = 1 /\ DOMAIN Calls[key] = 1 .. 1
    BY <1>6, CallsAssumption DEF Configs
  <2>2. JobOK(w, j, stored)
    BY DEF StoredInv
  <2>3. ConfigJob(w, j, stored)
    BY <1>1, <2>1, <2>2, Kinds, DisjointKeys DEF ServiceJob
  <2>4. j.i = 1 /\ j.svc = Calls[key][1] /\ 1 \in DOMAIN Calls[key] /\ Calls[key][1] \in Services
    BY <2>1, <2>3, Called DEF ConfigJob
  <2>5. Unsettled(Calls[key][1], key)
    BY <1>1, <2>1, <2>4 DEF Fails, RestInv, WalkOK
  <2>6. Unsettled(Calls[key][1], key)'
    BY <1>2, <2>1, <2>4, <2>5, UnsettledKept
  <2>7. \A n \in DOMAIN Calls[key] : Fine(key, n, config[key][n])'
    BY <2>1, <2>6 DEF Fine
  <2> QED BY <1>4, <2>7 DEF ConfigOK
<1> QED BY <1>5, <1>6

\* With a certificate, a service has what it needs, and a walk goes on.
LEMMA HasRest ==
    ASSUME StoredInv, CachedInv, RestInv, NEW w \in Workers, Generates(w),
           NEW sec \in Sec, Has(w, sec), NEW key \in AllKeys, key = work[w].key
    PROVE  /\ OwnOK(w)' /\ WalkOK(w)' /\ (key \in Configs => ConfigOK(key)')
           /\ key \in Services => ServiceOK(key)'
<1> DEFINE j == work[w]
<1>1. work[w] \in InGenerate /\ UNCHANGED <<service, config, uids, cache, due>>
  BY Outcomes
<1>2. /\ \A s \in Services : KeepsService(s)
      /\ queue \subseteq queue' /\ news \subseteq news'
  BY GeneratesKeep
<1>3. JobOK(w, j, stored) /\ timer \in [Services -> Nat] /\ due \in Nat
  BY DEF StoredInv
<1>4. CASE key \in Services
  <2>1. j.svc = key
    BY <1>1, <1>3, <1>4, Kinds, DisjointKeys DEF ServiceJob, ConfigJob
  <2>2. work'[w] = Idle /\ timer' = scheduleNextCertCheck(key, sec)
    BY <1>4, <2>1 DEF Has, Generated, Done, Go, StoredInv
  <2>3. OwnOK(w)' /\ WalkOK(w)'
    BY <2>2 DEF OwnOK, WalkOK, Idle, InGenerate
  <2>4. ServiceOK(key)'
    <3> SUFFICES ASSUME Annotated(key)', ~Active(key)'
                 PROVE  /\ cache.secret[key] # NoSecret
                        /\ cache.secret[key].dns = cache.service[key].dns
                        /\ cache.secret[key].serial > due
                        /\ timer'[key] \in 1 .. cache.secret[key].serial
      BY <1>1 DEF ServiceOK
    <3>1. sec = cache.secret[key]
      BY <2>1 DEF Has, Active
    <3>2. j.seen = cache.service[key]
      BY <1>1, <1>2, <1>4 DEF RestInv, OwnOK, Active
    <3>3. sec # NoSecret /\ sec.serial \in Nat \ {0} /\ sec.serial > due
          /\ sec.dns = cache.service[key].dns
      BY <3>2 DEF Has, Sec, NoSecret
    <3>4. timer'[key] = IF timer[key] = 0 \/ sec.serial < timer[key] THEN sec.serial ELSE timer[key]
      BY <1>3, <1>4, <2>2 DEF scheduleNextCertCheck
    <3>5. timer[key] \in Nat
      BY <1>3, <1>4
    <3>6. timer'[key] \in 1 .. sec.serial
      BY <3>3, <3>4, <3>5
    <3> QED BY <3>1, <3>3, <3>6
  <2> QED BY <1>4, <2>3, <2>4, DisjointKeys
<1>5. CASE key \in Configs
  <2>1. ConfigJob(w, j, stored)
    BY <1>1, <1>3, <1>5, Kinds, DisjointKeys DEF ServiceJob
  <2>2. PICK i \in DOMAIN Calls[key] : i = j.i /\ j.svc = Calls[key][i]
    BY <2>1 DEF ConfigJob
  <2>3. i \in Nat \ {0} /\ Calls[key][i] \in Services /\ i <= Len(Calls[key])
        /\ DOMAIN Calls[key] = 1 .. Len(Calls[key]) /\ Len(Calls[key]) \in Nat
    BY <1>5, CallsAssumption
  <2> DEFINE x == caBundleFor(j.seen, sec)
             copy == [j.copy EXCEPT ![i] = x]
  <2>4. PICK base \in Base : base = j.base /\ base.bundle \in BundlesOf(key)
    BY <2>1 DEF ConfigJob
  <2>5. x \in Bundle
    BY <1>1 DEF caBundleFor, Bundle, Sec, InGenerate, Svc
  <2>6. j.copy \in BundlesOf(key)
    BY <2>1 DEF ConfigJob
  <2>7. copy \in BundlesOf(key) /\ \A n \in DOMAIN Calls[key] : copy[n] = IF n = i THEN x ELSE j.copy[n]
    <3> HIDE DEF x
    <3> QED BY <2>5, <2>6 DEF BundlesOf
  <2>8. work'[w] = Entry(key, i + 1, base, copy)
    <3>1. Go(w, Entry(key, i + 1, base, copy))
      BY <1>5, <2>2, <2>4, DisjointKeys DEF Has, Generated
    <3> QED BY <3>1 DEF Go, StoredInv
  <2>9. PICK b \in BundlesOf(key) : b = copy
    BY <2>7
  <2>10. /\ j.base.bundle = config[key] \/ key \in news \/ key \in queue
         /\ \A n \in 1 .. i - 1 : Fine(key, n, j.copy[n])
         /\ j.seen = cache.service[j.svc] \/ Unsettled(j.svc, key)
         /\ j.pc # "lock" => Unsettled(j.svc, key)
    BY <1>1, <1>5, <2>2 DEF RestInv, WalkOK
  <2>11. Fine(key, i, b[i])
    <3>1. b[i] = caBundleFor(j.seen, sec)
      BY <2>7, <2>9
    <3>2. CASE Unsettled(j.svc, key)
      BY <2>2, <3>2 DEF Fine
    <3>3. CASE j.seen = cache.service[j.svc] /\ j.pc = "lock"
      BY <2>2, <3>1, <3>3 DEF Fine, Has
    <3> QED BY <2>10, <3>2, <3>3
  <2>12. ASSUME NEW n \in 1 .. i PROVE Fine(key, n, b[n])'
    <3>1. n \in DOMAIN Calls[key] /\ KeepsService(Calls[key][n])
      BY <1>2, <1>5, <2>3, Called
    <3>2. CASE n = i
      BY <1>2, <1>5, <2>11, <3>1, <3>2, FineKept
    <3>3. CASE n # i
      <4>1. n \in 1 .. i - 1 /\ b[n] = j.copy[n]
        BY <2>3, <2>7, <2>9, <3>1, <3>3
      <4>2. Fine(key, n, b[n])
        BY <2>10, <4>1
      <4> QED BY <1>2, <1>5, <3>1, <4>2, FineKept
    <3> QED BY <3>2, <3>3
  <2>13. JobOK(w, j, stored) /\ j # Idle
    BY <1>1, <1>3 DEF InGenerate, Idle
  <2>14. key \in Configs \cap Keys[w]
    BY <1>5, <2>13, Kinds
  <2>15. i + 1 \in Nat \ {0} /\ (i + 1) - 1 = i
    BY <2>3
  <2>16. base.bundle = config[key] \/ key \in news' \/ key \in queue'
    BY <1>2, <2>4, <2>10
  <2>17. work'[w] = Entry(key, i + 1, base, b)
    BY <2>8, <2>9
  <2> HIDE DEF copy
  <2>18. OwnOK(w)' /\ WalkOK(w)' /\ ConfigOK(key)'
    BY <1>1, <2>3, <2>12, <2>14, <2>15, <2>16, <2>17, EntryWalk
  <2> QED BY <1>5, <2>18, DisjointKeys
<1> QED BY <1>4, <1>5 DEF AllKeys

\* generateSecret leaves nothing behind that nobody will handle.
LEMMA GeneratesRest ==
    ASSUME StoredInv, CachedInv, RestInv, NEW w \in Workers, Generates(w)
    PROVE  RestInv'
<1>1. /\ work[w] \in InGenerate /\ UNCHANGED <<service, config, uids, cache, due>>
      /\ Stays(w) \/ Fails(w) \/ \E sec \in Sec : Has(w, sec)
  BY Outcomes
<1>2. PICK key \in AllKeys : key = work[w].key
  BY <1>1 DEF InGenerate
<1>3. /\ \A s \in Services : KeepsService(s)
      /\ \A s \in Services : ServiceOK(s)' \/ (s = key /\ \E sec \in Sec : Has(w, sec))
      /\ queue \subseteq queue' /\ news \subseteq news'
      /\ \A v \in Workers \ {w} : work'[v] = work[v]
  BY <1>2, GeneratesKeep
<1>4. OwnOK(w)' /\ WalkOK(w)' /\ (key \in Configs => ConfigOK(key)')
  BY <1>1, <1>2, StaysRest, FailsRest, HasRest
<1>5. \A s \in Services : ServiceOK(s)'
  BY <1>2, <1>3, HasRest
<1>6. key \in Keys[w]
  <2>1. JobOK(w, work[w], stored) /\ work[w] # Idle
    BY <1>1 DEF StoredInv, InGenerate, Idle
  <2> QED BY <1>2, <2>1, Kinds
<1> QED BY <1>1, <1>2, <1>3, <1>4, <1>5, <1>6, StepKept

\* It holds at first.
LEMMA InitRest == Init => RestInv
<1> SUFFICES ASSUME Init PROVE RestInv
  OBVIOUS
<1>0. StoredInv /\ CachedInv
  BY InitStored
<1>1. cache.service = service /\ cache.secret = secret /\ timer = Existing /\ due = 0
      /\ work = [w \in Workers |-> Idle]
  BY SeenAll DEF Init
<1>2. ASSUME NEW s \in Services, Existing[s] = 0 PROVE service[s] = Absent
  BY <1>2 DEF Init
<1>3. ASSUME NEW s \in Services PROVE ServiceOK(s)
  <2>1. CASE Existing[s] = 0
    BY <1>1, <1>2, <2>1 DEF ServiceOK, Annotated
  <2>2. CASE Existing[s] # 0
    <3>1. secret[s] = [serial |-> Existing[s], dns |-> service[s].dns, owner |-> Existing[s]]
      BY <2>2 DEF Init
    <3>2. Existing[s] \in Nat \ {0}
      BY <2>2, ExistingAssumption
    <3>3. secret[s].serial = Existing[s] /\ secret[s].dns = service[s].dns /\ secret[s] # NoSecret
      BY <3>1, <3>2 DEF NoSecret
    <3> QED BY <1>1, <3>2, <3>3 DEF ServiceOK
  <2> QED BY <2>1, <2>2
<1>4. ASSUME NEW w \in Workers PROVE OwnOK(w) /\ WalkOK(w)
  BY <1>1 DEF OwnOK, WalkOK, Idle, InGenerate
<1>5. ASSUME NEW c \in Configs PROVE ConfigOK(c)
  <2>1. config[c] = [i \in DOMAIN Calls[c] |->
                        IF \A s \in Range(Calls[c]) : Existing[s] # 0
                        THEN caBundleFor(service[Calls[c][i]], secret[Calls[c][i]]) ELSE NoBundle]
    BY DEF Init
  <2>2. CASE \A s \in Range(Calls[c]) : Existing[s] # 0
    <3>1. \A n \in DOMAIN Calls[c] : Fine(c, n, config[c][n])
      BY <1>1, <2>1, <2>2 DEF Fine
    <3> QED BY <3>1 DEF ConfigOK
  <2>3. CASE \E s \in Range(Calls[c]) : Existing[s] = 0
    <3>1. PICK n \in DOMAIN Calls[c] : Existing[Calls[c][n]] = 0
      BY <2>3 DEF Range
    <3>2. cache.service[Calls[c][n]] = Absent
      BY <1>1, <1>2, <3>1, Called
    <3> QED BY <3>2 DEF ConfigOK, Pending
  <2> QED BY <2>2, <2>3
<1> QED BY <1>3, <1>4, <1>5 DEF RestInv

\* Every step preserves it.
LEMMA NextRest == StoredInv /\ CachedInv /\ RestInv /\ [Next]_vars => RestInv'
<1> SUFFICES ASSUME StoredInv, CachedInv, RestInv, [Next]_vars PROVE RestInv'
  OBVIOUS
<1>1. CASE UNCHANGED vars
  BY <1>1, NewsRest DEF vars
<1>2. ASSUME NEW w \in Workers, Step(w) \/ CallFails(w) \/ WriteFails(w)
      PROVE  RestInv'
  BY <1>2, TakeRest, GeneratesRest, WriteRest DEF Step, Generates
<1>3. CASE Collect
  BY <1>3, NewsRest DEF Collect
<1> QED BY <1>1, <1>2, <1>3, InformerRest, TimerRest, ChangeRest, RestartRest DEF Next

\* With nothing left to be done everything is as it should be.
LEMMA AtRestTrusted ==
    ASSUME StoredInv, CachedInv, RestInv, AtRest
    PROVE  /\ \A s \in Services : Wants(s) => Certified(s) /\ timer[s] \in 1 .. secret[s].serial
           /\ Trusted
<1>1. /\ cache.service = service /\ cache.secret = secret /\ news = {} /\ queue = {}
      /\ \A k : ~Busy(k)
  BY SeenAll DEF AtRest, Busy
<1>2. \A s \in Services : ~Active(s)
  BY <1>1 DEF Active, AtRest
<1>3. ASSUME NEW s \in Services, Wants(s)
      PROVE  Certified(s) /\ timer[s] \in 1 .. secret[s].serial
  <2>1. Annotated(s) /\ ServiceOK(s)
    BY <1>1, <1>3 DEF Wants, Annotated, RestInv
  <2> QED BY <1>1, <1>2, <2>1 DEF ServiceOK, Certified
<1>4. ASSUME NEW c \in Configs, Present(c), NEW i \in DOMAIN Calls[c], Wants(Calls[c][i])
      PROVE  config[c][i] = caBundleFor(service[Calls[c][i]], secret[Calls[c][i]])
  <2>1. \A n \in DOMAIN Calls[c] : Calls[c][n] \in Services /\ ~Pending(Calls[c][n])
    BY <1>1, <1>4, Called DEF Present, Pending, Range
  <2>2. Fine(c, i, config[c][i])
    BY <1>1, <2>1 DEF RestInv, ConfigOK
  <2>3. ~Unsettled(Calls[c][i], c)
    BY <1>1, <1>2, <1>4, <2>1 DEF Unsettled, Annotated, Wants
  <2> QED BY <1>1, <2>2, <2>3 DEF Fine
<1> QED BY <1>3, <1>4 DEF Trusted

\* When the controllers rest, every annotated service has a certificate that is
\* good and scheduled for renewal, and every configuration trusts it.
THEOREM RestIsTrusted == Spec => []RestingIsTrusted
<1>1. StoredInv /\ CachedInv /\ RestInv => RestingIsTrusted
  BY AtRestTrusted DEF RestingIsTrusted
<1> QED BY <1>1, InitStored, InitRest, NextStored, NextRest, PTL DEF Spec
=============================================================================
