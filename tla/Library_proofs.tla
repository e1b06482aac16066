--------------------------- MODULE Library_proofs ---------------------------
(* Proofs about the packages that programs use as libraries, for any values  *)
(* of the constants: the router of webhooks (AdmittedByFirst), the values of *)
(* type Apply (OptionsStay, PurgeSpares, AppliedStays) and summaries         *)
(* (FlagsAgree).  The modules of these parts are extended instead of         *)
(* Library, which has recursive operators for the schemas and so is out of   *)
(* the provers' reach.                                                       *)
EXTENDS Webhook, Programs, Summary, SequenceTheorems, WellFoundedInduction, TLAPS

-----------------------------------------------------------------------------
(* Numbers *)

\* Induction over the numbers, for a set.
LEMMA SetInduction ==
    ASSUME NEW S, 0 \in S, \A n \in Nat : n \in S => n + 1 \in S
    PROVE  \A n \in Nat : n \in S
<1> DEFINE T == Nat \ S
<1>1. SUFFICES ASSUME T # {} PROVE FALSE
  OBVIOUS
<1>2. PICK x \in T : \A y \in T : ~(<<y, x>> \in OpToRel(<, Nat))
  BY <1>1, WFMin, NatLessThanWellFounded
<1>3. x # 0 /\ x - 1 \in Nat /\ x - 1 < x /\ x - 1 \in T
  OBVIOUS
<1>4. <<x - 1, x>> \in OpToRel(<, Nat)
  BY <1>3 DEF OpToRel
<1> QED BY <1>2, <1>3, <1>4

\* A set of numbers that is not empty has a least one: a loop over the routes
\* ends with a first match.
LEMMA HasFirst ==
    ASSUME NEW T \in SUBSET Nat, T # {}
    PROVE  \E x \in T : \A y \in T : x <= y
<1>1. PICK x \in T : \A y \in T : ~(<<y, x>> \in OpToRel(<, Nat))
  BY WFMin, NatLessThanWellFounded
<1>2. ASSUME NEW y \in T PROVE x <= y
  <2>1. x \in Nat /\ y \in Nat
    BY <1>1
  <2>2. y < x => <<y, x>> \in OpToRel(<, Nat)
    BY <2>1 DEF OpToRel
  <2>3. ~(y < x)
    BY <1>1, <2>2
  <2> QED BY <2>1, <2>3
<1> QED BY <1>2

\* No error message and no status is empty.
LEMMA NothingSaid ==
    /\ Nothing # "decode" /\ Nothing # "handler" /\ Nothing # "patch"
    /\ Nothing # "no route" /\ Nothing # "request" /\ Nothing # "ok"
BY Zenon DEF Nothing

-----------------------------------------------------------------------------
(* The steps of a handler *)

\* The CreatePatch steps among the first n of steps.
PatchesTo(steps, n) == {k \in 1 .. n : steps[k][1] = "CreatePatch"}

\* What the first n steps may leave in answer x: somebody allowed it, the patch
\* is the first one, and without an error there was one at most.
Fair(x, steps, n) ==
    /\ x.allowed => \E k \in 1 .. n : steps[k][1] = "Allow"
    /\ x.patch # Nothing => \E k \in PatchesTo(steps, n) :
                        x.patch = steps[k][2] /\ \A j \in PatchesTo(steps, n) : k <= j
    /\ x.err = Nothing => /\ \A j, k \in PatchesTo(steps, n) : j = k
                          /\ x.patch = Nothing => PatchesTo(steps, n) = {}

\* x has the fields of an answer, u is its uid.
Answers(x, u) ==
    /\ x = [status |-> x.status, uid |-> x.uid, allowed |-> x.allowed, patch |-> x.patch, err |-> x.err]
    /\ x.status = "ok" /\ x.uid = u

\* y differs from x in one field at most.
Allowed(x, y) == y.allowed /\ y.patch = x.patch /\ y.err = x.err
PatchedTo(x, y, q) == y.patch = q /\ y.allowed = x.allowed /\ y.err = x.err
Fails(x, y) == y.patch = x.patch /\ y.allowed = x.allowed /\ y.err # Nothing

\* The patches up to the next step.
LEMMA NextPatches ==
    ASSUME NEW steps, NEW n \in Nat
    PROVE  /\ PatchesTo(steps, n) \subseteq 1 .. n
           /\ PatchesTo(steps, n + 1) =
                IF steps[n + 1][1] = "CreatePatch" THEN PatchesTo(steps, n) \cup {n + 1}
                ELSE PatchesTo(steps, n)
<1>1. 1 .. n + 1 = (1 .. n) \cup {n + 1}
  OBVIOUS
<1> QED BY <1>1 DEF PatchesTo

\* A step that makes no patch, or ends in an error, keeps an answer fair.
LEMMA OtherStepFair ==
    ASSUME NEW steps, NEW n \in Nat, NEW x, NEW y, Fair(x, steps, n),
           y.patch = x.patch,
           y.allowed => x.allowed \/ steps[n + 1][1] = "Allow",
           y.err = Nothing => x.err = Nothing /\ steps[n + 1][1] # "CreatePatch"
    PROVE  Fair(y, steps, n + 1)
<1>1. y.allowed => \E k \in 1 .. n + 1 : steps[k][1] = "Allow"
  BY DEF Fair
<1>2. ASSUME y.patch # Nothing
      PROVE  \E k \in PatchesTo(steps, n + 1) :
                y.patch = steps[k][2] /\ \A j \in PatchesTo(steps, n + 1) : k <= j
  <2>1. PICK k \in PatchesTo(steps, n) : y.patch = steps[k][2] /\ \A j \in PatchesTo(steps, n) : k <= j
    BY <1>2 DEF Fair
  <2>2. k \in PatchesTo(steps, n + 1) /\ k \in 1 .. n
    BY NextPatches
  <2>3. \A j \in PatchesTo(steps, n + 1) : j \in PatchesTo(steps, n) \/ j = n + 1
    BY NextPatches
  <2>4. k <= n + 1
    BY <2>2
  <2> QED BY <2>1, <2>2, <2>3, <2>4
<1>3. y.err = Nothing => /\ \A j, k \in PatchesTo(steps, n + 1) : j = k
                         /\ y.patch = Nothing => PatchesTo(steps, n + 1) = {}
  BY NextPatches DEF Fair
<1> QED BY <1>1, <1>2, <1>3 DEF Fair

\* The first patch does as well.
LEMMA FirstPatchFair ==
    ASSUME NEW steps, NEW n \in Nat, NEW x, NEW y, Fair(x, steps, n), x.patch = Nothing, x.err = Nothing,
           steps[n + 1][1] = "CreatePatch", steps[n + 1][2] # Nothing, PatchedTo(x, y, steps[n + 1][2])
    PROVE  Fair(y, steps, n + 1)
<1>1. PatchesTo(steps, n + 1) = {n + 1}
  BY NextPatches DEF Fair
<1>2. y.allowed => \E k \in 1 .. n + 1 : steps[k][1] = "Allow"
  BY DEF Fair, PatchedTo
<1>3. n + 1 <= n + 1
  OBVIOUS
<1> QED BY <1>1, <1>2, <1>3 DEF Fair, PatchedTo

\* What a step does to an answer.
LEMMA SteppedFields ==
    ASSUME NEW x, NEW u, NEW req, NEW s, Answers(x, u)
    PROVE  LET y == Stepped(x, req, s)
           IN  /\ Answers(y, u)
               /\ \/ y = x /\ (x.err = Nothing => s[1] # "CreatePatch")
                  \/ s[1] = "Allow" /\ Allowed(x, y)
                  \/ Fails(x, y)
                  \/ x.err = Nothing /\ x.patch = Nothing /\ s[1] = "CreatePatch" /\ PatchedTo(x, y, s[2])
<1>1. ASSUME NEW e, e # Nothing PROVE Answers(Failed(x, e), u) /\ Fails(x, Failed(x, e))
  BY <1>1 DEF Answers, Failed, Fails
<1>2. Answers([x EXCEPT !.allowed = TRUE], u) /\ Allowed(x, [x EXCEPT !.allowed = TRUE])
  <2>1. ASSUME NEW b
        PROVE  LET y == [x EXCEPT !.allowed = b]
               IN  Answers(y, u) /\ y.allowed = b /\ y.patch = x.patch /\ y.err = x.err
    BY DEF Answers
  <2> QED BY <2>1 DEF Allowed
<1>3. ASSUME NEW q PROVE Answers([x EXCEPT !.patch = q], u) /\ PatchedTo(x, [x EXCEPT !.patch = q], q)
  BY DEF Answers, PatchedTo
<1>4. CASE x.err # Nothing
  BY <1>4 DEF Stepped
<1>5. CASE x.err = Nothing /\ s[1] = "Allow"
  BY <1>2, <1>5 DEF Stepped
<1>6. CASE x.err = Nothing /\ s[1] # "Allow" /\ s[1] # "CreatePatch"
  <2>1. Stepped(x, req, s) = x \/ \E e \in {"decode", "handler"} : Stepped(x, req, s) = Failed(x, e)
    BY <1>6 DEF Stepped
  <2> QED BY <1>1, <1>6, <2>1, NothingSaid
<1>7. CASE x.err = Nothing /\ s[1] = "CreatePatch"
  <2>1. Stepped(x, req, s) = CreatePatch(x, req, s[2])
    BY <1>7 DEF Stepped
  <2> QED BY <1>1, <1>3, <1>7, <2>1, NothingSaid DEF CreatePatch
<1> QED BY <1>4, <1>5, <1>6, <1>7

\* What one more step makes of a fair answer is fair.
LEMMA SteppedFair ==
    ASSUME NEW steps, NEW n \in Nat, NEW x, NEW u, NEW req,
           Answers(x, u), Fair(x, steps, n),
           steps[n + 1][1] = "CreatePatch" => steps[n + 1][2] # Nothing
    PROVE  /\ Answers(Stepped(x, req, steps[n + 1]), u)
           /\ Fair(Stepped(x, req, steps[n + 1]), steps, n + 1)
<1>1. PICK s : s = steps[n + 1]
  OBVIOUS
<1>2. PICK y : y = Stepped(x, req, s)
  OBVIOUS
<1>3. /\ Answers(y, u)
      /\ \/ y = x /\ (x.err = Nothing => s[1] # "CreatePatch")
         \/ s[1] = "Allow" /\ Allowed(x, y)
         \/ Fails(x, y)
         \/ x.err = Nothing /\ x.patch = Nothing /\ s[1] = "CreatePatch" /\ PatchedTo(x, y, s[2])
  BY <1>2, SteppedFields
<1>4. Fair(y, steps, n + 1)
  <2>1. CASE y = x /\ (x.err = Nothing => s[1] # "CreatePatch")
    BY <1>1, <2>1, OtherStepFair
  <2>2. CASE s[1] = "Allow" /\ Allowed(x, y)
    BY <1>1, <2>2, OtherStepFair DEF Allowed
  <2>3. CASE Fails(x, y)
    BY <2>3, OtherStepFair DEF Fails
  <2>4. CASE x.err = Nothing /\ x.patch = Nothing /\ s[1] = "CreatePatch" /\ PatchedTo(x, y, s[2])
    BY <1>1, <2>4, FirstPatchFair
  <2> QED BY <1>3, <2>1, <2>2, <2>3, <2>4
<1> QED BY <1>1, <1>2, <1>3, <1>4

\* f has the answers that the first n steps leave one after the other.
After(f, resp, req, steps, n) ==
    f = [k \in 0 .. n |-> IF k = 0 THEN resp ELSE Stepped(f[k - 1], req, steps[k])]

\* There is such a function for every number of steps.
LEMMA AfterExists ==
    ASSUME NEW resp, NEW req, NEW steps
    PROVE  \A n \in Nat : \E f : After(f, resp, req, steps, n)
<1> DEFINE T == {n \in Nat : \E f : After(f, resp, req, steps, n)}
<1>1. 0 \in T
  <2> DEFINE f == [k \in 0 .. 0 |-> resp]
  <2>1. f = [k \in 0 .. 0 |-> IF k = 0 THEN resp ELSE Stepped(f[k - 1], req, steps[k])]
    OBVIOUS
  <2> HIDE DEF f
  <2> QED BY <2>1 DEF After
<1>2. ASSUME NEW n \in Nat, n \in T PROVE n + 1 \in T
  <2>1. PICK f : After(f, resp, req, steps, n)
    BY <1>2
  <2> DEFINE x == Stepped(f[n], req, steps[n + 1])
             g == [k \in 0 .. n + 1 |-> IF k = n + 1 THEN x ELSE f[k]]
             h == [k \in 0 .. n + 1 |-> IF k = 0 THEN resp ELSE Stepped(g[k - 1], req, steps[k])]
  <2>2. g[n + 1] = x /\ \A k \in 0 .. n : g[k] = f[k]
    OBVIOUS
  <2>3. ASSUME NEW k \in 0 .. n + 1 PROVE g[k] = h[k]
    <3>1. CASE k = n + 1
      <4>1. h[k] = Stepped(g[n], req, steps[n + 1])
        BY <3>1
      <4>2. g[n] = f[n]
        BY <2>2
      <4> HIDE DEF g, h
      <4> QED BY <2>2, <3>1, <4>1, <4>2
    <3>2. CASE k \in 0 .. n
      <4>1. f[k] = IF k = 0 THEN resp ELSE Stepped(f[k - 1], req, steps[k])
        BY <2>1, <3>2 DEF After
      <4>2. h[k] = IF k = 0 THEN resp ELSE Stepped(g[k - 1], req, steps[k])
        OBVIOUS
      <4>3. k # 0 => k - 1 \in 0 .. n
        BY <3>2
      <4>4. g[k] = f[k] /\ (k # 0 => g[k - 1] = f[k - 1])
        BY <2>2, <3>2, <4>3
      <4> HIDE DEF g, h
      <4> QED BY <4>1, <4>2, <4>4
    <3> QED BY <3>1, <3>2
  <2>4. g = [k \in 0 .. n + 1 |-> g[k]] /\ h = [k \in 0 .. n + 1 |-> h[k]]
    OBVIOUS
  <2>5. g = h
    <3> HIDE DEF g, h
    <3> QED BY <2>3, <2>4
  <2> HIDE DEF g
  <2>6. After(g, resp, req, steps, n + 1)
    BY <2>5 DEF After
  <2> QED BY <2>6
<1> HIDE DEF T
<1>3. \A n \in Nat : n \in T
  BY <1>1, <1>2, SetInduction
<1> QED BY <1>3 DEF T

\* The answer a handler leaves is fair to all of its steps.
LEMMA AdmitFair ==
    ASSUME NEW resp, NEW req, NEW u, NEW h \in DOMAIN Handlers,
           Answers(resp, u), ~resp.allowed, resp.patch = Nothing, resp.err = Nothing
    PROVE  /\ Answers(Admit(resp, req, h), u)
           /\ Fair(Admit(resp, req, h), Handlers[h], Len(Handlers[h]))
<1> DEFINE steps == Handlers[h]
           n == Len(steps)
           F == CHOOSE f : After(f, resp, req, steps, n)
<1>1. /\ n \in Nat /\ DOMAIN steps = 1 .. n
      /\ \A k \in 1 .. n : steps[k][1] = "CreatePatch" => steps[k][2] # Nothing
  BY WebhookAssumption
<1>2. Admit(resp, req, h) = F[n]
  BY DEF Admit, After
<1>3. After(F, resp, req, steps, n)
  BY <1>1, AfterExists
<1> HIDE DEF F, n, steps
<1> DEFINE T == {k \in Nat : k <= n => Answers(F[k], u) /\ Fair(F[k], steps, k)}
<1>4. 0 \in T
  <2>1. F[0] = resp
    BY <1>1, <1>3 DEF After
  <2>2. PatchesTo(steps, 0) = {}
    BY DEF PatchesTo
  <2>3. Fair(resp, steps, 0)
    BY <2>2 DEF Fair
  <2> QED BY <2>1, <2>3
<1>5. ASSUME NEW k \in Nat, k \in T PROVE k + 1 \in T
  <2> SUFFICES ASSUME k + 1 <= n PROVE Answers(F[k + 1], u) /\ Fair(F[k + 1], steps, k + 1)
    OBVIOUS
  <2>1. k + 1 \in 0 .. n /\ k + 1 \in 1 .. n /\ k + 1 # 0 /\ (k + 1) - 1 = k /\ k <= n
    BY <1>1
  <2>2. F[k + 1] = Stepped(F[k], req, steps[k + 1])
    BY <1>3, <2>1 DEF After
  <2>3. Answers(F[k], u) /\ Fair(F[k], steps, k)
    BY <1>5, <2>1
  <2>4. PICK x : x = F[k]
    OBVIOUS
  <2> QED BY <1>1, <2>1, <2>2, <2>3, <2>4, SteppedFair
<1> HIDE DEF T
<1>6. \A k \in Nat : k \in T
  BY <1>4, <1>5, SetInduction
<1>7. Answers(F[n], u) /\ Fair(F[n], steps, n)
  BY <1>1, <1>6 DEF T
<1> QED BY <1>2, <1>7 DEF n, steps

-----------------------------------------------------------------------------
(* The router *)

\* The criteria of a route are among those that routes are given.
Criterion == {c[1] : c \in Criteria}
Value == {c[2] : c \in Criteria}
RouteType == [criteria : UNION {[D -> Value] : D \in SUBSET Criterion},
              handler : {Nothing} \cup DOMAIN Handlers]
RoutesOK == routes \in Seq(RouteType)

\* The answer there is was given with the routes there are.
AnswerInv ==
    answer.status = "ok" =>
        LET req == asked.request[1]
        IN  answer = admit(routes, [NoAnswer EXCEPT !.status = "ok", !.uid = req.uid], req)

\* The inductive invariant.
WebhookInv == RoutesOK /\ AnswerInv

\* A criterion more, or a handler, makes a route of a route.
LEMMA RouteTypes ==
    /\ NoRoute \in RouteType
    /\ \A r \in RouteType, c \in Criteria : Narrowed(r, c) \in RouteType
    /\ \A r \in RouteType, h \in DOMAIN Handlers : Handle(r, h) \in RouteType
<1>1. NoRoute \in RouteType
  <2>1. [c \in {} |-> Nothing] \in [{} -> Value]
    OBVIOUS
  <2>2. [c \in {} |-> Nothing] \in UNION {[D -> Value] : D \in SUBSET Criterion}
    BY <2>1
  <2> QED BY <2>2 DEF NoRoute, RouteType
<1>2. ASSUME NEW r \in RouteType, NEW c \in Criteria PROVE Narrowed(r, c) \in RouteType
  <2>1. PICK D \in SUBSET Criterion : r.criteria \in [D -> Value]
    BY DEF RouteType
  <2> DEFINE E == D \cup {c[1]}
             more == [k \in E |-> IF k = c[1] THEN c[2] ELSE r.criteria[k]]
  <2>2. E \in SUBSET Criterion /\ c[2] \in Value
    BY DEF Criterion, Value
  <2>3. more \in [E -> Value]
    BY <2>1, <2>2
  <2>4. DOMAIN r.criteria = D
    BY <2>1
  <2>5. Narrowed(r, c) = [r EXCEPT !.criteria = more]
    BY <2>4 DEF Narrowed
  <2>6. more \in UNION {[A -> Value] : A \in SUBSET Criterion}
    BY <2>2, <2>3
  <2> HIDE DEF more, E
  <2> QED BY <2>5, <2>6 DEF RouteType
<1>3. ASSUME NEW r \in RouteType, NEW h \in DOMAIN Handlers PROVE Handle(r, h) \in RouteType
  BY DEF Handle, RouteType
<1> QED BY <1>1, <1>2, <1>3

\* Building keeps the routes routes, and takes the answer back.
LEMMA BuildKeeps ==
    ASSUME RoutesOK, Route \/ RouteMatch
    PROVE  WebhookInv'
<1>1. \/ \E r \in RouteType : Begin(r)
      \/ \E i \in DOMAIN routes, r \in RouteType : GoOn(i, r)
  <2>1. CASE Route
    BY <2>1, RouteTypes DEF Route
  <2>2. CASE RouteMatch
    <3>1. PICK i \in DOMAIN routes : \/ \E c \in Criteria : GoOn(i, Narrowed(routes[i], c))
                                     \/ \E h \in DOMAIN Handlers : GoOn(i, Handle(routes[i], h))
      BY <2>2 DEF RouteMatch
    <3>2. routes[i] \in RouteType
      BY LenProperties, ElementOfSeq DEF RoutesOK
    <3> QED BY <3>1, <3>2, RouteTypes
  <2> QED BY <2>1, <2>2
<1>2. RoutesOK'
  <2>1. ASSUME NEW r \in RouteType, Begin(r) PROVE RoutesOK'
    BY <2>1, AppendProperties DEF Begin, RoutesOK
  <2>2. ASSUME NEW i \in DOMAIN routes, NEW r \in RouteType, GoOn(i, r) PROVE RoutesOK'
    <3>1. i \in 1 .. Len(routes)
      BY LenProperties DEF RoutesOK
    <3> QED BY <2>2, <3>1, ExceptSeq DEF GoOn, RoutesOK
  <2> QED BY <1>1, <2>1, <2>2
<1>3. answer' = NoAnswer
  BY <1>1 DEF Begin, GoOn
<1>4. AnswerInv'
  BY <1>3, NothingSaid DEF AnswerInv, NoAnswer
<1> QED BY <1>2, <1>4 DEF WebhookInv

\* So does serving, which gives the answer of the first route.
LEMMA ServeKeeps ==
    ASSUME RoutesOK, NEW review \in Reviews, ServeHTTP(review)
    PROVE  WebhookInv'
<1>1. routes' = routes /\ asked' = review
  BY DEF ServeHTTP
<1>2. RoutesOK'
  BY <1>1 DEF RoutesOK
<1>3. AnswerInv'
  <2>1. CASE review.request = <<>>
    <3>1. answer' = [NoAnswer EXCEPT !.status = "error", !.err = "request"]
      BY <2>1 DEF ServeHTTP
    <3>2. answer'.status = "error"
      BY <3>1 DEF NoAnswer
    <3> QED BY <3>2 DEF AnswerInv
  <2>2. CASE review.request # <<>> /\ ~review.decodes
    BY <2>2 DEF ServeHTTP, AnswerInv, NoAnswer
  <2>3. CASE review.request # <<>> /\ review.decodes
    BY <1>1, <2>3 DEF ServeHTTP, AnswerInv
  <2> QED BY <2>1, <2>2, <2>3
<1> QED BY <1>2, <1>3 DEF WebhookInv

-----------------------------------------------------------------------------
(* The theorems *)

\* The routes are routes, and an answer was given with the ones there are.
THEOREM WebhookInvariance == WebhookSpec => []WebhookInv
<1>1. WebhookInit => WebhookInv
  <2>1. <<>> \in Seq(RouteType)
    OBVIOUS
  <2>2. NoAnswer.status # "ok"
    BY NothingSaid DEF NoAnswer
  <2> QED BY <2>1, <2>2 DEF WebhookInit, WebhookInv, RoutesOK, AnswerInv
<1>2. WebhookInv /\ [WebhookNext]_webhookVars => WebhookInv'
  <2> SUFFICES ASSUME WebhookInv, [WebhookNext]_webhookVars PROVE WebhookInv'
    OBVIOUS
  <2>1. CASE UNCHANGED webhookVars
    BY <2>1 DEF webhookVars, WebhookInv, RoutesOK, AnswerInv
  <2>2. CASE WebhookNext
    BY <2>2, BuildKeeps, ServeKeeps DEF WebhookNext, WebhookInv
  <2> QED BY <2>1, <2>2
<1> QED BY <1>1, <1>2, PTL DEF WebhookSpec

\* The first route that matches, as admit finds it.
LEMMA FirstFits ==
    ASSUME RoutesOK, NEW req, NEW fit, fit = {i \in DOMAIN routes : Selects(i, req)},
           NEW first, first = CHOOSE i \in fit : \A j \in fit : i <= j
    PROVE  /\ fit = {i \in DOMAIN routes : matches(routes[i], req)}
           /\ fit # {} => first \in DOMAIN routes /\ routes[first] \in RouteType
<1>1. \A i \in DOMAIN routes : Selects(i, req) <=> matches(routes[i], req)
  BY DEF Selects, matches, checkString
<1>2. DOMAIN routes = 1 .. Len(routes) /\ Len(routes) \in Nat
  BY LenProperties DEF RoutesOK
<1>3. ASSUME fit # {} PROVE first \in fit
  BY <1>2, <1>3, HasFirst
<1>4. \A i \in DOMAIN routes : routes[i] \in RouteType
  BY <1>2, ElementOfSeq DEF RoutesOK
<1> QED BY <1>1, <1>3, <1>4

\* What AdmittedByFirst says of the answer, for the routes that fit a request
\* and the first of them.
ByFirst(req, fit, first) ==
    /\ answer.uid = req.uid
    /\ answer.allowed =>
         fit # {} /\ \E k \in DOMAIN Steps(first) : Steps(first)[k][1] = "Allow"
    /\ answer.patch # Nothing =>
         fit # {} /\ \E k \in Patches(first) : /\ \A j \in Patches(first) : k <= j
                                             /\ answer.patch = Steps(first)[k][2]
    /\ fit # {} /\ (\E j, k \in Patches(first) : j # k) => answer.err # Nothing
    /\ fit = {} => answer.err # Nothing

\* No request is admitted but by the handler of the first route it fits, and
\* with no patch but the first.
THEOREM FirstAdmits == WebhookSpec => []AdmittedByFirst
<1>1. ASSUME WebhookInv, answer.status = "ok",
             NEW req, req = asked.request[1],
             NEW fit, fit = {i \in DOMAIN routes : Selects(i, req)},
             NEW first, first = CHOOSE i \in fit : \A j \in fit : i <= j
      PROVE  ByFirst(req, fit, first)
  <2>1. PICK u : u = req.uid
    OBVIOUS
  <2>2. PICK resp : resp = [NoAnswer EXCEPT !.status = "ok", !.uid = u]
    OBVIOUS
  <2>3. Answers(resp, u) /\ ~resp.allowed /\ resp.patch = Nothing /\ resp.err = Nothing
    BY <2>2 DEF Answers, NoAnswer
  <2>4. answer = admit(routes, resp, req)
    BY <1>1, <2>1, <2>2 DEF WebhookInv, AnswerInv
  <2>5. /\ fit = {i \in DOMAIN routes : matches(routes[i], req)}
        /\ fit # {} => first \in DOMAIN routes /\ routes[first] \in RouteType
    <3>1. RoutesOK
      BY <1>1 DEF WebhookInv
    <3>2. fit = {i \in DOMAIN routes : Selects(i, req)}
      BY <1>1
    <3>3. first = CHOOSE i \in fit : \A j \in fit : i <= j
      BY <1>1
    <3> QED BY <3>1, <3>2, <3>3, FirstFits, Zenon
  <2>6. CASE fit = {}
    <3>1. answer = Failed(resp, "no route")
      BY <2>4, <2>5, <2>6 DEF admit
    <3>2. answer.uid = u /\ ~answer.allowed /\ answer.patch = Nothing /\ answer.err = "no route"
      BY <2>3, <3>1 DEF Failed, Answers
    <3> QED BY <2>1, <2>6, <3>2, NothingSaid DEF ByFirst
  <2>7. CASE fit # {} /\ routes[first].handler = Nothing
    <3>1. answer = resp
      BY <1>1, <2>4, <2>5, <2>7 DEF admit
    <3>2. Steps(first) = <<>>
      BY <2>7 DEF Steps
    <3>3. Patches(first) = {}
      BY <3>2 DEF Patches
    <3> QED BY <2>1, <2>3, <2>7, <3>1, <3>3 DEF Answers, ByFirst
  <2>8. CASE fit # {} /\ routes[first].handler # Nothing
    <3>1. PICK h : h = routes[first].handler
      OBVIOUS
    <3>2. h \in DOMAIN Handlers
      BY <2>5, <2>8, <3>1 DEF RouteType
    <3>3. answer = Admit(resp, req, h)
      BY <1>1, <2>4, <2>5, <2>8, <3>1 DEF admit
    <3>4. Steps(first) = Handlers[h]
      BY <2>8, <3>1 DEF Steps
    <3>5. PICK steps : steps = Handlers[h]
      OBVIOUS
    <3>6. DOMAIN steps = 1 .. Len(steps)
      BY <3>2, <3>5, WebhookAssumption
    <3>7. Answers(answer, u) /\ Fair(answer, steps, Len(steps))
      BY <2>3, <3>2, <3>3, <3>5, AdmitFair
    <3>8. Patches(first) = PatchesTo(steps, Len(steps))
      BY <3>4, <3>5, <3>6 DEF Patches, PatchesTo
    <3> QED BY <2>1, <2>8, <3>4, <3>5, <3>6, <3>7, <3>8 DEF Answers, Fair, ByFirst
  <2> QED BY <2>6, <2>7, <2>8
<1>2. WebhookInv => AdmittedByFirst
  <2> SUFFICES ASSUME WebhookInv, answer.status = "ok" PROVE AdmittedByFirst
    BY DEF AdmittedByFirst
  <2> DEFINE req == asked.request[1]
             fit == {i \in DOMAIN routes : Selects(i, req)}
             first == CHOOSE i \in fit : \A j \in fit : i <= j
  <2>1. ByFirst(req, fit, first)
    BY <1>1
  <2> QED BY <2>1 DEF AdmittedByFirst, ByFirst
<1> QED BY WebhookInvariance, <1>2, PTL

(***************************************************************************)
(* The values of type Apply.                                               *)
(***************************************************************************)

-----------------------------------------------------------------------------
(* Sequences *)

\* A sequence over any set is one over its own items.
LEMMA SeqIs ==
    ASSUME NEW S, NEW s \in Seq(S)
    PROVE  IsSeq(s)
<1>1. \A i \in 1 .. Len(s) : s[i] \in SeqX!Range(s)
  BY LenProperties DEF SeqX!Range
<1>2. PICK n \in Nat : s \in [1 .. n -> S]
  BY SeqDef
<1>3. n = Len(s)
  BY <1>2
<1>4. s \in [1 .. n -> SeqX!Range(s)]
  BY <1>1, <1>2, <1>3
<1> QED BY <1>4, SeqDef DEF IsSeq

\* A sequence is a function on 1 .. n.
LEMMA IsSeqProperties ==
    ASSUME NEW s, IsSeq(s)
    PROVE  Len(s) \in Nat /\ DOMAIN s = 1 .. Len(s)
BY LenProperties DEF IsSeq

\* One more item at the end.
LEMMA Appended ==
    ASSUME NEW s, IsSeq(s), NEW x
    PROVE  /\ IsSeq(Append(s, x)) /\ Len(Append(s, x)) = Len(s) + 1
           /\ DOMAIN Append(s, x) = 1 .. Len(s) + 1 /\ Append(s, x)[Len(s) + 1] = x
           /\ \A n \in 1 .. Len(s) : Append(s, x)[n] = s[n]
<1>1. PICK T : T = SeqX!Range(s) \cup {x}
  OBVIOUS
<1>2. s \in Seq(T) /\ x \in T
  BY <1>1, SeqMonotonic DEF IsSeq
<1>3. PICK q : q = Append(s, x)
  OBVIOUS
<1>4. /\ q \in Seq(T) /\ Len(q) = Len(s) + 1 /\ q[Len(s) + 1] = x
      /\ \A n \in 1 .. Len(s) : q[n] = s[n]
  BY <1>2, <1>3, AppendProperties
<1>5. IsSeq(q) /\ DOMAIN q = 1 .. Len(q)
  BY <1>4, SeqIs, LenProperties
<1> QED BY <1>3, <1>4, <1>5

\* Another item in one place.
LEMMA Replaced ==
    ASSUME NEW s, IsSeq(s), NEW i \in DOMAIN s, NEW x
    PROVE  LET r == [s EXCEPT ![i] = x]
           IN  /\ IsSeq(r) /\ Len(r) = Len(s) /\ DOMAIN r = DOMAIN s /\ r[i] = x
               /\ \A j \in DOMAIN s : j # i => r[j] = s[j]
<1>1. Len(s) \in Nat /\ DOMAIN s = 1 .. Len(s)
  BY IsSeqProperties
<1>2. PICK T : T = SeqX!Range(s) \cup {x}
  OBVIOUS
<1>3. s \in Seq(T) /\ x \in T
  BY <1>2, SeqMonotonic DEF IsSeq
<1>4. PICK q : q = [s EXCEPT ![i] = x]
  OBVIOUS
<1>5. /\ q \in Seq(T) /\ Len(q) = Len(s)
      /\ \A j \in 1 .. Len(s) : q[j] = IF j = i THEN x ELSE s[j]
  BY <1>1, <1>3, <1>4, ExceptSeq
<1>6. IsSeq(q) /\ DOMAIN q = 1 .. Len(q)
  BY <1>5, SeqIs, LenProperties
<1> QED BY <1>1, <1>4, <1>5, <1>6

-----------------------------------------------------------------------------
(* Options.  A step gives an option to one Apply of the program: it writes     *)
(* into memory that is this one's (Writes), and the Apply it makes fits into   *)
(* the memory (Fits).                                                          *)

\* Memory m becomes mm by an option given to o: cells stay, but for the GVKs of
\* o's noDeleteGVK, of which there may be more, and the item right behind one of
\* its slices.
Writes(m, mm, o) ==
    /\ IsSeq(mm) /\ DOMAIN m \subseteq DOMAIN mm
    /\ \A i \in DOMAIN m :
          \/ mm[i] = m[i]
          \/ /\ i = o.noDeleteGVK /\ DOMAIN m[i] = {"map"} /\ DOMAIN mm[i] = {"map"}
             /\ DOMAIN m[i].map \subseteq DOMAIN mm[i].map
          \/ \E t \in Slices(m, o) :
                /\ t.array = i /\ DOMAIN m[i] = {"array"} /\ DOMAIN mm[i] = {"array"}
                /\ IsSeq(mm[i].array) /\ Len(mm[i].array) = Len(m[i].array)
                /\ \A j \in 1 .. Len(m[i].array) : j # t.len + 1 => mm[i].array[j] = m[i].array[j]

\* The Apply p made of o has o's maps or new ones, and slices that are there.
Fresh(m, mm, r) == r \in DOMAIN mm \ DOMAIN m /\ DOMAIN mm[r] = {"map"}
Fits(o, m, p, mm) ==
    /\ DOMAIN p = DOMAIN newDesiredSet
    /\ \A f \in CopiedMaps \cup {"noDeleteGVK"} : p[f] = o[f] \/ Fresh(m, mm, p[f])
    /\ \A f \in CopiedMaps : p[f] # o[f] => p.noDeleteGVK = o.noDeleteGVK
    /\ \A s \in Slices(mm, p) : SliceThere(mm, s)

\* The items of a slice stay, but the one right behind a slice of o.
ItemsStay(m, mm, o, s) ==
    \A i \in 1 .. s.len : \/ Items(mm, s)[i] = Items(m, s)[i]
                          \/ \E t \in Slices(m, o) : t.array = s.array /\ i = t.len + 1

\* A map that options copy is as it was, and any map is still there.
LEMMA MapKept ==
    ASSUME NEW m, NEW mm, NEW o, Writes(m, mm, o), NEW r \in Nat, MapThere(m, r)
    PROVE  /\ MapThere(mm, r)
           /\ DOMAIN Cell(m, r) \subseteq DOMAIN Cell(mm, r)
           /\ r = 0 \/ r # o.noDeleteGVK => Cell(mm, r) = Cell(m, r)
<1>1. CASE r = 0
  BY <1>1 DEF MapThere, Cell
<1>2. CASE r # 0
  <2>1. r \in DOMAIN m /\ DOMAIN m[r] = {"map"}
    BY <1>2 DEF MapThere
  <2>2. DOMAIN m[r] # {"array"}
    BY <2>1
  <2>3. \/ mm[r] = m[r]
        \/ /\ r = o.noDeleteGVK /\ DOMAIN mm[r] = {"map"}
           /\ DOMAIN m[r].map \subseteq DOMAIN mm[r].map
    BY <2>1, <2>2 DEF Writes
  <2>4. r \in DOMAIN mm
    BY <2>1 DEF Writes
  <2> QED BY <1>2, <2>1, <2>3, <2>4 DEF MapThere, Cell
<1> QED BY <1>1, <1>2

\* A slice is still there, and all its items but the one right behind a slice
\* of the Apply that the option was given to.
LEMMA SliceKept ==
    ASSUME NEW m, NEW mm, NEW o, Writes(m, mm, o), NEW s, SliceThere(m, s)
    PROVE  SliceThere(mm, s) /\ ItemsStay(m, mm, o, s)
<1>1. CASE s.array = 0
  BY <1>1 DEF SliceThere, ItemsStay
<1>2. CASE s.array # 0
  <2>1. PICK k : k = s.array
    OBVIOUS
  <2>2. /\ k \in DOMAIN m /\ DOMAIN m[k] = {"array"} /\ k # 0 /\ s.len \in Nat
        /\ IsSeq(m[k].array) /\ s.len <= Len(m[k].array)
    BY <1>2, <2>1 DEF SliceThere
  <2>3. DOMAIN m[k] # {"map"} /\ k \in DOMAIN mm
    BY <2>2 DEF Writes
  <2>4. \/ mm[k] = m[k]
        \/ \E t \in Slices(m, o) :
                /\ t.array = k /\ DOMAIN mm[k] = {"array"}
                /\ IsSeq(mm[k].array) /\ Len(mm[k].array) = Len(m[k].array)
                /\ \A j \in 1 .. Len(m[k].array) : j # t.len + 1 => mm[k].array[j] = m[k].array[j]
    BY <2>2, <2>3 DEF Writes
  <2>5. SliceThere(mm, s)
    BY <2>1, <2>2, <2>3, <2>4 DEF SliceThere
  <2>6. ASSUME NEW i \in 1 .. s.len
        PROVE  Items(mm, s)[i] = mm[k].array[i] /\ Items(m, s)[i] = m[k].array[i]
    <3>1. PICK x, y : x = mm[k].array /\ y = m[k].array
      OBVIOUS
    <3>2. IsSeq(x) /\ IsSeq(y) /\ s.len <= Len(x) /\ s.len <= Len(y)
      BY <2>2, <2>4, <3>1
    <3>3. SubSeq(x, 1, s.len)[i] = x[i] /\ SubSeq(y, 1, s.len)[i] = y[i]
      BY <2>2, <3>2
    <3> QED BY <2>1, <2>2, <3>1, <3>3 DEF Items, Array
  <2>7. ASSUME NEW i \in 1 .. s.len
        PROVE  \/ mm[k].array[i] = m[k].array[i]
               \/ \E t \in Slices(m, o) : t.array = s.array /\ i = t.len + 1
    BY <2>1, <2>2, <2>4
  <2> QED BY <2>5, <2>6, <2>7 DEF ItemsStay
<1> QED BY <1>1, <1>2

\* The slices of an Apply whose patches are as they were.
LEMMA SlicesKept ==
    ASSUME NEW m, NEW mm, NEW o, Cell(mm, o.diffPatches) = Cell(m, o.diffPatches)
    PROVE  Slices(mm, o) = Slices(m, o)
BY DEF Slices

\* What one option leaves of the Applies there are.
OptionLeaves(as, m, mm, b) ==
    \A n \in DOMAIN as :
         /\ \A f \in CopiedMaps : Cell(mm, as[n][f]) = Cell(m, as[n][f])
         /\ DOMAIN Cell(m, as[n].noDeleteGVK) \subseteq DOMAIN Cell(mm, as[n].noDeleteGVK)
         /\ \A s \in Slices(m, as[n]) : ItemsStay(m, mm, as[b], s)

\* The Applies stay sound, and the one that was made with them.
LEMMA OptionSound ==
    ASSUME NEW as, NEW m, NEW mm, NEW b \in DOMAIN as, NEW p,
           Sound(as, m), Writes(m, mm, as[b]), Fits(as[b], m, p, mm)
    PROVE  /\ OptionLeaves(as, m, mm, b)
           /\ Sound(Append(as, p), mm)
<1> PICK o : o = as[b]
  OBVIOUS
<1>0. Writes(m, mm, o) /\ Sound(as, m) /\ o = as[b]
  OBVIOUS
<1>1. ASSUME NEW n \in DOMAIN as, NEW f \in CopiedMaps
      PROVE  MapThere(mm, as[n][f]) /\ Cell(mm, as[n][f]) = Cell(m, as[n][f])
  <2>1. PICK r : r = as[n][f]
    OBVIOUS
  <2>2. r \in Nat /\ MapThere(m, r) /\ (r = 0 \/ r # o.noDeleteGVK)
    BY <1>0, <2>1 DEF Sound
  <2>3. MapThere(mm, r) /\ Cell(mm, r) = Cell(m, r)
    BY <1>0, <2>2, MapKept
  <2> QED BY <2>1, <2>3
<1>2. ASSUME NEW n \in DOMAIN as
      PROVE  /\ MapThere(mm, as[n].noDeleteGVK)
             /\ DOMAIN Cell(m, as[n].noDeleteGVK) \subseteq DOMAIN Cell(mm, as[n].noDeleteGVK)
  <2>1. PICK r : r = as[n].noDeleteGVK
    OBVIOUS
  <2>2. r \in Nat /\ MapThere(m, r)
    BY <2>1 DEF Sound
  <2>3. MapThere(mm, r) /\ DOMAIN Cell(m, r) \subseteq DOMAIN Cell(mm, r)
    BY <1>0, <2>2, MapKept
  <2> QED BY <2>1, <2>3
<1>3. ASSUME NEW n \in DOMAIN as, NEW s \in Slices(m, as[n])
      PROVE  SliceThere(mm, s) /\ ItemsStay(m, mm, as[b], s)
  <2>1. SliceThere(m, s)
    BY DEF Sound
  <2>2. SliceThere(mm, s) /\ ItemsStay(m, mm, o, s)
    BY <1>0, <2>1, SliceKept
  <2> QED BY <1>0, <2>2
<1>4. OptionLeaves(as, m, mm, b)
  BY <1>1, <1>2, <1>3 DEF OptionLeaves
<1>5. PICK q : q = Append(as, p)
  OBVIOUS
<1>6. /\ IsSeq(q) /\ DOMAIN q = DOMAIN as \cup {Len(as) + 1} /\ q[Len(as) + 1] = p /\ \A n \in DOMAIN as : q[n] = as[n]
  <2>1. IsSeq(as)
    BY DEF Sound
  <2>2. Len(as) \in Nat /\ DOMAIN as = 1 .. Len(as)
    BY <2>1, IsSeqProperties
  <2>3. /\ IsSeq(q) /\ DOMAIN q = 1 .. Len(as) + 1 /\ q[Len(as) + 1] = p
        /\ \A n \in 1 .. Len(as) : q[n] = as[n]
    BY <1>5, <2>1, Appended, ZenonT(60)
  <2>4. ASSUME NEW l \in Nat PROVE 1 .. l + 1 = (1 .. l) \cup {l + 1}
    OBVIOUS
  <2> QED BY <2>2, <2>3, <2>4
<1>7. ASSUME NEW n \in DOMAIN as
      PROVE  Slices(mm, as[n]) = Slices(m, as[n])
  BY <1>1, SlicesKept DEF CopiedMaps
<1>8. ASSUME NEW f \in CopiedMaps \cup {"noDeleteGVK"}
      PROVE  p[f] \in Nat /\ MapThere(mm, p[f])
  <2>1. CASE p[f] = as[b][f]
    BY <1>1, <1>2, <2>1 DEF Sound
  <2>2. CASE Fresh(m, mm, p[f])
    <3>1. p[f] \in DOMAIN mm /\ IsSeq(mm)
      BY <2>2 DEF Fresh, Writes
    <3>2. p[f] \in Nat
      BY <3>1, IsSeqProperties
    <3> QED BY <2>2, <3>2 DEF Fresh, MapThere
  <2> QED BY <2>1, <2>2 DEF Fits
<1>9. ASSUME NEW n \in DOMAIN as, NEW f \in CopiedMaps
      PROVE  /\ p.noDeleteGVK # 0 => as[n][f] # p.noDeleteGVK
             /\ as[n].noDeleteGVK # 0 => p[f] # as[n].noDeleteGVK
             /\ p.noDeleteGVK # 0 => p[f] # p.noDeleteGVK
  <2>1. /\ as[n].noDeleteGVK # 0 => as[n].noDeleteGVK \in DOMAIN m /\ as[b][f] # as[n].noDeleteGVK
        /\ as[n][f] # 0 => as[n][f] \in DOMAIN m
        /\ as[b][f] # 0 => as[b][f] \in DOMAIN m
        /\ as[b].noDeleteGVK # 0 => /\ as[n][f] # as[b].noDeleteGVK /\ as[b][f] # as[b].noDeleteGVK
                                    /\ as[b].noDeleteGVK \in DOMAIN m
    BY DEF Sound, MapThere
  <2>2. /\ p[f] = as[b][f] \/ p[f] \in DOMAIN mm \ DOMAIN m
        /\ p.noDeleteGVK = as[b].noDeleteGVK \/ p.noDeleteGVK \in DOMAIN mm \ DOMAIN m
        /\ p[f] # as[b][f] => p.noDeleteGVK = as[b].noDeleteGVK
    BY DEF Fits, Fresh
  <2> QED BY <2>1, <2>2
<1>10. /\ DOMAIN p = DOMAIN newDesiredSet
       /\ \A s \in Slices(mm, p) : SliceThere(mm, s)
       /\ IsSeq(mm)
  BY DEF Fits, Writes
<1>11. ASSUME NEW n \in DOMAIN q
       PROVE  /\ DOMAIN q[n] = DOMAIN newDesiredSet
              /\ \A f \in CopiedMaps \cup {"noDeleteGVK"} : q[n][f] \in Nat /\ MapThere(mm, q[n][f])
              /\ \A s \in Slices(mm, q[n]) : SliceThere(mm, s)
              /\ q[n].noDeleteGVK # 0 => \A k \in DOMAIN q, f \in CopiedMaps : q[k][f] # q[n].noDeleteGVK
  <2>1. CASE n \in DOMAIN as
    <3>1. q[n] = as[n]
      BY <1>6, <2>1
    <3>2. /\ DOMAIN as[n] = DOMAIN newDesiredSet
          /\ \A f \in CopiedMaps \cup {"noDeleteGVK"} : as[n][f] \in Nat
          /\ as[n].noDeleteGVK # 0 => \A k \in DOMAIN as, f \in CopiedMaps : as[k][f] # as[n].noDeleteGVK
      BY <2>1 DEF Sound
    <3>3. \A f \in CopiedMaps \cup {"noDeleteGVK"} : MapThere(mm, as[n][f])
      BY <1>1, <1>2, <2>1
    <3>4. \A s \in Slices(mm, as[n]) : SliceThere(mm, s)
      BY <1>3, <1>7, <2>1
    <3>5. as[n].noDeleteGVK # 0 => \A k \in DOMAIN q, f \in CopiedMaps : q[k][f] # as[n].noDeleteGVK
      BY <1>6, <1>9, <2>1, <3>2
    <3> QED BY <3>1, <3>2, <3>3, <3>4, <3>5
  <2>2. CASE n = Len(as) + 1
    <3>1. q[n] = p
      BY <1>6, <2>2
    <3>2. p.noDeleteGVK # 0 => \A k \in DOMAIN q, f \in CopiedMaps : q[k][f] # p.noDeleteGVK
      BY <1>6, <1>9
    <3> QED BY <1>8, <1>10, <3>1, <3>2
  <2> QED BY <1>6, <2>1, <2>2
<1>12. Sound(q, mm)
  BY <1>6, <1>10, <1>11 DEF Sound
<1> QED BY <1>4, <1>5, <1>12

\* An Apply that is sound in memory m.
Good(o, m) ==
    /\ IsSeq(m) /\ DOMAIN o = DOMAIN newDesiredSet
    /\ \A f \in CopiedMaps \cup {"noDeleteGVK"} : o[f] \in Nat /\ MapThere(m, o[f])
    /\ \A s \in Slices(m, o) : SliceThere(m, s)
    /\ o.noDeleteGVK # 0 => \A f \in CopiedMaps : o[f] # o.noDeleteGVK

\* Each of a program's Applies is such a one.
LEMMA SoundIsGood ==
    ASSUME NEW as, NEW m, Sound(as, m), NEW n \in DOMAIN as
    PROVE  Good(as[n], m)
BY DEF Sound, Good

\* The fields of a desiredSet that are maps or slices.
LEMMA Fields == CopiedMaps \cup {"noDeleteGVK", "injectors", "injectorNames"} \subseteq DOMAIN newDesiredSet
BY DEF CopiedMaps, newDesiredSet

\* Nothing is written.
LEMMA NothingWritten ==
    ASSUME NEW o, NEW m, IsSeq(m)
    PROVE  Writes(m, m, o)
BY DEF Writes

\* What is good in memory stays so.
LEMMA GoodKept ==
    ASSUME NEW o, NEW m, NEW mm, Good(o, m), Writes(m, mm, o)
    PROVE  /\ Slices(mm, o) = Slices(m, o)
           /\ \A s \in Slices(m, o) : SliceThere(mm, s)
           /\ \A f \in CopiedMaps : Cell(mm, o[f]) = Cell(m, o[f])
<1>1. ASSUME NEW f \in CopiedMaps PROVE Cell(mm, o[f]) = Cell(m, o[f])
  <2>1. PICK r : r = o[f]
    OBVIOUS
  <2>2. r \in Nat /\ MapThere(m, r) /\ (r = 0 \/ r # o.noDeleteGVK)
    BY <2>1 DEF Good
  <2>3. Cell(mm, r) = Cell(m, r)
    BY <2>2, MapKept
  <2> QED BY <2>1, <2>3
<1>2. ASSUME NEW s \in Slices(m, o) PROVE SliceThere(mm, s)
  BY SliceKept DEF Good
<1>3. Slices(mm, o) = Slices(m, o)
  BY <1>1, SlicesKept DEF CopiedMaps
<1> QED BY <1>1, <1>2, <1>3

\* An option that touches no memory.
LEMMA PlainFits ==
    ASSUME NEW o, NEW m, NEW p, Good(o, m), DOMAIN p = DOMAIN newDesiredSet,
           \A f \in CopiedMaps \cup {"noDeleteGVK", "injectors", "injectorNames"} : p[f] = o[f]
    PROVE  Fits(o, m, p, m)
<1>1. Slices(m, p) = Slices(m, o)
  BY DEF Slices, CopiedMaps
<1> QED BY <1>1 DEF Good, Fits

\* One more cell.
LEMMA CellAdded ==
    ASSUME NEW o, NEW m, NEW mm, Writes(m, mm, o), NEW c
    PROVE  Writes(m, Append(mm, c), o)
<1>1. PICK q : q = Append(mm, c)
  OBVIOUS
<1>2. IsSeq(q) /\ DOMAIN mm \subseteq DOMAIN q /\ \A n \in DOMAIN mm : q[n] = mm[n]
  <2>1. IsSeq(mm)
    BY DEF Writes
  <2>2. Len(mm) \in Nat /\ DOMAIN mm = 1 .. Len(mm)
    BY <2>1, IsSeqProperties
  <2>3. /\ IsSeq(q) /\ DOMAIN q = 1 .. Len(mm) + 1
        /\ \A n \in 1 .. Len(mm) : q[n] = mm[n]
    BY <1>1, <2>1, Appended
  <2> QED BY <2>2, <2>3
<1>3. Writes(m, q, o)
  <2>1. DOMAIN m \subseteq DOMAIN mm
    BY DEF Writes
  <2>2. \A i \in DOMAIN m : q[i] = mm[i]
    BY <1>2, <2>1
  <2> QED BY <1>2, <2>1, <2>2 DEF Writes
<1> QED BY <1>1, <1>3

\* A copied map: of a memory mm that the option may have written into.
LEMMA CopyFits ==
    ASSUME NEW o, NEW m, NEW mm, Good(o, m), Writes(m, mm, o),
           NEW field \in CopiedMaps \cup {"noDeleteGVK"}, NEW k, NEW v,
           field = "diffPatches" => SliceThere(mm, v)
    PROVE  LET r == Copied([o |-> o, mem |-> mm], field, k, v)
           IN  Writes(m, r.mem, o) /\ Fits(o, m, r.o, r.mem)
<1>1. PICK c : c = [map |-> Entry(Cell(mm, o[field]), k, v)]
  OBVIOUS
<1>2. PICK q, p : q = Append(mm, c) /\ p = [o EXCEPT ![field] = Len(mm) + 1]
  OBVIOUS
<1>3. Writes(m, q, o)
  BY <1>2, CellAdded
<1>4. /\ Len(mm) \in Nat /\ DOMAIN mm = 1 .. Len(mm) /\ IsSeq(mm)
      /\ IsSeq(q) /\ DOMAIN q = 1 .. Len(mm) + 1 /\ q[Len(mm) + 1] = c
      /\ \A n \in DOMAIN mm : q[n] = mm[n]
  <2>1. IsSeq(mm)
    BY DEF Writes
  <2>2. Len(mm) \in Nat /\ DOMAIN mm = 1 .. Len(mm)
    BY <2>1, IsSeqProperties
  <2> QED BY <1>2, <2>1, <2>2, Appended
<1>5. PICK new : new = Len(mm) + 1
  OBVIOUS
<1>6. new \in DOMAIN q \ DOMAIN m /\ DOMAIN q[new] = {"map"} /\ new # 0
  <2>1. DOMAIN m \subseteq DOMAIN mm
    BY DEF Writes
  <2> QED BY <1>1, <1>4, <1>5, <2>1
<1>7. /\ DOMAIN p = DOMAIN newDesiredSet /\ p[field] = new
      /\ \A f \in CopiedMaps \cup {"noDeleteGVK", "injectors", "injectorNames"} :
            f # field => p[f] = o[f]
  <2>1. DOMAIN o = DOMAIN newDesiredSet
    BY DEF Good
  <2> QED BY <1>2, <1>5, <2>1, Fields
<1>8. ASSUME NEW s \in Slices(q, p) PROVE SliceThere(q, s)
  <2>1. Writes(mm, q, o)
    BY <1>2, <1>4, NothingWritten, CellAdded
  <2>2. \A t \in Slices(m, o) : SliceThere(q, t)
    BY <1>3, GoodKept
  <2>3. CASE field # "diffPatches"
    <3>1. Cell(q, o.diffPatches) = Cell(m, o.diffPatches) /\ p.diffPatches = o.diffPatches
      BY <1>3, <1>7, <2>3, GoodKept DEF CopiedMaps
    <3>2. p.injectors = o.injectors /\ p.injectorNames = o.injectorNames
      BY <1>7 DEF CopiedMaps
    <3>3. s \in Slices(m, o)
      BY <3>1, <3>2 DEF Slices
    <3> QED BY <2>2, <3>3
  <2>4. CASE field = "diffPatches"
    <3>1. p.injectors = o.injectors /\ p.injectorNames = o.injectorNames /\ p.diffPatches = new
      BY <1>7, <2>4 DEF CopiedMaps
    <3>2. Cell(q, new) = Entry(Cell(mm, o.diffPatches), k, v)
      BY <1>1, <1>4, <1>5, <1>6, <2>4 DEF Cell
    <3>3. Cell(mm, o.diffPatches) = Cell(m, o.diffPatches)
      BY GoodKept DEF CopiedMaps
    <3>4. SeqX!Range(Cell(q, new)) \subseteq SeqX!Range(Cell(m, o.diffPatches)) \cup {v}
      BY <3>2, <3>3 DEF Entry, SeqX!Range
    <3>5. s \in Slices(m, o) \/ s = v
      BY <3>1, <3>4 DEF Slices
    <3>6. SliceThere(q, v)
      BY <2>1, <2>4, SliceKept
    <3> QED BY <2>2, <3>5, <3>6
  <2> QED BY <2>3, <2>4
<1>9. Fits(o, m, p, q)
  <2>1. \A f \in CopiedMaps \cup {"noDeleteGVK"} : p[f] = o[f] \/ Fresh(m, q, p[f])
    BY <1>6, <1>7 DEF Fresh
  <2>2. \A f \in CopiedMaps : p[f] # o[f] => p.noDeleteGVK = o.noDeleteGVK
    BY <1>7 DEF CopiedMaps
  <2> QED BY <1>7, <1>8, <2>1, <2>2 DEF Fits
<1>10. Copied([o |-> o, mem |-> mm], field, k, v) = [o |-> p, mem |-> q]
  BY <1>1, <1>2 DEF Copied
<1> QED BY <1>3, <1>9, <1>10

\* The map of WithNoDeleteGVK gets one more entry.
LEMMA SharedFits ==
    ASSUME NEW o, NEW m, Good(o, m), NEW k, NEW v
    PROVE  LET r == Shared([o |-> o, mem |-> m], "noDeleteGVK", k, v)
           IN  Writes(m, r.mem, o) /\ Fits(o, m, r.o, r.mem)
<1> DEFINE a == [o |-> o, mem |-> m]
<1>1. CASE o.noDeleteGVK = 0
  <2>1. Shared(a, "noDeleteGVK", k, v) = Copied(a, "noDeleteGVK", k, v)
    BY <1>1 DEF Shared
  <2>2. Writes(m, m, o)
    BY NothingWritten DEF Good
  <2> QED BY <2>1, <2>2, CopyFits
<1>2. CASE o.noDeleteGVK # 0
  <2>1. PICK i : i = o.noDeleteGVK
    OBVIOUS
  <2>2. i \in DOMAIN m /\ DOMAIN m[i] = {"map"} /\ IsSeq(m) /\ i \in Nat
    BY <1>2, <2>1 DEF Good, MapThere
  <2>3. PICK c : c = [m[i] EXCEPT !.map = Entry(@, k, v)]
    OBVIOUS
  <2>4. DOMAIN c = {"map"} /\ DOMAIN m[i].map \subseteq DOMAIN c.map
    BY <2>2, <2>3 DEF Entry
  <2>5. PICK q : q = [m EXCEPT ![i] = c]
    OBVIOUS
  <2>6. IsSeq(q) /\ DOMAIN q = DOMAIN m /\ q[i] = c /\ \A j \in DOMAIN m : j # i => q[j] = m[j]
    BY <2>2, <2>5, Replaced
  <2>7. Writes(m, q, o)
    BY <2>1, <2>2, <2>4, <2>6 DEF Writes
  <2>8. Fits(o, m, o, q)
    BY <2>7, GoodKept DEF Fits, Good
  <2>9. Shared(a, "noDeleteGVK", k, v) = [o |-> o, mem |-> q]
    BY <1>2, <2>1, <2>3, <2>5 DEF Shared
  <2> QED BY <2>7, <2>8, <2>9
<1> QED BY <1>1, <1>2

\* append writes right behind the slice, or makes an array.
LEMMA AppendWrites ==
    ASSUME NEW o, NEW m, Good(o, m), NEW s, s \in Slices(m, o) \/ s = NoSlice, NEW item
    PROVE  LET r == appended(m, s, item)
           IN  Writes(m, r.mem, o) /\ SliceThere(r.mem, r.s)
<1>1. SliceThere(m, s) /\ s.len \in Nat /\ s.array \in Nat /\ s = [array |-> s.array, len |-> s.len]
  BY DEF Good, SliceThere, NoSlice
<1>2. IsSeq(m)
  BY DEF Good
<1>3. PICK old, len : old = Array(m, s) /\ len = s.len
  OBVIOUS
<1>4. /\ IsSeq(old) /\ len \in Nat /\ len <= Len(old)
      /\ s.array = 0 => old = <<>>
      /\ s.array # 0 => /\ old = m[s.array].array /\ s.array \in DOMAIN m
                        /\ DOMAIN m[s.array] = {"array"}
  <2>1. CASE s.array = 0
    <3>1. old = <<>> /\ len = 0
      BY <1>1, <1>3, <2>1 DEF Array, SliceThere
    <3>2. <<>> \in Seq({})
      OBVIOUS
    <3>3. IsSeq(old)
      BY <3>1, <3>2, SeqIs
    <3> QED BY <2>1, <3>1, <3>3
  <2>2. CASE s.array # 0
    BY <1>1, <1>3, <2>2 DEF Array, SliceThere
  <2> QED BY <2>1, <2>2
<1>5. CASE len < Len(old)
  <2>1. s.array # 0
    BY <1>4, <1>5
  <2>2. PICK i : i = s.array
    OBVIOUS
  <2>3. /\ i \in DOMAIN m /\ DOMAIN m[i] = {"array"} /\ old = m[i].array /\ i \in Nat /\ i # 0
        /\ Len(old) \in Nat /\ DOMAIN old = 1 .. Len(old) /\ len + 1 \in DOMAIN old
    BY <1>1, <1>4, <1>5, <2>1, <2>2, IsSeqProperties
  <2>4. PICK arr : arr = [old EXCEPT ![len + 1] = item]
    OBVIOUS
  <2>5. IsSeq(arr) /\ Len(arr) = Len(old) /\ \A j \in DOMAIN old : j # len + 1 => arr[j] = old[j]
    BY <1>4, <2>3, <2>4, Replaced
  <2>6. PICK c : c = [m[i] EXCEPT !.array = arr]
    OBVIOUS
  <2>7. DOMAIN c = {"array"} /\ c.array = arr
    BY <2>3, <2>6
  <2>8. PICK q : q = [m EXCEPT ![i] = c]
    OBVIOUS
  <2>9. IsSeq(q) /\ DOMAIN q = DOMAIN m /\ q[i] = c /\ \A j \in DOMAIN m : j # i => q[j] = m[j]
    BY <1>2, <2>3, <2>8, Replaced
  <2>10. s \in Slices(m, o)
    BY <2>1 DEF NoSlice
  <2>11. Writes(m, q, o)
    <3>1. /\ s.array = i /\ DOMAIN m[i] = {"array"} /\ DOMAIN q[i] = {"array"}
          /\ IsSeq(q[i].array) /\ Len(q[i].array) = Len(m[i].array)
          /\ \A j \in 1 .. Len(m[i].array) : j # s.len + 1 => q[i].array[j] = m[i].array[j]
      BY <1>3, <2>2, <2>3, <2>5, <2>7, <2>9
    <3> QED BY <2>9, <2>10, <3>1 DEF Writes
  <2>12. PICK t : t = [array |-> i, len |-> len + 1]
    OBVIOUS
  <2>13. SliceThere(q, t)
    <3>1. t.array = i /\ t.len = len + 1 /\ t \in [array: Nat, len: Nat]
      BY <1>4, <2>3, <2>12
    <3>2. len + 1 <= Len(arr)
      BY <1>4, <1>5, <2>3, <2>5
    <3> QED BY <2>3, <2>5, <2>7, <2>9, <3>1, <3>2 DEF SliceThere
  <2>14. appended(m, s, item) = [s |-> t, mem |-> q]
    <3>1. [s EXCEPT !.len = @ + 1] = t
      BY <1>1, <1>3, <2>2, <2>12
    <3>2. [m EXCEPT ![s.array].array[s.len + 1] = item] = q
      BY <1>3, <2>2, <2>3, <2>4, <2>6, <2>8
    <3> QED BY <1>3, <1>5, <3>1, <3>2 DEF appended
  <2> QED BY <2>11, <2>13, <2>14
<1>6. CASE ~(len < Len(old))
  <2>1. PICK items, room : items = Items(m, s) /\ room = IF len = 0 THEN 0 ELSE len - 1
    OBVIOUS
  <2>2. PICK grown : grown = Append(items, item) \o [n \in 1 .. room |-> Spare]
    OBVIOUS
  <2>3. IsSeq(grown) /\ len + 1 <= Len(grown)
    <3>1. PICK T : T = SeqX!Range(old) \cup {item, Spare}
      OBVIOUS
    <3>2. items \in Seq(T) /\ Len(items) = len
      <4>1. old \in Seq(T) /\ items = SubSeq(old, 1, len)
        BY <1>3, <1>4, <2>1, <3>1, SeqMonotonic DEF IsSeq, Items
      <4> QED BY <1>4, <4>1
    <3>3. Append(items, item) \in Seq(T) /\ Len(Append(items, item)) = len + 1
      BY <3>1, <3>2
    <3>4. room \in Nat
      BY <1>4, <2>1
    <3>5. PICK rest : rest = [n \in 1 .. room |-> Spare]
      OBVIOUS
    <3>6. rest \in [1 .. room -> T]
      BY <3>1, <3>5
    <3>7. rest \in Seq(T) /\ Len(rest) = room
      BY <3>4, <3>6
    <3>8. PICK first : first = Append(items, item)
      OBVIOUS
    <3>9. grown = first \o rest /\ first \in Seq(T) /\ Len(first) = len + 1
      BY <2>2, <3>3, <3>5, <3>8
    <3>10. grown \in Seq(T) /\ Len(grown) = len + 1 + room
      BY <3>7, <3>9, ConcatProperties
    <3> QED BY <1>4, <3>4, <3>10, SeqIs
  <2>4. PICK c : c = [array |-> grown]
    OBVIOUS
  <2>5. PICK q : q = Append(m, c)
    OBVIOUS
  <2>6. Writes(m, q, o)
    BY <1>2, <2>5, NothingWritten, CellAdded
  <2>7. /\ Len(m) \in Nat /\ DOMAIN q = 1 .. Len(m) + 1 /\ q[Len(m) + 1] = c
    BY <1>2, <2>5, IsSeqProperties, Appended
  <2>8. PICK t : t = [array |-> Len(m) + 1, len |-> len + 1]
    OBVIOUS
  <2>9. SliceThere(q, t)
    <3>1. t.array = Len(m) + 1 /\ t.len = len + 1 /\ t \in [array: Nat, len: Nat] /\ t.array # 0
      BY <1>4, <2>7, <2>8
    <3>2. q[t.array] = c /\ t.array \in DOMAIN q /\ DOMAIN c = {"array"} /\ c.array = grown
      BY <2>4, <2>7, <3>1
    <3> QED BY <2>3, <3>1, <3>2 DEF SliceThere
  <2>10. appended(m, s, item) = [s |-> t, mem |-> q]
    BY <1>3, <1>6, <2>1, <2>2, <2>4, <2>5, <2>8 DEF appended
  <2> QED BY <2>6, <2>9, <2>10
<1> QED BY <1>5, <1>6

\* Injectors, and the names of injectors.
LEMMA AppendFits ==
    ASSUME NEW o, NEW m, Good(o, m), NEW field \in {"injectors", "injectorNames"}, NEW item
    PROVE  LET r == AppendTo([o |-> o, mem |-> m], field, item)
           IN  Writes(m, r.mem, o) /\ Fits(o, m, r.o, r.mem)
<1>1. o[field] \in Slices(m, o)
  BY DEF Slices
<1>2. PICK s : s = o[field]
  OBVIOUS
<1>3. PICK r : r = appended(m, s, item)
  OBVIOUS
<1>4. Writes(m, r.mem, o) /\ SliceThere(r.mem, r.s)
  BY <1>1, <1>2, <1>3, AppendWrites
<1>5. PICK q, t : q = r.mem /\ t = r.s
  OBVIOUS
<1>6. PICK p : p = [o EXCEPT ![field] = t]
  OBVIOUS
<1>7. /\ DOMAIN p = DOMAIN newDesiredSet /\ p[field] = t
      /\ \A f \in CopiedMaps \cup {"noDeleteGVK", "injectors", "injectorNames"} :
            f # field => p[f] = o[f]
  <2>1. DOMAIN o = DOMAIN newDesiredSet
    BY DEF Good
  <2> QED BY <1>6, <2>1, Fields
<1>8. \A f \in CopiedMaps \cup {"noDeleteGVK"} : p[f] = o[f]
  BY <1>7 DEF CopiedMaps
<1>9. Cell(q, o.diffPatches) = Cell(m, o.diffPatches) /\ \A x \in Slices(m, o) : SliceThere(q, x)
  BY <1>4, <1>5, GoodKept DEF CopiedMaps
<1>10. Slices(q, p) \subseteq Slices(m, o) \cup {t}
  <2>1. p.diffPatches = o.diffPatches
    BY <1>8 DEF CopiedMaps
  <2>2. {p.injectors, p.injectorNames} \subseteq {o.injectors, o.injectorNames, t}
    BY <1>7
  <2> QED BY <1>9, <2>1, <2>2 DEF Slices
<1>11. Fits(o, m, p, q)
  BY <1>4, <1>5, <1>7, <1>8, <1>9, <1>10 DEF Fits
<1>12. AppendTo([o |-> o, mem |-> m], field, item) = [o |-> p, mem |-> q]
  BY <1>2, <1>3, <1>5, <1>6 DEF AppendTo
<1> QED BY <1>4, <1>5, <1>11, <1>12

\* A patch for an object is appended to those it has, in a copy of the map.
LEMMA DiffPatchFits ==
    ASSUME NEW o, NEW m, Good(o, m), NEW g, NEW key, NEW patch
    PROVE  LET r == WithDiffPatch([o |-> o, mem |-> m], g, key, patch)
           IN  Writes(m, r.mem, o) /\ Fits(o, m, r.o, r.mem)
<1>1. PICK ps : ps = Cell(m, o.diffPatches)
  OBVIOUS
<1>2. PICK s : s = IF <<g, key>> \in DOMAIN ps THEN ps[<<g, key>>] ELSE NoSlice
  OBVIOUS
<1>3. s \in Slices(m, o) \/ s = NoSlice
  BY <1>1, <1>2 DEF Slices, SeqX!Range
<1>4. PICK r : r = appended(m, s, patch)
  OBVIOUS
<1>5. PICK q, t : q = r.mem /\ t = r.s
  OBVIOUS
<1>6. Writes(m, q, o) /\ SliceThere(q, t)
  BY <1>3, <1>4, <1>5, AppendWrites
<1>7. "diffPatches" \in CopiedMaps \cup {"noDeleteGVK"}
  BY DEF CopiedMaps
<1>8. LET c == Copied([o |-> o, mem |-> q], "diffPatches", <<g, key>>, t)
      IN  Writes(m, c.mem, o) /\ Fits(o, m, c.o, c.mem)
  BY <1>6, <1>7, CopyFits
<1>9. [[o |-> o, mem |-> m] EXCEPT !.mem = r.mem] = [o |-> o, mem |-> q]
  BY <1>5
<1>10. WithDiffPatch([o |-> o, mem |-> m], g, key, patch)
         = Copied([o |-> o, mem |-> q], "diffPatches", <<g, key>>, t)
  BY <1>1, <1>2, <1>4, <1>5, <1>9 DEF WithDiffPatch
<1> QED BY <1>8, <1>10

\* An Apply that an option makes of o in memory m.
Makes(o, m, r) == Writes(m, r.mem, o) /\ Fits(o, m, r.o, r.mem)

\* Options that are fields of the desiredSet.
Touched == {"setID", "owner", "setOwnerReference", "informerFactory", "ignorePreviousApplied",
            "strictCaching", "restrictClusterScoped", "defaultNamespace", "listerNamespace", "qps",
            "noDelete"}
\* Another value in one of them.
LEMMA FieldMakes ==
    ASSUME NEW o, NEW m, NEW p, Good(o, m), Fits(o, m, p, m), NEW field \in Touched, NEW v
    PROVE  Fits(o, m, [p EXCEPT ![field] = v], m)
<1>1. PICK q : q = [p EXCEPT ![field] = v]
  OBVIOUS
<1>2. DOMAIN q = DOMAIN newDesiredSet /\ DOMAIN p = DOMAIN newDesiredSet
  BY <1>1 DEF Fits
<1>3. \A f \in CopiedMaps \cup {"noDeleteGVK", "injectors", "injectorNames"} : q[f] = p[f]
  BY <1>1, <1>2, Fields DEF Touched, CopiedMaps
<1>4. Slices(m, q) = Slices(m, p)
  BY <1>3 DEF Slices, CopiedMaps
<1>5. Fits(o, m, q, m)
  BY <1>2, <1>3, <1>4 DEF Fits
<1> QED BY <1>1, <1>5

\* An Apply that was made without touching the memory.
Plainly(o, m, a) == a = [o |-> a.o, mem |-> m] /\ Fits(o, m, a.o, m)

\* Then nothing was written.
LEMMA PlainMakes ==
    ASSUME NEW o, NEW m, NEW a, Good(o, m), Plainly(o, m, a)
    PROVE  Makes(o, m, a)
<1>1. Writes(m, m, o) /\ a.mem = m
  BY NothingWritten DEF Good, Plainly
<1> QED BY <1>1 DEF Makes, Plainly

\* One of the plain fields gets another value.
LEMMA PlainOption ==
    ASSUME NEW o, NEW m, NEW a, Good(o, m), Plainly(o, m, a), NEW field \in Touched, NEW v
    PROVE  Plainly(o, m, [a EXCEPT !.o[field] = v])
<1>1. PICK p : p = a.o
  OBVIOUS
<1>2. a = [o |-> p, mem |-> m] /\ Fits(o, m, p, m)
  BY <1>1 DEF Plainly
<1>3. PICK q : q = [p EXCEPT ![field] = v]
  OBVIOUS
<1>4. Fits(o, m, q, m)
  BY <1>2, <1>3, FieldMakes
<1>5. [a EXCEPT !.o[field] = v] = [o |-> q, mem |-> m]
  BY <1>2, <1>3
<1> QED BY <1>4, <1>5 DEF Plainly

\* These options do no more than that.
LEMMA PlainOptions ==
    ASSUME NEW o, NEW m, NEW a, Good(o, m), Plainly(o, m, a), NEW x, NEW y
    PROVE  /\ Plainly(o, m, WithSetID(a, x)) /\ Plainly(o, m, WithOwner(a, x))
           /\ Plainly(o, m, WithOwnerKey(a, x, y)) /\ Plainly(o, m, WithSetOwnerReference(a))
           /\ Plainly(o, m, WithCacheTypeFactory(a)) /\ Plainly(o, m, WithIgnorePreviousApplied(a))
           /\ Plainly(o, m, WithStrictCaching(a)) /\ Plainly(o, m, WithDynamicLookup(a))
           /\ Plainly(o, m, WithRestrictClusterScoped(a)) /\ Plainly(o, m, WithDefaultNamespace(a, x))
           /\ Plainly(o, m, WithListerNamespace(a, x)) /\ Plainly(o, m, WithRateLimiting(a, x))
           /\ Plainly(o, m, WithNoDelete(a))
<1>1. ASSUME NEW field \in Touched, NEW v
      PROVE  Plainly(o, m, [a EXCEPT !.o[field] = v])
  BY PlainOption
<1>2. \A v : Plainly(o, m, [a EXCEPT !.o.owner = v])
  BY <1>1 DEF Touched
<1>3. Plainly(o, m, WithSetID(a, x)) /\ Plainly(o, m, WithOwner(a, x))
  BY <1>1, <1>2 DEF Touched, WithSetID, WithOwner
<1>4. Plainly(o, m, WithOwnerKey(a, x, y))
  BY <1>2 DEF WithOwnerKey, WithOwner
<1>5. Plainly(o, m, WithSetOwnerReference(a)) /\ Plainly(o, m, WithCacheTypeFactory(a))
  BY <1>1 DEF Touched, WithSetOwnerReference, WithCacheTypeFactory
<1>6. Plainly(o, m, WithIgnorePreviousApplied(a)) /\ Plainly(o, m, WithStrictCaching(a))
  BY <1>1 DEF Touched, WithIgnorePreviousApplied, WithStrictCaching
<1>7. Plainly(o, m, WithDynamicLookup(a)) /\ Plainly(o, m, WithRestrictClusterScoped(a))
  BY <1>1 DEF Touched, WithDynamicLookup, WithRestrictClusterScoped
<1>8. Plainly(o, m, WithDefaultNamespace(a, x))
  BY <1>1 DEF Touched, WithDefaultNamespace
<1>9. Plainly(o, m, WithListerNamespace(a, x)) /\ Plainly(o, m, WithRateLimiting(a, x))
  BY <1>1 DEF Touched, WithListerNamespace, WithRateLimiting
<1>10. Plainly(o, m, WithNoDelete(a))
  BY <1>1 DEF Touched, WithNoDelete
<1> QED BY <1>3, <1>4, <1>5, <1>6, <1>7, <1>8, <1>9, <1>10

\* What a generating handler makes of its Apply.
LEMMA ConfiguredPlainly ==
    ASSUME NEW o, NEW m, NEW a, Good(o, m), Plainly(o, m, a), NEW ns, NEW opts
    PROVE  Plainly(o, m, ConfigureApplyForObject(a, ns, opts))
<1>1. PICK dynamic : dynamic = IF "DynamicLookup" \in opts THEN WithDynamicLookup(a) ELSE a
  OBVIOUS
<1>2. Plainly(o, m, dynamic)
  BY <1>1, PlainOptions
<1>3. PICK owned : owned = IF "NoOwnerReference" \in opts THEN WithSetOwnerReference(dynamic) ELSE dynamic
  OBVIOUS
<1>4. Plainly(o, m, owned)
  BY <1>2, <1>3, PlainOptions
<1>5. PICK default : default = WithDefaultNamespace(owned, ns)
  OBVIOUS
<1>6. Plainly(o, m, default)
  BY <1>4, <1>5, PlainOptions
<1>7. PICK within : within = IF "AllowCrossNamespace" \in opts /\ "AllowClusterScoped" \notin opts
                             THEN WithListerNamespace(default, ns) ELSE owned
  OBVIOUS
<1>8. Plainly(o, m, within)
  BY <1>4, <1>6, <1>7, PlainOptions
<1>9. Plainly(o, m, WithRestrictClusterScoped(within))
  BY <1>8, PlainOptions
<1> QED BY <1>1, <1>3, <1>5, <1>7, <1>8, <1>9 DEF ConfigureApplyForObject

\* Every option of a program.
LEMMA DerivesMakes ==
    ASSUME NEW n \in DOMAIN aps, Good(aps[n], mem), Derives(n)
    PROVE  \E r : Makes(aps[n], mem, r) /\ Derive(r)
<1>1. PICK o, m : o = aps[n] /\ m = mem
  OBVIOUS
<1>2. Good(o, m)
  BY <1>1
<1>3. PICK a : a = [o |-> o, mem |-> m]
  OBVIOUS
<1>4. Ap(n) = a
  BY <1>1, <1>3 DEF Ap
<1>5. Plainly(o, m, a)
  BY <1>2, <1>3, PlainFits DEF Plainly, Good
<1>6. \A x, y : /\ Makes(o, m, WithSetID(a, x)) /\ Makes(o, m, WithOwner(a, x))
                /\ Makes(o, m, WithOwnerKey(a, x, y)) /\ Makes(o, m, WithSetOwnerReference(a))
                /\ Makes(o, m, WithCacheTypeFactory(a)) /\ Makes(o, m, WithIgnorePreviousApplied(a))
                /\ Makes(o, m, WithStrictCaching(a)) /\ Makes(o, m, WithDynamicLookup(a))
                /\ Makes(o, m, WithRestrictClusterScoped(a)) /\ Makes(o, m, WithDefaultNamespace(a, x))
                /\ Makes(o, m, WithListerNamespace(a, x)) /\ Makes(o, m, WithRateLimiting(a, x))
                /\ Makes(o, m, WithNoDelete(a))
  BY <1>2, <1>5, PlainOptions, PlainMakes
<1>7. \A x, y : Makes(o, m, ConfigureApplyForObject(a, x, y))
  BY <1>2, <1>5, ConfiguredPlainly, PlainMakes
<1>8. \A x : Makes(o, m, WithInjector(a, x)) /\ Makes(o, m, WithInjectorName(a, x))
  BY <1>2, <1>3, AppendFits DEF WithInjector, WithInjectorName, Makes
<1>9. \A x : Makes(o, m, WithNoDeleteGVK(a, x))
  BY <1>2, <1>3, SharedFits DEF WithNoDeleteGVK, Makes
<1>10. ASSUME NEW field \in {"pruneTypes", "patchers", "reconcilers"}, NEW k, NEW v
       PROVE  Makes(o, m, Copied(a, field, k, v))
  <2>1. field \in CopiedMaps \cup {"noDeleteGVK"} /\ field # "diffPatches"
    BY DEF CopiedMaps
  <2>2. Writes(m, m, o)
    BY <1>2, NothingWritten DEF Good
  <2> QED BY <1>2, <1>3, <2>1, <2>2, CopyFits DEF Makes
<1>11. \A x, y : /\ Makes(o, m, WithGVK(a, x)) /\ Makes(o, m, WithCacheTypes(a, x))
                 /\ Makes(o, m, WithPatcher(a, x, y)) /\ Makes(o, m, WithReconciler(a, x, y))
  BY <1>10 DEF WithGVK, WithCacheTypes, WithPatcher, WithReconciler
<1>12. \A x, y, z : Makes(o, m, WithDiffPatch(a, x, y, z))
  BY <1>2, <1>3, DiffPatchFits DEF Makes
<1>13. \A r : Makes(o, m, r) <=> Makes(aps[n], mem, r)
  BY <1>1
<1>14. \E r : Makes(o, m, r) /\ Derive(r)
  BY <1>4, <1>6, <1>7, <1>8, <1>9, <1>11, <1>12 DEF Derives
<1> QED BY <1>13, <1>14

\* A program begins with Applies that are sound.
LEMMA FirstSound ==
    ASSUME OptionsInit \/ CallsInit
    PROVE  Sound(aps, mem)
<1>1. CASE CallsInit
  BY <1>1, ProgramsAssumption DEF CallsInit
<1>2. CASE OptionsInit
  <2>1. PICK o, m : o = newDesiredSet /\ m = FirstMemory
    OBVIOUS
  <2>2. IsSeq(m) /\ DOMAIN m = {1} /\ DOMAIN m[1] = {"map"}
    <3>1. m \in Seq({[map |-> <<>>]}) /\ Len(m) = 1
      BY <2>1 DEF FirstMemory
    <3>2. m = <<[map |-> <<>>]>>
      BY <2>1 DEF FirstMemory
    <3>3. IsSeq(m)
      BY <3>1, SeqIs
    <3>4. DOMAIN m = {1} /\ DOMAIN m[1] = {"map"}
      BY <3>2
    <3> QED BY <3>3, <3>4
  <2>3. /\ o.injectors = NoSlice /\ o.injectorNames = NoSlice /\ o.noDeleteGVK = 0
        /\ o.diffPatches = 0 /\ o.pruneTypes = 0 /\ o.patchers = 0 /\ o.reconcilers = 1
    BY <2>1 DEF newDesiredSet, defaultReconcilers
  <2>4. ASSUME NEW s \in Slices(m, o) PROVE SliceThere(m, s)
    <3>1. s = NoSlice
      <4>1. SeqX!Range(Cell(m, 0)) = {}
        BY DEF Cell, SeqX!Range
      <4> QED BY <2>3, <4>1 DEF Slices
    <3> QED BY <3>1 DEF NoSlice, SliceThere
  <2>5. Good(o, m)
    <3>1. \A f \in CopiedMaps \cup {"noDeleteGVK"} : o[f] \in {0, 1}
      BY <2>3 DEF CopiedMaps
    <3>2. MapThere(m, 0) /\ MapThere(m, 1)
      BY <2>2 DEF MapThere
    <3>3. DOMAIN o = DOMAIN newDesiredSet
      BY <2>1
    <3> QED BY <2>2, <2>3, <2>4, <3>1, <3>2, <3>3 DEF Good
  <2>6. PICK a : a = [o |-> o, mem |-> m]
    OBVIOUS
  <2>7. Base = a
    BY <2>1, <2>6 DEF Base
  <2>8. ASSUME NEW p, NEW q, Sound(<<o, p>>, q)
        PROVE  LET r == WithInjector([o |-> p, mem |-> q], "same") IN Sound(<<o, r.o>>, r.mem)
    <3>1. PICK as : as = <<o, p>>
      OBVIOUS
    <3>2. DOMAIN as = {1, 2} /\ as[1] = o /\ as[2] = p /\ Sound(as, q)
      BY <2>8, <3>1
    <3>3. Good(p, q)
      BY <3>2, SoundIsGood
    <3>4. PICK r : r = WithInjector([o |-> p, mem |-> q], "same")
      OBVIOUS
    <3>5. Writes(q, r.mem, p) /\ Fits(p, q, r.o, r.mem)
      BY <3>3, <3>4, AppendFits DEF WithInjector
    <3>6. PICK all : all = Append(as, r.o)
      OBVIOUS
    <3>7. Sound(all, r.mem)
      BY <3>2, <3>5, <3>6, OptionSound
    <3>8. DOMAIN all = {1, 2, 3} /\ all[1] = o /\ all[3] = r.o
      BY <3>1, <3>6
    <3>9. PICK two : two = <<o, r.o>>
      OBVIOUS
    <3>10. DOMAIN two = {1, 2} /\ two[1] = all[1] /\ two[2] = all[3] /\ IsSeq(two)
      <4>1. two \in Seq({o, r.o})
        BY <3>9
      <4>2. IsSeq(two)
        BY <4>1, SeqIs
      <4>3. DOMAIN two = {1, 2} /\ two[1] = o /\ two[2] = r.o
        BY <3>9
      <4> QED BY <3>8, <4>2, <4>3
    <3>11. Sound(two, r.mem)
      BY <3>7, <3>8, <3>10 DEF Sound
    <3> QED BY <3>4, <3>9, <3>11
  <2>9. Sound(<<o, o>>, m)
    <3>1. PICK as : as = <<o, o>>
      OBVIOUS
    <3>2. as \in Seq({o}) /\ DOMAIN as = {1, 2} /\ as[1] = o /\ as[2] = o
      BY <3>1
    <3>3. IsSeq(as)
      BY <3>2, SeqIs
    <3>4. Sound(as, m)
      BY <2>5, <3>2, <3>3 DEF Sound, Good
    <3> QED BY <3>1, <3>4
  <2>10. ASSUME NEW r, Sound(<<o, r.o>>, r.mem), r = [o |-> r.o, mem |-> r.mem]
         PROVE  LET s == WithInjector(r, "same")
                IN  Sound(<<o, s.o>>, s.mem) /\ s = [o |-> s.o, mem |-> s.mem]
    <3>1. PICK p, q : p = r.o /\ q = r.mem
      OBVIOUS
    <3>2. r = [o |-> p, mem |-> q] /\ Sound(<<o, p>>, q)
      BY <2>10, <3>1
    <3>3. PICK s : s = WithInjector(r, "same")
      OBVIOUS
    <3>4. Sound(<<o, s.o>>, s.mem)
      BY <2>8, <3>2, <3>3
    <3>5. s = [o |-> s.o, mem |-> s.mem]
      BY <3>3 DEF WithInjector, AppendTo
    <3> QED BY <3>3, <3>4, <3>5
  <2>11. a.o = o /\ a.mem = m /\ a = [o |-> a.o, mem |-> a.mem]
    BY <2>6
  <2>12. PICK b : b = WithInjector(a, "same")
    OBVIOUS
  <2>13. Sound(<<o, b.o>>, b.mem) /\ b = [o |-> b.o, mem |-> b.mem]
    BY <2>9, <2>10, <2>11, <2>12
  <2>14. PICK c : c = WithInjector(b, "same")
    OBVIOUS
  <2>15. Sound(<<o, c.o>>, c.mem) /\ c = [o |-> c.o, mem |-> c.mem]
    BY <2>10, <2>13, <2>14
  <2>16. PICK d : d = WithInjector(c, "same")
    OBVIOUS
  <2>17. Sound(<<o, d.o>>, d.mem)
    BY <2>10, <2>15, <2>16
  <2>18. aps = <<o, d.o>> /\ mem = d.mem
    BY <1>2, <2>1, <2>7, <2>12, <2>14, <2>16 DEF OptionsInit
  <2> QED BY <2>17, <2>18
<1> QED BY <1>1, <1>2

\* What a step leaves of the options of every Apply.
OptionsLeft ==
    \E b \in DOMAIN aps : \A n \in DOMAIN aps :
         LET o == aps[n] IN
         /\ aps'[n] = o
         /\ \A f \in CopiedMaps : GivenNow(o, f) = Given(o, f)
         /\ DOMAIN Given(o, "noDeleteGVK") \subseteq DOMAIN GivenNow(o, "noDeleteGVK")
         /\ \A s \in Slices(mem, o) : \A i \in 1 .. s.len :
              \/ Items(mem', s)[i] = Items(mem, s)[i]
              \/ \E t \in Slices(mem, aps[b]) : t.array = s.array /\ i = t.len + 1

\* An option, given to an Apply of the program, keeps all Applies sound and
\* leaves what they were given.
LEMMA OptionStep ==
    ASSUME Sound(aps, mem), Options
    PROVE  Sound(aps, mem)' /\ OptionsLeft
<1>1. PICK b \in DOMAIN aps : Derives(b)
  BY DEF Options
<1>2. Good(aps[b], mem)
  BY SoundIsGood
<1>3. PICK r : Makes(aps[b], mem, r) /\ Derive(r)
  BY <1>1, <1>2, DerivesMakes
<1>4. PICK as, m, mm, p : as = aps /\ m = mem /\ mm = r.mem /\ p = r.o
  OBVIOUS
<1>5. Sound(as, m) /\ b \in DOMAIN as /\ Writes(m, mm, as[b]) /\ Fits(as[b], m, p, mm)
  BY <1>3, <1>4 DEF Makes
<1>6. OptionLeaves(as, m, mm, b) /\ Sound(Append(as, p), mm)
  BY <1>5, OptionSound
<1>7. aps' = Append(as, p) /\ mem' = mm
  BY <1>3, <1>4 DEF Derive
<1>8. Sound(aps, mem)'
  BY <1>6, <1>7
<1>9. \A n \in DOMAIN aps : aps'[n] = aps[n]
  <2>1. IsSeq(as)
    BY <1>5 DEF Sound
  <2> QED BY <1>4, <1>7, <2>1, Appended, IsSeqProperties
<1>10. OptionsLeft
  BY <1>4, <1>6, <1>7, <1>9 DEF OptionsLeft, OptionLeaves, ItemsStay, Given, GivenNow
<1> QED BY <1>8, <1>10

\* Calls make no Apply.
LEMMA CallsKeepApplies ==
    ASSUME Calls
    PROVE  UNCHANGED <<aps, mem>>
BY DEF Calls, Apply, DryRun, Purge, Owner, Sync, Did

\* The maps and arrays of all Applies are sound, at any time.
LEMMA AppliesSound == ProgramsSpec => []Sound(aps, mem)
<1>1. ProgramsInit /\ (OptionsInit \/ CallsInit) => Sound(aps, mem)
  BY FirstSound
<1>2. Sound(aps, mem) /\ [ProgramsNext]_programVars => Sound(aps, mem)'
  <2>1. ASSUME Sound(aps, mem), Options PROVE Sound(aps, mem)'
    BY <2>1, OptionStep
  <2>2. ASSUME Sound(aps, mem), UNCHANGED <<aps, mem>> PROVE Sound(aps, mem)'
    BY <2>2
  <2> QED BY <2>1, <2>2, CallsKeepApplies DEF ProgramsNext, programVars
<1> QED BY <1>1, <1>2, PTL DEF ProgramsSpec

\* An option given to one Apply takes nothing from the others, but for the
\* injectors and patches that are right behind its own in a shared array.
THEOREM OptionsAreKept == ProgramsSpec => OptionsStay
<1>1. Sound(aps, mem) /\ [ProgramsNext]_programVars => [OptionsLeft]_<<aps, mem>>
  BY OptionStep, CallsKeepApplies DEF ProgramsNext, programVars
<1> QED BY <1>1, AppliesSound, PTL DEF ProgramsSpec, OptionsStay, OptionsLeft

-----------------------------------------------------------------------------
(* Owners. *)

\* The first separator of s is at n; p and q are what is before and after it.
FirstAt(s, sep, n) == n \in 1 .. Len(s) /\ s[n] = sep /\ \A i \in 1 .. n - 1 : s[i] # sep
Around(S, s, n, p, q) ==
    /\ p \in Seq(S) /\ q \in Seq(S) /\ Len(p) = n - 1 /\ Len(q) = Len(s) - n
    /\ \A i \in 1 .. n - 1 : p[i] = s[i]
    /\ \A i \in 1 .. Len(s) - n : q[i] = s[n + i]

\* strings.SplitN cuts at the first separator.
LEMMA CutAtFirst ==
    ASSUME NEW S, NEW s \in Seq(S), NEW sep, NEW n, FirstAt(s, sep, n)
    PROVE  \E p, q : Cut(s, sep) = <<p, q>> /\ Around(S, s, n, p, q)
<1>1. PICK l : l = Len(s)
  OBVIOUS
<1>2. l \in Nat /\ DOMAIN s = 1 .. l /\ n \in 1 .. l /\ s[n] = sep /\ \A i \in 1 .. n - 1 : s[i] # sep
  BY <1>1, LenProperties DEF FirstAt
<1>3. PICK cut : cut = {i \in DOMAIN s : s[i] = sep}
  OBVIOUS
<1>4. n \in cut /\ \A i \in cut : i \in Nat /\ n <= i
  BY <1>2, <1>3
<1>5. \A x \in cut : (\A y \in cut : x <= y) => x = n
  BY <1>4
<1>6. SetX!Min(cut) = n
  BY <1>4, <1>5 DEF SetX!Min
<1>7. PICK p : p = SubSeq(s, 1, n - 1)
  OBVIOUS
<1>8. PICK q : q = SubSeq(s, n + 1, l)
  OBVIOUS
<1>9. Cut(s, sep) = <<p, q>>
  BY <1>1, <1>3, <1>4, <1>6, <1>7, <1>8 DEF Cut
<1>10. p \in Seq(S) /\ Len(p) = n - 1 /\ \A i \in 1 .. n - 1 : p[i] = s[i]
  BY <1>1, <1>2, <1>7
<1>11. q \in Seq(S) /\ Len(q) = l - n /\ \A i \in 1 .. l - n : q[i] = s[n + i]
  BY <1>1, <1>2, <1>8
<1> QED BY <1>1, <1>9, <1>10, <1>11 DEF Around

\* Short sequences are tuples.
LEMMA ShortSeqs ==
    ASSUME NEW S, NEW s \in Seq(S)
    PROVE  /\ Len(s) = 0 => s = <<>>
           /\ Len(s) = 1 => s = <<s[1]>>
           /\ Len(s) = 2 => s = <<s[1], s[2]>>
           /\ Len(s) = 3 => s = <<s[1], s[2], s[3]>>
           /\ Len(s) = 5 => s = <<s[1], s[2], s[3], s[4], s[5]>>
<1>1. PICK n \in Nat : s \in [1 .. n -> S] /\ n = Len(s)
  BY SeqDef, LenProperties
<1>2. ASSUME n = 0 PROVE s = <<>>
  BY <1>1, <1>2
<1>3. ASSUME n = 1 PROVE s = <<s[1]>>
  BY <1>1, <1>3
<1>4. ASSUME n = 2 PROVE s = <<s[1], s[2]>>
  BY <1>1, <1>4
<1>5. ASSUME n = 3 PROVE s = <<s[1], s[2], s[3]>>
  BY <1>1, <1>5
<1>6. ASSUME n = 5 PROVE s = <<s[1], s[2], s[3], s[4], s[5]>>
  BY <1>1, <1>6
<1> QED BY <1>1, <1>2, <1>3, <1>4, <1>5, <1>6

\* The GVK that getGVK makes of a GVK's string is that GVK.
LEMMA GVKRoundTrip ==
    ASSUME NEW g \in DOMAIN APIs
    PROVE  getGVK(gvkString(g)) = g /\ gvkString(g) # <<>>
<1>1. PICK x, y, z, sl, ki : x = g[1] /\ y = g[2] /\ z = g[3] /\ sl = "/" /\ ki = ", Kind="
  OBVIOUS
<1>2. g = <<x, y, z>> /\ x # sl /\ y # sl /\ x # ki /\ y # ki
  BY <1>1, ProgramsAssumption
<1>3. sl # ki
  BY <1>1
<1>4. PICK s : s = gvkString(g)
  OBVIOUS
<1>5. ASSUME NEW p, NEW first, Cut(s, ki) = <<p, <<z>>>>, Cut(p, sl) = <<first, <<y>>>>
      PROVE  getGVK(s) = <<IF first = <<>> THEN NoString ELSE first[1], y, z>>
  <2>1. PICK parts, gv : parts = Cut(s, ki) /\ gv = Split(p, sl)
    OBVIOUS
  <2>2. gv = <<first, <<y>>>>
    BY <1>5, <2>1 DEF Split
  <2>3. Len(parts) = 2 /\ parts[1] = p /\ parts[2] = <<z>>
    BY <1>5, <2>1
  <2>4. getGVK(s) = <<IF gv[1] = <<>> THEN NoString ELSE gv[1][1], gv[2][1], parts[2][1]>>
    BY <1>1, <2>1, <2>3, Zenon DEF getGVK
  <2> QED BY <2>2, <2>3, <2>4
<1>6. CASE x = NoString
  <2>1. s = <<sl, y, ki, z>>
    <3>1. Str1(x) = <<>>
      BY <1>6 DEF Str1
    <3>2. s = <<>> \o <<sl, y, ki, z>>
      BY <1>1, <1>4, <3>1 DEF gvkString
    <3> QED BY <3>2
  <2>2. PICK T : T = {sl, y, ki, z}
    OBVIOUS
  <2>3. s \in Seq(T) /\ Len(s) = 4 /\ s[1] = sl /\ s[2] = y /\ s[3] = ki /\ s[4] = z
    BY <2>1, <2>2
  <2>4. PICK n : n = 3
    OBVIOUS
  <2>5. FirstAt(s, ki, n)
    BY <1>2, <1>3, <2>3, <2>4 DEF FirstAt
  <2>6. PICK p, q : Cut(s, ki) = <<p, q>> /\ Around(T, s, n, p, q)
    BY <2>3, <2>5, CutAtFirst
  <2>7. Len(q) = 1 /\ q[1] = z /\ Len(p) = 2 /\ p[1] = sl /\ p[2] = y
    BY <2>3, <2>4, <2>6 DEF Around
  <2>8. q = <<z>>
    BY <2>6, <2>7, ShortSeqs DEF Around
  <2>9. PICK k : k = 1
    OBVIOUS
  <2>10. FirstAt(p, sl, k)
    BY <2>7, <2>9 DEF FirstAt
  <2>11. PICK b, c : Cut(p, sl) = <<b, c>> /\ Around(T, p, k, b, c)
    BY <2>6, <2>10, CutAtFirst DEF Around
  <2>12. Len(b) = 0 /\ Len(c) = 1 /\ c[1] = y
    BY <2>7, <2>9, <2>11 DEF Around
  <2>13. b = <<>> /\ c = <<y>>
    BY <2>11, <2>12, ShortSeqs DEF Around
  <2>14. getGVK(s) = <<NoString, y, z>>
    BY <1>5, <2>6, <2>8, <2>11, <2>13
  <2>15. s # <<>>
    BY <2>3, SMTT(40)
  <2> QED BY <1>2, <1>4, <1>6, <2>14, <2>15
<1>7. CASE x # NoString
  <2>1. s = <<x>> \o <<sl, y, ki, z>>
    <3>1. Str1(x) = <<x>>
      BY <1>7 DEF Str1
    <3> QED BY <1>1, <1>4, <3>1 DEF gvkString
  <2>2. PICK T : T = {x, sl, y, ki, z}
    OBVIOUS
  <2>3. /\ s \in Seq(T) /\ Len(s) = 5 /\ s[1] = x /\ s[2] = sl /\ s[3] = y
        /\ s[4] = ki /\ s[5] = z
    <3>1. PICK u, v : u = <<x>> /\ v = <<sl, y, ki, z>>
      OBVIOUS
    <3>2. /\ u \in Seq(T) /\ v \in Seq(T) /\ Len(u) = 1 /\ Len(v) = 4
          /\ u[1] = x /\ v[1] = sl /\ v[2] = y /\ v[3] = ki /\ v[4] = z
      BY <2>2, <3>1
    <3>3. s = u \o v
      BY <2>1, <3>1
    <3>4. u \in Seq(T) /\ v \in Seq(T)
      BY <3>2
    <3>5. /\ s \in Seq(T) /\ Len(s) = Len(u) + Len(v)
          /\ \A i \in 1 .. Len(u) + Len(v) : s[i] = IF i <= Len(u) THEN u[i] ELSE v[i - Len(u)]
      BY <3>3, <3>4, ConcatProperties
    <3> QED BY <3>2, <3>5
  <2>4. PICK n : n = 4
    OBVIOUS
  <2>5. FirstAt(s, ki, n)
    BY <1>2, <1>3, <2>3, <2>4 DEF FirstAt
  <2>6. PICK p, q : Cut(s, ki) = <<p, q>> /\ Around(T, s, n, p, q)
    BY <2>3, <2>5, CutAtFirst
  <2>7. Len(q) = 1 /\ q[1] = z /\ Len(p) = 3 /\ p[1] = x /\ p[2] = sl /\ p[3] = y
    BY <2>3, <2>4, <2>6 DEF Around
  <2>8. q = <<z>>
    BY <2>6, <2>7, ShortSeqs DEF Around
  <2>9. PICK k : k = 2
    OBVIOUS
  <2>10. FirstAt(p, sl, k)
    BY <1>2, <2>7, <2>9 DEF FirstAt
  <2>11. PICK b, c : Cut(p, sl) = <<b, c>> /\ Around(T, p, k, b, c)
    BY <2>6, <2>10, CutAtFirst DEF Around
  <2>12. Len(b) = 1 /\ b[1] = x /\ Len(c) = 1 /\ c[1] = y
    BY <2>7, <2>9, <2>11 DEF Around
  <2>13. b = <<x>> /\ c = <<y>>
    BY <2>11, <2>12, ShortSeqs DEF Around
  <2>14. b # <<>> /\ s # <<>>
    BY <2>3, <2>12
  <2>15. getGVK(s) = <<IF b = <<>> THEN NoString ELSE b[1], y, z>>
    BY <1>5, <2>6, <2>8, <2>11, <2>13
  <2>16. getGVK(s) = <<x, y, z>>
    BY <2>12, <2>14, <2>15
  <2> QED BY <1>2, <1>4, <2>14, <2>16
<1> QED BY <1>6, <1>7

\* PurgeOrphan, with any Apply, leaves an object alone or fails if the owner
\* that its annotations name is of a GVK that is served, and is in the API
\* server and in the informers.
LEMMA OwnerFound ==
    ASSUME NEW a, NEW h, NEW k, NEW ob, NEW st, NEW sn, NEW g \in DOMAIN APIs,
           ob.ann.gvk = gvkString(g),
           <<Group(g), <<ob.ann.namespace, ob.ann.name>>>> \in DOMAIN st \cap DOMAIN sn
    PROVE  LET r == PurgeOrphan(a, h, k, ob, st, sn) IN r.err \/ r.store = st
<1>1. getGVK(ob.ann.gvk) = g /\ ob.ann.gvk # <<>>
  BY GVKRoundTrip
<1>2. PICK c : c = getControllerAndClient(a, g)
  OBVIOUS
<1>3. c.notFound = FALSE
  BY <1>2 DEF getControllerAndClient
<1>4. PICK key : key = <<Group(g), <<ob.ann.namespace, ob.ann.name>>>>
  OBVIOUS
<1>5. key \in DOMAIN (IF c.informer THEN sn ELSE st)
  BY <1>4
<1>6. PICK f : f = FindOwner(a, ob, st, sn)
  OBVIOUS
<1>7. f.err \in {"nil", "error"}
  BY <1>1, <1>2, <1>3, <1>4, <1>5, <1>6 DEF FindOwner
<1> QED BY <1>6, <1>7 DEF PurgeOrphan

-----------------------------------------------------------------------------
(* Keys of owners. *)

\* WithOwnerKey takes a name, or a namespace and a name.
LEMMA KeySplit == ASSUME NEW s, NEW sep PROVE IsKey(RSplit(s, sep))
<1>1. PICK c : c = Cut(s, sep)
  OBVIOUS
<1>2. (\E x : c = <<x>>) \/ (\E x, y : c = <<x, y>>)
  BY <1>1 DEF Cut
<1>3. IsKey(IF Len(c) = 1 THEN <<<<>>, s>> ELSE c)
  <2>1. CASE \E x : c = <<x>>
    BY <2>1 DEF IsKey
  <2>2. CASE \E x, y : c = <<x, y>>
    BY <2>2 DEF IsKey
  <2> QED BY <1>2, <2>1, <2>2
<1> QED BY <1>1, <1>3 DEF RSplit

\* An Apply whose owner has a key.
Owned(a) ==
    /\ a = [o |-> a.o, mem |-> a.mem] /\ DOMAIN a.o = DOMAIN newDesiredSet
    /\ IsKey(a.o.owner.key)

\* Options other than WithOwner keep the owner.
LEMMA OtherField ==
    ASSUME NEW a, Owned(a), NEW m, NEW field, field # "owner", NEW v
    PROVE  Owned([o |-> [a.o EXCEPT ![field] = v], mem |-> m])
<1>1. PICK p, q : p = a.o /\ q = [p EXCEPT ![field] = v]
  OBVIOUS
<1>2. "owner" \in DOMAIN p /\ DOMAIN p = DOMAIN newDesiredSet
  BY <1>1 DEF newDesiredSet, Owned
<1>3. q.owner = p.owner /\ DOMAIN q = DOMAIN newDesiredSet
  BY <1>1, <1>2
<1>4. Owned([o |-> q, mem |-> m])
  BY <1>1, <1>3 DEF Owned
<1> QED BY <1>1, <1>4

\* The same of an Apply that is written as an update of another one.
LEMMA OtherUpdate ==
    ASSUME NEW a, Owned(a), NEW field, field # "owner", NEW v
    PROVE  Owned([a EXCEPT !.o[field] = v])
<1>1. PICK p, m : p = a.o /\ m = a.mem
  OBVIOUS
<1>2. a = [o |-> p, mem |-> m]
  BY <1>1 DEF Owned
<1>3. [a EXCEPT !.o[field] = v] = [o |-> [p EXCEPT ![field] = v], mem |-> m]
  BY <1>2
<1>4. Owned([o |-> [a.o EXCEPT ![field] = v], mem |-> m])
  BY OtherField
<1> QED BY <1>1, <1>3, <1>4

\* WithOwner gives an owner with a key.
LEMMA OwnerUpdate ==
    ASSUME NEW a, Owned(a), NEW w, IsKey(w.key)
    PROVE  Owned(WithOwner(a, w))
<1>1. PICK p, q, m : p = a.o /\ m = a.mem /\ q = [p EXCEPT !.owner = w]
  OBVIOUS
<1>2. a = [o |-> p, mem |-> m] /\ "owner" \in DOMAIN p /\ DOMAIN p = DOMAIN newDesiredSet
  BY <1>1 DEF newDesiredSet, Owned
<1>3. q.owner = w /\ DOMAIN q = DOMAIN newDesiredSet
  BY <1>1, <1>2
<1>4. WithOwner(a, w) = [o |-> q, mem |-> m]
  BY <1>1, <1>2 DEF WithOwner
<1> QED BY <1>3, <1>4 DEF Owned

\* The options that are fields.
LEMMA FieldsOwned ==
    ASSUME NEW a, Owned(a), NEW x
    PROVE  /\ Owned(WithSetID(a, x)) /\ Owned(WithSetOwnerReference(a))
           /\ Owned(WithCacheTypeFactory(a)) /\ Owned(WithIgnorePreviousApplied(a))
           /\ Owned(WithStrictCaching(a)) /\ Owned(WithDynamicLookup(a))
           /\ Owned(WithRestrictClusterScoped(a)) /\ Owned(WithDefaultNamespace(a, x))
           /\ Owned(WithListerNamespace(a, x)) /\ Owned(WithRateLimiting(a, x))
           /\ Owned(WithNoDelete(a))
<1>1. ASSUME NEW field, field # "owner", NEW v
      PROVE  Owned([a EXCEPT !.o[field] = v])
  BY <1>1, OtherUpdate
<1>2. Owned(WithSetID(a, x)) /\ Owned(WithSetOwnerReference(a)) /\ Owned(WithCacheTypeFactory(a))
  BY <1>1 DEF WithSetID, WithSetOwnerReference, WithCacheTypeFactory
<1>3. Owned(WithIgnorePreviousApplied(a)) /\ Owned(WithStrictCaching(a)) /\ Owned(WithDynamicLookup(a))
  BY <1>1 DEF WithIgnorePreviousApplied, WithStrictCaching, WithDynamicLookup
<1>4. Owned(WithRestrictClusterScoped(a)) /\ Owned(WithDefaultNamespace(a, x))
  BY <1>1 DEF WithRestrictClusterScoped, WithDefaultNamespace
<1>5. Owned(WithListerNamespace(a, x)) /\ Owned(WithRateLimiting(a, x)) /\ Owned(WithNoDelete(a))
  BY <1>1 DEF WithListerNamespace, WithRateLimiting, WithNoDelete
<1> QED BY <1>2, <1>3, <1>4, <1>5

\* What a generating handler makes of its Apply.
LEMMA ConfiguredOwned ==
    ASSUME NEW a, Owned(a), NEW ns, NEW opts
    PROVE  Owned(ConfigureApplyForObject(a, ns, opts))
<1>1. PICK dynamic : dynamic = IF "DynamicLookup" \in opts THEN WithDynamicLookup(a) ELSE a
  OBVIOUS
<1>2. Owned(dynamic)
  BY <1>1, FieldsOwned
<1>3. PICK owned : owned = IF "NoOwnerReference" \in opts THEN WithSetOwnerReference(dynamic) ELSE dynamic
  OBVIOUS
<1>4. Owned(owned)
  BY <1>2, <1>3, FieldsOwned
<1>5. PICK default : default = WithDefaultNamespace(owned, ns)
  OBVIOUS
<1>6. Owned(default)
  BY <1>4, <1>5, FieldsOwned
<1>7. PICK within : within = IF "AllowCrossNamespace" \in opts /\ "AllowClusterScoped" \notin opts
                             THEN WithListerNamespace(default, ns) ELSE owned
  OBVIOUS
<1>8. Owned(within)
  BY <1>4, <1>6, <1>7, FieldsOwned
<1>9. Owned(WithRestrictClusterScoped(within))
  BY <1>8, FieldsOwned
<1> QED BY <1>1, <1>3, <1>5, <1>7, <1>8, <1>9 DEF ConfigureApplyForObject

\* The options that write into memory.
LEMMA WritersOwned ==
    ASSUME NEW a, Owned(a), NEW x, NEW y, NEW z
    PROVE  /\ Owned(WithInjector(a, x)) /\ Owned(WithInjectorName(a, x))
           /\ Owned(WithGVK(a, x)) /\ Owned(WithCacheTypes(a, x)) /\ Owned(WithNoDeleteGVK(a, x))
           /\ Owned(WithPatcher(a, x, y)) /\ Owned(WithReconciler(a, x, y))
           /\ Owned(WithDiffPatch(a, x, y, z))
<1>1. ASSUME NEW b, Owned(b), NEW field, field # "owner", NEW k, NEW v
      PROVE  Owned(Copied(b, field, k, v))
  BY <1>1, OtherField DEF Copied
<1>2. ASSUME NEW field, field # "owner"
      PROVE  Owned(AppendTo(a, field, x))
  BY <1>2, OtherField DEF AppendTo
<1>3. ASSUME NEW m PROVE Owned([a EXCEPT !.mem = m])
  BY DEF Owned
<1>4. Owned(WithInjector(a, x)) /\ Owned(WithInjectorName(a, x))
  BY <1>2 DEF WithInjector, WithInjectorName
<1>5. Owned(WithGVK(a, x)) /\ Owned(WithCacheTypes(a, x))
  BY <1>1 DEF WithGVK, WithCacheTypes
<1>6. Owned(WithPatcher(a, x, y)) /\ Owned(WithReconciler(a, x, y))
  BY <1>1 DEF WithPatcher, WithReconciler
<1>7. Owned(WithNoDeleteGVK(a, x))
  <2>1. Owned(Copied(a, "noDeleteGVK", x, NoString))
    BY <1>1
  <2>2. PICK r : r = [a EXCEPT !.mem[a.o.noDeleteGVK].map = Entry(@, x, NoString)]
    OBVIOUS
  <2>3. Owned(r)
    BY <2>2 DEF Owned
  <2> QED BY <2>1, <2>2, <2>3 DEF WithNoDeleteGVK, Shared
<1>8. Owned(WithDiffPatch(a, x, y, z))
  <2>1. PICK ps : ps = Cell(a.mem, a.o.diffPatches)
    OBVIOUS
  <2>2. PICK r : r = appended(a.mem, IF <<x, y>> \in DOMAIN ps THEN ps[<<x, y>>] ELSE NoSlice, z)
    OBVIOUS
  <2>3. PICK b : b = [a EXCEPT !.mem = r.mem]
    OBVIOUS
  <2>4. Owned(Copied(b, "diffPatches", <<x, y>>, r.s))
    BY <1>1, <1>3, <2>3
  <2> QED BY <2>1, <2>2, <2>3, <2>4 DEF WithDiffPatch
<1> QED BY <1>4, <1>5, <1>6, <1>7, <1>8

\* Every option of a program.
LEMMA DerivesOwned ==
    ASSUME NEW n \in DOMAIN aps, DOMAIN aps[n] = DOMAIN newDesiredSet, IsKey(aps[n].owner.key), Derives(n)
    PROVE  \E r : Owned(r) /\ Derive(r)
<1>1. PICK a : a = Ap(n)
  OBVIOUS
<1>2. Owned(a)
  BY <1>1 DEF Ap, Owned
<1>3. \A k \in OwnerKeys : \A g : Owned(WithOwner(a, [gvk |-> g, key |-> k[2], uid |-> "u"]))
  BY <1>2, OwnerUpdate, ProgramsAssumption
<1>4. \A k, g : Owned(WithOwnerKey(a, k, g))
  <2>1. ASSUME NEW k, NEW g PROVE Owned(WithOwnerKey(a, k, g))
    <3>1. PICK w : w = [gvk |-> g, key |-> RSplit(k, "/"), uid |-> NoString]
      OBVIOUS
    <3>2. IsKey(w.key)
      BY <3>1, KeySplit
    <3> QED BY <1>2, <3>1, <3>2, OwnerUpdate DEF WithOwnerKey
  <2> QED BY <2>1
<1>5. \A x : /\ Owned(WithSetID(a, x)) /\ Owned(WithSetOwnerReference(a))
             /\ Owned(WithCacheTypeFactory(a)) /\ Owned(WithIgnorePreviousApplied(a))
             /\ Owned(WithStrictCaching(a)) /\ Owned(WithDynamicLookup(a))
             /\ Owned(WithRestrictClusterScoped(a)) /\ Owned(WithDefaultNamespace(a, x))
             /\ Owned(WithListerNamespace(a, x)) /\ Owned(WithRateLimiting(a, x))
             /\ Owned(WithNoDelete(a))
  BY <1>2, FieldsOwned
<1>6. \A x, y : Owned(ConfigureApplyForObject(a, x, y))
  BY <1>2, ConfiguredOwned
<1>7. \A x, y, z : /\ Owned(WithInjector(a, x)) /\ Owned(WithInjectorName(a, x))
                   /\ Owned(WithGVK(a, x)) /\ Owned(WithCacheTypes(a, x))
                   /\ Owned(WithNoDeleteGVK(a, x)) /\ Owned(WithPatcher(a, x, y))
                   /\ Owned(WithReconciler(a, x, y)) /\ Owned(WithDiffPatch(a, x, y, z))
  BY <1>2, WritersOwned
<1> QED BY <1>1, <1>3, <1>4, <1>5, <1>6, <1>7 DEF Derives

\* Every Apply of a program has an owner with a key, or none.
OwnersKeyed == \A n \in DOMAIN aps : IsKey(aps[n].owner.key)

\* Options give owners with keys only.
LEMMA AppliesKeyed == ProgramsSpec => []OwnersKeyed
<1>1. ASSUME ProgramsInit, OptionsInit \/ CallsInit PROVE OwnersKeyed
  <2>1. CASE CallsInit
    BY <2>1, ProgramsAssumption DEF CallsInit, OwnersKeyed
  <2>2. CASE OptionsInit
    <3>1. PICK o : o = newDesiredSet
      OBVIOUS
    <3>2. DOMAIN o = DOMAIN newDesiredSet /\ IsKey(o.owner.key)
      BY <3>1 DEF newDesiredSet, NoOwner, IsKey
    <3>3. Owned(Base)
      BY <3>1, <3>2 DEF Base, Owned
    <3>4. PICK b : b = WithInjector(Base, "same")
      OBVIOUS
    <3>5. PICK c : c = WithInjector(b, "same")
      OBVIOUS
    <3>6. PICK d : d = WithInjector(c, "same")
      OBVIOUS
    <3>7. Owned(b)
      BY <3>3, <3>4, WritersOwned
    <3>8. Owned(c)
      BY <3>5, <3>7, WritersOwned
    <3>9. Owned(d)
      BY <3>6, <3>8, WritersOwned
    <3>10. aps = <<o, d.o>>
      BY <2>2, <3>1, <3>4, <3>5, <3>6 DEF OptionsInit
    <3>11. IsKey(d.o.owner.key)
      BY <3>9 DEF Owned
    <3>12. \A n \in DOMAIN aps : aps[n] = o \/ aps[n] = d.o
      BY <3>10
    <3> QED BY <3>2, <3>11, <3>12 DEF OwnersKeyed
  <2> QED BY <1>1, <2>1, <2>2
<1>2. ASSUME Sound(aps, mem), OwnersKeyed, [ProgramsNext]_programVars PROVE OwnersKeyed'
  <2>1. CASE Options
    <3>1. PICK n \in DOMAIN aps : Derives(n)
      BY <2>1 DEF Options
    <3>2. DOMAIN aps[n] = DOMAIN newDesiredSet /\ IsKey(aps[n].owner.key)
      BY <1>2, SoundIsGood DEF Good, OwnersKeyed
    <3>3. PICK r : Owned(r) /\ Derive(r)
      BY <3>1, <3>2, DerivesOwned
    <3>4. PICK as, p : as = aps /\ p = r.o
      OBVIOUS
    <3>5. aps' = Append(as, p) /\ IsKey(p.owner.key)
      BY <3>3, <3>4 DEF Derive, Owned
    <3>6. IsSeq(as)
      BY <1>2, <3>4 DEF Sound
    <3>7. Len(as) \in Nat /\ DOMAIN as = 1 .. Len(as)
      BY <3>6, IsSeqProperties
    <3>8. PICK q : q = Append(as, p)
      OBVIOUS
    <3>9. /\ DOMAIN q = 1 .. Len(as) + 1 /\ q[Len(as) + 1] = p
          /\ \A i \in 1 .. Len(as) : q[i] = as[i]
      BY <3>6, <3>8, Appended, ZenonT(60)
    <3>10. \A i \in DOMAIN q : q[i] = p \/ (i \in DOMAIN as /\ q[i] = as[i])
      <4>1. PICK l : l = Len(as)
        OBVIOUS
      <4>2. l \in Nat
        BY <3>7, <4>1
      <4>3. \A i \in 1 .. l + 1 : i \in 1 .. l \/ i = l + 1
        BY <4>2
      <4> QED BY <3>7, <3>9, <4>1, <4>3
    <3> QED BY <1>2, <3>4, <3>5, <3>8, <3>10 DEF OwnersKeyed
  <2>2. CASE UNCHANGED <<aps, mem>>
    BY <1>2, <2>2 DEF OwnersKeyed
  <2> QED BY <1>2, <2>1, <2>2, CallsKeepApplies DEF ProgramsNext, programVars
<1> QED BY <1>1, <1>2, AppliesSound, PTL DEF ProgramsSpec

\* PurgeOrphan found no owner of what it deleted, whichever Apply the object's
\* annotations are of.
PurgedHadNoOwner ==
    last.op = "PurgeOrphan" /\ last.what \in DOMAIN last.before \ DOMAIN store =>
        \A g \in DOMAIN APIs :
            LET ann == last.seen[last.what].ann IN
            ann.gvk = gvkString(g) =>
                <<Group(g), <<ann.namespace, ann.name>>>> \notin DOMAIN last.before \cap DOMAIN last.seen

\* A call of PurgeOrphan.
LEMMA PurgeFindsOwner ==
    ASSUME NEW n, Purge(n)
    PROVE  PurgedHadNoOwner'
<1>1. PICK k \in DOMAIN seen, h \in DOMAIN APIs :
        \E r \in {PurgeOrphan(Ap(n), h, k[2], seen[k], store, seen)} :
            Did("PurgeOrphan", n, k, r) /\ store' = r.store
  BY DEF Purge
<1>2. PICK r : /\ r = PurgeOrphan(Ap(n), h, k[2], seen[k], store, seen)
               /\ Did("PurgeOrphan", n, k, r) /\ store' = r.store
  BY <1>1
<1>3. CASE r.err
  <2>1. last' = NoLast
    BY <1>2, <1>3 DEF Did
  <2>2. last'.op # "PurgeOrphan"
    BY <2>1 DEF NoLast
  <2> QED BY <2>2 DEF PurgedHadNoOwner
<1>4. CASE ~r.err
  <2>1. last' = [op |-> "PurgeOrphan", a |-> Ap(n), what |-> k, before |-> store, seen |-> seen]
    BY <1>2, <1>4 DEF Did
  <2>2. last'.what = k /\ last'.before = store /\ last'.seen = seen
    BY <2>1
  <2>3. ASSUME NEW g \in DOMAIN APIs, seen[k].ann.gvk = gvkString(g),
               <<Group(g), <<seen[k].ann.namespace, seen[k].ann.name>>>> \in DOMAIN store \cap DOMAIN seen
        PROVE  r.store = store
    <3>1. PICK a, key, ob, st, sn : /\ a = Ap(n) /\ key = k[2] /\ ob = seen[k]
                                     /\ st = store /\ sn = seen
      OBVIOUS
    <3>2. r = PurgeOrphan(a, h, key, ob, st, sn)
      BY <1>2, <3>1
    <3>3. /\ ob.ann.gvk = gvkString(g)
          /\ <<Group(g), <<ob.ann.namespace, ob.ann.name>>>> \in DOMAIN st \cap DOMAIN sn
      BY <2>3, <3>1
    <3>4. r.err \/ r.store = st
      BY <3>2, <3>3, OwnerFound
    <3> QED BY <1>4, <3>1, <3>4
  <2>4. store' = r.store
    BY <1>2
  <2> QED BY <2>2, <2>3, <2>4 DEF PurgedHadNoOwner
<1> QED BY <1>3, <1>4

\* Every other step forgets the last call, or is another one, or leaves the
\* objects alone.
LEMMA OwnersStayFound == ProgramsSpec => []PurgedHadNoOwner
<1>1. ProgramsInit => PurgedHadNoOwner
  BY DEF ProgramsInit, NoLast, PurgedHadNoOwner
<1>2. ASSUME PurgedHadNoOwner, [ProgramsNext]_programVars PROVE PurgedHadNoOwner'
  <2>1. ASSUME last'.op # "PurgeOrphan" PROVE PurgedHadNoOwner'
    BY <2>1 DEF PurgedHadNoOwner
  <2>2. ASSUME last' = NoLast PROVE PurgedHadNoOwner'
    BY <2>1, <2>2 DEF NoLast
  <2>3. ASSUME UNCHANGED <<store, last>> PROVE PurgedHadNoOwner'
    BY <1>2, <2>3 DEF PurgedHadNoOwner
  <2>4. CASE Options
    <3>1. PICK n \in DOMAIN aps : Derives(n)
      BY <2>4 DEF Options
    <3>2. \E r : Derive(r)
      BY <3>1 DEF Derives
    <3>3. UNCHANGED <<store, last>>
      BY <3>2 DEF Derive
    <3> QED BY <2>3, <3>3
  <2>5. ASSUME NEW n, Apply(n) PROVE PurgedHadNoOwner'
    <3>1. PICK objs, r : Did("Apply", n, objs, r)
      BY <2>5 DEF Apply
    <3>2. last' = NoLast \/ last'.op = "Apply"
      BY <3>1 DEF Did
    <3>3. CASE last'.op = "Apply"
      BY <2>1, <3>3
    <3> QED BY <2>2, <3>2, <3>3
  <2>6. ASSUME NEW n, DryRun(n) PROVE PurgedHadNoOwner'
    BY <2>2, <2>6 DEF DryRun
  <2>7. CASE Owner
    BY <2>2, <2>7 DEF Owner
  <2>8. CASE Sync
    BY <2>2, <2>8 DEF Sync
  <2>9. CASE UNCHANGED programVars
    BY <2>3, <2>9 DEF programVars
  <2> QED BY <1>2, <2>4, <2>5, <2>6, <2>7, <2>8, <2>9, PurgeFindsOwner DEF ProgramsNext, Calls
<1> QED BY <1>1, <1>2, PTL DEF ProgramsSpec

\* PurgeOrphan deletes no object whose owner is in the API server and in the
\* informers, whichever Apply made the object and whichever one purges it.
THEOREM OwnedAreSpared == ProgramsSpec => []PurgeSpares
<1>1. ASSUME OwnersKeyed, PurgedHadNoOwner PROVE PurgeSpares
  <2>1. SUFFICES ASSUME last.op = "PurgeOrphan", last.what \in DOMAIN last.before \ DOMAIN store,
                        NEW n \in DOMAIN aps,
                        aps[n].owner # NoOwner, aps[n].owner.gvk \in DOMAIN APIs,
                        last.seen[last.what].ann = Annotations(aps[n])
                 PROVE  <<Group(aps[n].owner.gvk), aps[n].owner.key>>
                            \notin DOMAIN last.before \cap DOMAIN last.seen
    BY DEF PurgeSpares
  <2>2. PICK o, g, key, ann : /\ o = aps[n] /\ g = o.owner.gvk /\ key = o.owner.key
                              /\ ann = last.seen[last.what].ann
    OBVIOUS
  <2>3. /\ ann.gvk = gvkString(g) /\ ann.namespace = key[1] /\ ann.name = key[2]
    BY <2>1, <2>2 DEF Annotations
  <2>4. key = <<key[1], key[2]>>
    BY <1>1, <2>2 DEF OwnersKeyed, IsKey
  <2>5. <<Group(g), <<ann.namespace, ann.name>>>> \notin DOMAIN last.before \cap DOMAIN last.seen
    BY <1>1, <2>1, <2>2, <2>3 DEF PurgedHadNoOwner
  <2> QED BY <2>2, <2>3, <2>4, <2>5
<1> QED BY <1>1, AppliesKeyed, OwnersStayFound, PTL

-----------------------------------------------------------------------------
(* Loops *)

\* f has the object sets that the first n objects leave one after the other.
Filled(f, objs, n) ==
    f = [k \in 0 .. n |-> IF k = 0 THEN EmptySet ELSE add(f[k - 1], objs[k])]
\* There are such object sets, for any number of objects.
LEMMA FilledExists ==
    ASSUME NEW objs
    PROVE  \A n \in Nat : \E f : Filled(f, objs, n)
<1> DEFINE T == {n \in Nat : \E f : Filled(f, objs, n)}
<1>1. 0 \in T
  <2> DEFINE f == [k \in 0 .. 0 |-> EmptySet]
  <2>1. f = [k \in 0 .. 0 |-> IF k = 0 THEN EmptySet ELSE add(f[k - 1], objs[k])]
    OBVIOUS
  <2> HIDE DEF f
  <2> QED BY <2>1 DEF Filled
<1>2. ASSUME NEW n \in Nat, n \in T PROVE n + 1 \in T
  <2>1. PICK f : Filled(f, objs, n)
    BY <1>2
  <2> DEFINE x == add(f[n], objs[n + 1])
             g == [k \in 0 .. n + 1 |-> IF k = n + 1 THEN x ELSE f[k]]
             h == [k \in 0 .. n + 1 |-> IF k = 0 THEN EmptySet ELSE add(g[k - 1], objs[k])]
  <2>2. g[n + 1] = x /\ \A k \in 0 .. n : g[k] = f[k]
    OBVIOUS
  <2>3. ASSUME NEW k \in 0 .. n + 1 PROVE g[k] = h[k]
    <3>1. CASE k = n + 1
      <4>1. h[k] = add(g[n], objs[n + 1])
        BY <3>1
      <4>2. g[n] = f[n]
        BY <2>2
      <4> HIDE DEF g, h
      <4> QED BY <2>2, <3>1, <4>1, <4>2
    <3>2. CASE k \in 0 .. n
      <4>1. f[k] = IF k = 0 THEN EmptySet ELSE add(f[k - 1], objs[k])
        BY <2>1, <3>2 DEF Filled
      <4>2. h[k] = IF k = 0 THEN EmptySet ELSE add(g[k - 1], objs[k])
        OBVIOUS
      <4>3. k # 0 => k - 1 \in 0 .. n
        BY <3>2
      <4>4. g[k] = f[k] /\ (k # 0 => g[k - 1] = f[k - 1])
        BY <2>2, <3>2, <4>3
      <4> HIDE DEF g, h
      <4> QED BY <4>1, <4>2, <4>4
    <3> QED BY <3>1, <3>2
  <2>4. g = [k \in 0 .. n + 1 |-> g[k]] /\ h = [k \in 0 .. n + 1 |-> h[k]]
    OBVIOUS
  <2>5. g = h
    <3> HIDE DEF g, h
    <3> QED BY <2>3, <2>4
  <2> HIDE DEF g
  <2>6. Filled(g, objs, n + 1)
    BY <2>5 DEF Filled
  <2> QED BY <2>6
<1> HIDE DEF T
<1>3. \A n \in Nat : n \in T
  BY <1>1, <1>2, SetInduction
<1> QED BY <1>3 DEF T

\* NewObjectSet returns the last of them.
LEMMA FilledValue ==
    ASSUME NEW objs, Len(objs) \in Nat
    PROVE  \E f : /\ f[0] = EmptySet
                  /\ \A k \in 0 .. Len(objs) - 1 : f[k + 1] = add(f[k], objs[k + 1])
                  /\ NewObjectSet(objs) = f[Len(objs)]
<1> DEFINE n == Len(objs)
           F == CHOOSE f : Filled(f, objs, n)
<1>1. NewObjectSet(objs) = F[n]
  BY DEF NewObjectSet, Filled
<1>2. Filled(F, objs, n)
  BY FilledExists
<1> HIDE DEF F, n
<1>3. n \in Nat
  BY DEF n
<1>4. F[0] = EmptySet
  BY <1>2, <1>3 DEF Filled
<1>5. ASSUME NEW k \in 0 .. n - 1 PROVE F[k + 1] = add(F[k], objs[k + 1])
  <2>1. PICK j : j = k + 1
    OBVIOUS
  <2>2. j \in 0 .. n /\ j # 0 /\ j - 1 = k
    BY <1>3, <2>1
  <2>3. F[j] = add(F[j - 1], objs[j])
    BY <1>2, <2>2 DEF Filled
  <2> QED BY <2>1, <2>2, <2>3
<1> QED BY <1>1, <1>4, <1>5 DEF n

\* The next GVK in the order.
OneMore(os, known, s, g) == IF g \in known \ SeqX!Range(os.gvkOrder) THEN Append(s, g) ELSE s

\* f has the orders that the first n of all GVKs leave one after the other.
Ordered(f, os, known, n) ==
    f = [k \in 0 .. n |-> IF k = 0 THEN os.gvkOrder ELSE OneMore(os, known, f[k - 1], GVKSeq[k])]
\* There are such orders.
LEMMA OrderedExists ==
    ASSUME NEW os, NEW known
    PROVE  \A n \in Nat : \E f : Ordered(f, os, known, n)
<1> DEFINE T == {n \in Nat : \E f : Ordered(f, os, known, n)}
<1>1. 0 \in T
  <2> DEFINE f == [k \in 0 .. 0 |-> os.gvkOrder]
  <2>1. f = [k \in 0 .. 0 |-> IF k = 0 THEN os.gvkOrder ELSE OneMore(os, known, f[k - 1], GVKSeq[k])]
    OBVIOUS
  <2> HIDE DEF f
  <2> QED BY <2>1 DEF Ordered
<1>2. ASSUME NEW n \in Nat, n \in T PROVE n + 1 \in T
  <2>1. PICK f : Ordered(f, os, known, n)
    BY <1>2
  <2> DEFINE x == OneMore(os, known, f[n], GVKSeq[n + 1])
             g == [k \in 0 .. n + 1 |-> IF k = n + 1 THEN x ELSE f[k]]
             h == [k \in 0 .. n + 1 |-> IF k = 0 THEN os.gvkOrder ELSE OneMore(os, known, g[k - 1], GVKSeq[k])]
  <2>2. g[n + 1] = x /\ \A k \in 0 .. n : g[k] = f[k]
    OBVIOUS
  <2>3. ASSUME NEW k \in 0 .. n + 1 PROVE g[k] = h[k]
    <3>1. CASE k = n + 1
      <4>1. h[k] = OneMore(os, known, g[n], GVKSeq[n + 1])
        BY <3>1
      <4>2. g[n] = f[n]
        BY <2>2
      <4> HIDE DEF g, h
      <4> QED BY <2>2, <3>1, <4>1, <4>2
    <3>2. CASE k \in 0 .. n
      <4>1. f[k] = IF k = 0 THEN os.gvkOrder ELSE OneMore(os, known, f[k - 1], GVKSeq[k])
        BY <2>1, <3>2 DEF Ordered
      <4>2. h[k] = IF k = 0 THEN os.gvkOrder ELSE OneMore(os, known, g[k - 1], GVKSeq[k])
        OBVIOUS
      <4>3. k # 0 => k - 1 \in 0 .. n
        BY <3>2
      <4>4. g[k] = f[k] /\ (k # 0 => g[k - 1] = f[k - 1])
        BY <2>2, <3>2, <4>3
      <4> HIDE DEF g, h
      <4> QED BY <4>1, <4>2, <4>4
    <3> QED BY <3>1, <3>2
  <2>4. g = [k \in 0 .. n + 1 |-> g[k]] /\ h = [k \in 0 .. n + 1 |-> h[k]]
    OBVIOUS
  <2>5. g = h
    <3> HIDE DEF g, h
    <3> QED BY <2>3, <2>4
  <2> HIDE DEF g
  <2>6. Ordered(g, os, known, n + 1)
    BY <2>5 DEF Ordered
  <2> QED BY <2>6
<1> HIDE DEF T
<1>3. \A n \in Nat : n \in T
  BY <1>1, <1>2, SetInduction
<1> QED BY <1>3 DEF T

\* GVKOrder returns the last of them.
LEMMA OrderedValue ==
    ASSUME NEW os, NEW known, Len(GVKSeq) \in Nat
    PROVE  \E f : /\ f[0] = os.gvkOrder
                  /\ \A k \in 0 .. Len(GVKSeq) - 1 : f[k + 1] = OneMore(os, known, f[k], GVKSeq[k + 1])
                  /\ GVKOrder(os, known) = f[Len(GVKSeq)]
<1> DEFINE n == Len(GVKSeq)
           F == CHOOSE f : Ordered(f, os, known, n)
<1>1. GVKOrder(os, known) = F[n]
  BY DEF GVKOrder, OneMore, Ordered
<1>2. Ordered(F, os, known, n)
  BY OrderedExists
<1> HIDE DEF F, n
<1>3. n \in Nat
  BY DEF n
<1>4. F[0] = os.gvkOrder
  BY <1>2, <1>3 DEF Ordered
<1>5. ASSUME NEW k \in 0 .. n - 1 PROVE F[k + 1] = OneMore(os, known, F[k], GVKSeq[k + 1])
  <2>1. PICK j : j = k + 1
    OBVIOUS
  <2>2. j \in 0 .. n /\ j # 0 /\ j - 1 = k
    BY <1>3, <2>1
  <2>3. F[j] = OneMore(os, known, F[j - 1], GVKSeq[j])
    BY <1>2, <2>2 DEF Ordered
  <2> QED BY <2>1, <2>2, <2>3
<1> QED BY <1>1, <1>4, <1>5 DEF n

\* f has what is left after each of the first n GVKs.
Advanced(f, a, os, all, order, hash, sn, dry, r, n) ==
    f = [k \in 0 .. n |-> IF k = 0 THEN r ELSE process(a, os, all, hash, sn, dry, f[k - 1], order[k])]
\* There are such results.
LEMMA AdvancedExists ==
    ASSUME NEW a, NEW os, NEW all, NEW order, NEW hash, NEW sn, NEW dry, NEW r
    PROVE  \A n \in Nat : \E f : Advanced(f, a, os, all, order, hash, sn, dry, r, n)
<1> DEFINE T == {n \in Nat : \E f : Advanced(f, a, os, all, order, hash, sn, dry, r, n)}
<1>1. 0 \in T
  <2> DEFINE f == [k \in 0 .. 0 |-> r]
  <2>1. f = [k \in 0 .. 0 |-> IF k = 0 THEN r ELSE process(a, os, all, hash, sn, dry, f[k - 1], order[k])]
    OBVIOUS
  <2> HIDE DEF f
  <2> QED BY <2>1 DEF Advanced
<1>2. ASSUME NEW n \in Nat, n \in T PROVE n + 1 \in T
  <2>1. PICK f : Advanced(f, a, os, all, order, hash, sn, dry, r, n)
    BY <1>2
  <2> DEFINE x == process(a, os, all, hash, sn, dry, f[n], order[n + 1])
             g == [k \in 0 .. n + 1 |-> IF k = n + 1 THEN x ELSE f[k]]
             h == [k \in 0 .. n + 1 |-> IF k = 0 THEN r ELSE process(a, os, all, hash, sn, dry, g[k - 1], order[k])]
  <2>2. g[n + 1] = x /\ \A k \in 0 .. n : g[k] = f[k]
    OBVIOUS
  <2>3. ASSUME NEW k \in 0 .. n + 1 PROVE g[k] = h[k]
    <3>1. CASE k = n + 1
      <4>1. h[k] = process(a, os, all, hash, sn, dry, g[n], order[n + 1])
        BY <3>1
      <4>2. g[n] = f[n]
        BY <2>2
      <4> HIDE DEF g, h
      <4> QED BY <2>2, <3>1, <4>1, <4>2
    <3>2. CASE k \in 0 .. n
      <4>1. f[k] = IF k = 0 THEN r ELSE process(a, os, all, hash, sn, dry, f[k - 1], order[k])
        BY <2>1, <3>2 DEF Advanced
      <4>2. h[k] = IF k = 0 THEN r ELSE process(a, os, all, hash, sn, dry, g[k - 1], order[k])
        OBVIOUS
      <4>3. k # 0 => k - 1 \in 0 .. n
        BY <3>2
      <4>4. g[k] = f[k] /\ (k # 0 => g[k - 1] = f[k - 1])
        BY <2>2, <3>2, <4>3
      <4> HIDE DEF g, h
      <4> QED BY <4>1, <4>2, <4>4
    <3> QED BY <3>1, <3>2
  <2>4. g = [k \in 0 .. n + 1 |-> g[k]] /\ h = [k \in 0 .. n + 1 |-> h[k]]
    OBVIOUS
  <2>5. g = h
    <3> HIDE DEF g, h
    <3> QED BY <2>3, <2>4
  <2> HIDE DEF g
  <2>6. Advanced(g, a, os, all, order, hash, sn, dry, r, n + 1)
    BY <2>5 DEF Advanced
  <2> QED BY <2>6
<1> HIDE DEF T
<1>3. \A n \in Nat : n \in T
  BY <1>1, <1>2, SetInduction
<1> QED BY <1>3 DEF T

\* The GVKs of a call leave the last of them.
LEMMA AdvancedValue ==
    ASSUME NEW a, NEW os, NEW all, NEW order, NEW hash, NEW sn, NEW dry, NEW r, Len(order) \in Nat
    PROVE  \E f : /\ f[0] = r
                  /\ \A k \in 0 .. Len(order) - 1 : f[k + 1] = process(a, os, all, hash, sn, dry, f[k], order[k + 1])
                  /\ processAll(a, os, all, order, hash, sn, dry, r) = f[Len(order)]
<1> DEFINE n == Len(order)
           F == CHOOSE f : Advanced(f, a, os, all, order, hash, sn, dry, r, n)
<1>1. processAll(a, os, all, order, hash, sn, dry, r) = F[n]
  BY DEF processAll, Advanced
<1>2. Advanced(F, a, os, all, order, hash, sn, dry, r, n)
  BY AdvancedExists
<1> HIDE DEF F, n
<1>3. n \in Nat
  BY DEF n
<1>4. F[0] = r
  BY <1>2, <1>3 DEF Advanced
<1>5. ASSUME NEW k \in 0 .. n - 1 PROVE F[k + 1] = process(a, os, all, hash, sn, dry, F[k], order[k + 1])
  <2>1. PICK j : j = k + 1
    OBVIOUS
  <2>2. j \in 0 .. n /\ j # 0 /\ j - 1 = k
    BY <1>3, <2>1
  <2>3. F[j] = process(a, os, all, hash, sn, dry, F[j - 1], order[j])
    BY <1>2, <2>2 DEF Advanced
  <2> QED BY <2>1, <2>2, <2>3
<1> QED BY <1>1, <1>4, <1>5 DEF n

-----------------------------------------------------------------------------
(* Object sets *)

\* An object set knows the kind, the key and the place in the order of each of
\* its objects.
Indexed(os) ==
    /\ os = [objects |-> os.objects, gks |-> os.gks, gvkOrder |-> os.gvkOrder, err |-> os.err]
    /\ IsSeq(os.gvkOrder)
    /\ \A k \in DOMAIN os.objects :
          /\ k = <<k[1], k[2]>> /\ <<Group(k[1]), k[2]>> \in os.gks
          /\ \E i \in DOMAIN os.gvkOrder : os.gvkOrder[i] = k[1]

\* So does the empty one.
LEMMA EmptyIndexed == Indexed(EmptySet)
<1>1. PICK u : u = FALSE
  BY Zenon
<1>2. PICK e : e = [objects |-> <<>>, gks |-> {}, gvkOrder |-> <<>>, err |-> u]
  OBVIOUS
<1>3. e = EmptySet
  BY <1>1, <1>2, Zenon DEF EmptySet
<1>4. /\ e = [objects |-> e.objects, gks |-> e.gks, gvkOrder |-> e.gvkOrder, err |-> e.err]
      /\ e.objects = <<>> /\ e.gvkOrder = <<>>
  BY <1>2
<1>5. DOMAIN e.objects = {}
  BY <1>4
<1>6. IsSeq(e.gvkOrder)
  BY <1>4 DEF IsSeq
<1> QED BY <1>3, <1>4, <1>5, <1>6 DEF Indexed

\* And one with one more object.
LEMMA AddIndexed ==
    ASSUME NEW os, Indexed(os), NEW ob
    PROVE  Indexed(add(os, ob))
<1>1. PICK q : q = add(os, ob)
  OBVIOUS
<1>2. PICK a, b, c, d : /\ os = [objects |-> a, gks |-> b, gvkOrder |-> c, err |-> d]
                        /\ a = os.objects /\ b = os.gks /\ c = os.gvkOrder
  BY DEF Indexed
<1>3. CASE ob = NilObject
  BY <1>3 DEF add
<1>4. CASE ob # NilObject /\ ob.gvk = <<>>
  <2>1. PICK u : u = TRUE
    BY Zenon
  <2>2. q = [os EXCEPT !.err = u]
    BY <1>1, <1>4, <2>1, Zenon DEF add
  <2>3. q = [objects |-> a, gks |-> b, gvkOrder |-> c, err |-> u]
    BY <1>2, <2>2
  <2>4. /\ q = [objects |-> q.objects, gks |-> q.gks, gvkOrder |-> q.gvkOrder, err |-> q.err]
        /\ q.objects = os.objects /\ q.gks = os.gks /\ q.gvkOrder = os.gvkOrder
    BY <1>2, <2>3
  <2>5. Indexed(q)
    BY <2>4 DEF Indexed
  <2> QED BY <1>1, <2>5
<1>5. CASE ob # NilObject /\ ob.gvk # <<>>
  <2>1. PICK g, key : g = ob.gvk /\ key = ob.key
    OBVIOUS
  <2>2. PICK e, f, s : /\ e = Entry(a, <<g, key>>, ob) /\ f = b \cup {<<Group(g), key>>}
                       /\ s = IF g \in SeqX!Range(c) THEN c ELSE Append(c, g)
    OBVIOUS
  <2>3. q = [os EXCEPT !.objects = e, !.gks = f, !.gvkOrder = s]
    BY <1>1, <1>2, <1>5, <2>1, <2>2 DEF add
  <2>4. q = [objects |-> e, gks |-> f, gvkOrder |-> s, err |-> d]
    BY <1>2, <2>3
  <2>5. /\ q = [objects |-> q.objects, gks |-> q.gks, gvkOrder |-> q.gvkOrder, err |-> q.err]
        /\ q.objects = e /\ q.gks = f /\ q.gvkOrder = s
    BY <2>4
  <2>6. IsSeq(c)
    BY <1>2 DEF Indexed
  <2>7. /\ IsSeq(s) /\ \E i \in DOMAIN s : s[i] = g
        /\ \A i \in DOMAIN c : i \in DOMAIN s /\ s[i] = c[i]
    <3>1. CASE g \in SeqX!Range(c)
      BY <2>2, <2>6, <3>1 DEF SeqX!Range
    <3>2. CASE g \notin SeqX!Range(c)
      <4>1. s = Append(c, g)
        BY <2>2, <3>2
      <4>2. PICK l : l = Len(c)
        OBVIOUS
      <4>3. l \in Nat /\ DOMAIN c = 1 .. l
        BY <2>6, <4>2, IsSeqProperties
      <4>4. IsSeq(s) /\ DOMAIN s = 1 .. l + 1 /\ s[l + 1] = g /\ \A i \in 1 .. l : s[i] = c[i]
        BY <2>6, <4>1, <4>2, Appended
      <4>5. l + 1 \in 1 .. l + 1 /\ \A i \in 1 .. l : i \in 1 .. l + 1
        BY <4>3
      <4> QED BY <4>3, <4>4, <4>5
    <3> QED BY <3>1, <3>2
  <2>8. ASSUME NEW k \in DOMAIN e
        PROVE  k = <<k[1], k[2]>> /\ <<Group(k[1]), k[2]>> \in f /\ \E i \in DOMAIN s : s[i] = k[1]
    <3>1. k \in DOMAIN a \/ k = <<g, key>>
      BY <2>2 DEF Entry
    <3>2. CASE k \in DOMAIN a
      <4>1. k = <<k[1], k[2]>> /\ <<Group(k[1]), k[2]>> \in b /\ \E i \in DOMAIN c : c[i] = k[1]
        BY <1>2, <3>2 DEF Indexed
      <4> QED BY <2>2, <2>7, <4>1
    <3>3. CASE k = <<g, key>>
      <4>1. k[1] = g /\ k[2] = key
        BY <3>3
      <4> QED BY <2>2, <2>7, <3>3, <4>1
    <3> QED BY <3>1, <3>2, <3>3
  <2>9. Indexed(q)
    BY <2>5, <2>7, <2>8 DEF Indexed
  <2> QED BY <1>1, <2>9
<1> QED BY <1>3, <1>4, <1>5

\* So does every object set that was made from a list of objects.
LEMMA SetIndexed ==
    ASSUME NEW objs, Len(objs) \in Nat
    PROVE  Indexed(NewObjectSet(objs))
<1>1. PICK n : n = Len(objs)
  OBVIOUS
<1>2. n \in Nat
  BY <1>1
<1>3. PICK f : /\ f[0] = EmptySet
               /\ \A k \in 0 .. n - 1 : f[k + 1] = add(f[k], objs[k + 1])
               /\ NewObjectSet(objs) = f[n]
  BY <1>1, <1>2, FilledValue
<1> DEFINE T == {k \in Nat : k <= n => Indexed(f[k])}
<1>4. 0 \in T
  BY <1>3, EmptyIndexed
<1>5. ASSUME NEW k \in Nat, k \in T PROVE k + 1 \in T
  <2>1. PICK j : j = k + 1
    OBVIOUS
  <2>2. SUFFICES ASSUME j <= n PROVE Indexed(f[j])
    BY <2>1
  <2>3. k \in 0 .. n - 1 /\ k <= n
    BY <1>2, <2>1, <2>2
  <2>4. Indexed(f[k])
    BY <1>5, <2>3
  <2>5. f[j] = add(f[k], objs[j])
    BY <1>3, <2>1, <2>3
  <2> QED BY <2>4, <2>5, AddIndexed
<1> HIDE DEF T
<1>6. n \in T
  BY <1>2, <1>4, <1>5, SetInduction
<1>7. Indexed(f[n])
  BY <1>2, <1>6 DEF T
<1> QED BY <1>3, <1>7

\* The order of the GVKs begins as the objects were added.
LEMMA OrderExtends ==
    ASSUME NEW os, Indexed(os), NEW known, IsSeq(GVKSeq), NEW s, s = GVKOrder(os, known)
    PROVE  IsSeq(s) /\ \A i \in DOMAIN os.gvkOrder : i \in DOMAIN s /\ s[i] = os.gvkOrder[i]
<1> DEFINE Ext(q) == IsSeq(q) /\ \A i \in DOMAIN os.gvkOrder : i \in DOMAIN q /\ q[i] = os.gvkOrder[i]
<1>1. PICK n : n = Len(GVKSeq)
  OBVIOUS
<1>2. n \in Nat
  BY <1>1, IsSeqProperties
<1>3. PICK f : /\ f[0] = os.gvkOrder
               /\ \A k \in 0 .. n - 1 : f[k + 1] = OneMore(os, known, f[k], GVKSeq[k + 1])
               /\ s = f[n]
  BY <1>1, <1>2, OrderedValue
<1> DEFINE T == {k \in Nat : k <= n => Ext(f[k])}
<1>4. 0 \in T
  BY <1>3 DEF Indexed
<1>5. ASSUME NEW k \in Nat, k \in T PROVE k + 1 \in T
  <2>1. PICK j : j = k + 1
    OBVIOUS
  <2>2. SUFFICES ASSUME j <= n PROVE Ext(f[j])
    BY <2>1
  <2>3. k \in 0 .. n - 1 /\ k <= n
    BY <1>2, <2>1, <2>2
  <2>4. PICK q, g : q = f[k] /\ g = GVKSeq[j]
    OBVIOUS
  <2>5. Ext(q)
    BY <1>5, <2>3, <2>4
  <2>6. f[j] = OneMore(os, known, q, g)
    BY <1>3, <2>1, <2>3, <2>4
  <2>7. f[j] = q \/ f[j] = Append(q, g)
    BY <2>6 DEF OneMore
  <2>8. ASSUME NEW p, p = Append(q, g) PROVE Ext(p)
    <3>1. PICK l : l = Len(q)
      OBVIOUS
    <3>2. l \in Nat /\ DOMAIN q = 1 .. l
      BY <2>5, <3>1, IsSeqProperties
    <3>3. IsSeq(p) /\ DOMAIN p = 1 .. l + 1 /\ \A i \in 1 .. l : p[i] = q[i]
      BY <2>5, <2>8, <3>1, Appended
    <3>4. \A i \in 1 .. l : i \in 1 .. l + 1
      BY <3>2
    <3> QED BY <2>5, <3>2, <3>3, <3>4
  <2> HIDE DEF Ext
  <2> QED BY <2>5, <2>7, <2>8
<1> HIDE DEF T
<1>6. n \in T
  BY <1>2, <1>4, <1>5, SetInduction
<1>7. Ext(f[n])
  BY <1>2, <1>6 DEF T
<1> QED BY <1>3, <1>7

-----------------------------------------------------------------------------
(* One GVK *)

\* An object in the API server; what a call has come to.
IsObject(x) == x = [hash |-> x.hash, ann |-> x.ann, prune |-> x.prune, refs |-> x.refs]
IsResult(r) == r = [store |-> r.store, err |-> r.err, plan |-> r.plan, rls |-> r.rls]

\* An object has the place of one that the injectors returned, and its hash.
InPlace(o, g, all, objs) ==
    /\ \A p \in DOMAIN objs : /\ IsObject(objs[p])
                              /\ \E k : /\ <<g, k>> \in DOMAIN all /\ p = Place(o, <<g, k>>)
                                        /\ objs[p].hash = all[<<g, k>>].hash
    /\ \A k : <<g, k>> \in DOMAIN all => Place(o, <<g, k>>) \in DOMAIN objs
\* These are the places that process gives the objects of a GVK.
LEMMA PlacedFrom ==
    ASSUME NEW o, NEW g, NEW all, NEW objs, objs = Placed(o, g, all)
    PROVE  InPlace(o, g, all, objs)
<1> DEFINE keys == {k \in {j[2] : j \in DOMAIN all} : <<g, k>> \in DOMAIN all}
           where(k) == <<Namespace(o, g, k[1]), k[2]>>
           refs(k) == IF Adopts(o, g, k[1]) THEN {o.owner.uid} ELSE {}
           put(k) == [hash |-> all[<<g, k>>].hash, ann |-> all[<<g, k>>].ann,
                      prune |-> all[<<g, k>>].prune, refs |-> refs(k)]
<1>1. objs = [p \in {where(k) : k \in keys} |-> put(CHOOSE k \in keys : where(k) = p)]
  BY Zenon DEF Placed
<1>2. \A k : where(k) = Place(o, <<g, k>>)
  BY DEF Place
<1> HIDE DEF where, put, keys
<1>3. \A k : <<g, k>> \in DOMAIN all => k \in keys
  <2>1. SUFFICES ASSUME NEW k, <<g, k>> \in DOMAIN all PROVE k \in keys
    OBVIOUS
  <2>2. <<g, k>>[2] = k
    OBVIOUS
  <2> QED BY <2>1, <2>2 DEF keys
<1>4. ASSUME NEW p \in DOMAIN objs
      PROVE  /\ IsObject(objs[p])
             /\ \E k : /\ <<g, k>> \in DOMAIN all /\ p = Place(o, <<g, k>>)
                       /\ objs[p].hash = all[<<g, k>>].hash
  <2>1. PICK k : k = CHOOSE i \in keys : where(i) = p
    OBVIOUS
  <2>2. k \in keys /\ where(k) = p
    BY <1>1, <1>4, <2>1
  <2>3. objs[p] = put(k)
    BY <1>1, <1>4, <2>1
  <2>4. IsObject(put(k)) /\ put(k).hash = all[<<g, k>>].hash
    BY DEF put, IsObject
  <2>5. <<g, k>> \in DOMAIN all
    BY <2>2 DEF keys
  <2> QED BY <1>2, <2>2, <2>3, <2>4, <2>5
<1>5. ASSUME NEW k, <<g, k>> \in DOMAIN all PROVE Place(o, <<g, k>>) \in DOMAIN objs
  BY <1>1, <1>2, <1>3, <1>5
<1> QED BY <1>4, <1>5 DEF InPlace

\* A patch leaves the labels of the set.
LEMMA PatchedHash ==
    ASSUME NEW o, NEW old, NEW new, IsObject(new)
    PROVE  Patched(o, old, new).hash = new.hash
<1>1. PICK h, a, p, r : new = [hash |-> h, ann |-> a, prune |-> p, refs |-> r]
  BY DEF IsObject
<1>2. PICK q, u : u = (p /\ old.prune) /\ q = r \cup old.refs
  BY Zenon
<1>3. CASE o.ignorePreviousApplied
  <2>1. new.prune = p /\ new.refs = r /\ new.hash = h
    BY <1>1
  <2>2. PICK x : x = [new EXCEPT !.refs = q, !.prune = u]
    OBVIOUS
  <2>3. x = Patched(o, old, new)
    BY <1>2, <1>3, <2>1, <2>2, Zenon DEF Patched
  <2>4. x.hash = h
    BY <1>1, <2>2
  <2> QED BY <2>1, <2>3, <2>4
<1>4. CASE ~o.ignorePreviousApplied
  BY <1>4 DEF Patched
<1> QED BY <1>3, <1>4

\* The fields of a result.
LEMMA ResultFields ==
    ASSUME NEW s, NEW e, NEW p, NEW l, NEW x, x = [store |-> s, err |-> e, plan |-> p, rls |-> l]
    PROVE  x.store = s /\ x.err = e /\ x.plan = p /\ x.rls = l /\ IsResult(x)
BY DEF IsResult

\* A call that fails says so.
LEMMA SaysFailed ==
    ASSUME NEW r, IsResult(r)
    PROVE  \A x : x = [r EXCEPT !.err = TRUE] =>
                x.err = TRUE /\ IsResult(x) /\ x.store = r.store /\ x.plan = r.plan
<1>1. PICK s, e, p, l : r = [store |-> s, err |-> e, plan |-> p, rls |-> l]
  BY DEF IsResult
<1>2. PICK u : u = TRUE
  BY Zenon
<1>3. PICK y : y = [r EXCEPT !.err = u]
  OBVIOUS
<1>4. y = [store |-> s, err |-> u, plan |-> p, rls |-> l]
  BY <1>1, <1>3
<1>5. y.err = u /\ IsResult(y) /\ y.store = s /\ y.plan = p
  BY <1>4, ResultFields
<1>6. r.store = s /\ r.plan = p
  BY <1>1
<1> QED BY <1>2, <1>3, <1>5, <1>6, Zenon

\* What is left of the object at k, of which objs has no other one.
LEMMA OneDeleted ==
    ASSUME NEW a, NEW g, NEW r, IsResult(r), NEW k, NEW x, x = deleteF(a, g, r, k), NEW j, j \in DOMAIN x.store
    PROVE  j \in DOMAIN r.store /\ x.store[j] = r.store[j]
<1>1. x = r \/ x = remove(r, g, k)
  BY DEF deleteF
<1>2. CASE x = remove(r, g, k)
  <2>1. CASE <<Group(g), k>> \notin DOMAIN r.store
    <3>1. x = [r EXCEPT !.err = TRUE]
      BY <1>2, <2>1 DEF remove
    <3>2. x.store = r.store
      BY <3>1, SaysFailed
    <3> QED BY <3>2
  <2>2. CASE <<Group(g), k>> \in DOMAIN r.store
    <3>1. PICK s, e, p, l : r = [store |-> s, err |-> e, plan |-> p, rls |-> l]
      BY DEF IsResult
    <3>2. r.store = s
      BY <3>1
    <3>3. PICK t : t = [i \in DOMAIN s \ {<<Group(g), k>>} |-> s[i]]
      OBVIOUS
    <3>4. x = [r EXCEPT !.store = t]
      BY <1>2, <2>2, <3>2, <3>3 DEF remove
    <3>5. x.store = t
      BY <3>1, <3>4
    <3> QED BY <3>2, <3>3, <3>5
  <2> QED BY <2>1, <2>2
<1> QED BY <1>1, <1>2

\* What an object becomes when a call wants another one in its place.
Wrote(a, g, new, existing, r, k, x) ==
    \/ <<Group(g), k>> \in DOMAIN x.store /\ x.store[<<Group(g), k>>].hash = new.hash
    \/ x.store = r.store /\ EntryAt(Cell(a.mem, a.o.reconcilers), g) = "handled"
    \/ x.store = r.store /\ k \in DOMAIN existing /\ existing[k].hash = new.hash

Updated(a, g, old, new, r, k, x) ==
    \/ <<Group(g), k>> \in DOMAIN x.store /\ x.store[<<Group(g), k>>].hash = new.hash
    \/ x.store = r.store /\ EntryAt(Cell(a.mem, a.o.reconcilers), g) = "handled"
    \/ x.store = r.store /\ old.hash = new.hash
\* What an update that does not fail leaves.
LEMMA OneUpdated ==
    ASSUME NEW a, NEW g, NEW old, NEW objs, NEW r, IsResult(r), NEW k, IsObject(objs[k]),
           NEW x, x = updateF(a, g, old, objs, r, k), ~x.err
    PROVE  Updated(a, g, old, objs[k], r, k, x)
<1>1. PICK new, j, q : new = Patched(a.o, old, objs[k]) /\ j = <<Group(g), k>> /\ q = remove(r, g, k)
  OBVIOUS
<1>2. new.hash = objs[k].hash
  BY <1>1, PatchedHash
<1>3. CASE new = old \/ EntryAt(Cell(a.mem, a.o.reconcilers), g) = "handled"
  <2>1. x = r
    BY <1>1, <1>3, Zenon DEF updateF
  <2> QED BY <1>2, <1>3, <2>1 DEF Updated
<1>4. CASE ~(new = old \/ EntryAt(Cell(a.mem, a.o.reconcilers), g) = "handled")
  <2>1. \/ x = [q EXCEPT !.err = TRUE]
        \/ x = [r EXCEPT !.err = TRUE]
        \/ j \in DOMAIN r.store /\ x = [r EXCEPT !.store[j] = new]
    BY <1>1, <1>4, Zenon DEF updateF
  <2>2. x # [r EXCEPT !.err = TRUE]
    BY SaysFailed, Zenon
  <2>3. x # [q EXCEPT !.err = TRUE]
    <3>1. IsResult(q)
      <4>1. PICK s, e, p, l : r = [store |-> s, err |-> e, plan |-> p, rls |-> l]
        BY DEF IsResult
      <4>2. r.store = s
        BY <4>1
      <4>3. PICK t : t = [i \in DOMAIN s \ {<<Group(g), k>>} |-> s[i]]
        OBVIOUS
      <4>4. q = [r EXCEPT !.err = TRUE] \/ q = [r EXCEPT !.store = t]
        BY <1>1, <4>2, <4>3 DEF remove
      <4>5. CASE q = [r EXCEPT !.store = t]
        <5>1. q = [store |-> t, err |-> e, plan |-> p, rls |-> l]
          BY <4>1, <4>5
        <5> QED BY <5>1 DEF IsResult
      <4>6. CASE q = [r EXCEPT !.err = TRUE]
        BY <4>6, SaysFailed
      <4> QED BY <4>4, <4>5, <4>6
    <3> QED BY <3>1, SaysFailed, Zenon
  <2>4. j \in DOMAIN r.store /\ x = [r EXCEPT !.store[j] = new]
    BY <2>1, <2>2, <2>3
  <2>5. j \in DOMAIN x.store /\ x.store[j] = new
    BY <2>4 DEF IsResult
  <2> QED BY <1>1, <1>2, <2>5 DEF Updated
<1> QED BY <1>3, <1>4

\* What a create or an update that does not fail leaves.
LEMMA OneWritten ==
    ASSUME NEW a, NEW g, NEW objs, NEW existing, NEW r, IsResult(r), NEW k \in DOMAIN objs, IsObject(objs[k]),
           NEW x, x = One(a, g, objs, existing, r, k), ~x.err
    PROVE  Wrote(a, g, objs[k], existing, r, k, x)
<1>1. PICK j : j = <<Group(g), k>>
  OBVIOUS
<1>2. CASE k \in DOMAIN existing
  <2>1. PICK old : old = existing[k]
    OBVIOUS
  <2>2. x = updateF(a, g, old, objs, r, k)
    BY <1>2, <2>1 DEF One
  <2>3. Updated(a, g, old, objs[k], r, k, x)
    BY <2>2, OneUpdated, Zenon
  <2> QED BY <1>2, <2>1, <2>3 DEF Wrote, Updated
<1>3. CASE k \notin DOMAIN existing /\ j \in DOMAIN r.store
  <2>1. PICK old : old = r.store[j]
    OBVIOUS
  <2>2. x = updateF(a, g, old, objs, r, k)
    BY <1>1, <1>3, <2>1 DEF One
  <2>3. Updated(a, g, old, objs[k], r, k, x)
    BY <2>2, OneUpdated, Zenon
  <2> QED BY <1>1, <1>3, <2>1, <2>3 DEF Wrote, Updated
<1>4. CASE k \notin DOMAIN existing /\ j \notin DOMAIN r.store
  <2>1. x = createF(a, g, objs, r, k)
    BY <1>1, <1>4 DEF One
  <2>2. PICK t : t = Entry(r.store, j, objs[k])
    OBVIOUS
  <2>3. x = [r EXCEPT !.err = TRUE] \/ x = [r EXCEPT !.store = t]
    BY <1>1, <2>1, <2>2 DEF createF
  <2>4. x # [r EXCEPT !.err = TRUE]
    BY SaysFailed, Zenon
  <2>5. x.store = t
    BY <2>3, <2>4 DEF IsResult
  <2>6. j \in DOMAIN t /\ t[j] = objs[k]
    BY <2>2 DEF Entry
  <2> QED BY <1>1, <2>5, <2>6 DEF Wrote
<1> QED BY <1>2, <1>3, <1>4

\* The calls for the objects at keys: the one at k, and the others.
AllOf(a, g, objs, existing, keys, r, q) ==
    /\ ~q.err => ~r.err /\ \A k \in keys : ~One(a, g, objs, existing, r, k).err
    /\ \A j : (\A k \in keys : j # <<Group(g), k>>) =>
          /\ j \in DOMAIN q.store <=> j \in DOMAIN r.store
          /\ j \in DOMAIN q.store => q.store[j] = r.store[j]
    /\ \A k \in keys : \A x, j : x = One(a, g, objs, existing, r, k) /\ j = <<Group(g), k>> =>
          /\ j \in DOMAIN q.store <=> j \in DOMAIN x.store
          /\ j \in DOMAIN q.store => q.store[j] = x.store[j]
\* That is what the calls for these objects come to.
LEMMA AllWritten ==
    ASSUME NEW a, NEW g, NEW objs, NEW existing, NEW keys, NEW r, IsResult(r),
           NEW q, q = All(a, g, objs, existing, keys, r)
    PROVE  IsResult(q) /\ AllOf(a, g, objs, existing, keys, r, q)
<1> DEFINE one(k) == One(a, g, objs, existing, r, k)
           mine == {<<Group(g), k>> : k \in keys}
           left == (DOMAIN r.store \ mine) \cup {j \in mine : j \in DOMAIN one(j[2]).store}
           new == [j \in left |-> IF j \in mine THEN one(j[2]).store[j] ELSE r.store[j]]
<1>1. PICK s, e, p, l : /\ r = [store |-> s, err |-> e, plan |-> p, rls |-> l]
                        /\ s = r.store /\ e = r.err
  BY DEF IsResult
<1>2. PICK u : u = (e \/ \E k \in keys : one(k).err)
  BY Zenon
<1>3. PICK t : t = new
  OBVIOUS
<1>4. PICK y : y = [r EXCEPT !.store = t, !.err = u]
  OBVIOUS
<1>5. y = [store |-> t, err |-> u, plan |-> p, rls |-> l]
  BY <1>1, <1>4
<1>6. y.store = t /\ y.err = u /\ IsResult(y)
  BY <1>5, ResultFields
<1>7. y = All(a, g, objs, existing, keys, r)
  BY <1>1, <1>2, <1>3, <1>4, Zenon DEF All
<1>8. ~y.err => ~r.err /\ \A k \in keys : ~one(k).err
  BY <1>1, <1>2, <1>6, Zenon
<1>9. DOMAIN t = left /\ \A j \in left : t[j] = IF j \in mine THEN one(j[2]).store[j] ELSE r.store[j]
  BY <1>3
<1>10. ASSUME NEW j, \A k \in keys : j # <<Group(g), k>>
       PROVE  (j \in DOMAIN t <=> j \in DOMAIN r.store) /\ (j \in DOMAIN t => t[j] = r.store[j])
  <2>1. j \notin mine
    BY <1>10
  <2> HIDE DEF mine, one
  <2> QED BY <1>9, <2>1
<1>11. ASSUME NEW k \in keys, NEW x, NEW j, x = one(k), j = <<Group(g), k>>
       PROVE  (j \in DOMAIN t <=> j \in DOMAIN x.store) /\ (j \in DOMAIN t => t[j] = x.store[j])
  <2>1. j \in mine /\ j[2] = k
    BY <1>11
  <2>2. one(j[2]) = x
    BY <1>11, <2>1
  <2> HIDE DEF mine, one
  <2> QED BY <1>9, <2>1, <2>2
<1>12. AllOf(a, g, objs, existing, keys, r, y)
  <2>1. \A j : (\A k \in keys : j # <<Group(g), k>>) =>
             /\ j \in DOMAIN y.store <=> j \in DOMAIN r.store
             /\ j \in DOMAIN y.store => y.store[j] = r.store[j]
    BY <1>6, <1>10
  <2>2. \A k \in keys : \A x, j : x = one(k) /\ j = <<Group(g), k>> =>
             /\ j \in DOMAIN y.store <=> j \in DOMAIN x.store
             /\ j \in DOMAIN y.store => y.store[j] = x.store[j]
    <3> HIDE DEF one
    <3> QED BY <1>6, <1>11
  <2> QED BY <1>8, <2>1, <2>2, Zenon DEF AllOf
<1> QED BY <1>6, <1>7, <1>12, Zenon

SameAt(st, t, j) == (j \in DOMAIN st <=> j \in DOMAIN t) /\ (j \in DOMAIN st => st[j] = t[j])
\* The object at j is what its own call left.
LEMMA AllAt ==
    ASSUME NEW a, NEW g, NEW objs, NEW existing, NEW keys, NEW r, NEW q, AllOf(a, g, objs, existing, keys, r, q),
           NEW k \in keys, NEW x, x = One(a, g, objs, existing, r, k), NEW j, j = <<Group(g), k>>
    PROVE  SameAt(q.store, x.store, j)
BY DEF AllOf, SameAt

\* A call that is no dry run, and one that is.
No(dry) == ~dry
Yes(dry) == dry

\* A GVK in a call that goes well: nothing stops it, and the objects of the set
\* and those that are to be deleted are written.
Ran(a, g, objs, existing, keys, r, q) ==
    /\ IsResult(q)
    /\ ~q.err => ~r.err /\ ~Rejects(a, g) /\ q = All(a, g, objs, existing, keys, r)
\* That is how process goes.
LEMMA ProcessWrites ==
    ASSUME NEW no, No(no), NEW a, NEW os, NEW all, NEW hash, NEW sn, NEW r, IsResult(r), NEW g,
           NEW objs, objs = Placed(a.o, g, all),
           NEW existing, existing = Existing(a, g, hash, objs, r.store, sn),
           NEW deleted, deleted = toDelete(a, os, g, objs, existing),
           NEW keys, keys = DOMAIN objs \cup deleted,
           NEW q, q = process(a, os, all, hash, sn, no, r, g)
    PROVE  Ran(a, g, objs, existing, keys, r, q)
<1>2. PICK z : z = All(a, g, objs, existing, keys, r)
  OBVIOUS
<1>3. IsResult(z) /\ (~z.err => ~r.err)
  <2>1. IsResult(z) /\ AllOf(a, g, objs, existing, keys, r, z)
    BY <1>2, AllWritten
  <2> QED BY <2>1, Zenon DEF AllOf
<1>4. CASE Rejects(a, g)
  <2>1. q = [r EXCEPT !.err = TRUE]
    BY <1>4, Zenon DEF process, No, Yes
  <2>2. q.err = TRUE /\ IsResult(q)
    BY <2>1, SaysFailed, Zenon
  <2> QED BY <2>2, Zenon DEF Ran
<1>5. CASE ~Rejects(a, g)
  <2>1. q = z
    BY <1>2, <1>5, Zenon DEF process, No, Yes
  <2> QED BY <1>2, <1>3, <1>5, <2>1, Zenon DEF Ran
<1> QED BY <1>4, <1>5

\* A GVK in a dry run.
Drafted(a, g, deleted, r, q) ==
    /\ IsResult(q) /\ q.store = r.store /\ r.plan \subseteq q.plan
    /\ ~Rejects(a, g) => \A k \in deleted : <<"delete", <<g, k>>>> \in q.plan
\* What is to be deleted is in the plan, and nothing is written.
LEMMA ProcessPlans ==
    ASSUME NEW yes, Yes(yes), NEW a, NEW os, NEW all, NEW hash, NEW sn, NEW r, IsResult(r), NEW g,
           NEW objs, objs = Placed(a.o, g, all),
           NEW existing, existing = Existing(a, g, hash, objs, r.store, sn),
           NEW deleted, deleted = toDelete(a, os, g, objs, existing),
           NEW q, q = process(a, os, all, hash, sn, yes, r, g)
    PROVE  Drafted(a, g, deleted, r, q)
<1>2. PICK s, e, p, l : /\ r = [store |-> s, err |-> e, plan |-> p, rls |-> l]
                        /\ s = r.store /\ p = r.plan
  BY DEF IsResult
<1>3. CASE Rejects(a, g)
  <2>1. q = [r EXCEPT !.err = TRUE]
    BY <1>3, Zenon DEF process, No, Yes
  <2>2. IsResult(q) /\ q.store = r.store /\ q.plan = r.plan
    BY <2>1, SaysFailed, Zenon
  <2> QED BY <1>3, <2>2 DEF Drafted
<1>4. CASE ~Rejects(a, g)
  <2>1. PICK t, u, v : /\ t = p \cup u \cup ({"delete"} \X {<<g, k>> : k \in deleted}) \cup v
                       /\ q = [r EXCEPT !.plan = t]
    <3> DEFINE u == {"create"} \X {<<g, k>> : k \in DOMAIN objs \ DOMAIN existing}
               v == {"update"} \X {<<g, k>> : k \in {j \in DOMAIN objs \cap DOMAIN existing :
                            ~AnnotationsOnly(existing[j], Patched(a.o, existing[j], objs[j]))}}
               d == {"delete"} \X {<<g, k>> : k \in deleted}
    <3>1. q = [r EXCEPT !.plan = r.plan \cup u \cup d \cup v]
      BY <1>4, Zenon DEF process, No, Yes
    <3> HIDE DEF u, v
    <3> QED BY <1>2, <3>1
  <2>2. q = [store |-> s, err |-> e, plan |-> t, rls |-> l]
    BY <1>2, <2>1
  <2>3. \A x : x = [store |-> s, err |-> e, plan |-> t, rls |-> l] => IsResult(x) /\ x.store = s /\ x.plan = t
    BY ResultFields
  <2>4. p \subseteq t /\ \A k \in deleted : <<"delete", <<g, k>>>> \in t
    BY <2>1
  <2> QED BY <1>2, <1>4, <2>2, <2>3, <2>4 DEF Drafted
<1> QED BY <1>3, <1>4

\* An object that a call finds.
Finds(a, g, hash, objs, v, existing, p) ==
    /\ p \in DOMAIN existing <=>
          /\ <<Group(g), p>> \in DOMAIN v /\ v[<<Group(g), p>>].hash = hash
          /\ \E ns \in Listed(a.o, g, getControllerAndClient(a, g).informer, objs) : ns \in {<<>>, p[1]}
    /\ p \in DOMAIN existing => existing[p] = v[<<Group(g), p>>]
\* These are the objects that list returns.
LEMMA ExistingFrom ==
    ASSUME NEW a, NEW g, NEW hash, NEW objs, NEW st, NEW sn, NEW v,
           v = IF getControllerAndClient(a, g).informer THEN sn ELSE st,
           NEW existing, existing = Existing(a, g, hash, objs, st, sn), NEW p
    PROVE  Finds(a, g, hash, objs, v, existing, p)
<1>1. PICK nss : nss = Listed(a.o, g, getControllerAndClient(a, g).informer, objs)
  OBVIOUS
<1>2. existing = list(a.o, g, hash, v, nss)
  BY <1>1, Zenon DEF Existing
<1> DEFINE keys == {k \in {j[2] : j \in DOMAIN v} :
                    /\ <<Group(g), k>> \in DOMAIN v /\ v[<<Group(g), k>>].hash = hash
                    /\ \E ns \in nss : ns \in {<<>>, k[1]}}
<1>3. existing = [k \in keys |-> v[<<Group(g), k>>]]
  BY <1>2 DEF list
<1>4. <<Group(g), p>> \in DOMAIN v => p \in {j[2] : j \in DOMAIN v}
  <2>1. <<Group(g), p>>[2] = p
    OBVIOUS
  <2> QED BY <2>1
<1>5. p \in keys <=> /\ <<Group(g), p>> \in DOMAIN v /\ v[<<Group(g), p>>].hash = hash
                     /\ \E ns \in nss : ns \in {<<>>, p[1]}
  BY <1>4
<1> HIDE DEF keys
<1> QED BY <1>1, <1>3, <1>5 DEF Finds

\* The objects with the labels of the set are the set's, and filterCrossVersion
\* knows them by where they go.
Known(o, os, all, hash) ==
    \A k \in DOMAIN all : all[k].hash = hash =>
        /\ k \in DOMAIN os.objects
        /\ \/ Place(o, k) = k[2]
           \/ k[2] = <<<<>>, k[2][2]>> /\ Place(o, k) = <<o.defaultNamespace, k[2][2]>>

\* It keeps them.
LEMMA Spared ==
    ASSUME NEW o, NEW os, Indexed(os), NEW all, NEW hash, Known(o, os, all, hash),
           NEW k \in DOMAIN all, all[k].hash = hash, NEW g, Group(g) = Group(k[1]), NEW keys
    PROVE  Place(o, k) \notin filterCrossVersion(o, os, g, keys)
<1>1. PICK p : p = Place(o, k)
  OBVIOUS
<1>2. k \in DOMAIN os.objects
  BY DEF Known
<1>3. <<Group(g), k[2]>> \in os.gks
  BY <1>2 DEF Indexed
<1>4. CASE p = k[2]
  BY <1>1, <1>3, <1>4 DEF filterCrossVersion, ContainsKey
<1>5. CASE k[2] = <<<<>>, k[2][2]>> /\ p = <<o.defaultNamespace, k[2][2]>>
  <2>1. p[1] = o.defaultNamespace /\ p[2] = k[2][2]
    BY <1>5
  <2>2. <<Group(g), <<<<>>, p[2]>>>> \in os.gks
    BY <1>3, <1>5, <2>1
  <2> QED BY <1>1, <2>1, <2>2 DEF filterCrossVersion, ContainsKey
<1> QED BY <1>1, <1>4, <1>5 DEF Known

\* The object at j has the labels.
Has(st, j, hash) == j \in DOMAIN st /\ st[j].hash = hash
\* It is still there, with its labels.
Stays(before, st, j, hash) ==
    (j \in DOMAIN before => j \in DOMAIN st) /\ (Has(before, j, hash) => Has(st, j, hash))

\* A GVK leaves the objects of the set in their places, and puts its own there.
Wanted(a, all, hash, k, j) ==
    /\ k \in DOMAIN all /\ all[k].hash = hash /\ k = <<k[1], k[2]>> /\ j = Spot(a.o, k)
    /\ EntryAt(Cell(a.mem, a.o.reconcilers), k[1]) # "handled"
    /\ \A i \in DOMAIN all : Spot(a.o, i) = j => all[i].hash = hash
Advances(before, st, t, j, hash, g, own) ==
    /\ Stays(before, t, j, hash)
    /\ Has(st, j, hash) \/ g = own => Has(t, j, hash)
\* No GVK disturbs an object of the set that is in its place.
LEMMA StepStays ==
    ASSUME NEW no, No(no), NEW a, NEW os, Indexed(os), NEW all, NEW hash, Known(a.o, os, all, hash), NEW before,
           NEW r, IsResult(r), NEW g, NEW q, q = process(a, os, all, hash, before, no, r, g), ~q.err,
           NEW k, NEW j, Wanted(a, all, hash, k, j), Stays(before, r.store, j, hash)
    PROVE  Advances(before, r.store, q.store, j, hash, g, k[1])
<1> USE DEF Wanted
<1>1. PICK objs, existing, deleted :
        /\ objs = Placed(a.o, g, all) /\ existing = Existing(a, g, hash, objs, r.store, before)
        /\ deleted = toDelete(a, os, g, objs, existing)
  OBVIOUS
<1>2. PICK keys : keys = DOMAIN objs \cup deleted
  OBVIOUS
<1>3. q = All(a, g, objs, existing, keys, r)
  <2>1. Ran(a, g, objs, existing, keys, r, q)
    BY <1>1, <1>2, ProcessWrites
  <2> QED BY <2>1, Zenon DEF Ran
<1>4. AllOf(a, g, objs, existing, keys, r, q)
  BY <1>3, AllWritten
<1>5. PICK p : p = Place(a.o, k)
  OBVIOUS
<1>6. j = <<Group(k[1]), p>>
  BY <1>5 DEF Spot
<1>7. CASE \A m \in keys : j # <<Group(g), m>>
  <2>1. /\ j \in DOMAIN q.store <=> j \in DOMAIN r.store
        /\ j \in DOMAIN q.store => q.store[j] = r.store[j]
    BY <1>4, <1>7, Zenon DEF AllOf
  <2>2. g # k[1]
    <3>1. SUFFICES ASSUME g = k[1] PROVE FALSE
      OBVIOUS
    <3>2. InPlace(a.o, g, all, objs)
      BY <1>1, PlacedFrom
    <3>3. p \in DOMAIN objs
      BY <1>5, <3>1, <3>2 DEF InPlace
    <3> QED BY <1>2, <1>6, <1>7, <3>1, <3>3
  <2> QED BY <2>1, <2>2 DEF Advances, Stays, Has
<1>8. CASE \E m \in keys : j = <<Group(g), m>>
  <2>1. p \in keys /\ Group(g) = Group(k[1]) /\ j = <<Group(g), p>>
    BY <1>6, <1>8
  <2>2. PICK x : x = One(a, g, objs, existing, r, p)
    OBVIOUS
  <2>3. /\ ~x.err /\ (j \in DOMAIN q.store <=> j \in DOMAIN x.store)
        /\ j \in DOMAIN q.store => q.store[j] = x.store[j]
    <3>1. ~x.err
      BY <1>4, <2>1, <2>2, Zenon DEF AllOf
    <3>2. /\ j \in DOMAIN q.store <=> j \in DOMAIN x.store
          /\ j \in DOMAIN q.store => q.store[j] = x.store[j]
      <4>1. SameAt(q.store, x.store, j)
        BY <1>4, <2>1, <2>2, AllAt, Zenon
      <4> QED BY <4>1, Zenon DEF SameAt
    <3> QED BY <3>1, <3>2
  <2>4. p \in DOMAIN objs
    <3>1. p \notin deleted
      BY <1>1, <1>5, <2>1, Spared DEF toDelete
    <3> QED BY <1>2, <2>1, <3>1
  <2>5. IsObject(objs[p]) /\ objs[p].hash = hash
    <3>1. PICK i : /\ IsObject(objs[p]) /\ <<g, i>> \in DOMAIN all /\ p = Place(a.o, <<g, i>>)
                   /\ objs[p].hash = all[<<g, i>>].hash
      <4>1. InPlace(a.o, g, all, objs)
        BY <1>1, PlacedFrom
      <4> QED BY <2>4, <4>1 DEF InPlace
    <3>2. Spot(a.o, <<g, i>>) = j
      BY <2>1, <3>1 DEF Spot
    <3> QED BY <3>1, <3>2
  <2>6. Wrote(a, g, objs[p], existing, r, p, x)
    BY <2>2, <2>3, <2>4, <2>5, OneWritten
  <2>7. CASE j \in DOMAIN x.store /\ x.store[j].hash = objs[p].hash
    BY <2>3, <2>5, <2>7 DEF Advances, Stays, Has
  <2>8. CASE x.store = r.store /\ EntryAt(Cell(a.mem, a.o.reconcilers), g) = "handled"
    BY <2>3, <2>8 DEF Advances, Stays, Has
  <2>9. CASE x.store = r.store /\ p \in DOMAIN existing /\ existing[p].hash = objs[p].hash
    <3>1. PICK v : v = IF getControllerAndClient(a, g).informer THEN before ELSE r.store
      OBVIOUS
    <3>2. j \in DOMAIN v /\ v[j].hash = hash
      <4>1. Finds(a, g, hash, objs, v, existing, p)
        BY <1>1, <3>1, ExistingFrom
      <4> QED BY <2>1, <2>9, <4>1 DEF Finds
    <3>3. Has(r.store, j, hash)
      BY <3>1, <3>2 DEF Stays, Has
    <3>4. Has(q.store, j, hash)
      BY <2>3, <2>9, <3>3 DEF Has
    <3> QED BY <3>4 DEF Advances, Stays, Has
  <2> QED BY <2>1, <2>6, <2>7, <2>8, <2>9 DEF Wrote
<1> QED BY <1>7, <1>8

\* The object at j is as it was, or as an injector returned it; if it has gone,
\* the plan says so.
Planned(plan, j) == \E p \in plan : p[1] = "delete" /\ Group(p[2][1]) = j[1] /\ p[2][2] = j[2]
Foretold(o, all, before, st, plan, j) ==
    /\ j \in DOMAIN st => \/ st[j] = before[j]
                          \/ \E k \in DOMAIN all : Spot(o, k) = j /\ st[j].hash = all[k].hash
    /\ j \notin DOMAIN st => Planned(plan, j)

\* A GVK deletes only what the same GVK of a dry run plans to.
LEMMA StepForetold ==
    ASSUME NEW no, No(no), NEW yes, Yes(yes), NEW a, NEW os, Indexed(os), NEW all, NEW hash, Known(a.o, os, all, hash), NEW sn, NEW before,
           NEW r, IsResult(r), NEW g, NEW q, q = process(a, os, all, hash, sn, no, r, g), ~q.err,
           NEW e, IsResult(e), e.store = before, NEW d, d = process(a, os, all, hash, sn, yes, e, g),
           NEW j \in DOMAIN before, Foretold(a.o, all, before, r.store, e.plan, j)
    PROVE  Foretold(a.o, all, before, q.store, d.plan, j)
<1>1. PICK objs, existing, deleted :
        /\ objs = Placed(a.o, g, all) /\ existing = Existing(a, g, hash, objs, r.store, sn)
        /\ deleted = toDelete(a, os, g, objs, existing)
  OBVIOUS
<1>2. PICK keys : keys = DOMAIN objs \cup deleted
  OBVIOUS
<1>3. q = All(a, g, objs, existing, keys, r) /\ ~Rejects(a, g)
  <2>1. Ran(a, g, objs, existing, keys, r, q)
    BY <1>1, <1>2, ProcessWrites
  <2> QED BY <2>1, Zenon DEF Ran
<1>4. AllOf(a, g, objs, existing, keys, r, q)
  BY <1>3, AllWritten
<1>5. PICK found, planned :
        /\ found = Existing(a, g, hash, objs, e.store, sn)
        /\ planned = toDelete(a, os, g, objs, found)
  OBVIOUS
<1>6. e.plan \subseteq d.plan /\ \A k \in planned : <<"delete", <<g, k>>>> \in d.plan
  <2>1. Drafted(a, g, planned, e, d)
    BY <1>1, <1>5, ProcessPlans
  <2> QED BY <1>3, <2>1 DEF Drafted
<1>7. Planned(e.plan, j) => Planned(d.plan, j)
  BY <1>6 DEF Planned
<1>8. ASSUME /\ j \in DOMAIN q.store <=> j \in DOMAIN r.store
             /\ j \in DOMAIN q.store => q.store[j] = r.store[j]
      PROVE  Foretold(a.o, all, before, q.store, d.plan, j)
  BY <1>7, <1>8 DEF Foretold
<1>9. CASE \A m \in keys : j # <<Group(g), m>>
  <2>1. /\ j \in DOMAIN q.store <=> j \in DOMAIN r.store
        /\ j \in DOMAIN q.store => q.store[j] = r.store[j]
    BY <1>4, <1>9, Zenon DEF AllOf
  <2> QED BY <1>8, <2>1
<1>10. CASE \E m \in keys : j = <<Group(g), m>>
  <2>1. PICK p \in keys : j = <<Group(g), p>>
    BY <1>10
  <2>2. PICK x : x = One(a, g, objs, existing, r, p)
    OBVIOUS
  <2>3. /\ ~x.err /\ (j \in DOMAIN q.store <=> j \in DOMAIN x.store)
        /\ j \in DOMAIN q.store => q.store[j] = x.store[j]
    <3>1. ~x.err
      BY <1>4, <2>1, <2>2, Zenon DEF AllOf
    <3>2. /\ j \in DOMAIN q.store <=> j \in DOMAIN x.store
          /\ j \in DOMAIN q.store => q.store[j] = x.store[j]
      <4>1. SameAt(q.store, x.store, j)
        BY <1>4, <2>1, <2>2, AllAt, Zenon
      <4> QED BY <4>1, Zenon DEF SameAt
    <3> QED BY <3>1, <3>2
  <2>4. CASE p \in DOMAIN objs
    <3>1. PICK i : /\ IsObject(objs[p]) /\ <<g, i>> \in DOMAIN all /\ p = Place(a.o, <<g, i>>)
                   /\ objs[p].hash = all[<<g, i>>].hash
      <4>1. InPlace(a.o, g, all, objs)
        BY <1>1, PlacedFrom
      <4> QED BY <2>4, <4>1 DEF InPlace
    <3>2. Spot(a.o, <<g, i>>) = j
      BY <2>1, <3>1 DEF Spot
    <3>3. Wrote(a, g, objs[p], existing, r, p, x)
      BY <2>2, <2>3, <2>4, <3>1, OneWritten
    <3>4. CASE j \in DOMAIN x.store /\ x.store[j].hash = objs[p].hash
      BY <2>3, <3>1, <3>2, <3>4 DEF Foretold
    <3>5. CASE x.store = r.store
      BY <1>8, <2>3, <3>5
    <3> QED BY <2>1, <3>3, <3>4, <3>5 DEF Wrote
  <2>5. CASE p \notin DOMAIN objs
    <3>1. x = deleteF(a, g, r, p)
      BY <2>2, <2>5 DEF One
    <3>2. CASE j \in DOMAIN x.store
      <4>1. j \in DOMAIN r.store /\ x.store[j] = r.store[j]
        BY <3>1, <3>2, OneDeleted
      <4> QED BY <1>8, <2>3, <3>2, <4>1
    <3>3. CASE j \notin DOMAIN x.store /\ j \notin DOMAIN r.store
      BY <1>8, <2>3, <3>3
    <3>4. CASE j \notin DOMAIN x.store /\ j \in DOMAIN r.store
      <4>1. p \in deleted
        BY <1>2, <2>1, <2>5
      <4>2. p \in DOMAIN existing /\ existing[p].prune
        BY <1>1, <4>1 DEF toDelete, filterCrossVersion
      <4>3. p \in DOMAIN found /\ found[p] = existing[p]
        <5>1. CASE getControllerAndClient(a, g).informer
          BY <1>1, <1>5, <4>2, <5>1, Zenon DEF Existing
        <5>2. CASE ~getControllerAndClient(a, g).informer
          <6>1. PICK v, w : /\ v = IF getControllerAndClient(a, g).informer THEN sn ELSE r.store
                            /\ w = IF getControllerAndClient(a, g).informer THEN sn ELSE before
            OBVIOUS
          <6>2. /\ <<Group(g), p>> \in DOMAIN v /\ v[<<Group(g), p>>].hash = hash
                /\ \E ns \in Listed(a.o, g, getControllerAndClient(a, g).informer, objs) : ns \in {<<>>, p[1]}
                /\ existing[p] = v[<<Group(g), p>>]
            <7>1. Finds(a, g, hash, objs, v, existing, p)
              BY <1>1, <6>1, ExistingFrom
            <7> QED BY <4>2, <7>1 DEF Finds
          <6>3. v = r.store /\ w = before
            BY <5>2, <6>1
          <6>4. r.store[j] = before[j]
            <7>1. SUFFICES ASSUME NEW k \in DOMAIN all, Spot(a.o, k) = j, r.store[j].hash = all[k].hash
                           PROVE  FALSE
              BY <3>4 DEF Foretold
            <7>2. all[k].hash = hash
              BY <2>1, <6>2, <6>3, <7>1
            <7>3. Group(g) = Group(k[1]) /\ p = Place(a.o, k)
              BY <2>1, <7>1 DEF Spot
            <7> QED BY <1>1, <4>1, <7>2, <7>3, Spared DEF toDelete
          <6>5. j \in DOMAIN w /\ w[j] = v[j]
            BY <6>3, <6>4
          <6>6. found = Existing(a, g, hash, objs, before, sn)
            BY <1>5
          <6>7. Finds(a, g, hash, objs, w, found, p)
            BY <6>1, <6>6, ExistingFrom
          <6> QED BY <2>1, <6>2, <6>5, <6>7 DEF Finds
        <5> QED BY <5>1, <5>2
      <4>4. p \in planned
        BY <1>1, <1>5, <2>5, <4>1, <4>2, <4>3 DEF toDelete, filterCrossVersion
      <4>5. Planned(d.plan, j)
        <5>1. PICK y : y = <<"delete", <<g, p>>>>
          OBVIOUS
        <5>2. y \in d.plan /\ y[1] = "delete" /\ y[2][1] = g /\ y[2][2] = p
          BY <1>6, <4>4, <5>1
        <5>3. j[1] = Group(g) /\ j[2] = p
          BY <2>1
        <5> QED BY <5>2, <5>3 DEF Planned
      <4> QED BY <2>3, <3>4, <4>5 DEF Foretold
    <3> QED BY <3>2, <3>3, <3>4
  <2> QED BY <2>4, <2>5
<1> QED BY <1>9, <1>10

-----------------------------------------------------------------------------
(* A call *)

\* f has what is left after each of n GVKs.
GVKByGVK(f, a, os, all, order, hash, sn, dry, n) ==
    \A k \in 0 .. n - 1 : f[k + 1] = process(a, os, all, hash, sn, dry, f[k], order[k + 1])
Ends(a, os, all, order, hash, sn, dry, r, n) ==
    \E f : /\ f[0] = r /\ GVKByGVK(f, a, os, all, order, hash, sn, dry, n)
           /\ processAll(a, os, all, order, hash, sn, dry, r) = f[n]
\* There is such an f for any call.
LEMMA HasSteps ==
    ASSUME NEW a, NEW os, NEW all, NEW order, NEW hash, NEW sn, NEW dry, NEW r, NEW n, n = Len(order), n \in Nat
    PROVE  Ends(a, os, all, order, hash, sn, dry, r, n)
BY AdvancedValue DEF GVKByGVK, Ends
\* One of the GVKs.
LEMMA OneStep ==
    ASSUME NEW a, NEW os, NEW all, NEW order, NEW hash, NEW sn, NEW dry, NEW n, NEW f,
           GVKByGVK(f, a, os, all, order, hash, sn, dry, n), NEW k \in 0 .. n - 1, NEW j, j = k + 1,
           NEW s, s = f[k], NEW t, t = f[j], NEW g, g = order[j]
    PROVE  t = process(a, os, all, hash, sn, dry, s, g)
BY DEF GVKByGVK

\* A call that went well went well for every GVK.
LEMMA NoError ==
    ASSUME NEW no, No(no), NEW a, NEW os, NEW all, NEW order, NEW hash, NEW sn, NEW f, NEW n \in Nat, IsResult(f[0]), ~f[n].err,
           GVKByGVK(f, a, os, all, order, hash, sn, no, n)
    PROVE  \A i \in 0 .. n : IsResult(f[i]) /\ ~f[i].err
<1>1. ASSUME NEW k \in 0 .. n - 1, IsResult(f[k])
      PROVE  IsResult(f[k + 1]) /\ (~f[k + 1].err => ~f[k].err)
  <2>1. PICK j, g, r, q : j = k + 1 /\ g = order[j] /\ r = f[k] /\ q = f[j]
    OBVIOUS
  <2>2. q = process(a, os, all, hash, sn, no, r, g)
    BY <2>1, OneStep
  <2>3. PICK objs, existing, deleted, keys :
        /\ objs = Placed(a.o, g, all) /\ existing = Existing(a, g, hash, objs, r.store, sn)
        /\ deleted = toDelete(a, os, g, objs, existing) /\ keys = DOMAIN objs \cup deleted
    OBVIOUS
  <2>4. IsResult(r)
    BY <1>1, <2>1
  <2>5. Ran(a, g, objs, existing, keys, r, q)
    BY <2>2, <2>3, <2>4, ProcessWrites
  <2>6. IsResult(q) /\ (~q.err => ~r.err)
    BY <2>5, Zenon DEF Ran
  <2> QED BY <2>1, <2>6, Zenon
<1> DEFINE T == {i \in Nat : i <= n => IsResult(f[i])}
           U == {i \in Nat : i <= n => ~f[n - i].err}
<1>2. 0 \in T
  OBVIOUS
<1>3. ASSUME NEW i \in Nat, i \in T PROVE i + 1 \in T
  <2>1. SUFFICES ASSUME i + 1 <= n PROVE IsResult(f[i + 1])
    OBVIOUS
  <2>2. i \in 0 .. n - 1 /\ i <= n
    BY <2>1
  <2>3. IsResult(f[i])
    BY <1>3, <2>2
  <2> QED BY <1>1, <2>2, <2>3
<1>4. \A i \in Nat : i \in T
  <2> HIDE DEF T
  <2> QED BY <1>2, <1>3, SetInduction
<1>5. \A i \in 0 .. n : IsResult(f[i])
  BY <1>4
<1>6. 0 \in U
  OBVIOUS
<1>7. ASSUME NEW i \in Nat, i \in U PROVE i + 1 \in U
  <2>1. SUFFICES ASSUME i + 1 <= n PROVE ~f[n - (i + 1)].err
    OBVIOUS
  <2>2. PICK k : k = n - (i + 1)
    OBVIOUS
  <2>3. k \in 0 .. n - 1 /\ k \in 0 .. n /\ k + 1 = n - i /\ i <= n
    BY <2>1, <2>2
  <2>4. ~f[k + 1].err
    BY <1>7, <2>3
  <2>5. IsResult(f[k])
    BY <1>5, <2>3
  <2>6. ~f[k].err
    BY <1>1, <2>3, <2>4, <2>5
  <2> QED BY <2>2, <2>6
<1>8. \A i \in Nat : i \in U
  <2> HIDE DEF U
  <2> QED BY <1>6, <1>7, SetInduction
<1>9. ASSUME NEW i \in 0 .. n PROVE ~f[i].err
  <2>1. PICK k : k = n - i
    OBVIOUS
  <2>2. k \in Nat /\ k <= n /\ n - k = i
    BY <2>1
  <2> QED BY <1>8, <2>2
<1> QED BY <1>5, <1>9

\* The objects of a set are where they belong after all of its GVKs.
LEMMA LoopStays ==
    ASSUME NEW no, No(no), NEW a, NEW os, Indexed(os), NEW all, NEW hash, Known(a.o, os, all, hash), NEW before,
           NEW order, Len(order) \in Nat, NEW m \in 1 .. Len(order),
           NEW r, IsResult(r), r.store = before,
           NEW q, q = processAll(a, os, all, order, hash, before, no, r), ~q.err,
           NEW k, NEW j, Wanted(a, all, hash, k, j), k[1] = order[m]
    PROVE  Has(q.store, j, hash)
<1>1. PICK n : n = Len(order) /\ n \in Nat
  OBVIOUS
<1>2. PICK f : f[0] = r /\ GVKByGVK(f, a, os, all, order, hash, before, no, n) /\ q = f[n]
  <2>1. Ends(a, os, all, order, hash, before, no, r, n)
    BY <1>1, HasSteps
  <2> QED BY <2>1 DEF Ends
<1>3. \A i \in 0 .. n : IsResult(f[i]) /\ ~f[i].err
  BY <1>1, <1>2, NoError
<1> DEFINE Fine(i) == Stays(before, f[i].store, j, hash) /\ (m <= i => Has(f[i].store, j, hash))
           T == {i \in Nat : i <= n => Fine(i)}
<1>4. 0 \in T
  <2>1. ~(m <= 0)
    BY <1>1
  <2> QED BY <1>2, <2>1 DEF Stays
<1>5. ASSUME NEW i \in Nat, i \in T PROVE i + 1 \in T
  <2>1. PICK l, s, t, g : l = i + 1 /\ s = f[i] /\ t = f[l] /\ g = order[l]
    OBVIOUS
  <2>2. SUFFICES ASSUME l <= n PROVE Stays(before, t.store, j, hash) /\ (m <= l => Has(t.store, j, hash))
    BY <2>1
  <2>3. i \in 0 .. n - 1 /\ i <= n /\ i \in 0 .. n /\ l \in 0 .. n
    BY <1>1, <2>1, <2>2
  <2>4. Stays(before, s.store, j, hash) /\ (m <= i => Has(s.store, j, hash))
    BY <1>5, <2>1, <2>3
  <2>5. t = process(a, os, all, hash, before, no, s, g)
    BY <1>2, <2>1, <2>3, OneStep
  <2>6. IsResult(s) /\ ~t.err
    BY <1>3, <2>1, <2>3, OneStep
  <2>7. /\ Stays(before, t.store, j, hash)
        /\ Has(s.store, j, hash) \/ g = k[1] => Has(t.store, j, hash)
    <3>1. Advances(before, s.store, t.store, j, hash, g, k[1])
      BY <2>4, <2>5, <2>6, StepStays
    <3> QED BY <3>1 DEF Advances
  <2>8. m <= l => m <= i \/ m = l
    BY <1>1, <2>1
  <2>9. m = l => g = k[1]
    BY <2>1
  <2> QED BY <2>4, <2>7, <2>8, <2>9
<1> HIDE DEF T
<1>6. n \in T
  BY <1>1, <1>4, <1>5, SetInduction
<1>7. Fine(n)
  BY <1>1, <1>6 DEF T
<1>8. m <= n
  BY <1>1
<1> QED BY <1>2, <1>7, <1>8, Zenon

\* What has gone after all of them a dry run had planned.
LEMMA LoopForetold ==
    ASSUME NEW no, No(no), NEW yes, Yes(yes), NEW a, NEW os, Indexed(os), NEW all, NEW hash, Known(a.o, os, all, hash), NEW before, NEW sn,
           NEW order, Len(order) \in Nat, NEW r, IsResult(r), r.store = before,
           NEW q, q = processAll(a, os, all, order, hash, sn, no, r), ~q.err,
           NEW e, IsResult(e), e.store = before, NEW d, d = processAll(a, os, all, order, hash, sn, yes, e),
           NEW j \in DOMAIN before, j \notin DOMAIN q.store
    PROVE  Planned(d.plan, j)
<1>1. PICK n : n = Len(order) /\ n \in Nat
  OBVIOUS
<1>2. PICK f : f[0] = r /\ GVKByGVK(f, a, os, all, order, hash, sn, no, n) /\ q = f[n]
  <2>1. Ends(a, os, all, order, hash, sn, no, r, n)
    BY <1>1, HasSteps
  <2> QED BY <2>1 DEF Ends
<1>3. PICK h : h[0] = e /\ GVKByGVK(h, a, os, all, order, hash, sn, yes, n) /\ d = h[n]
  <2>1. Ends(a, os, all, order, hash, sn, yes, e, n)
    BY <1>1, HasSteps
  <2> QED BY <2>1 DEF Ends
<1>4. \A i \in 0 .. n : IsResult(f[i]) /\ ~f[i].err
  BY <1>1, <1>2, NoError
<1> DEFINE Fine(i) == /\ IsResult(h[i]) /\ h[i].store = before
                      /\ Foretold(a.o, all, before, f[i].store, h[i].plan, j)
           T == {i \in Nat : i <= n => Fine(i)}
<1>5. 0 \in T
  BY <1>2, <1>3 DEF Foretold
<1>6. ASSUME NEW i \in Nat, i \in T PROVE i + 1 \in T
  <2>1. PICK l, s, t, u, v, g : /\ l = i + 1 /\ s = f[i] /\ t = f[l] /\ u = h[i] /\ v = h[l] /\ g = order[l]
    OBVIOUS
  <2>2. SUFFICES ASSUME l <= n
                 PROVE  IsResult(v) /\ v.store = before /\ Foretold(a.o, all, before, t.store, v.plan, j)
    BY <2>1
  <2>3. i \in 0 .. n - 1 /\ i <= n /\ i \in 0 .. n /\ l \in 0 .. n
    BY <1>1, <2>1, <2>2
  <2>4. IsResult(u) /\ u.store = before /\ Foretold(a.o, all, before, s.store, u.plan, j)
    BY <1>6, <2>1, <2>3
  <2>5. t = process(a, os, all, hash, sn, no, s, g)
    BY <1>2, <2>1, <2>3, OneStep
  <2>6. v = process(a, os, all, hash, sn, yes, u, g)
    BY <1>3, <2>1, <2>3, OneStep
  <2>7. IsResult(s) /\ ~t.err
    BY <1>4, <2>1, <2>3
  <2>8. Foretold(a.o, all, before, t.store, v.plan, j)
    BY <2>4, <2>5, <2>6, <2>7, StepForetold
  <2>9. IsResult(v) /\ v.store = before
    <3>1. PICK objs, existing, deleted :
        /\ objs = Placed(a.o, g, all) /\ existing = Existing(a, g, hash, objs, u.store, sn)
        /\ deleted = toDelete(a, os, g, objs, existing)
      OBVIOUS
    <3>2. Drafted(a, g, deleted, u, v)
      BY <2>4, <2>6, <3>1, ProcessPlans
    <3> QED BY <2>4, <3>2, Zenon DEF Drafted
  <2> QED BY <2>8, <2>9
<1> HIDE DEF T
<1>7. n \in T
  BY <1>1, <1>5, <1>6, SetInduction
<1>8. Fine(n)
  BY <1>1, <1>7 DEF T
<1> QED BY <1>2, <1>3, <1>8 DEF Foretold

\* A call that goes through, dry or not, goes from one GVK to the next.
LEMMA Applying ==
    ASSUME NEW a, NEW objs, NEW st, NEW sn, NEW rl, NEW dry,
           NEW os, os = NewObjectSet(objs), ~os.err, ~LabelsMissing(a.o),
           NEW inj, inj = runInjectors(a, injectLabelsAndAnnotations(a.o, os)), ~inj.err,
           NEW hash, hash = objectSetHash(Annotations(a.o)),
           NEW order, order = GVKOrder(os, DOMAIN Cell(a.mem, a.o.pruneTypes))
    PROVE  \E r : /\ IsResult(r) /\ r.store = st
                  /\ apply(a, objs, st, sn, rl, dry) = processAll(a, os, inj.objs, order, hash, sn, dry, r)
<1> DEFINE l == getRateLimit(rl, hash, a.o.qps, os.objects = <<>>)
           first == [store |-> st, err |-> FALSE, plan |-> {}, rls |-> rl]
           r == [first EXCEPT !.rls = l]
<1>1. apply(a, objs, st, sn, rl, dry) = processAll(a, os, inj.objs, order, hash, sn, dry, r)
  BY Zenon DEF apply
<1>2. IsResult(r) /\ r.store = st
  <2>1. PICK u, x, y, z : u = FALSE /\ x = l /\ y = first /\ z = r
    BY Zenon
  <2>2. y = [store |-> st, err |-> u, plan |-> {}, rls |-> rl] /\ z = [y EXCEPT !.rls = x]
    BY <2>1, Zenon
  <2> HIDE DEF l, first, r
  <2>3. z = [store |-> st, err |-> u, plan |-> {}, rls |-> x]
    BY <2>2
  <2>4. IsResult(z) /\ z.store = st
    BY <2>3, ResultFields
  <2> QED BY <2>1, <2>4, Zenon
<1> HIDE DEF r
<1> QED BY <1>1, <1>2

\* One that goes well goes through.
LEMMA GoesThrough ==
    ASSUME NEW a, NEW objs, NEW st, NEW sn, NEW rl, NEW dry,
           NEW q, q = apply(a, objs, st, sn, rl, dry), ~q.err,
           NEW os, os = NewObjectSet(objs),
           NEW inj, inj = runInjectors(a, injectLabelsAndAnnotations(a.o, os))
    PROVE  ~os.err /\ ~LabelsMissing(a.o) /\ ~inj.err
<1> DEFINE hash == objectSetHash(Annotations(a.o))
           l == getRateLimit(rl, hash, a.o.qps, os.objects = <<>>)
           r == [store |-> st, err |-> FALSE, plan |-> {}, rls |-> rl]
           limited == [r EXCEPT !.rls = l]
<1>1. os.err \/ LabelsMissing(a.o) => q = [r EXCEPT !.err = TRUE]
  BY Zenon DEF apply
<1>2. ~(os.err \/ LabelsMissing(a.o)) /\ inj.err => q = [limited EXCEPT !.err = TRUE]
  BY Zenon DEF apply
<1>3. PICK u, x, y, z : u = FALSE /\ x = l /\ y = r /\ z = limited
  BY Zenon
<1>4. y = [store |-> st, err |-> u, plan |-> {}, rls |-> rl] /\ z = [y EXCEPT !.rls = x]
  BY <1>3, Zenon
<1> HIDE DEF l, r, limited
<1>5. z = [store |-> st, err |-> u, plan |-> {}, rls |-> x]
  BY <1>4
<1>6. IsResult(y) /\ IsResult(z)
  BY <1>4, <1>5, ResultFields
<1>7. q # [y EXCEPT !.err = TRUE] /\ q # [z EXCEPT !.err = TRUE]
  <2>1. \A w : w = [y EXCEPT !.err = TRUE] => w.err = TRUE
    BY <1>6, SaysFailed, Zenon
  <2>2. \A w : w = [z EXCEPT !.err = TRUE] => w.err = TRUE
    BY <1>6, SaysFailed, Zenon
  <2> QED BY <2>1, <2>2, Zenon
<1> QED BY <1>1, <1>2, <1>3, <1>7, Zenon

\* A call of Apply that goes well leaves the objects of the set where they
\* belong, and deletes nothing that a dry run had not planned.
Leaves(a, objs, st, sn, t, plan) ==
    Recognised(a, objs) =>
        /\ sn = st => \A k \in Kept(a, objs) :
              Labels(a, objs, k) => Has(t, Spot(a.o, k), objectSetHash(Annotations(a.o)))
        /\ \A j \in DOMAIN st \ DOMAIN t : Planned(plan, j)

\* That is what apply leaves.
LEMMA ApplyLeaves ==
    ASSUME NEW a, NEW objs, IsSeq(objs), NEW st, NEW sn, NEW rl, NEW no, No(no),
           NEW q, q = apply(a, objs, st, sn, rl, no), ~q.err,
           NEW rl2, NEW yes, Yes(yes), NEW d, d = apply(a, objs, st, sn, rl2, yes)
    PROVE  Leaves(a, objs, st, sn, q.store, d.plan)
<1>1. PICK os, inj, all, hash, order :
        /\ os = NewObjectSet(objs) /\ inj = runInjectors(a, injectLabelsAndAnnotations(a.o, os))
        /\ all = inj.objs /\ hash = objectSetHash(Annotations(a.o))
        /\ order = GVKOrder(os, DOMAIN Cell(a.mem, a.o.pruneTypes))
  OBVIOUS
<1>2. ~os.err /\ ~LabelsMissing(a.o) /\ ~inj.err
  BY <1>1, GoesThrough
<1>3. PICK r : IsResult(r) /\ r.store = st /\ q = processAll(a, os, all, order, hash, sn, no, r)
  BY <1>1, <1>2, Applying
<1>4. PICK e : IsResult(e) /\ e.store = st /\ d = processAll(a, os, all, order, hash, sn, yes, e)
  BY <1>1, <1>2, Applying
<1>5. Indexed(os)
  BY <1>1, SetIndexed, IsSeqProperties
<1>6. IsSeq(order) /\ \A i \in DOMAIN os.gvkOrder : i \in DOMAIN order /\ order[i] = os.gvkOrder[i]
  BY <1>1, <1>5, OrderExtends, ProgramsAssumption
<1>7. Len(order) \in Nat /\ DOMAIN order = 1 .. Len(order)
  BY <1>6, IsSeqProperties
<1>8. Returned(a, objs) = all
  BY <1>1 DEF Returned
<1>9. Kept(a, objs) = {k \in DOMAIN all : all[k].hash = hash}
  BY <1>1, <1>8 DEF Kept
<1>10. SUFFICES ASSUME Recognised(a, objs)
                PROVE  /\ sn = st => \A k \in Kept(a, objs) :
                             Labels(a, objs, k) => Has(q.store, Spot(a.o, k), hash)
                       /\ \A j \in DOMAIN st \ DOMAIN q.store : Planned(d.plan, j)
  BY <1>1 DEF Leaves
<1>11. Known(a.o, os, all, hash)
  BY <1>1, <1>9, <1>10 DEF Recognised, Known
<1>12. ASSUME sn = st, NEW k \in Kept(a, objs), Labels(a, objs, k) PROVE Has(q.store, Spot(a.o, k), hash)
  <2>1. PICK j : j = Spot(a.o, k)
    OBVIOUS
  <2>2. k \in DOMAIN all /\ all[k].hash = hash
    BY <1>9, <1>12
  <2>3. k \in DOMAIN os.objects
    BY <1>11, <2>2 DEF Known
  <2>4. k = <<k[1], k[2]>> /\ \E i \in DOMAIN os.gvkOrder : os.gvkOrder[i] = k[1]
    BY <1>5, <2>3 DEF Indexed
  <2>5. PICK m \in 1 .. Len(order) : order[m] = k[1]
    BY <1>6, <1>7, <2>4
  <2>6. Wanted(a, all, hash, k, j)
    BY <1>8, <1>9, <1>12, <2>1, <2>2, <2>4 DEF Labels, Wanted
  <2>7. q = processAll(a, os, all, order, hash, st, no, r)
    BY <1>3, <1>12
  <2>8. Has(q.store, j, hash)
    BY <1>3, <1>5, <1>7, <1>11, <2>5, <2>6, <2>7, LoopStays
  <2> QED BY <2>1, <2>8
<1>13. ASSUME NEW j \in DOMAIN st \ DOMAIN q.store PROVE Planned(d.plan, j)
  BY <1>3, <1>4, <1>5, <1>7, <1>11, <1>13, LoopForetold
<1> QED BY <1>12, <1>13

\* The objects in the API server are those that the last call of Apply left.
CallDone ==
    last.op = "Apply" =>
        /\ last.what \in ObjectSets
        /\ \E rl, q : /\ q = apply(last.a, last.what, last.before, last.seen, rl, FALSE)
                      /\ ~q.err /\ store = q.store

\* Every other step forgets the call, or leaves the objects alone.
LEMMA AppliedCalls == ProgramsSpec => []CallDone
<1>1. ProgramsInit => CallDone
  BY DEF ProgramsInit, NoLast, CallDone
<1>2. ASSUME CallDone, [ProgramsNext]_programVars PROVE CallDone'
  <2>1. ASSUME last'.op # "Apply" PROVE CallDone'
    BY <2>1 DEF CallDone
  <2>2. ASSUME last' = NoLast PROVE CallDone'
    BY <2>1, <2>2 DEF NoLast
  <2>3. ASSUME UNCHANGED <<store, last>> PROVE CallDone'
    BY <1>2, <2>3 DEF CallDone
  <2>4. CASE Options
    <3>1. PICK n \in DOMAIN aps : Derives(n)
      BY <2>4 DEF Options
    <3>2. \E r : Derive(r)
      BY <3>1 DEF Derives
    <3>3. UNCHANGED <<store, last>>
      BY <3>2 DEF Derive
    <3> QED BY <2>3, <3>3
  <2>5. ASSUME NEW n, Apply(n) PROVE CallDone'
    <3>1. PICK objs \in ObjectSets : \E r \in {apply(Ap(n), objs, store, seen, rls, FALSE)} :
            Did("Apply", n, objs, r) /\ store' = r.store
      BY <2>5, Zenon DEF Apply
    <3>2. PICK r : /\ r = apply(Ap(n), objs, store, seen, rls, FALSE)
                   /\ Did("Apply", n, objs, r) /\ store' = r.store
      BY <3>1, Zenon
    <3>3. CASE r.err
      <4>1. last' = NoLast
        BY <3>2, <3>3 DEF Did
      <4> QED BY <2>2, <4>1
    <3>4. CASE ~r.err
      <4>1. last' = [op |-> "Apply", a |-> Ap(n), what |-> objs, before |-> store, seen |-> seen]
        BY <3>2, <3>4 DEF Did
      <4>2. last'.a = Ap(n) /\ last'.what = objs /\ last'.before = store /\ last'.seen = seen
        BY <4>1
      <4>3. r = apply(last'.a, last'.what, last'.before, last'.seen, rls, FALSE)
        BY <3>2, <4>2, Zenon
      <4>4. store' = r.store /\ last'.what \in ObjectSets
        BY <3>2, <4>2
      <4> QED BY <3>4, <4>3, <4>4, Zenon DEF CallDone
    <3> QED BY <3>3, <3>4
  <2>6. ASSUME NEW n, DryRun(n) PROVE CallDone'
    BY <2>2, <2>6 DEF DryRun
  <2>7. ASSUME NEW n, Purge(n) PROVE CallDone'
    <3>1. PICK k, r : Did("PurgeOrphan", n, k, r)
      BY <2>7 DEF Purge
    <3>2. last' = NoLast \/ last'.op = "PurgeOrphan"
      BY <3>1 DEF Did
    <3>3. CASE last'.op = "PurgeOrphan"
      BY <2>1, <3>3
    <3> QED BY <2>2, <3>2, <3>3
  <2>8. CASE Owner
    BY <2>2, <2>8 DEF Owner
  <2>9. CASE Sync
    BY <2>2, <2>9 DEF Sync
  <2>10. CASE UNCHANGED programVars
    BY <2>3, <2>10 DEF programVars
  <2> QED BY <1>2, <2>4, <2>5, <2>6, <2>7, <2>8, <2>9, <2>10 DEF ProgramsNext, Calls
<1> QED BY <1>1, <1>2, PTL DEF ProgramsSpec

\* After a call of Apply that returned no error every object of the set is where
\* it belongs with the labels of the set, whatever other versions of its kind
\* the call processed after it, and everything that the call deleted a dry run
\* would have listed.
THEOREM AppliedObjectsStay == ProgramsSpec => []AppliedStays
<1>1. ASSUME CallDone PROVE AppliedStays
  <2>1. SUFFICES ASSUME last.op = "Apply" PROVE AppliedStays
    BY DEF AppliedStays
  <2>2. PICK rl, q : /\ q = apply(last.a, last.what, last.before, last.seen, rl, FALSE)
                     /\ ~q.err /\ store = q.store
    BY <1>1, <2>1, Zenon DEF CallDone
  <2>3. PICK a, objs, st, sn, no, yes : /\ a = last.a /\ objs = last.what /\ st = last.before /\ sn = last.seen
                                        /\ no = FALSE /\ yes = TRUE
    BY Zenon
  <2>4. PICK d : d = apply(a, objs, st, sn, rls, yes)
    OBVIOUS
  <2>5. q = apply(a, objs, st, sn, rl, no) /\ No(no) /\ Yes(yes)
    BY <2>2, <2>3, Zenon DEF No, Yes
  <2>6. IsSeq(objs)
    BY <1>1, <2>1, <2>3, ProgramsAssumption, Zenon DEF CallDone
  <2>7. Leaves(a, objs, st, sn, q.store, d.plan)
    BY <2>2, <2>4, <2>5, <2>6, ApplyLeaves, Zenon
  <2>8. d = apply(last.a, last.what, last.before, last.seen, rls, TRUE)
    BY <2>3, <2>4, Zenon
  <2>9. Leaves(last.a, last.what, last.before, last.seen, store, d.plan)
    BY <2>2, <2>3, <2>7, Zenon
  <2> QED BY <2>8, <2>9, Zenon DEF AppliedStays, Leaves, There, Has, Planned
<1> QED BY <1>1, AppliedCalls, PTL

(***************************************************************************)
(* Summaries.                                                              *)
(***************************************************************************)

-----------------------------------------------------------------------------
(* A pass over the conditions *)

\* f has the summaries that the first n conditions leave one after the other.
Walked(f, pass, s, conds, n) ==
    f = [k \in 0 .. n |-> IF k = 0 THEN s ELSE Note(pass, f[k - 1], conds[k])]

\* There is such a function for any number of conditions.
LEMMA WalkExists ==
    ASSUME NEW pass, NEW s, NEW conds
    PROVE  \A n \in Nat : \E f : Walked(f, pass, s, conds, n)
<1> DEFINE T == {n \in Nat : \E f : Walked(f, pass, s, conds, n)}
<1>1. 0 \in T
  <2> DEFINE f == [k \in 0 .. 0 |-> s]
  <2>1. f = [k \in 0 .. 0 |-> IF k = 0 THEN s ELSE Note(pass, f[k - 1], conds[k])]
    OBVIOUS
  <2> HIDE DEF f
  <2> QED BY <2>1 DEF Walked
<1>2. ASSUME NEW n \in Nat, n \in T PROVE n + 1 \in T
  <2>1. PICK f : Walked(f, pass, s, conds, n)
    BY <1>2
  <2> DEFINE x == Note(pass, f[n], conds[n + 1])
             g == [k \in 0 .. n + 1 |-> IF k = n + 1 THEN x ELSE f[k]]
             h == [k \in 0 .. n + 1 |-> IF k = 0 THEN s ELSE Note(pass, g[k - 1], conds[k])]
  <2>2. g[n + 1] = x /\ \A k \in 0 .. n : g[k] = f[k]
    OBVIOUS
  <2>3. ASSUME NEW k \in 0 .. n + 1 PROVE g[k] = h[k]
    <3>1. CASE k = n + 1
      <4>1. h[k] = Note(pass, g[n], conds[n + 1])
        BY <3>1
      <4>2. g[n] = f[n]
        BY <2>2
      <4> HIDE DEF g, h
      <4> QED BY <2>2, <3>1, <4>1, <4>2
    <3>2. CASE k \in 0 .. n
      <4>1. f[k] = IF k = 0 THEN s ELSE Note(pass, f[k - 1], conds[k])
        BY <2>1, <3>2 DEF Walked
      <4>2. h[k] = IF k = 0 THEN s ELSE Note(pass, g[k - 1], conds[k])
        OBVIOUS
      <4>3. k # 0 => k - 1 \in 0 .. n
        BY <3>2
      <4>4. g[k] = f[k] /\ (k # 0 => g[k - 1] = f[k - 1])
        BY <2>2, <3>2, <4>3
      <4> HIDE DEF g, h
      <4> QED BY <4>1, <4>2, <4>4
    <3> QED BY <3>1, <3>2
  <2>4. g = [k \in 0 .. n + 1 |-> g[k]] /\ h = [k \in 0 .. n + 1 |-> h[k]]
    OBVIOUS
  <2>5. g = h
    <3> HIDE DEF g, h
    <3> QED BY <2>3, <2>4
  <2> HIDE DEF g
  <2>6. Walked(g, pass, s, conds, n + 1)
    BY <2>5 DEF Walked
  <2> QED BY <2>6
<1> HIDE DEF T
<1>3. \A n \in Nat : n \in T
  BY <1>1, <1>2, SetInduction
<1> QED BY <1>3 DEF T

\* What a pass comes to is the end of these summaries.
LEMMA WalkValue ==
    ASSUME NEW pass, NEW s, NEW conds, Len(conds) \in Nat
    PROVE  \E f : /\ f[0] = s
                  /\ \A k \in 0 .. Len(conds) - 1 : f[k + 1] = Note(pass, f[k], conds[k + 1])
                  /\ Walk(pass, s, conds) = f[Len(conds)]
<1> DEFINE n == Len(conds)
           F == CHOOSE f : Walked(f, pass, s, conds, n)
<1>1. Walk(pass, s, conds) = F[n]
  BY DEF Walk, Walked
<1>2. Walked(F, pass, s, conds, n)
  BY WalkExists
<1> HIDE DEF F, n
<1>3. n \in Nat
  BY DEF n
<1>4. F[0] = s
  BY <1>2, <1>3 DEF Walked
<1>5. ASSUME NEW k \in 0 .. n - 1 PROVE F[k + 1] = Note(pass, F[k], conds[k + 1])
  <2>1. k + 1 \in 0 .. n /\ k + 1 # 0 /\ (k + 1) - 1 = k
    BY <1>3
  <2> QED BY <1>2, <2>1 DEF Walked
<1> QED BY <1>1, <1>4, <1>5 DEF n

-----------------------------------------------------------------------------
(* Summaries *)

\* A summary is a record with two flags.
IsSum(s) ==
    /\ s = [state |-> s.state, error |-> s.error, transitioning |-> s.transitioning,
            message |-> s.message, rels |-> s.rels, hasObserved |-> s.hasObserved]
    /\ s.error \in BOOLEAN /\ s.transitioning \in BOOLEAN
Flagged(s) == s.error = TRUE \/ s.transitioning = TRUE

\* r says the same as s.
Same(s, r) ==
    IsSum(r) /\ r.state = s.state /\ r.error = s.error /\ r.transitioning = s.transitioning

\* The ways to write into a summary.
LEMMA Written ==
    ASSUME NEW s, IsSum(s), NEW x
    PROVE  /\ Same(s, Say(s, x)) /\ Same(s, Relate(s, x))
           /\ IsSum(Moving(s, x)) /\ Moving(s, x).state = x /\ Moving(s, x).transitioning = TRUE
           /\ Moving(s, x).error = s.error
           /\ IsSum(Failing(s, x)) /\ Failing(s, x).state = x /\ Failing(s, x).error = TRUE
           /\ Failing(s, x).transitioning = s.transitioning
<1>1. PICK a, b, c, d, e, f :
        /\ s = [state |-> a, error |-> b, transitioning |-> c, message |-> d, rels |-> e, hasObserved |-> f]
        /\ a = s.state /\ b = s.error /\ c = s.transitioning
  BY Zenon DEF IsSum
<1>2. b \in BOOLEAN /\ c \in BOOLEAN
  BY <1>1 DEF IsSum
<1>3. PICK u : u = TRUE /\ u \in BOOLEAN
  BY Zenon
<1>4. Same(s, Say(s, x))
  BY SMTT(40) DEF IsSum, Same, Say
<1>5. Same(s, Relate(s, x))
  <2>1. Relate(s, x) = [state |-> a, error |-> b, transitioning |-> c, message |-> d,
                        rels |-> e \o x, hasObserved |-> f]
    BY <1>1, SMTT(40) DEF Relate
  <2> QED BY <1>1, <1>2, <2>1 DEF Same, IsSum
<1>6. /\ IsSum(Moving(s, x)) /\ Moving(s, x).state = x /\ Moving(s, x).transitioning = TRUE
      /\ Moving(s, x).error = s.error
  <2>1. PICK r : r = [s EXCEPT !.state = x, !.transitioning = u]
    OBVIOUS
  <2>2. r = Moving(s, x)
    BY <1>3, <2>1, Zenon DEF Moving
  <2>3. r = [state |-> x, error |-> b, transitioning |-> u, message |-> d, rels |-> e, hasObserved |-> f]
    BY <1>1, <2>1
  <2>4. IsSum(r) /\ r.state = x /\ r.transitioning = u /\ r.error = b
    BY <1>2, <1>3, <2>3 DEF IsSum
  <2> QED BY <1>1, <1>3, <2>2, <2>4, Zenon
<1>7. /\ IsSum(Failing(s, x)) /\ Failing(s, x).state = x /\ Failing(s, x).error = TRUE
      /\ Failing(s, x).transitioning = s.transitioning
  <2>1. PICK r : r = [s EXCEPT !.state = x, !.error = u]
    OBVIOUS
  <2>2. r = Failing(s, x)
    BY <1>3, <2>1, Zenon DEF Failing
  <2>3. r = [state |-> x, error |-> u, transitioning |-> c, message |-> d, rels |-> e, hasObserved |-> f]
    BY <1>1, <2>1
  <2>4. IsSum(r) /\ r.state = x /\ r.error = u /\ r.transitioning = c
    BY <1>2, <1>3, <2>3 DEF IsSum
  <2> QED BY <1>1, <1>3, <2>2, <2>4, Zenon
<1> QED BY <1>4, <1>5, <1>6, <1>7

\* r is s in transition, or in error.
MovedTo(s, r) == IsSum(r) /\ r.transitioning = TRUE /\ r.error = s.error
FailedTo(s, r) == IsSum(r) /\ r.error = TRUE /\ r.transitioning = s.transitioning

\* A condition moves the summary, with a message.
LEMMA ToldMoving ==
    ASSUME NEW s, IsSum(s), NEW x, NEW m, NEW r, r = Say(Moving(s, x), m)
    PROVE  MovedTo(s, r)
<1>1. PICK a : a = Moving(s, x)
  OBVIOUS
<1>2. IsSum(a) /\ a.transitioning = TRUE /\ a.error = s.error
  BY <1>1, Written
<1>3. Same(a, Say(a, m))
  BY <1>2, Written
<1>4. r = Say(a, m)
  BY <1>1
<1> QED BY <1>2, <1>3, <1>4 DEF Same, MovedTo, FailedTo

\* Or fails it.
LEMMA ToldFailing ==
    ASSUME NEW s, IsSum(s), NEW x, NEW m, NEW r, r = Say(Failing(s, x), m)
    PROVE  FailedTo(s, r)
<1>1. PICK a : a = Failing(s, x)
  OBVIOUS
<1>2. IsSum(a) /\ a.error = TRUE /\ a.transitioning = s.transitioning
  BY <1>1, Written
<1>3. Same(a, Say(a, m))
  BY <1>2, Written
<1>4. r = Say(a, m)
  BY <1>1
<1> QED BY <1>2, <1>3, <1>4 DEF Same, MovedTo, FailedTo

-----------------------------------------------------------------------------
(* Conditions.  Hard ones are errors, soft ones are errors or in transition. *)

UType(c) == c.type \in DOMAIN TransitioningUnknown
TType(c) == c.type \in DOMAIN TransitioningTrue
FType(c) == c.type \in DOMAIN TransitioningFalse
Hard(table, c) ==
    IsError(table, c) \/ (UType(c) /\ c.status = "False") \/ (FType(c) /\ c.status = "Unknown")
Soft(table, c) ==
    \/ Hard(table, c)
    \/ UType(c) /\ c.status = "Unknown"
    \/ TType(c) /\ c.status = "True"
    \/ FType(c) /\ c.status = "False"

\* The types of the third table are in none of the others.
LEMMA TablesApart ==
    ASSUME NEW c, FType(c)
    PROVE  ~UType(c) /\ ~TType(c)
<1>1. c.type \in {"BootstrapConfigReady", "InfrastructureReady", "Completed", "Ready", "Available", "MachinesReady"}
  BY DEF FType, TransitioningFalse, Table
<1>2. ~TType(c)
  BY <1>1 DEF TType, TransitioningTrue, Table
<1>3. ~UType(c)
  BY <1>1 DEF UType, TransitioningUnknown, Table
<1> QED BY <1>2, <1>3

\* Ready is a type of the third table.
LEMMA ReadyType ==
    ASSUME NEW c, c.type = "Ready" PROVE FType(c)
BY DEF FType, TransitioningFalse, Table

-----------------------------------------------------------------------------
(* What one condition does in a pass.                                        *)

Passes == {"errors", "unknown", "true", "false"}
HardIn(pass, c) ==
    \/ pass[1] = "errors" /\ IsError(pass[2], c)
    \/ pass[1] = "unknown" /\ UType(c) /\ c.status = "False"
    \/ pass[1] = "false" /\ FType(c) /\ c.status = "Unknown"
SoftIn(pass, c) ==
    \/ HardIn(pass, c)
    \/ pass[1] = "unknown" /\ UType(c) /\ c.status = "Unknown"
    \/ pass[1] = "true" /\ TType(c) /\ c.status = "True"
    \/ pass[1] = "false" /\ FType(c) /\ c.status = "False"

\* The summary of a pass; the one for the third table keeps Ready=False beside it.
SumOf(pass, acc) == IF pass[1] = "false" THEN acc.s ELSE acc
Erred(pass, acc) == SumOf(pass, acc).error = TRUE
Stirred(pass, acc) ==
    \/ SumOf(pass, acc).error = TRUE
    \/ SumOf(pass, acc).transitioning = TRUE
    \/ pass[1] = "false" /\ acc.unready # <<>>
\* A summary that has a state has a flag.
Honest(s) == IsSum(s) /\ (s.state # Blank => s.error = TRUE \/ s.transitioning = TRUE)
AccOk(pass, acc) ==
    /\ Honest(SumOf(pass, acc))
    /\ pass[1] = "false" => acc = [s |-> acc.s, unready |-> acc.unready]

\* r is what a condition c makes of acc.
Noted(pass, acc, c, r) ==
    /\ AccOk(pass, r)
    /\ Erred(pass, acc) => Erred(pass, r)
    /\ Erred(pass, r) => Erred(pass, acc) \/ HardIn(pass, c)
    /\ Stirred(pass, acc) \/ SoftIn(pass, c) => Stirred(pass, r)
    /\ Stirred(pass, r) => Stirred(pass, acc) \/ SoftIn(pass, c)
    /\ HardIn(pass, c) /\ (pass[1] = "false" => acc.s.state = Blank) => Erred(pass, r)
    /\ ~SoftIn(pass, c) => r = acc

\* The three passes whose summary is all they keep.
LEMMA PlainNoted ==
    ASSUME NEW pass, NEW acc, NEW c, pass[1] \in {"errors", "unknown", "true"}, AccOk(pass, acc)
    PROVE  Noted(pass, acc, c, Note(pass, acc, c))
<1> DEFINE r == Note(pass, acc, c)
<1>1. pass[1] # "false" /\ IsSum(acc) /\ Honest(acc)
  BY DEF AccOk, SumOf, Honest
<1>2. ASSUME NEW x, NEW m, r = Say(Failing(acc, x), m), HardIn(pass, c)
      PROVE  Noted(pass, acc, c, r)
  <2>1. FailedTo(acc, r)
    BY <1>1, <1>2, ToldFailing
  <2>2. Honest(r)
    BY <2>1 DEF Honest, MovedTo, FailedTo
  <2> HIDE DEF r
  <2> QED BY <1>1, <1>2, <2>1, <2>2 DEF Noted, AccOk, SumOf, Erred, Stirred, MovedTo, FailedTo, SoftIn
<1>3. ASSUME NEW x, NEW m, r = Say(Moving(acc, x), m), SoftIn(pass, c), ~HardIn(pass, c)
      PROVE  Noted(pass, acc, c, r)
  <2>1. MovedTo(acc, r)
    BY <1>1, <1>3, ToldMoving
  <2>2. Honest(r)
    BY <2>1 DEF Honest, MovedTo, FailedTo
  <2> HIDE DEF r
  <2> QED BY <1>1, <1>3, <2>1, <2>2 DEF Noted, AccOk, SumOf, Erred, Stirred, MovedTo, FailedTo
<1>4. ASSUME r = acc, ~HardIn(pass, c), SoftIn(pass, c) => acc.state # Blank
      PROVE  Noted(pass, acc, c, r)
  <2>1. SoftIn(pass, c) => Stirred(pass, acc)
    BY <1>1, <1>4 DEF Honest, Stirred, SumOf
  <2> HIDE DEF r
  <2> QED BY <1>1, <1>4, <2>1 DEF Noted, AccOk, SumOf, Erred, Stirred
<1>5. CASE pass[1] = "errors"
  <2>1. r = NoteError(pass[2], acc, c)
    BY <1>5 DEF Note
  <2>2. (HardIn(pass, c) <=> IsError(pass[2], c)) /\ (SoftIn(pass, c) <=> HardIn(pass, c))
    BY <1>5 DEF HardIn, SoftIn
  <2> HIDE DEF r
  <2>3. CASE IsError(pass[2], c)
    <3>1. PICK x, m : r = Say(Failing(acc, x), m)
      BY <2>1, <2>3, Zenon DEF NoteError
    <3> QED BY <1>2, <2>2, <2>3, <3>1 DEF r
  <2>4. CASE ~IsError(pass[2], c)
    <3>1. r = acc
      BY <2>1, <2>4, Zenon DEF NoteError
    <3> QED BY <1>4, <2>2, <2>4, <3>1 DEF r
  <2> QED BY <2>3, <2>4 DEF r
<1>6. CASE pass[1] = "unknown"
  <2>1. r = NoteUnknown(acc, c)
    BY <1>6 DEF Note
  <2>2. /\ HardIn(pass, c) <=> (UType(c) /\ c.status = "False")
        /\ SoftIn(pass, c) <=> (UType(c) /\ c.status \in {"False", "Unknown"})
    BY <1>6 DEF HardIn, SoftIn
  <2> HIDE DEF r
  <2>3. CASE UType(c) /\ c.status = "False"
    <3>1. PICK x, m : r = Say(Failing(acc, x), m)
      BY <2>1, <2>3, Zenon DEF NoteUnknown, UType
    <3> QED BY <1>2, <2>2, <2>3, <3>1 DEF r
  <2>4. CASE UType(c) /\ c.status = "Unknown" /\ acc.state = Blank
    <3>1. PICK x, m : r = Say(Moving(acc, x), m)
      BY <2>1, <2>4 DEF NoteUnknown, UType
    <3> QED BY <1>3, <2>2, <2>4, <3>1 DEF r
  <2>5. CASE ~UType(c) \/ (c.status # "False" /\ ~(c.status = "Unknown" /\ acc.state = Blank))
    <3>1. r = acc
      BY <2>1, <2>5, Zenon DEF NoteUnknown, UType
    <3> QED BY <1>4, <2>2, <2>5, <3>1 DEF r
  <2> QED BY <2>3, <2>4, <2>5 DEF r
<1>7. CASE pass[1] = "true"
  <2>1. r = NoteTrue(acc, c)
    BY <1>7 DEF Note
  <2>2. ~HardIn(pass, c) /\ (SoftIn(pass, c) <=> (TType(c) /\ c.status = "True"))
    BY <1>7 DEF HardIn, SoftIn
  <2> HIDE DEF r
  <2>3. CASE TType(c) /\ c.status = "True" /\ acc.state = Blank
    <3>1. PICK x, m : r = Say(Moving(acc, x), m)
      BY <2>1, <2>3, Zenon DEF NoteTrue, TType
    <3> QED BY <1>3, <2>2, <2>3, <3>1 DEF r
  <2>4. CASE ~(TType(c) /\ c.status = "True" /\ acc.state = Blank)
    <3>1. r = acc
      BY <2>1, <2>4, Zenon DEF NoteTrue, TType
    <3> QED BY <1>4, <2>2, <2>4, <3>1 DEF r
  <2> QED BY <2>3, <2>4 DEF r
<1> QED BY <1>5, <1>6, <1>7

\* The pass that keeps Ready=False.
LEMMA FalseNoted ==
    ASSUME NEW pass, NEW acc, NEW c, pass[1] = "false", AccOk(pass, acc)
    PROVE  Noted(pass, acc, c, Note(pass, acc, c))
<1>1. PICK s, u, r : /\ s = acc.s /\ u = acc.unready /\ acc = [s |-> s, unready |-> u]
                     /\ r = Note(pass, acc, c)
  BY DEF AccOk
<1>2. Honest(s) /\ IsSum(s)
  BY <1>1 DEF AccOk, SumOf, Honest
<1>3. r = NoteFalse(acc, c)
  BY <1>1 DEF Note
<1>4. /\ HardIn(pass, c) <=> (FType(c) /\ c.status = "Unknown")
      /\ SoftIn(pass, c) <=> (FType(c) /\ c.status \in {"False", "Unknown"})
  BY DEF HardIn, SoftIn
<1>5. CASE s.state # Blank \/ ~FType(c)
  <2>1. r = acc
    BY <1>1, <1>3, <1>5, Zenon DEF NoteFalse, FType
  <2>2. SoftIn(pass, c) => Stirred(pass, acc)
    BY <1>1, <1>2, <1>4, <1>5 DEF Honest, Stirred, SumOf
  <2>3. HardIn(pass, c) => acc.s.state # Blank
    BY <1>1, <1>4, <1>5
  <2>4. Noted(pass, acc, c, acc)
    BY <2>2, <2>3 DEF Noted
  <2> QED BY <1>1, <2>1, <2>4
<1>6. CASE s.state = Blank /\ FType(c) /\ c.type = "Ready" /\ c.status = "False"
  <2>1. r = [acc EXCEPT !.unready = <<Muted(c.message, "steps")>>]
    BY <1>1, <1>3, <1>6, Zenon DEF NoteFalse, FType
  <2>2. PICK m, v : m = Muted(c.message, "steps") /\ v = <<m>>
    OBVIOUS
  <2>8. v # <<>>
    BY <2>2
  <2>3. r = [s |-> s, unready |-> v]
    BY <1>1, <2>1, <2>2
  <2>4. r.s = s /\ r.unready # <<>> /\ r = [s |-> r.s, unready |-> r.unready]
    BY <2>8, <2>3
  <2>5. AccOk(pass, r) /\ (Erred(pass, r) <=> Erred(pass, acc)) /\ Stirred(pass, r)
    BY <1>1, <1>2, <2>4 DEF AccOk, SumOf, Erred, Stirred
  <2>6. ~HardIn(pass, c) /\ SoftIn(pass, c)
    BY <1>4, <1>6
  <2>7. Noted(pass, acc, c, r)
    BY <2>5, <2>6 DEF Noted
  <2> QED BY <1>1, <2>7
<1>7. CASE s.state = Blank /\ FType(c) /\ c.type # "Ready" /\ c.status = "False"
  <2>1. PICK x, m : r = [acc EXCEPT !.s = Say(Moving(acc.s, x), m)]
    BY <1>1, <1>3, <1>7 DEF NoteFalse, FType
  <2>2. PICK t : t = Say(Moving(s, x), m)
    OBVIOUS
  <2>9. MovedTo(s, t)
    BY <1>2, <2>2, ToldMoving
  <2>3. r = [s |-> t, unready |-> u]
    BY <1>1, <2>1, <2>2
  <2>4. r.s = t /\ r = [s |-> r.s, unready |-> r.unready] /\ Honest(t)
    BY <2>2, <2>9, <2>3 DEF Honest, MovedTo, FailedTo
  <2>5. AccOk(pass, r) /\ (Erred(pass, r) <=> Erred(pass, acc)) /\ Stirred(pass, r)
    BY <1>1, <1>2, <2>9, <2>4 DEF MovedTo, FailedTo, AccOk, SumOf, Erred, Stirred
  <2>6. ~HardIn(pass, c) /\ SoftIn(pass, c)
    BY <1>4, <1>7
  <2>7. Noted(pass, acc, c, r)
    BY <2>5, <2>6 DEF Noted
  <2> QED BY <1>1, <2>7
<1>8. CASE s.state = Blank /\ FType(c) /\ c.status = "Unknown"
  <2>1. PICK x, m : r = [acc EXCEPT !.s = Say(Failing(acc.s, x), m)]
    BY <1>1, <1>3, <1>8 DEF NoteFalse, FType
  <2>2. PICK t : t = Say(Failing(s, x), m)
    OBVIOUS
  <2>9. FailedTo(s, t)
    BY <1>2, <2>2, ToldFailing
  <2>3. r = [s |-> t, unready |-> u]
    BY <1>1, <2>1, <2>2
  <2>4. r.s = t /\ r = [s |-> r.s, unready |-> r.unready] /\ Honest(t)
    BY <2>2, <2>9, <2>3 DEF Honest, MovedTo, FailedTo
  <2>5. AccOk(pass, r) /\ Erred(pass, r) /\ Stirred(pass, r)
    BY <1>1, <1>2, <2>9, <2>4 DEF MovedTo, FailedTo, AccOk, SumOf, Erred, Stirred
  <2>6. HardIn(pass, c) /\ SoftIn(pass, c)
    BY <1>4, <1>8
  <2>7. Noted(pass, acc, c, r)
    BY <2>5, <2>6 DEF Noted
  <2> QED BY <1>1, <2>7
<1>9. CASE s.state = Blank /\ FType(c) /\ c.status \notin {"False", "Unknown"}
  <2>1. r = acc
    BY <1>1, <1>3, <1>9 DEF NoteFalse, FType
  <2>2. ~HardIn(pass, c) /\ ~SoftIn(pass, c)
    BY <1>4, <1>9
  <2>3. Noted(pass, acc, c, acc)
    BY <2>2 DEF Noted
  <2> QED BY <1>1, <2>1, <2>3
<1> QED BY <1>5, <1>6, <1>7, <1>8, <1>9

\* Each condition, in any pass.
LEMMA NoteStep ==
    ASSUME NEW pass, NEW acc, NEW c, pass[1] \in Passes, AccOk(pass, acc)
    PROVE  Noted(pass, acc, c, Note(pass, acc, c))
BY PlainNoted, FalseNoted DEF Passes

\* A pass over one condition.
LEMMA WalkOne ==
    ASSUME NEW pass, NEW s, NEW c
    PROVE  Walk(pass, s, <<c>>) = Note(pass, s, c)
<1>0. PICK conds : conds = <<c>>
  OBVIOUS
<1>1. conds = <<c>> /\ Len(conds) = 1 /\ conds[1] = c
  BY <1>0
<1>5. Len(conds) \in Nat
  BY <1>1
<1>2. PICK f : /\ f[0] = s
               /\ \A k \in 0 .. Len(conds) - 1 : f[k + 1] = Note(pass, f[k], conds[k + 1])
               /\ Walk(pass, s, conds) = f[Len(conds)]
  BY <1>5, WalkValue
<1>3. 0 \in 0 .. Len(conds) - 1 /\ 0 + 1 = 1
  BY <1>1
<1>4. f[1] = Note(pass, f[0], conds[1])
  BY <1>2, <1>3
<1> QED BY <1>1, <1>2, <1>4

\* r is what the conditions make of acc.
Passed(pass, acc, conds, n, r) ==
    /\ AccOk(pass, r)
    /\ Erred(pass, r) => Erred(pass, acc) \/ \E i \in 1 .. n : HardIn(pass, conds[i])
    /\ Stirred(pass, acc) => Stirred(pass, r)
    /\ \A i \in 1 .. n : SoftIn(pass, conds[i]) => Stirred(pass, r)

\* One condition more.
LEMMA PassMore ==
    ASSUME NEW pass, NEW acc, NEW conds, NEW n \in Nat, NEW r, NEW q,
           Passed(pass, acc, conds, n, r), Noted(pass, r, conds[n + 1], q)
    PROVE  Passed(pass, acc, conds, n + 1, q)
<1>1. AccOk(pass, q)
  BY DEF Noted
<1>2. ASSUME Erred(pass, q) PROVE Erred(pass, acc) \/ \E i \in 1 .. n + 1 : HardIn(pass, conds[i])
  <2>1. Erred(pass, r) \/ HardIn(pass, conds[n + 1])
    BY <1>2 DEF Noted
  <2>2. n + 1 \in 1 .. n + 1 /\ \A i \in 1 .. n : i \in 1 .. n + 1
    OBVIOUS
  <2> QED BY <2>1, <2>2 DEF Passed
<1>3. Stirred(pass, acc) => Stirred(pass, q)
  BY DEF Passed, Noted
<1>4. ASSUME NEW i \in 1 .. n + 1, SoftIn(pass, conds[i]) PROVE Stirred(pass, q)
  <2>1. CASE i = n + 1
    BY <1>4, <2>1 DEF Noted
  <2>2. CASE i \in 1 .. n
    <3>1. Stirred(pass, r)
      BY <1>4, <2>2 DEF Passed
    <3> QED BY <3>1 DEF Noted
  <2> QED BY <2>1, <2>2
<1> QED BY <1>1, <1>2, <1>3, <1>4 DEF Passed

\* All of them.
LEMMA WalkPasses ==
    ASSUME NEW pass, NEW acc, NEW conds, Len(conds) \in Nat, pass[1] \in Passes, AccOk(pass, acc)
    PROVE  Passed(pass, acc, conds, Len(conds), Walk(pass, acc, conds))
<1>1. PICK f : /\ f[0] = acc
               /\ \A k \in 0 .. Len(conds) - 1 : f[k + 1] = Note(pass, f[k], conds[k + 1])
               /\ Walk(pass, acc, conds) = f[Len(conds)]
  BY WalkValue
<1> DEFINE T == {n \in Nat : n <= Len(conds) => Passed(pass, acc, conds, n, f[n])}
<1>2. 0 \in T
  BY <1>1 DEF Passed
<1>3. ASSUME NEW n \in Nat, n \in T PROVE n + 1 \in T
  <2>1. SUFFICES ASSUME n + 1 <= Len(conds) PROVE Passed(pass, acc, conds, n + 1, f[n + 1])
    OBVIOUS
  <2>2. n \in 0 .. Len(conds) - 1 /\ n <= Len(conds)
    BY <2>1
  <2>3. f[n + 1] = Note(pass, f[n], conds[n + 1])
    BY <1>1, <2>2
  <2>4. Passed(pass, acc, conds, n, f[n])
    BY <1>3, <2>2
  <2>5. AccOk(pass, f[n])
    BY <2>4 DEF Passed
  <2>6. Noted(pass, f[n], conds[n + 1], f[n + 1])
    BY <2>3, <2>5, NoteStep
  <2> QED BY <2>4, <2>6, PassMore
<1> HIDE DEF T
<1>4. \A n \in Nat : n \in T
  BY <1>2, <1>3, SetInduction
<1>5. Passed(pass, acc, conds, Len(conds), f[Len(conds)])
  BY <1>4 DEF T
<1> QED BY <1>1, <1>5

-----------------------------------------------------------------------------
(* The errors and the transitions of all conditions.                         *)

\* The passes of a chain keep a summary of their own, or one beside Ready=False.
Plain(pass, s) ==
    /\ AccOk(pass, s) <=> Honest(s)
    /\ Erred(pass, s) <=> s.error = TRUE
    /\ Stirred(pass, s) <=> (s.error = TRUE \/ s.transitioning = TRUE)
\* The passes for errors, and for unknown and true conditions, are plain.
LEMMA PlainPasses ==
    ASSUME NEW pass, NEW s, pass[1] \in {"errors", "unknown", "true"}
    PROVE  pass[1] \in Passes /\ Plain(pass, s)
BY DEF Passes, AccOk, Erred, Stirred, SumOf, Plain

\* The parts of checkGenericTransitioning.
Moved(conds, s) == Walk(<<"true">>, Walk(<<"unknown">>, s, conds), conds)
Last(conds, s) == Walk(<<"false">>, [s |-> Moved(conds, s), unready |-> <<>>], conds)

\* The conditions that checkGenericTransitioning takes for errors, and the ones
\* that it takes for errors or transitions.
HardType(c) == \/ UType(c) /\ c.status = "False"
               \/ FType(c) /\ c.status = "Unknown"
SoftType(c) == \/ UType(c) /\ c.status \in {"False", "Unknown"}
               \/ TType(c) /\ c.status = "True"
               \/ FType(c) /\ c.status \in {"False", "Unknown"}

\* What checkGenericTransitioning makes of s: r is honest, its error comes from s or
\* a condition, and no flag is lost.
Ground(s, conds, r) ==
    /\ Honest(r)
    /\ r.error = TRUE => s.error = TRUE \/ \E i \in 1 .. Len(conds) : HardType(conds[i])
    /\ Flagged(s) => Flagged(r)
    /\ \A i \in 1 .. Len(conds) : SoftType(conds[i]) => Flagged(r)

\* The end of checkGenericTransitioning.
LEMMA GenericEnd ==
    ASSUME NEW conds, NEW s, NEW end, NEW r, end = Last(conds, s),
           r = checkGenericTransitioning(conds, s), AccOk(<<"false">>, end)
    PROVE  /\ Honest(r)
           /\ Stirred(<<"false">>, end) <=> (r.error = TRUE \/ r.transitioning = TRUE)
           /\ Erred(<<"false">>, end) <=> r.error = TRUE
<1>1. PICK pass : pass = <<"false">> /\ pass[1] = "false"
  OBVIOUS
<1>2. PICK t, u : t = end.s /\ u = end.unready
  OBVIOUS
<1>3. /\ Honest(t) /\ IsSum(t)
      /\ Erred(pass, end) <=> t.error = TRUE
      /\ Stirred(pass, end) <=> (t.error = TRUE \/ t.transitioning = TRUE \/ u # <<>>)
  BY <1>1, <1>2 DEF AccOk, Erred, Stirred, SumOf, Honest
<1>4. CASE t.state = Blank /\ u # <<>>
  <2>1. PICK m : r = Say(Moving(t, "unavailable"), m)
    BY <1>2, <1>4, Zenon DEF checkGenericTransitioning, Last, Moved
  <2>2. MovedTo(t, r)
    BY <1>3, <2>1, ToldMoving
  <2>3. Honest(r)
    BY <2>2 DEF Honest, MovedTo
  <2> QED BY <1>1, <1>3, <1>4, <2>2, <2>3 DEF MovedTo
<1>5. CASE ~(t.state = Blank /\ u # <<>>)
  <2>1. r = t
    BY <1>2, <1>5, Zenon DEF checkGenericTransitioning, Last, Moved
  <2>2. t.state # Blank => t.error = TRUE \/ t.transitioning = TRUE
    BY <1>3 DEF Honest
  <2> QED BY <1>1, <1>3, <1>5, <2>1, <2>2
<1> QED BY <1>4, <1>5

\* checkGenericTransitioning.
LEMMA GenericGrounds ==
    ASSUME NEW conds, NEW s, Len(conds) \in Nat, Honest(s)
    PROVE  Ground(s, conds, checkGenericTransitioning(conds, s))
<1>1. PICK n, pu, pt, pf : /\ n = Len(conds) /\ pu = <<"unknown">> /\ pt = <<"true">> /\ pf = <<"false">>
  OBVIOUS
<1>2. pu[1] = "unknown" /\ pt[1] = "true" /\ pf[1] = "false" /\ pf[1] \in Passes
  BY <1>1 DEF Passes
<1>3. PICK a, b, e, end, r :
        /\ a = Walk(pu, s, conds) /\ b = Walk(pt, a, conds) /\ e = [s |-> b, unready |-> <<>>]
        /\ end = Walk(pf, e, conds) /\ r = checkGenericTransitioning(conds, s)
  OBVIOUS
<1>20. \A x : Plain(pu, x) /\ Plain(pt, x)
  BY <1>2, PlainPasses
<1>21. pu[1] \in Passes /\ pt[1] \in Passes /\ AccOk(pu, s)
  BY <1>2, <1>20 DEF Passes, Plain
<1>4. Passed(pu, s, conds, n, a)
  BY <1>1, <1>3, <1>21, WalkPasses
<1>5. Honest(a) /\ AccOk(pt, a)
  BY <1>4, <1>20 DEF Passed, Plain
<1>6. Passed(pt, a, conds, n, b)
  BY <1>1, <1>3, <1>5, <1>21, WalkPasses
<1>7. Honest(b)
  BY <1>6, <1>20 DEF Passed, Plain
<1>8. /\ e.s = b /\ e.unready = <<>> /\ e = [s |-> e.s, unready |-> e.unready]
  BY <1>3
<1>9. /\ AccOk(pf, e) /\ (Erred(pf, e) <=> b.error = TRUE)
      /\ Stirred(pf, e) <=> (b.error = TRUE \/ b.transitioning = TRUE)
  BY <1>2, <1>7, <1>8 DEF AccOk, Erred, Stirred, SumOf
<1>10. Passed(pf, e, conds, n, end)
  BY <1>1, <1>2, <1>3, <1>9, WalkPasses
<1>11. end = Last(conds, s)
  BY <1>1, <1>3, Zenon DEF Last, Moved
<1>12. AccOk(pf, end)
  BY <1>10 DEF Passed
<1>13. /\ Honest(r)
       /\ Stirred(pf, end) <=> (r.error = TRUE \/ r.transitioning = TRUE)
       /\ Erred(pf, end) <=> r.error = TRUE
  BY <1>1, <1>3, <1>11, <1>12, GenericEnd
<1>14. /\ Erred(pu, s) <=> s.error = TRUE
       /\ Stirred(pu, s) <=> (s.error = TRUE \/ s.transitioning = TRUE)
       /\ Erred(pu, a) <=> a.error = TRUE
       /\ Stirred(pu, a) <=> (a.error = TRUE \/ a.transitioning = TRUE)
       /\ Erred(pt, a) <=> a.error = TRUE
       /\ Stirred(pt, a) <=> (a.error = TRUE \/ a.transitioning = TRUE)
       /\ Erred(pt, b) <=> b.error = TRUE
       /\ Stirred(pt, b) <=> (b.error = TRUE \/ b.transitioning = TRUE)
  BY <1>20 DEF Plain
<1>15. ASSUME NEW c
       PROVE  /\ HardIn(pu, c) <=> (UType(c) /\ c.status = "False")
              /\ SoftIn(pu, c) <=> (UType(c) /\ c.status \in {"False", "Unknown"})
              /\ ~HardIn(pt, c)
              /\ SoftIn(pt, c) <=> (TType(c) /\ c.status = "True")
              /\ HardIn(pf, c) <=> (FType(c) /\ c.status = "Unknown")
              /\ SoftIn(pf, c) <=> (FType(c) /\ c.status \in {"False", "Unknown"})
  BY <1>2 DEF HardIn, SoftIn
<1>16. ASSUME r.error = TRUE, ~(s.error = TRUE)
       PROVE  \E i \in 1 .. n : HardType(conds[i])
  <2>1. \/ \E i \in 1 .. n : HardIn(pu, conds[i])
        \/ \E i \in 1 .. n : HardIn(pt, conds[i])
        \/ \E i \in 1 .. n : HardIn(pf, conds[i])
    BY <1>4, <1>6, <1>9, <1>10, <1>13, <1>14, <1>16 DEF Passed
  <2> QED BY <1>15, <2>1 DEF HardType
<1>17. Flagged(s) => Flagged(r)
  BY <1>4, <1>6, <1>9, <1>10, <1>13, <1>14 DEF Passed, Flagged
<1>18. ASSUME NEW i \in 1 .. n, SoftIn(pu, conds[i]) \/ SoftIn(pt, conds[i]) \/ SoftIn(pf, conds[i])
       PROVE  Stirred(pf, end)
  BY <1>4, <1>6, <1>9, <1>10, <1>14, <1>18 DEF Passed
<1>19. ASSUME NEW i \in 1 .. n, SoftType(conds[i])
       PROVE  Flagged(r)
  BY <1>13, <1>15, <1>18, <1>19 DEF SoftType, Flagged
<1>22. Ground(s, conds, r)
  BY <1>1, <1>13, <1>16, <1>17, <1>19 DEF Ground
<1> QED BY <1>3, <1>22

-----------------------------------------------------------------------------
(* A condition on its own.                                                   *)

\* The empty summary.
LEMMA NoSummaryPlain ==
    Honest(NoSummary) /\ ~Flagged(NoSummary) /\ NoSummary.state = Blank
BY DEF NoSummary, Honest, IsSum, Flagged

\* The chain of one condition up to checkGenericTransitioning.
LEMMA OneCondition ==
    ASSUME NEW emap, NEW o, NEW c, NEW r,
           r = checkGenericTransitioning(<<c>>, checkErrors(emap, o, <<c>>, NoSummary))
    PROVE  /\ Honest(r)
           /\ Hard(ErrorTable(emap, o), c) => r.error = TRUE
           /\ Flagged(r) => Soft(ErrorTable(emap, o), c)
<1>1. PICK table, conds, pe, pu, pt, pf :
        /\ table = ErrorTable(emap, o) /\ conds = <<c>>
        /\ pe = <<"errors", table>> /\ pu = <<"unknown">> /\ pt = <<"true">> /\ pf = <<"false">>
  OBVIOUS
<1>2. /\ pe[1] = "errors" /\ pe[2] = table /\ pu[1] = "unknown" /\ pt[1] = "true" /\ pf[1] = "false"
      /\ pe[1] \in Passes /\ pu[1] \in Passes /\ pt[1] \in Passes /\ pf[1] \in Passes
  BY <1>1 DEF Passes
<1>3. PICK z, e, a, b, d, end :
        /\ z = NoSummary /\ e = Note(pe, z, c) /\ a = Note(pu, e, c) /\ b = Note(pt, a, c)
        /\ d = [s |-> b, unready |-> <<>>] /\ end = Note(pf, d, c)
  OBVIOUS
<1>4. e = checkErrors(emap, o, conds, NoSummary)
  <2>1. Walk(pe, z, conds) = Note(pe, z, c)
    BY <1>1, WalkOne
  <2> QED BY <1>1, <1>3, <2>1 DEF checkErrors
<1>5. end = Last(conds, e)
  <2>1. Walk(pu, e, conds) = a /\ Walk(pt, a, conds) = b /\ Walk(pf, d, conds) = end
    BY <1>1, <1>3, WalkOne
  <2> QED BY <1>1, <1>3, <2>1, Zenon DEF Last, Moved
<1>6. r = checkGenericTransitioning(conds, e)
  BY <1>1, <1>4
<1>7. \A x : Plain(pe, x) /\ Plain(pu, x) /\ Plain(pt, x)
  BY <1>2, PlainPasses
<1>8. Honest(z) /\ ~Flagged(z) /\ z.state = Blank
  BY <1>3, NoSummaryPlain
<1>9. Noted(pe, z, c, e)
  <2>1. AccOk(pe, z)
    BY <1>7, <1>8 DEF Plain
  <2> QED BY <1>2, <1>3, <2>1, NoteStep
<1>10. Honest(e)
  BY <1>7, <1>9 DEF Plain, Noted
<1>11. Noted(pu, e, c, a)
  <2>1. AccOk(pu, e)
    BY <1>7, <1>10 DEF Plain
  <2> QED BY <1>2, <1>3, <2>1, NoteStep
<1>12. Honest(a)
  BY <1>7, <1>11 DEF Plain, Noted
<1>13. Noted(pt, a, c, b)
  <2>1. AccOk(pt, a)
    BY <1>7, <1>12 DEF Plain
  <2> QED BY <1>2, <1>3, <2>1, NoteStep
<1>14. Honest(b)
  BY <1>7, <1>13 DEF Plain, Noted
<1>15. d.s = b /\ d.unready = <<>> /\ d = [s |-> d.s, unready |-> d.unready]
  BY <1>3
<1>16. /\ AccOk(pf, d) /\ (Erred(pf, d) <=> b.error = TRUE) /\ (Stirred(pf, d) <=> Flagged(b))
  BY <1>2, <1>14, <1>15 DEF AccOk, Erred, Stirred, SumOf, Flagged
<1>17. Noted(pf, d, c, end)
  BY <1>2, <1>3, <1>16, NoteStep
<1>18. /\ Honest(r)
       /\ Stirred(pf, end) <=> (r.error = TRUE \/ r.transitioning = TRUE)
       /\ Erred(pf, end) <=> r.error = TRUE
  <2>1. AccOk(pf, end)
    BY <1>17 DEF Noted
  <2> QED BY <1>1, <1>5, <1>6, <2>1, GenericEnd
<1>19. /\ HardIn(pe, c) <=> IsError(table, c)
       /\ SoftIn(pe, c) <=> IsError(table, c)
       /\ HardIn(pu, c) <=> (UType(c) /\ c.status = "False")
       /\ SoftIn(pu, c) <=> (UType(c) /\ c.status \in {"False", "Unknown"})
       /\ ~HardIn(pt, c)
       /\ SoftIn(pt, c) <=> (TType(c) /\ c.status = "True")
       /\ HardIn(pf, c) <=> (FType(c) /\ c.status = "Unknown")
       /\ SoftIn(pf, c) <=> (FType(c) /\ c.status \in {"False", "Unknown"})
  BY <1>2 DEF HardIn, SoftIn
<1>20. /\ Erred(pe, e) => Erred(pf, end)
       /\ Erred(pu, a) => Erred(pf, end)
  BY <1>7, <1>9, <1>11, <1>13, <1>16, <1>17 DEF Noted, Plain
<1>21. ASSUME Hard(table, c) PROVE Erred(pf, end)
  <2>1. CASE IsError(table, c)
    BY <1>2, <1>9, <1>19, <1>20, <2>1 DEF Noted
  <2>2. CASE UType(c) /\ c.status = "False"
    BY <1>2, <1>11, <1>19, <1>20, <2>2 DEF Noted
  <2>3. CASE ~IsError(table, c) /\ FType(c) /\ c.status = "Unknown"
    <3>1. ~UType(c) /\ ~TType(c)
      BY <2>3, TablesApart
    <3>2. e = z /\ a = e /\ b = a
      BY <1>9, <1>11, <1>13, <1>19, <2>3, <3>1 DEF Noted
    <3>3. d.s.state = Blank
      BY <1>8, <1>15, <3>2
    <3> QED BY <1>17, <1>19, <2>3, <3>3 DEF Noted
  <2> QED BY <1>21, <2>1, <2>2, <2>3 DEF Hard
<1>22. ASSUME Stirred(pf, end) PROVE Soft(table, c)
  <2>1. SoftIn(pf, c) \/ SoftIn(pt, c) \/ SoftIn(pu, c) \/ SoftIn(pe, c)
    BY <1>7, <1>8, <1>9, <1>11, <1>13, <1>16, <1>17, <1>22 DEF Noted, Plain, Flagged
  <2> QED BY <1>19, <2>1 DEF Soft, Hard
<1> QED BY <1>1, <1>18, <1>21, <1>22 DEF Flagged

-----------------------------------------------------------------------------
(* Other ways to write into a summary.                                       *)

\* Another message.
LEMMA MessageSet ==
    ASSUME NEW s, IsSum(s), NEW x, NEW r, r = [s EXCEPT !.message = x]
    PROVE  Same(s, r)
<1>1. PICK a, b, c, d, e, f :
        /\ s = [state |-> a, error |-> b, transitioning |-> c, message |-> d, rels |-> e, hasObserved |-> f]
        /\ a = s.state /\ b = s.error /\ c = s.transitioning
  BY Zenon DEF IsSum
<1>2. b \in BOOLEAN /\ c \in BOOLEAN
  BY <1>1 DEF IsSum
<1>3. r = [state |-> a, error |-> b, transitioning |-> c, message |-> x, rels |-> e, hasObserved |-> f]
  BY <1>1
<1> QED BY <1>1, <1>2, <1>3 DEF Same, IsSum

\* Another state.
StateTo(s, x, r) == IsSum(r) /\ r.state = x /\ r.error = s.error /\ r.transitioning = s.transitioning
\* A summary with another state.
LEMMA StateSet ==
    ASSUME NEW s, IsSum(s), NEW x, NEW r, r = [s EXCEPT !.state = x]
    PROVE  StateTo(s, x, r)
<1>1. PICK a, b, c, d, e, f :
        /\ s = [state |-> a, error |-> b, transitioning |-> c, message |-> d, rels |-> e, hasObserved |-> f]
        /\ a = s.state /\ b = s.error /\ c = s.transitioning
  BY Zenon DEF IsSum
<1>2. b \in BOOLEAN /\ c \in BOOLEAN
  BY <1>1 DEF IsSum
<1>3. r = [state |-> x, error |-> b, transitioning |-> c, message |-> d, rels |-> e, hasObserved |-> f]
  BY <1>1
<1> QED BY <1>1, <1>2, <1>3 DEF StateTo, IsSum

\* Another error.
ErrorTo(s, v, r) == IsSum(r) /\ r.state = s.state /\ r.error = v /\ r.transitioning = s.transitioning
\* A summary with another error flag.
LEMMA ErrorSet ==
    ASSUME NEW s, IsSum(s), NEW v, v \in BOOLEAN, NEW r, r = [s EXCEPT !.error = v]
    PROVE  ErrorTo(s, v, r)
<1>1. PICK a, b, c, d, e, f :
        /\ s = [state |-> a, error |-> b, transitioning |-> c, message |-> d, rels |-> e, hasObserved |-> f]
        /\ a = s.state /\ b = s.error /\ c = s.transitioning
  BY Zenon DEF IsSum
<1>2. b \in BOOLEAN /\ c \in BOOLEAN
  BY <1>1 DEF IsSum
<1>3. r = [state |-> a, error |-> v, transitioning |-> c, message |-> d, rels |-> e, hasObserved |-> f]
  BY <1>1
<1> QED BY <1>1, <1>2, <1>3 DEF ErrorTo, IsSum

\* Another state, in transition or not.
PhaseTo(s, x, v, r) == IsSum(r) /\ r.state = x /\ r.error = s.error /\ r.transitioning = v
\* A summary with another state and transition flag.
LEMMA PhaseSet ==
    ASSUME NEW s, IsSum(s), NEW x, NEW v, v \in BOOLEAN, NEW r, r = [s EXCEPT !.state = x, !.transitioning = v]
    PROVE  PhaseTo(s, x, v, r)
<1>1. PICK a, b, c, d, e, f :
        /\ s = [state |-> a, error |-> b, transitioning |-> c, message |-> d, rels |-> e, hasObserved |-> f]
        /\ a = s.state /\ b = s.error /\ c = s.transitioning
  BY Zenon DEF IsSum
<1>2. b \in BOOLEAN /\ c \in BOOLEAN
  BY <1>1 DEF IsSum
<1>3. r = [state |-> x, error |-> b, transitioning |-> v, message |-> d, rels |-> e, hasObserved |-> f]
  BY <1>1
<1> QED BY <1>1, <1>2, <1>3 DEF PhaseTo, IsSum

\* checkRemoving: a removal is in transition, and an error only when overdue.
Removing(o, s, r) ==
    /\ IsSum(r)
    /\ o.removed = Blank => r = s
    /\ o.removed # Blank => r.transitioning = TRUE /\ r.state = "removing"
    /\ s.error = TRUE => r.error = TRUE
    /\ r.error = TRUE => s.error = TRUE \/ o.removed = "old"
\* checkRemoving does that.
LEMMA RemovingSum ==
    ASSUME NEW o, NEW conds, NEW s, IsSum(s), NEW r, r = checkRemoving(o, conds, s)
    PROVE  Removing(o, s, r)
<1>1. CASE o.removed = Blank
  <2>1. r = s
    BY <1>1, Zenon DEF checkRemoving
  <2> QED BY <1>1, <2>1 DEF Removing
<1>2. CASE o.removed # Blank
  <2>1. PICK m : m = Moving(s, "removing")
    OBVIOUS
  <2>2. IsSum(m) /\ m.state = "removing" /\ m.transitioning = TRUE /\ m.error = s.error
    BY <2>1, Written
  <2>7. PICK x, u : /\ u = [m EXCEPT !.message = x]
                    /\ \/ r = u
                       \/ \E w : r = [Say(u, w) EXCEPT !.error = @ \/ o.removed = "old"]
    BY <1>2, <2>1, Zenon DEF checkRemoving
  <2>3. Same(m, u)
    BY <2>2, <2>7, MessageSet
  <2>4. IsSum(u) /\ u.state = "removing" /\ u.transitioning = TRUE /\ u.error = s.error
    BY <2>2, <2>3 DEF Same
  <2>5. CASE r = u
    BY <1>2, <2>4, <2>5 DEF Removing
  <2>6. CASE \E w : r = [Say(u, w) EXCEPT !.error = @ \/ o.removed = "old"]
    <3>1. PICK w, t, v : /\ r = [t EXCEPT !.error = v] /\ t = Say(u, w)
                         /\ v = (t.error \/ o.removed = "old")
      BY <2>6, Zenon
    <3>2. Same(u, t)
      BY <2>4, <3>1, Written
    <3>3. IsSum(t) /\ t.state = "removing" /\ t.transitioning = TRUE /\ t.error = s.error
      BY <2>4, <3>2 DEF Same
    <3>4. v \in BOOLEAN
      BY <3>1, Zenon
    <3>5. t.error \in BOOLEAN
      BY <3>3 DEF IsSum
    <3>6. v = TRUE <=> (t.error = TRUE \/ o.removed = "old")
      BY <3>1, <3>5, Zenon
    <3>7. ErrorTo(t, v, r)
      BY <3>1, <3>3, <3>4, ErrorSet
    <3> QED BY <1>2, <3>3, <3>6, <3>7 DEF Removing, ErrorTo
  <2> QED BY <2>7, <2>5, <2>6
<1> QED BY <1>1, <1>2

\* checkCattleReady on one condition: an error is Ready=False.
CattleChecked(c, s, r) ==
    /\ IsSum(r) /\ r.transitioning = s.transitioning
    /\ s.error = TRUE => r.error = TRUE
    /\ r.error = TRUE => s.error = TRUE \/ (c.type = "Ready" /\ c.status = "False")
\* That is what it does.
LEMMA CattleReadySum ==
    ASSUME NEW o, NEW c, NEW s, IsSum(s), NEW r, r = checkCattleReady(o, <<c>>, s)
    PROVE  CattleChecked(c, s, r)
<1>1. PICK conds : conds = <<c>>
  OBVIOUS
<1> DEFINE unready == {i \in DOMAIN conds : /\ conds[i].type = "Ready" /\ conds[i].status = "False"
                                            /\ conds[i].message # Blank}
<1>2. CASE o.group \in CattleGroups /\ unready # {}
  <2>1. c.type = "Ready" /\ c.status = "False"
    <3>1. PICK i \in DOMAIN conds : conds[i].type = "Ready" /\ conds[i].status = "False"
      BY <1>2
    <3>2. conds[i] = c
      BY <1>1, <3>1
    <3> QED BY <3>1, <3>2
  <2>2. PICK m, t, v : /\ r = [t EXCEPT !.error = v] /\ t = Say(s, m)
                       /\ v = TRUE
    BY <1>1, <1>2, Zenon DEF checkCattleReady
  <2>3. Same(s, t)
    BY <2>2, Written
  <2>4. IsSum(t) /\ v \in BOOLEAN
    BY <2>2, <2>3 DEF Same
  <2>5. ErrorTo(t, v, r)
    BY <2>2, <2>4, ErrorSet
  <2> QED BY <2>1, <2>2, <2>3, <2>5 DEF ErrorTo, Same, CattleChecked
<1>3. CASE ~(o.group \in CattleGroups /\ unready # {})
  <2>1. r = s
    BY <1>1, <1>3, Zenon DEF checkCattleReady
  <2> QED BY <2>1 DEF CattleChecked
<1> QED BY <1>2, <1>3

\* What NormalizeConditions sets on a condition: an error on each hard one, and
\* nothing on one that is not soft unless the object is removed.
LEMMA OneNormal ==
    ASSUME NEW emap, NEW o, NEW c, NEW r, r = ConditionSummarizers(emap, o, c)
    PROVE  /\ Hard(ErrorTable(emap, o), c) => r.error = TRUE
           /\ Flagged(r) => Soft(ErrorTable(emap, o), c) \/ o.removed # Blank
           /\ IsSum(r)
<1>1. PICK a, b : /\ a = checkGenericTransitioning(<<c>>, checkErrors(emap, o, <<c>>, NoSummary))
                  /\ b = checkRemoving(o, <<c>>, a)
  OBVIOUS
<1>2. /\ Honest(a)
      /\ Hard(ErrorTable(emap, o), c) => a.error = TRUE
      /\ Flagged(a) => Soft(ErrorTable(emap, o), c)
  BY <1>1, OneCondition
<1>3. IsSum(a)
  BY <1>2 DEF Honest
<1>4. Removing(o, a, b)
  BY <1>1, <1>3, RemovingSum
<1>5. IsSum(b)
  BY <1>4 DEF Removing
<1>6. r = checkCattleReady(o, <<c>>, b)
  BY <1>1, Zenon DEF ConditionSummarizers
<1>7. CattleChecked(c, b, r)
  BY <1>5, <1>6, CattleReadySum
<1>8. c.type = "Ready" /\ c.status = "False" => Soft(ErrorTable(emap, o), c)
  BY ReadyType DEF Soft
<1>9. o.removed = "old" => o.removed # Blank
  BY DEF Blank
<1> QED BY <1>2, <1>4, <1>7, <1>8, <1>9 DEF Removing, Flagged, CattleChecked

-----------------------------------------------------------------------------
(* The chain of an object.                                                   *)

\* A kind without rules of its own, and an object that says nothing itself.
Simple(o) == Generic(o) /\ Undisplayed(o) /\ o.annConds = <<>>
HardConds(m, o) == \E i \in 1 .. Len(o.conds) : Hard(ErrorTable(m, o), o.conds[i])
SoftConds(m, o) == \E i \in 1 .. Len(o.conds) : Soft(ErrorTable(m, o), o.conds[i])
Settled == {"succeeded", "bound"}

\* What the steps after checkTransitioning may do with a summary: no flag is lost
\* but to a phase, and an error has a reason.
Keeps(o, s, r) ==
    /\ IsSum(r)
    /\ Flagged(s) => Flagged(r) \/ r.state \in Settled
    /\ s.state \in Settled => r.state \in Settled \/ Flagged(r)
    /\ r.error = TRUE => s.error = TRUE \/ o.removed = "old" \/ o.kstatus = "Failed"
\* The ones after checkPhase lose no transition either.
Holds(o, s, r) == Keeps(o, s, r) /\ (s.transitioning = TRUE => r.transitioning = TRUE)

\* A state that is not settled.
LEMMA NotSettled ==
    Blank \notin Settled /\ "active" \notin Settled /\ "active" # Blank
BY DEF Blank, Settled

\* The forms of a step that keep them.
LEMMA KeepForms ==
    ASSUME NEW o, NEW s, IsSum(s), NEW r
    PROVE  /\ r = s => Holds(o, s, r)
           /\ Same(s, r) => Holds(o, s, r)
           /\ MovedTo(s, r) => Holds(o, s, r)
           /\ (\E x : StateTo(s, x, r)) /\ s.state \notin Settled => Holds(o, s, r)
           /\ FailedTo(s, r) /\ o.kstatus = "Failed" => Holds(o, s, r)
           /\ Removing(o, s, r) => Holds(o, s, r)
<1>1. r = s => Holds(o, s, r)
  BY DEF Holds, Keeps
<1>2. Same(s, r) => Holds(o, s, r)
  BY DEF Holds, Keeps, Same, Flagged
<1>3. MovedTo(s, r) => Holds(o, s, r)
  BY DEF Holds, Keeps, MovedTo, Flagged
<1>4. ASSUME NEW x, StateTo(s, x, r), s.state \notin Settled PROVE Holds(o, s, r)
  BY <1>4 DEF Holds, Keeps, StateTo, Flagged
<1>5. FailedTo(s, r) /\ o.kstatus = "Failed" => Holds(o, s, r)
  BY DEF Holds, Keeps, FailedTo, Flagged
<1>6. ASSUME Removing(o, s, r) PROVE Holds(o, s, r)
  <2>1. CASE o.removed = Blank
    BY <1>1, <1>6, <2>1 DEF Removing
  <2>2. CASE o.removed # Blank
    BY <1>6, <2>2 DEF Removing, Holds, Keeps, Flagged
  <2> QED BY <2>1, <2>2
<1> QED BY <1>1, <1>2, <1>3, <1>4, <1>5, <1>6

\* checkActive.
LEMMA ActiveKeeps ==
    ASSUME NEW o, NEW s, IsSum(s), NEW r, r = checkActive(o, s)
    PROVE  Holds(o, s, r)
<1>1. r = s \/ (s.state = Blank /\ \E x : r = [s EXCEPT !.state = x])
  BY DEF checkActive
<1>2. ASSUME s.state = Blank, NEW x, r = [s EXCEPT !.state = x] PROVE Holds(o, s, r)
  <2>1. StateTo(s, x, r)
    BY <1>2, StateSet
  <2> QED BY <1>2, <2>1, NotSettled, KeepForms
<1> QED BY <1>1, <1>2, KeepForms

\* checkPhase.
LEMMA PhaseKeeps ==
    ASSUME NEW o, NEW s, IsSum(s), NEW r, r = checkPhase(o, s)
    PROVE  Keeps(o, s, r)
<1>0. PICK v : v = FALSE /\ v \in BOOLEAN
  BY Zenon
<1>1. \/ r = s
      \/ s.state = Blank /\ \E x : r = [s EXCEPT !.state = x]
      \/ \E x \in Settled : r = [s EXCEPT !.state = x, !.transitioning = v]
  BY <1>0 DEF checkPhase, Settled
<1>2. ASSUME s.state = Blank, NEW x, r = [s EXCEPT !.state = x] PROVE Keeps(o, s, r)
  <2>1. StateTo(s, x, r)
    BY <1>2, StateSet
  <2> QED BY <1>2, <2>1, NotSettled, KeepForms DEF Holds
<1>3. ASSUME NEW x \in Settled, r = [s EXCEPT !.state = x, !.transitioning = v] PROVE Keeps(o, s, r)
  <2>1. PhaseTo(s, x, v, r)
    BY <1>0, <1>3, PhaseSet
  <2> QED BY <1>3, <2>1 DEF PhaseTo, Keeps, Flagged
<1> QED BY <1>1, <1>2, <1>3, KeepForms DEF Holds

\* checkInitializing and checkGeneration.
LEMMA InitializingKeeps ==
    ASSUME NEW o, NEW conds, NEW s, IsSum(s), NEW r,
           r = checkInitializing(o, conds, s) \/ r = checkGeneration(o, s)
    PROVE  Holds(o, s, r)
<1>1. r = s \/ \E x : r = Moving(s, x)
  BY DEF checkInitializing, checkGeneration
<1>2. ASSUME NEW x, r = Moving(s, x) PROVE MovedTo(s, r)
  BY <1>2, Written DEF MovedTo
<1> QED BY <1>1, <1>2, KeepForms

\* checkStandard.
LEMMA StandardKeeps ==
    ASSUME NEW o, NEW s, IsSum(s), NEW r, r = checkStandard(o, s)
    PROVE  Holds(o, s, r)
<1>1. \/ r = s
      \/ \E x, m : r = Say(Moving(s, x), m)
      \/ \E x, m : r = Say(Failing(s, x), m) /\ o.kstatus = "Failed"
      \/ s.state = Blank /\ \E x, m : r = Say([s EXCEPT !.state = x], m)
  BY DEF checkStandard
<1>2. ASSUME NEW x, NEW m, r = Say(Moving(s, x), m) PROVE Holds(o, s, r)
  <2>1. MovedTo(s, r)
    BY <1>2, ToldMoving
  <2> QED BY <2>1, KeepForms
<1>3. ASSUME NEW x, NEW m, r = Say(Failing(s, x), m), o.kstatus = "Failed" PROVE Holds(o, s, r)
  <2>1. FailedTo(s, r)
    BY <1>3, ToldFailing
  <2> QED BY <1>3, <2>1, KeepForms
<1>4. ASSUME s.state = Blank, NEW x, NEW m, r = Say([s EXCEPT !.state = x], m) PROVE Holds(o, s, r)
  <2>1. PICK t : t = [s EXCEPT !.state = x]
    OBVIOUS
  <2>2. StateTo(s, x, t)
    BY <2>1, StateSet
  <2>3. IsSum(t)
    BY <2>2 DEF StateTo
  <2>4. Same(t, Say(t, m))
    BY <2>3, Written
  <2>5. r = Say(t, m)
    BY <1>4, <2>1
  <2>6. StateTo(s, x, r)
    BY <2>2, <2>4, <2>5 DEF StateTo, Same
  <2> QED BY <1>4, <2>6, NotSettled, KeepForms
<1> QED BY <1>1, <1>2, <1>3, <1>4, KeepForms

\* checkLoadBalancer.
LEMMA BalancerKeeps ==
    ASSUME NEW o, NEW s, IsSum(s), NEW r, r = checkLoadBalancer(o, s)
    PROVE  Holds(o, s, r)
<1>1. r = s \/ \E x, m : r = Say(Moving(s, x), m)
  BY DEF checkLoadBalancer
<1>2. ASSUME NEW x, NEW m, r = Say(Moving(s, x), m) PROVE MovedTo(s, r)
  BY <1>2, ToldMoving
<1> QED BY <1>1, <1>2, KeepForms

\* The relationships say nothing of the state.
LEMMA RelatedSame ==
    ASSUME NEW s, IsSum(s), NEW x, NEW r, r = Relate(s, x)
    PROVE  Same(s, r)
BY Written
\* What says the same as something that says the same.
LEMMA SameAgain ==
    ASSUME NEW s, NEW r, NEW q, Same(s, r), Same(r, q)
    PROVE  Same(s, q)
BY DEF Same
\* A pod template adds relationships only.
LEMMA TemplateSame ==
    ASSUME NEW pod, NEW s, IsSum(s), NEW r, r = checkPodTemplate(pod, s)
    PROVE  Same(s, r)
<1>1. PICK a, b, c, d :
        /\ a = checkPodRefs(pod, "ConfigMap", s) /\ b = checkPodRefs(pod, "Secret", a)
        /\ c = checkPodServiceAccount(pod, b) /\ d = checkPodProjectedVolume(pod, c)
  OBVIOUS
<1>2. r = checkPodPullSecret(pod, d)
  BY <1>1, Zenon DEF checkPodTemplate
<1>3. /\ \E x : a = Relate(s, x)
      /\ \E x : b = Relate(a, x)
      /\ \E x : c = Relate(b, x)
      /\ \E x : d = Relate(c, x)
      /\ \E x : r = Relate(d, x)
  BY <1>1, <1>2, Zenon DEF checkPodRefs, checkPodServiceAccount, checkPodProjectedVolume, checkPodPullSecret
<1>4. Same(s, a) /\ IsSum(a)
  BY <1>3, RelatedSame DEF Same
<1>5. Same(a, b) /\ IsSum(b)
  BY <1>3, <1>4, RelatedSame DEF Same
<1>6. Same(b, c) /\ IsSum(c)
  BY <1>3, <1>5, RelatedSame DEF Same
<1>7. Same(c, d) /\ IsSum(d)
  BY <1>3, <1>6, RelatedSame DEF Same
<1>8. Same(d, r)
  BY <1>3, <1>7, RelatedSame
<1>9. Same(s, b) /\ Same(b, d)
  BY <1>4, <1>5, <1>6, <1>7, SameAgain
<1>10. Same(s, d)
  BY <1>9, SameAgain
<1> QED BY <1>8, <1>10, SameAgain

\* A step that adds relationships.
LEMMA RelationsSame ==
    ASSUME NEW o, NEW s, IsSum(s), NEW r,
           \/ r = checkPod(o, s) \/ r = checkHasPodSelector(o, s) \/ r = checkHasPodTemplate(o, s)
           \/ r = checkOwner(o, s) \/ r = checkApplyOwned(o, s) \/ r = checkRelease(o, s)
    PROVE  Same(s, r)
<1>1. \/ r = s
      \/ \E x : r = Relate(s, x)
      \/ \E pod : r = checkPodTemplate(pod, s)
  <2>1. CASE r = checkPod(o, s) \/ r = checkHasPodTemplate(o, s)
    BY <2>1, Zenon DEF checkPod, checkHasPodTemplate
  <2>2. CASE r = checkHasPodSelector(o, s)
    BY <2>2, Zenon DEF checkHasPodSelector
  <2>3. CASE r = checkOwner(o, s) \/ r = checkApplyOwned(o, s)
    BY <2>3, Zenon DEF checkOwner, checkApplyOwned
  <2>4. CASE r = checkRelease(o, s)
    BY <2>4, Zenon DEF checkRelease
  <2> QED BY <2>1, <2>2, <2>3, <2>4
<1>2. Same(s, s)
  BY DEF Same
<1> QED BY <1>1, <1>2, RelatedSame, TemplateSame

\* The steps after checkTransitioning.
LEMMA LateKeeps ==
    ASSUME NEW i \in 4 .. 16, NEW m, NEW o, NEW conds, NEW s, IsSum(s), NEW r,
           r = Summarizers(i, m, o, conds, s)
    PROVE  /\ Keeps(o, s, r)
           /\ i # 5 => Holds(o, s, r)
           /\ i = 7 => Removing(o, s, r)
<1>1. CASE i = 4
  <2>1. r = checkActive(o, s)
    BY <1>1 DEF Summarizers
  <2>2. Holds(o, s, r)
    BY <2>1, ActiveKeeps
  <2> QED BY <1>1, <2>2 DEF Holds
<1>2. CASE i = 5
  <2>1. r = checkPhase(o, s)
    BY <1>2 DEF Summarizers
  <2> QED BY <1>2, <2>1, PhaseKeeps DEF Holds
<1>3. CASE i = 6
  <2>1. r = checkInitializing(o, conds, s)
    BY <1>3 DEF Summarizers
  <2>2. Holds(o, s, r)
    BY <2>1, InitializingKeeps
  <2> QED BY <1>3, <2>2 DEF Holds
<1>4. CASE i = 7
  <2>1. r = checkRemoving(o, conds, s)
    BY <1>4 DEF Summarizers
  <2>2. Removing(o, s, r)
    BY <2>1, RemovingSum
  <2> QED BY <1>4, <2>2, KeepForms DEF Holds
<1>5. CASE i = 8
  <2>1. r = checkStandard(o, s)
    BY <1>5 DEF Summarizers
  <2>2. Holds(o, s, r)
    BY <2>1, StandardKeeps
  <2> QED BY <1>5, <2>2 DEF Holds
<1>6. CASE i = 9
  <2>1. r = checkLoadBalancer(o, s)
    BY <1>6 DEF Summarizers
  <2>2. Holds(o, s, r)
    BY <2>1, BalancerKeeps
  <2> QED BY <1>6, <2>2 DEF Holds
<1>7. CASE i \in 10 .. 15
  <2>1. i = 10 \/ i = 11 \/ i = 12 \/ i = 13 \/ i = 14 \/ i = 15
    BY <1>7
  <2>2. \/ r = checkPod(o, s) \/ r = checkHasPodSelector(o, s) \/ r = checkHasPodTemplate(o, s)
        \/ r = checkOwner(o, s) \/ r = checkApplyOwned(o, s) \/ r = checkRelease(o, s)
    <3>1. CASE i = 10
      BY <3>1 DEF Summarizers
    <3>2. CASE i = 11
      BY <3>2 DEF Summarizers
    <3>3. CASE i = 12
      BY <3>3 DEF Summarizers
    <3>4. CASE i = 13
      BY <3>4 DEF Summarizers
    <3>5. CASE i = 14
      BY <3>5 DEF Summarizers
    <3>6. CASE i = 15
      BY <3>6 DEF Summarizers
    <3> QED BY <2>1, <3>1, <3>2, <3>3, <3>4, <3>5, <3>6
  <2>3. Same(s, r)
    BY <2>2, RelationsSame
  <2>4. i # 7 /\ i # 5
    BY <1>7
  <2> QED BY <2>3, <2>4, KeepForms DEF Holds
<1>8. CASE i = 16
  <2>1. r = checkGeneration(o, s)
    BY <1>8 DEF Summarizers
  <2>2. Holds(o, s, r)
    BY <2>1, InitializingKeeps
  <2> QED BY <1>8, <2>2 DEF Holds
<1> QED BY <1>1, <1>2, <1>3, <1>4, <1>5, <1>6, <1>7, <1>8

\* checkStatusSummary finds nothing to say.
LEMMA StatusSame ==
    ASSUME NEW o, Undisplayed(o), NEW s, IsSum(s)
    PROVE  checkStatusSummary(o, s) = s
<1>1. PICK d : d = <<>> /\ o.display = d /\ o.summary = d
  BY DEF Undisplayed
<1>2. "state" \notin DOMAIN d /\ "transitioning" \notin DOMAIN d /\ "error" \notin DOMAIN d
      /\ "message" \notin DOMAIN d
  BY <1>1
<1>3. checkStatusSummary(o, s)
        = [s EXCEPT !.state = s.state, !.transitioning = s.transitioning, !.error = s.error]
  BY <1>1, <1>2, Zenon DEF checkStatusSummary
<1>4. PICK a, b, c, x, y, z :
        /\ s = [state |-> a, error |-> b, transitioning |-> c, message |-> x, rels |-> y, hasObserved |-> z]
        /\ a = s.state /\ b = s.error /\ c = s.transitioning
  BY Zenon DEF IsSum
<1>5. [s EXCEPT !.state = a, !.transitioning = c, !.error = b] = s
  BY <1>4
<1> QED BY <1>3, <1>4, <1>5

\* The conditions are those of the status alone.
LEMMA SimpleConds ==
    ASSUME NEW o, NEW X, o.conds \in Seq(X), o.annConds = <<>>
    PROVE  getConditions(o) = o.conds /\ Len(o.conds) \in Nat /\ DOMAIN o.conds = 1 .. Len(o.conds)
<1>1. PICK c : c = o.conds /\ c \in Seq(X)
  OBVIOUS
<1>2. c \o <<>> = c
  BY <1>1
<1>3. getConditions(o) = c \o <<>>
  BY <1>1, Zenon DEF getConditions, getAnnotationConditions
<1> QED BY <1>1, <1>2, <1>3

\* checkTransitioning for a kind without rules of its own.
LEMMA GenericKind ==
    ASSUME NEW o, Generic(o), NEW conds, NEW s
    PROVE  checkTransitioning(o, conds, s) = checkGenericTransitioning(conds, s)
<1>1. /\ ~isCAPI(o, {"Machine"}) /\ ~isCAPI(o, {"MachineSet", "MachineDeployment"})
      /\ ~isCAPI(o, {"Cluster"}) /\ ~isOperation(o)
  BY DEF Generic, isCAPI
<1> QED BY <1>1 DEF checkTransitioning

\* checkErrors.
LEMMA ErrorsGround ==
    ASSUME NEW m, NEW o, NEW conds, Len(conds) \in Nat, NEW s, Honest(s), NEW r,
           r = checkErrors(m, o, conds, s)
    PROVE  /\ Honest(r)
           /\ r.error = TRUE => s.error = TRUE
                                 \/ \E i \in 1 .. Len(conds) : IsError(ErrorTable(m, o), conds[i])
           /\ \A i \in 1 .. Len(conds) : IsError(ErrorTable(m, o), conds[i]) => Flagged(r)
<1>1. PICK n, table, pass : n = Len(conds) /\ table = ErrorTable(m, o) /\ pass = <<"errors", table>>
  OBVIOUS
<1>2. pass[1] = "errors" /\ pass[2] = table /\ pass[1] \in Passes
  BY <1>1 DEF Passes
<1>3. \A x : Plain(pass, x)
  BY <1>2, PlainPasses
<1>4. r = Walk(pass, s, conds)
  BY <1>1 DEF checkErrors
<1>5. AccOk(pass, s)
  BY <1>3 DEF Plain
<1>6. Passed(pass, s, conds, n, r)
  BY <1>1, <1>2, <1>4, <1>5, WalkPasses
<1>7. \A c : (HardIn(pass, c) <=> IsError(table, c)) /\ (SoftIn(pass, c) <=> IsError(table, c))
  BY <1>2 DEF HardIn, SoftIn
<1>8. Honest(r)
  BY <1>3, <1>6 DEF Plain, Passed
<1>9. r.error = TRUE => s.error = TRUE \/ \E i \in 1 .. n : IsError(table, conds[i])
  BY <1>3, <1>6, <1>7 DEF Plain, Passed
<1>10. \A i \in 1 .. n : IsError(table, conds[i]) => Flagged(r)
  BY <1>3, <1>6, <1>7 DEF Plain, Passed, Flagged
<1> QED BY <1>1, <1>8, <1>9, <1>10

\* The end touches.
LEMMA FinishedSum ==
    ASSUME NEW s, IsSum(s), NEW r, r = Finished(s)
    PROVE  /\ IsSum(r) /\ r.error = s.error /\ r.transitioning = s.transitioning
           /\ s.state \in Settled => r.state \in Settled
<1>1. PICK x, t, y : /\ x = (IF s.state = Blank THEN "active" ELSE ToLower(s.state))
                     /\ t = [s EXCEPT !.state = x]
                     /\ r = [t EXCEPT !.message = y]
  BY Zenon DEF Finished
<1>2. StateTo(s, x, t)
  BY <1>1, StateSet
<1>3. IsSum(t)
  BY <1>2 DEF StateTo
<1>4. Same(t, r)
  BY <1>1, <1>3, MessageSet
<1>5. ASSUME s.state \in Settled PROVE x = s.state
  <2>1. s.state # Blank
    BY <1>5, NotSettled
  <2>2. s.state \in DOMAIN LowerState => LowerState[s.state] = s.state
    BY <1>5, SummaryAssumption DEF Settled
  <2> QED BY <1>1, <2>1, <2>2 DEF ToLower
<1> QED BY <1>2, <1>4, <1>5 DEF StateTo, Same

-----------------------------------------------------------------------------
(* The invariant of the chain.                                               *)

\* What k summarizers have made of a simple object o.
SumOk(m, o, k, s) ==
    /\ IsSum(s)
    /\ k <= 1 => s.state = Blank /\ ~Flagged(s)
    /\ k = 2 => /\ Honest(s)
                /\ \A i \in 1 .. Len(o.conds) :
                      IsError(ErrorTable(m, o), o.conds[i]) => Flagged(s)
    /\ k >= 3 /\ SoftConds(m, o) => Flagged(s) \/ s.state \in Settled
    /\ k >= 7 /\ o.removed # Blank => s.transitioning = TRUE
    /\ s.error = TRUE => HardConds(m, o) \/ o.removed = "old" \/ o.kstatus = "Failed"

\* One summarizer more: the first three.
LEMMA EarlyOk ==
    ASSUME NEW m, NEW o, NEW k \in 0 .. 2, NEW s, NEW r, NEW X, o.conds \in Seq(X),
           Simple(o), SumOk(m, o, k, s), r = Summarizers(k + 1, m, o, getConditions(o), s)
    PROVE  SumOk(m, o, k + 1, r)
<1>1. PICK conds, table : conds = o.conds /\ table = ErrorTable(m, o)
  OBVIOUS
<1>2. getConditions(o) = conds /\ Len(conds) \in Nat
  BY <1>1, SimpleConds DEF Simple
<1>3. CASE k = 0
  <2>1. r = checkStatusSummary(o, s)
    BY <1>3 DEF Summarizers
  <2>2. r = s
    BY <2>1, StatusSame DEF Simple, SumOk
  <2> QED BY <1>3, <2>2 DEF SumOk
<1>4. CASE k = 1
  <2>1. r = checkErrors(m, o, conds, s)
    BY <1>2, <1>4 DEF Summarizers
  <2>2. Honest(s) /\ ~(s.error = TRUE)
    BY <1>4 DEF SumOk, Honest, Flagged
  <2>3. /\ Honest(r)
        /\ r.error = TRUE => s.error = TRUE \/ \E i \in 1 .. Len(conds) : IsError(table, conds[i])
        /\ \A i \in 1 .. Len(conds) : IsError(table, conds[i]) => Flagged(r)
    BY <1>1, <1>2, <2>1, <2>2, ErrorsGround
  <2>4. r.error = TRUE => HardConds(m, o)
    BY <1>1, <2>2, <2>3 DEF HardConds, Hard
  <2>5. IsSum(r)
    BY <2>3 DEF Honest
  <2> QED BY <1>1, <1>4, <2>3, <2>4, <2>5 DEF SumOk
<1>5. CASE k = 2
  <2>1. r = checkGenericTransitioning(conds, s)
    <3>1. r = checkTransitioning(o, conds, s)
      BY <1>2, <1>5 DEF Summarizers
    <3> QED BY <3>1, GenericKind DEF Simple
  <2>2. Honest(s)
    BY <1>5 DEF SumOk
  <2>3. Ground(s, conds, r)
    BY <1>2, <2>1, <2>2, GenericGrounds
  <2>4. IsSum(r)
    BY <2>3 DEF Ground, Honest
  <2>5. ASSUME NEW i \in 1 .. Len(conds), Soft(table, conds[i]) PROVE Flagged(r)
    <3>1. IsError(table, conds[i]) \/ SoftType(conds[i])
      BY <2>5 DEF Soft, Hard, SoftType
    <3>2. IsError(table, conds[i]) => Flagged(s)
      BY <1>1, <1>5 DEF SumOk
    <3> QED BY <2>3, <3>1, <3>2 DEF Ground
  <2>6. SoftConds(m, o) => Flagged(r)
    BY <1>1, <2>5 DEF SoftConds
  <2>7. ASSUME r.error = TRUE PROVE HardConds(m, o) \/ o.removed = "old" \/ o.kstatus = "Failed"
    <3>1. s.error = TRUE \/ \E i \in 1 .. Len(conds) : HardType(conds[i])
      BY <2>3, <2>7 DEF Ground
    <3>2. (\E i \in 1 .. Len(conds) : HardType(conds[i])) => HardConds(m, o)
      BY <1>1 DEF HardConds, Hard, HardType
    <3> QED BY <3>1, <3>2 DEF SumOk
  <2>8. PICK j : j = 3 /\ ~(j <= 1) /\ j # 2 /\ ~(j >= 7)
    OBVIOUS
  <2>9. SumOk(m, o, j, r)
    BY <2>4, <2>6, <2>7, <2>8 DEF SumOk
  <2>10. k + 1 = 3
    BY <1>5
  <2> QED BY <2>8, <2>9, <2>10
<1> QED BY <1>3, <1>4, <1>5

\* And the others.
LEMMA LateOk ==
    ASSUME NEW m, NEW o, NEW k \in 3 .. 15, NEW conds, NEW s, NEW r,
           SumOk(m, o, k, s), r = Summarizers(k + 1, m, o, conds, s)
    PROVE  SumOk(m, o, k + 1, r)
<1>1. PICK j : j = k + 1 /\ j \in 4 .. 16
  OBVIOUS
<1>2. IsSum(s)
  BY DEF SumOk
<1>3. /\ Keeps(o, s, r)
      /\ j # 5 => Holds(o, s, r)
      /\ j = 7 => Removing(o, s, r)
  BY <1>1, <1>2, LateKeeps
<1>4. IsSum(r)
  BY <1>3 DEF Keeps
<1>5. SoftConds(m, o) => Flagged(r) \/ r.state \in Settled
  BY <1>3 DEF SumOk, Keeps
<1>6. ASSUME j >= 7, o.removed # Blank PROVE r.transitioning = TRUE
  <2>1. CASE j = 7
    BY <1>3, <1>6, <2>1 DEF Removing
  <2>2. CASE j > 7
    <3>1. k >= 7 /\ j # 5
      BY <1>1, <2>2
    <3>2. s.transitioning = TRUE
      BY <1>6, <3>1 DEF SumOk
    <3> QED BY <1>3, <3>1, <3>2 DEF Holds
  <2>3. j = 7 \/ j > 7
    BY <1>1, <1>6
  <2> QED BY <2>1, <2>2, <2>3
<1>7. r.error = TRUE => HardConds(m, o) \/ o.removed = "old" \/ o.kstatus = "Failed"
  BY <1>3 DEF SumOk, Keeps
<1>8. ~(j <= 1) /\ j # 2
  BY <1>1
<1>9. SumOk(m, o, j, r)
  BY <1>4, <1>5, <1>6, <1>7, <1>8 DEF SumOk
<1> QED BY <1>1, <1>9

\* The end of the chain.
LEMMA FinishOk ==
    ASSUME NEW m, NEW o, NEW s, NEW r, SumOk(m, o, 16, s), r = Finished(s)
    PROVE  SumOk(m, o, 17, r)
<1>1. IsSum(s)
  BY DEF SumOk
<1>2. /\ IsSum(r) /\ r.error = s.error /\ r.transitioning = s.transitioning
      /\ s.state \in Settled => r.state \in Settled
  BY <1>1, FinishedSum
<1> QED BY <1>2 DEF SumOk, Flagged

ChainInv ==
    /\ at \in 0 .. 18
    /\ \E X : obj.conds \in Seq(X)
    /\ Simple(obj) => SumOk(mapping, obj, at, summary)
    /\ at = 18 => normal = NormalizeConditions(mapping, obj)

\* A condition's flags and the summary at the end.
LEMMA FlagsFollow ==
    ASSUME ChainInv PROVE FlagsAgree
<1>1. SUFFICES ASSUME Done, Simple(obj)
               PROVE  /\ summary.error => \/ SomeNormal("error") \/ obj.removed = "old"
                                          \/ obj.kstatus = "Failed"
                      /\ summary.state = "active" /\ ~summary.error /\ ~summary.transitioning =>
                            ~SomeNormal("error") /\ ~SomeNormal("transitioning")
  BY DEF FlagsAgree, Simple
<1>2. at = 18 /\ SumOk(mapping, obj, 18, summary) /\ normal = NormalizeConditions(mapping, obj)
  BY <1>1 DEF Done, ChainLength, ChainInv
<1>3. DOMAIN obj.conds = 1 .. Len(obj.conds)
  BY <1>1, SimpleConds DEF ChainInv, Simple
<1>4. DOMAIN normal = 1 .. Len(obj.conds)
  BY <1>2, <1>3 DEF NormalizeConditions
<1>5. ASSUME NEW i \in 1 .. Len(obj.conds)
      PROVE  /\ Hard(ErrorTable(mapping, obj), obj.conds[i]) => normal[i]["error"] = TRUE
             /\ normal[i]["error"] = TRUE \/ normal[i]["transitioning"] = TRUE =>
                   Soft(ErrorTable(mapping, obj), obj.conds[i]) \/ obj.removed # Blank
             /\ normal[i]["error"] \in BOOLEAN /\ normal[i]["transitioning"] \in BOOLEAN
  <2>1. PICK r : r = ConditionSummarizers(mapping, obj, obj.conds[i])
    OBVIOUS
  <2>2. /\ Hard(ErrorTable(mapping, obj), obj.conds[i]) => r.error = TRUE
        /\ Flagged(r) => Soft(ErrorTable(mapping, obj), obj.conds[i]) \/ obj.removed # Blank
        /\ IsSum(r)
    BY <2>1, OneNormal
  <2>3. normal[i] = [error |-> r.error, transitioning |-> r.transitioning]
    BY <1>2, <1>3, <2>1, Zenon DEF NormalizeConditions
  <2>4. normal[i]["error"] = r.error /\ normal[i]["transitioning"] = r.transitioning
    BY <2>3
  <2> QED BY <2>2, <2>4 DEF Flagged, IsSum
<1>6. summary.error \in BOOLEAN /\ summary.transitioning \in BOOLEAN
  BY <1>2 DEF SumOk, IsSum
<1>7. ASSUME summary.error = TRUE, ~(obj.removed = "old"), ~(obj.kstatus = "Failed")
      PROVE  SomeNormal("error")
  <2>1. PICK i \in 1 .. Len(obj.conds) : Hard(ErrorTable(mapping, obj), obj.conds[i])
    BY <1>2, <1>7 DEF SumOk, HardConds
  <2>2. normal[i]["error"] = TRUE
    BY <1>5, <2>1
  <2> QED BY <1>4, <2>1, <2>2, Zenon DEF SomeNormal
<1>8. ASSUME summary.state = "active", ~(summary.error = TRUE), ~(summary.transitioning = TRUE),
             NEW i \in 1 .. Len(obj.conds)
      PROVE  ~(normal[i]["error"] = TRUE) /\ ~(normal[i]["transitioning"] = TRUE)
  <2>1. obj.removed = Blank
    BY <1>2, <1>8 DEF SumOk
  <2>2. ~SoftConds(mapping, obj)
    BY <1>2, <1>8, NotSettled DEF SumOk, Flagged
  <2>3. ~Soft(ErrorTable(mapping, obj), obj.conds[i])
    BY <2>2 DEF SoftConds
  <2> QED BY <1>5, <2>1, <2>3
<1>9. ASSUME summary.state = "active", ~summary.error, ~summary.transitioning
      PROVE  ~SomeNormal("error") /\ ~SomeNormal("transitioning")
  <2>1. ~(summary.error = TRUE) /\ ~(summary.transitioning = TRUE)
    BY <1>9, Zenon
  <2>2. \A i \in DOMAIN normal : ~normal[i]["error"] /\ ~normal[i]["transitioning"]
    BY <1>4, <1>5, <1>8, <1>9, <2>1, Zenon
  <2> QED BY <2>2 DEF SomeNormal
<1>10. summary.error = TRUE <=> summary.error
  BY <1>6, Zenon
<1> QED BY <1>7, <1>9, <1>10, Zenon

\* The two chains agree on every object, for every table of errors of the
\* environment: an error of the summary has a condition in error, an overdue
\* removal or a verdict of kstatus behind it, and a summary that reads as active
\* and ready has no condition in error or in transition.
THEOREM ChainsAgree == SummarySpec => []FlagsAgree
<1>1. SummaryInit => ChainInv
  <2>1. SUFFICES ASSUME SummaryInit PROVE ChainInv
    OBVIOUS
  <2>2. PICK i \in DOMAIN Inputs : \E in \in Inputs[i] :
          obj = in.obj /\ summary = [NoSummary EXCEPT !.hasObserved = generateSummarizeOpts(in.attr)]
    BY <2>1 DEF SummaryInit
  <2>3. PICK in \in Inputs[i] :
          obj = in.obj /\ summary = [NoSummary EXCEPT !.hasObserved = generateSummarizeOpts(in.attr)]
    BY <2>2
  <2>4. \E X : obj.conds \in Seq(X)
    BY <2>3, SummaryAssumption
  <2>5. PICK h : summary = [NoSummary EXCEPT !.hasObserved = h]
    BY <2>3
  <2>6. IsSum(summary) /\ summary.state = Blank /\ ~Flagged(summary)
    BY <2>5 DEF NoSummary, IsSum, Flagged
  <2>7. at = 0
    BY <2>1 DEF SummaryInit
  <2>8. SumOk(mapping, obj, at, summary)
    BY <2>6, <2>7 DEF SumOk, Flagged
  <2> QED BY <2>4, <2>7, <2>8 DEF ChainInv
<1>2. ChainInv /\ [SummaryNext]_summaryVars => ChainInv'
  <2>1. SUFFICES ASSUME ChainInv, [SummaryNext]_summaryVars PROVE ChainInv'
    OBVIOUS
  <2>2. CASE Summarize
    <3>1. /\ at \in 0 .. 15 /\ at' = at + 1 /\ obj' = obj /\ mapping' = mapping
          /\ summary' = Summarizers(at + 1, mapping, obj, getConditions(obj), summary)
      BY <2>1, <2>2 DEF Summarize, ChainInv, ChainLength
    <3>2. ASSUME Simple(obj) PROVE SumOk(mapping, obj, at + 1, summary')
      <4>1. PICK X : obj.conds \in Seq(X)
        BY <2>1 DEF ChainInv
      <4>2. SumOk(mapping, obj, at, summary)
        BY <2>1, <3>2 DEF ChainInv
      <4>3. CASE at \in 0 .. 2
        BY <3>1, <3>2, <4>1, <4>2, <4>3, EarlyOk
      <4>4. CASE at \in 3 .. 15
        BY <3>1, <4>2, <4>4, LateOk
      <4> QED BY <3>1, <4>3, <4>4
    <3>3. at' \in 0 .. 18 /\ at' # 18
      BY <3>1
    <3> QED BY <2>1, <3>1, <3>2, <3>3 DEF ChainInv
  <2>3. CASE Finish
    <3>1. /\ at = 16 /\ at' = 17 /\ obj' = obj /\ mapping' = mapping /\ summary' = Finished(summary)
      BY <2>1, <2>3 DEF Finish, ChainInv, ChainLength
    <3>2. ASSUME Simple(obj) PROVE SumOk(mapping, obj, 17, summary')
      BY <2>1, <3>1, <3>2, FinishOk DEF ChainInv
    <3> QED BY <2>1, <3>1, <3>2 DEF ChainInv
  <2>4. CASE Normalize
    <3>1. /\ at = 17 /\ at' = 18 /\ obj' = obj /\ mapping' = mapping /\ summary' = summary
          /\ normal' = NormalizeConditions(mapping, obj)
      BY <2>1, <2>4 DEF Normalize, ChainInv, ChainLength
    <3>2. ASSUME Simple(obj) PROVE SumOk(mapping, obj, 18, summary)
      BY <2>1, <3>1, <3>2 DEF ChainInv, SumOk
    <3> QED BY <2>1, <3>1, <3>2 DEF ChainInv
  <2>5. CASE UNCHANGED summaryVars
    BY <2>1, <2>5 DEF summaryVars, ChainInv
  <2> QED BY <2>1, <2>2, <2>3, <2>4, <2>5 DEF SummaryNext
<1> QED BY <1>1, <1>2, FlagsFollow, PTL DEF SummarySpec
=============================================================================
