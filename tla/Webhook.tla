------------------------------ MODULE Webhook -------------------------------
(***************************************************************************)
(* The admission router of pkg/webhook (router.go, match.go): a program    *)
(* builds its routes call by call, and the router answers reviews.         *)
(*                                                                         *)
(* A route has the criteria that it was given and its handler, or Nothing; *)
(* the Go type that objects are decoded into makes no difference.          *)
(* A review has its request, if it has one, and whether all of it could be *)
(* decoded.  A handler is a sequence of steps that ends with the first one *)
(* that fails, as HandlerFuncs do; "Allow" sets Allowed, "Fail" returns an *)
(* error of its own.                                                       *)
(***************************************************************************)
EXTENDS Naturals, Sequences

\* The empty string, where there is nothing to be said.
Nothing == ""

CONSTANTS Criteria,   \* what routes are given: <<criterion, value>>
          Handlers,   \* name -> the steps of a handler: <<step>> or <<"CreatePatch", object>>
          Reviews     \* what the API server sends

\* A route without a handler is told from the others, and a merge patch is
\* at least "{}", never empty.
ASSUME WebhookAssumption ==
    /\ Nothing \notin DOMAIN Handlers
    /\ \A h \in DOMAIN Handlers :
          /\ Len(Handlers[h]) \in Nat /\ DOMAIN Handlers[h] = 1 .. Len(Handlers[h])
          /\ \A k \in DOMAIN Handlers[h] :
                Handlers[h][k][1] = "CreatePatch" => Handlers[h][k][2] # Nothing

VARIABLES routes,     \* Router.matches
          asked,      \* the review that was answered last, <<>> for none
          answer      \* what was sent back
webhookVars == <<routes, asked, answer>>

NoRoute == [criteria |-> [c \in {} |-> Nothing], handler |-> Nothing]
NoAnswer == [status |-> Nothing, uid |-> Nothing, allowed |-> FALSE,
             patch |-> Nothing, err |-> Nothing]

WebhookInit == routes = <<>> /\ asked = <<>> /\ answer = NoAnswer

-----------------------------------------------------------------------------
(***************************************************************************)
(* Building.  Every method of Router begins a route, those of RouteMatch   *)
(* go on with one.  An answer is kept until the routes change.             *)
(***************************************************************************)
Begin(r) == routes' = Append(routes, r) /\ asked' = <<>> /\ answer' = NoAnswer
GoOn(i, r) == routes' = [routes EXCEPT ![i] = r] /\ asked' = <<>> /\ answer' = NoAnswer

\* A criterion given again replaces the one before.
Narrowed(r, c) == [r EXCEPT !.criteria =
    [k \in DOMAIN @ \cup {c[1]} |-> IF k = c[1] THEN c[2] ELSE @[k]]]
Handle(r, h) == [r EXCEPT !.handler = h]

Route ==
    \/ \E c \in Criteria : Begin(Narrowed(NoRoute, c))
    \/ \E h \in DOMAIN Handlers : Begin(Handle(NoRoute, h))
    \/ Begin(NoRoute)    \* Router.Type
RouteMatch ==
    \E i \in DOMAIN routes :
        \/ \E c \in Criteria : GoOn(i, Narrowed(routes[i], c))
        \/ \E h \in DOMAIN Handlers : GoOn(i, Handle(routes[i], h))

-----------------------------------------------------------------------------
(***************************************************************************)
(* Matching.  Group and version are those of the resource when there is    *)
(* one, and of the kind otherwise.                                         *)
(***************************************************************************)
Attributes(req) ==
    LET gv == IF req.resource # <<>> THEN req.resource ELSE req.kind
        at(t, n) == IF t = <<>> THEN Nothing ELSE t[n]
    IN  [group |-> at(gv, 1), version |-> at(gv, 2), kind |-> at(req.kind, 3),
         resource |-> at(req.resource, 3), subResource |-> req.subResource,
         name |-> req.name, namespace |-> req.namespace,
         operation |-> req.operation, dryRun |-> req.dryRun]

\* An empty string asks for nothing; a dryRun of false asks for one that is set.
checkString(expected, actual) == expected = Nothing \/ expected = actual
matches(r, req) ==
    \A c \in DOMAIN r.criteria : checkString(r.criteria[c], Attributes(req)[c])

-----------------------------------------------------------------------------
(***************************************************************************)
(* Answering.                                                              *)
(***************************************************************************)
Failed(resp, err) == [resp EXCEPT !.err = err]

\* The merge patch needs the object of the request.  Mutant: a second patch
\* replaces the first.
CreatePatchOver(resp, req, obj) ==
    IF req.object = Nothing THEN Failed(resp, "patch") ELSE [resp EXCEPT !.patch = obj]
CreatePatch(resp, req, obj) ==
    IF resp.patch # Nothing \/ req.object = Nothing THEN Failed(resp, "patch")
    ELSE [resp EXCEPT !.patch = obj]

Stepped(resp, req, s) ==
    CASE resp.err # Nothing -> resp
      [] resp.err = Nothing /\ s[1] = "Allow" -> [resp EXCEPT !.allowed = TRUE]
      [] resp.err = Nothing /\ s[1] = "DecodeObject" ->
            IF req.object = Nothing THEN Failed(resp, "decode") ELSE resp
      [] resp.err = Nothing /\ s[1] = "DecodeOldObject" ->
            IF req.oldObject = Nothing THEN Failed(resp, "decode") ELSE resp
      [] resp.err = Nothing /\ s[1] = "CreatePatch" -> CreatePatch(resp, req, s[2])
      [] OTHER -> Failed(resp, "handler")
Admit(resp, req, h) ==
    LET after[k \in 0 .. Len(Handlers[h])] ==
            IF k = 0 THEN resp ELSE Stepped(after[k - 1], req, Handlers[h][k])
    IN  after[Len(Handlers[h])]

\* The first of the routes rs that matches; one without a handler returns no
\* error.
admit(rs, resp, req) ==
    LET hits == {i \in DOMAIN rs : matches(rs[i], req)}
        m == rs[CHOOSE i \in hits : \A j \in hits : i <= j]
    IN  IF hits = {} THEN Failed(resp, "no route")
        ELSE IF m.handler = Nothing THEN resp
        ELSE Admit(resp, req, m.handler)

\* An error leaves what the handler has set and adds a result.  A review that
\* fails to decode although it has a request has no response to put it in.
ServeHTTP(review) ==
    /\ asked' = review
    /\ answer' =
        IF review.request = <<>> THEN [NoAnswer EXCEPT !.status = "error", !.err = "request"]
        ELSE IF ~review.decodes THEN [NoAnswer EXCEPT !.status = "panic"]
        ELSE LET req == review.request[1]
             IN  admit(routes, [NoAnswer EXCEPT !.status = "ok", !.uid = req.uid], req)
    /\ UNCHANGED routes

WebhookNext == Route \/ RouteMatch \/ \E review \in Reviews : ServeHTTP(review)
WebhookSpec == WebhookInit /\ [][WebhookNext]_webhookVars

-----------------------------------------------------------------------------
(***************************************************************************)
(* Properties.                                                             *)
(***************************************************************************)
Steps(i) == IF routes[i].handler = Nothing THEN <<>> ELSE Handlers[routes[i].handler]
Patches(i) == {k \in DOMAIN Steps(i) : Steps(i)[k][1] = "CreatePatch"}
Selects(i, req) ==
    \A c \in DOMAIN routes[i].criteria : routes[i].criteria[c] \in {Nothing, Attributes(req)[c]}

\* A request is admitted by nobody but the handler of the first route whose
\* criteria it meets: never without a route, nor by a route that was begun
\* and got no handler; the patch that goes with it is the first one made,
\* and a second one, or a request without a route, does not go unnoticed
\* (Router.admit, RouteMatch.matches, CreatePatch).
AdmittedByFirst ==
    answer.status = "ok" =>
        LET req == asked.request[1]
            fit == {i \in DOMAIN routes : Selects(i, req)}
            first == CHOOSE i \in fit : \A j \in fit : i <= j
        IN  /\ answer.uid = req.uid
            /\ answer.allowed =>
                 fit # {} /\ \E k \in DOMAIN Steps(first) : Steps(first)[k][1] = "Allow"
            /\ answer.patch # Nothing =>
                 fit # {} /\ \E k \in Patches(first) : /\ \A j \in Patches(first) : k <= j
                                                     /\ answer.patch = Steps(first)[k][2]
            /\ fit # {} /\ (\E j, k \in Patches(first) : j # k) => answer.err # Nothing
            /\ fit = {} => answer.err # Nothing

\* "ServeHTTP inspects the http.Request and calls the Admit function on all
\* matching handlers", says its comment: of a handler that refuses whatever it
\* is asked, one would see the error whenever its route matches.
EveryMatchIsAsked ==
    answer.status = "ok" =>
        \A i \in DOMAIN routes :
            Selects(i, asked.request[1]) /\ (\E k \in DOMAIN Steps(i) : Steps(i)[k][1] = "Fail")
            => answer.err # Nothing
=============================================================================
