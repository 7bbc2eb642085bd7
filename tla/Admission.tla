------------------------------ MODULE Admission ------------------------------
(***************************************************************************)
(* What a request meets between the socket and its answer: the layers of   *)
(* the app, authentication by a chain of providers, the tenant binding,    *)
(* the scope check, the routes that run agents and the task routes, whose  *)
(* store is shared by all tenants.                                         *)
(*                                                                         *)
(* Requests interleave where the code awaits: in a provider, in a          *)
(* dependency (run in a thread), in the handler.  Whether the limiter      *)
(* admits a request is decided by TokenBucket.                             *)
(***************************************************************************)
EXTENDS Naturals, FiniteSets, Sequences

CONSTANTS
  Requests,     \* the requests of a history
  Credentials,  \* what requests present, records in Headers
  Providers,    \* the auth chain, in order of precedence
  Agents,       \* names served
  Exposed,      \* those that opted into A2A
  Limiting,     \* rate_limit=True
  Cors          \* an allow-list of origins is configured

\* What the providers read of a request's headers; `caller` is who it is
\* about if one of them believes it.
Headers == [gateway : {"none", "stranger", "anonymous", "trusted"},
            key : {"none", "known", "unknown"},
            bearer : {"none", "key", "jwt", "expired", "junk"},
            caller : [tenant : STRING, scopes : SUBSET Seq(STRING)]]

ASSUME AdmissionAssumption ==
  /\ \A c \in Credentials : c \in Headers
  /\ \A i \in DOMAIN Providers : Providers[i] \in {"forwarded", "api_key", "jwt"}
  /\ Exposed \subseteq Agents
  /\ Limiting \in BOOLEAN /\ Cors \in BOOLEAN

Public == {"healthz", "well-known"}
AgentRoutes == {"invoke", "resume", "a2a"}
TaskRoutes == {"create", "list", "read", "cancel"}
Routes == Public \cup AgentRoutes \cup TaskRoutes

VARIABLES
  received,     \* request -> route, credential, agent, task
  stage,     \* request -> how far it is
  tenantOf,  \* request -> the tenant bound in its context, "" when unbound
  sent,      \* request -> the answer it got
  tasks      \* TaskStore: id -> owner and status

admissionVars == <<received, stage, tenantOf, sent, tasks>>

NoAnswer == [status |-> 0, stamped |-> FALSE, shown |-> {}]

-----------------------------------------------------------------------------
(* The layers, outermost first.                                            *)

\* Mutated form: the fallback mounted last, outside the security headers.
StackFallbackOutside == <<"cors", "fallback", "headers", "rate", "auth", "route">>

\* create_app; "server" is what Starlette puts around everything.
Stack == <<"cors", "headers", "fallback", "rate", "auth", "route">>

Depth(layer) == IF layer = "server" THEN 0
                ELSE CHOOSE i \in DOMAIN Stack : Stack[i] = layer

\* SecurityHeaders stamps, and gives a trace id to, what is born inside it.
Stamped(layer) == Depth("headers") < Depth(layer)

\* The answer of `layer`; the request's context is left on every way out.
Answer(r, layer, status, shown) ==
  /\ sent' = [sent EXCEPT ![r] = [status |-> status, stamped |-> Stamped(layer),
                                  shown |-> shown]]
  /\ stage' = [stage EXCEPT ![r] = "answered"]
  /\ tenantOf' = [tenantOf EXCEPT ![r] = ""]

\* An exception nobody registered a handler for leaves `layer`: the fallback
\* answers if it is around that layer, else the server's own handler.
Escape(r, layer) ==
  Answer(r, IF Depth("fallback") < Depth(layer) THEN "fallback" ELSE "server", 500, {})

\* A preflight ends in CORS, where an allow-list is configured.
Preflight(r) ==
  /\ stage[r] = "new" /\ Cors
  /\ Answer(r, "cors", 200, {})
  /\ UNCHANGED <<received, tasks>>

\* Nothing is awaited between the socket and the auth provider: the trace id
\* is bound and the limiter asked, before any authentication.
Arrive(r, route, credential, agent, task) ==
  /\ stage[r] = "new"
  /\ received' = [received EXCEPT ![r] = [route |-> route, credential |-> credential,
                                    agent |-> agent, task |-> task]]
  /\ \/ /\ stage' = [stage EXCEPT ![r] = "auth"]
        /\ UNCHANGED <<tenantOf, sent>>
     \/ Limiting /\ Answer(r, "rate", 429, {})
  /\ UNCHANGED tasks

-----------------------------------------------------------------------------
(* Authentication.  A provider's verdict is "ok" or its error's code.      *)

\* ForwardedHeaderAuthProvider: identity vouched for by a gateway.
Forwarded(c) ==
  CASE c.gateway \in {"none", "anonymous"} -> "no_credentials"
    [] c.gateway = "stranger" -> "untrusted_source"
    [] c.gateway = "trusted" -> "ok"

\* ApiKeyAuthProvider: the dedicated header, else any bearer credential.
ApiKey(c) ==
  CASE c.key = "none" /\ c.bearer = "none" -> "no_credentials"
    [] c.key = "known" \/ (c.key = "none" /\ c.bearer = "key") -> "ok"
    [] OTHER -> "invalid_api_key"

\* JwtAuthProvider.
Jwt(c) ==
  CASE c.bearer = "none" -> "no_credentials"
    [] c.bearer = "jwt" -> "ok"
    [] c.bearer = "expired" -> "expired_token"
    [] OTHER -> "invalid_token"

Verdict(provider, c) ==
  CASE provider = "forwarded" -> Forwarded(c)
    [] provider = "api_key" -> ApiKey(c)
    [] provider = "jwt" -> Jwt(c)

\* CompositeAuthProvider: the first that has anything to say about it.
Recognising(c) == {i \in DOMAIN Providers : Verdict(Providers[i], c) # "no_credentials"}
Authenticated(c) ==
  \E i \in Recognising(c) : /\ \A j \in Recognising(c) : i <= j
                            /\ Verdict(Providers[i], c) = "ok"

Caller(r) == received[r].credential.caller
Entered(r) == stage' = [stage EXCEPT ![r] = "scope"] /\ UNCHANGED sent

\* Mutated form: the binding is not the request's own.
EnterForAll(r) == Entered(r) /\ tenantOf' = [q \in Requests |-> Caller(r).tenant]

\* TenantScope: a context variable, which no other request sees.
Enter(r) == Entered(r) /\ tenantOf' = [tenantOf EXCEPT ![r] = Caller(r).tenant]

\* AuthMiddleware.  A refusal is answered here and reaches no route; a
\* provider may also fail in a way of its own.
Authenticate(r) ==
  /\ stage[r] = "auth"
  /\ \/ /\ received[r].route \in Public
        /\ stage' = [stage EXCEPT ![r] = "handler"]
        /\ UNCHANGED <<tenantOf, sent>>
     \/ /\ received[r].route \notin Public
        /\ Authenticated(received[r].credential)
        /\ Enter(r)
     \/ /\ received[r].route \notin Public
        /\ ~Authenticated(received[r].credential)
        /\ Answer(r, "auth", 401, {})
     \/ received[r].route \notin Public /\ Escape(r, "auth")
  /\ UNCHANGED <<received, tasks>>

-----------------------------------------------------------------------------
(* Authorization.  Scopes are sequences of segments.                       *)

\* _scope_grants: the same number of segments, each equal or a wildcard.
ScopeGrants(granted, required) ==
  \/ granted = <<"*">>
  \/ /\ Len(granted) = Len(required)
     /\ \A i \in DOMAIN required : granted[i] \in {"*", required[i]}

\* A resume costs what an invocation does; the A2A verb has two segments.
Required(route, agent) ==
  <<"agent", agent>> \o IF route = "a2a" THEN <<"a2a", "invoke">> ELSE <<"invoke">>

Authorized(r) ==
  \E granted \in Caller(r).scopes :
    ScopeGrants(granted, Required(received[r].route, received[r].agent))

\* The dependencies of a route: the scope on the agent it names, before that
\* agent is looked up, and the size of the body.
Depend(r) ==
  /\ stage[r] = "scope"
  /\ \/ /\ received[r].route \in TaskRoutes \/ Authorized(r)
        /\ stage' = [stage EXCEPT ![r] = "handler"]
        /\ UNCHANGED <<tenantOf, sent>>
     \/ received[r].route \in AgentRoutes /\ ~Authorized(r) /\ Answer(r, "route", 403, {})
     \/ received[r].route \in {"invoke", "resume"} /\ Answer(r, "route", 413, {})
  /\ UNCHANGED <<received, tasks>>

-----------------------------------------------------------------------------
(* The handlers.                                                           *)

HandlePublic(r) ==
  /\ stage[r] = "handler" /\ received[r].route \in Public
  /\ Answer(r, "route", 200, {})
  /\ UNCHANGED <<received, tasks>>

\* What the error handlers make of a turn that raises: a capability the
\* engine lacks, a busy thread or a token that cannot be replayed, a provider
\* that failed, any other error of the harness.
ErrorStatus == {400, 409, 502, 500}

Served(route) == IF route = "a2a" THEN Exposed ELSE Agents

\* An agent that is not there, or not exposed, is a 404.  What is nobody's
\* error escapes the route.
HandleTurn(r) ==
  /\ stage[r] = "handler" /\ received[r].route \in AgentRoutes
  /\ IF received[r].agent \notin Served(received[r].route)
     THEN Answer(r, "route", 404, {})
     ELSE \/ \E status \in {200} \cup ErrorStatus : Answer(r, "route", status, {})
          \/ Escape(r, "route")
  /\ UNCHANGED <<received, tasks>>

\* create_task checks the scope of an invocation itself, then enqueues.
HandleCreate(r) ==
  /\ stage[r] = "handler" /\ received[r].route = "create"
  /\ IF Authorized(r)
     THEN /\ tasks' = [t \in DOMAIN tasks \cup {r} |->
                IF t = r THEN [owner |-> tenantOf[r], status |-> "pending"] ELSE tasks[t]]
          /\ Answer(r, "route", 202, {r})
     ELSE Answer(r, "route", 403, {}) /\ UNCHANGED tasks
  /\ UNCHANGED received

HandleList(r) ==
  /\ stage[r] = "handler" /\ received[r].route = "list"
  /\ Answer(r, "route", 200, {t \in DOMAIN tasks : tasks[t].owner = tenantOf[r]})
  /\ UNCHANGED <<received, tasks>>

\* guard_tenant: the task is there and the bound tenant owns it.
Owns(r, t) == t \in DOMAIN tasks /\ tasks[t].owner = tenantOf[r]

\* Another tenant's task is hidden from a read and refused to a write.
HandleTask(r) ==
  /\ stage[r] = "handler" /\ received[r].route \in {"read", "cancel"}
  /\ LET t == received[r].task
         writes == received[r].route = "cancel"
     IN  IF Owns(r, t)
         THEN /\ Answer(r, "route", 200, {t})
              /\ tasks' = IF writes THEN [tasks EXCEPT ![t].status = "cancelled"] ELSE tasks
         ELSE /\ Answer(r, "route", IF t \in DOMAIN tasks /\ writes THEN 403 ELSE 404, {})
              /\ UNCHANGED tasks
  /\ UNCHANGED received

-----------------------------------------------------------------------------
AdmissionInit ==
  /\ received = [r \in Requests |-> [route |-> "none"]]
  /\ stage = [r \in Requests |-> "new"]
  /\ tenantOf = [r \in Requests |-> ""]
  /\ sent = [r \in Requests |-> NoAnswer]
  /\ tasks = [t \in {} |-> {}]

\* A request names an agent or a task where its route has one.
Names(route) == IF route \in AgentRoutes \cup {"create"} THEN Agents \cup {"unknown"}
                ELSE {"none"}
Ids(route, r) == IF route \in {"read", "cancel"} THEN Requests \ {r} ELSE {r}

AdmissionNext ==
  \E r \in Requests :
    \/ Preflight(r)
    \/ \E route \in Routes, credential \in Credentials :
         \E agent \in Names(route), task \in Ids(route, r) :
           Arrive(r, route, credential, agent, task)
    \/ Authenticate(r) \/ Depend(r)
    \/ HandlePublic(r) \/ HandleTurn(r)
    \/ HandleCreate(r) \/ HandleList(r) \/ HandleTask(r)

AdmissionSpec == AdmissionInit /\ [][AdmissionNext]_admissionVars

-----------------------------------------------------------------------------
(* Properties.                                                             *)

\* Types of the requests and the task store.
AdmissionTypeOK ==
  /\ \A r \in Requests : stage[r] \in {"new", "auth", "scope", "handler", "answered"}
  /\ \A r \in Requests : sent[r].shown \subseteq DOMAIN tasks
  /\ DOMAIN tasks \subseteq Requests
  /\ \A t \in DOMAIN tasks : tasks[t].status \in {"pending", "cancelled"}

\* Every answer but a CORS preflight carries the security headers and the
\* request's trace id, whichever layer gave it and whatever failed, a 500 of
\* the last resort included (middleware/fallback.py).
EveryAnswerIsStamped ==
  \A r \in Requests :
    stage[r] = "answered" /\ received[r].route # "none" => sent[r].stamped

\* However requests of several tenants interleave, an answer shows the tasks
\* of its own credential's tenant only, and only to a caller that one of the
\* providers vouched for (routers/tasks.py).
TenantsStayApart ==
  \A r \in Requests : \A t \in sent[r].shown :
    tasks[t].owner = Caller(r).tenant /\ Authenticated(received[r].credential)

=============================================================================
