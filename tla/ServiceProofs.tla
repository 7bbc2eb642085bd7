---------------------------- MODULE ServiceProofs ----------------------------
(***************************************************************************)
(* What the service promises about any requests: tenants stay apart and    *)
(* every answer is stamped (Admission), bursts are bounded and Retry-After *)
(* is long enough (TokenBucket). The two share no state.                   *)
(*                                                                         *)
(* Which credentials a provider believes is left as it is, only that the   *)
(* verdict binds the tenant and that the binding is the request's own      *)
(* matters; the limiter's history may be of any length.                    *)
(***************************************************************************)
EXTENDS Admission, TokenBucket, TLAPS

-----------------------------------------------------------------------------
(* The invariant *)

\* The variables are functions, and tasks are records of two fields.
Shaped ==
  /\ received = [r \in Requests |-> received[r]]
  /\ stage = [r \in Requests |-> stage[r]]
  /\ tenantOf = [r \in Requests |-> tenantOf[r]]
  /\ sent = [r \in Requests |-> sent[r]]
  /\ DOMAIN tasks \subseteq Requests
  /\ tasks = [t \in DOMAIN tasks |-> tasks[t]]
  /\ \A t \in DOMAIN tasks : tasks[t] = [owner |-> tasks[t].owner, status |-> tasks[t].status]

\* A request past authentication runs under the tenant of a credential that
\* one of the providers vouched for.
Past(r) == stage[r] = "scope" \/ (stage[r] = "handler" /\ received[r].route \notin Public)
BoundToItsOwn ==
  \A r \in Requests : Past(r) =>
    tenantOf[r] = Caller(r).tenant /\ Authenticated(received[r].credential)

\* A request creates its task when it is answered and is shown nothing before.
NothingEarly ==
  \A r \in Requests : stage[r] # "answered" => r \notin DOMAIN tasks /\ sent[r].shown = {}

\* What was shown is there.
ShownIsThere == \A r \in Requests : sent[r].shown \subseteq DOMAIN tasks

AdmissionInvariant ==
  /\ Shaped
  /\ BoundToItsOwn
  /\ NothingEarly
  /\ ShownIsThere
  /\ TenantsStayApart

-----------------------------------------------------------------------------
(* The two ways a request moves *)

\* It goes on to another stage: under its own tenant from the scope check on.
LEMMA GoingOnKeepsIt ==
  ASSUME AdmissionInvariant, NEW r \in Requests, NEW where \in {"auth", "scope", "handler"},
         stage[r] # "answered", stage' = [stage EXCEPT ![r] = where],
         Shaped', UNCHANGED <<sent, tasks>>,
         \A q \in Requests \ {r} : received'[q] = received[q] /\ tenantOf'[q] = tenantOf[q],
         Past(r)' => (tenantOf[r] = Caller(r).tenant /\ Authenticated(received[r].credential))'
  PROVE  AdmissionInvariant'
  <1>1. Shaped /\ BoundToItsOwn /\ NothingEarly /\ ShownIsThere /\ TenantsStayApart
    BY DEF AdmissionInvariant
  <1>2. \A q \in Requests : stage'[q] = IF q = r THEN where ELSE stage[q]
    BY <1>1 DEF Shaped
  <1>3. BoundToItsOwn'
    <2> SUFFICES ASSUME NEW q \in Requests, Past(q)'
                 PROVE  (tenantOf[q] = Caller(q).tenant /\ Authenticated(received[q].credential))'
      BY DEF BoundToItsOwn
    <2>1. CASE q = r
      BY <2>1
    <2>2. CASE q # r
      <3>1. received'[q] = received[q] /\ tenantOf'[q] = tenantOf[q] /\ Past(q)
        BY <2>2, <1>2 DEF Past
      <3> QED BY <3>1, <1>1 DEF BoundToItsOwn, Caller, Authenticated, Recognising
    <2> QED BY <2>1, <2>2
  <1>4. NothingEarly' /\ ShownIsThere'
    BY <1>1, <1>2 DEF NothingEarly, ShownIsThere
  <1>5. TenantsStayApart'
    <2> SUFFICES ASSUME NEW q \in Requests, NEW t \in sent[q].shown
                 PROVE  (/\ tasks[t].owner = Caller(q).tenant
                         /\ Authenticated(received[q].credential))'
      BY DEF TenantsStayApart
    <2>1. q # r
      BY <1>1 DEF NothingEarly
    <2> QED BY <2>1, <1>1 DEF TenantsStayApart, Caller, Authenticated, Recognising
  <1> QED BY <1>1, <1>3, <1>4, <1>5 DEF AdmissionInvariant

\* It is answered: what it is shown is its own tenant's, and no task changes
\* hands.
LEMMA AnsweringKeepsIt ==
  ASSUME AdmissionInvariant, NEW r \in Requests, NEW layer, NEW status, NEW shown,
         stage[r] # "answered", Answer(r, layer, status, shown), Shaped',
         \A q \in Requests \ {r} : received'[q] = received[q],
         DOMAIN tasks \subseteq DOMAIN tasks', DOMAIN tasks' \subseteq DOMAIN tasks \cup {r},
         \A t \in DOMAIN tasks : tasks'[t].owner = tasks[t].owner,
         \A t \in shown : t \in DOMAIN tasks' /\
           (tasks[t].owner = Caller(r).tenant /\ Authenticated(received[r].credential))'
  PROVE  AdmissionInvariant'
  <1>1. Shaped /\ BoundToItsOwn /\ NothingEarly /\ ShownIsThere /\ TenantsStayApart
    BY DEF AdmissionInvariant
  <1>2. \A q \in Requests :
          /\ stage'[q] = IF q = r THEN "answered" ELSE stage[q]
          /\ q # r => sent'[q] = sent[q] /\ tenantOf'[q] = tenantOf[q]
    BY <1>1 DEF Answer, Shaped
  <1>3. sent'[r].shown = shown
    BY <1>1 DEF Answer, Shaped
  <1>4. BoundToItsOwn'
    <2> SUFFICES ASSUME NEW q \in Requests, Past(q)'
                 PROVE  (tenantOf[q] = Caller(q).tenant /\ Authenticated(received[q].credential))'
      BY DEF BoundToItsOwn
    <2>1. q # r
      BY <1>2 DEF Past
    <2>2. received'[q] = received[q] /\ tenantOf'[q] = tenantOf[q] /\ Past(q)
      BY <2>1, <1>2 DEF Past
    <2> QED BY <2>2, <1>1 DEF BoundToItsOwn, Caller, Authenticated, Recognising
  <1>5. NothingEarly'
    BY <1>1, <1>2 DEF NothingEarly
  <1>6. ShownIsThere'
    <2> SUFFICES ASSUME NEW q \in Requests PROVE sent'[q].shown \subseteq DOMAIN tasks'
      BY DEF ShownIsThere
    <2>1. CASE q = r
      BY <2>1, <1>3
    <2>2. CASE q # r
      BY <2>2, <1>1, <1>2 DEF ShownIsThere
    <2> QED BY <2>1, <2>2
  <1>7. TenantsStayApart'
    <2> SUFFICES ASSUME NEW q \in Requests, NEW t \in sent'[q].shown
                 PROVE  (/\ tasks[t].owner = Caller(q).tenant
                         /\ Authenticated(received[q].credential))'
      BY DEF TenantsStayApart
    <2>1. CASE q = r
      BY <2>1, <1>3
    <2>2. CASE q # r
      <3>1. t \in sent[q].shown /\ t \in DOMAIN tasks
        BY <2>2, <1>1, <1>2 DEF ShownIsThere
      <3>2. tasks[t].owner = Caller(q).tenant /\ Authenticated(received[q].credential)
        BY <3>1, <1>1 DEF TenantsStayApart
      <3>3. tasks'[t].owner = tasks[t].owner /\ received'[q] = received[q]
        BY <3>1, <2>2
      <3> QED BY <3>2, <3>3 DEF Caller, Authenticated, Recognising
    <2> QED BY <2>1, <2>2
  <1> QED BY <1>4, <1>5, <1>6, <1>7 DEF AdmissionInvariant

\* An answer changes the shape of nothing.
LEMMA AnswerShapes ==
  ASSUME Shaped, NEW r \in Requests, NEW layer, NEW status, NEW shown,
         Answer(r, layer, status, shown)
  PROVE  /\ stage' = [q \in Requests |-> stage'[q]]
         /\ tenantOf' = [q \in Requests |-> tenantOf'[q]]
         /\ sent' = [q \in Requests |-> sent'[q]]
  BY DEF Shaped, Answer

\* An answer that shows no task, and neither adds nor changes one.
LEMMA EmptyAnswerKeepsIt ==
  ASSUME AdmissionInvariant, NEW r \in Requests, NEW layer, NEW status,
         stage[r] # "answered", Answer(r, layer, status, {}), UNCHANGED <<received, tasks>>
  PROVE  AdmissionInvariant'
  <1>1. Shaped
    BY DEF AdmissionInvariant
  <1>2. Shaped'
    BY <1>1, AnswerShapes DEF Shaped
  <1> QED BY <1>2, AnsweringKeepsIt

-----------------------------------------------------------------------------
(* The steps *)

\* A request comes in: let through, or refused by the limiter.
LEMMA ArrivingKeepsIt ==
  ASSUME AdmissionInvariant, NEW r \in Requests, NEW route, NEW credential, NEW agent, NEW task,
         Arrive(r, route, credential, agent, task)
  PROVE  AdmissionInvariant'
  <1>1. Shaped
    BY DEF AdmissionInvariant
  <1>2. /\ stage[r] = "new" /\ UNCHANGED tasks
        /\ received' = [q \in Requests |-> received'[q]]
        /\ \A q \in Requests \ {r} : received'[q] = received[q]
    BY <1>1 DEF Arrive, Shaped
  <1>3. CASE stage' = [stage EXCEPT ![r] = "auth"] /\ UNCHANGED <<tenantOf, sent>>
    <2>1. Shaped' /\ ~Past(r)'
      BY <1>1, <1>2, <1>3 DEF Shaped, Past
    <2> QED BY <2>1, <1>2, <1>3, GoingOnKeepsIt
  <1>4. CASE Answer(r, "rate", 429, {})
    <2>1. Shaped'
      BY <1>1, <1>2, <1>4, AnswerShapes DEF Shaped
    <2> QED BY <2>1, <1>2, <1>4, AnsweringKeepsIt
  <1> QED BY <1>3, <1>4 DEF Arrive

\* The tenant that is bound is the one of the credential believed.
LEMMA AuthenticatingKeepsIt ==
  ASSUME AdmissionInvariant, NEW r \in Requests, Authenticate(r)
  PROVE  AdmissionInvariant'
  <1>1. Shaped /\ stage[r] = "auth" /\ UNCHANGED <<received, tasks>>
    BY DEF AdmissionInvariant, Authenticate
  <1>2. CASE /\ received[r].route \in Public
             /\ stage' = [stage EXCEPT ![r] = "handler"]
             /\ UNCHANGED <<tenantOf, sent>>
    <2>1. Shaped' /\ ~Past(r)'
      BY <1>1, <1>2 DEF Shaped, Past
    <2> QED BY <2>1, <1>1, <1>2, GoingOnKeepsIt
  <1>3. CASE Authenticated(received[r].credential) /\ Enter(r)
    <2>1. /\ stage' = [stage EXCEPT ![r] = "scope"] /\ UNCHANGED sent
          /\ tenantOf' = [tenantOf EXCEPT ![r] = Caller(r).tenant]
      BY <1>3 DEF Enter, Entered
    <2>2. Shaped'
      BY <1>1, <2>1 DEF Shaped
    <2>3. (tenantOf[r] = Caller(r).tenant /\ Authenticated(received[r].credential))'
      BY <1>1, <1>3, <2>1 DEF Shaped, Caller, Authenticated, Recognising
    <2>4. \A q \in Requests \ {r} : received'[q] = received[q] /\ tenantOf'[q] = tenantOf[q]
      BY <1>1, <2>1 DEF Shaped
    <2> QED BY <2>1, <2>2, <2>3, <2>4, <1>1, GoingOnKeepsIt
  <1>4. CASE Answer(r, "auth", 401, {})
    BY <1>1, <1>4, EmptyAnswerKeepsIt
  <1>5. CASE Escape(r, "auth")
    BY <1>1, <1>5, EmptyAnswerKeepsIt DEF Escape
  <1> QED BY <1>2, <1>3, <1>4, <1>5 DEF Authenticate

\* The dependencies let it through or answer.
LEMMA DependingKeepsIt ==
  ASSUME AdmissionInvariant, NEW r \in Requests, Depend(r)
  PROVE  AdmissionInvariant'
  <1>1. Shaped /\ stage[r] = "scope" /\ UNCHANGED <<received, tasks>>
    BY DEF AdmissionInvariant, Depend
  <1>2. CASE stage' = [stage EXCEPT ![r] = "handler"] /\ UNCHANGED <<tenantOf, sent>>
    <2>1. Shaped'
      BY <1>1, <1>2 DEF Shaped
    <2>2. tenantOf[r] = Caller(r).tenant /\ Authenticated(received[r].credential)
      BY <1>1 DEF AdmissionInvariant, BoundToItsOwn, Past
    <2>3. (tenantOf[r] = Caller(r).tenant /\ Authenticated(received[r].credential))'
      BY <1>1, <1>2, <2>2 DEF Caller, Authenticated, Recognising
    <2> QED BY <2>1, <2>3, <1>1, <1>2, GoingOnKeepsIt
  <1>3. CASE Answer(r, "route", 403, {}) \/ Answer(r, "route", 413, {})
    BY <1>1, <1>3, EmptyAnswerKeepsIt
  <1> QED BY <1>2, <1>3 DEF Depend

\* Handlers that show nothing.
LEMMA TurnsKeepIt ==
  ASSUME AdmissionInvariant, NEW r \in Requests,
         Preflight(r) \/ HandlePublic(r) \/ HandleTurn(r)
  PROVE  AdmissionInvariant'
  <1>1. stage[r] # "answered" /\ UNCHANGED <<received, tasks>>
    BY DEF Preflight, HandlePublic, HandleTurn
  <1>2. \E layer, status : Answer(r, layer, status, {})
    <2>1. CASE Preflight(r) \/ HandlePublic(r)
      BY <2>1 DEF Preflight, HandlePublic
    <2>2. CASE HandleTurn(r)
      BY <2>2 DEF HandleTurn, Escape
    <2> QED BY <2>1, <2>2
  <1> QED BY <1>1, <1>2, EmptyAnswerKeepsIt

\* A task belongs to the tenant bound when it is created.
LEMMA CreatingKeepsIt ==
  ASSUME AdmissionInvariant, NEW r \in Requests, HandleCreate(r)
  PROVE  AdmissionInvariant'
  <1>1. Shaped /\ stage[r] = "handler" /\ received[r].route = "create" /\ UNCHANGED received
    BY DEF AdmissionInvariant, HandleCreate
  <1>2. CASE Authorized(r)
    <2>1. /\ tasks' = [t \in DOMAIN tasks \cup {r} |->
                IF t = r THEN [owner |-> tenantOf[r], status |-> "pending"] ELSE tasks[t]]
          /\ Answer(r, "route", 202, {r})
      BY <1>2 DEF HandleCreate
    <2>2. tenantOf[r] = Caller(r).tenant /\ Authenticated(received[r].credential)
      BY <1>1 DEF AdmissionInvariant, BoundToItsOwn, Past, Public
    <2>3. r \notin DOMAIN tasks
      BY <1>1 DEF AdmissionInvariant, NothingEarly
    <2>4. Shaped'
      BY <1>1, <2>1, AnswerShapes DEF Shaped
    <2>5. /\ DOMAIN tasks' = DOMAIN tasks \cup {r} /\ tasks'[r].owner = tenantOf[r]
          /\ \A t \in DOMAIN tasks : tasks'[t].owner = tasks[t].owner
      BY <2>1, <2>3
    <2>6. (tasks[r].owner = Caller(r).tenant /\ Authenticated(received[r].credential))'
      BY <1>1, <2>2, <2>5 DEF Caller, Authenticated, Recognising
    <2> QED BY <1>1, <2>1, <2>4, <2>5, <2>6, AnsweringKeepsIt
  <1>3. CASE ~Authorized(r)
    BY <1>1, <1>3, EmptyAnswerKeepsIt DEF HandleCreate
  <1> QED BY <1>2, <1>3

\* A list shows what the bound tenant owns.
LEMMA ListingKeepsIt ==
  ASSUME AdmissionInvariant, NEW r \in Requests, HandleList(r)
  PROVE  AdmissionInvariant'
  <1> DEFINE own == {t \in DOMAIN tasks : tasks[t].owner = tenantOf[r]}
  <1>1. /\ Shaped /\ stage[r] = "handler" /\ received[r].route = "list"
        /\ UNCHANGED <<received, tasks>> /\ Answer(r, "route", 200, own)
    BY DEF AdmissionInvariant, HandleList
  <1>2. tenantOf[r] = Caller(r).tenant /\ Authenticated(received[r].credential)
    BY <1>1 DEF AdmissionInvariant, BoundToItsOwn, Past, Public
  <1>3. Shaped'
    BY <1>1, AnswerShapes DEF Shaped
  <1>4. \A t \in own : t \in DOMAIN tasks' /\
          (tasks[t].owner = Caller(r).tenant /\ Authenticated(received[r].credential))'
    BY <1>1, <1>2 DEF Caller, Authenticated, Recognising
  <1> HIDE DEF own
  <1> QED BY <1>1, <1>3, <1>4, AnsweringKeepsIt

\* A task is shown to its owner, and cancelling it leaves it whose it is.
LEMMA HandlingTasksKeepsIt ==
  ASSUME AdmissionInvariant, NEW r \in Requests, HandleTask(r)
  PROVE  AdmissionInvariant'
  <1> DEFINE t == received[r].task
  <1>1. /\ Shaped /\ stage[r] = "handler" /\ received[r].route \in {"read", "cancel"}
        /\ UNCHANGED received
    BY DEF AdmissionInvariant, HandleTask
  <1>2. CASE Owns(r, t)
    <2>1. /\ Answer(r, "route", 200, {t})
          /\ tasks' = [tasks EXCEPT ![t].status = "cancelled"] \/ tasks' = tasks
          /\ t \in DOMAIN tasks /\ tasks[t].owner = tenantOf[r]
      BY <1>2 DEF HandleTask, Owns
    <2>2. tenantOf[r] = Caller(r).tenant /\ Authenticated(received[r].credential)
      BY <1>1 DEF AdmissionInvariant, BoundToItsOwn, Past, Public
    <2>3. /\ DOMAIN tasks' = DOMAIN tasks
          /\ tasks' = [u \in DOMAIN tasks |-> tasks'[u]]
          /\ \A u \in DOMAIN tasks :
               /\ tasks'[u].owner = tasks[u].owner
               /\ tasks'[u] = [owner |-> tasks'[u].owner, status |-> tasks'[u].status]
      <3>1. CASE tasks' = tasks
        BY <1>1, <3>1 DEF Shaped
      <3>2. CASE tasks' = [tasks EXCEPT ![t].status = "cancelled"]
        <4>1. tasks[t] = [owner |-> tasks[t].owner, status |-> tasks[t].status]
          BY <1>1, <2>1 DEF Shaped
        <4>2. [tasks[t] EXCEPT !.status = "cancelled"]
                = [owner |-> tasks[t].owner, status |-> "cancelled"]
          BY <4>1
        <4>3. tasks' = [u \in DOMAIN tasks |->
                          IF u = t THEN [owner |-> tasks[t].owner, status |-> "cancelled"]
                          ELSE tasks[u]]
          BY <1>1, <3>2, <4>2 DEF Shaped
        <4> QED BY <1>1, <4>3 DEF Shaped
      <3> QED BY <2>1, <3>1, <3>2
    <2>4. Shaped'
      BY <1>1, <2>1, <2>3, AnswerShapes DEF Shaped
    <2>5. (tasks[t].owner = Caller(r).tenant /\ Authenticated(received[r].credential))'
      BY <1>1, <2>1, <2>2, <2>3 DEF Caller, Authenticated, Recognising
    <2>6. \A u \in {t} : u \in DOMAIN tasks' /\
            (tasks[u].owner = Caller(r).tenant /\ Authenticated(received[r].credential))'
      BY <2>1, <2>3, <2>5, <1>1
    <2> QED BY <1>1, <2>1, <2>3, <2>4, <2>6, AnsweringKeepsIt
  <1>3. CASE ~Owns(r, t)
    BY <1>1, <1>3, EmptyAnswerKeepsIt DEF HandleTask
  <1> QED BY <1>2, <1>3

-----------------------------------------------------------------------------
(* The theorem *)

\* No request came in yet.
LEMMA AdmissionStarts == AdmissionInit => AdmissionInvariant
  <1> SUFFICES ASSUME AdmissionInit PROVE AdmissionInvariant
    OBVIOUS
  <1>0. tasks = [t \in {} |-> {}] /\ DOMAIN tasks = {}
    BY DEF AdmissionInit
  <1>1. Shaped
    BY <1>0 DEF AdmissionInit, Shaped
  <1>2. BoundToItsOwn
    BY DEF AdmissionInit, BoundToItsOwn, Past
  <1>3. \A r \in Requests : sent[r].shown = {}
    BY DEF AdmissionInit, NoAnswer
  <1>4. NothingEarly /\ ShownIsThere /\ TenantsStayApart
    BY <1>0, <1>3 DEF AdmissionInit, NothingEarly, ShownIsThere, TenantsStayApart
  <1> QED BY <1>1, <1>2, <1>4 DEF AdmissionInvariant

\* No step of any request breaks the invariant.
LEMMA AdmissionStepsKeepIt ==
  AdmissionInvariant /\ [AdmissionNext]_admissionVars => AdmissionInvariant'
  <1> SUFFICES ASSUME AdmissionInvariant, [AdmissionNext]_admissionVars
               PROVE  AdmissionInvariant'
    OBVIOUS
  <1>1. CASE UNCHANGED admissionVars
    BY <1>1 DEF admissionVars, AdmissionInvariant, Shaped, BoundToItsOwn, Past, NothingEarly,
                ShownIsThere, TenantsStayApart, Caller, Authenticated, Recognising
  <1>2. CASE AdmissionNext
    BY <1>2, ArrivingKeepsIt, AuthenticatingKeepsIt, DependingKeepsIt, TurnsKeepIt,
       CreatingKeepsIt, ListingKeepsIt, HandlingTasksKeepsIt DEF AdmissionNext
  <1> QED BY <1>1, <1>2

\* However the requests of any number of tenants interleave at the provider,
\* the dependencies and the shared task store, an answer shows only tasks of
\* the tenant its own credential was believed to be of (routers/tasks.py).
THEOREM TenantsNeverMeet == AdmissionSpec => []TenantsStayApart
  <1>1. AdmissionInvariant => TenantsStayApart
    BY DEF AdmissionInvariant
  <1> QED BY <1>1, AdmissionStarts, AdmissionStepsKeepIt, PTL DEF AdmissionSpec

-----------------------------------------------------------------------------
(* Every answer is stamped *)

\* The layers of the app as create_app stacks them.
LEMMA DepthOfLayers ==
  /\ Depth("headers") = 2 /\ Depth("fallback") = 3 /\ Depth("rate") = 4
  /\ Depth("auth") = 5 /\ Depth("route") = 6
<1>1. DOMAIN Stack = 1..6
  BY DEF Stack
<1>2. /\ Stack[1] = "cors" /\ Stack[2] = "headers" /\ Stack[3] = "fallback"
      /\ Stack[4] = "rate" /\ Stack[5] = "auth" /\ Stack[6] = "route"
  BY DEF Stack
<1>3. \A i, j \in DOMAIN Stack : Stack[i] = Stack[j] => i = j
  BY <1>1, <1>2
<1>4. ASSUME NEW i \in DOMAIN Stack
      PROVE  (CHOOSE j \in DOMAIN Stack : Stack[j] = Stack[i]) = i
  BY <1>3
<1> QED
  BY <1>1, <1>2, <1>4 DEF Depth

\* Every layer that answers a request with a route is inside the headers, and
\* inside the fallback from authentication on.
LEMMA InsideTheHeaders ==
  /\ Stamped("fallback") /\ Stamped("rate") /\ Stamped("auth") /\ Stamped("route")
  /\ Depth("fallback") < Depth("auth") /\ Depth("fallback") < Depth("route")
BY DepthOfLayers DEF Stamped

\* Nothing of a new request has been read, so only a preflight is answered
\* without a route.
StampInv ==
  /\ \A r \in Requests : stage[r] = "new" => received[r].route = "none"
  /\ EveryAnswerIsStamped

\* The layers that answer a request that has a route.
Stamping == {"rate", "auth", "route", "fallback"}

\* An answer given inside the headers is stamped.
LEMMA StampedAnswer ==
  ASSUME Shaped, StampInv, NEW r \in Requests, NEW layer \in Stamping, NEW status, NEW shown,
         Answer(r, layer, status, shown),
         \A q \in Requests \ {r} : received'[q] = received[q]
  PROVE  StampInv'
<1>1. Stamped(layer)
  BY InsideTheHeaders DEF Stamping
<1>2. /\ stage'[r] = "answered" /\ sent'[r].stamped
      /\ \A q \in Requests \ {r} : stage'[q] = stage[q] /\ sent'[q] = sent[q]
  BY <1>1 DEF Answer, Shaped
<1> QED
  BY <1>2 DEF StampInv, EveryAnswerIsStamped

\* An exception is answered by the fallback, which is inside the headers.
LEMMA StampedEscape ==
  ASSUME Shaped, StampInv, NEW r \in Requests, NEW layer \in {"auth", "route"},
         Escape(r, layer), UNCHANGED received
  PROVE  StampInv'
<1>1. Answer(r, "fallback", 500, {})
  BY InsideTheHeaders DEF Escape
<1> QED
  BY <1>1, StampedAnswer DEF Stamping

\* A request that goes on has not been answered.
LEMMA StampedGoingOn ==
  ASSUME Shaped, StampInv, NEW r \in Requests, NEW where \in {"auth", "scope", "handler"},
         stage' = [stage EXCEPT ![r] = where], UNCHANGED sent,
         \A q \in Requests \ {r} : received'[q] = received[q]
  PROVE  StampInv'
BY DEF Shaped, StampInv, EveryAnswerIsStamped

LEMMA StampInvStep ==
  ASSUME Shaped, StampInv, [AdmissionNext]_admissionVars
  PROVE  StampInv'
<1>1. CASE UNCHANGED admissionVars
  BY <1>1 DEF admissionVars, StampInv, EveryAnswerIsStamped
<1>2. ASSUME NEW r \in Requests, Preflight(r)
      PROVE  StampInv'
  BY <1>2 DEF Preflight, Answer, Shaped, StampInv, EveryAnswerIsStamped
<1>3. ASSUME NEW r \in Requests, NEW route, NEW credential, NEW agent, NEW task,
             Arrive(r, route, credential, agent, task)
      PROVE  StampInv'
  <2>1. \A q \in Requests \ {r} : received'[q] = received[q]
    BY <1>3 DEF Arrive, Shaped
  <2>2. CASE stage' = [stage EXCEPT ![r] = "auth"] /\ UNCHANGED <<tenantOf, sent>>
    BY <2>1, <2>2, StampedGoingOn
  <2>3. CASE Answer(r, "rate", 429, {})
    BY <2>1, <2>3, StampedAnswer DEF Stamping
  <2> QED
    BY <1>3, <2>2, <2>3 DEF Arrive
<1>4. ASSUME NEW r \in Requests, Authenticate(r)
      PROVE  StampInv'
  <2>1. UNCHANGED received
    BY <1>4 DEF Authenticate
  <2>2. CASE stage' = [stage EXCEPT ![r] = "handler"] /\ UNCHANGED <<tenantOf, sent>>
    BY <2>1, <2>2, StampedGoingOn
  <2>3. CASE Enter(r)
    BY <2>1, <2>3, StampedGoingOn DEF Enter, Entered
  <2>4. CASE Answer(r, "auth", 401, {})
    BY <2>1, <2>4, StampedAnswer DEF Stamping
  <2>5. CASE Escape(r, "auth")
    BY <2>1, <2>5, StampedEscape
  <2> QED
    BY <1>4, <2>2, <2>3, <2>4, <2>5 DEF Authenticate
<1>5. ASSUME NEW r \in Requests, Depend(r)
      PROVE  StampInv'
  <2>1. UNCHANGED received
    BY <1>5 DEF Depend
  <2>2. CASE stage' = [stage EXCEPT ![r] = "handler"] /\ UNCHANGED <<tenantOf, sent>>
    BY <2>1, <2>2, StampedGoingOn
  <2>3. CASE \E status : Answer(r, "route", status, {})
    BY <2>1, <2>3, StampedAnswer DEF Stamping
  <2> QED
    BY <1>5, <2>2, <2>3 DEF Depend
<1>6. ASSUME NEW r \in Requests,
             HandlePublic(r) \/ HandleTurn(r) \/ HandleCreate(r) \/ HandleList(r) \/ HandleTask(r)
      PROVE  StampInv'
  <2>1. UNCHANGED received
    BY <1>6 DEF HandlePublic, HandleTurn, HandleCreate, HandleList, HandleTask
  <2>2. Escape(r, "route") \/ \E status, shown : Answer(r, "route", status, shown)
    BY <1>6 DEF HandlePublic, HandleTurn, HandleCreate, HandleList, HandleTask
  <2> QED
    BY <2>1, <2>2, StampedAnswer, StampedEscape DEF Stamping
<1> QED
  BY <1>1, <1>2, <1>3, <1>4, <1>5, <1>6 DEF AdmissionNext

\* Whatever fails, and whichever layer answers, the security headers and the
\* trace id are on the answer; only a CORS preflight, which has no route, goes
\* without (create_app, middleware/fallback.py).
THEOREM AnswersAreStamped == AdmissionSpec => []EveryAnswerIsStamped
  <1>1. AdmissionInit => StampInv
    <2> SUFFICES ASSUME AdmissionInit
                 PROVE  StampInv
      OBVIOUS
    <2>1. \A r \in Requests : stage[r] = "new" /\ received[r].route = "none"
      BY DEF AdmissionInit
    <2> QED BY <2>1 DEF StampInv, EveryAnswerIsStamped
  <1>2. AdmissionInvariant /\ StampInv /\ [AdmissionNext]_admissionVars => StampInv'
    BY StampInvStep DEF AdmissionInvariant
  <1>3. StampInv => EveryAnswerIsStamped
    BY DEF StampInv
  <1> QED BY <1>1, <1>2, <1>3, AdmissionStarts, AdmissionStepsKeepIt, PTL DEF AdmissionSpec

-----------------------------------------------------------------------------
(* Stages and statuses *)

Stages == {"new", "auth", "scope", "handler", "answered"}
Statuses == {"pending", "cancelled"}
Staged == \A r \in Requests : stage[r] \in Stages
StatusesKnown == \A t \in DOMAIN tasks : tasks[t].status \in Statuses

\* A step moves at most one request, to a stage there is.
LEMMA StagesStep ==
  ASSUME Shaped, Staged, [AdmissionNext]_admissionVars
  PROVE  Staged'
<1>1. ASSUME NEW r \in Requests, NEW where \in Stages, stage' = [stage EXCEPT ![r] = where]
      PROVE  Staged'
  BY <1>1 DEF Shaped, Staged
<1>2. ASSUME NEW r \in Requests, NEW layer, NEW status, NEW shown, Answer(r, layer, status, shown)
      PROVE  Staged'
  <2>1. stage' = [stage EXCEPT ![r] = "answered"]
    BY <1>2, Zenon DEF Answer
  <2> QED BY <1>1, <2>1 DEF Stages
<1>3. ASSUME NEW r \in Requests, NEW layer, Escape(r, layer)
      PROVE  Staged'
  BY <1>2, <1>3 DEF Escape
<1>4. CASE UNCHANGED admissionVars
  BY <1>4 DEF admissionVars, Staged
<1>5. ASSUME NEW r \in Requests, Preflight(r)
      PROVE  Staged'
  BY <1>2, <1>5 DEF Preflight
<1>6. ASSUME NEW r \in Requests, NEW route, NEW credential, NEW agent, NEW task,
             Arrive(r, route, credential, agent, task)
      PROVE  Staged'
  <2>1. stage' = [stage EXCEPT ![r] = "auth"] \/ Answer(r, "rate", 429, {})
    BY <1>6 DEF Arrive
  <2> QED BY <1>1, <1>2, <2>1 DEF Stages
<1>7. ASSUME NEW r \in Requests, Authenticate(r)
      PROVE  Staged'
  <2>1. \/ stage' = [stage EXCEPT ![r] = "handler"] \/ stage' = [stage EXCEPT ![r] = "scope"]
        \/ Answer(r, "auth", 401, {}) \/ Escape(r, "auth")
    BY <1>7 DEF Authenticate, Enter, Entered
  <2> QED BY <1>1, <1>2, <1>3, <2>1 DEF Stages
<1>8. ASSUME NEW r \in Requests, Depend(r)
      PROVE  Staged'
  <2>1. stage' = [stage EXCEPT ![r] = "handler"] \/ \E status : Answer(r, "route", status, {})
    BY <1>8 DEF Depend
  <2> QED BY <1>1, <1>2, <2>1 DEF Stages
<1>9. ASSUME NEW r \in Requests,
             HandlePublic(r) \/ HandleTurn(r) \/ HandleCreate(r) \/ HandleList(r) \/ HandleTask(r)
      PROVE  Staged'
  <2>1. Escape(r, "route") \/ \E status, shown : Answer(r, "route", status, shown)
    BY <1>9 DEF HandlePublic, HandleTurn, HandleCreate, HandleList, HandleTask
  <2> QED BY <1>2, <1>3, <2>1
<1> QED
  BY <1>4, <1>5, <1>6, <1>7, <1>8, <1>9 DEF AdmissionNext

\* A task is created pending, and cancelled in place.
LEMMA StatusesStep ==
  ASSUME Shaped, StatusesKnown, [AdmissionNext]_admissionVars
  PROVE  StatusesKnown'
<1>1. CASE UNCHANGED tasks
  BY <1>1 DEF StatusesKnown
<1>2. ASSUME NEW r \in Requests, HandleCreate(r), tasks' # tasks
      PROVE  StatusesKnown'
  <2>1. tasks' = [t \in DOMAIN tasks \cup {r} |->
                    IF t = r THEN [owner |-> tenantOf[r], status |-> "pending"] ELSE tasks[t]]
    BY <1>2 DEF HandleCreate
  <2> QED BY <2>1 DEF StatusesKnown, Statuses
<1>3. ASSUME NEW r \in Requests, HandleTask(r), tasks' # tasks
      PROVE  StatusesKnown'
  <2> DEFINE t == received[r].task
  <2>1. t \in DOMAIN tasks /\ tasks' = [tasks EXCEPT ![t].status = "cancelled"]
    BY <1>3 DEF HandleTask, Owns
  <2>2. tasks[t] = [owner |-> tasks[t].owner, status |-> tasks[t].status]
    BY <2>1 DEF Shaped
  <2> HIDE DEF t
  <2>3. DOMAIN tasks' = DOMAIN tasks /\ \A u \in DOMAIN tasks \ {t} : tasks'[u] = tasks[u]
    BY <2>1
  <2>4. tasks'[t].status = "cancelled"
    BY <2>1, <2>2
  <2> QED BY <2>3, <2>4 DEF StatusesKnown, Statuses
<1>4. \/ UNCHANGED tasks
      \/ \E r \in Requests : HandleCreate(r) \/ HandleTask(r)
  <2>1. ASSUME NEW r \in Requests, NEW route, NEW credential, NEW agent, NEW task,
               Arrive(r, route, credential, agent, task)
        PROVE  UNCHANGED tasks
    BY <2>1 DEF Arrive
  <2>2. ASSUME NEW r \in Requests,
               Preflight(r) \/ Authenticate(r) \/ Depend(r) \/ HandlePublic(r)
                 \/ HandleTurn(r) \/ HandleList(r)
        PROVE  UNCHANGED tasks
    BY <2>2 DEF Preflight, Authenticate, Depend, HandlePublic, HandleTurn, HandleList
  <2> QED BY <2>1, <2>2 DEF AdmissionNext, admissionVars
<1> QED
  BY <1>1, <1>2, <1>3, <1>4

\* Whatever requests do, stages, answers and the task store stay in their ranges.
THEOREM AdmissionTyped == AdmissionSpec => []AdmissionTypeOK
  <1>1. AdmissionInit => Staged /\ StatusesKnown
    <2> SUFFICES ASSUME AdmissionInit
                 PROVE  Staged /\ StatusesKnown
      OBVIOUS
    <2>1. stage = [r \in Requests |-> "new"] /\ tasks = [t \in {} |-> {}]
      BY Zenon DEF AdmissionInit
    <2> QED BY <2>1 DEF Staged, Stages, StatusesKnown
  <1>2. /\ AdmissionInvariant /\ Staged /\ StatusesKnown /\ [AdmissionNext]_admissionVars
        => (Staged /\ StatusesKnown)'
    BY StagesStep, StatusesStep DEF AdmissionInvariant
  <1>3. AdmissionInvariant /\ Staged /\ StatusesKnown => AdmissionTypeOK
    BY DEF AdmissionInvariant, Shaped, ShownIsThere, Staged, Stages, StatusesKnown, Statuses,
           AdmissionTypeOK
  <1> QED BY <1>1, <1>2, <1>3, AdmissionStarts, AdmissionStepsKeepIt, PTL DEF AdmissionSpec

-----------------------------------------------------------------------------
(* One bucket *)

Bucket == [tokens : 0 .. Capacity, updated : Nat]

\* A refill keeps a bucket within its capacity, and earns no more than the
\* time that passed since it was last reckoned.
LEMMA RefillIsBounded ==
  ASSUME BucketAssumption, NEW b \in Bucket, NEW now \in Nat, b.updated <= now
  PROVE  /\ Refilled(b, now) \in 0 .. Capacity
         /\ Refilled(b, now) <= b.tokens + (now - b.updated)
  BY DEF Refilled, Bucket, BucketAssumption

\* A request leaves a bucket: what it holds and what it gave are together no
\* more than what it held and earned.
LEMMA ConsumeIsPaidFor ==
  ASSUME BucketAssumption, NEW b \in Bucket, NEW now \in Nat, b.updated <= now
  PROVE  /\ Consumed(b, now) \in Bucket
         /\ Consumed(b, now).updated = now
         /\ Consumed(b, now).tokens <= b.tokens + (now - b.updated)
         /\ Admits(b, now) =>
              Consumed(b, now).tokens + Cost <= b.tokens + (now - b.updated)
         /\ Consumed(b, now).tokens <= Capacity
         /\ Admits(b, now) => Consumed(b, now).tokens + Cost <= Capacity
  <1>1. Refilled(b, now) \in 0 .. Capacity /\ Refilled(b, now) <= b.tokens + (now - b.updated)
    BY RefillIsBounded
  <1>2. CASE Admits(b, now)
    <2>1. Consumed(b, now) = [tokens |-> Refilled(b, now) - Cost, updated |-> now]
      BY <1>2 DEF Consumed
    <2>2. Refilled(b, now) - Cost \in 0 .. Capacity
      BY <1>1, <1>2 DEF Admits, BucketAssumption
    <2> QED BY <1>1, <2>1, <2>2 DEF Bucket, BucketAssumption
  <1>3. CASE ~Admits(b, now)
    <2>1. Consumed(b, now) = [tokens |-> Refilled(b, now), updated |-> now]
      BY <1>3 DEF Consumed
    <2> QED BY <1>1, <1>3, <2>1 DEF Bucket, BucketAssumption
  <1> QED BY <1>2, <1>3

-----------------------------------------------------------------------------
(* The invariant *)

\* No bucket is reckoned ahead of the clock, no window begins ahead of it.
InThePast ==
  \A key \in Keys :
    /\ buckets[key].updated <= clock
    /\ window[key].from <= clock

\* Once a window has seen a request: what it was admitted and what is left in
\* the bucket were paid for by the capacity and the time until then. Before
\* that the window has spent nothing.
PaidFor(key) ==
  /\ window[key].from = Never => window[key].spent = 0
  /\ window[key].from # Never /\ window[key].spent # 0 =>
       /\ buckets[key].updated >= window[key].from
       /\ window[key].spent + buckets[key].tokens
            <= Capacity + (buckets[key].updated - window[key].from)

BucketInvariant == BucketTypeOK /\ InThePast /\ \A key \in Keys : PaidFor(key)

LEMMA RetryAfterIsNatural ==
  ASSUME BucketAssumption, NEW b \in Bucket
  PROVE  RetryAfter(b) \in Nat
  <1> DEFINE whole == (1000 * (Cost - b.tokens) + 999 * TicksPerSecond)
                        \div (1000 * TicksPerSecond)
  <1>1. Cost - b.tokens \in Int /\ 1000 * TicksPerSecond \in Nat \ {0}
    BY DEF Bucket, BucketAssumption
  <1>2. 1000 * (Cost - b.tokens) + 999 * TicksPerSecond \in Int
    BY <1>1 DEF BucketAssumption
  <1>3. whole \in Int
    BY <1>1, <1>2
  <1> HIDE DEF whole
  <1>4. (IF whole < 1 THEN 1 ELSE whole) \in Nat
    BY <1>3
  <1> QED BY <1>4 DEF RetryAfter, whole

\* A request keeps the invariant, whichever key it is about.
LEMMA RequestKeepsIt ==
  ASSUME BucketAssumption, BucketInvariant, NEW key \in Keys, Request(key)
  PROVE  BucketInvariant'
  <1> DEFINE b == BucketOf(key)
             after == Consumed(b, clock)
  <1>1. BucketTypeOK /\ InThePast /\ \A k \in Keys : PaidFor(k)
    BY DEF BucketInvariant
  <1>2. clock \in Nat /\ clock' = clock
    BY <1>1 DEF Request, BucketTypeOK
  <1>3. /\ buckets[key].tokens \in 0 .. Capacity
        /\ buckets[key].updated \in Nat \cup {Never}
        /\ buckets[key].updated <= clock
    BY <1>1 DEF BucketTypeOK, InThePast
  <1>4. b \in Bucket /\ b.updated <= clock
    <2>1. CASE buckets[key].updated = Never
      BY <2>1, <1>2 DEF BucketOf, Bucket, BucketAssumption
    <2>2. CASE buckets[key].updated # Never
      <3>1. b = buckets[key]
        BY <2>2 DEF BucketOf
      <3>2. buckets[key] \in [tokens : 0 .. Capacity, updated : Nat \cup {Never}]
        BY <1>1 DEF BucketTypeOK
      <3> QED BY <2>2, <3>1, <3>2, <1>3 DEF Bucket
    <2> QED BY <2>1, <2>2
  <1>5. /\ after \in Bucket /\ after.updated = clock
        /\ after.tokens <= b.tokens + (clock - b.updated)
        /\ Admits(b, clock) => after.tokens + Cost <= b.tokens + (clock - b.updated)
        /\ after.tokens <= Capacity
        /\ Admits(b, clock) => after.tokens + Cost <= Capacity
    BY <1>2, <1>4, ConsumeIsPaidFor
  <1>6. buckets' = [buckets EXCEPT ![key] = after]
    BY DEF Request
  <1>7. \/ /\ Admits(b, clock)
           /\ window' = [window EXCEPT ![key].spent =
                            IF window[key].from = Never THEN @ ELSE @ + Cost]
           /\ advice' = [advice EXCEPT ![key] = Never]
        \/ /\ ~Admits(b, clock)
           /\ window' = window
           /\ advice' = [advice EXCEPT ![key] =
                            IF @ # Never THEN @
                            ELSE clock + TicksPerSecond * RetryAfter(after)]
    BY DEF Request
  <1>8. clock + TicksPerSecond * RetryAfter(after) \in Nat
    <2>1. RetryAfter(after) \in Nat
      BY <1>5, RetryAfterIsNatural
    <2> QED BY <2>1, <1>2 DEF BucketAssumption
  <1> HIDE DEF b, after
  <1>9. BucketTypeOK'
    <2>1. buckets' \in [Keys -> [tokens : 0 .. Capacity, updated : Nat \cup {Never}]]
      BY <1>1, <1>5, <1>6 DEF BucketTypeOK, Bucket
    <2>2. window' \in [Keys -> [from : Nat \cup {Never}, spent : Nat]]
      BY <1>1, <1>7 DEF BucketTypeOK, BucketAssumption
    <2>3. advice' \in [Keys -> Nat \cup {Never}]
      BY <1>1, <1>7, <1>8 DEF BucketTypeOK
    <2> QED BY <1>2, <2>1, <2>2, <2>3 DEF BucketTypeOK
  <1>10. InThePast'
    <2> SUFFICES ASSUME NEW k \in Keys
                 PROVE  buckets'[k].updated <= clock' /\ window'[k].from <= clock'
      BY DEF InThePast
    <2>1. buckets[k].updated <= clock /\ window[k].from <= clock
      BY <1>1 DEF InThePast
    <2>2. buckets'[k].updated <= clock'
      BY <2>1, <1>1, <1>2, <1>5, <1>6 DEF BucketTypeOK
    <2>3. window'[k].from = window[k].from
      BY <1>1, <1>7 DEF BucketTypeOK
    <2> QED BY <1>2, <2>1, <2>2, <2>3
  <1>11. ASSUME NEW k \in Keys PROVE PaidFor(k)'
    <2>1. PaidFor(k) BY <1>1
    <2>2. CASE k # key
      <3>1. buckets'[k] = buckets[k] /\ window'[k] = window[k]
        BY <2>2, <1>1, <1>6, <1>7 DEF BucketTypeOK
      <3> QED BY <2>1, <3>1 DEF PaidFor
    <2>3. CASE k = key
      <3>1. buckets'[k] = after
        BY <2>3, <1>1, <1>6 DEF BucketTypeOK
      <3>2. /\ window[k].from \in Nat \cup {Never} /\ window[k].spent \in Nat
            /\ window[k].from <= clock
            /\ window'[k].from = window[k].from
        BY <1>1, <1>7 DEF BucketTypeOK, InThePast
      <3>3. CASE window[k].from = Never
        <4>1. window'[k].spent = window[k].spent
          BY <2>3, <3>3, <1>1, <1>7 DEF BucketTypeOK
        <4> QED BY <2>1, <3>2, <3>3, <4>1 DEF PaidFor
      <3>4. CASE window[k].from # Never
        <4>1. /\ after.tokens \in 0 .. Capacity
              /\ b.tokens \in 0 .. Capacity /\ b.updated \in Nat
          BY <1>4, <1>5 DEF Bucket
        <4>2. window[k].spent # 0 =>
                /\ b = buckets[k]
                /\ b.updated >= window[k].from
                /\ window[k].spent + b.tokens <= Capacity + (b.updated - window[k].from)
          <5> SUFFICES ASSUME window[k].spent # 0
                       PROVE  /\ b = buckets[k]
                              /\ b.updated >= window[k].from
                              /\ window[k].spent + b.tokens
                                   <= Capacity + (b.updated - window[k].from)
            OBVIOUS
          <5>1. buckets[k].updated >= window[k].from
            BY <2>1, <3>4 DEF PaidFor
          <5>2. buckets[k].updated # Never
            BY <5>1, <3>2, <3>4 DEF Never
          <5>3. b = buckets[k]
            BY <5>2, <2>3 DEF b, BucketOf
          <5> QED BY <5>1, <5>3, <2>1, <3>4 DEF PaidFor
        <4>3. CASE Admits(b, clock)
          <5>1. window'[k].spent = window[k].spent + Cost
            BY <2>3, <3>4, <4>3, <1>1, <1>7 DEF BucketTypeOK
          <5>2. clock >= window[k].from
            BY <3>2
          <5>3. after.tokens + Cost <= b.tokens + (clock - b.updated)
                /\ after.tokens + Cost <= Capacity
            BY <4>3, <1>5
          <5>4. window'[k].spent + after.tokens <= Capacity + (clock - window[k].from)
            <6>1. CASE window[k].spent = 0
              BY <6>1, <5>1, <5>2, <5>3, <4>1, <3>2, <1>2, <3>4 DEF BucketAssumption
            <6>2. CASE window[k].spent # 0
              BY <6>2, <5>1, <5>3, <4>1, <4>2, <3>2, <1>2, <3>4 DEF BucketAssumption
            <6> QED BY <6>1, <6>2
          <5> QED BY <5>2, <5>4, <3>1, <3>2, <3>4, <1>5 DEF PaidFor
        <4>4. CASE ~Admits(b, clock)
          <5>1. window'[k].spent = window[k].spent
            BY <4>4, <1>7
          <5>2. window[k].spent # 0 =>
                  window[k].spent + after.tokens <= Capacity + (clock - window[k].from)
            BY <1>2, <1>5, <3>2, <3>4, <4>1, <4>2 DEF BucketAssumption
          <5> QED BY <5>1, <5>2, <3>1, <3>2, <3>4, <1>5 DEF PaidFor
        <4> QED BY <4>3, <4>4
      <3> QED BY <3>3, <3>4
    <2> QED BY <2>2, <2>3
  <1> QED BY <1>9, <1>10, <1>11 DEF BucketInvariant

-----------------------------------------------------------------------------
(* The theorems *)

\* Every step keeps the invariant: a request, the passing of time, and an
\* observer who begins to count.
LEMMA BucketStep ==
  ASSUME BucketAssumption, BucketInvariant, [BucketNext]_bucketVars
  PROVE  BucketInvariant'
  <1>1. CASE UNCHANGED bucketVars
    BY <1>1 DEF BucketInvariant, BucketTypeOK, InThePast, PaidFor, bucketVars
  <1>2. CASE Tick
    <2>1. clock' = clock + 1 /\ clock \in Nat /\ UNCHANGED <<buckets, window, advice>>
      BY <1>2 DEF Tick, BucketInvariant, BucketTypeOK
    <2>2. BucketTypeOK'
      BY <2>1 DEF BucketInvariant, BucketTypeOK
    <2>3. InThePast'
      <3> SUFFICES ASSUME NEW key \in Keys
                   PROVE  buckets[key].updated <= clock + 1 /\ window[key].from <= clock + 1
        BY <2>1 DEF InThePast
      <3>1. buckets[key].updated <= clock /\ window[key].from <= clock
        BY DEF BucketInvariant, InThePast
      <3>2. buckets[key].updated \in Int /\ window[key].from \in Int
        BY DEF BucketInvariant, BucketTypeOK, Never
      <3> QED BY <2>1, <3>1, <3>2
    <2>4. \A key \in Keys : PaidFor(key)'
      BY <2>1 DEF BucketInvariant, PaidFor
    <2> QED BY <2>2, <2>3, <2>4 DEF BucketInvariant
  <1>3. ASSUME NEW key \in Keys, Request(key) PROVE BucketInvariant'
    BY <1>3, RequestKeepsIt
  <1>4. ASSUME NEW key \in Keys, Observe(key) PROVE BucketInvariant'
    <2>1. /\ window[key].from = Never
          /\ window' = [window EXCEPT ![key].from = clock]
          /\ UNCHANGED <<buckets, clock, advice>>
          /\ clock \in Nat
      BY <1>4 DEF Observe, BucketInvariant, BucketTypeOK
    <2>2. window \in [Keys -> [from : Nat \cup {Never}, spent : Nat]]
      BY DEF BucketInvariant, BucketTypeOK
    <2>3. BucketTypeOK'
      BY <2>1, <2>2 DEF BucketInvariant, BucketTypeOK
    <2>4. ASSUME NEW k \in Keys
          PROVE  /\ window'[k].spent = window[k].spent
                 /\ window'[k].from = IF k = key THEN clock ELSE window[k].from
      BY <2>1, <2>2
    <2>5. InThePast'
      BY <2>1, <2>4 DEF BucketInvariant, InThePast
    <2>6. ASSUME NEW k \in Keys PROVE PaidFor(k)'
      <3>1. PaidFor(k) BY DEF BucketInvariant
      <3>2. CASE k = key
        <4>1. window'[k].spent = 0
          BY <2>1, <2>4, <3>1, <3>2 DEF PaidFor
        <4> QED BY <4>1 DEF PaidFor
      <3>3. CASE k # key
        BY <2>1, <2>4, <3>1, <3>3 DEF PaidFor
      <3> QED BY <3>2, <3>3
    <2> QED BY <2>3, <2>5, <2>6 DEF BucketInvariant
  <1> QED BY <1>1, <1>2, <1>3, <1>4 DEF BucketNext

\* The invariant implies the bound on every window.
LEMMA PaidForIsBounded == BucketAssumption /\ BucketInvariant => BurstIsBounded
  <1> SUFFICES ASSUME BucketAssumption, BucketInvariant, NEW key \in Keys,
                      window[key].from # Never
               PROVE  window[key].spent <= Capacity + (clock - window[key].from)
    BY DEF BurstIsBounded
  <1>1. PaidFor(key) /\ buckets[key].updated <= clock /\ window[key].from <= clock
    BY DEF BucketInvariant, InThePast
  <1>2. /\ buckets[key].tokens \in 0 .. Capacity /\ buckets[key].updated \in Int
        /\ window[key].from \in Int /\ window[key].spent \in Nat /\ clock \in Nat
    BY DEF BucketInvariant, BucketTypeOK, Never
  <1> QED BY <1>1, <1>2 DEF PaidFor, BucketAssumption

\* The invariant holds in every reachable state.
THEOREM BucketIsSound == BucketSpec => []BucketInvariant
  <1>1. BucketInit => BucketInvariant
    BY BucketAssumption
    DEF BucketInit, BucketInvariant, BucketTypeOK, InThePast, PaidFor, Never, BucketAssumption
  <1>2. BucketInvariant /\ [BucketNext]_bucketVars => BucketInvariant'
    BY BucketAssumption, BucketStep
  <1> QED BY <1>1, <1>2, PTL DEF BucketSpec

\* TokenBucket's promise (ratelimit.py): whenever one begins to count, a key
\* is admitted at most a full burst and what the time since then earned.
THEOREM BurstsAreBounded == BucketSpec => []BurstIsBounded
  <1>1. BucketInvariant => BurstIsBounded
    BY BucketAssumption, PaidForIsBounded
  <1> QED BY <1>1, BucketIsSound, PTL

-----------------------------------------------------------------------------
(* Retry-After *)

\* Integer division loses less than one divisor.
LEMMA DivisionBounds ==
  ASSUME NEW x \in Int, NEW y \in Nat \ {0}
  PROVE  y * (x \div y) > x - y
OBVIOUS

\* The advice is short of what is missing by less than a millisecond.
LEMMA AdviceIsEnough ==
  ASSUME BucketAssumption, NEW b \in Bucket
  PROVE  1000 * (TicksPerSecond * RetryAfter(b)) + TicksPerSecond >= 1000 * (Cost - b.tokens)
  <1> DEFINE x == 1000 * (Cost - b.tokens) + 999 * TicksPerSecond
             y == 1000 * TicksPerSecond
             whole == x \div y
  <1>1. x \in Int /\ y \in Nat \ {0} /\ TicksPerSecond \in Nat \ {0}
    BY DEF Bucket, BucketAssumption
  <1>2. x - y = 1000 * (Cost - b.tokens) - TicksPerSecond
    BY DEF Bucket, BucketAssumption
  <1>3. RetryAfter(b) = IF whole < 1 THEN 1 ELSE whole
    BY DEF RetryAfter
  <1> HIDE DEF x, y
  <1>4. y * whole > x - y /\ whole \in Int
    BY <1>1, DivisionBounds
  <1>5. RetryAfter(b) \in Nat /\ RetryAfter(b) >= whole
    BY <1>4, <1>3, RetryAfterIsNatural
  <1>6. Cost - b.tokens \in Int
    BY DEF Bucket, BucketAssumption
  <1> HIDE DEF whole
  <1>7. y * RetryAfter(b) >= y * whole
    BY <1>1, <1>4, <1>5
  <1>8. y * RetryAfter(b) = 1000 * (TicksPerSecond * RetryAfter(b))
    BY <1>1, <1>5 DEF y
  <1>9. y * whole \in Int /\ y * RetryAfter(b) \in Int
    BY <1>1, <1>4, <1>5
  <1> QED BY <1>1, <1>4, <1>2, <1>6, <1>7, <1>8, <1>9

\* Whoever was advised will find, at the time advised, a token but for that
\* millisecond. Asking early moves what the bucket holds and when it was
\* reckoned by the same amount.
Advised(key) ==
  advice[key] # Never =>
    /\ buckets[key].updated # Never
    /\ 1000 * (buckets[key].tokens + (advice[key] - buckets[key].updated)) + TicksPerSecond
         >= 1000 * Cost

\* A bucket that is refused has earned all it could since it was reckoned.
LEMMA RefusalKeepsCount ==
  ASSUME BucketAssumption, NEW b \in Bucket, NEW now \in Nat, b.updated <= now,
         ~Admits(b, now)
  PROVE  /\ Consumed(b, now).tokens = b.tokens + (now - b.updated)
         /\ Consumed(b, now).updated = now
  <1>1. Refilled(b, now) \in 0 .. Capacity
    BY RefillIsBounded
  <1>2. Refilled(b, now) < Cost
    BY <1>1 DEF Admits, BucketAssumption
  <1>3. Refilled(b, now) = b.tokens + (now - b.updated)
    BY <1>2 DEF Refilled, BucketAssumption
  <1> QED BY <1>3 DEF Consumed

\* Another request, refused or not, does not shorten what was advised: it
\* moves the count and its date alike.
LEMMA RequestKeepsAdvice ==
  ASSUME BucketAssumption, BucketInvariant, NEW key \in Keys, Request(key), Advised(key)
  PROVE  Advised(key)'
  <1> DEFINE b == BucketOf(key)
             after == Consumed(b, clock)
  <1>1. BucketTypeOK /\ InThePast /\ clock \in Nat
    BY DEF BucketInvariant, BucketTypeOK
  <1>2. /\ buckets[key].tokens \in 0 .. Capacity
        /\ buckets[key].updated \in Nat \cup {Never}
        /\ buckets[key].updated <= clock
        /\ advice[key] \in Nat \cup {Never}
    BY <1>1 DEF BucketTypeOK, InThePast
  <1>3. b \in Bucket /\ b.updated <= clock
    <2>1. CASE buckets[key].updated = Never
      BY <2>1, <1>1 DEF BucketOf, Bucket, BucketAssumption
    <2>2. CASE buckets[key].updated # Never
      <3>1. b = buckets[key]
        BY <2>2 DEF BucketOf
      <3>2. buckets[key] \in [tokens : 0 .. Capacity, updated : Nat \cup {Never}]
        BY <1>1 DEF BucketTypeOK
      <3> QED BY <2>2, <3>1, <3>2, <1>2 DEF Bucket
    <2> QED BY <2>1, <2>2
  <1>4. buckets'[key] = after
    BY <1>1 DEF Request, BucketTypeOK
  <1>5. after \in Bucket /\ after.updated = clock
    BY <1>1, <1>3, ConsumeIsPaidFor
  <1>6. clock # Never
    BY <1>1 DEF Never
  <1>7. CASE Admits(b, clock)
    <2>1. advice'[key] = Never
      BY <1>1, <1>7 DEF Request, BucketTypeOK
    <2> QED BY <2>1 DEF Advised
  <1>8. CASE ~Admits(b, clock)
    <2>1. after.tokens = b.tokens + (clock - b.updated)
      BY <1>1, <1>3, <1>8, RefusalKeepsCount
    <2>2. advice'[key] = IF advice[key] # Never THEN advice[key]
                         ELSE clock + TicksPerSecond * RetryAfter(after)
      BY <1>1, <1>8 DEF Request, BucketTypeOK
    <2>3. after.tokens \in Nat /\ b.tokens \in Nat /\ b.updated \in Nat
      BY <1>3, <1>5 DEF Bucket, BucketAssumption
    <2>4. CASE advice[key] # Never
      <3>1. b = buckets[key]
        BY <2>4 DEF Advised, BucketOf
      <3>2. 1000 * (b.tokens + (advice[key] - b.updated)) + TicksPerSecond >= 1000 * Cost
        BY <2>4, <3>1 DEF Advised
      <3>3. advice[key] \in Nat
        BY <1>2, <2>4
      <3> HIDE DEF b, after
      <3>4. 1000 * (after.tokens + (advice[key] - clock)) + TicksPerSecond >= 1000 * Cost
        BY <1>1, <2>1, <2>3, <3>2, <3>3 DEF BucketAssumption
      <3> QED BY <1>4, <1>5, <1>6, <2>2, <2>4, <3>4 DEF Advised
    <2>5. CASE advice[key] = Never
      <3> DEFINE wait == TicksPerSecond * RetryAfter(after)
      <3>1. 1000 * wait + TicksPerSecond >= 1000 * (Cost - after.tokens) /\ wait \in Nat
        BY <1>5, AdviceIsEnough, RetryAfterIsNatural DEF BucketAssumption
      <3>2. advice'[key] = clock + wait
        BY <2>2, <2>5
      <3> HIDE DEF b, after, wait
      <3>3. 1000 * (after.tokens + (clock + wait - clock)) + TicksPerSecond >= 1000 * Cost
        BY <1>1, <2>3, <3>1 DEF BucketAssumption
      <3>4. buckets'[key].tokens = after.tokens /\ buckets'[key].updated = clock
        BY <1>4, <1>5
      <3>5. 1000 * (buckets'[key].tokens + (advice'[key] - buckets'[key].updated))
              + TicksPerSecond >= 1000 * Cost
        BY <1>1, <2>3, <3>1, <3>2, <3>3, <3>4 DEF BucketAssumption
      <3> QED BY <1>6, <3>4, <3>5 DEF Advised
    <2> QED BY <2>4, <2>5
  <1> QED BY <1>7, <1>8

LEMMA AdviceStep ==
  ASSUME BucketAssumption, BucketInvariant, \A key \in Keys : Advised(key),
         [BucketNext]_bucketVars
  PROVE  \A key \in Keys : Advised(key)'
  <1> SUFFICES ASSUME NEW key \in Keys
               PROVE  Advised(key)'
    OBVIOUS
  <1>1. Advised(key)
    OBVIOUS
  <1>2. CASE UNCHANGED <<buckets, advice>>
    BY <1>1, <1>2 DEF Advised
  <1>3. ASSUME NEW other \in Keys, Request(other), other # key
        PROVE  Advised(key)'
    <2>1. buckets'[key] = buckets[key] /\ advice'[key] = advice[key]
      BY <1>3 DEF Request, BucketInvariant, BucketTypeOK
    <2> QED BY <1>1, <2>1 DEF Advised
  <1>4. CASE Request(key)
    BY <1>1, <1>4, RequestKeepsAdvice
  <1> QED BY <1>2, <1>3, <1>4 DEF BucketNext, Tick, Observe, bucketVars

\* Who waits as advised and a millisecond more finds a token.
LEMMA AdvisedIsAdmitted ==
  ASSUME BucketAssumption, BucketInvariant, \A key \in Keys : Advised(key)
  PROVE  RetryAfterIsEnough
  <1> SUFFICES ASSUME NEW key \in Keys, advice[key] # Never,
                      1000 * (clock - advice[key]) >= TicksPerSecond
               PROVE  Admits(buckets[key], clock)
    BY DEF RetryAfterIsEnough
  <1> DEFINE t == buckets[key].tokens
             u == buckets[key].updated
  <1>1. /\ u # Never
        /\ 1000 * (t + (advice[key] - u)) + TicksPerSecond >= 1000 * Cost
    BY DEF Advised
  <1>2. t \in Nat /\ u \in Nat /\ clock \in Nat /\ advice[key] \in Nat
    BY <1>1 DEF BucketInvariant, BucketTypeOK, BucketAssumption
  <1> HIDE DEF t, u
  <1>3. 1000 * (t + (clock - u)) >= 1000 * Cost
    BY <1>1, <1>2 DEF BucketAssumption
  <1>4. t + (clock - u) >= Cost
    BY <1>2, <1>3 DEF BucketAssumption
  <1> QED BY <1>2, <1>4 DEF Admits, Refilled, BucketAssumption, t, u

\* Retry-After is never short by more than the millisecond its rounding
\* leaves out, for any rate, capacity and history (TokenBucket.retry_after).
THEOREM AdviceIsSound == BucketSpec => []RetryAfterIsEnough
  <1>1. BucketInit => \A key \in Keys : Advised(key)
    BY DEF BucketInit, Advised
  <1>2. BucketInvariant /\ (\A key \in Keys : Advised(key)) /\ [BucketNext]_bucketVars
          => (\A key \in Keys : Advised(key))'
    BY BucketAssumption, AdviceStep
  <1>3. BucketInvariant /\ (\A key \in Keys : Advised(key)) => RetryAfterIsEnough
    BY BucketAssumption, AdvisedIsAdmitted
  <1> QED BY <1>1, <1>2, <1>3, BucketIsSound, PTL DEF BucketSpec
=============================================================================
