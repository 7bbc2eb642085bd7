------------------------------ MODULE Registry ------------------------------
(***************************************************************************)
(* The one extension mechanism: a registry of providers (engines, tools,   *)
(* observers, auth providers) filled by code and, at the first look-up     *)
(* that needs it, by the packages' entry points, under threads that look   *)
(* up and register at the same time.  Loading an entry point imports a     *)
(* module, and a module may register providers of its own.                 *)
(***************************************************************************)
EXTENDS Naturals, Sequences

CONSTANTS
  Threads,
  EntryPoints,  \* sequence: name, broken (its module does not load), brings (see above)
  Known,        \* the names anybody asks for
  Nobody        \* no thread

ASSUME NobodyAssumption == Nobody \notin Threads

\* A module that registers its entry point's own name registers the provider
\* the entry point names, which is as good as not registering it.
ASSUME EntryPointsAssumption ==
  /\ EntryPoints \in Seq([name : Known, broken : BOOLEAN, brings : SUBSET Known])
  /\ \A i \in DOMAIN EntryPoints : EntryPoints[i].name \notin EntryPoints[i].brings

VARIABLES
  providers,   \* name -> "code", "entry_point" or "missing"
  discovered,  \* _discovered
  holder,      \* the thread that holds _lock
  cursor,      \* the scan: the entry point it is at, and whether that is being imported
  lookup       \* thread -> where it is, what it asked for, what it was told

registryVars == <<providers, discovered, holder, cursor, lookup>>

InCode == {n \in Known : providers[n] = "code"}
Present == {n \in Known : providers[n] # "missing"}

MoveThread(t, where) == lookup' = [lookup EXCEPT ![t].where = where]

-----------------------------------------------------------------------------
(* The operations *)

\* A call begins. `since` is what had been registered in code by then.
AskFor(t, where, names) ==
  /\ lookup[t].where = "idle"
  /\ lookup' = [lookup EXCEPT ![t] = [where |-> where, names |-> names, since |-> InCode,
                                      found |-> {}, told |-> FALSE]]
  /\ UNCHANGED <<providers, discovered, holder, cursor>>

\* get: a name that is there needs no discovery.
Get(t, n) == AskFor(t, IF n \in Present THEN "reading" ELSE "discovering", {n})

\* names
List(t) == AskFor(t, "discovering", Known)

\* _discover, before the lock
Discover(t) ==
  /\ lookup[t].where = "discovering"
  /\ MoveThread(t, IF discovered THEN "reading" ELSE "waiting")
  /\ UNCHANGED <<providers, discovered, holder, cursor>>

\* The lock is taken; somebody may have finished while this thread waited.
EnterScan(t) ==
  /\ lookup[t].where = "waiting" /\ holder = Nobody
  /\ IF discovered THEN MoveThread(t, "reading") /\ UNCHANGED <<holder, cursor>>
     ELSE MoveThread(t, "scanning") /\ holder' = t /\ cursor' = [at |-> 1, importing |-> FALSE]
  /\ UNCHANGED <<providers, discovered>>

Scanning(t) == lookup[t].where = "scanning" /\ cursor.at \in DOMAIN EntryPoints

\* One entry point: skipped when its name is taken, else its import begins,
\* and what the module registers goes through the same lock (it is reentrant).
Import(t) ==
  /\ Scanning(t) /\ ~cursor.importing
  /\ LET ep == EntryPoints[cursor.at]
     IN  IF ep.name \in Present
         THEN cursor' = [cursor EXCEPT !.at = @ + 1] /\ UNCHANGED providers
         ELSE /\ cursor' = [cursor EXCEPT !.importing = TRUE]
              /\ providers' = [n \in Known |-> IF n \in ep.brings THEN "code" ELSE providers[n]]
  /\ UNCHANGED <<discovered, holder, lookup>>

\* The import ended: its provider is kept, or it was broken and is skipped.
Load(t) ==
  /\ Scanning(t) /\ cursor.importing
  /\ LET ep == EntryPoints[cursor.at]
     IN  providers' = [providers EXCEPT ![ep.name] = IF ep.broken THEN @ ELSE "entry_point"]
  /\ cursor' = [at |-> cursor.at + 1, importing |-> FALSE]
  /\ UNCHANGED <<discovered, holder, lookup>>

\* Only with every entry point loaded is discovery said to have run.
Publish(t) ==
  /\ lookup[t].where = "scanning" /\ cursor.at = Len(EntryPoints) + 1
  /\ discovered' = TRUE
  /\ holder' = Nobody
  /\ MoveThread(t, "reading")
  /\ UNCHANGED <<providers, cursor>>

\* The answer, read without the lock.
ReadProviders(t) ==
  /\ lookup[t].where = "reading"
  /\ lookup' = [lookup EXCEPT ![t].where = "idle", ![t].told = TRUE,
                              ![t].found = lookup[t].names \cap Present]
  /\ UNCHANGED <<providers, discovered, holder, cursor>>

\* Mutated form: a registration does not wait for the lock.
RegisterAnyTime(t, n) ==
  /\ lookup[t].where = "idle"
  /\ providers' = [providers EXCEPT ![n] = "code"]
  /\ UNCHANGED <<discovered, holder, cursor, lookup>>

\* register, once the lock is free: the last one wins.
Register(t, n) ==
  /\ lookup[t].where = "idle" /\ holder = Nobody
  /\ providers' = [providers EXCEPT ![n] = "code"]
  /\ UNCHANGED <<discovered, holder, cursor, lookup>>

-----------------------------------------------------------------------------
(* The specification *)

RegistryInit ==
  /\ providers = [n \in Known |-> "missing"]
  /\ discovered = FALSE /\ holder = Nobody
  /\ cursor = [at |-> 1, importing |-> FALSE]
  /\ lookup = [t \in Threads |-> [where |-> "idle", names |-> {}, since |-> {}, found |-> {},
                                  told |-> FALSE]]

RegistryStep(t) ==
  \/ Discover(t) \/ EnterScan(t) \/ Import(t) \/ Load(t) \/ Publish(t) \/ ReadProviders(t)

RegistryNext ==
  \E t \in Threads : \/ \E n \in Known : Get(t, n) \/ Register(t, n)
                     \/ List(t)
                     \/ RegistryStep(t)

RegistrySpec == RegistryInit /\ [][RegistryNext]_registryVars

-----------------------------------------------------------------------------
(* Properties *)

\* Types of the providers, the scan and the threads.
RegistryTypeOK ==
  /\ providers \in [Known -> {"code", "entry_point", "missing"}]
  /\ discovered \in BOOLEAN
  /\ holder \in Threads \cup {Nobody}
  /\ cursor \in [at : 1 .. Len(EntryPoints) + 1, importing : BOOLEAN]
  /\ lookup \in [Threads -> [where : {"idle", "discovering", "waiting", "scanning", "reading"},
                             names : SUBSET Known, since : SUBSET Known, found : SUBSET Known,
                             told : BOOLEAN]]

\* The names of the entry points that load.
Loadable ==
  {EntryPoints[i].name : i \in {j \in DOMAIN EntryPoints : ~EntryPoints[j].broken}}

\* "A concurrent first-time lookup never sees the half-populated in-between"
\* and "in-code registration wins over an entry point of the same name": what
\* a look-up is told lacks no entry point that loads and nothing registered
\* before it began, and what was registered in code stays so, whoever scanned
\* at the time.
LookupsAreTrue ==
  \A t \in Threads :
    /\ lookup[t].since \subseteq InCode
    /\ lookup[t].told =>
         lookup[t].names \cap (Loadable \cup lookup[t].since) \subseteq lookup[t].found
=============================================================================
