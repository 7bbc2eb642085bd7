--------------------------- MODULE PlatformProofs ---------------------------
(***************************************************************************)
(* What holds around the agents, whatever is installed.  The registry of   *)
(* providers: for any number of threads, whatever the entry points are and *)
(* whatever their modules register while they are imported, what a look-up *)
(* is told.  The command line: for any specs, machines, edits and deaths,  *)
(* what the gates, the scaffold and the workers may be relied upon for.    *)
(***************************************************************************)
EXTENDS MCPlatform, ServiceProofs, EngineProofs, TurnProofs


-----------------------------------------------------------------------------
(* The registry: its invariant                                             *)

\* The lock has one holder, who scans, and nobody scans once it was done.
OneScan ==
  /\ \A t \in Threads : lookup[t].where = "scanning" <=> holder = t
  /\ discovered => holder = Nobody

\* The name of an entry point being imported is free, and stays so until its
\* provider is kept: who registers in code waits for the lock.
NameIsFree ==
  cursor.importing =>
    /\ holder # Nobody
    /\ cursor.at \in DOMAIN EntryPoints
    /\ EntryPoints[cursor.at].name \notin Present

\* The scan leaves nothing out that loads.
ScanIsThorough ==
  /\ holder # Nobody => \A i \in DOMAIN EntryPoints :
       i < cursor.at /\ ~EntryPoints[i].broken => EntryPoints[i].name \in Present
  /\ discovered => Loadable \subseteq Present

\* Who is about to read waited for all it may have to find.
ReadersWaited ==
  \A t \in Threads : lookup[t].where = "reading" => lookup[t].names \cap Loadable \subseteq Present

RegistryInvariant ==
  /\ RegistryTypeOK
  /\ OneScan
  /\ NameIsFree
  /\ ScanIsThorough
  /\ ReadersWaited
  /\ LookupsAreTrue

\* The entry points are a sequence of entry points.
LEMMA EntryPointsTyped ==
  /\ Len(EntryPoints) \in Nat
  /\ DOMAIN EntryPoints = 1 .. Len(EntryPoints)
  /\ \A i \in DOMAIN EntryPoints :
       /\ EntryPoints[i] \in [name : Known, broken : BOOLEAN, brings : SUBSET Known]
       /\ EntryPoints[i].name \notin EntryPoints[i].brings
  <1> DEFINE Entries == [name : Known, broken : BOOLEAN, brings : SUBSET Known]
  <1>1. EntryPoints \in Seq(Entries)
    BY EntryPointsAssumption
  <1> HIDE DEF Entries
  <1>2. /\ Len(EntryPoints) \in Nat
        /\ DOMAIN EntryPoints = 1 .. Len(EntryPoints)
        /\ \A i \in DOMAIN EntryPoints : EntryPoints[i] \in Entries
    BY <1>1
  <1> QED BY <1>2, EntryPointsAssumption DEF Entries

-----------------------------------------------------------------------------
(* The registry: steps that move threads only                              *)

\* Beginning a call.
LEMMA AskingKeepsIt ==
  ASSUME RegistryInvariant, NEW t \in Threads, NEW where \in {"reading", "discovering"},
         NEW names \in SUBSET Known, AskFor(t, where, names),
         where = "reading" => names \subseteq Present
  PROVE  RegistryInvariant'
  <1> USE DEF RegistryInvariant
  <1>1. /\ lookup[t].where = "idle"
        /\ lookup' = [lookup EXCEPT ![t] = [where |-> where, names |-> names, since |-> InCode,
                                            found |-> {}, told |-> FALSE]]
        /\ UNCHANGED <<providers, discovered, holder, cursor>>
    BY DEF AskFor
  <1>2. \A u \in Threads : lookup'[u] =
          IF u = t THEN [where |-> where, names |-> names, since |-> InCode, found |-> {},
                         told |-> FALSE] ELSE lookup[u]
    BY <1>1 DEF RegistryTypeOK
  <1>3. InCode' = InCode /\ Present' = Present /\ InCode \subseteq Known
    BY <1>1 DEF InCode, Present
  <1>4. RegistryTypeOK'
    BY <1>1, <1>3 DEF RegistryTypeOK
  <1>5. OneScan'
    BY <1>1, <1>2 DEF OneScan
  <1>6. NameIsFree' /\ ScanIsThorough'
    BY <1>1, <1>3 DEF NameIsFree, ScanIsThorough
  <1>7. ReadersWaited'
    BY <1>2, <1>3 DEF ReadersWaited
  <1>8. LookupsAreTrue'
    BY <1>2, <1>3 DEF LookupsAreTrue
  <1> QED BY <1>4, <1>5, <1>6, <1>7, <1>8

\* A thread on its way to the answer.
LEMMA MovingKeepsIt ==
  ASSUME RegistryInvariant, NEW t \in Threads, NEW where \in {"reading", "waiting"},
         MoveThread(t, where), lookup[t].where \in {"discovering", "waiting"},
         where = "reading" => discovered,
         UNCHANGED <<providers, discovered, holder, cursor>>
  PROVE  RegistryInvariant'
  <1> USE DEF RegistryInvariant
  <1>1. lookup' = [lookup EXCEPT ![t].where = where]
    BY DEF MoveThread
  <1>2. \A u \in Threads :
          /\ lookup'[u].where = IF u = t THEN where ELSE lookup[u].where
          /\ lookup'[u].names = lookup[u].names /\ lookup'[u].since = lookup[u].since
          /\ lookup'[u].found = lookup[u].found /\ lookup'[u].told = lookup[u].told
    BY <1>1 DEF RegistryTypeOK
  <1>3. InCode' = InCode /\ Present' = Present
    BY DEF InCode, Present
  <1>4. RegistryTypeOK'
    BY <1>1 DEF RegistryTypeOK
  <1>5. OneScan'
    BY <1>2 DEF OneScan
  <1>6. NameIsFree' /\ ScanIsThorough'
    BY <1>3 DEF NameIsFree, ScanIsThorough
  <1>7. ReadersWaited'
    BY <1>2, <1>3 DEF ReadersWaited, ScanIsThorough
  <1>8. LookupsAreTrue'
    BY <1>2, <1>3 DEF LookupsAreTrue
  <1> QED BY <1>4, <1>5, <1>6, <1>7, <1>8

\* The answer: what was asked for and is there by now.
LEMMA ReadingKeepsIt ==
  ASSUME RegistryInvariant, NEW t \in Threads, ReadProviders(t)
  PROVE  RegistryInvariant'
  <1> USE DEF RegistryInvariant
  <1>1. /\ lookup[t].where = "reading"
        /\ lookup' = [lookup EXCEPT ![t].where = "idle", ![t].told = TRUE,
                                    ![t].found = lookup[t].names \cap Present]
        /\ UNCHANGED <<providers, discovered, holder, cursor>>
    BY DEF ReadProviders
  <1>2. /\ \A u \in Threads :
             /\ lookup'[u].where = IF u = t THEN "idle" ELSE lookup[u].where
             /\ lookup'[u].names = lookup[u].names /\ lookup'[u].since = lookup[u].since
             /\ u # t => lookup'[u].found = lookup[u].found /\ lookup'[u].told = lookup[u].told
        /\ lookup'[t].found = lookup[t].names \cap Present
    BY <1>1 DEF RegistryTypeOK
  <1>3. /\ InCode' = InCode /\ Present' = Present
        /\ InCode \subseteq Present /\ Present \subseteq Known
    BY <1>1 DEF InCode, Present
  <1>4. RegistryTypeOK'
    <2>1. lookup' = [lookup EXCEPT ![t] = [lookup[t] EXCEPT !.where = "idle", !.told = TRUE,
                                             !.found = lookup[t].names \cap Present]]
      BY <1>1 DEF RegistryTypeOK
    <2>2. [lookup[t] EXCEPT !.where = "idle", !.told = TRUE,
                            !.found = lookup[t].names \cap Present]
            \in [where : {"idle", "discovering", "waiting", "scanning", "reading"},
                names : SUBSET Known, since : SUBSET Known, found : SUBSET Known,
                told : BOOLEAN]
      BY <1>3 DEF RegistryTypeOK
    <2> HIDE DEF RegistryInvariant
    <2>3. RegistryTypeOK
      BY DEF RegistryInvariant
    <2> QED BY <1>1, <2>1, <2>2, <2>3 DEF RegistryTypeOK
  <1>5. OneScan'
    <2>1. holder # t
      BY <1>1 DEF OneScan
    <2>2. ASSUME NEW u \in Threads
          PROVE  lookup'[u].where = "scanning" <=> lookup[u].where = "scanning"
      <3>1. lookup'[u].where = IF u = t THEN "idle" ELSE lookup[u].where
        BY <1>2
      <3> QED BY <3>1, <1>1
    <2> QED BY <1>1, <2>2 DEF OneScan
  <1>6. NameIsFree' /\ ScanIsThorough'
    BY <1>1, <1>3 DEF NameIsFree, ScanIsThorough
  <1>7. ReadersWaited'
    BY <1>2, <1>3 DEF ReadersWaited
  <1>8. LookupsAreTrue'
    <2> SUFFICES ASSUME NEW u \in Threads
                 PROVE  /\ lookup'[u].since \subseteq InCode
                        /\ lookup'[u].told => lookup'[u].names \cap (Loadable \cup lookup'[u].since)
                                                \subseteq lookup'[u].found
      BY <1>3 DEF LookupsAreTrue
    <2>1. CASE u # t
      BY <2>1, <1>2 DEF LookupsAreTrue
    <2>2. CASE u = t
      <3>1. lookup[t].names \cap Loadable \subseteq Present
        BY <1>1 DEF ReadersWaited
      <3>2. lookup[t].since \subseteq InCode
        BY DEF LookupsAreTrue
      <3> QED BY <2>2, <3>1, <3>2, <1>2, <1>3
    <2> QED BY <2>1, <2>2
  <1> QED BY <1>4, <1>5, <1>6, <1>7, <1>8

-----------------------------------------------------------------------------
(* The registry: steps that change what is registered                      *)

\* More is registered, nothing in code is lost: look-ups stay true.
LEMMA MoreIsTrue ==
  ASSUME RegistryInvariant, UNCHANGED <<lookup, discovered>>,
         InCode \subseteq InCode', Present \subseteq Present'
  PROVE  /\ ReadersWaited' /\ LookupsAreTrue'
         /\ (discovered => Loadable \subseteq Present)'
  BY DEF RegistryInvariant, ReadersWaited, LookupsAreTrue, ScanIsThorough

\* A registration in code, while nobody scans.
LEMMA RegisteringKeepsIt ==
  ASSUME RegistryInvariant, NEW t \in Threads, NEW n \in Known, Register(t, n)
  PROVE  RegistryInvariant'
  <1> USE DEF RegistryInvariant
  <1>1. /\ holder = Nobody
        /\ providers' = [providers EXCEPT ![n] = "code"]
        /\ UNCHANGED <<discovered, holder, cursor, lookup>>
    BY DEF Register
  <1>2. InCode \subseteq InCode' /\ Present \subseteq Present'
    BY <1>1 DEF InCode, Present, RegistryTypeOK
  <1>3. RegistryTypeOK'
    BY <1>1 DEF RegistryTypeOK
  <1>4. OneScan'
    BY <1>1 DEF OneScan
  <1>5. NameIsFree'
    BY <1>1 DEF NameIsFree
  <1>6. /\ ReadersWaited' /\ LookupsAreTrue' /\ (discovered => Loadable \subseteq Present)'
    BY <1>1, <1>2, MoreIsTrue
  <1>7. ScanIsThorough'
    BY <1>1, <1>6 DEF ScanIsThorough
  <1> QED BY <1>3, <1>4, <1>5, <1>6, <1>7

\* An import begins, or a taken name is skipped.
LEMMA ImportingKeepsIt ==
  ASSUME RegistryInvariant, NEW t \in Threads, Import(t)
  PROVE  RegistryInvariant'
  <1> USE DEF RegistryInvariant
  <1> DEFINE ep == EntryPoints[cursor.at]
  <1>1. /\ lookup[t].where = "scanning" /\ cursor.at \in DOMAIN EntryPoints /\ ~cursor.importing
        /\ UNCHANGED <<discovered, holder, lookup>>
        /\ holder = t /\ holder # Nobody /\ ~discovered
    BY NobodyAssumption DEF Import, Scanning, OneScan
  <1>2. /\ ep \in [name : Known, broken : BOOLEAN, brings : SUBSET Known]
        /\ ep.name \notin ep.brings
        /\ cursor.at \in 1 .. Len(EntryPoints)
    BY <1>1, EntryPointsTyped
  <1>3. OneScan'
    BY <1>1 DEF OneScan
  <1>4. CASE ep.name \in Present
    <2>1. cursor' = [cursor EXCEPT !.at = @ + 1] /\ UNCHANGED providers
      BY <1>4 DEF Import
    <2>2. InCode' = InCode /\ Present' = Present
      BY <2>1 DEF InCode, Present
    <2>3. RegistryTypeOK'
      BY <1>1, <1>2, <2>1, EntryPointsTyped DEF RegistryTypeOK
    <2>4. cursor'.importing = FALSE /\ cursor'.at = cursor.at + 1
      BY <1>1, <2>1 DEF RegistryTypeOK
    <2>5. ScanIsThorough'
      BY <1>1, <1>2, <1>4, <2>2, <2>4, EntryPointsTyped DEF ScanIsThorough, RegistryTypeOK
    <2>6. NameIsFree' /\ ReadersWaited' /\ LookupsAreTrue'
      BY <1>1, <2>2, <2>4, MoreIsTrue DEF NameIsFree
    <2> QED BY <2>3, <2>5, <2>6, <1>3
  <1>5. CASE ep.name \notin Present
    <2>1. /\ cursor' = [cursor EXCEPT !.importing = TRUE]
          /\ providers' = [n \in Known |-> IF n \in ep.brings THEN "code" ELSE providers[n]]
      BY <1>5 DEF Import
    <2>2. InCode \subseteq InCode' /\ Present \subseteq Present'
      BY <2>1 DEF InCode, Present
    <2>3. RegistryTypeOK'
      BY <1>1, <2>1 DEF RegistryTypeOK
    <2>4. cursor'.importing = TRUE /\ cursor'.at = cursor.at
      BY <2>1 DEF RegistryTypeOK
    <2>5. ep.name \notin Present'
      BY <1>2, <1>5, <2>1 DEF Present
    <2>6. NameIsFree'
      BY <1>1, <2>4, <2>5 DEF NameIsFree
    <2>7. ReadersWaited' /\ LookupsAreTrue' /\ (discovered => Loadable \subseteq Present)'
      BY <1>1, <2>2, MoreIsTrue
    <2>8. ScanIsThorough'
      BY <1>1, <2>2, <2>4, <2>7 DEF ScanIsThorough
    <2> QED BY <2>3, <2>6, <2>7, <2>8, <1>3
  <1> QED BY <1>4, <1>5

\* An import ends.
LEMMA LoadingKeepsIt ==
  ASSUME RegistryInvariant, NEW t \in Threads, Load(t)
  PROVE  RegistryInvariant'
  <1> USE DEF RegistryInvariant
  <1> DEFINE ep == EntryPoints[cursor.at]
  <1>1. /\ lookup[t].where = "scanning" /\ cursor.at \in DOMAIN EntryPoints /\ cursor.importing
        /\ providers' = [providers EXCEPT ![ep.name] = IF ep.broken THEN @ ELSE "entry_point"]
        /\ cursor' = [at |-> cursor.at + 1, importing |-> FALSE]
        /\ UNCHANGED <<discovered, holder, lookup>>
        /\ holder = t /\ holder # Nobody /\ ~discovered
    BY NobodyAssumption DEF Load, Scanning, OneScan
  <1>2. /\ ep \in [name : Known, broken : BOOLEAN, brings : SUBSET Known]
        /\ cursor.at \in 1 .. Len(EntryPoints)
    BY <1>1, EntryPointsTyped
  <1>3. ep.name \notin Present
    BY <1>1 DEF NameIsFree
  <1>4. InCode \subseteq InCode' /\ Present \subseteq Present'
    BY <1>1, <1>2, <1>3 DEF InCode, Present, RegistryTypeOK
  <1>5. ~ep.broken => ep.name \in Present'
    BY <1>1, <1>2 DEF Present, RegistryTypeOK
  <1>6. RegistryTypeOK'
    BY <1>1, <1>2, EntryPointsTyped DEF RegistryTypeOK
  <1>7. OneScan' /\ NameIsFree'
    BY <1>1 DEF OneScan, NameIsFree
  <1>8. ReadersWaited' /\ LookupsAreTrue'
    BY <1>1, <1>4, MoreIsTrue
  <1>9. ScanIsThorough'
    BY <1>1, <1>2, <1>4, <1>5, EntryPointsTyped DEF ScanIsThorough, RegistryTypeOK
  <1> QED BY <1>6, <1>7, <1>8, <1>9

-----------------------------------------------------------------------------
(* The registry: its lock                                                  *)

\* A thread gets the lock: somebody has finished meanwhile, or it scans.
LEMMA EnteringKeepsIt ==
  ASSUME RegistryInvariant, NEW t \in Threads, EnterScan(t)
  PROVE  RegistryInvariant'
  <1> USE DEF RegistryInvariant
  <1>1. CASE discovered
    <2>1. /\ MoveThread(t, "reading") /\ lookup[t].where = "waiting"
          /\ UNCHANGED <<providers, discovered, holder, cursor>>
      BY <1>1 DEF EnterScan
    <2> QED BY <2>1, <1>1, MovingKeepsIt
  <1>2. CASE ~discovered
    <2>1. /\ lookup[t].where = "waiting" /\ holder = Nobody
          /\ lookup' = [lookup EXCEPT ![t].where = "scanning"]
          /\ holder' = t /\ cursor' = [at |-> 1, importing |-> FALSE]
          /\ UNCHANGED <<providers, discovered>>
      BY <1>2 DEF EnterScan, MoveThread
    <2>2. \A u \in Threads :
            /\ lookup'[u].where = IF u = t THEN "scanning" ELSE lookup[u].where
            /\ lookup'[u].names = lookup[u].names /\ lookup'[u].since = lookup[u].since
            /\ lookup'[u].found = lookup[u].found /\ lookup'[u].told = lookup[u].told
      BY <2>1 DEF RegistryTypeOK
    <2>3. InCode' = InCode /\ Present' = Present
      BY <2>1 DEF InCode, Present
    <2>4. RegistryTypeOK'
      BY <2>1, EntryPointsTyped DEF RegistryTypeOK
    <2>5. OneScan'
      BY <1>2, <2>1, <2>2, NobodyAssumption DEF OneScan
    <2>6. NameIsFree' /\ ScanIsThorough'
      BY <1>2, <2>1, EntryPointsTyped DEF NameIsFree, ScanIsThorough
    <2>7. ReadersWaited' /\ LookupsAreTrue'
      BY <2>2, <2>3 DEF ReadersWaited, LookupsAreTrue
    <2> QED BY <2>4, <2>5, <2>6, <2>7
  <1> QED BY <1>1, <1>2

\* The scan is over: everything that loads is there.
LEMMA PublishingKeepsIt ==
  ASSUME RegistryInvariant, NEW t \in Threads, Publish(t)
  PROVE  RegistryInvariant'
  <1> USE DEF RegistryInvariant
  <1>1. /\ lookup[t].where = "scanning" /\ cursor.at = Len(EntryPoints) + 1
        /\ discovered' = TRUE /\ holder' = Nobody
        /\ lookup' = [lookup EXCEPT ![t].where = "reading"]
        /\ UNCHANGED <<providers, cursor>>
        /\ holder = t /\ holder # Nobody
    BY NobodyAssumption DEF Publish, MoveThread, OneScan
  <1>2. \A u \in Threads :
          /\ lookup'[u].where = IF u = t THEN "reading" ELSE lookup[u].where
          /\ lookup'[u].names = lookup[u].names /\ lookup'[u].since = lookup[u].since
          /\ lookup'[u].found = lookup[u].found /\ lookup'[u].told = lookup[u].told
    BY <1>1 DEF RegistryTypeOK
  <1>3. InCode' = InCode /\ Present' = Present
    BY <1>1 DEF InCode, Present
  <1>4. Loadable \subseteq Present
    <2> SUFFICES ASSUME NEW i \in DOMAIN EntryPoints, ~EntryPoints[i].broken
                 PROVE  EntryPoints[i].name \in Present
      BY DEF Loadable
    <2>1. i < cursor.at
      BY <1>1, EntryPointsTyped
    <2> QED BY <2>1, <1>1 DEF ScanIsThorough
  <1>5. RegistryTypeOK'
    BY <1>1 DEF RegistryTypeOK
  <1>6. OneScan'
    BY <1>1, <1>2, NobodyAssumption DEF OneScan
  <1>7. ~cursor.importing
    BY <1>1, EntryPointsTyped DEF NameIsFree
  <1>8. NameIsFree' /\ ScanIsThorough'
    BY <1>1, <1>3, <1>4, <1>7 DEF NameIsFree, ScanIsThorough
  <1>9. ReadersWaited' /\ LookupsAreTrue'
    BY <1>2, <1>3, <1>4 DEF ReadersWaited, LookupsAreTrue
  <1> QED BY <1>5, <1>6, <1>8, <1>9

-----------------------------------------------------------------------------
(* The registry: the theorem                                               *)

\* The registry starts empty, with nothing asked.
LEMMA StartsInvariant == RegistryInit => RegistryInvariant
  <1> SUFFICES ASSUME RegistryInit PROVE RegistryInvariant
    OBVIOUS
  <1>1. RegistryTypeOK
    <2>1. cursor \in [at : 1 .. Len(EntryPoints) + 1, importing : BOOLEAN]
      <3>1. 1 \in 1 .. Len(EntryPoints) + 1
        BY EntryPointsTyped
      <3> QED BY <3>1 DEF RegistryInit
    <2> QED BY <2>1 DEF RegistryInit, RegistryTypeOK
  <1>2. OneScan /\ NameIsFree
    BY NobodyAssumption DEF RegistryInit, OneScan, NameIsFree
  <1>3. ScanIsThorough /\ ReadersWaited /\ LookupsAreTrue
    BY DEF RegistryInit, ScanIsThorough, ReadersWaited, LookupsAreTrue
  <1> QED BY <1>1, <1>2, <1>3 DEF RegistryInvariant

\* No step of any thread breaks the invariant.
LEMMA StepsKeepInvariant == RegistryInvariant /\ [RegistryNext]_registryVars => RegistryInvariant'
  <1> SUFFICES ASSUME RegistryInvariant, [RegistryNext]_registryVars PROVE RegistryInvariant'
    OBVIOUS
  <1>1. CASE UNCHANGED registryVars
    <2>1. InCode' = InCode /\ Present' = Present
      BY <1>1 DEF registryVars, InCode, Present
    <2> QED BY <1>1, <2>1
        DEF registryVars, RegistryInvariant, RegistryTypeOK, OneScan, NameIsFree,
            ScanIsThorough, ReadersWaited, LookupsAreTrue
  <1>2. CASE RegistryNext
    <2>1. PICK t \in Threads : \/ \E n \in Known : Get(t, n) \/ Register(t, n)
                               \/ List(t) \/ RegistryStep(t)
      BY <1>2 DEF RegistryNext
    <2>2. ASSUME NEW n \in Known, Get(t, n) PROVE RegistryInvariant'
      <3>1. CASE n \in Present
        <4>1. AskFor(t, "reading", {n})
          BY <2>2, <3>1 DEF Get
        <4> QED BY <4>1, <3>1, AskingKeepsIt
      <3>2. CASE n \notin Present
        <4>1. AskFor(t, "discovering", {n})
          BY <2>2, <3>2 DEF Get
        <4> QED BY <4>1, AskingKeepsIt
      <3> QED BY <3>1, <3>2
    <2>3. ASSUME List(t) PROVE RegistryInvariant'
      BY <2>3, AskingKeepsIt DEF List
    <2>4. ASSUME Discover(t) PROVE RegistryInvariant'
      <3>1. CASE discovered
        BY <2>4, <3>1, MovingKeepsIt DEF Discover
      <3>2. CASE ~discovered
        BY <2>4, <3>2, MovingKeepsIt DEF Discover
      <3> QED BY <3>1, <3>2
    <2> QED BY <2>1, <2>2, <2>3, <2>4, RegisteringKeepsIt, EnteringKeepsIt, ImportingKeepsIt,
               LoadingKeepsIt, PublishingKeepsIt, ReadingKeepsIt DEF RegistryStep
  <1> QED BY <1>1, <1>2

\* However many threads look up, list and register during the one discovery,
\* no look-up is told less than what loads and what was registered before it
\* (Registry.get, Registry.names).
THEOREM LookUpsMissNothing == RegistrySpec => []LookupsAreTrue
  <1>1. RegistryInvariant => LookupsAreTrue
    BY DEF RegistryInvariant
  <1> QED BY <1>1, StartsInvariant, StepsKeepInvariant, PTL DEF RegistrySpec


-----------------------------------------------------------------------------
(* The command line: what is typed, and what each step preserves           *)

Jobs ==
  {NoJob} \cup [cmd : {"upgrade"}, url : Stores \cup {Unset, TRUE}, next : Migrations]
          \cup [cmd : {"new-agent"}, file : Files, force : BOOLEAN]
Servers ==
  {NoServer} \cup [phase : {"specs", "promises", "up"}, env : Env, specs : SUBSET Files]

\* What the files, the commands and the server are made of.
FilesTyped ==
  /\ files \in [Files -> Shape \cup {Absent}]
  /\ companion \subseteq Files /\ saved \subseteq Files
  /\ machine \in Machines
  /\ tables \in [Stores -> SUBSET Migrations]
  /\ job \in Jobs
  /\ server \in Servers

\* new-agent stands between an agent.py that is there and the YAML naming it.
HalfWritten == job.cmd = "new-agent" => job.file \in companion

\* What was not saved since serve took its list is on it; what passed the gates
\* and was not saved since has a store, or nobody needs it.
GateHeld ==
  /\ server.phase # "down" => Written \ saved \subseteq server.specs
  /\ server.phase \in {"promises", "up"} =>
       \A f \in Written \ saved : CheckDurabilityStore(files[f], server.env)

\* A worker runs under a server, and serves what its gate has judged, the
\* unseen excepted.
ServedUnderGate ==
  /\ worker \in [Workers -> [up : BOOLEAN, serves : SUBSET Shape, unseen : SUBSET Shape]]
  /\ \A w \in Workers :
       /\ worker[w].unseen \subseteq worker[w].serves
       /\ ~worker[w].up => worker[w] = Down
       /\ worker[w].up => server.phase = "up"
       /\ \A a \in worker[w].serves \ worker[w].unseen : CheckDurabilityStore(a, server.env)

\* A run kept in memory is one of a durable agent that its worker serves,
\* where there is no store.
RunIsSomewhere ==
  run # NoRun =>
    /\ run.worker \in Workers
    /\ run.home = "memory" =>
         /\ run.agent \in worker[run.worker].serves
         /\ Durable(run.agent)
         /\ server.env["store"] = Unset

DeploymentInv ==
  /\ FilesTyped /\ HalfWritten /\ GateHeld /\ ServedUnderGate /\ RunIsSomewhere
  /\ NoDanglingCode /\ LostOnlyKnowingly

-----------------------------------------------------------------------------
(* The command line: files, environments and gates                         *)

\* A store that is set stays set, and an opt-in stays one, when .env is loaded.
LEMMA LoadingKeepsPromises ==
  ASSUME machine \in Machines, NEW allow \in BOOLEAN
  PROVE  /\ Exported(allow) \in Env
         /\ LoadEnv(Exported(allow)) \in Env
         /\ \A s \in Shape : CheckDurabilityStore(s, Exported(allow))
                              => CheckDurabilityStore(s, LoadEnv(Exported(allow)))
  <1>1. machine.exported \in Env /\ machine.dotenv \in Env /\ Unset # TRUE
    BY DeploymentAssumption
  <1>2. Exported(allow) \in Env
    BY <1>1 DEF Exported, Env
  <1>3. LoadEnv(Exported(allow)) \in Env
    BY <1>1, <1>2 DEF LoadEnv, Env
  <1>4. \A v \in Vars : Exported(allow)[v] # Unset
                        => LoadEnv(Exported(allow))[v] = Exported(allow)[v]
    BY DEF LoadEnv
  <1>5. "store" \in Vars /\ "allow" \in Vars
    BY DEF Vars
  <1> QED BY <1>1, <1>2, <1>3, <1>4, <1>5 DEF CheckDurabilityStore

\* What new-agent writes is a spec, and only the graph template names code.
LEMMA ScaffoldIsSpec ==
  ASSUME NEW f \in Files, NEW template \in {"none", "single", "autonomous", "graph"}
  PROVE  /\ Scaffold(f, template) \in Shape
         /\ Scaffold(f, template).code = "scaffold" <=> template = "graph"
  <1>1. NameOf[f] \in STRING
    BY DeploymentAssumption
  <1> DEFINE steps == IF template = "graph" THEN "none" ELSE template
             code == IF template = "graph" THEN "scaffold" ELSE "none"
  <1>2. /\ steps \in {"none", "single", "autonomous"}
        /\ code \in {"none", "scaffold", "plain", "durable", "broken"}
        /\ code = "scaffold" <=> template = "graph"
    OBVIOUS
  <1>3. Scaffold(f, template) =
          [name |-> NameOf[f], mapping |-> TRUE, template |-> steps, code |-> code,
           engine |-> "langgraph", asks |-> {}, voice |-> "none", traces |-> "default",
           broken |-> {}, exposed |-> FALSE, secured |-> FALSE]
    BY DEF Scaffold
  <1> HIDE DEF steps, code
  <1>4. Scaffold(f, template) \in Shape
    <2>1. /\ "default" \in Tracing
          /\ {} \in SUBSET {"streaming", "schema", "members", "tools", "mcp", "checkpoint"}
          /\ {} \in SUBSET Lookups
      BY DEF Tracing
    <2> QED BY <1>1, <1>2, <1>3, <2>1 DEF Shape
  <1>5. Scaffold(f, template).code = code
    BY <1>3
  <1> QED BY <1>2, <1>4, <1>5

\* A command with several writes is the one its name says.
LEMMA JobsByName ==
  ASSUME job \in Jobs
  PROVE  /\ job.cmd \in {"none", "upgrade", "new-agent"}
         /\ job.cmd = "upgrade"
              => job \in [cmd : {"upgrade"}, url : Stores \cup {Unset, TRUE}, next : Migrations]
         /\ job.cmd = "new-agent"
              => job \in [cmd : {"new-agent"}, file : Files, force : BOOLEAN]
  <1>1. NoJob.cmd = "none"
    BY DEF NoJob
  <1>2. \A j \in [cmd : {"upgrade"}, url : Stores \cup {Unset, TRUE}, next : Migrations] :
          j.cmd = "upgrade"
    OBVIOUS
  <1>3. \A j \in [cmd : {"new-agent"}, file : Files, force : BOOLEAN] : j.cmd = "new-agent"
    OBVIOUS
  <1> QED BY <1>1, <1>2, <1>3 DEF Jobs

\* A file that changes under a server was saved since its gate read it.
LEMMA SavedFiles ==
  ASSUME DeploymentInv, NEW f \in Files, NEW s \in Shape \cup {Absent}, WriteSpec(f, s),
         s # Absent /\ s.code = "scaffold" => f \in companion
  PROVE  /\ files' \in [Files -> Shape \cup {Absent}] /\ saved' \subseteq Files
         /\ GateHeld' /\ NoDanglingCode'
  <1>1. /\ files' = [files EXCEPT ![f] = s]
        /\ saved' = IF server = NoServer THEN {} ELSE saved \cup {f}
        /\ companion' = companion /\ server' = server
    BY DEF WriteSpec, serviceVars
  <1>2. files \in [Files -> Shape \cup {Absent}] /\ saved \subseteq Files
    BY DEF DeploymentInv, FilesTyped
  <1>3. \A g \in Files : g # f => files'[g] = files[g]
    BY <1>1, <1>2
  <1>4. files'[f] = s
    BY <1>1, <1>2
  <1>5. GateHeld'
    <2> SUFFICES ASSUME server.phase # "down", NEW g \in Files,
                        files'[g] # Absent, g \notin saved'
                 PROVE  /\ g \in server.specs
                        /\ server.phase \in {"promises", "up"}
                             => CheckDurabilityStore(files'[g], server.env)
      BY <1>1 DEF GateHeld, Written, CheckDurabilityStore, Durable
    <2>1. server # NoServer
      BY DEF NoServer
    <2>2. g # f /\ g \notin saved
      BY <1>1, <2>1
    <2>3. g \in Written \ saved /\ files'[g] = files[g]
      BY <1>3, <2>2 DEF Written
    <2> QED BY <2>3 DEF DeploymentInv, GateHeld
  <1>6. NoDanglingCode'
    BY <1>1, <1>3, <1>4 DEF DeploymentInv, NoDanglingCode, Written
  <1> QED BY <1>1, <1>2, <1>5, <1>6

\* While the server process and the workers rest, so does what is said of them.
LEMMA ServiceRests ==
  ASSUME DeploymentInv, UNCHANGED <<server, worker, run, lost>>
  PROVE  ServedUnderGate' /\ RunIsSomewhere' /\ LostOnlyKnowingly'
  BY DEF DeploymentInv, ServedUnderGate, RunIsSomewhere, LostOnlyKnowingly,
         CheckDurabilityStore, Durable, Down

\* While the files rest, their promises do.
LEMMA FilesRest ==
  ASSUME DeploymentInv, UNCHANGED <<files, companion, saved, server>>
  PROVE  GateHeld' /\ NoDanglingCode'
  BY DEF DeploymentInv, GateHeld, NoDanglingCode, Written, CheckDurabilityStore, Durable

-----------------------------------------------------------------------------
(* The command line: each command preserves the invariant                  *)

\* upgrade has a database, and its first migration to do.
LEMMA UpgradeKeeps ==
  ASSUME DeploymentInv, NEW flag \in Stores \cup {Unset}, Upgrade(flag)
  PROVE  DeploymentInv'
  <1>1. machine.exported \in Env
    BY DeploymentAssumption DEF DeploymentInv, FilesTyped
  <1>2. ResolveDatabaseUrl(flag) \in Stores \cup {Unset, TRUE}
    BY <1>1 DEF ResolveDatabaseUrl, Env, Vars
  <1>3. job' \in Jobs /\ job'.cmd = "upgrade"
    BY <1>2 DEF Upgrade, Jobs, Migrations
  <1>4. UNCHANGED <<machine, tables, files, companion, saved, server, worker, run, lost>>
    BY DEF Upgrade, fileVars, serviceVars
  <1>5. FilesTyped'
    BY <1>3, <1>4 DEF DeploymentInv, FilesTyped
  <1>6. HalfWritten'
    BY <1>3 DEF HalfWritten
  <1> QED BY <1>4, <1>5, <1>6, ServiceRests, FilesRest DEF DeploymentInv

\* A migration touches its database only.
LEMMA ApplyMigrationKeeps ==
  ASSUME DeploymentInv, ApplyMigration
  PROVE  DeploymentInv'
  <1>1. job \in [cmd : {"upgrade"}, url : Stores \cup {Unset, TRUE}, next : Migrations]
    BY JobsByName DEF ApplyMigration, DeploymentInv, FilesTyped
  <1>2. job' \in Jobs /\ job'.cmd # "new-agent"
    <2>1. CASE job.next = 2 \/ "postgres" \notin machine.installed
      BY <2>1 DEF ApplyMigration, Jobs, NoJob
    <2>2. CASE ~(job.next = 2 \/ "postgres" \notin machine.installed)
      <3>1. job.next + 1 \in Migrations
        BY <1>1, <2>2 DEF Migrations
      <3>2. job' = [job EXCEPT !.next = job.next + 1]
        BY <2>2 DEF ApplyMigration
      <3> QED BY <1>1, <3>1, <3>2 DEF Jobs
    <2> QED BY <2>1, <2>2
  <1>3. tables' \in [Stores -> SUBSET Migrations]
    <2>1. job.next \in Migrations
      BY <1>1
    <2>2. tables \in [Stores -> SUBSET Migrations]
      BY DEF DeploymentInv, FilesTyped
    <2>3. tables' \in {tables, [tables EXCEPT ![job.url] = @ \cup {job.next}]}
      BY DEF ApplyMigration
    <2> QED BY <2>1, <2>2, <2>3
  <1>4. UNCHANGED <<machine, files, companion, saved, server, worker, run, lost>>
    BY DEF ApplyMigration, fileVars, serviceVars
  <1>5. FilesTyped'
    BY <1>2, <1>3, <1>4 DEF DeploymentInv, FilesTyped
  <1>6. HalfWritten'
    BY <1>2 DEF HalfWritten
  <1> QED BY <1>4, <1>5, <1>6, ServiceRests, FilesRest DEF DeploymentInv

\* The YAML comes second: the agent.py it names is there.
LEMMA WriteYamlKeeps ==
  ASSUME DeploymentInv, WriteYaml
  PROVE  DeploymentInv'
  <1>1. job \in [cmd : {"new-agent"}, file : Files, force : BOOLEAN]
    BY JobsByName DEF WriteYaml, DeploymentInv, FilesTyped
  <1>2. job.file \in Files /\ job.file \in companion
    BY <1>1 DEF DeploymentInv, HalfWritten
  <1>3. job' \in Jobs /\ HalfWritten'
    BY DEF WriteYaml, Jobs, HalfWritten, NoJob
  <1>4. CASE MayWrite(job.file \in Written, job.force)
    <2>1. WriteSpec(job.file, Scaffold(job.file, "graph"))
      BY <1>4 DEF WriteYaml
    <2>2. Scaffold(job.file, "graph") \in Shape
      BY <1>2, ScaffoldIsSpec
    <2>3. UNCHANGED <<machine, tables, companion, server, worker, run, lost>>
      BY <2>1 DEF WriteSpec, serviceVars
    <2>4. /\ files' \in [Files -> Shape \cup {Absent}] /\ saved' \subseteq Files
          /\ GateHeld' /\ NoDanglingCode'
      BY <1>2, <2>1, <2>2, SavedFiles
    <2>5. FilesTyped'
      BY <1>3, <2>3, <2>4 DEF DeploymentInv, FilesTyped
    <2> QED BY <1>3, <2>3, <2>4, <2>5, ServiceRests DEF DeploymentInv
  <1>5. CASE ~MayWrite(job.file \in Written, job.force)
    <2>1. UNCHANGED <<machine, tables, files, companion, saved, server, worker, run, lost>>
      BY <1>5 DEF WriteYaml, fileVars, serviceVars
    <2>2. FilesTyped'
      BY <1>3, <2>1 DEF DeploymentInv, FilesTyped
    <2> QED BY <1>3, <2>1, <2>2, ServiceRests, FilesRest DEF DeploymentInv
  <1> QED BY <1>4, <1>5

\* A killed command leaves what it has written.
LEMMA KillKeeps ==
  ASSUME DeploymentInv, Kill
  PROVE  DeploymentInv'
  <1>1. UNCHANGED <<machine, tables, files, companion, saved, server, worker, run, lost>>
    BY DEF Kill, fileVars
  <1>2. job' \in Jobs /\ HalfWritten'
    BY DEF Kill, Jobs, HalfWritten, NoJob
  <1>3. FilesTyped'
    BY <1>1, <1>2 DEF DeploymentInv, FilesTyped
  <1> QED BY <1>1, <1>2, <1>3, ServiceRests, FilesRest DEF DeploymentInv

\* The agent.py comes first, and nobody names it yet.
LEMMA NewGraphAgentKeeps ==
  ASSUME DeploymentInv, NEW f \in Files, NEW force \in BOOLEAN, NewGraphAgent(f, force)
  PROVE  DeploymentInv'
  <1>1. UNCHANGED <<machine, tables, files, saved, server, worker, run, lost>>
    BY DEF NewGraphAgent, serviceVars
  <1>2. companion' = companion \cup {f}
    BY DEF NewGraphAgent
  <1>3. job' \in Jobs /\ HalfWritten'
    BY <1>2 DEF NewGraphAgent, Jobs, HalfWritten
  <1>4. FilesTyped'
    BY <1>1, <1>2, <1>3 DEF DeploymentInv, FilesTyped
  <1>5. GateHeld'
    BY <1>1 DEF DeploymentInv, GateHeld, Written, CheckDurabilityStore, Durable
  <1>6. NoDanglingCode'
    BY <1>1, <1>2 DEF DeploymentInv, NoDanglingCode, Written
  <1> QED BY <1>1, <1>3, <1>4, <1>5, <1>6, ServiceRests DEF DeploymentInv

\* A file written by one write, of new-agent, init or an author.
LEMMA OneWriteKeeps ==
  ASSUME DeploymentInv, NEW f \in Files, NEW s \in Shape \cup {Absent}, WriteSpec(f, s),
         s # Absent => s.code # "scaffold", UNCHANGED job
  PROVE  DeploymentInv'
  <1>1. UNCHANGED <<machine, tables, companion, server, worker, run, lost>>
    BY DEF WriteSpec, serviceVars
  <1>2. /\ files' \in [Files -> Shape \cup {Absent}] /\ saved' \subseteq Files
        /\ GateHeld' /\ NoDanglingCode'
    BY SavedFiles
  <1>3. FilesTyped'
    BY <1>1, <1>2 DEF DeploymentInv, FilesTyped
  <1>4. HalfWritten'
    BY <1>1 DEF DeploymentInv, HalfWritten
  <1> QED BY <1>1, <1>2, <1>3, <1>4, ServiceRests DEF DeploymentInv

\* The other templates name no code.
LEMMA NewYamlAgentKeeps ==
  ASSUME DeploymentInv, NEW f \in Files, NEW template \in {"none", "single", "autonomous"},
         NEW force \in BOOLEAN, NewYamlAgent(f, template, force)
  PROVE  DeploymentInv'
  <1>1. Scaffold(f, template) \in Shape /\ Scaffold(f, template).code # "scaffold"
    BY ScaffoldIsSpec
  <1> QED BY <1>1, OneWriteKeeps DEF NewYamlAgent

\* A hand edit brings in no scaffolded code: the specs of Specs name none.
LEMMA EditKeeps ==
  ASSUME DeploymentInv, NEW f \in Files, NEW s \in Specs \cup {Absent}, Edit(f, s)
  PROVE  DeploymentInv'
  <1>1. s \in Shape \cup {Absent} /\ (s # Absent => s.code # "scaffold")
    BY DeploymentAssumption
  <1> QED BY <1>1, OneWriteKeeps DEF Edit

-----------------------------------------------------------------------------
(* The command line: each step of serve and its workers preserves it       *)

\* The first gate starts from no server, hence from no worker, and forgets
\* what was saved.
LEMMA GateSpecsKeeps ==
  ASSUME DeploymentInv, NEW allow \in BOOLEAN, GateSpecs(allow)
  PROVE  DeploymentInv'
  <1> DEFINE env == LoadEnv(Exported(allow))
  <1>1. UNCHANGED <<machine, tables, files, companion, job, worker, run, lost>>
    BY DEF GateSpecs, Gate
  <1>2. saved' = {}
    BY DEF GateSpecs
  <1>3. env \in Env
    BY LoadingKeepsPromises DEF DeploymentInv, FilesTyped
  <1>4. server' \in {NoServer, [phase |-> "specs", env |-> env, specs |-> Written]}
    BY DEF GateSpecs, Gate
  <1> HIDE DEF env
  <1>5. /\ server' \in Servers /\ server'.phase \in {"down", "specs"}
        /\ server'.phase = "specs" => server'.specs = Written
    BY <1>3, <1>4 DEF Servers, NoServer, Written
  <1>6. server.phase = "down"
    BY DEF GateSpecs, NoServer
  <1>7. FilesTyped'
    BY <1>1, <1>2, <1>5 DEF DeploymentInv, FilesTyped
  <1>8. HalfWritten' /\ NoDanglingCode' /\ LostOnlyKnowingly'
    BY <1>1 DEF DeploymentInv, HalfWritten, NoDanglingCode, Written, LostOnlyKnowingly
  <1>9. GateHeld'
    BY <1>1, <1>5 DEF GateHeld, Written
  <1>10. \A w \in Workers : worker[w] = Down
    BY <1>6 DEF DeploymentInv, ServedUnderGate
  <1>11. ServedUnderGate'
    BY <1>1, <1>10 DEF DeploymentInv, ServedUnderGate, Down
  <1>12. RunIsSomewhere'
    BY <1>1, <1>10 DEF DeploymentInv, RunIsSomewhere, Down
  <1> QED BY <1>7, <1>8, <1>9, <1>11, <1>12 DEF DeploymentInv

\* A later gate passes on the server it was given, or ends it.
LEMMA LaterGateKeeps ==
  ASSUME DeploymentInv, server.phase \in {"specs", "promises"},
         NEW passes \in BOOLEAN, NEW phase \in {"promises", "up"},
         Gate(passes, [server EXCEPT !.phase = phase]), UNCHANGED fileVars,
         passes => \A f \in Written \ saved : CheckDurabilityStore(files[f], server.env)
  PROVE  DeploymentInv'
  <1>1. UNCHANGED <<machine, tables, files, companion, saved, job, worker, run, lost>>
    BY DEF Gate, fileVars
  <1>2. server \in [phase : {"specs", "promises", "up"}, env : Env, specs : SUBSET Files]
    BY DEF DeploymentInv, FilesTyped, Servers, NoServer
  <1>3. server' = IF passes THEN [server EXCEPT !.phase = phase] ELSE NoServer
    BY DEF Gate
  <1>4. /\ server' \in Servers
        /\ passes => server'.env = server.env /\ server'.specs = server.specs
        /\ ~passes => server'.phase = "down"
    BY <1>2, <1>3 DEF Servers, NoServer
  <1>5. FilesTyped'
    BY <1>1, <1>4 DEF DeploymentInv, FilesTyped
  <1>6. HalfWritten' /\ NoDanglingCode' /\ LostOnlyKnowingly'
    BY <1>1 DEF DeploymentInv, HalfWritten, NoDanglingCode, Written, LostOnlyKnowingly
  <1>7. GateHeld'
    <2> SUFFICES ASSUME server'.phase # "down", NEW f \in Written \ saved
                 PROVE  /\ f \in server'.specs
                        /\ CheckDurabilityStore(files[f], server'.env)
      BY <1>1 DEF GateHeld, Written, CheckDurabilityStore, Durable
    <2>1. f \in server.specs
      BY DEF DeploymentInv, GateHeld
    <2> QED BY <1>4, <2>1
  <1>8. \A w \in Workers : worker[w] = Down
    BY DEF DeploymentInv, ServedUnderGate
  <1>9. ServedUnderGate'
    BY <1>1, <1>8 DEF DeploymentInv, ServedUnderGate, Down
  <1>10. RunIsSomewhere'
    BY <1>1, <1>8 DEF DeploymentInv, RunIsSomewhere, Down
  <1> QED BY <1>5, <1>6, <1>7, <1>9, <1>10 DEF DeploymentInv

\* The second gate reads every file of the list again, and keeps the durability
\* promise of each; what was not saved meanwhile is on the list.
LEMMA GatePromisesKeeps ==
  ASSUME DeploymentInv, GatePromises
  PROVE  DeploymentInv'
  <1>1. PromisesCanBeKept(server.specs, server.env) \in BOOLEAN
    BY DEF PromisesCanBeKept
  <1>2. server.phase = "specs" /\ Written \ saved \subseteq server.specs
    BY DEF GatePromises, DeploymentInv, GateHeld
  <1>3. PromisesCanBeKept(server.specs, server.env)
           => \A f \in Written \ saved : CheckDurabilityStore(files[f], server.env)
    BY <1>2 DEF PromisesCanBeKept
  <1> QED BY <1>1, <1>2, <1>3, LaterGateKeeps DEF GatePromises

\* Binding asks nothing about durability: what the second gate saw still holds
\* of the files not saved since.
LEMMA BindKeeps ==
  ASSUME DeploymentInv, NEW provider, NEW inOrder, Bind(provider, inOrder)
  PROVE  DeploymentInv'
  <1> DEFINE passes ==
               AuthBuilds(provider, inOrder) /\ \A f \in server.specs : RaisesNothing(f)
  <1>1. passes \in BOOLEAN
    OBVIOUS
  <1>2. server.phase = "promises" /\ Gate(passes, [server EXCEPT !.phase = "up"])
        /\ UNCHANGED fileVars
    BY DEF Bind
  <1>3. \A f \in Written \ saved : CheckDurabilityStore(files[f], server.env)
    BY <1>2 DEF DeploymentInv, GateHeld
  <1> HIDE DEF passes
  <1> QED BY <1>1, <1>2, <1>3, LaterGateKeeps


\* What a builder returns is a spec.
LEMMA EffectiveIsSpec ==
  ASSUME NEW s \in Shape
  PROVE  Effective(s) \in Shape
  <1> DEFINE asks == IF s.code = "durable" THEN {"checkpoint"} ELSE {}
  <1>1. asks \in SUBSET {"streaming", "schema", "members", "tools", "mcp", "checkpoint"}
    OBVIOUS
  <1>2. Effective(s) \in {s, [s EXCEPT !.asks = asks, !.traces = "default", !.broken = {}]}
    BY DEF Effective
  <1> HIDE DEF asks
  <1>3. "default" \in Tracing /\ {} \in SUBSET Lookups
    BY DEF Tracing
  <1> QED BY <1>1, <1>2, <1>3 DEF Shape

\* A worker that starts builds from what the gate judged, or knows it unseen.
LEMMA StartWorkerKeeps ==
  ASSUME DeploymentInv, NEW w \in Workers, StartWorker(w)
  PROVE  DeploymentInv'
  <1>1. /\ UNCHANGED <<machine, tables, files, companion, saved, job, server, run, lost>>
        /\ server.phase = "up" /\ ~worker[w].up
    BY DEF StartWorker, fileVars
  <1>2. PICK reachable \in BOOLEAN :
          LET built == LoadAgents(reachable)
          IN  worker' = [worker EXCEPT ![w] =
                  [up |-> TRUE, serves |-> {Effective(files[f]) : f \in built},
                   unseen |-> {Effective(files[f]) : f \in {g \in built :
                                   g \in saved \/ files[g].code # "none"}}]]
    BY DEF StartWorker
  <1> DEFINE built == LoadAgents(reachable)
             serves == {Effective(files[f]) : f \in built}
             unseen == {Effective(files[f]) :
                          f \in {g \in built : g \in saved \/ files[g].code # "none"}}
  <1>3. worker' = [worker EXCEPT ![w] = [up |-> TRUE, serves |-> serves, unseen |-> unseen]]
    BY <1>2
  <1>4. built \subseteq Written
    BY DEF LoadAgents, Latest
  <1>5. \A f \in Written : files[f] \in Shape
    BY DEF DeploymentInv, FilesTyped, Written
  <1>6. \A s \in Shape : Effective(s) \in Shape
    BY EffectiveIsSpec
  <1>7. serves \subseteq Shape /\ unseen \subseteq serves
    BY <1>4, <1>5, <1>6
  <1>8. \A a \in serves \ unseen : CheckDurabilityStore(a, server.env)
    <2> SUFFICES ASSUME NEW f \in built, Effective(files[f]) \notin unseen
                 PROVE  CheckDurabilityStore(Effective(files[f]), server.env)
      OBVIOUS
    <2>1. f \notin saved /\ files[f].code = "none"
      OBVIOUS
    <2>2. Effective(files[f]) = files[f]
      BY <2>1 DEF Effective
    <2>3. f \in Written \ saved
      BY <1>4, <2>1
    <2> QED BY <1>1, <2>2, <2>3 DEF DeploymentInv, GateHeld
  <1> HIDE DEF built, serves, unseen
  <1>9. worker \in [Workers -> [up : BOOLEAN, serves : SUBSET Shape, unseen : SUBSET Shape]]
    BY DEF DeploymentInv, ServedUnderGate
  <1>10. worker'[w] = [up |-> TRUE, serves |-> serves, unseen |-> unseen]
    BY <1>3, <1>9
  <1>11. \A v \in Workers : v # w => worker'[v] = worker[v]
    BY <1>3, <1>9
  <1>12. worker' \in [Workers -> [up : BOOLEAN, serves : SUBSET Shape, unseen : SUBSET Shape]]
    BY <1>3, <1>7, <1>9
  <1>13. ServedUnderGate'
    <2> SUFFICES ASSUME NEW v \in Workers
                 PROVE  /\ worker'[v].unseen \subseteq worker'[v].serves
                        /\ ~worker'[v].up => worker'[v] = Down
                        /\ worker'[v].up => server.phase = "up"
                        /\ \A a \in worker'[v].serves \ worker'[v].unseen :
                             CheckDurabilityStore(a, server.env)
      BY <1>1, <1>12 DEF ServedUnderGate, CheckDurabilityStore, Durable, Down
    <2>1. CASE v = w
      BY <1>1, <1>7, <1>8, <1>10, <2>1
    <2>2. CASE v # w
      BY <1>11, <2>2 DEF DeploymentInv, ServedUnderGate
    <2> QED BY <2>1, <2>2
  <1>14. RunIsSomewhere'
    <2>1. run # NoRun /\ run.home = "memory" => run.worker # w
      BY <1>1 DEF DeploymentInv, RunIsSomewhere, ServedUnderGate, Down
    <2> QED BY <1>1, <1>11, <2>1 DEF DeploymentInv, RunIsSomewhere, Durable
  <1>15. FilesTyped' /\ HalfWritten' /\ LostOnlyKnowingly'
    BY <1>1 DEF DeploymentInv, FilesTyped, HalfWritten, LostOnlyKnowingly
  <1> QED BY <1>1, <1>13, <1>14, <1>15, FilesRest DEF DeploymentInv

\* A durable run begins on a worker that serves its agent.
LEMMA TurnKeeps ==
  ASSUME DeploymentInv, NEW w \in Workers, NEW a \in worker[w].serves, Turn(w, a)
  PROVE  DeploymentInv'
  <1>1. UNCHANGED <<machine, tables, files, companion, saved, job, server, worker, lost>>
    BY DEF Turn, fileVars
  <1>2. run' = [agent |-> a, home |-> Home, worker |-> w] /\ Durable(a)
    BY DEF Turn
  <1>3. Home = "memory" => server.env["store"] = Unset
    BY DEF Home
  <1>4. RunIsSomewhere'
    BY <1>1, <1>2, <1>3 DEF RunIsSomewhere, Durable
  <1>5. FilesTyped' /\ HalfWritten' /\ LostOnlyKnowingly'
    BY <1>1 DEF DeploymentInv, FilesTyped, HalfWritten, LostOnlyKnowingly
  <1>6. ServedUnderGate'
    BY <1>1 DEF DeploymentInv, ServedUnderGate, CheckDurabilityStore, Durable, Down
  <1> QED BY <1>1, <1>4, <1>5, <1>6, FilesRest DEF DeploymentInv

\* A run that is continued is nowhere to be lost.
LEMMA ResumeKeeps ==
  ASSUME DeploymentInv, NEW w \in Workers, Resume(w)
  PROVE  DeploymentInv'
  <1>1. UNCHANGED <<machine, tables, files, companion, saved, job, server, worker, lost>>
    BY DEF Resume, fileVars
  <1>2. run' = NoRun
    BY DEF Resume
  <1>3. RunIsSomewhere'
    BY <1>2 DEF RunIsSomewhere, NoRun
  <1>4. FilesTyped' /\ HalfWritten' /\ LostOnlyKnowingly'
    BY <1>1 DEF DeploymentInv, FilesTyped, HalfWritten, LostOnlyKnowingly
  <1>5. ServedUnderGate'
    BY <1>1 DEF DeploymentInv, ServedUnderGate, CheckDurabilityStore, Durable, Down
  <1> QED BY <1>1, <1>3, <1>4, <1>5, FilesRest DEF DeploymentInv

\* The step that loses runs: what dies with a worker's memory had an agent the
\* gate had let through with no store, that is, knowingly, or had not seen.
LEMMA WorkerDiesKeeps ==
  ASSUME DeploymentInv, NEW w \in Workers, WorkerDies(w)
  PROVE  DeploymentInv'
  <1>1. UNCHANGED <<machine, tables, files, companion, saved, job, server>>
    BY DEF WorkerDies, fileVars
  <1>2. worker' = [worker EXCEPT ![w] = Down]
    BY DEF WorkerDies
  <1>3. worker \in [Workers -> [up : BOOLEAN, serves : SUBSET Shape, unseen : SUBSET Shape]]
    BY DEF DeploymentInv, ServedUnderGate
  <1>4. worker'[w] = Down /\ \A v \in Workers : v # w => worker'[v] = worker[v]
    BY <1>2, <1>3
  <1>5. Down \in [up : BOOLEAN, serves : SUBSET Shape, unseen : SUBSET Shape]
    BY DEF Down
  <1>6. worker' \in [Workers -> [up : BOOLEAN, serves : SUBSET Shape, unseen : SUBSET Shape]]
    BY <1>2, <1>3, <1>5
  <1>7. ServedUnderGate'
    <2> SUFFICES ASSUME NEW v \in Workers
                 PROVE  /\ worker'[v].unseen \subseteq worker'[v].serves
                        /\ ~worker'[v].up => worker'[v] = Down
                        /\ worker'[v].up => server.phase = "up"
                        /\ \A a \in worker'[v].serves \ worker'[v].unseen :
                             CheckDurabilityStore(a, server.env)
      BY <1>1, <1>6 DEF ServedUnderGate, CheckDurabilityStore, Durable, Down
    <2>1. CASE v = w
      BY <1>4, <2>1 DEF Down
    <2>2. CASE v # w
      BY <1>4, <2>2 DEF DeploymentInv, ServedUnderGate
    <2> QED BY <2>1, <2>2
  <1>8. RunIsSomewhere' /\ LostOnlyKnowingly'
    <2>1. CASE run # NoRun /\ run.home = "memory" /\ run.worker = w
      <3> DEFINE died == [agent |-> run.agent, accepted |-> server.env["allow"] = TRUE,
                          unseen |-> run.agent \in worker[w].unseen]
      <3>1. run' = NoRun /\ lost' = lost \cup {died}
        BY <2>1 DEF WorkerDies
      <3>2. /\ run.agent \in worker[w].serves
            /\ Durable(run.agent) /\ server.env["store"] = Unset
        BY <2>1 DEF DeploymentInv, RunIsSomewhere
      <3>3. CheckDurabilityStore(run.agent, server.env) \/ run.agent \in worker[w].unseen
        BY <3>2 DEF DeploymentInv, ServedUnderGate
      <3>4. server.env["allow"] = TRUE \/ run.agent \in worker[w].unseen
        BY <3>2, <3>3 DEF CheckDurabilityStore
      <3>5. died.accepted \/ died.unseen
        BY <3>4, Zenon
      <3> HIDE DEF died
      <3>6. RunIsSomewhere'
        BY <3>1 DEF RunIsSomewhere
      <3>7. LostOnlyKnowingly'
        BY <3>1, <3>5, Zenon DEF DeploymentInv, LostOnlyKnowingly
      <3> QED BY <3>6, <3>7
    <2>2. CASE ~(run # NoRun /\ run.home = "memory" /\ run.worker = w)
      <3>1. UNCHANGED <<run, lost>>
        BY <2>2 DEF WorkerDies
      <3> QED BY <1>1, <1>4, <2>2, <3>1
              DEF DeploymentInv, LostOnlyKnowingly, RunIsSomewhere, Durable
    <2> QED BY <2>1, <2>2
  <1>9. FilesTyped' /\ HalfWritten'
    BY <1>1 DEF DeploymentInv, FilesTyped, HalfWritten
  <1> QED BY <1>1, <1>7, <1>8, <1>9, FilesRest DEF DeploymentInv

-----------------------------------------------------------------------------
(* The command line: the theorems                                          *)

LEMMA DeploymentStarts == DeploymentInit => DeploymentInv
  <1> SUFFICES ASSUME DeploymentInit PROVE DeploymentInv
    OBVIOUS
  <1> USE DEF DeploymentInit
  <1>1. \A s \in Specs : s \in Shape /\ s.code # "scaffold"
    BY DeploymentAssumption
  <1>2. files \in [Files -> Shape \cup {Absent}]
    BY <1>1
  <1>3. FilesTyped
    BY <1>2 DEF FilesTyped, Jobs, Servers
  <1>4. HalfWritten /\ GateHeld
    BY DEF HalfWritten, GateHeld, NoJob, NoServer
  <1>5. ServedUnderGate
    BY DEF ServedUnderGate, Down
  <1>6. RunIsSomewhere /\ LostOnlyKnowingly
    BY DEF RunIsSomewhere, LostOnlyKnowingly
  <1>7. NoDanglingCode
    BY <1>1 DEF NoDanglingCode, Written
  <1> QED BY <1>3, <1>4, <1>5, <1>6, <1>7 DEF DeploymentInv

LEMMA DeploymentSteps == DeploymentInv /\ [DeploymentNext]_deploymentVars => DeploymentInv'
  <1> SUFFICES ASSUME DeploymentInv, [DeploymentNext]_deploymentVars PROVE DeploymentInv'
    OBVIOUS
  <1>1. CASE Command
    <2>1. CASE \E flag \in Stores \cup {Unset} : Upgrade(flag)
      BY <2>1, UpgradeKeeps
    <2>2. CASE ApplyMigration
      BY <2>2, ApplyMigrationKeeps
    <2>3. CASE WriteYaml
      BY <2>3, WriteYamlKeeps
    <2>4. CASE Kill
      BY <2>4, KillKeeps
    <2>5. CASE \E f \in Files : InitProject(f)
      BY <2>5, NewYamlAgentKeeps DEF InitProject
    <2>6. CASE \E f \in Files, force \in BOOLEAN : NewGraphAgent(f, force)
      BY <2>6, NewGraphAgentKeeps
    <2>7. CASE \E f \in Files, force \in BOOLEAN : \E template \in {"single", "autonomous"} :
                 NewYamlAgent(f, template, force)
      BY <2>7, NewYamlAgentKeeps
    <2> QED BY <1>1, <2>1, <2>2, <2>3, <2>4, <2>5, <2>6, <2>7 DEF Command
  <1>2. CASE \E f \in Files, s \in Specs \cup {Absent} : Edit(f, s)
    BY <1>2, EditKeeps
  <1>3. CASE Service
    <2>1. CASE \E allow \in BOOLEAN : GateSpecs(allow)
      BY <2>1, GateSpecsKeeps
    <2>2. CASE GatePromises
      BY <2>2, GatePromisesKeeps
    <2>3. CASE \E provider \in {"api_key", "forwarded", "jwt", "composite"},
                  inOrder \in BOOLEAN : Bind(provider, inOrder)
      BY <2>3, BindKeeps
    <2>4. CASE \E w \in Workers : StartWorker(w)
      BY <2>4, StartWorkerKeeps
    <2>5. CASE \E w \in Workers : Resume(w)
      BY <2>5, ResumeKeeps
    <2>6. CASE \E w \in Workers : WorkerDies(w)
      BY <2>6, WorkerDiesKeeps
    <2>7. CASE \E w \in Workers : \E a \in worker[w].serves : Turn(w, a)
      BY <2>7, TurnKeeps
    <2> QED BY <1>3, <2>1, <2>2, <2>3, <2>4, <2>5, <2>6, <2>7 DEF Service
  <1>4. CASE UNCHANGED deploymentVars
    <2>1. UNCHANGED <<machine, tables, files, companion, saved, job, server, worker, run, lost>>
      BY <1>4 DEF deploymentVars
    <2>2. FilesTyped' /\ HalfWritten'
      BY <2>1 DEF DeploymentInv, FilesTyped, HalfWritten
    <2> QED BY <2>1, <2>2, ServiceRests, FilesRest DEF DeploymentInv
  <1> QED BY <1>1, <1>2, <1>3, <1>4 DEF DeploymentNext

LEMMA DeploymentHolds == DeploymentSpec => []DeploymentInv
  BY DeploymentStarts, DeploymentSteps, PTL DEF DeploymentSpec

\* Whatever authors save and whoever kills new-agent between its two writes,
\* no YAML names an agent.py that is not there (scaffold's write order).
THEOREM NoYamlDangles == DeploymentSpec => []NoDanglingCode
  <1>1. DeploymentInv => NoDanglingCode
    BY DEF DeploymentInv
  <1> QED BY <1>1, DeploymentHolds, PTL

\* However files are saved under a running server and workers die, a durable
\* run is lost only if the operator accepted it or its agent was one that
\* serve's durability gate could not judge.
THEOREM LossesAreKnown == DeploymentSpec => []LostOnlyKnowingly
  <1>1. DeploymentInv => LostOnlyKnowingly
    BY DEF DeploymentInv
  <1> QED BY <1>1, DeploymentHolds, PTL

-----------------------------------------------------------------------------
(* The command line: what doctor and verify promise                        *)

\* A spec without a builder is built as it stands; a builder's keeps what is
\* asked of this machine to its checkpoint.
LEMMA BuilderAsksLittle ==
  ASSUME NEW s \in Shape
  PROVE  /\ Effective(s).engine = s.engine
         /\ Effective(s).template = s.template
         /\ s.code = "none" => Effective(s) = s
         /\ s.code # "none" => "mcp" \notin Effective(s).asks
  BY DEF Effective, Shape

\* What doctor passes is built, if its builder and its tracing are sound and
\* what the build looks up is there.
LEMMA DoctorsWordIsGood ==
  ASSUME NEW s \in Shape, NEW env, CheckAgent(s, env, TRUE),
         Resolvable(s), Supported(Effective(s)), Traceable(Effective(s)),
         Effective(s).broken \cap LooksUp(Effective(s)) = {}
  PROVE  Builds(s, TRUE)
  <1>1. Loads(s) /\ Installed(s) /\ CheckAutonomousVersion(s) /\ CheckMcpVersion(s)
    BY DEF CheckAgent
  <1>2. Installed(Effective(s))
    BY <1>1, BuilderAsksLittle DEF Installed
  <1>3. DiscoversMcpTools(Effective(s), TRUE)
    BY <1>1, BuilderAsksLittle DEF DiscoversMcpTools, CheckMcpVersion
  <1>4. Compiles(Effective(s), TRUE)
    BY <1>1, <1>3, BuilderAsksLittle DEF Compiles, CheckAutonomousVersion
  <1> QED BY <1>1, <1>2, <1>4 DEF Builds

\* Whatever is written, installed and configured, the commands agree: what
\* doctor passes is refused by neither of serve's gates, what verify passes not
\* by the first; and what doctor passes is built, and runs where the store of
\* the .env can be opened, but for the four things that doctor does not look at:
\* the builder, the capabilities it asks for, the tracing, the names to look up.
THEOREM DoctorAndVerifyAreRight == DeploymentSpec => []CommandsAgree
  <1>1. ASSUME FilesTyped PROVE CommandsAgree
    <2>1. \A f \in Written : files[f] \in Shape
      BY <1>1 DEF FilesTyped, Written
    <2>2. ASSUME NEW allow \in BOOLEAN, DoctorPasses(allow)
          PROVE  LET env == LoadEnv(Exported(allow))
                 IN  SpecsAreValid(env) /\ PromisesCanBeKept(Written, env)
      <3>1. \A f \in Written : CheckAgent(files[f], Exported(allow), TRUE)
        BY <2>2 DEF DoctorPasses
      <3>2. \A f \in Written : CheckAgent(files[f], LoadEnv(Exported(allow)), FALSE)
        BY <3>1 DEF CheckAgent, CheckVoice, VoicePreflight
      <3>3. \A f \in Written : CheckDurabilityStore(files[f], LoadEnv(Exported(allow)))
        BY <1>1, <2>1, <3>1, LoadingKeepsPromises DEF CheckAgent, FilesTyped
      <3>4. \A f \in Written : Loads(files[f])
        BY <3>1 DEF CheckAgent
      <3> QED BY <3>2, <3>3, <3>4 DEF SpecsAreValid, PromisesCanBeKept, StillLoads
    <2>3. ASSUME NEW allow \in BOOLEAN, DoctorPasses(allow), NEW f \in Written,
                 Resolvable(files[f]), Supported(Effective(files[f])),
                 Traceable(Effective(files[f])),
                 Effective(files[f]).broken \cap LooksUp(Effective(files[f])) = {}
          PROVE  /\ CheckpointerOpens(LoadEnv(machine.exported)) => RunAnswers(f, TRUE)
                 /\ files[f].voice # "none" => VoiceServes(f, FALSE, TRUE)
      <3>1. CheckAgent(files[f], Exported(allow), TRUE)
        BY <2>3 DEF DoctorPasses
      <3>2. Builds(files[f], TRUE)
        BY <2>1, <2>3, <3>1, DoctorsWordIsGood
      <3> QED BY <2>3, <3>1, <3>2 DEF RunAnswers, VoiceServes, CheckAgent
    <2>4. VerifyPasses => SpecsAreValid(LoadEnv(machine.exported))
      BY DEF VerifyPasses, SpecValidation, SpecsAreValid, CheckAgent
    <2> QED BY <2>2, <2>3, <2>4 DEF CommandsAgree
  <1>2. DeploymentInv => CommandsAgree
    BY <1>1 DEF DeploymentInv
  <1> QED BY <1>2, DeploymentHolds, PTL

-----------------------------------------------------------------------------
(* The platform: the parts together                                        *)

\* The variables of the parts are disjoint, so that what is proved of a part
\* holds of the platform.
LEMMA PartsMoveAlone ==
  PlatformSpec => /\ DeploymentSpec /\ AdmissionSpec /\ BucketSpec /\ SaverSpec
                  /\ PipelineSpec /\ StreamSpec /\ RegistrySpec /\ TraceSpec
  <1>1. PlatformInit => /\ DeploymentInit /\ AdmissionInit /\ BucketInit /\ SaverInit
                        /\ PipelineInit /\ StreamInit /\ RegistryInit /\ TraceInit
    BY DEF PlatformInit
  <1>2. [PlatformNext]_platformVars =>
          /\ [DeploymentNext]_deploymentVars /\ [AdmissionNext]_admissionVars
          /\ [BucketNext]_bucketVars /\ [SaverNext]_saverVars
          /\ [PipelineNext]_pipelineVars /\ [StreamNext]_streamVars
          /\ [RegistryNext]_registryVars /\ [TraceNext]_traceVars
    BY DEF PlatformNext, platformVars, DeploymentMoves, AdmissionMoves, BucketMoves, SaverMoves,
           PipelineMoves, StreamMoves, RegistryMoves, TraceMoves
  <1> QED BY <1>1, <1>2, PTL DEF PlatformSpec, DeploymentSpec, AdmissionSpec, BucketSpec,
             SaverSpec, PipelineSpec, StreamSpec, RegistrySpec, TraceSpec

\* The command line keeps its variables in their ranges.
LEMMA DeploymentTyped == DeploymentInv => DeploymentTypeOK
  <1> SUFFICES ASSUME DeploymentInv PROVE DeploymentTypeOK
    OBVIOUS
  <1>1. job.cmd \in {"none", "upgrade", "new-agent"}
    BY JobsByName DEF DeploymentInv, FilesTyped
  <1>2. server.phase \in {"down", "specs", "promises", "up"}
    BY DEF DeploymentInv, FilesTyped, Servers, NoServer
  <1> QED BY <1>1, <1>2 DEF DeploymentInv, FilesTyped, ServedUnderGate, RunIsSomewhere,
             DeploymentTypeOK

\* Whatever the part that moves does, every part's variables stay in their ranges.
THEOREM PlatformTyped == ASSUME Conversations # {} PROVE PlatformSpec => []PlatformTypeOK
  <1>1. SaverInvariant => SaverTypeOK
    BY DEF SaverInvariant
  <1>2. PipelineInv => PipelineTypeOK
    BY DEF PipelineInv, Typed
  <1>3. StreamInv => StreamTypeOK
    BY DEF StreamInv
  <1>4. RegistryInvariant => RegistryTypeOK
    BY DEF RegistryInvariant
  <1>5. TraceInv => TraceTypeOK
    BY DEF TraceInv
  <1>6. BucketInvariant => BucketTypeOK
    BY DEF BucketInvariant
  <1>7. RegistrySpec => []RegistryInvariant
    BY StartsInvariant, StepsKeepInvariant, PTL DEF RegistrySpec
  <1>8. /\ DeploymentTypeOK /\ AdmissionTypeOK /\ BucketTypeOK /\ SaverTypeOK
        /\ PipelineTypeOK /\ StreamTypeOK /\ RegistryTypeOK /\ TraceTypeOK
        => PlatformTypeOK
    BY DEF PlatformTypeOK
  <1> QED BY <1>1, <1>2, <1>3, <1>4, <1>5, <1>6, <1>7, <1>8, PartsMoveAlone, DeploymentHolds,
             DeploymentTyped, AdmissionTyped, BucketIsSound, SaverIsSound, PipelineInvariance,
             StreamInvariance, TraceInvariance, PTL

=============================================================================
