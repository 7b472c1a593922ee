--------------------------- MODULE Process_proofs ---------------------------
(***************************************************************************)
(* The life of the process: its start and shutdown, the values it keeps of *)
(* other services, and the log shipper it closes last, each for every      *)
(* value of its constants.                                                 *)
(***************************************************************************)
EXTENDS LogShipper, ServerLifecycle, FetchedValues, FiniteSetTheorems,
        SequenceTheorems, TLAPS

-----------------------------------------------------------------------------
(* Start and shutdown                                                      *)

\* One client exists until a shutdown has forgotten it, and the worker, which was
\* built on it, is closed before or given up: no step of the shutdown passes another.
WorkerHasClient ==
    /\ boot \in {"off", "tracing"} =>
          /\ built = 0 /\ client = None /\ http = "none" /\ health = "none"
          /\ worker = "none" /\ stop = "no" /\ ~busy /\ taskQueue = None
    /\ boot = "redis" =>
          1 \in open /\ http = "none" /\ worker = "none" /\ stop = "no" /\ ~busy
    /\ boot = "listen" => stop = "no"
    /\ worker \in {"running", "closing"} =>
          1 \in open /\ stop \in {"no", "http", "worker"}
    /\ busy => worker \in {"running", "closing", "givenUp"}
    /\ worker = "running" => stop \in {"no", "http"}

\* A remembered queue is on an open client until Redis is shut down.
QueueHasClient ==
    taskQueue # None => taskQueue \in open \/ stop \in {"shipper", "tracing", "done"}

\* What is open of Redis is the remembered client, in every process, also in one
\* that has ended.
ServerInv ==
    /\ ServerTypeOK
    /\ open \subseteq {client} /\ (client # None => client \in open)
    /\ WorkerHasClient
    /\ QueueHasClient

\* getRedis() keeps the remembered client, or replaces none by a new one.
LEMMA ClientKept ==
    ASSUME ServerInv, GetRedis
    PROVE  /\ built' \in 0..MaxClients /\ client' \in 1..built'
           /\ open' \subseteq 1..built' /\ open' \subseteq {client'}
           /\ open \subseteq open' /\ built =< built' /\ (taskQueue \in 0..built')
           /\ built = 0 => 1 \in open'
           /\ client' \in open'
  <1>0. /\ built \in Nat /\ MaxClients \in Nat /\ built =< MaxClients
        /\ client \in Nat /\ client =< built /\ taskQueue \in Nat /\ taskQueue =< built
        /\ open \subseteq {client} /\ open \subseteq 1..built
        /\ (client # None => client \in open)
    BY ServerAssumption DEF ServerInv, ServerTypeOK
  <1>1. CASE client # None
    <2>1. client' = client /\ built' = built /\ open' = open
      BY <1>1 DEF GetRedis
    <2>2. client \in 1..built
      BY <1>0, <1>1 DEF None
    <2> QED BY <1>0, <1>1, <2>1, <2>2
  <1>2. CASE client = None
    <2>1. /\ built < MaxClients /\ built' = built + 1 /\ client' = built + 1
          /\ open' = open \cup {built + 1}
      BY <1>2 DEF GetRedis
    <2>2. open = {}
      BY <1>0, <1>2 DEF None
    <2> QED BY <1>0, <2>1, <2>2
  <1> QED BY <1>1, <1>2

\* The same of createQueue().
LEMMA QueueCreated ==
    ASSUME ServerInv, CreateQueue
    PROVE  /\ built' \in 0..MaxClients /\ client' \in 0..built' /\ taskQueue' \in 0..built'
           /\ open' \subseteq 1..built' /\ open' \subseteq {client'} /\ open \subseteq open'
           /\ (client' # None => client' \in open')
           /\ taskQueue' = taskQueue \/ taskQueue' \in open'
  <1>1. CASE taskQueue # None
    BY <1>1 DEF CreateQueue, ServerInv, ServerTypeOK
  <1>2. CASE taskQueue = None
    <2>1. GetRedis /\ taskQueue' = client'
      BY <1>2 DEF CreateQueue
    <2>2. built' \in Nat
      BY <2>1, ClientKept
    <2> QED BY <2>1, <2>2, ClientKept
  <1> QED BY <1>1, <1>2

\* The steps of the start: the worker begins on the first client.
LEMMA StartKeepsServer ==
    ASSUME ServerInv, Boot \/ Starting
    PROVE  ServerInv'
  <1>1. CASE Boot
    BY <1>1 DEF Boot, ServerInv, ServerTypeOK, WorkerHasClient, QueueHasClient
  <1>2. CASE InitRedis
    <2>1. GetRedis
      BY <1>2 DEF InitRedis
    <2>2. built' \in Nat
      BY <2>1, ClientKept
    <2> QED BY <1>2, <2>1, <2>2, ClientKept
            DEF InitRedis, ServerInv, ServerTypeOK, WorkerHasClient, QueueHasClient, StopSteps
  <1>3. CASE RedisReady
    <2>1. CreateQueue
      BY <1>3 DEF RedisReady
    <2> QED BY <1>3, <2>1, QueueCreated
            DEF RedisReady, ServerInv, ServerTypeOK, WorkerHasClient, QueueHasClient, StopSteps
  <1>4. CASE Listening
    BY <1>4 DEF Listening, ServerInv, ServerTypeOK, WorkerHasClient, QueueHasClient
  <1>5. CASE StartFails
    <2>1. CASE UNCHANGED <<client, built, open, taskQueue>>
      BY <1>5, <2>1 DEF StartFails, ServerInv, ServerTypeOK, WorkerHasClient, QueueHasClient, StopSteps
    <2>2. CASE boot = "redis" /\ CreateQueue
      BY <1>5, <2>2, QueueCreated
         DEF StartFails, ServerInv, ServerTypeOK, WorkerHasClient, QueueHasClient, StopSteps
    <2> QED BY <1>5, <2>1, <2>2 DEF StartFails
  <1> QED BY <1>1, <1>2, <1>3, <1>4, <1>5 DEF Starting

\* Requests build clients only when none is remembered.
LEMMA RequestsKeepServer ==
    ASSUME ServerInv, HealthPing \/ AdminHealth \/ QueueMetrics
    PROVE  ServerInv'
  <1>1. CASE HealthPing \/ AdminHealth
    <2>1. GetRedis
      BY <1>1 DEF HealthPing, AdminHealth
    <2>2. built' \in Nat
      BY <2>1, ClientKept
    <2>3. asked' \in 0..MaxHealth
      BY <1>1, ServerAssumption DEF HealthPing, AdminHealth, ServerInv, ServerTypeOK
    <2> QED BY <1>1, <2>1, <2>2, <2>3, ClientKept
            DEF HealthPing, AdminHealth, ServerInv, ServerTypeOK, WorkerHasClient, QueueHasClient
  <1>2. CASE QueueMetrics
    <2>1. CreateQueue
      BY <1>2 DEF QueueMetrics
    <2> QED BY <1>2, <2>1, QueueCreated
            DEF QueueMetrics, ServerInv, ServerTypeOK, WorkerHasClient, QueueHasClient
  <1> QED BY <1>1, <1>2

\* The worker closes before the client does, or is given up.
LEMMA StopKeepsServer ==
    ASSUME ServerInv, Stopping \/ StopWorkerFails
    PROVE  ServerInv'
  <1>1. CASE StopHttp
    BY <1>1 DEF StopHttp, StopWorkerNow, ServerInv, ServerTypeOK, WorkerHasClient, QueueHasClient, StopSteps
  <1>2. CASE StopWorker
    BY <1>2 DEF StopWorker, ServerInv, ServerTypeOK, WorkerHasClient, QueueHasClient, StopSteps
  <1>3. CASE StopQueues
    BY <1>3 DEF StopQueues, ServerInv, ServerTypeOK, WorkerHasClient, QueueHasClient, StopSteps, None
  <1>4. CASE StopRedis
    <2>1. open' = {} /\ client' = 0
      BY <1>4 DEF StopRedis, ServerInv, None
    <2> QED BY <1>4, <2>1
            DEF StopRedis, ServerInv, ServerTypeOK, WorkerHasClient, QueueHasClient, StopSteps, None
  <1>5. CASE StopShipper
    BY <1>5 DEF StopShipper, ServerInv, ServerTypeOK, WorkerHasClient, QueueHasClient, StopSteps
  <1>6. CASE StopTracing
    BY <1>6 DEF StopTracing, ServerInv, ServerTypeOK, WorkerHasClient, QueueHasClient, StopSteps
  <1>7. CASE Exit
    BY <1>7 DEF Exit, ServerInv, ServerTypeOK, WorkerHasClient, QueueHasClient
  <1>8. CASE StopWorkerFails
    BY <1>8 DEF StopWorkerFails, ServerInv, ServerTypeOK, WorkerHasClient, QueueHasClient, StopSteps
  <1> QED BY <1>1, <1>2, <1>3, <1>4, <1>5, <1>6, <1>7, <1>8 DEF Stopping

LEMMA ServerKeeps == ServerInv /\ [ServerNext]_serverState => ServerInv'
  <1> SUFFICES ASSUME ServerInv, [ServerNext]_serverState PROVE ServerInv'
    OBVIOUS
  <1>1. CASE UNCHANGED serverState
    BY <1>1 DEF serverState, ServerInv, ServerTypeOK, WorkerHasClient, QueueHasClient
  <1>2. CASE JobBegins
    BY <1>2 DEF JobBegins, ServerInv, ServerTypeOK, WorkerHasClient, QueueHasClient
  <1>3. CASE JobEnds
    <2>1. ServerTypeOK'
      BY <1>3 DEF JobEnds, ServerInv, ServerTypeOK
    <2>2. WorkerHasClient'
      BY <1>3 DEF JobEnds, ServerInv, WorkerHasClient
    <2>3. QueueHasClient'
      BY <1>3 DEF JobEnds, ServerInv, QueueHasClient
    <2> QED BY <1>3, <2>1, <2>2, <2>3 DEF JobEnds, ServerInv
  <1>4. CASE HttpClosed
    BY <1>4 DEF HttpClosed, ServerInv, ServerTypeOK, WorkerHasClient, QueueHasClient
  <1>5. ASSUME Disturbed,
               UNCHANGED <<boot, worker, busy, client, built, open, taskQueue, health, asked>>
        PROVE  ServerInv'
    <2>1. /\ process' \in {"alive", "exited", "crashed"} /\ exitAfter' \in BOOLEAN
          /\ \/ stop' = stop /\ http' = http
             \/ boot = "up" /\ stop = "no" /\ stop' = "http" /\ http' = "closing"
      BY <1>5 DEF Disturbed, Signal, Uncaught, ServerInv, ServerTypeOK
    <2> QED BY <1>5, <2>1 DEF ServerInv, ServerTypeOK, WorkerHasClient, QueueHasClient, StopSteps
  <1> QED BY <1>1, <1>2, <1>3, <1>4, <1>5, StartKeepsServer, RequestsKeepServer, StopKeepsServer DEF ServerNext

\* What is open of Redis can be closed, a job has the client of its worker unless
\* closing that worker failed, and a queue has its client until Redis is shut down:
\* for every number of clients and requests, whatever interrupts the start or
\* the shutdown.
THEOREM ClientsAreAccounted == ServerSpec => []ClientsAccounted
  <1>1. ServerInit => ServerInv
    <2> SUFFICES ASSUME ServerInit PROVE ServerInv
      OBVIOUS
    <2>1. 0 \in 0..MaxClients /\ 0 \in 0..MaxHealth /\ 0 \in 0..0
      BY ServerAssumption
    <2> QED BY <2>1 DEF ServerInit, ServerInv, ServerTypeOK, WorkerHasClient, QueueHasClient, StopSteps, None
  <1>2. ServerInv => ClientsAccounted
    BY DEF ServerInv, WorkerHasClient, QueueHasClient, ClientsAccounted
  <1> QED BY <1>1, <1>2, ServerKeeps, PTL DEF ServerSpec

-----------------------------------------------------------------------------
(* Fetched values                                                          *)

\* Every set of numbers has a least element, as < is well-founded on them.
LEMMA LeastNumber ==
    ASSUME NEW T \in SUBSET Nat, T # {}
    PROVE  \E x \in T : \A y \in T : x =< y
  <1> DEFINE less == OpToRel(<, Nat)
  <1>1. IsWellFoundedOn(less, Nat)
    BY NatLessThanWellFounded, Zenon
  <1>2. \A x, y \in Nat : y < x => <<y, x>> \in less
    BY DEF OpToRel
  <1> HIDE DEF less
  <1>3. PICK x \in T : \A y \in T : ~(<<y, x>> \in less)
    BY <1>1, WFMin
  <1>4. ASSUME NEW y \in T PROVE x =< y
    <2>1. x \in Nat /\ y \in Nat /\ ~(y < x)
      BY <1>2, <1>3
    <2> QED BY <2>1
  <1> QED BY <1>3, <1>4

\* Nothing that may still be put into the cache, or is in it, is older than what
\* a reader who is on his way there had in sight when he began.
InSight(r) ==
    kind = "keys" /\ reader[r].pc \in {"asking", "answered", "stored"} =>
        /\ reader[r].since =< kept
        /\ \A s \in Readers : ReaderAt(s, "answered") => reader[r].since =< reader[s].got

FetchInv ==
    /\ StableKeysServed
    /\ served >= 1 /\ kept =< served
    /\ \A r \in Readers :
          /\ reader[r].got =< served /\ reader[r].since =< served
          /\ reader[r].pc = "answered" => reader[r].since =< reader[r].got
          /\ reader[r].pc = "stored" => kind = "keys"
          /\ InSight(r)

\* What a reader may come to see is not newer than what is kept, nor than any
\* answer that is yet to be kept.
LEMMA OldestInSight ==
    ASSUME FetchInv
    PROVE  /\ Oldest \in Versions /\ Oldest =< kept /\ Oldest =< served
           /\ \A s \in Readers : ReaderAt(s, "answered") => Oldest =< reader[s].got
  <1> DEFINE seen == {kept} \cup
                     {reader[r].got : r \in {s \in Readers : ReaderAt(s, "answered")}}
  <1>1. kept \in Nat /\ served \in Nat /\ kept =< served /\ Versions \subseteq Nat
        /\ kept \in Versions /\ \A r \in Readers : reader[r].got \in Versions
    BY FetchAssumption DEF FetchInv, StableKeysServed, FetchTypeOK, Versions, Reader
  <1>2. seen \in SUBSET Nat /\ seen \subseteq Versions /\ kept \in seen
        /\ \A s \in Readers : ReaderAt(s, "answered") => reader[s].got \in seen
    BY <1>1
  <1>3. Oldest = CHOOSE v \in seen : \A w \in seen : v =< w
    BY DEF Oldest
  <1> HIDE DEF seen
  <1>4. \E v \in seen : \A w \in seen : v =< w
    BY <1>2, LeastNumber
  <1>5. Oldest \in seen /\ \A w \in seen : Oldest =< w
    BY <1>3, <1>4
  <1> DEFINE old == Oldest
  <1> HIDE DEF old
  <1>6. old \in seen /\ \A w \in seen : old =< w
    BY <1>5 DEF old
  <1>7. old \in Versions /\ old \in Nat /\ old =< kept
    BY <1>1, <1>2, <1>6
  <1>8. old =< served
    BY <1>1, <1>7
  <1> QED BY <1>2, <1>6, <1>7, <1>8 DEF old

\* The types, in the form the proofs use them.
LEMMA FetchTypes ==
    ASSUME FetchInv
    PROVE  /\ served \in Nat /\ kept \in Nat /\ MaxVersion \in Nat /\ served =< MaxVersion
           /\ Versions = 0..MaxVersion /\ kept \in Versions /\ served \in Versions
           /\ reader \in [Readers -> Reader]
           /\ \A r \in Readers :
                 /\ reader[r].got \in Nat /\ reader[r].since \in Nat
                 /\ reader[r].got \in Versions /\ reader[r].since \in Versions
                 /\ reader[r].kid \in KeyIds \cup {"none"}
                 /\ reader[r].pc \in Ended \cup {"asking", "answered", "stored", "has"}
  BY FetchAssumption DEF FetchInv, StableKeysServed, FetchTypeOK, Versions, Reader

\* What is said of one reader.
ReaderOK(t, k, s) ==
    /\ k = "keys" /\ t.pc \in {"unknown", "threw"} =>
          \E v \in t.since..s : t.kid \notin KeySets[v]
    /\ t.pc \in {"has", "returned", "accepted", "refused"} => t.got >= t.since
    /\ t.got =< s /\ t.since =< s
    /\ t.pc = "answered" => t.since =< t.got
    /\ t.pc = "stored" => k = "keys"

LEMMA InvByReader ==
    FetchInv <=> /\ FetchTypeOK /\ served >= 1 /\ kept =< served
                 /\ \A r \in Readers : ReaderOK(reader[r], kind, served) /\ InSight(r)
  BY DEF FetchInv, StableKeysServed, ReaderOK

\* A step of one reader that leaves the cache alone keeps the invariant if what it
\* becomes is right of itself and, if it has an answer, of what others have in sight.
LEMMA OneReader ==
    ASSUME FetchInv, NEW r \in Readers, NEW t \in Reader,
           reader' = [reader EXCEPT ![r] = t], UNCHANGED <<kind, served, kept, fresh>>,
           misses' \in 0..MaxMisses,
           ReaderOK(t, kind, served),
           kind = "keys" /\ t.pc \in {"asking", "answered", "stored"} =>
              /\ t.since =< kept /\ (t.pc = "answered" => t.since =< t.got)
              /\ \A s \in Readers \ {r} : ReaderAt(s, "answered") => t.since =< reader[s].got,
           kind = "keys" /\ t.pc = "answered" =>
              \A s \in Readers \ {r} : reader[s].pc \in {"asking", "answered", "stored"} =>
                 reader[s].since =< t.got
    PROVE  FetchInv'
  <1>1. reader' \in [Readers -> Reader] /\ reader'[r] = t
        /\ \A s \in Readers \ {r} : reader'[s] = reader[s]
    BY FetchTypes
  <1>2. FetchTypeOK'
    BY <1>1 DEF FetchInv, StableKeysServed, FetchTypeOK
  <1>3. ASSUME NEW s \in Readers
        PROVE  ReaderOK(reader'[s], kind', served') /\ InSight(s)'
    <2>1. ReaderOK(reader'[s], kind', served')
      BY <1>1, InvByReader
    <2>2. InSight(s)'
      <3>1. CASE s = r
        BY <1>1, <3>1 DEF InSight, ReaderAt
      <3>2. CASE s # r
        BY <1>1, <3>2 DEF InSight, ReaderAt, FetchInv
      <3> QED BY <3>1, <3>2
    <2> QED BY <2>1, <2>2
  <1> QED BY <1>1, <1>2, <1>3, InvByReader DEF FetchInv, StableKeysServed, ReaderOK

\* The service changes the value, or the time to live runs out.
LEMMA ServiceKeeps ==
    ASSUME FetchInv, Rotate \/ Lapse
    PROVE  FetchInv'
  <1>1. CASE Rotate
    <2>1. /\ served' = served + 1 /\ served < MaxVersion
          /\ kind' = kind /\ kept' = kept /\ fresh' = fresh /\ reader' = reader
          /\ misses' = misses
      BY <1>1 DEF Rotate
    <2>2. served' \in Versions /\ served' >= 1 /\ kept' =< served' /\ served =< served'
      BY <2>1, FetchTypes DEF FetchInv
    <2>3. FetchTypeOK'
      BY <2>1, <2>2 DEF FetchInv, StableKeysServed, FetchTypeOK
    <2>4. ASSUME NEW r \in Readers
          PROVE  ReaderOK(reader'[r], kind', served') /\ InSight(r)'
      <3>1. ReaderOK(reader[r], kind, served) /\ InSight(r)
        BY InvByReader
      <3>2. \A v \in reader[r].since..served : v \in reader[r].since..served'
        BY <2>2, FetchTypes
      <3>3. reader[r].got =< served' /\ reader[r].since =< served'
        BY <2>2, <3>1, FetchTypes DEF ReaderOK
      <3> QED BY <2>1, <3>1, <3>2, <3>3 DEF ReaderOK, InSight, ReaderAt
    <2> QED BY <2>2, <2>3, <2>4 DEF FetchInv, StableKeysServed, ReaderOK
  <1>2. CASE Lapse
    BY <1>2 DEF Lapse, FetchInv, StableKeysServed, FetchTypeOK, InSight, ReaderAt
  <1> QED BY <1>1, <1>2

\* A reader begins, with what is kept or on his way to the service.
LEMMA StartKeeps ==
    ASSUME FetchInv, NEW r \in Readers, NEW kid \in KeyIds \cup {"none"}, NEW since \in Versions,
           Starts(r, kid, since), since =< served,
           Usable => since =< kept,
           kind = "keys" => /\ since =< kept
                            /\ \A s \in Readers : ReaderAt(s, "answered") => since =< reader[s].got
    PROVE  FetchInv'
  <1> DEFINE t == [pc |-> IF Usable THEN "has" ELSE "asking", kid |-> kid,
                   got |-> IF Usable THEN kept ELSE 0, since |-> since]
  <1>1. reader' = [reader EXCEPT ![r] = t] /\ UNCHANGED <<kind, served, kept, fresh, misses>>
    BY DEF Starts
  <1>2. 0 \in Versions /\ 0 =< served /\ misses' \in 0..MaxMisses
    BY <1>1, FetchTypes DEF FetchInv, StableKeysServed, FetchTypeOK
  <1>3. t \in Reader
    BY <1>2, FetchTypes DEF Reader
  <1>4. /\ t.since = since /\ t.pc \in {"has", "asking"}
        /\ t.pc = "has" => t.got = kept /\ since =< kept
        /\ t.got =< served
    BY <1>2 DEF FetchInv
  <1> HIDE DEF t
  <1>5. ReaderOK(t, kind, served)
    BY <1>4, FetchTypes DEF ReaderOK
  <1> QED BY <1>1, <1>2, <1>3, <1>4, <1>5, OneReader

\* The service answers a reader, with the newest version.
LEMMA AnswerKeeps ==
    ASSUME FetchInv, NEW r \in Readers, Answered(r)
    PROVE  FetchInv'
  <1> DEFINE t == [reader[r] EXCEPT !.pc = "answered", !.got = served]
  <1>1. reader' = [reader EXCEPT ![r] = t] /\ UNCHANGED <<kind, served, kept, fresh, misses>>
        /\ reader[r].pc = "asking"
    BY DEF Answered, ReaderAt
  <1>2. misses' \in 0..MaxMisses
    BY <1>1 DEF FetchInv, StableKeysServed, FetchTypeOK
  <1>3. /\ t \in Reader /\ t.pc = "answered" /\ t.got = served /\ t.since = reader[r].since
    BY FetchTypes DEF Reader
  <1> HIDE DEF t
  <1>4. t.since =< served /\ \A s \in Readers : reader[s].since =< served
    BY <1>3 DEF FetchInv
  <1>5. ReaderOK(t, kind, served)
    BY <1>3, <1>4, FetchTypes DEF ReaderOK
  <1>6. kind = "keys" => /\ t.since =< kept
                         /\ \A s \in Readers : ReaderAt(s, "answered") => t.since =< reader[s].got
    BY <1>1, <1>3 DEF FetchInv, InSight
  <1> QED BY <1>1, <1>2, <1>3, <1>4, <1>5, <1>6, OneReader

\* A fetch fails: keys that are kept do for it, or it throws.
LEMMA MissKeeps ==
    ASSUME FetchInv, NEW r \in Readers, SecretFails(r) \/ KeysFail(r)
    PROVE  FetchInv'
  <1>1. /\ reader[r].pc = "asking" /\ misses < MaxMisses /\ misses' = misses + 1
        /\ UNCHANGED <<kind, served, kept, fresh>>
    BY DEF SecretFails, KeysFail, Misses, ReaderAt
  <1>2. misses' \in 0..MaxMisses
    BY <1>1, FetchAssumption DEF FetchInv, StableKeysServed, FetchTypeOK
  <1>3. ASSUME NEW t \in Reader, reader' = [reader EXCEPT ![r] = t],
               t.pc \in {"threw", "has"}, ReaderOK(t, kind, served)
        PROVE  FetchInv'
    BY <1>1, <1>2, <1>3, OneReader
  <1>4. CASE kind = "keys" /\ KeySets[kept] # {}
    <2> DEFINE t == [reader[r] EXCEPT !.pc = "has", !.got = kept]
    <2>1. reader' = [reader EXCEPT ![r] = t]
      BY <1>4 DEF SecretFails, KeysFail, ReaderHas
    <2>2. t \in Reader /\ t.pc = "has" /\ t.got = kept /\ t.since = reader[r].since
      BY FetchTypes DEF Reader
    <2> HIDE DEF t
    <2>3. t.since =< kept /\ kept =< served /\ t.since =< served
      BY <1>1, <1>4, <2>2 DEF FetchInv, InSight
    <2>4. ReaderOK(t, kind, served)
      BY <2>2, <2>3, FetchTypes DEF ReaderOK
    <2> QED BY <1>3, <2>1, <2>2, <2>4
  <1>5. CASE ~(kind = "keys" /\ KeySets[kept] # {})
    <2> DEFINE t == [reader[r] EXCEPT !.pc = "threw"]
    <2>1. reader' = [reader EXCEPT ![r] = t]
      BY <1>5 DEF SecretFails, KeysFail, ReaderGoes
    <2>2. /\ t \in Reader /\ t.pc = "threw" /\ t.got = reader[r].got
          /\ t.since = reader[r].since /\ t.kid = reader[r].kid
      BY FetchTypes DEF Reader, Ended
    <2> HIDE DEF t
    <2>3. t.got =< served /\ t.since =< served
      BY <2>2 DEF FetchInv
    <2>4. kind = "keys" => kept \in t.since..served /\ t.kid \notin KeySets[kept]
      BY <1>1, <1>5, <2>2, FetchTypes DEF FetchInv, InSight
    <2>5. ReaderOK(t, kind, served)
      BY <2>2, <2>3, <2>4 DEF ReaderOK
    <2> QED BY <1>3, <2>1, <2>2, <2>5
  <1> QED BY <1>4, <1>5

\* An answer is kept, and may replace a newer one: but not one older than what any
\* reader on the way to the cache had in sight.
LEMMA KeepingKeeps ==
    ASSUME FetchInv, NEW r \in Readers, NEW pc \in {"has", "stored"}, Kept(r, pc),
           pc = "stored" => kind = "keys"
    PROVE  FetchInv'
  <1> DEFINE t == [reader[r] EXCEPT !.pc = pc]
  <1>1. /\ reader' = [reader EXCEPT ![r] = t] /\ kept' = reader[r].got /\ fresh' = TRUE
        /\ reader[r].pc = "answered" /\ UNCHANGED <<kind, served, misses>>
    BY DEF Kept, ReaderAt, ReaderGoes
  <1>2. t \in Reader /\ t.pc = pc /\ t.got = reader[r].got /\ t.since = reader[r].since
    BY FetchTypes DEF Reader
  <1> HIDE DEF t
  <1>3. /\ reader' \in [Readers -> Reader] /\ reader'[r] = t
        /\ \A s \in Readers \ {r} : reader'[s] = reader[s]
    BY <1>1, <1>2, FetchTypes
  <1>4. kept' \in Versions /\ kept' =< served
    BY <1>1, FetchTypes DEF FetchInv
  <1>5. FetchTypeOK'
    BY <1>1, <1>3, <1>4 DEF FetchInv, StableKeysServed, FetchTypeOK
  <1>6. ASSUME NEW s \in Readers
        PROVE  ReaderOK(reader'[s], kind', served') /\ InSight(s)'
    <2>1. ReaderOK(reader[s], kind, served) /\ InSight(s) /\ InSight(r)
          /\ reader[r].since =< reader[r].got
      BY <1>1, InvByReader DEF ReaderOK
    <2>2. CASE s = r
      BY <1>1, <1>2, <1>3, <2>1, <2>2, FetchTypes DEF ReaderOK, InSight, ReaderAt
    <2>3. CASE s # r
      BY <1>1, <1>2, <1>3, <2>1, <2>3 DEF InSight, ReaderAt
    <2> QED BY <2>2, <2>3
  <1> QED BY <1>1, <1>4, <1>5, <1>6 DEF FetchInv, StableKeysServed, ReaderOK

\* A reader takes what is kept, returns a secret or judges a token.
LEMMA EndKeeps ==
    ASSUME FetchInv, NEW r \in Readers, Reread(r) \/ ReturnSecret(r) \/ CheckToken(r)
    PROVE  FetchInv'
  <1>1. UNCHANGED <<kind, served, kept, fresh, misses>> /\ misses' \in 0..MaxMisses
    BY DEF Reread, ReturnSecret, CheckToken, FetchInv, StableKeysServed, FetchTypeOK
  <1>2. ASSUME NEW t \in Reader, reader' = [reader EXCEPT ![r] = t],
               t.pc \in Ended \cup {"has"}, ReaderOK(t, kind, served)
        PROVE  FetchInv'
    BY <1>1, <1>2, OneReader DEF Ended
  <1>3. CASE Reread(r)
    <2> DEFINE t == [reader[r] EXCEPT !.pc = "has", !.got = kept]
    <2>1. reader' = [reader EXCEPT ![r] = t] /\ reader[r].pc = "stored"
      BY <1>3 DEF Reread, ReaderHas, ReaderAt
    <2>2. t \in Reader /\ t.pc = "has" /\ t.got = kept /\ t.since = reader[r].since
      BY FetchTypes DEF Reader
    <2> HIDE DEF t
    <2>3. t.since =< kept /\ kept =< served /\ t.since =< served
      BY <2>1, <2>2 DEF FetchInv, InSight
    <2>4. ReaderOK(t, kind, served)
      BY <2>2, <2>3, FetchTypes DEF ReaderOK
    <2> QED BY <1>2, <2>1, <2>2, <2>4
  <1>4. ASSUME NEW end \in {"returned", "unknown", "accepted", "refused"},
               reader' = [reader EXCEPT ![r].pc = end], reader[r].pc = "has",
               end = "unknown" => reader[r].kid \notin KeySets[reader[r].got]
        PROVE  FetchInv'
    <2> DEFINE t == [reader[r] EXCEPT !.pc = end]
    <2>1. reader' = [reader EXCEPT ![r] = t]
      BY <1>4
    <2>2. /\ t \in Reader /\ t.pc = end /\ t.got = reader[r].got
          /\ t.since = reader[r].since /\ t.kid = reader[r].kid
      BY FetchTypes DEF Reader, Ended
    <2> HIDE DEF t
    <2>3. t.got =< served /\ t.since =< served /\ t.got >= t.since
          /\ t.got \in t.since..served
      BY <1>4, <2>2, InvByReader, FetchTypes DEF ReaderOK
    <2>4. ReaderOK(t, kind, served)
      BY <1>4, <2>2, <2>3 DEF ReaderOK
    <2>5. t.pc \in Ended
      BY <2>2 DEF Ended
    <2> QED BY <1>2, <2>1, <2>2, <2>4, <2>5
  <1>5. CASE ReturnSecret(r)
    BY <1>4, <1>5 DEF ReturnSecret, ReaderGoes, ReaderAt
  <1>6. CASE CheckToken(r)
    BY <1>4, <1>6 DEF CheckToken, ReaderGoes, ReaderAt
  <1> QED BY <1>3, <1>5, <1>6

LEMMA FetchKeeps == FetchInv /\ [FetchNext]_fetchState => FetchInv'
  <1> SUFFICES ASSUME FetchInv, [FetchNext]_fetchState PROVE FetchInv'
    OBVIOUS
  <1>1. CASE UNCHANGED fetchState
    BY <1>1 DEF fetchState, FetchInv, StableKeysServed, FetchTypeOK, InSight, ReaderAt
  <1>2. ASSUME NEW r \in Readers, GetSecret(r) PROVE FetchInv'
    <2>1. (IF Usable THEN kept ELSE served) \in Versions
          /\ (IF Usable THEN kept ELSE served) =< served
          /\ (Usable => (IF Usable THEN kept ELSE served) =< kept)
      BY FetchTypes DEF FetchInv
    <2> QED BY <1>2, <2>1, StartKeeps DEF GetSecret
  <1>3. ASSUME NEW r \in Readers, NEW kid \in KeyIds, VerifyToken(r, kid) PROVE FetchInv'
    BY <1>3, OldestInSight, StartKeeps DEF VerifyToken
  <1>4. ASSUME NEW r \in Readers, SecretAnswered(r) \/ KeysAnswered(r) PROVE FetchInv'
    BY <1>4, AnswerKeeps DEF SecretAnswered, KeysAnswered
  <1>5. ASSUME NEW r \in Readers, KeepSecret(r) \/ KeepKeys(r) PROVE FetchInv'
    BY <1>5, KeepingKeeps DEF KeepSecret, KeepKeys
  <1> QED BY <1>1, <1>2, <1>3, <1>4, <1>5, ServiceKeeps, MissKeeps, EndKeeps DEF FetchNext

\* A token is refused only for a key that some version lacked since the oldest in
\* sight, and no secret is older than what could be had: for every number of
\* readers, versions and failures.
THEOREM KeysAreStable == FetchSpec => []StableKeysServed
  <1>1. FetchInit => FetchInv
    <2> SUFFICES ASSUME FetchInit PROVE FetchInv
      OBVIOUS
    <2>1. 0 \in Versions /\ 1 \in Versions /\ 0 \in 0..MaxMisses
      BY FetchAssumption DEF Versions
    <2>2. NoReader \in Reader
      BY <2>1 DEF NoReader, Reader, Ended
    <2>3. \A r \in Readers : reader[r] = NoReader
      BY DEF FetchInit
    <2>4. FetchTypeOK
      BY <2>1, <2>2 DEF FetchInit, FetchTypeOK
    <2>5. \A r \in Readers :
             ReaderOK(reader[r], kind, served) /\ InSight(r)
      <3>1. /\ NoReader.pc = "returned" /\ NoReader.got = 0 /\ NoReader.since = 0
            /\ served = 1
        BY DEF NoReader, FetchInit
      <3>2. ReaderOK(NoReader, kind, served)
        BY <3>1 DEF ReaderOK
      <3>3. \A r \in Readers : InSight(r)
        BY <2>3, <3>1 DEF InSight
      <3> QED BY <2>3, <3>2, <3>3
    <2> QED BY <2>4, <2>5, InvByReader DEF FetchInit
  <1>2. FetchInv => StableKeysServed
    BY DEF FetchInv
  <1> QED BY <1>1, <1>2, FetchKeeps, PTL DEF FetchSpec

-----------------------------------------------------------------------------
(* The log shipper                                                         *)

Holds(s, e) == \E i \in 1..Len(s) : s[i] = e

\* An entry waits in the queue or travels in a batch.
Travels(e, q, fl) == Holds(q, e) \/ \E f \in Flights : Holds(fl[f].batch, e)

FlightsOK(fl) ==
    /\ fl \in [Flights -> Flight]
    /\ \A f \in Flights : /\ fl[f].phase = "free" => fl[f].batch = <<>>
                          /\ fl[f].phase = "sending" => fl[f].left >= 1

\* A flight that is free carries nothing, so that a flush puts nothing out of
\* sight, and one that still sends has an attempt left.
ShipperInv ==
    /\ TypeOK
    /\ FlightsOK(flight)
    /\ Len(queue) =< 2 * BatchSize
    /\ ~overflow => \A e \in 1..shipped : Travels(e, queue, flight) \/ e \in sent

LEMMA HoldsAppended ==
    ASSUME NEW S, NEW q \in Seq(S), NEW x \in S
    PROVE  /\ Append(q, x) \in Seq(S) /\ Len(Append(q, x)) = Len(q) + 1
           /\ \A e : Holds(Append(q, x), e) <=> Holds(q, e) \/ e = x
  <1>1. /\ Len(q) \in Nat /\ Append(q, x) \in Seq(S) /\ Len(Append(q, x)) = Len(q) + 1
        /\ \A i \in 1..Len(q) : Append(q, x)[i] = q[i]
        /\ Append(q, x)[Len(q) + 1] = x
    OBVIOUS
  <1>2. \A i \in 1..(Len(q) + 1) : i \in 1..Len(q) \/ i = Len(q) + 1
    BY <1>1
  <1>3. \A i \in 1..Len(q) : i \in 1..(Len(q) + 1)
    BY <1>1
  <1>4. Len(q) + 1 \in 1..(Len(q) + 1)
    BY <1>1
  <1> QED BY <1>1, <1>2, <1>3, <1>4 DEF Holds

LEMMA HoldsJoined ==
    ASSUME NEW S, NEW q \in Seq(S), NEW r \in Seq(S)
    PROVE  /\ q \o r \in Seq(S) /\ Len(q \o r) = Len(q) + Len(r)
           /\ \A e : Holds(q \o r, e) <=> Holds(q, e) \/ Holds(r, e)
  <1>1. /\ Len(q) \in Nat /\ Len(r) \in Nat /\ q \o r \in Seq(S)
        /\ Len(q \o r) = Len(q) + Len(r)
        /\ \A i \in 1..Len(q) : (q \o r)[i] = q[i]
        /\ \A i \in 1..(Len(q) + Len(r)) : i > Len(q) => (q \o r)[i] = r[i - Len(q)]
    OBVIOUS
  <1>2. \A i \in 1..Len(q) : i \in 1..Len(q \o r)
    BY <1>1
  <1>3. \A i \in 1..Len(r) : i + Len(q) \in 1..Len(q \o r) /\ (q \o r)[i + Len(q)] = r[i]
    <2> SUFFICES ASSUME NEW i \in 1..Len(r)
                 PROVE  i + Len(q) \in 1..Len(q \o r) /\ (q \o r)[i + Len(q)] = r[i]
      OBVIOUS
    <2>1. i + Len(q) \in 1..(Len(q) + Len(r)) /\ i + Len(q) > Len(q) /\ (i + Len(q)) - Len(q) = i
      BY <1>1
    <2> QED BY <1>1, <2>1
  <1>4. \A i \in 1..Len(q \o r) :
           \/ i \in 1..Len(q) /\ (q \o r)[i] = q[i]
           \/ i - Len(q) \in 1..Len(r) /\ (q \o r)[i] = r[i - Len(q)]
    BY <1>1
  <1>5. ASSUME NEW e, Holds(r, e) PROVE Holds(q \o r, e)
    BY <1>3, <1>5 DEF Holds
  <1> QED BY <1>1, <1>2, <1>4, <1>5 DEF Holds

\* A flush takes the whole queue into a flight that was free.
LEMMA FlushCarries ==
    ASSUME NEW fl, FlightsOK(fl), NEW f \in Flights, fl[f].phase = "free",
           NEW q \in Seq(Entries)
    PROVE  LET new == Flushed(fl, f, q) IN
           /\ FlightsOK(new)
           /\ \A e : Travels(e, q, fl) => Travels(e, <<>>, new)
           /\ \A g \in Flights \ {f} : new[g] = fl[g]
  <1> DEFINE full == [phase |-> "sending", batch |-> q, left |-> MaxRetries]
             new  == Flushed(fl, f, q)
  <1>1. MaxRetries \in 0..MaxRetries /\ MaxRetries >= 1
    BY ShipperAssumption
  <1>2. full \in Flight
    BY <1>1 DEF Flight
  <1>3. new = [fl EXCEPT ![f] = full]
    BY DEF Flushed
  <1> HIDE DEF new
  <1>4. /\ new \in [Flights -> Flight] /\ new[f] = full
        /\ \A g \in Flights \ {f} : new[g] = fl[g]
    BY <1>2, <1>3 DEF FlightsOK
  <1>5. FlightsOK(new)
    BY <1>1, <1>4 DEF FlightsOK
  <1>6. ASSUME NEW e, Travels(e, q, fl) PROVE Travels(e, <<>>, new)
    <2>1. CASE Holds(q, e)
      BY <1>4, <2>1 DEF Travels
    <2>2. ASSUME NEW g \in Flights, Holds(fl[g].batch, e) PROVE Travels(e, <<>>, new)
      <3>1. g # f
        <4>1. fl[f].batch = <<>>
          BY DEF FlightsOK
        <4> QED BY <2>2, <4>1 DEF Holds
      <3> QED BY <1>4, <2>2, <3>1 DEF Travels
    <2> QED BY <1>6, <2>1, <2>2 DEF Travels
  <1> QED BY <1>4, <1>5, <1>6 DEF new

\* ship() loses nothing, and leaves less than a batch in the queue.
LEMMA ShippedCarries ==
    ASSUME NEW fl, FlightsOK(fl), NEW f \in Flights, fl[f].phase = "free",
           NEW q \in Seq(Entries), NEW entry \in Entries
    PROVE  LET r == Shipped(q, fl, f, entry) IN
           /\ r.queue \in Seq(Entries) /\ Len(r.queue) < BatchSize
           /\ FlightsOK(r.flight)
           /\ \A e : Travels(e, q, fl) \/ e = entry => Travels(e, r.queue, r.flight)
           /\ \A g \in Flights \ {f} : r.flight[g] = fl[g]
  <1> DEFINE r == Shipped(q, fl, f, entry)
  <1>1. /\ Append(q, entry) \in Seq(Entries) /\ Len(Append(q, entry)) = Len(q) + 1
        /\ \A e : Holds(Append(q, entry), e) <=> Holds(q, e) \/ e = entry
    BY HoldsAppended
  <1>2. BatchSize \in Nat /\ BatchSize >= 1 /\ Len(q) \in Nat
    BY ShipperAssumption
  <1>3. \A e : Travels(e, q, fl) \/ e = entry => Travels(e, Append(q, entry), fl)
    BY <1>1 DEF Travels
  <1>4. CASE Len(q) + 1 >= BatchSize
    <2>1. r.queue = <<>> /\ r.flight = Flushed(fl, f, Append(q, entry))
      BY <1>4 DEF Shipped
    <2>2. <<>> \in Seq(Entries) /\ Len(<<>>) = 0
      OBVIOUS
    <2> DEFINE full == Append(q, entry)
               new  == Flushed(fl, f, full)
    <2>3. /\ FlightsOK(new) /\ \A g \in Flights \ {f} : new[g] = fl[g]
          /\ \A e : Travels(e, full, fl) => Travels(e, <<>>, new)
      <3>1. full \in Seq(Entries)
        BY <1>1
      <3> HIDE DEF full
      <3> QED BY <3>1, FlushCarries
    <2> HIDE DEF r
    <2> QED BY <1>2, <1>3, <2>1, <2>2, <2>3 DEF r
  <1>5. CASE ~(Len(q) + 1 >= BatchSize)
    <2>1. r.queue = Append(q, entry) /\ r.flight = fl
      BY <1>5 DEF Shipped
    <2> HIDE DEF r
    <2>2. Len(r.queue) < BatchSize
      BY <1>1, <1>2, <1>5, <2>1
    <2> QED BY <1>1, <1>3, <2>1, <2>2 DEF r
  <1> QED BY <1>4, <1>5

\* The entries of the property are those that travel.
LEMMA TravelsIsHeld ==
    ASSUME NEW e \in Nat \ {Own}
    PROVE  e \in Held <=> Travels(e, queue, flight)
  BY DEF Held, InBatch, Travels, Holds

LEMMA InitShips == Init => ShipperInv
  <1> SUFFICES ASSUME Init PROVE ShipperInv
    OBVIOUS
  <1>1. 0 \in 0..MaxRetries /\ 0 \in 0..MaxEntries /\ 0 \in 0..MaxFailures /\ 0 =< 2 * BatchSize
    BY ShipperAssumption
  <1>2. FreeFlight \in Flight /\ FreeFlight.phase = "free" /\ FreeFlight.batch = <<>>
    BY <1>1 DEF FreeFlight, Flight
  <1>3. FlightsOK(flight)
    BY <1>2 DEF Init, FlightsOK
  <1>4. TypeOK
    <2>1. queue \in Seq(Entries) /\ flight \in [Flights -> Flight]
      BY <1>2 DEF Init
    <2> QED BY <1>1, <2>1 DEF Init, TypeOK
  <1> QED BY <1>1, <1>3, <1>4 DEF Init, ShipperInv

\* The types, in the form the proofs use them.
LEMMA ShipperTypes ==
    ASSUME ShipperInv
    PROVE  /\ queue \in Seq(Entries) /\ Len(queue) \in Nat /\ BatchSize \in Nat /\ BatchSize >= 1
           /\ FlightsOK(flight) /\ shipped \in Nat /\ shipped =< MaxEntries
           /\ Own \in Entries /\ Entries = 0..MaxEntries /\ MaxEntries \in Nat
           /\ \A f \in Flights : /\ flight[f] \in Flight /\ flight[f].batch \in Seq(Entries)
                                 /\ flight[f].left \in 0..MaxRetries
  BY ShipperAssumption DEF ShipperInv, TypeOK, FlightsOK, Flight, Entries, Own

\* Closing a flight decides about the shutdown only.
LEMMA ClosedType ==
    ASSUME ShipperInv, NEW f \in Flights, Closed(f)
    PROVE  closing' \in {"no", "flushing", "done"} /\ awaited' \in Flights \cup {NoFlight}
  BY DEF Closed, ShipperInv, TypeOK

LEMMA ShipKeeps ==
    ASSUME ShipperInv, Ship
    PROVE  ShipperInv'
  <1>1. PICK f \in Flights : /\ Free(f)
                             /\ queue' = Shipped(queue, flight, f, shipped + 1).queue
                             /\ flight' = Shipped(queue, flight, f, shipped + 1).flight
    BY DEF Ship
  <1>2. /\ shipped' = shipped + 1 /\ shipped < MaxEntries
        /\ UNCHANGED <<failures, timer, closing, awaited, sent, overflow>>
    BY DEF Ship
  <1> DEFINE entry == shipped + 1
  <1>3. entry \in Entries /\ shipped' \in 0..MaxEntries
    BY <1>2, ShipperTypes
  <1>4. \A e \in 1..shipped' : e \in 1..shipped \/ e = entry
    BY <1>2, ShipperTypes
  <1>5. /\ queue' = Shipped(queue, flight, f, entry).queue
        /\ flight' = Shipped(queue, flight, f, entry).flight
    BY <1>1
  <1> HIDE DEF entry
  <1>6. /\ queue' \in Seq(Entries) /\ Len(queue') < BatchSize /\ FlightsOK(flight')
        /\ \A e : Travels(e, queue, flight) \/ e = entry => Travels(e, queue', flight')
    <2> DEFINE r == Shipped(queue, flight, f, entry)
    <2>1. /\ r.queue \in Seq(Entries) /\ Len(r.queue) < BatchSize /\ FlightsOK(r.flight)
          /\ \A e : Travels(e, queue, flight) \/ e = entry => Travels(e, r.queue, r.flight)
      BY <1>1, <1>3, ShippedCarries, ShipperTypes DEF Free
    <2> QED BY <1>5, <2>1
  <1>7. Len(queue') =< 2 * BatchSize
    BY <1>6, ShipperTypes
  <1>8. ~overflow => \A e \in 1..shipped' : Travels(e, queue', flight') \/ e \in sent
    BY <1>4, <1>6 DEF ShipperInv
  <1>9. TypeOK'
    BY <1>2, <1>3, <1>6 DEF ShipperInv, TypeOK, FlightsOK
  <1> QED BY <1>2, <1>6, <1>7, <1>8, <1>9 DEF ShipperInv, FlightsOK, Travels, Holds

\* The flushes of the timer and of the shutdown.
LEMMA FlushKeeps ==
    ASSUME ShipperInv, TimerFlush \/ Shutdown
    PROVE  ShipperInv'
  <1>1. /\ timer' \in BOOLEAN /\ UNCHANGED <<shipped, failures, sent, overflow>>
        /\ closing' \in {"no", "flushing", "done"} /\ awaited' \in Flights \cup {NoFlight}
    BY DEF TimerFlush, Shutdown, ShipperInv, TypeOK
  <1>2. \/ UNCHANGED <<queue, flight>>
        \/ \E f \in Flights : /\ Free(f) /\ flight' = Flushed(flight, f, queue)
                              /\ queue' = <<>>
    BY DEF TimerFlush, Shutdown
  <1>3. CASE UNCHANGED <<queue, flight>>
    BY <1>1, <1>3 DEF ShipperInv, TypeOK, FlightsOK, Travels, Holds
  <1>4. ASSUME NEW f \in Flights, Free(f), flight' = Flushed(flight, f, queue), queue' = <<>>
        PROVE  ShipperInv'
    <2>1. /\ FlightsOK(flight')
          /\ \A e : Travels(e, queue, flight) => Travels(e, <<>>, flight')
      BY <1>4, FlushCarries, ShipperTypes DEF Free
    <2>2. queue' \in Seq(Entries) /\ Len(queue') = 0 /\ 0 =< 2 * BatchSize
      BY <1>4, ShipperTypes
    <2>3. TypeOK'
      BY <1>1, <2>1, <2>2 DEF ShipperInv, TypeOK, FlightsOK
    <2> QED BY <1>1, <1>4, <2>1, <2>2, <2>3 DEF ShipperInv, FlightsOK, Travels, Holds
  <1> QED BY <1>2, <1>3, <1>4

\* A batch consists of entries of the application and warnings of the shipper.
LEMMA BatchOfEntries ==
    ASSUME ShipperInv, NEW f \in Flights
    PROVE  InBatch(flight[f].batch) \subseteq 1..MaxEntries
  <1> DEFINE b == flight[f].batch
  <1>1. b \in Seq(Entries) /\ Entries = 0..MaxEntries
    BY ShipperTypes
  <1> HIDE DEF b
  <1>2. \A i \in 1..Len(b) : b[i] \in Entries
    BY <1>1, ElementOfSeq
  <1>3. \A i \in 1..Len(b) : b[i] # Own => b[i] \in 1..MaxEntries
    BY <1>1, <1>2, ShipperAssumption DEF Own
  <1> QED BY <1>3 DEF InBatch, b

LEMMA SuccessKeeps ==
    ASSUME ShipperInv, NEW f \in Flights, SendSucceeds(f)
    PROVE  ShipperInv'
  <1>1. /\ flight[f].phase = "sending" /\ sent' = sent \cup InBatch(flight[f].batch)
        /\ flight' = [flight EXCEPT ![f] = FreeFlight]
        /\ UNCHANGED <<queue, shipped, failures, timer, overflow>>
    BY DEF SendSucceeds
  <1>2. FreeFlight \in Flight /\ FreeFlight.phase = "free" /\ FreeFlight.batch = <<>>
    BY ShipperAssumption DEF FreeFlight, Flight
  <1>3. FlightsOK(flight') /\ flight' \in [Flights -> Flight]
    BY <1>1, <1>2, ShipperTypes DEF FlightsOK
  <1>4. InBatch(flight[f].batch) \subseteq 1..MaxEntries
    BY BatchOfEntries
  <1>5. ASSUME NEW e \in 1..shipped, Travels(e, queue, flight)
        PROVE  Travels(e, queue', flight') \/ e \in sent'
    <2>1. e # Own
      BY ShipperTypes DEF Own
    <2>2. Holds(flight[f].batch, e) => e \in sent'
      BY <1>1, <2>1 DEF InBatch, Holds
    <2>3. \A g \in Flights \ {f} : flight'[g] = flight[g]
      BY <1>1, ShipperTypes DEF FlightsOK
    <2> QED BY <1>1, <1>5, <2>2, <2>3 DEF Travels
  <1>6. TypeOK'
    <2>1. SendSucceeds(f) => Closed(f)
      BY DEF SendSucceeds
    <2> QED BY <1>1, <1>3, <1>4, <2>1, ClosedType DEF ShipperInv, TypeOK
  <1>7. ~overflow' => \A e \in 1..shipped' : Travels(e, queue', flight') \/ e \in sent'
    BY <1>1, <1>5 DEF ShipperInv
  <1> QED BY <1>1, <1>3, <1>6, <1>7 DEF ShipperInv, FlightsOK, Travels, Holds

LEMMA FailureKeeps ==
    ASSUME ShipperInv, NEW f \in Flights, SendFails(f)
    PROVE  ShipperInv'
  <1> DEFINE left == flight[f].left - 1
             then == IF left = 0 THEN "failed" ELSE "sending"
             now  == [flight EXCEPT ![f].left = left, ![f].phase = then]
  <1>1. /\ flight[f].phase = "sending" /\ failures < MaxFailures /\ failures' = failures + 1
        /\ sent' \in {sent, sent \cup InBatch(flight[f].batch)}
        /\ UNCHANGED <<shipped, timer, closing, awaited, overflow>>
    BY DEF SendFails
  <1>2. PICK g \in Flights : /\ Free(g)
                             /\ queue' = Shipped(queue, now, g, Own).queue
                             /\ flight' = Shipped(queue, now, g, Own).flight
    BY DEF SendFails
  <1>3. g # f
    BY <1>1, <1>2 DEF Free
  <1>4. /\ left \in 0..MaxRetries /\ then \in {"failed", "sending"} /\ then # "free"
        /\ then = "sending" => left >= 1
    <2>1. flight[f].left >= 1 /\ flight[f].left \in 0..MaxRetries
      BY <1>1, ShipperTypes DEF FlightsOK
    <2> QED BY <2>1, ShipperAssumption
  <1> HIDE DEF left, then
  <1>5. FlightsOK(now) /\ now[g].phase = "free" /\ \A h \in Flights : now[h].batch = flight[h].batch
    <2>1. /\ now \in [Flights -> Flight]
          /\ now[f].left = left /\ now[f].phase = then /\ now[f].batch = flight[f].batch
          /\ \A h \in Flights \ {f} : now[h] = flight[h]
      BY <1>4, ShipperTypes DEF FlightsOK, Flight
    <2> HIDE DEF now
    <2>2. \A h \in Flights : /\ now[h].phase = "free" => now[h].batch = <<>>
                             /\ now[h].phase = "sending" => now[h].left >= 1
      BY <1>4, <2>1, ShipperTypes DEF FlightsOK
    <2> QED BY <1>2, <1>3, <2>1, <2>2 DEF FlightsOK, Free
  <1> HIDE DEF now
  <1>6. /\ queue' \in Seq(Entries) /\ Len(queue') < BatchSize /\ FlightsOK(flight')
        /\ \A e : Travels(e, queue, now) => Travels(e, queue', flight')
    <2> DEFINE r == Shipped(queue, now, g, Own)
    <2>1. /\ r.queue \in Seq(Entries) /\ Len(r.queue) < BatchSize /\ FlightsOK(r.flight)
          /\ \A e : Travels(e, queue, now) \/ e = Own => Travels(e, r.queue, r.flight)
      BY <1>5, ShippedCarries, ShipperTypes
    <2> QED BY <1>2, <2>1
  <1>7. Len(queue') =< 2 * BatchSize
    BY <1>6, ShipperTypes
  <1>8. ~overflow' => \A e \in 1..shipped' : Travels(e, queue', flight') \/ e \in sent'
    <2>1. \A e : Travels(e, queue, flight) => Travels(e, queue, now)
      BY <1>5 DEF Travels
    <2> QED BY <1>1, <1>6, <2>1 DEF ShipperInv
  <1>9. TypeOK'
    <2>1. failures' \in 0..MaxFailures
      BY <1>1, ShipperAssumption DEF ShipperInv, TypeOK
    <2>2. sent' \subseteq 1..MaxEntries
      BY <1>1, BatchOfEntries DEF ShipperInv, TypeOK
    <2> QED BY <1>1, <1>6, <2>1, <2>2 DEF ShipperInv, TypeOK, FlightsOK
  <1> QED BY <1>6, <1>7, <1>8, <1>9 DEF ShipperInv

\* A batch that is given up goes before what was queued since; the cap is the only
\* place where something is cut off, and it says so.
LEMMA RequeueKeeps ==
    ASSUME ShipperInv, NEW f \in Flights, Requeue(f)
    PROVE  ShipperInv'
  <1>1. /\ flight[f].phase = "failed"
        /\ UNCHANGED <<shipped, failures, timer, sent>>
    BY DEF Requeue
  <1>2. PICK g \in Flights :
           /\ Free(g)
           /\ LET r   == Shipped(queue, flight, g, Own)
                  all == flight[f].batch \o r.queue
              IN  /\ queue' = SubSeq(all, 1, IF Len(all) < 2 * BatchSize
                                             THEN Len(all) ELSE 2 * BatchSize)
                  /\ flight' = [r.flight EXCEPT ![f] = FreeFlight]
                  /\ overflow' = (overflow \/ Len(all) > 2 * BatchSize)
    BY DEF Requeue
  <1>3. g # f
    BY <1>1, <1>2 DEF Free
  <1> DEFINE r    == Shipped(queue, flight, g, Own)
             back == flight[f].batch
             all  == back \o r.queue
             cut  == IF Len(all) < 2 * BatchSize THEN Len(all) ELSE 2 * BatchSize
  <1>4. /\ r.queue \in Seq(Entries) /\ FlightsOK(r.flight)
        /\ \A e : Travels(e, queue, flight) \/ e = Own => Travels(e, r.queue, r.flight)
        /\ \A h \in Flights \ {g} : r.flight[h] = flight[h]
    <2>1. flight[g].phase = "free"
      BY <1>2 DEF Free
    <2>2. queue \in Seq(Entries) /\ Own \in Entries /\ FlightsOK(flight)
      BY ShipperTypes
    <2> HIDE DEF all, cut, back
    <2> QED BY <2>1, <2>2, ShippedCarries
  <1>5. /\ queue' = SubSeq(all, 1, cut) /\ flight' = [r.flight EXCEPT ![f] = FreeFlight]
        /\ overflow' = (overflow \/ Len(all) > 2 * BatchSize)
    BY <1>2
  <1>6. r.flight[f].batch = back
    BY <1>3, <1>4
  <1>7. back \in Seq(Entries)
    BY ShipperTypes
  <1> HIDE DEF r, back
  <1>8. /\ all \in Seq(Entries) /\ Len(all) \in Nat
        /\ \A e : Holds(all, e) <=> Holds(back, e) \/ Holds(r.queue, e)
    BY <1>4, <1>7, HoldsJoined
  <1> HIDE DEF all
  <1>9. /\ queue' \in Seq(Entries) /\ Len(queue') =< 2 * BatchSize
        /\ Len(all) =< 2 * BatchSize => queue' = all
    <2>1. cut \in 0..Len(all) /\ cut =< 2 * BatchSize
          /\ (Len(all) =< 2 * BatchSize => cut = Len(all))
      BY <1>8, ShipperTypes
    <2> HIDE DEF cut
    <2>2. \A i \in 1..cut : i \in 1..Len(all)
      BY <1>8, <2>1
    <2>3. /\ SubSeq(all, 1, cut) \in Seq(Entries) /\ Len(SubSeq(all, 1, cut)) = cut
          /\ \A i \in 1..cut : SubSeq(all, 1, cut)[i] = all[i]
      BY <1>8, <2>1, <2>2, SubSeqProperties
    <2>4. cut = Len(all) => SubSeq(all, 1, cut) = all
      BY <1>8, <2>3
    <2> QED BY <1>5, <2>1, <2>3, <2>4
  <1>10. FreeFlight \in Flight /\ FreeFlight.phase = "free" /\ FreeFlight.batch = <<>>
    BY ShipperAssumption DEF FreeFlight, Flight
  <1>11. /\ FlightsOK(flight') /\ \A h \in Flights \ {f} : flight'[h] = r.flight[h]
    BY <1>4, <1>5, <1>10 DEF FlightsOK
  <1>12. ASSUME NEW e \in 1..shipped, Travels(e, queue, flight), Len(all) =< 2 * BatchSize
         PROVE  Travels(e, queue', flight')
    <2>1. Travels(e, r.queue, r.flight)
      BY <1>4, <1>12
    <2>2. Holds(r.queue, e) \/ Holds(back, e) => Holds(queue', e)
      BY <1>8, <1>9, <1>12
    <2> QED BY <1>6, <1>11, <2>1, <2>2 DEF Travels
  <1>13. ~overflow' => \A e \in 1..shipped' : Travels(e, queue', flight') \/ e \in sent'
    <2>1. overflow' \in BOOLEAN /\ overflow \in BOOLEAN
      BY <1>5 DEF ShipperInv, TypeOK
    <2>2. ~overflow' => ~overflow /\ Len(all) =< 2 * BatchSize
      <3>1. ~(Len(all) > 2 * BatchSize) => Len(all) =< 2 * BatchSize
        BY <1>8, ShipperTypes
      <3> QED BY <1>5, <2>1, <3>1, Zenon
    <2> QED BY <1>1, <1>12, <2>2 DEF ShipperInv
  <1>14. TypeOK'
    <2>1. Requeue(f) => Closed(f)
      BY DEF Requeue
    <2>2. overflow' \in BOOLEAN
      BY <1>5 DEF ShipperInv, TypeOK
    <2> QED BY <1>1, <1>9, <1>11, <2>1, <2>2, ClosedType DEF ShipperInv, TypeOK, FlightsOK
  <1> QED BY <1>9, <1>11, <1>13, <1>14 DEF ShipperInv

LEMMA ShipperKeeps == ShipperInv /\ [Next]_vars => ShipperInv'
  <1> SUFFICES ASSUME ShipperInv, [Next]_vars PROVE ShipperInv'
    OBVIOUS
  <1>1. CASE UNCHANGED vars
    BY <1>1 DEF vars, ShipperInv, TypeOK, FlightsOK, Travels, Holds
  <1> QED BY <1>1, ShipKeeps, FlushKeeps, SuccessKeeps, FailureKeeps, RequeueKeeps DEF Next, Flying

\* An entry is lost only to the cap: for every batch size, number of attempts,
\* overlapping flights and failures.
THEOREM EntriesLostOnlyToCap == Spec => []LostOnlyToCap
  <1>1. ShipperInv => LostOnlyToCap
    <2> SUFFICES ASSUME ShipperInv PROVE LostOnlyToCap
      OBVIOUS
    <2>1. \A e \in 1..shipped : e \in Nat \ {Own}
      BY ShipperTypes DEF Own
    <2> QED BY <2>1, TravelsIsHeld DEF ShipperInv, LostOnlyToCap
  <1> QED BY <1>1, InitShips, ShipperKeeps, PTL DEF Spec
=============================================================================
