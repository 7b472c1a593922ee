--------------------------- MODULE ServerLifecycle ---------------------------
(***************************************************************************)
(* Start and shutdown of the process: server.js, and what it drives in     *)
(* queue/redisClient.js (one client, built when none is remembered), in    *)
(* queue/queueManager.js (a queue remembered with the client it was built  *)
(* on) and in workers/taskWorker.js.  Requests on open connections go on   *)
(* asking for the client and the queue while the process shuts down.       *)
(***************************************************************************)
EXTENDS Naturals

CONSTANTS MaxClients,  \* bound: Redis clients built
          MaxHealth    \* bound: health requests

ASSUME ServerAssumption == MaxClients \in Nat /\ MaxHealth \in Nat

Clients == 1..MaxClients
None == 0

VARIABLES boot,       \* how far start() is
          stop,       \* the step shutdown() is at
          http,       \* the HTTP server
          worker,     \* the task worker
          busy,       \* the worker is processing a job
          client,     \* redisInstance: the remembered client, or None
          built,      \* clients built so far
          open,       \* clients that are connected or connecting
          taskQueue,  \* the client of the remembered queue, or None
          health,     \* the health request in progress
          asked,      \* health requests so far
          exitAfter,  \* shutdown() is awaited in order to exit(1)
          process     \* "alive", or how it ended

serverState == <<boot, stop, http, worker, busy, client, built, open, taskQueue,
                 health, asked, exitAfter, process>>

StopSteps == {"no", "http", "worker", "queues", "redis", "shipper", "tracing", "done"}

ServerTypeOK ==
    /\ boot \in {"off", "tracing", "redis", "listen", "up", "failed"}
    /\ stop \in StopSteps
    /\ http \in {"none", "opening", "listening", "closing", "closed"}
    /\ worker \in {"none", "running", "closing", "closed", "givenUp"}
    /\ busy \in BOOLEAN /\ exitAfter \in BOOLEAN
    /\ built \in 0..MaxClients /\ asked \in 0..MaxHealth
    /\ client \in 0..built /\ taskQueue \in 0..built /\ open \subseteq 1..built
    /\ health \in {"none", "metrics"}
    /\ process \in {"alive", "exited", "crashed"}

ServerInit ==
    /\ boot = "off" /\ stop = "no" /\ http = "none" /\ worker = "none"
    /\ busy = FALSE /\ exitAfter = FALSE
    /\ client = None /\ built = 0 /\ open = {} /\ taskQueue = None
    /\ health = "none" /\ asked = 0
    /\ process = "alive"

-----------------------------------------------------------------------------
(* The Redis client and the queue.                                         *)

\* Mutant: a client is built although one is remembered.
BuildAlways == /\ built < MaxClients
               /\ built' = built + 1
               /\ client' = built + 1
               /\ open' = open \cup {built + 1}

\* getRedis() and initRedis(): the remembered client, or a new one.
GetRedis ==
    IF client # None THEN UNCHANGED <<client, built, open>>
    ELSE /\ built < MaxClients
         /\ built' = built + 1
         /\ client' = built + 1
         /\ open' = open \cup {built + 1}

\* createQueue(): the remembered queue, or a new one on the client of getRedis().
CreateQueue ==
    IF taskQueue # None THEN UNCHANGED <<taskQueue, client, built, open>>
    ELSE GetRedis /\ taskQueue' = client'

-----------------------------------------------------------------------------
(* Start.                                                                  *)

Boot ==
    /\ boot = "off"
    /\ boot' = "tracing"
    /\ UNCHANGED <<stop, http, worker, busy, client, built, open, taskQueue, health,
                   asked, exitAfter, process>>

\* Tracing has started or failed, the shipper is initialised, the client built.
InitRedis ==
    /\ boot = "tracing"
    /\ boot' = "redis"
    /\ GetRedis
    /\ UNCHANGED <<stop, http, worker, busy, taskQueue, health, asked, exitAfter, process>>

\* waitUntilReady() resolves: queue, worker and HTTP server follow without a pause.
RedisReady ==
    /\ boot = "redis"
    /\ boot' = "listen"
    /\ CreateQueue
    /\ worker' = "running"
    /\ http' = "opening"
    /\ UNCHANGED <<stop, busy, health, asked, exitAfter, process>>

\* The handlers of signals and exceptions are registered once the server listens.
Listening ==
    /\ boot = "listen"
    /\ boot' = "up"
    /\ http' = "listening"
    /\ UNCHANGED <<stop, worker, busy, client, built, open, taskQueue, health, asked,
                   exitAfter, process>>

\* A step of start() throws, or is not ready in time: the client cannot be built,
\* Redis is not ready, the queue or (with the queue built) the worker cannot be
\* started, the server does not listen.  start() shuts down and exits.
StartFails ==
    /\ boot \in {"tracing", "redis", "listen"}
    /\ boot' = "failed"
    /\ stop' = "http"
    /\ exitAfter' = TRUE
    /\ http' = IF http = "opening" THEN "closed" ELSE http
    /\ \/ boot = "redis" /\ CreateQueue
       \/ UNCHANGED <<client, built, open, taskQueue>>
    /\ UNCHANGED <<worker, busy, health, asked, process>>

-----------------------------------------------------------------------------
(* What may happen at any time.                                            *)

\* A signal: its default before the handlers are registered; afterwards
\* shutdown(), whose second call returns at once.
Signal ==
    \/ /\ boot \notin {"up", "off"}
       /\ process' = "crashed"
       /\ UNCHANGED <<stop, http>>
    \/ /\ boot = "up" /\ stop = "no"
       /\ stop' = "http"
       /\ http' = "closing"
       /\ UNCHANGED process

\* An exception nobody catches, such as the "error" event of the client, which
\* redisClient.js emits again without a listener: the process ends, at once if
\* no handler is registered or a shutdown is under way.
Uncaught ==
    \/ /\ boot \notin {"up", "off"} \/ stop # "no"
       /\ process' = "crashed"
       /\ UNCHANGED <<stop, http, exitAfter>>
    \/ /\ boot = "up" /\ stop = "no"
       /\ stop' = "http"
       /\ http' = "closing"
       /\ exitAfter' = TRUE
       /\ UNCHANGED process

\* checkRedisHealth() on an open connection, and after it getQueueMetrics().
HealthPing ==
    /\ http \in {"listening", "closing"}
    /\ health = "none" /\ asked < MaxHealth
    /\ health' = "metrics"
    /\ asked' = asked + 1
    /\ GetRedis
    /\ UNCHANGED <<boot, stop, http, worker, busy, taskQueue, exitAfter, process>>

\* The administrators' health request looks at Redis only.
AdminHealth ==
    /\ http \in {"listening", "closing"}
    /\ asked < MaxHealth
    /\ asked' = asked + 1
    /\ GetRedis
    /\ UNCHANGED <<boot, stop, http, worker, busy, taskQueue, health, exitAfter, process>>

QueueMetrics ==
    /\ health = "metrics"
    /\ health' = "none"
    /\ CreateQueue
    /\ UNCHANGED <<boot, stop, http, worker, busy, asked, exitAfter, process>>

JobBegins ==
    /\ worker = "running" /\ ~busy
    /\ busy' = TRUE
    /\ UNCHANGED <<boot, stop, http, worker, client, built, open, taskQueue, health,
                   asked, exitAfter, process>>

JobEnds ==
    /\ busy
    /\ busy' = FALSE
    /\ UNCHANGED <<boot, stop, http, worker, client, built, open, taskQueue, health,
                   asked, exitAfter, process>>

-----------------------------------------------------------------------------
(* Shutdown, one action per await.                                         *)

StopWorkerNow == worker' = IF worker = "running" THEN "closing" ELSE worker

\* Every connection has ended.
HttpClosed ==
    /\ http = "closing" /\ health = "none"
    /\ http' = "closed"
    /\ UNCHANGED <<boot, stop, worker, busy, client, built, open, taskQueue, health,
                   asked, exitAfter, process>>

\* Mutant: the shutdown waits for every connection to end.
StopHttpWhenClosed ==
    /\ stop = "http"
    /\ http \notin {"closing", "listening"}
    /\ stop' = "worker"
    /\ StopWorkerNow
    /\ UNCHANGED <<boot, http, busy, client, built, open, taskQueue, health, asked,
                   exitAfter, process>>

\* The server has closed or ten seconds are over: the worker begins to close.
StopHttp ==
    /\ stop = "http"
    /\ stop' = "worker"
    /\ StopWorkerNow
    /\ UNCHANGED <<boot, http, busy, client, built, open, taskQueue, health, asked,
                   exitAfter, process>>

\* Mutant: the worker is given up although it works.
StopWorkerAtOnce ==
    /\ stop = "worker"
    /\ worker' = IF worker = "closing" THEN "closed" ELSE worker
    /\ stop' = "queues"
    /\ UNCHANGED <<boot, http, busy, client, built, open, taskQueue, health, asked,
                   exitAfter, process>>

\* worker.close() waits for the job, without a limit.
StopWorker ==
    /\ stop = "worker"
    /\ ~busy
    /\ worker' = IF worker = "closing" THEN "closed" ELSE worker
    /\ stop' = "queues"
    /\ UNCHANGED <<boot, http, busy, client, built, open, taskQueue, health, asked,
                   exitAfter, process>>

\* worker.close() rejects, also while a job is processed: the error is logged, the
\* worker disconnected, and the shutdown goes on.
StopWorkerFails ==
    /\ stop = "worker" /\ worker = "closing"
    /\ worker' = "givenUp"
    /\ stop' = "queues"
    /\ UNCHANGED <<boot, http, busy, client, built, open, taskQueue, health, asked,
                   exitAfter, process>>

\* shutdownAll(): closed, failed or timed out, the queue is forgotten.
StopQueues ==
    /\ stop = "queues"
    /\ taskQueue' = None
    /\ stop' = "redis"
    /\ UNCHANGED <<boot, http, worker, busy, client, built, open, health, asked,
                   exitAfter, process>>

\* shutdownRedis(): the client quits or is disconnected, and is forgotten.
StopRedis ==
    /\ stop = "redis"
    /\ open' = open \ {client}
    /\ client' = None
    /\ stop' = "shipper"
    /\ UNCHANGED <<boot, http, worker, busy, built, taskQueue, health, asked, exitAfter,
                   process>>

StopShipper ==
    /\ stop = "shipper"
    /\ stop' = "tracing"
    /\ UNCHANGED <<boot, http, worker, busy, client, built, open, taskQueue, health,
                   asked, exitAfter, process>>

StopTracing ==
    /\ stop = "tracing"
    /\ stop' = "done"
    /\ UNCHANGED <<boot, http, worker, busy, client, built, open, taskQueue, health,
                   asked, exitAfter, process>>

\* The end: exit(1) if someone awaits it, or nothing is left that keeps the
\* event loop alive.
Exit ==
    /\ stop = "done"
    /\ exitAfter \/ (open = {} /\ http \in {"none", "closed"} /\ health = "none" /\ ~busy)
    /\ process' = "exited"
    /\ UNCHANGED <<boot, stop, http, worker, busy, client, built, open, taskQueue,
                   health, asked, exitAfter>>

Starting == InitRedis \/ RedisReady \/ Listening \/ StartFails
Stopping ==
    \/ StopHttp \/ StopWorker \/ StopQueues \/ StopRedis
    \/ StopShipper \/ StopTracing \/ Exit

Disturbed ==
    \/ Signal /\ UNCHANGED exitAfter
    \/ Uncaught

ServerNext ==
    /\ process = "alive"
    /\ \/ Boot \/ Starting \/ Stopping \/ StopWorkerFails
       \/ HealthPing \/ AdminHealth \/ QueueMetrics \/ JobBegins \/ JobEnds \/ HttpClosed
       \/ /\ Disturbed
          /\ UNCHANGED <<boot, worker, busy, client, built, open, taskQueue, health, asked>>

ServerSpec == ServerInit /\ [][ServerNext]_serverState

Alive(A) == process = "alive" /\ A

\* Every await of start() and shutdown() ends, and so do jobs; connections of
\* clients need not, and closing the worker need not fail.
ServerFairness ==
    /\ WF_serverState(Alive(Starting)) /\ WF_serverState(Alive(Stopping))
    /\ WF_serverState(Alive(JobEnds))

-----------------------------------------------------------------------------
\* In a process that lives, whatever is open of Redis is the remembered client,
\* so that a later shutdown could close it; a job that is being processed has the
\* client its worker was built on, unless that worker failed to close; and until
\* Redis is shut down the remembered queue is on an open client: through
\* shutdowns, failing starts and requests that build clients and queues again.
ClientsAccounted ==
    /\ ServerTypeOK
    /\ process = "alive" => open \subseteq {client}
    /\ process = "alive" /\ busy => 1 \in open \/ worker = "givenUp"
    /\ process = "alive" /\ taskQueue # None =>
           taskQueue \in open \/ stop \in {"shipper", "tracing", "done"}

\* start() ends in a server that is up or a process that is gone, and a shutdown
\* that has begun ends, although connections may stay open and clients be built.
ShutdownEnds ==
    /\ boot = "tracing" ~> boot = "up" \/ process # "alive"
    /\ stop # "no" ~> stop = "done" \/ process # "alive"
=============================================================================
