------------------------------ MODULE Bootstrap ------------------------------
(***************************************************************************)
(* How the processes of chain-bridge start.  Each one builds a             *)
(* ChainService, connects it to the Lum Network node in onModuleInit and   *)
(* checks it in onApplicationBootstrap.  The scheduler moreover pauses the *)
(* queue of blocks, which all processes share in Redis, and resumes it.    *)
(* Nest starts the crons after every onModuleInit has ended, so only a     *)
(* running scheduler queues blocks.                                        *)
(***************************************************************************)
EXTENDS Integers

CONSTANTS Processes,  \* the scheduler, the consumers, the API servers
          Scheduler,
          MaxHeight,  \* bound on the chain
          Window,     \* heights that a live tick covers
          MaxStops    \* bound on the deaths of processes

BootstrapAssumption ==
    /\ Scheduler \in Processes
    /\ MaxHeight \in Nat \ {0} /\ Window \in Nat \ {0} /\ MaxStops \in Nat

VARIABLES
    tip,      \* height of the chain
    pc,       \* how far each process has started
    client,   \* its clients, set together: "null" as declared, or "set"
    chainId,  \* the id that job ids are built from
    paused,   \* the pause of the queue, which outlives its process
    queued,   \* ids of the INGEST jobs: chain id and height
    unnamed,  \* history: a scheduler ran without the chain's id
    stops

vars == <<tip, pc, client, chainId, paused, queued, unnamed, stops>>

Heights == 1..MaxHeight
ChainIds == {"undefined", "lum-network-1"}

TypeOK ==
    /\ tip \in Heights
    /\ pc \in [Processes -> {"off", "pause", "connect", "nodeInfo", "bootstrap", "running"}]
    /\ client \in [Processes -> {"null", "set"}]
    /\ chainId \in [Processes -> ChainIds]
    /\ paused \in BOOLEAN /\ unnamed \in BOOLEAN
    /\ queued \subseteq ChainIds \X Heights
    /\ stops \in 0..MaxStops

Init ==
    /\ tip = 1
    /\ pc = [p \in Processes |-> "off"]
    /\ client = [p \in Processes |-> "null"]
    /\ chainId = [p \in Processes |-> "undefined"]
    /\ paused = FALSE /\ queued = {} /\ unnamed = FALSE /\ stops = 0

Goto(p, to) == pc' = [pc EXCEPT ![p] = to]

NewBlock ==
    /\ tip < MaxHeight
    /\ tip' = tip + 1
    /\ UNCHANGED <<pc, client, chainId, paused, queued, unnamed, stops>>

Start(p) ==
    /\ pc[p] = "off"
    /\ Goto(p, IF p = Scheduler THEN "pause" ELSE "connect")
    /\ UNCHANGED <<tip, client, chainId, paused, queued, unnamed, stops>>

\* "Pause queues until application bootstrap".
Pause(p) ==
    /\ pc[p] = "pause"
    /\ paused' = TRUE
    /\ Goto(p, "connect")
    /\ UNCHANGED <<tip, client, chainId, queued, unnamed, stops>>

\* GenericChain.initialize sets the two clients once both are connected ...
Connect(p) ==
    /\ pc[p] = "connect"
    /\ client' = [client EXCEPT ![p] = "set"]
    /\ Goto(p, "nodeInfo")
    /\ UNCHANGED <<tip, chainId, paused, queued, unnamed, stops>>

\* ... and reads the id of the chain afterwards.
NodeInfo(p) ==
    /\ pc[p] = "nodeInfo"
    /\ chainId' = [chainId EXCEPT ![p] = "lum-network-1"]
    /\ Goto(p, "bootstrap")
    /\ UNCHANGED <<tip, client, paused, queued, unnamed, stops>>

\* The node does not answer: ChainService.initialize catches what was thrown.
NodeRejects(p) ==
    /\ pc[p] \in {"connect", "nodeInfo"}
    /\ Goto(p, "bootstrap")
    /\ unnamed' = (unnamed \/ (p = Scheduler /\ pc[p] = "nodeInfo"))
    /\ UNCHANGED <<tip, client, chainId, paused, queued, stops>>

\* Mutant of IsInitialized: the value that the clients are declared with.
IsInitializedNull(p) == client[p] # "null"

\* A client is never undefined.
IsInitialized(p) == client[p] # "undefined"

\* The scheduler resumes the queue; a process that is not initialised exits.
OnBootstrap(p) ==
    /\ pc[p] = "bootstrap"
    /\ Goto(p, IF IsInitialized(p) THEN "running" ELSE "off")
    /\ paused' = (paused /\ ~(p = Scheduler /\ IsInitialized(p)))
    /\ UNCHANGED <<tip, client, chainId, queued, unnamed, stops>>

\* The process dies, or a call to Redis rejects while it starts.
Stop(p) ==
    /\ pc[p] # "off" /\ stops < MaxStops
    /\ Goto(p, "off")
    /\ client' = [client EXCEPT ![p] = "null"]
    /\ chainId' = [chainId EXCEPT ![p] = "undefined"]
    /\ stops' = stops + 1
    /\ UNCHANGED <<tip, paused, queued, unnamed>>

Covered == {h \in Heights : tip - Window < h /\ h <= tip}

\* Mutant of LiveIngest: a cron that fires while the process still starts.
LiveIngestEarly ==
    /\ pc[Scheduler] \in {"nodeInfo", "running"} /\ client[Scheduler] = "set"
    /\ queued' = queued \cup ({chainId[Scheduler]} \X Covered)
    /\ UNCHANGED <<tip, pc, client, chainId, paused, unnamed, stops>>

\* Without a client the cron throws before it adds a job.
LiveIngest ==
    /\ pc[Scheduler] = "running" /\ client[Scheduler] = "set"
    /\ queued' = queued \cup ({chainId[Scheduler]} \X Covered)
    /\ UNCHANGED <<tip, pc, client, chainId, paused, unnamed, stops>>

Starting(p) ==
    Start(p) \/ Pause(p) \/ Connect(p) \/ NodeInfo(p) \/ NodeRejects(p) \/ OnBootstrap(p)

Next ==
    \/ NewBlock \/ LiveIngest
    \/ \E p \in Processes : Starting(p) \/ Stop(p)

Spec == Init /\ [][Next]_vars

-----------------------------------------------------------------------------
(* Properties.                                                              *)

\* A height has two job ids, under which two runs ingest it, only after a
\* scheduler ran without the chain's id: Stop and Start alone, wherever they
\* strike and whatever the node does before it is connected, never rename a job
\* (generic.chain.ts:94-98, block.scheduler.ts:56).
OneIdPerHeight ==
    (\E h \in Heights : ChainIds \X {h} \subseteq queued) => unnamed

\* "If we weren't able to initialize connection with Lum Network, exit the
\* project" (sync-consumer.module.ts:43): who runs has its clients.  The clients
\* of a process that could not connect are null, which counts as initialised.
RunningMeansConnected ==
    \A p \in Processes : pc[p] = "running" => client[p] = "set"

\* The queue that a scheduler paused is resumed, by it or by the one that is
\* started after its death (sync-scheduler.module.ts:84 and 98), whether or not
\* the node answers; provided a scheduler is started and its start goes on.
QueueIsResumed == paused ~> ~paused
=============================================================================
