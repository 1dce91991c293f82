------------------------------- MODULE Startup -------------------------------
(***************************************************************************)
(* The main goroutine from its first step to the signal handler: the       *)
(* storage is connected, then the cache, each with its own rules for       *)
(* trying again, then the auditor, the gRPC server and the housekeeper are *)
(* started.  An error is a panic, which runs the deferred Close calls; a   *)
(* signal before signal.Notify ends the process without them.              *)
(***************************************************************************)
EXTENDS Integers

CONSTANTS StorageAttempts, \* StorageConnectionRetryAttempts
          StorageRetry,    \* StorageConnectionRetryEnabled
          CacheAttempts,   \* CacheConnectionRetryAttempts
          CacheRetry       \* CacheConnectionRetryEnabled

ASSUME ConnectionAssumption ==
    /\ StorageAttempts \in Int /\ CacheAttempts \in Int
    /\ StorageRetry \in BOOLEAN /\ CacheRetry \in BOOLEAN

VARIABLES main,    \* where the main goroutine is
          attempt, \* pings made for the connection it waits for
          storage, \* the connection to the storage
          cache    \* the connection to the cache

startupVars == <<main, attempt, storage, cache>>

(* "secondary" and "primary" while the two Mongo clients, for reads from a *)
(* secondary and from the primary, are connected; "jobs" once the server   *)
(* listens; "notify" once the schedulers run.                              *)
Starting == {"trace", "secondary", "primary", "cache", "auditor", "grpc", "jobs",
             "notify"}

Connection == {"none", "open", "closed"}

StartupInit ==
    /\ main = "trace"
    /\ attempt = 0
    /\ storage = "none"
    /\ cache = "none"

Closed(connection) == IF connection = "open" THEN "closed" ELSE connection

(* panic(err), and the deferred calls it runs. *)
Panic ==
    /\ main' = "panicked"
    /\ cache' = Closed(cache)
    /\ storage' = Closed(storage)
    /\ UNCHANGED attempt

(* A step of main that succeeds, or fails. *)
StartStep(from, to) ==
    /\ main = from
    /\ \/ main' = to /\ UNCHANGED <<attempt, storage, cache>>
       \/ Panic

InitTrace == StartStep("trace", "secondary")

-----------------------------------------------------------------------------
(* Storage *)

(* At least one attempt is made. *)
EffectiveAttempts == IF StorageAttempts < 1 THEN 1 ELSE StorageAttempts

StorageConnects ==
    \/ /\ main = "secondary"
       /\ main' = "primary"
       /\ attempt' = 0
       /\ UNCHANGED <<storage, cache>>
    \/ /\ main = "primary"
       /\ main' = "cache"
       /\ attempt' = 0
       /\ storage' = "open"
       /\ UNCHANGED cache

(* Mistake: the attempts never run out. *)
SlipStorageFails ==
    /\ main \in {"secondary", "primary"}
    /\ IF ~StorageRetry
       THEN Panic
       ELSE attempt' = (attempt + 1) % EffectiveAttempts /\ UNCHANGED <<main, storage, cache>>

StorageFails ==
    /\ main \in {"secondary", "primary"}
    /\ IF ~StorageRetry \/ attempt + 1 = EffectiveAttempts
       THEN Panic
       ELSE attempt' = attempt + 1 /\ UNCHANGED <<main, storage, cache>>

(* createOptions: no URI is configured. *)
StorageRefused ==
    /\ main = "secondary"
    /\ attempt = 0
    /\ Panic

-----------------------------------------------------------------------------
(* Cache *)

(* The loop ends with this reply to a ping. *)
LastPing(reply) == reply = "PONG" \/ ~CacheRetry \/ attempt + 1 = CacheAttempts

(* Only an error at the end of the loop counts: a reply that is no PONG is *)
(* tried again, and in the end accepted.                                   *)
PingCache(reply) ==
    /\ main = "cache"
    /\ CacheAttempts >= 1
    /\ \/ /\ ~LastPing(reply)
          /\ attempt' = attempt + 1
          /\ UNCHANGED <<main, storage, cache>>
       \/ /\ LastPing(reply)
          /\ reply # "error"
          /\ main' = "auditor"
          /\ attempt' = 0
          /\ cache' = "open"
          /\ UNCHANGED storage
       \/ /\ LastPing(reply)
          /\ reply = "error"
          /\ Panic

(* The URI, the attempts or the tracing are wrong. *)
CacheRefused ==
    /\ main = "cache"
    /\ attempt = 0
    /\ Panic

-----------------------------------------------------------------------------
NewAuditor == StartStep("auditor", "grpc")

StartGrpcServer == StartStep("grpc", "jobs")

StartHouseKeeperJobs ==
    /\ main = "jobs"
    /\ main' = "notify"
    /\ UNCHANGED <<attempt, storage, cache>>

Notify ==
    /\ main = "notify"
    /\ main' = "serve"
    /\ UNCHANGED <<attempt, storage, cache>>

(* The default action of a signal. *)
Kill ==
    /\ main \in Starting
    /\ main' = "killed"
    /\ UNCHANGED <<attempt, storage, cache>>

StartUp ==
    \/ InitTrace
    \/ StorageConnects \/ StorageFails \/ StorageRefused
    \/ \E reply \in {"PONG", "other", "error"} : PingCache(reply)
    \/ CacheRefused
    \/ NewAuditor \/ StartGrpcServer \/ StartHouseKeeperJobs \/ Notify
=============================================================================
