------------------------------ MODULE Shutdown ------------------------------
(***************************************************************************)
(* One Deckard process from its start to its exit: the main goroutine that *)
(* starts everything, waits for a signal and performs the graceful         *)
(* shutdown, the housekeeper's schedulers, the gRPC handlers, and the      *)
(* audit sender with its channel.                                          *)
(*                                                                         *)
(* What a task or a handler does to messages is modelled elsewhere; here   *)
(* only the audit entries it stores count, because sending one may block   *)
(* on a full channel and panics on a closed one.  A panic in any goroutine *)
(* ends the process.                                                       *)
(***************************************************************************)
EXTENDS Startup

CONSTANTS Task,         \* the scheduled tasks
          Locked,       \* the tasks that take backgroundTaskLocker
          Critical,     \* the tasks counted by CriticalWaitGroup
          Handler,      \* gRPC calls that may be served at a time
          AuditEnabled, \* config.AuditEnabled
          Capacity,     \* room in the channel of entries
          MaxEntries,   \* maxEntriesSize, the size of a full batch
          MaxStored     \* bound: entries stored in a behaviour

ASSUME TaskAssumption == Locked \subseteq Task /\ Critical \subseteq Task
ASSUME HandlerAssumption == Task \cap Handler = {}
ASSUME AuditAssumption == AuditEnabled \in BOOLEAN
ASSUME SizeAssumption ==
    Capacity \in Nat \ {0} /\ MaxEntries \in Nat \ {0} /\ MaxStored \in Nat

VARIABLES at,      \* where each scheduler and each gRPC call is
          locker,  \* is backgroundTaskLocker held?
          late,    \* tasks counted only after their wait group's Wait returned
          sender,  \* where the audit sender is
          queued,  \* entries in the channel
          batch,   \* entries in entriesToSend
          stored   \* entries stored so far

vars == <<startupVars, at, locker, late, sender, queued, batch, stored>>
auditVars == <<sender, queued, batch, stored>>

(* "serve" until the signal; "stop" once Started is closed; "drain" in     *)
(* GracefulStop; "critical" in CriticalWaitGroup.Wait; "cancel" before,    *)
(* and "wait" after, the context is cancelled; "closeCache" once Finished  *)
(* is closed, and "closeStorage", while main's deferred calls run.         *)
Places == Starting \cup
          {"serve", "stop", "drain", "critical", "cancel", "wait", "closeCache",
           "closeStorage", "exited", "panicked", "killed"}

(* A scheduler waits in its select ("idle"), has chosen the timer's case,  *)
(* has done Add(1), runs its task, is in Store, has released the lock.  A  *)
(* gRPC call is only ever "idle", "running" or "storing".                  *)
Actor == Task \cup Handler

ActorPlaces ==
    {"idle", "fired", "added", "running", "storing", "unlocked", "stopped"}

SenderPlaces == {"new", "running", "closed", "returned"}

Init ==
    /\ StartupInit
    /\ at = [a \in Actor |-> "idle"]
    /\ locker = FALSE
    /\ late = {}
    /\ sender = IF AuditEnabled THEN "new" ELSE "returned"
    /\ queued = 0
    /\ batch = 0
    /\ stored = 0

Alive == main \notin {"exited", "panicked", "killed"}

(* shutdown.Ongoing: the channel Started is closed. *)
Ongoing ==
    main \in {"stop", "drain", "critical", "cancel", "wait", "closeCache", "closeStorage",
              "exited"}

Closing == main \in {"closeCache", "closeStorage", "exited"}

Cancelled == main = "wait" \/ Closing

(* Has the Wait on the wait group of task t returned? *)
Awaited(t) == Closing \/ (t \in Critical /\ main \in {"cancel", "wait"})

(* The tasks a wait group counts: between Add(1) and Done(). *)
Counted(t) == at[t] \in {"added", "running", "storing", "unlocked"}

Executing(t) == at[t] \in {"running", "storing"}

-----------------------------------------------------------------------------
(* The main goroutine. *)

StartMain ==
    /\ StartUp
    /\ UNCHANGED <<at, locker, late, auditVars>>

KillMain ==
    /\ Kill
    /\ UNCHANGED <<at, locker, late, auditVars>>

MainGoto(from, to) ==
    /\ main = from
    /\ main' = to
    /\ UNCHANGED <<attempt, storage, cache, at, locker, late, auditVars>>

Start == MainGoto("serve", "stop")

GracefulStop == MainGoto("stop", "drain")

SlipDrained == MainGoto("drain", "critical")

(* GracefulStop returns when no call is being served. *)
Drained ==
    /\ \A h \in Handler : at[h] = "idle"
    /\ MainGoto("drain", "critical")

SlipCriticalWait == MainGoto("critical", "cancel")

CriticalWait ==
    /\ \A t \in Critical : ~Counted(t)
    /\ MainGoto("critical", "cancel")

Cancel == MainGoto("cancel", "wait")

SlipWait ==
    /\ sender \in {"new", "returned"}
    /\ MainGoto("wait", "closeCache")

Wait ==
    /\ \A t \in Task \ Critical : ~Counted(t)
    /\ sender \in {"new", "returned"}
    /\ MainGoto("wait", "closeCache")

CloseCache ==
    /\ main = "closeCache"
    /\ main' = "closeStorage"
    /\ cache' = Closed(cache)
    /\ UNCHANGED <<attempt, storage, at, locker, late, auditVars>>

Exit ==
    /\ main = "closeStorage"
    /\ main' = "exited"
    /\ storage' = Closed(storage)
    /\ UNCHANGED <<attempt, cache, at, locker, late, auditVars>>

-----------------------------------------------------------------------------
(* scheduleTask *)

Goto(a, from, to) ==
    /\ Alive
    /\ at[a] = from
    /\ at' = [at EXCEPT ![a] = to]
    /\ UNCHANGED startupVars

(* The timer's case of the select is chosen; Started may be closed too. *)
Fire(t) ==
    /\ main \notin Starting \ {"notify"}
    /\ Goto(t, "idle", "fired")
    /\ UNCHANGED <<locker, late, auditVars>>

Add(t) ==
    /\ Goto(t, "fired", "added")
    /\ late' = IF Awaited(t) THEN late \cup {t} ELSE late
    /\ UNCHANGED <<locker, auditVars>>

SlipLock(t) ==
    /\ Goto(t, "added", "running")
    /\ locker' = (locker \/ t \in Locked)
    /\ UNCHANGED <<late, auditVars>>

Lock(t) ==
    /\ t \in Locked => ~locker
    /\ Goto(t, "added", "running")
    /\ locker' = (locker \/ t \in Locked)
    /\ UNCHANGED <<late, auditVars>>

SlipUnlock(t) ==
    /\ Goto(t, "running", "unlocked")
    /\ UNCHANGED <<locker, late, auditVars>>

(* executeTask returns and the lock, if any, is released. *)
Unlock(t) ==
    /\ Goto(t, "running", "unlocked")
    /\ locker' = (locker /\ t \notin Locked)
    /\ UNCHANGED <<late, auditVars>>

Done(t) ==
    /\ Goto(t, "unlocked", "idle")
    /\ late' = late \ {t}
    /\ UNCHANGED <<locker, auditVars>>

Stop(t) ==
    /\ Ongoing
    /\ Goto(t, "idle", "stopped")
    /\ UNCHANGED <<locker, late, auditVars>>

-----------------------------------------------------------------------------
(* gRPC: calls are accepted from Serve to GracefulStop. *)

Accept(h) ==
    /\ main \in {"jobs", "notify", "serve", "stop"}
    /\ Goto(h, "idle", "running")
    /\ UNCHANGED <<locker, late, auditVars>>

Answer(h) ==
    /\ Goto(h, "running", "idle")
    /\ UNCHANGED <<locker, late, auditVars>>

-----------------------------------------------------------------------------
(* The auditor. *)

Store(a) ==
    /\ AuditEnabled
    /\ stored < MaxStored
    /\ Goto(a, "running", "storing")
    /\ stored' = stored + 1
    /\ UNCHANGED <<locker, late, sender, queued, batch>>

EntriesClosed == sender \in {"closed", "returned"}

(* The send waits while the channel is full. *)
StoreSends(a) ==
    /\ ~EntriesClosed
    /\ queued < Capacity
    /\ Goto(a, "storing", "running")
    /\ queued' = queued + 1
    /\ UNCHANGED <<locker, late, sender, batch, stored>>

(* A send on a closed channel, whether it was waiting or not. *)
StorePanics(a) ==
    /\ Alive
    /\ EntriesClosed
    /\ at[a] = "storing"
    /\ main' = "panicked"
    /\ UNCHANGED <<attempt, storage, cache, at, locker, late, auditVars>>

(* The goroutine is started with the auditor, and may be slow to run. *)
StartSender ==
    /\ Alive
    /\ main \notin Starting \ {"grpc", "jobs", "notify"}
    /\ sender = "new"
    /\ sender' = "running"
    /\ UNCHANGED <<startupVars, at, locker, late, queued, batch, stored>>

SlipFull(n) == n > MaxEntries

Full(n) == n = MaxEntries

(* An entry is received; a full batch is sent before the next select.      *)
(* Entries of a failed request are dropped just the same.                  *)
Receive ==
    /\ Alive
    /\ sender = "running"
    /\ queued > 0
    /\ queued' = queued - 1
    /\ batch' = IF Full(batch + 1) THEN 0 ELSE batch + 1
    /\ UNCHANGED <<startupVars, at, locker, late, sender, stored>>

SlipSendTimeout ==
    /\ Alive
    /\ sender = "running"
    /\ batch > 1
    /\ batch' = 0
    /\ UNCHANGED <<startupVars, at, locker, late, sender, queued, stored>>

(* maxSendTime passes without an entry: a partial batch is sent. *)
SendTimeout ==
    /\ Alive
    /\ sender = "running"
    /\ batch > 0
    /\ batch' = 0
    /\ UNCHANGED <<startupVars, at, locker, late, sender, queued, stored>>

(* ctx.Done: the channel is closed, with what it still holds. *)
CloseEntries ==
    /\ Alive /\ Cancelled
    /\ sender = "running"
    /\ sender' = "closed"
    /\ UNCHANGED <<startupVars, at, locker, late, queued, batch, stored>>

SendRemaining ==
    /\ Alive
    /\ sender = "closed"
    /\ sender' = "returned"
    /\ batch' = 0
    /\ UNCHANGED <<startupVars, at, locker, late, queued, stored>>

-----------------------------------------------------------------------------
PerformShutdown ==
    GracefulStop \/ Drained \/ CriticalWait \/ Cancel \/ Wait \/ CloseCache \/ Exit

Schedule(t) == Add(t) \/ Lock(t) \/ Unlock(t) \/ Done(t)

Deliver == Receive \/ SendTimeout

SenderLife == StartSender \/ CloseEntries \/ SendRemaining

Next ==
    \/ StartMain \/ KillMain \/ Start \/ PerformShutdown
    \/ \E t \in Task : Fire(t) \/ Schedule(t) \/ Stop(t)
    \/ \E h \in Handler : Accept(h) \/ Answer(h)
    \/ \E a \in Actor : Store(a) \/ StoreSends(a) \/ StorePanics(a)
    \/ Deliver \/ SenderLife

Spec == Init /\ [][Next]_vars

(* Goroutines are scheduled; pings, which time out, tasks and requests to  *)
(* ElasticSearch end; select picks among its ready cases at random, so a   *)
(* scheduler that keeps finding Started closed stops.  Nothing makes a     *)
(* timer fire, a client call or an entry be stored, nor a call end: the    *)
(* streams of the health and the reflection services end with their client. *)
FairSpec ==
    /\ Spec
    /\ WF_vars(StartMain) /\ WF_vars(PerformShutdown)
    /\ \A t \in Task : /\ WF_vars(Schedule(t) \/ StoreSends(t) \/ StorePanics(t))
                       /\ SF_vars(Stop(t))
    /\ \A h \in Handler : WF_vars(StoreSends(h) \/ StorePanics(h))
    /\ WF_vars(Deliver) /\ WF_vars(SenderLife)

-----------------------------------------------------------------------------
(* The types; a batch never reaches its full size between two selects and  *)
(* the channel never holds more than its capacity.                         *)
TypeOK ==
    /\ main \in Places
    /\ attempt \in Nat
    /\ storage \in Connection /\ cache \in Connection
    /\ at \in [Actor -> ActorPlaces]
    /\ locker \in BOOLEAN
    /\ late \subseteq Task
    /\ sender \in SenderPlaces
    /\ queued \in 0 .. Capacity
    /\ batch \in 0 .. MaxEntries - 1
    /\ stored \in 0 .. MaxStored

(* "Locker to execute only one task simultaneously": of the tasks that     *)
(* take backgroundTaskLocker, recovery, TTL and maximum elements, no two   *)
(* run at once, before or during a shutdown.                               *)
OneTaskAtATime == \A t, u \in Locked : Executing(t) /\ Executing(u) => t = u

(* The context is not cancelled under a critical task (recovery) that was  *)
(* counted when CriticalWaitGroup.Wait was reached: one that runs with a   *)
(* cancelled context had its timer chosen, but its Add(1) still to come,   *)
(* when Wait returned.                                                     *)
CriticalBeforeCancel ==
    Cancelled => \A t \in Critical : Counted(t) => t \in late

(* Tasks and calls find the connections they use: nothing runs before both *)
(* are made, or after one is closed, but a task whose timer was chosen, and *)
(* whose Add(1) was still to come, when the Wait on its group returned.    *)
ConnectedWhileRunning ==
    \A a \in Actor :
        Alive /\ Executing(a) => (storage = "open" /\ cache = "open") \/ a \in late

(* The order of a shutdown protects the calls and the critical tasks from  *)
(* the audit sender, which closes its channel once the context is          *)
(* cancelled: a send on the closed channel, which panics, is that of a     *)
(* task of the other group, or of a critical one that was late.            *)
ClosedUnderUncounted ==
    \A a \in Actor :
        EntriesClosed /\ at[a] = "storing" => a \in Task \ Critical \/ a \in late

(* A start ends, whatever the servers answer to the pings and however      *)
(* often: the process serves, or is gone.                                  *)
StartupEnds == <>(main \notin Starting)

(* A call never ends, and GracefulStop waits for it.                       *)
NeverDrained == \E h \in Handler : <>[](main = "drain" /\ Executing(h))

(* A shutdown hangs only on a call that its client never ends: otherwise,  *)
(* once Started is closed, the process exits or a goroutine panics,        *)
(* although tasks wait for each other's lock, tasks and calls for room in  *)
(* the audit channel, and the shutdown for all of them.                    *)
ShutdownEnds == NeverDrained \/ (Ongoing ~> ~Alive)

(* An entry that reached the channel does not wait for ever for its batch  *)
(* to fill: unless the context is cancelled it is sent (or the request     *)
(* fails and it is dropped).                                               *)
AuditIsSent == (queued + batch > 0) ~> (queued + batch = 0 \/ ~Alive \/ Cancelled)

(* "Shutdown will wait for this wait group to be done after canceling the  *)
(* context" and then close Finished: a shutdown that starts, and whose     *)
(* calls end, finishes.                                                    *)
ShutdownFinishes == NeverDrained \/ (Ongoing ~> Closing)
=============================================================================
