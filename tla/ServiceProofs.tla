---------------------------- MODULE ServiceProofs ----------------------------
(***************************************************************************)
(* A Deckard process and the configuration service, which share no state:  *)
(* the safety of a shutdown, for any tasks, calls and sizes; and for any   *)
(* processes, requests and limits, a configuration is never negative, in   *)
(* the storage and in the local caches.                                    *)
(***************************************************************************)
EXTENDS Shutdown, QueueConfigurationService, TLAPS

-----------------------------------------------------------------------------
(* The process *)


(* The lock is held exactly while a task that takes it executes. *)
LockerHeld == locker <=> \E t \in Locked : Executing(t)

(* A task that is counted after the Wait on its group has returned is late. *)
LateAfterWait == \A t \in Task : Awaited(t) /\ Counted(t) => t \in late

(* Nothing runs before the server listens, and no call after GracefulStop. *)
IdleAtFirst == main \in Starting \ {"jobs", "notify"} => \A a \in Actor : at[a] = "idle"

NoCallLeft ==
    main \in {"critical", "cancel", "wait"} \/ Closing => \A h \in Handler : at[h] = "idle"

(* Both connections are open from the auditor's start to the first Close,  *)
(* and the storage's before that of the cache is made.                     *)
Connected ==
    /\ main \in {"auditor", "grpc", "jobs", "notify", "serve", "stop", "drain", "critical",
                 "cancel", "wait", "closeCache"} => storage = "open" /\ cache = "open"
    /\ main = "cache" => storage = "open"

TaskInvariant == LockerHeld /\ OneTaskAtATime /\ LateAfterWait

Inv == TypeOK /\ TaskInvariant /\ IdleAtFirst /\ NoCallLeft /\ Connected

(* A process that starts has no task running and nothing in the channel.   *)
LEMMA InitInv == Init => Inv
<1> SUFFICES ASSUME Init PROVE Inv
  OBVIOUS
<1>1. TypeOK
  <2>1. sender \in SenderPlaces
    BY AuditAssumption DEF Init, SenderPlaces
  <2>2. queued \in 0 .. Capacity /\ batch \in 0 .. MaxEntries - 1 /\ stored \in 0 .. MaxStored
    BY SizeAssumption DEF Init
  <2>3. at \in [Actor -> ActorPlaces] /\ main \in Places
    BY DEF Init, StartupInit, ActorPlaces, Places, Starting
  <2>4. locker \in BOOLEAN /\ late \subseteq Task /\ attempt \in Nat
    BY Zenon DEF Init, StartupInit
  <2>5. storage \in Connection /\ cache \in Connection
    BY DEF Init, StartupInit, Connection
  <2> QED BY <2>1, <2>2, <2>3, <2>4, <2>5 DEF TypeOK
<1>2. \A a \in Actor : at[a] = "idle"
  BY DEF Init
<1>3. ~locker /\ main = "trace"
  BY DEF Init, StartupInit
<1>4. TaskInvariant
  BY <1>2, <1>3, TaskAssumption
  DEF TaskInvariant, LockerHeld, OneTaskAtATime, LateAfterWait, Executing, Counted, Actor
<1>5. IdleAtFirst /\ NoCallLeft /\ Connected
  BY <1>2, <1>3 DEF IdleAtFirst, NoCallLeft, Connected, Actor
<1> QED BY <1>1, <1>4, <1>5 DEF Inv

(* While the process starts it gets from one place to the next with both   *)
(* connections, or it ends.                                                *)
LEMMA StartInv == Inv /\ (StartMain \/ KillMain) => Inv'
<1> SUFFICES ASSUME Inv, StartMain \/ KillMain PROVE Inv'
  OBVIOUS
<1>1. UNCHANGED <<at, locker, late, sender, queued, batch, stored>>
  BY DEF StartMain, KillMain, auditVars
<1>2. /\ main' \in Starting \cup {"serve", "panicked", "killed"}
      /\ main' \in Starting \ {"jobs", "notify"} => main \in Starting \ {"jobs", "notify"}
      /\ attempt' \in Nat /\ storage' \in Connection /\ cache' \in Connection
      /\ Connected'
  <2>1. CASE StartUp
    <3> USE <2>1
        DEF StartUp, InitTrace, StartStep, Panic, Closed, StorageConnects, StorageFails,
            StorageRefused, PingCache, CacheRefused, NewAuditor, StartGrpcServer,
            StartHouseKeeperJobs, Notify
    <3>1. /\ main' \in Starting \cup {"serve", "panicked"}
          /\ main' \in Starting \ {"jobs", "notify"} => main \in Starting \ {"jobs", "notify"}
      BY DEF Starting
    <3>2. attempt' \in Nat /\ storage' \in Connection /\ cache' \in Connection
      BY DEF Inv, TypeOK, Connection
    <3>3. Connected'
      BY DEF Inv, Connected
    <3> QED BY <3>1, <3>2, <3>3
  <2>2. CASE Kill
    BY <2>2 DEF Kill, Starting, Inv, TypeOK, Connected
  <2> QED BY <2>1, <2>2 DEF StartMain, KillMain
<1>3. TypeOK'
  BY <1>1, <1>2 DEF Inv, TypeOK, Places
<1>4. TaskInvariant'
  BY <1>1, <1>2
  DEF Inv, TaskInvariant, LockerHeld, OneTaskAtATime, LateAfterWait, Awaited, Closing,
      Executing, Counted, Starting
<1>5. IdleAtFirst' /\ NoCallLeft'
  BY <1>1, <1>2 DEF Inv, IdleAtFirst, NoCallLeft, Closing, Starting
<1> QED BY <1>2, <1>3, <1>4, <1>5 DEF Inv

(* The main goroutine moves on with tasks and calls unchanged, past each   *)
(* wait only when no task of its group is counted.                         *)
LEMMA MainInv == Inv /\ (Start \/ PerformShutdown) => Inv'
<1> SUFFICES ASSUME Inv, Start \/ PerformShutdown PROVE Inv'
  OBVIOUS
<1>1. /\ UNCHANGED <<attempt, at, locker, late, sender, queued, batch, stored>>
      /\ main' \in Places \ Starting
      /\ storage' \in Connection /\ cache' \in Connection
  BY DEF Inv, TypeOK, Start, PerformShutdown, GracefulStop, Drained, CriticalWait, Cancel,
         Wait, CloseCache, Exit, Closed, MainGoto, auditVars, Places, Starting, Connection
<1>2. TypeOK' /\ LockerHeld' /\ OneTaskAtATime' /\ IdleAtFirst'
  BY <1>1 DEF Inv, TypeOK, TaskInvariant, LockerHeld, OneTaskAtATime, IdleAtFirst, Executing
<1>3. LateAfterWait'
  <2>1. CASE CriticalWait
    BY <1>1, <2>1 DEF CriticalWait, MainGoto, LateAfterWait, Awaited, Closing, Counted
  <2>2. CASE Wait
    BY <1>1, <2>2 DEF Inv, TaskInvariant, Wait, MainGoto, LateAfterWait, Awaited, Closing, Counted
  <2>3. CASE Start \/ GracefulStop \/ Drained \/ Cancel \/ CloseCache \/ Exit
    BY <1>1, <2>3
    DEF Inv, TaskInvariant, Start, GracefulStop, Drained, Cancel, CloseCache, Exit, MainGoto,
        LateAfterWait, Awaited, Closing, Counted
  <2> QED BY <2>1, <2>2, <2>3 DEF PerformShutdown
<1>4. NoCallLeft'
  <2>1. CASE Drained
    BY <1>1, <2>1 DEF Drained, NoCallLeft
  <2>2. CASE Start \/ GracefulStop \/ CriticalWait \/ Cancel \/ Wait \/ CloseCache \/ Exit
    BY <1>1, <2>2
    DEF Inv, Start, GracefulStop, CriticalWait, Cancel, Wait, CloseCache, Exit, MainGoto,
        NoCallLeft, Closing
  <2> QED BY <2>1, <2>2 DEF PerformShutdown
<1>5. Connected'
  BY DEF Inv, Connected, Start, PerformShutdown, GracefulStop, Drained, CriticalWait, Cancel,
         Wait, CloseCache, Exit, MainGoto
<1> QED BY <1>2, <1>3, <1>4, <1>5 DEF Inv, TaskInvariant

(* A step of a scheduler keeps the lock with the task that executes, and   *)
(* one that is counted after the wait is noted as late.                    *)
LEMMA TaskInv ==
  ASSUME Inv, NEW t \in Task, Fire(t) \/ Schedule(t) \/ Stop(t)
  PROVE  Inv'
<1> USE TaskAssumption DEF Inv, Goto, Actor, TaskInvariant, startupVars
<1>1. TypeOK'
  BY Zenon DEF Fire, Schedule, Add, Lock, Unlock, Done, Stop, TypeOK, ActorPlaces, auditVars
<1>2. at \in [Actor -> ActorPlaces] /\ late \subseteq Task /\ locker \in BOOLEAN
  BY DEF TypeOK
<1>3. UNCHANGED startupVars
  BY DEF Fire, Schedule, Add, Lock, Unlock, Done, Stop
<1>4. LockerHeld' /\ OneTaskAtATime'
  <2>1. CASE Fire(t) \/ Add(t) \/ Done(t) \/ Stop(t)
    BY <1>2, <2>1 DEF Fire, Add, Done, Stop, LockerHeld, OneTaskAtATime, Executing
  <2>2. CASE Lock(t)
    BY <1>2, <2>2, Zenon DEF Lock, LockerHeld, OneTaskAtATime, Executing
  <2>3. CASE Unlock(t)
    BY <1>2, <2>3, Zenon DEF Unlock, LockerHeld, OneTaskAtATime, Executing
  <2> QED BY <2>1, <2>2, <2>3 DEF Schedule
<1>5. LateAfterWait'
  <2>1. CASE Add(t)
    BY <1>2, <1>3, <2>1 DEF Add, LateAfterWait, Awaited, Closing, Counted
  <2>2. CASE Fire(t) \/ Lock(t) \/ Unlock(t) \/ Done(t) \/ Stop(t)
    BY <1>2, <1>3, <2>2
    DEF Fire, Lock, Unlock, Done, Stop, LateAfterWait, Awaited, Closing, Counted
  <2> QED BY <2>1, <2>2 DEF Schedule
<1>6. IdleAtFirst'
  BY <1>2, <1>3
  DEF Fire, Schedule, Add, Lock, Unlock, Done, Stop, IdleAtFirst, Starting, Ongoing
<1>7. \A h \in Handler : at'[h] = at[h]
  BY <1>2, HandlerAssumption DEF Fire, Schedule, Add, Lock, Unlock, Done, Stop
<1>8. NoCallLeft' /\ Connected'
  BY <1>3, <1>7 DEF NoCallLeft, Connected, Closing
<1> QED BY <1>1, <1>4, <1>5, <1>6, <1>8

(* A gRPC call is no scheduled task: it takes no lock and no wait group,   *)
(* and starts only between Serve and GracefulStop.                         *)
LEMMA HandlerInv ==
  ASSUME Inv, NEW h \in Handler, Accept(h) \/ Answer(h)
  PROVE  Inv'
<1>1. TypeOK'
  BY DEF Inv, Goto, Actor, Accept, Answer, TypeOK, ActorPlaces, auditVars, startupVars
<1>2. \A t \in Task : at'[t] = at[t]
  BY HandlerAssumption DEF Inv, TypeOK, Goto, Actor, Accept, Answer
<1>3. UNCHANGED <<startupVars, locker, late>>
  BY DEF Accept, Answer, Goto
<1>4. TaskInvariant'
  BY <1>2, <1>3, TaskAssumption
  DEF Inv, startupVars, TaskInvariant, LockerHeld, OneTaskAtATime, LateAfterWait, Awaited,
      Closing, Executing, Counted
<1>5. IdleAtFirst' /\ NoCallLeft'
  <2>1. at \in [Actor -> ActorPlaces] /\ h \in Actor
    BY DEF Inv, TypeOK, Actor
  <2> QED
    BY <1>3, <2>1
    DEF Inv, startupVars, Goto, Accept, Answer, IdleAtFirst, NoCallLeft, Closing, Starting, Actor
<1>6. Connected'
  BY <1>3 DEF Inv, startupVars, Connected
<1> QED BY <1>1, <1>4, <1>5, <1>6 DEF Inv

(* Storing an audit entry keeps a task executing and counted, and the      *)
(* channel within its capacity.                                            *)
LEMMA StoreInv ==
  ASSUME Inv, NEW a \in Actor, Store(a) \/ StoreSends(a) \/ StorePanics(a)
  PROVE  Inv'
<1>1. TypeOK'
  BY SizeAssumption
  DEF Inv, Goto, Store, StoreSends, StorePanics, TypeOK, ActorPlaces, Places, auditVars, startupVars
<1>2. \A t \in Actor : (Executing(t)' <=> Executing(t)) /\ (Counted(t)' <=> Counted(t))
                       /\ (at'[t] = "idle" <=> at[t] = "idle")
  BY DEF Inv, TypeOK, Goto, Store, StoreSends, StorePanics, Executing, Counted
<1>3. UNCHANGED <<locker, late, storage, cache>> /\ (main' = main \/ main' = "panicked")
  BY DEF Store, StoreSends, StorePanics, Goto, startupVars
<1> QED
  BY <1>1, <1>2, <1>3, TaskAssumption
  DEF Inv, Actor, TaskInvariant, LockerHeld, OneTaskAtATime, LateAfterWait, Awaited, Closing,
      IdleAtFirst, NoCallLeft, Connected, Starting

(* The sender only moves entries: a batch that becomes full is sent.       *)
LEMMA SenderInv == Inv /\ (Deliver \/ SenderLife) => Inv'
<1> SUFFICES ASSUME Inv, Deliver \/ SenderLife PROVE Inv'
  OBVIOUS
<1>1. TypeOK'
  BY SizeAssumption
  DEF Inv, TypeOK, Deliver, SenderLife, Receive, Full, SendTimeout, StartSender,
      CloseEntries, SendRemaining, SenderPlaces, startupVars
<1>2. UNCHANGED <<main, storage, cache, at, locker, late>>
  BY DEF Deliver, SenderLife, Receive, SendTimeout, StartSender, CloseEntries, SendRemaining,
         startupVars
<1> QED
  BY <1>1, <1>2
  DEF Inv, TaskInvariant, LockerHeld, OneTaskAtATime, LateAfterWait, Awaited, Closing,
      IdleAtFirst, NoCallLeft, Connected, Executing, Counted

(* Every step keeps the invariant.                                         *)
LEMMA NextInv == Inv /\ [Next]_vars => Inv'
<1>1. Inv /\ UNCHANGED vars => Inv'
  BY DEF vars, startupVars, auditVars, Inv, TypeOK, TaskInvariant, LockerHeld, OneTaskAtATime,
         LateAfterWait, Awaited, Closing, IdleAtFirst, NoCallLeft, Connected, Executing, Counted
<1> QED BY <1>1, StartInv, MainInv, TaskInv, HandlerInv, StoreInv, SenderInv DEF Next

(* In every process the audit channel and batch keep to their sizes, while *)
(* the main goroutine is where the code can be.                            *)
THEOREM ProcessTypes == Spec => []TypeOK
<1> QED BY InitInv, NextInv, PTL DEF Spec, Inv

(* In every process, at all times, the tasks that take backgroundTaskLocker *)
(* (recovery, TTL, maximum elements) exclude each other.                   *)
THEOREM TasksExclude == Spec => []OneTaskAtATime
<1> QED BY InitInv, NextInv, PTL DEF Spec, Inv, TaskInvariant

(* The context is cancelled under no critical task that was counted when   *)
(* the shutdown waited for it.                                             *)
THEOREM CancelWaits == Spec => []CriticalBeforeCancel
<1>1. Inv => CriticalBeforeCancel
  BY TaskAssumption
  DEF Inv, TaskInvariant, LateAfterWait, Awaited, CriticalBeforeCancel, Cancelled
<1> QED BY <1>1, InitInv, NextInv, PTL DEF Spec

(* No task or call runs without both connections, from the first step of a *)
(* process to its last, but a task that escaped the Wait on its group.     *)
THEOREM ConnectionsOutlast == Spec => []ConnectedWhileRunning
<1>1. Inv => ConnectedWhileRunning
  <2> SUFFICES ASSUME Inv, Alive, NEW a \in Actor, Executing(a)
               PROVE  (storage = "open" /\ cache = "open") \/ a \in late
    BY DEF ConnectedWhileRunning
  <2>1. CASE Closing
    BY <2>1 DEF Inv, TaskInvariant, LateAfterWait, NoCallLeft, Awaited, Counted, Executing, Actor
  <2>2. CASE ~Closing
    BY <2>2 DEF Inv, TypeOK, Places, Starting, IdleAtFirst, Connected, Alive, Closing, Executing
  <2> QED BY <2>1, <2>2
<1> QED BY <1>1, InitInv, NextInv, PTL DEF Spec

(* The channel of audit entries is closed after the context is cancelled,  *)
(* and without an auditor no entry is stored.                              *)
Dead == main \in {"panicked", "killed"}

AuditClosed ==
    /\ AuditEnabled /\ EntriesClosed => Cancelled \/ Dead
    /\ \A a \in Actor : at[a] = "storing" => AuditEnabled
    /\ ClosedUnderUncounted

(* A process that has died, or dies in this step, leaves tasks, calls and  *)
(* the channel as they were.                                               *)
LEMMA DeadIsStill == [Next]_vars /\ Dead' => UNCHANGED <<at, late, sender>>
<1> SUFFICES ASSUME [Next]_vars, Dead' PROVE UNCHANGED <<at, late, sender>>
  OBVIOUS
<1> USE DEF Dead, auditVars
<1>1. CASE StartMain \/ KillMain \/ Start \/ PerformShutdown
  BY <1>1
  DEF StartMain, KillMain, Start, PerformShutdown, GracefulStop, Drained, CriticalWait, Cancel,
      Wait, CloseCache, Exit, MainGoto
<1>2. ASSUME NEW t \in Task, Fire(t) \/ Schedule(t) \/ Stop(t) PROVE FALSE
  BY <1>2 DEF Fire, Schedule, Add, Lock, Unlock, Done, Stop, Goto, Alive, startupVars
<1>3. ASSUME NEW h \in Handler, Accept(h) \/ Answer(h) PROVE FALSE
  BY <1>3 DEF Accept, Answer, Goto, Alive, startupVars
<1>4. ASSUME NEW a \in Actor, Store(a) \/ StoreSends(a) \/ StorePanics(a)
      PROVE  UNCHANGED <<at, late, sender>>
  BY <1>4 DEF Store, StoreSends, StorePanics, Goto, Alive, startupVars
<1>5. CASE Deliver \/ SenderLife
  BY <1>5
  DEF Deliver, SenderLife, Receive, SendTimeout, StartSender, CloseEntries, SendRemaining,
      Alive, startupVars
<1>6. CASE UNCHANGED vars
  BY <1>6 DEF vars
<1> QED BY <1>1, <1>2, <1>3, <1>4, <1>5, <1>6 DEF Next

(* The context is cancelled before the channel is closed, and stays so.    *)
LEMMA ClosedAfterCancel ==
  Inv /\ AuditClosed /\ [Next]_vars => (AuditEnabled /\ EntriesClosed => Cancelled \/ Dead)'
<1> SUFFICES ASSUME Inv, AuditClosed, [Next]_vars, AuditEnabled, EntriesClosed'
             PROVE  Cancelled' \/ Dead'
  OBVIOUS
<1> USE DEF AuditClosed, EntriesClosed, Cancelled, Closing, Dead, auditVars
<1>1. CASE StartMain
  BY <1>1
  DEF StartMain, StartUp, InitTrace, StartStep, Panic, StorageConnects, StorageFails,
      StorageRefused, PingCache, CacheRefused, NewAuditor, StartGrpcServer,
      StartHouseKeeperJobs, Notify
<1>2. CASE KillMain \/ Start \/ PerformShutdown
  BY <1>2
  DEF KillMain, Kill, Start, PerformShutdown, GracefulStop, Drained, CriticalWait, Cancel, Wait,
      CloseCache, Exit, MainGoto
<1>3. ASSUME NEW t \in Task, Fire(t) \/ Schedule(t) \/ Stop(t) PROVE Cancelled' \/ Dead'
  BY <1>3 DEF Fire, Schedule, Add, Lock, Unlock, Done, Stop, Goto, startupVars
<1>4. ASSUME NEW h \in Handler, Accept(h) \/ Answer(h) PROVE Cancelled' \/ Dead'
  BY <1>4 DEF Accept, Answer, Goto, startupVars
<1>5. ASSUME NEW a \in Actor, Store(a) \/ StoreSends(a) \/ StorePanics(a)
      PROVE  Cancelled' \/ Dead'
  BY <1>5 DEF Store, StoreSends, StorePanics, Goto, startupVars
<1>6. CASE Deliver \/ SenderLife
  BY <1>6
  DEF Deliver, SenderLife, Receive, SendTimeout, StartSender, CloseEntries, SendRemaining,
      startupVars
<1>7. CASE UNCHANGED vars
  BY <1>7 DEF vars, startupVars
<1> QED BY <1>1, <1>2, <1>3, <1>4, <1>5, <1>6, <1>7 DEF Next

(* Only an actor that was storing, or starts to, is storing.               *)
LEMMA StoringNeedsAuditor ==
  Inv /\ AuditClosed /\ [Next]_vars => (\A a \in Actor : at[a] = "storing" => AuditEnabled)'
<1> SUFFICES ASSUME Inv, AuditClosed, [Next]_vars, ~AuditEnabled,
                    NEW b \in Actor, at'[b] = "storing"
             PROVE  FALSE
  OBVIOUS
<1>1. at[b] # "storing" /\ at \in [Actor -> ActorPlaces]
  BY DEF AuditClosed, Inv, TypeOK
<1>2. CASE StartMain \/ KillMain \/ Start \/ PerformShutdown \/ UNCHANGED vars
  BY <1>1, <1>2
  DEF StartMain, KillMain, Start, PerformShutdown, GracefulStop, Drained, CriticalWait, Cancel,
      Wait, CloseCache, Exit, MainGoto, vars
<1>3. ASSUME NEW t \in Task, Fire(t) \/ Schedule(t) \/ Stop(t) PROVE FALSE
  BY <1>1, <1>3 DEF Fire, Schedule, Add, Lock, Unlock, Done, Stop, Goto
<1>4. ASSUME NEW h \in Handler, Accept(h) \/ Answer(h) PROVE FALSE
  BY <1>1, <1>4 DEF Accept, Answer, Goto
<1>5. ASSUME NEW a \in Actor, Store(a) \/ StoreSends(a) \/ StorePanics(a) PROVE FALSE
  BY <1>1, <1>5 DEF Store, StoreSends, StorePanics, Goto
<1>6. CASE Deliver \/ SenderLife
  BY <1>1, <1>6
  DEF Deliver, SenderLife, Receive, SendTimeout, StartSender, CloseEntries, SendRemaining
<1> QED BY <1>2, <1>3, <1>4, <1>5, <1>6 DEF Next

(* No gRPC call, and no critical task that the shutdown waited for, dies of *)
(* a send on the closed audit channel: GracefulStop and the critical wait  *)
(* come before the context is cancelled, and the channel is closed after.  *)
THEOREM CallsOutliveAudit == Spec => []ClosedUnderUncounted
<1>1. Init => AuditClosed
  BY DEF Init, AuditClosed, ClosedUnderUncounted, EntriesClosed
<1>2. Inv /\ AuditClosed /\ [Next]_vars => AuditClosed'
  <2> SUFFICES ASSUME Inv, AuditClosed, [Next]_vars PROVE ClosedUnderUncounted'
    BY ClosedAfterCancel, StoringNeedsAuditor DEF AuditClosed
  <2>1. CASE Dead'
    BY <2>1, DeadIsStill DEF AuditClosed, ClosedUnderUncounted, EntriesClosed
  <2>2. CASE ~Dead'
    <3> SUFFICES ASSUME NEW a \in Actor, EntriesClosed', at'[a] = "storing"
                 PROVE  a \in Task \ Critical \/ a \in late'
      BY DEF ClosedUnderUncounted
    <3>1. Inv' /\ Cancelled'
      BY <2>2, NextInv, ClosedAfterCancel, StoringNeedsAuditor
    <3>2. a \notin Handler
      BY <3>1 DEF Inv, NoCallLeft, Cancelled
    <3>3. a \in Critical => a \in late'
      BY <3>1, TaskAssumption
      DEF Inv, TaskInvariant, LateAfterWait, Awaited, Cancelled, Counted
    <3> QED BY <3>2, <3>3 DEF Actor
  <2> QED BY <2>1, <2>2
<1>3. AuditClosed => ClosedUnderUncounted
  BY DEF AuditClosed
<1> QED BY <1>1, <1>2, <1>3, InitInv, NextInv, PTL DEF Spec

-----------------------------------------------------------------------------
(* The configuration service *)

\* What a read is about to put into a local cache came from the storage.
ReadIsLimit == \A c \in Call : step[c] = "getCache" => value[c] \in Nat

ConfigurationInv == ConfigurationTypeOK /\ ReadIsLimit

\* A limit that is asked for becomes one that is stored.
LEMMA MaxElementsIsLimit == \A v \in Int : MaxElements(v) \in Nat
  BY DEF MaxElements

\* A request that ends.
LEMMA ReturnInv ==
  ASSUME ConfigurationInv, NEW c \in Call, Return(c)
  PROVE  /\ step' \in [Call -> Steps] /\ value' \in [Call -> Int]
         /\ node' \in [Call -> Node] /\ edits' \in 0..MaxEdits /\ alone' \in [Call -> BOOLEAN]
         /\ ReadIsLimit'
<1>1. /\ step' = [step EXCEPT ![c] = "idle"] /\ value' = [value EXCEPT ![c] = 0]
      /\ UNCHANGED <<node, edits, alone>>
  BY DEF Return, Continue
<1>2. step' \in [Call -> Steps] /\ value' \in [Call -> Int]
  BY <1>1 DEF ConfigurationInv, ConfigurationTypeOK, Steps
<1>3. ReadIsLimit'
  BY <1>1, <1>2 DEF ConfigurationInv, ConfigurationTypeOK, ReadIsLimit
<1> QED BY <1>1, <1>2, <1>3 DEF ConfigurationInv, ConfigurationTypeOK

\* A request that goes on, to anything but filling the local cache.
LEMMA ContinueInv ==
  ASSUME ConfigurationInv, NEW c \in Call, NEW s \in Steps \ {"getCache"}, NEW v \in Int,
         step' = [step EXCEPT ![c] = s], value' = [value EXCEPT ![c] = v]
  PROVE  step' \in [Call -> Steps] /\ value' \in [Call -> Int] /\ ReadIsLimit'
<1>1. step' \in [Call -> Steps] /\ value' \in [Call -> Int]
  BY DEF ConfigurationInv, ConfigurationTypeOK
<1>2. ReadIsLimit'
  BY <1>1 DEF ConfigurationInv, ConfigurationTypeOK, ReadIsLimit
<1> QED BY <1>1, <1>2

\* An edit: the value it asks for is compared, and stays with the request.
LEMMA EditInv ==
  ASSUME ConfigurationInv, NEW c \in Call, NEW n \in Node, NEW v \in Limits, Edit(c, n, v)
  PROVE  ConfigurationInv'
<1>1. v \in Int /\ MaxElements(v) \in Nat
  BY LimitsAssumption, MaxElementsIsLimit
<1>2. edits' \in 0..MaxEdits
  <2>1. edits \in 0..MaxEdits /\ edits < MaxEdits /\ edits' = edits + 1
    BY DEF Edit, ConfigurationInv, ConfigurationTypeOK
  <2> QED BY <2>1, LimitsAssumption
<1>3. /\ node' = [node EXCEPT ![c] = n] /\ alone' \in [Call -> BOOLEAN]
      /\ UNCHANGED <<limit, shown, local>>
  BY DEF Edit
<1>4. step' \in [Call -> Steps] /\ value' \in [Call -> Int] /\ ReadIsLimit'
  <2>1. CASE UNCHANGED <<step, value>>
    BY <2>1 DEF ConfigurationInv, ConfigurationTypeOK, ReadIsLimit
  <2>2. CASE \E s \in {"editStorage", "editStorageDrop"} :
               step' = [step EXCEPT ![c] = s] /\ value' = [value EXCEPT ![c] = v]
    BY <1>1, <2>2, ContinueInv, Zenon DEF Steps
  <2> QED BY <2>1, <2>2 DEF Edit
<1>5. answered' \in Nat \cup {None}
  BY <1>1 DEF Edit
<1> QED BY <1>2, <1>3, <1>4, <1>5, Zenon DEF ConfigurationInv, ConfigurationTypeOK

\* A request that starts a read, and every later call of a request.
LEMMA RequestInv ==
  ASSUME ConfigurationInv, NEW c \in Call,
         \/ \E n \in Node : Get(c, n)
         \/ Proceed(c) \/ StorageCallFails(c)
  PROVE  ConfigurationInv'
<1>1. MaxElements(value[c]) \in Nat /\ value[c] \in Int /\ node[c] \in Node
  BY MaxElementsIsLimit DEF ConfigurationInv, ConfigurationTypeOK
<1>2. ASSUME NEW n \in Node, Get(c, n) PROVE ConfigurationInv'
  <2>1. step' \in [Call -> Steps] /\ ReadIsLimit'
    BY <1>2 DEF Get, ConfigurationInv, ConfigurationTypeOK, ReadIsLimit, Steps
  <2> QED BY <1>2, <2>1 DEF Get, ConfigurationInv, ConfigurationTypeOK
<1>3. CASE EditStorage(c)
  BY <1>1, <1>3, ReturnInv DEF EditStorage, Succeed, ConfigurationInv, ConfigurationTypeOK
<1>4. CASE EditStorageDrop(c)
  <2>1. step' \in [Call -> Steps] /\ ReadIsLimit'
    BY <1>4 DEF EditStorageDrop, Continue, ConfigurationInv, ConfigurationTypeOK, ReadIsLimit, Steps
  <2> QED BY <1>1, <1>4, <2>1 DEF EditStorageDrop, Continue, ConfigurationInv, ConfigurationTypeOK
<1>5. CASE EditDrop(c)
  BY <1>1, <1>5, ReturnInv DEF EditDrop, Succeed, ConfigurationInv, ConfigurationTypeOK
<1>6. CASE GetStorage(c)
  <2>1. step' \in [Call -> Steps] /\ value' \in [Call -> Int] /\ ReadIsLimit'
    BY <1>6 DEF GetStorage, Continue, ConfigurationInv, ConfigurationTypeOK, ReadIsLimit, Steps
  <2> QED BY <1>6, <2>1 DEF GetStorage, Continue, ConfigurationInv, ConfigurationTypeOK
<1>7. CASE GetCache(c)
  <2>1. value[c] \in Nat
    BY <1>7 DEF GetCache, ConfigurationInv, ReadIsLimit
  <2> QED BY <1>1, <1>7, <2>1, ReturnInv DEF GetCache, ConfigurationInv, ConfigurationTypeOK
<1>8. CASE StorageCallFails(c)
  BY <1>1, <1>8, ReturnInv DEF StorageCallFails, ConfigurationInv, ConfigurationTypeOK
<1> QED BY <1>2, <1>3, <1>4, <1>5, <1>6, <1>7, <1>8 DEF Proceed

\* The configuration starts without a limit and with nothing in progress.
LEMMA ConfigurationInitInv == ConfigurationInit => ConfigurationInv
<1>1. ConfigurationInit => edits \in 0..MaxEdits
  BY LimitsAssumption DEF ConfigurationInit
<1> QED BY <1>1 DEF ConfigurationInit, ConfigurationInv, ConfigurationTypeOK, ReadIsLimit, Steps

\* Every step keeps limits in the storage, the caches and the reads.
LEMMA ConfigurationNextInv ==
  ConfigurationInv /\ [ConfigurationNext]_configurationVars => ConfigurationInv'
<1> SUFFICES ASSUME ConfigurationInv, [ConfigurationNext]_configurationVars
             PROVE  ConfigurationInv'
  OBVIOUS
<1>1. CASE UNCHANGED configurationVars
  BY <1>1 DEF ConfigurationInv, ConfigurationTypeOK, ReadIsLimit, configurationVars
<1>2. ASSUME NEW n \in Node, Expire(n) PROVE ConfigurationInv'
  BY <1>2 DEF Expire, ConfigurationInv, ConfigurationTypeOK, ReadIsLimit
<1>3. CASE Replicate
  BY <1>3 DEF Replicate, ConfigurationInv, ConfigurationTypeOK, ReadIsLimit
<1> QED BY <1>1, <1>2, <1>3, EditInv, RequestInv DEF ConfigurationNext

\* The negative max_elements that asks to remove a limit reaches neither the storage
\* nor a local cache, whichever requests race to write them.
THEOREM ConfigurationTypes == ConfigurationSpec => []ConfigurationTypeOK
<1>1. ConfigurationInv => ConfigurationTypeOK
  BY DEF ConfigurationInv
<1> QED BY <1>1, ConfigurationInitInv, ConfigurationNextInv, PTL DEF ConfigurationSpec

-----------------------------------------------------------------------------
(* Edits that no other edit overlaps with *)

Editing(c) == step[c] \in EditSteps

\* Such an edit is the only one in progress; once it has written the storage, its
\* value is the limit.  An answer is remembered only while no edit is in progress.
AloneInv ==
  /\ \A c, d \in Call : Editing(c) /\ alone[c] /\ Editing(d) => c = d
  /\ \A c \in Call : step[c] = "editDrop" /\ alone[c] => limit = MaxElements(value[c])
  /\ answered # None => \A c \in Call : ~Editing(c)

\* What a step of a request does to the edits in progress: it leaves the other
\* requests alone, does not start an edit, and may end one.
LEMMA StepOfRequest ==
  ASSUME ConfigurationInv, NEW c \in Call, Proceed(c) \/ StorageCallFails(c)
  PROVE  /\ \A d \in Call \ {c} : step'[d] = step[d] /\ value'[d] = value[d]
         /\ alone' = alone
         /\ Editing(c)' => Editing(c)
BY DEF ConfigurationInv, ConfigurationTypeOK, Proceed, EditStorage, EditStorageDrop, EditDrop,
       GetStorage, GetCache, StorageCallFails, Succeed, Return, Continue, Editing, EditSteps

\* An edit that starts is alone if none is in progress, and makes every other one
\* overlapped; one that its local cache answers does not get in progress.
LEMMA EditAlone ==
  ASSUME ConfigurationInv, AloneInv, NEW c \in Call, NEW n \in Node, NEW v \in Limits,
         Edit(c, n, v)
  PROVE  AloneInv'
<1>1. /\ \A d \in Call : alone'[d] <=> d = c /\ \A e \in Call : ~Editing(e)
      /\ limit' = limit /\ step[c] = "idle"
      /\ \A d \in Call \ {c} : step'[d] = step[d]
  BY DEF Edit, Editing, ConfigurationInv, ConfigurationTypeOK
<1>2. step'[c] # "editDrop"
  BY DEF Edit, ConfigurationInv, ConfigurationTypeOK
<1>3. answered' # None => step' = step /\ \A e \in Call : ~Editing(e)
  BY DEF Edit, Editing
<1> QED BY <1>1, <1>2, <1>3 DEF AloneInv, Editing, EditSteps

\* A request that goes on writes the storage only for an edit in progress.
LEMMA ProceedAlone ==
  ASSUME ConfigurationInv, AloneInv, NEW c \in Call, Proceed(c) \/ StorageCallFails(c)
  PROVE  AloneInv'
<1>1. /\ \A d \in Call \ {c} : step'[d] = step[d] /\ value'[d] = value[d]
      /\ alone' = alone
      /\ Editing(c)' => Editing(c)
  BY StepOfRequest
<1>2. \A d, e \in Call : Editing(d)' /\ alone'[d] /\ Editing(e)' => d = e
  BY <1>1 DEF AloneInv, Editing
<1>3. ASSUME NEW d \in Call, step'[d] = "editDrop", alone'[d]
      PROVE  limit' = MaxElements(value'[d])
  <2>1. CASE d = c
    <3>1. EditStorageDrop(c)
      BY <1>3, <2>1
      DEF ConfigurationInv, ConfigurationTypeOK, Proceed, EditStorage, EditDrop, GetStorage,
          GetCache, StorageCallFails, Succeed, Return, Continue
    <3> QED BY <2>1, <3>1 DEF EditStorageDrop
  <2>2. CASE d # c
    <3>1. ~Editing(c)
      BY <1>1, <1>3, <2>2 DEF AloneInv, Editing, EditSteps
    <3>2. limit' = limit
      BY <3>1
      DEF Proceed, EditStorage, EditStorageDrop, EditDrop, GetStorage, GetCache,
          StorageCallFails, Editing, EditSteps
    <3> QED BY <1>1, <1>3, <2>2, <3>2 DEF AloneInv
  <2> QED BY <2>1, <2>2
<1>4. ASSUME answered' # None, NEW d \in Call PROVE ~Editing(d)'
  <2>1. CASE answered' = answered
    BY <1>1, <1>4, <2>1 DEF AloneInv, Editing
  <2>2. CASE answered' # answered
    <3>1. Editing(c) /\ alone[c] /\ step'[c] = "idle"
      BY <1>4, <2>2
      DEF ConfigurationInv, ConfigurationTypeOK, Proceed, EditStorage, EditStorageDrop,
          EditDrop, GetStorage, GetCache, StorageCallFails, Succeed, Return, Continue,
          Editing, EditSteps
    <3> QED BY <1>1, <3>1 DEF AloneInv, Editing, EditSteps
  <2> QED BY <2>1, <2>2
<1> QED BY <1>2, <1>3, <1>4 DEF AloneInv

\* Every step keeps edits alone.
LEMMA NextAlone ==
  ConfigurationInv /\ AloneInv /\ [ConfigurationNext]_configurationVars => AloneInv'
<1> SUFFICES ASSUME ConfigurationInv, AloneInv, [ConfigurationNext]_configurationVars
             PROVE  AloneInv'
  OBVIOUS
<1>1. CASE UNCHANGED configurationVars
  BY <1>1 DEF AloneInv, Editing, configurationVars
<1>2. ASSUME NEW c \in Call, NEW n \in Node, Get(c, n) PROVE AloneInv'
  BY <1>2 DEF Get, AloneInv, Editing, EditSteps, ConfigurationInv, ConfigurationTypeOK
<1>3. ASSUME NEW n \in Node, Expire(n) PROVE AloneInv'
  BY <1>3 DEF Expire, AloneInv, Editing
<1>4. CASE Replicate
  BY <1>4 DEF Replicate, AloneInv, Editing
<1> QED BY <1>1, <1>2, <1>3, <1>4, EditAlone, ProceedAlone DEF ConfigurationNext

\* For any processes, requests and limits, an edit that is answered with success and
\* that no other overlaps with has taken effect, unless the local cache of its
\* process had an outdated entry with the very value it asked for.
THEOREM EditsLostToStaleEntries == ConfigurationSpec => LostOnlyToStaleEntry
<1>1. ConfigurationInit => AloneInv
  BY DEF ConfigurationInit, AloneInv, Editing, EditSteps
<1>2. ConfigurationInv /\ AloneInv /\ [ConfigurationNext]_configurationVars
        => [answered' # None /\ limit' # answered'
              => UNCHANGED <<answered, limit>>
                   \/ \E n \in Node : local[n] = answered']_configurationVars
  <2> SUFFICES ASSUME ConfigurationInv, AloneInv, ConfigurationNext,
                      answered' # None, limit' # answered', ~UNCHANGED <<answered, limit>>
               PROVE  \E n \in Node : local[n] = answered'
    OBVIOUS
  <2>1. ASSUME NEW c \in Call, NEW n \in Node, NEW v \in Limits, Edit(c, n, v)
        PROVE  local[n] = answered'
    <3>1. InCache(n, v) /\ answered' = MaxElements(v)
      BY <2>1 DEF Edit
    <3>2. v \in Nat
      BY <3>1, NoneAssumption, LimitsAssumption DEF InCache, ConfigurationInv, ConfigurationTypeOK
    <3> QED BY <3>1, <3>2 DEF InCache, MaxElements
  <2>2. ASSUME NEW c \in Call, Proceed(c) \/ StorageCallFails(c) PROVE FALSE
    <3>1. CASE EditStorage(c)
      BY <3>1 DEF EditStorage, Succeed
    <3>2. CASE EditDrop(c)
      BY <3>2 DEF EditDrop, Succeed, AloneInv
    <3>3. CASE EditStorageDrop(c)
      BY <3>3 DEF EditStorageDrop, AloneInv, Editing, EditSteps
    <3>4. CASE GetStorage(c) \/ GetCache(c) \/ StorageCallFails(c)
      BY <3>4 DEF GetStorage, GetCache, StorageCallFails
    <3> QED BY <2>2, <3>1, <3>2, <3>3, <3>4 DEF Proceed
  <2>3. ASSUME NEW c \in Call, NEW n \in Node, Get(c, n) PROVE FALSE
    BY <2>3 DEF Get
  <2>4. CASE Replicate
    BY <2>4 DEF Replicate
  <2>5. ASSUME NEW n \in Node, Expire(n) PROVE FALSE
    BY <2>5 DEF Expire
  <2> QED BY <2>1, <2>2, <2>3, <2>4, <2>5 DEF ConfigurationNext
<1> QED
  BY <1>1, <1>2, ConfigurationInitInv, ConfigurationNextInv, NextAlone, PTL
  DEF ConfigurationSpec, LostOnlyToStaleEntry
=============================================================================
