--------------------------- MODULE TestBrokerProofs ---------------------------
(***************************************************************************)
(* Proofs about TestBroker, for any number of tasks, socket paths and      *)
(* ports.  What needs callers that start in turn is proved from            *)
(*     ~StartsOverlap /\ TimeoutSuffices.                                  *)
(***************************************************************************)
EXTENDS TestBroker, TLAPS

\* The process of a task at each point of its life, whatever other tasks do.
LifeInv ==
    \A t \in Tasks :
        /\ at[t] \in {"idle", "checking", "removing", "truncated", "written", "failed"}
               => process[t] = "none"
        /\ at[t] \in Ending \cup {"stopped"} => process[t] = "dead"

IInv == TypeOK /\ LifeInv

--------------------------------------------------------------------------------
LEMMA InitIInv == Init => IInv
<1> USE TransportAssumption
<1>1. Init => TypeOK
    BY DEF Init, TypeOK, Points, Starting, Ending
<1>2. Init => LifeInv
    BY DEF Init, LifeInv, Ending
<1>3. QED
    BY <1>1, <1>2 DEF IInv

LEMMA NextIInv == IInv /\ [Next]_vars => IInv'
<1> SUFFICES ASSUME IInv, [Next]_vars PROVE IInv'
    OBVIOUS
<1> USE TransportAssumption
        DEF IInv, TypeOK, LifeInv, Points, Starting, Ending, Goto, Transports
<1>1. ASSUME NEW t \in Tasks, Start(t) PROVE IInv'
    BY <1>1 DEF Start
<1>2. ASSUME NEW t \in Tasks, CheckSocket(t) PROVE IInv'
    BY <1>2 DEF CheckSocket
<1>3. ASSUME NEW t \in Tasks, RemoveSocket(t) PROVE IInv'
    BY <1>3 DEF RemoveSocket
<1>4. ASSUME NEW t \in Tasks, WriteConfig(t) PROVE IInv'
    BY <1>4 DEF WriteConfig
<1>5. ASSUME NEW t \in Tasks, Spawn(t) PROVE IInv'
    BY <1>5 DEF Spawn
<1>6. ASSUME NEW t \in Tasks, StartReturns(t) PROVE IInv'
    BY <1>6 DEF StartReturns
<1>7. ASSUME NEW t \in Tasks, Cancel(t) PROVE IInv'
    BY <1>7 DEF Cancel
<1>8. ASSUME NEW t \in Tasks, Stop(t) PROVE IInv'
    BY <1>8 DEF Stop, Killed
<1>9. ASSUME NEW t \in Tasks, Drop(t) PROVE IInv'
    BY <1>9 DEF Drop, Killed
<1>10. ASSUME NEW t \in Tasks, CleanUp(t) PROVE IInv'
    BY <1>10 DEF CleanUp, Clean
<1>11. ASSUME NEW t \in Tasks, ReadConfig(t) PROVE IInv'
    BY <1>11 DEF ReadConfig
<1>12. ASSUME NEW t \in Tasks, Bind(t) PROVE IInv'
    BY <1>12 DEF Bind, Exists
<1>13. CASE UNCHANGED vars
    BY <1>13 DEF vars
<1>14. QED
    BY <1>1, <1>2, <1>3, <1>4, <1>5, <1>6, <1>7, <1>8, <1>9, <1>10, <1>11, <1>12, <1>13
       DEF Next

LEMMA Life == Spec => []IInv
BY InitIInv, NextIInv, PTL DEF Spec

\* Every variable keeps its type, and a handle always holds a process that was
\* spawned, however starts and stops overlap (broker.rs:164-175).
THEOREM TypeCorrect == Spec => []TypeOK
<1>1. IInv => TypeOK
    BY DEF IInv
<1>2. QED
    BY Life, <1>1, PTL

\* A process without a handle comes from a cancelled start and from nothing else:
\* every other way to lose the handle kills it (broker.rs:194-200, 213-216).
THEOREM OnlyCancelledStartsLeak == Spec => []OnlyCancelLeaks
<1>1. IInv => OnlyCancelLeaks
    BY DEF IInv, TypeOK, LifeInv, OnlyCancelLeaks, Running, Points, Starting, Ending
<1>2. QED
    BY Life, <1>1, PTL

--------------------------------------------------------------------------------
(* Callers that start in turn. *)

InTurn == ~StartsOverlap /\ TimeoutSuffices

\* Only one task is inside start.
ExclusionInv ==
    \A t, u \in Tasks : at[t] \in Starting /\ at[u] \in Starting => t = u

\* From the write to the reading by the process the file holds the configuration
\* of the task, and nobody else gets into start.
ConfigInv ==
    \A t \in Tasks :
        /\ at[t] = "written" => config_file = TransportOf[t]
        /\ process[t] = "spawned" =>
               /\ at[t] \in {"sleeping", "cancelled"}
               /\ config_file = TransportOf[t]
               /\ \A u \in Tasks \ {t} : at[u] \notin Starting
        /\ process[t] = "configured" => at[t] \in {"sleeping", "cancelled"}
        /\ process[t] \in {"configured", "listening"} => listens_on[t] = TransportOf[t]

\* A process is bound to nothing but its own transport, as long as it is there:
\* its port until it dies, its socket file until its handle is gone.
BoundInv ==
    \A x \in Transports, t \in Tasks :
        bound[x] = t =>
            /\ x = TransportOf[t]
            /\ process[t] \in {"listening", "dead"}
            /\ process[t] = "dead" => x \in SocketPaths /\ at[t] # "stopped"

\* A cancelled start has left a process that may bind the path of the task.
Contested(t) == \E u \in Tasks : at[u] = "cancelled" /\ TransportOf[u] = TransportOf[t]

\* The path of the task is still to be bound by its process.
ToBeBound(t) ==
    \/ at[t] \in {"truncated", "written"}
    \/ at[t] = "sleeping" /\ process[t] \in {"spawned", "configured"}

\* From the removal of a stale socket to the bind by the process the path is free,
\* so that the process cannot end for want of it.
FreePathInv ==
    \A t \in Tasks : IsUnix(t) =>
        \/ Contested(t)
        \/ /\ ToBeBound(t) => ~Exists(TransportOf[t])
           /\ at[t] \in {"sleeping", "owned"} => process[t] # "dead"

\* The process of a handle had bound its transport when start returned.
OwnedInv ==
    \A t \in Tasks : at[t] = "owned" => process[t] \notin {"spawned", "configured"}

TurnInv == IInv /\ ExclusionInv /\ ConfigInv /\ BoundInv /\ FreePathInv /\ OwnedInv

--------------------------------------------------------------------------------
LEMMA InitTurnInv == Init => TurnInv
<1> SUFFICES ASSUME Init PROVE TurnInv
    OBVIOUS
<1>1. IInv
    BY InitIInv
<1>2. ExclusionInv /\ ConfigInv
    BY DEF Init, ExclusionInv, ConfigInv, Starting, Ending
<1>3. BoundInv /\ FreePathInv /\ OwnedInv
    BY TransportAssumption DEF Init, BoundInv, FreePathInv, ToBeBound, OwnedInv
<1>4. QED
    BY <1>1, <1>2, <1>3 DEF TurnInv

LEMMA ExclusionStep ==
    ASSUME InTurn, IInv, ExclusionInv, [Next]_vars
    PROVE  ExclusionInv'
<1> USE DEF IInv, TypeOK, ExclusionInv, Starting, Ending, Points, Goto
<1>1. ASSUME NEW t \in Tasks, Start(t) PROVE ExclusionInv'
    BY <1>1 DEF Start, Alone, InTurn
<1>2. ASSUME NEW t \in Tasks, CheckSocket(t) \/ RemoveSocket(t) \/ WriteConfig(t) \/ Spawn(t)
      PROVE  ExclusionInv'
    BY <1>2 DEF CheckSocket, RemoveSocket, WriteConfig, Spawn
<1>3. ASSUME NEW t \in Tasks, StartReturns(t) \/ Cancel(t) \/ Stop(t) \/ Drop(t) \/ CleanUp(t)
      PROVE  ExclusionInv'
    BY <1>3 DEF StartReturns, Cancel, Stop, Drop, CleanUp
<1>4. ASSUME NEW t \in Tasks, ReadConfig(t) \/ Bind(t) PROVE ExclusionInv'
    BY <1>4 DEF ReadConfig, Bind
<1>5. CASE UNCHANGED vars
    BY <1>5 DEF vars
<1>6. QED
    BY <1>1, <1>2, <1>3, <1>4, <1>5 DEF Next

LEMMA ConfigStep ==
    ASSUME InTurn, IInv, ExclusionInv, ConfigInv, [Next]_vars
    PROVE  ConfigInv'
<1> USE TransportAssumption
        DEF IInv, TypeOK, LifeInv, ExclusionInv, ConfigInv, Starting, Ending, Points, Goto
<1>1. ASSUME NEW t \in Tasks, Start(t) PROVE ConfigInv'
    BY <1>1 DEF Start, Alone, InTurn
<1>2. ASSUME NEW t \in Tasks, CheckSocket(t) PROVE ConfigInv'
    BY <1>2 DEF CheckSocket
<1>3. ASSUME NEW t \in Tasks, RemoveSocket(t) PROVE ConfigInv'
    BY <1>3 DEF RemoveSocket
<1>4. ASSUME NEW t \in Tasks, WriteConfig(t) PROVE ConfigInv'
    BY <1>4 DEF WriteConfig
<1>5. ASSUME NEW t \in Tasks, Spawn(t) PROVE ConfigInv'
    BY <1>5 DEF Spawn
<1>6. ASSUME NEW t \in Tasks, StartReturns(t) \/ Cancel(t) PROVE ConfigInv'
    BY <1>6 DEF StartReturns, Cancel, InTurn
<1>7. ASSUME NEW t \in Tasks, Stop(t) \/ Drop(t) PROVE ConfigInv'
    BY <1>7 DEF Stop, Drop, Killed
<1>8. ASSUME NEW t \in Tasks, CleanUp(t) PROVE ConfigInv'
    BY <1>8 DEF CleanUp
<1>9. ASSUME NEW t \in Tasks, ReadConfig(t) PROVE ConfigInv'
    BY <1>9 DEF ReadConfig
<1>10. ASSUME NEW t \in Tasks, Bind(t) PROVE ConfigInv'
    BY <1>10 DEF Bind
<1>11. CASE UNCHANGED vars
    BY <1>11 DEF vars
<1>12. QED
    BY <1>1, <1>2, <1>3, <1>4, <1>5, <1>6, <1>7, <1>8, <1>9, <1>10, <1>11 DEF Next

LEMMA BoundStep ==
    ASSUME IInv, ConfigInv, BoundInv, [Next]_vars
    PROVE  BoundInv'
<1> USE TransportAssumption
        DEF IInv, TypeOK, LifeInv, ConfigInv, BoundInv, Starting, Ending, Points, Goto, Transports
<1>1. ASSUME NEW t \in Tasks, Start(t) \/ CheckSocket(t) \/ WriteConfig(t) PROVE BoundInv'
    BY <1>1 DEF Start, CheckSocket, WriteConfig
<1>2. ASSUME NEW t \in Tasks, RemoveSocket(t) PROVE BoundInv'
    BY <1>2 DEF RemoveSocket
<1>3. ASSUME NEW t \in Tasks, Spawn(t) \/ StartReturns(t) \/ Cancel(t) PROVE BoundInv'
    BY <1>3 DEF Spawn, StartReturns, Cancel
<1>4. ASSUME NEW t \in Tasks, Stop(t) \/ Drop(t) PROVE BoundInv'
    BY <1>4 DEF Stop, Drop, Killed
<1>5. ASSUME NEW t \in Tasks, CleanUp(t) PROVE BoundInv'
    BY <1>5 DEF CleanUp, Clean, IsUnix
<1>6. ASSUME NEW t \in Tasks, ReadConfig(t) PROVE BoundInv'
    BY <1>6 DEF ReadConfig
<1>7. ASSUME NEW t \in Tasks, Bind(t) PROVE BoundInv'
    BY <1>7 DEF Bind, Exists
<1>8. CASE UNCHANGED vars
    BY <1>8 DEF vars
<1>9. QED
    BY <1>1, <1>2, <1>3, <1>4, <1>5, <1>6, <1>7, <1>8 DEF Next

\* Nobody else takes the path of a task that is starting, but the process of a
\* cancelled start.
LEMMA BindIsContested ==
    ASSUME IInv, ExclusionInv, ConfigInv,
           NEW t \in Tasks, at[t] \in Starting,
           NEW u \in Tasks, u # t, Bind(u), listens_on[u] = TransportOf[t]
    PROVE  Contested(t)
<1>1. process[u] = "configured"
    BY DEF Bind
<1>2. at[u] = "cancelled" /\ TransportOf[u] = TransportOf[t]
    BY <1>1 DEF ExclusionInv, ConfigInv, Starting
<1>3. QED
    BY <1>2 DEF Contested

LEMMA FreePathStep ==
    ASSUME InTurn, IInv, ExclusionInv, ConfigInv, FreePathInv, OwnedInv, [Next]_vars
    PROVE  FreePathInv'
<1> SUFFICES ASSUME NEW t \in Tasks, IsUnix(t), ~Contested(t)'
             PROVE  /\ ToBeBound(t)' => bound'[TransportOf[t]] = Nobody
                    /\ at'[t] \in {"sleeping", "owned"} => process'[t] # "dead"
    BY DEF FreePathInv, IsUnix, Exists
<1> USE TransportAssumption DEF IInv, TypeOK, LifeInv, ToBeBound, Goto, Points, Starting, Ending, Transports
<1>1. ~Contested(t)
    <2>1. ASSUME NEW u \in Tasks, at[u] = "cancelled" PROVE at'[u] = "cancelled"
        BY <2>1 DEF Next, vars, Start, CheckSocket, RemoveSocket, WriteConfig, Spawn, StartReturns,
               Cancel, Stop, Drop, CleanUp, ReadConfig, Bind
    <2>2. QED
        BY <2>1 DEF Contested
<1>2. /\ ToBeBound(t) => bound[TransportOf[t]] = Nobody
      /\ at[t] \in {"sleeping", "owned"} => process[t] # "dead"
    BY <1>1 DEF FreePathInv, Exists
<1> DEFINE Kept ==
        /\ ToBeBound(t)' => bound'[TransportOf[t]] = Nobody
        /\ at'[t] \in {"sleeping", "owned"} => process'[t] # "dead"
<1>3. ASSUME NEW u \in Tasks, Start(u) \/ WriteConfig(u) PROVE Kept
    BY <1>2, <1>3 DEF Start, WriteConfig
<1>4. ASSUME NEW u \in Tasks, CheckSocket(u) PROVE Kept
    BY <1>2, <1>4 DEF CheckSocket, Exists, IsUnix
<1>5. ASSUME NEW u \in Tasks, RemoveSocket(u) PROVE Kept
    BY <1>2, <1>5 DEF RemoveSocket
<1>6. ASSUME NEW u \in Tasks, Spawn(u) PROVE Kept
    <2>1. CASE u = t
        BY <1>2, <1>6, <2>1 DEF Spawn
    <2>2. CASE u # t
        BY <1>2, <1>6, <2>2 DEF Spawn
    <2>3. QED
        BY <2>1, <2>2
<1>7. ASSUME NEW u \in Tasks, StartReturns(u) \/ Cancel(u) PROVE Kept
    BY <1>2, <1>7 DEF StartReturns, Cancel
<1>8. ASSUME NEW u \in Tasks, Stop(u) \/ Drop(u) PROVE Kept
    BY <1>2, <1>8 DEF Stop, Drop, Killed
<1>9. ASSUME NEW u \in Tasks, CleanUp(u) PROVE Kept
    BY <1>2, <1>9 DEF CleanUp, Clean
<1>10. ASSUME NEW u \in Tasks, ReadConfig(u) PROVE Kept
    BY <1>2, <1>10 DEF ReadConfig, ConfigInv
<1>11. ASSUME NEW u \in Tasks, Bind(u) PROVE Kept
    <2>1. CASE u = t
        BY <1>2, <1>11, <2>1 DEF Bind, Exists, ConfigInv
    <2>2. CASE u # t /\ at[t] \in Starting
        <3>1. listens_on[u] # TransportOf[t]
            BY <1>1, <1>11, <2>2, BindIsContested
        <3>2. QED
            BY <1>2, <1>11, <2>2, <3>1 DEF Bind
    <2>3. CASE u # t /\ at[t] \notin Starting
        BY <1>2, <1>11, <2>3 DEF Bind
    <2>4. QED
        BY <2>1, <2>2, <2>3
<1>12. CASE UNCHANGED vars
    BY <1>2, <1>12 DEF vars
<1>13. QED
    BY <1>3, <1>4, <1>5, <1>6, <1>7, <1>8, <1>9, <1>10, <1>11, <1>12 DEF Next

LEMMA OwnedStep ==
    ASSUME InTurn, IInv, ConfigInv, OwnedInv, [Next]_vars
    PROVE  OwnedInv'
BY DEF InTurn, IInv, TypeOK, LifeInv, Points, Starting, Ending, ConfigInv, OwnedInv, Goto, Next, vars,
       Start, CheckSocket, RemoveSocket, WriteConfig, Spawn, StartReturns, Cancel, Stop, Drop, Killed,
       CleanUp, ReadConfig, Bind

LEMMA Turn == ASSUME InTurn PROVE Spec => []TurnInv
<1>1. TurnInv /\ [Next]_vars => TurnInv'
    BY NextIInv, ExclusionStep, ConfigStep, BoundStep, FreePathStep, OwnedStep DEF TurnInv
<1>2. QED
    BY InitTurnInv, <1>1, PTL DEF Spec

\* Callers that start in turn, and whose startup timeout gives rumqttd the time
\* to bind its transport, get brokers on the transports they asked for
\* although one file configures all of them (broker.rs:158-173).
THEOREM BrokersAreApart == ASSUME InTurn PROVE Spec => []ListensOnItsTransport
<1>1. TurnInv => ListensOnItsTransport
    BY DEF TurnInv, ConfigInv, ListensOnItsTransport
<1>2. QED
    BY Turn, <1>1, PTL

\* For the same callers, a handle that is gone leaves neither process nor socket
\* file nor port, at whatever point of its start the process was killed
\* (broker.rs:194-224).
THEOREM NothingIsLeft == ASSUME InTurn PROVE Spec => []StopLeavesNothing
<1>1. TurnInv => StopLeavesNothing
    BY DEF TurnInv, IInv, LifeInv, BoundInv, StopLeavesNothing, Running
<1>2. QED
    BY Turn, <1>1, PTL

\* For the same callers, Ok of start with a Unix socket means that the process of
\* the handle listens on its path, whatever was on that path before, unless a
\* cancelled start has left a process for it (broker.rs:119-121, 158-175).
THEOREM OkIsABroker == ASSUME InTurn PROVE Spec => []OkMeansListening
<1>1. TurnInv => OkMeansListening
    BY DEF TurnInv, IInv, TypeOK, ConfigInv, FreePathInv, OwnedInv, Contested, OkMeansListening
<1>2. QED
    BY Turn, <1>1, PTL
================================================================================
