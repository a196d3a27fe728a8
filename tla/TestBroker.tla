------------------------------- MODULE TestBroker -------------------------------
(***************************************************************************)
(* The life of TestBroker handles (src/src/validation/broker.rs) and of    *)
(* the rumqttd processes behind them, in one file system.  Every handle is *)
(* started by a task of its own; between any two system calls the other    *)
(* tasks and the processes run.  A process is named by the task that       *)
(* spawned it.  What rumqttd does with its configuration is external.      *)
(***************************************************************************)
EXTENDS Naturals, FiniteSets

CONSTANTS
    Tasks,            \* each calls TestBroker::start once
    SocketPaths,      \* Unix transports
    Ports,            \* TCP transports
    TransportOf,      \* the transport in the configuration of each task
    StartsOverlap,    \* FALSE: callers start one broker after the other
    TimeoutSuffices,  \* rumqttd has bound its transport within startup_timeout
    Nobody, NoTransport

Transports == SocketPaths \cup Ports

ASSUME TransportAssumption ==
    /\ SocketPaths \cap Ports = {}
    /\ TransportOf \in [Tasks -> Transports]
    /\ StartsOverlap \in BOOLEAN /\ TimeoutSuffices \in BOOLEAN
    /\ Nobody \notin Tasks /\ NoTransport \notin Transports

VARIABLES
    at,           \* where in start, stop or drop a task is
    config_file,  \* the transport in /tmp/rumqttd_test_config.toml
    bound,        \* the process that created the socket file or took the port
    process,      \* state of the process a task spawned
    listens_on    \* the transport its process found in the configuration

vars == <<at, config_file, bound, process, listens_on>>

\* Points inside start, up to the return of the handle, and after stop or drop.
Starting == {"checking", "removing", "truncated", "written", "sleeping"}
Ending == {"reaped", "cleaned", "dropping"}
Points == {"idle", "owned", "stopped", "failed", "cancelled"} \cup Starting \cup Ending

\* Among others: a task that waits for a process, or has a handle, has spawned one.
TypeOK ==
    /\ at \in [Tasks -> Points]
    /\ config_file \in Transports \cup {NoTransport}
    /\ bound \in [Transports -> Tasks \cup {Nobody}]
    /\ process \in [Tasks -> {"none", "spawned", "configured", "listening", "dead"}]
    /\ listens_on \in [Tasks -> Transports \cup {NoTransport}]
    /\ \A t \in Tasks : at[t] \in {"sleeping", "owned"} => process[t] # "none"

Init ==
    /\ at = [t \in Tasks |-> "idle"]
    /\ config_file = NoTransport
    /\ bound = [x \in Transports |-> Nobody]
    /\ process = [t \in Tasks |-> "none"]
    /\ listens_on = [t \in Tasks |-> NoTransport]

--------------------------------------------------------------------------------
Goto(t, point) == at' = [at EXCEPT ![t] = point]
Exists(x) == bound[x] # Nobody
IsUnix(t) == TransportOf[t] \in SocketPaths
Running(t) == process[t] \in {"spawned", "configured", "listening"}

\* Nobody else is starting, and no process of a cancelled start has yet to read
\* its configuration.  Handles may be alive, with the same transport too.
Alone(t) ==
    \A u \in Tasks \ {t} :
        /\ at[u] \notin Starting
        /\ at[u] = "cancelled" => process[u] # "spawned"

(* start *)

Start(t) ==
    /\ at[t] = "idle"
    /\ StartsOverlap \/ Alone(t)
    /\ Goto(t, "checking")
    /\ UNCHANGED <<config_file, bound, process, listens_on>>

\* A start that leaves an existing socket file where it is.
CheckSocketIgnored(t) ==
    /\ at[t] = "checking"
    /\ Goto(t, "truncated")
    /\ config_file' = NoTransport
    /\ UNCHANGED <<bound, process, listens_on>>

\* "if path.exists()", for a Unix socket.
CheckSocket(t) ==
    /\ at[t] = "checking"
    /\ \/ IsUnix(t) /\ Exists(TransportOf[t]) /\ Goto(t, "removing") /\ UNCHANGED config_file
       \/ ~(IsUnix(t) /\ Exists(TransportOf[t])) /\ Goto(t, "truncated") /\ config_file' = NoTransport
    /\ UNCHANGED <<bound, process, listens_on>>

\* remove_file, whose failure ends start; then fs::write truncates the file that
\* every broker of the machine is configured with.
RemoveSocket(t) ==
    /\ at[t] = "removing"
    /\ \/ /\ Exists(TransportOf[t])
          /\ bound' = [bound EXCEPT ![TransportOf[t]] = Nobody]
          /\ config_file' = NoTransport
          /\ Goto(t, "truncated")
       \/ ~Exists(TransportOf[t]) /\ Goto(t, "failed") /\ UNCHANGED <<bound, config_file>>
    /\ UNCHANGED <<process, listens_on>>

WriteConfig(t) ==
    /\ at[t] = "truncated"
    /\ config_file' = TransportOf[t]
    /\ Goto(t, "written")
    /\ UNCHANGED <<bound, process, listens_on>>

\* A spawn whose error goes unnoticed.
SpawnUnchecked(t) ==
    /\ at[t] = "written"
    /\ Goto(t, "sleeping")
    /\ process' \in {process, [process EXCEPT ![t] = "spawned"]}
    /\ UNCHANGED <<config_file, bound, listens_on>>

\* spawn fails when rumqttd is not installed.
Spawn(t) ==
    /\ at[t] = "written"
    /\ \/ Goto(t, "sleeping") /\ process' = [process EXCEPT ![t] = "spawned"]
       \/ Goto(t, "failed") /\ UNCHANGED process
    /\ UNCHANGED <<config_file, bound, listens_on>>

\* A start that does not sleep.
StartReturnsAtOnce(t) ==
    /\ at[t] = "sleeping"
    /\ Goto(t, "owned")
    /\ UNCHANGED <<config_file, bound, process, listens_on>>

\* The startup timeout is over: Ok, without a look at the process.
StartReturns(t) ==
    /\ at[t] = "sleeping"
    /\ TimeoutSuffices => process[t] \notin {"spawned", "configured"}
    /\ Goto(t, "owned")
    /\ UNCHANGED <<config_file, bound, process, listens_on>>

\* The future of start is dropped at its only await; dropping the Child does
\* not kill the process.
Cancel(t) ==
    /\ at[t] = "sleeping"
    /\ Goto(t, "cancelled")
    /\ UNCHANGED <<config_file, bound, process, listens_on>>

--------------------------------------------------------------------------------
(* stop, which ends with drop, and drop alone *)

\* kill and wait: the process is gone; its port is free, its socket file stays.
Killed(t) ==
    /\ process' = [process EXCEPT ![t] = "dead"]
    /\ bound' = [x \in Transports |->
                    IF x \in Ports /\ bound[x] = t THEN Nobody ELSE bound[x]]

\* A drop that leaves the process to itself.
DropWithoutKill(t) ==
    /\ at[t] \in {"owned", "cleaned"}
    /\ Goto(t, "dropping")
    /\ UNCHANGED <<config_file, bound, process, listens_on>>

Stop(t) ==
    /\ at[t] = "owned"
    /\ Killed(t)
    /\ Goto(t, "reaped")
    /\ UNCHANGED <<config_file, listens_on>>

\* Drop kills and reaps too; after a stop that has no effect.
Drop(t) ==
    /\ at[t] \in {"owned", "cleaned"}
    /\ Killed(t)
    /\ Goto(t, "dropping")
    /\ UNCHANGED <<config_file, listens_on>>

\* The socket file of the configuration, if it exists, whoever created it.
Clean(t) ==
    bound' = [x \in Transports |->
                 IF x = TransportOf[t] /\ IsUnix(t) THEN Nobody ELSE bound[x]]

\* A drop that leaves the clean-up to stop.
CleanUpInStop(t) ==
    /\ at[t] \in {"reaped", "dropping"}
    /\ IF at[t] = "reaped" THEN Clean(t) ELSE UNCHANGED bound
    /\ Goto(t, IF at[t] = "reaped" THEN "cleaned" ELSE "stopped")
    /\ UNCHANGED <<config_file, process, listens_on>>

\* The clean-up of stop, and then that of drop.
CleanUp(t) ==
    /\ at[t] \in {"reaped", "dropping"}
    /\ Clean(t)
    /\ Goto(t, IF at[t] = "reaped" THEN "cleaned" ELSE "stopped")
    /\ UNCHANGED <<config_file, process, listens_on>>

--------------------------------------------------------------------------------
(* rumqttd *)

\* It reads the configuration, some time after it was spawned; it ends when
\* there is none in the file.
ReadConfig(t) ==
    /\ process[t] = "spawned"
    /\ process' = [process EXCEPT ![t] = IF config_file = NoTransport THEN "dead" ELSE "configured"]
    /\ listens_on' = [listens_on EXCEPT ![t] = config_file]
    /\ UNCHANGED <<at, config_file, bound>>

\* It binds its transport, and ends when the file exists or the port is taken.
Bind(t) ==
    /\ process[t] = "configured"
    /\ \/ /\ ~Exists(listens_on[t])
          /\ bound' = [bound EXCEPT ![listens_on[t]] = t]
          /\ process' = [process EXCEPT ![t] = "listening"]
       \/ /\ Exists(listens_on[t])
          /\ process' = [process EXCEPT ![t] = "dead"]
          /\ UNCHANGED bound
    /\ UNCHANGED <<at, config_file, listens_on>>

Next ==
    \E t \in Tasks :
        \/ Start(t) \/ CheckSocket(t) \/ RemoveSocket(t) \/ WriteConfig(t) \/ Spawn(t)
        \/ StartReturns(t) \/ Cancel(t)
        \/ Stop(t) \/ Drop(t) \/ CleanUp(t)
        \/ ReadConfig(t) \/ Bind(t)

Spec == Init /\ [][Next]_vars

--------------------------------------------------------------------------------
(* Properties. *)

\* A process listens on the transport its task asked for, and on no other: the
\* brokers of different tests are apart (broker.rs:158-173: one file with a fixed
\* name configures them all).
ListensOnItsTransport ==
    \A t \in Tasks : process[t] = "listening" => listens_on[t] = TransportOf[t]

\* A handle that is gone leaves neither its process nor its socket file behind,
\* even when it went before the process had bound the socket (broker.rs:194-224).
StopLeavesNothing ==
    \A t \in Tasks : at[t] = "stopped" =>
        /\ ~Running(t)
        /\ \A x \in Transports : bound[x] # t

\* A process that runs belongs to a handle or to a start that goes on, unless its
\* start was cancelled (broker.rs:173).
OnlyCancelLeaks ==
    \A t \in Tasks : Running(t) => at[t] \in {"sleeping", "owned", "cancelled"}

\* What Ok of start means to its caller, although start does not look at the
\* process it spawned (broker.rs:172-175): for a Unix socket, the process of the
\* handle listens, on the path it was asked for, whatever brokers and stale socket
\* files were on that path before - unless the process of a cancelled start has it.
OkMeansListening ==
    \A t \in Tasks : at[t] = "owned" /\ IsUnix(t) =>
        \/ process[t] = "listening" /\ listens_on[t] = TransportOf[t]
        \/ \E u \in Tasks : at[u] = "cancelled" /\ TransportOf[u] = TransportOf[t]

\* "Unix sockets are automatically created and cleaned up when the broker stops"
\* (src/src/validation/README.md:137): the socket file of a listening broker is
\* there until its own stop or drop.
SocketStaysUntilStop ==
    \A t \in Tasks : at[t] = "owned" /\ IsUnix(t) /\ process[t] = "listening"
                           => Exists(TransportOf[t])
================================================================================
