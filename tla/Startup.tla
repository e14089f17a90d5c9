------------------------------ MODULE Startup ------------------------------
(***************************************************************************)
(* main: the flags, the connection to the driver's socket, the probe, the  *)
(* manager; and the informer on contents that SetupWithManager starts in a *)
(* goroutine of its own.  The process runs in a container that the kubelet *)
(* starts again whenever it exits.                                         *)
(***************************************************************************)
EXTENDS Naturals

CONSTANTS
    ArgChoices,   \* sets of flags that a manifest may pass
    Limits,       \* values of the flag timeout, 0 or not
    MaxChanges    \* bound: changes of driver and API server, and crashes

\* The flags declared before the first flag.Parse, and after it.
FirstFlags == {"csi-address", "worker-threads", "retry-interval-start",
               "retry-interval-max", "timeout", "kubeconfig"}
LateFlags == {"leader-elect", "zap"}

ASSUME StartupAssumption ==
    /\ ArgChoices \subseteq SUBSET (FirstFlags \cup LateFlags)
    /\ Limits \subseteq Nat
    /\ MaxChanges \in Nat

VARIABLES
    pc,        \* where main is
    dial,      \* the goroutine of Connect that dials
    name,      \* whether the driver has told its name
    informer,  \* the informer on contents
    driver,    \* the driver behind the socket
    server,    \* whether the API server answers
    args,      \* the flags on the command line
    limit,     \* the value of the flag timeout
    changes    \* changes that may still happen

local == <<pc, dial, name, informer>>
world == <<driver, server, args, limit, changes>>
vars == <<local, world>>

PCs == {"parse", "dial", "probe", "sleep", "manager", "start", "run", "exited"}

\* Every variable has its type, and a process that has exited has no
\* goroutines left.
TypeOK ==
    /\ pc \in PCs
    /\ dial \in {"none", "dialing", "open"}
    /\ name \in BOOLEAN
    /\ informer \in {"none", "starting", "listed"}
    /\ driver \in {"down", "hung", "refusing", "up"}
    /\ server \in BOOLEAN
    /\ args \in ArgChoices
    /\ limit \in Limits
    /\ changes \in 0..MaxChanges
    /\ pc = "exited" => dial = "none" /\ ~name /\ informer = "none"

Init ==
    /\ pc = "parse"
    /\ dial = "none"
    /\ name = FALSE
    /\ informer = "none"
    /\ driver \in {"down", "hung", "refusing", "up"}
    /\ server \in BOOLEAN
    /\ args \in ArgChoices
    /\ limit \in Limits
    /\ changes = MaxChanges

Goto(p) == pc' = p /\ UNCHANGED <<dial, name, informer, world>>

\* Slip: main returns to its caller and the goroutines go on.
ExitMain ==
    /\ pc' = "exited"
    /\ UNCHANGED <<dial, name, informer>>

\* The goroutines go with the process.
Exit ==
    /\ pc' = "exited"
    /\ dial' = "none"
    /\ name' = FALSE
    /\ informer' = "none"

-----------------------------------------------------------------------------
(* The command line and the connection.                                    *)

Rejects(given) == given \ FirstFlags # {}

\* The first Parse ends the process on a flag it does not know.
ParseFails ==
    /\ pc = "parse"
    /\ Rejects(args)
    /\ Exit
    /\ UNCHANGED world

Parse ==
    /\ pc = "parse"
    /\ ~Rejects(args)
    /\ pc' = "dial"
    /\ dial' = "dialing"
    /\ UNCHANGED <<name, informer, world>>

\* Slip: the dial does not block and gives up when nobody listens.
DialGivesUp ==
    /\ dial = "dialing"
    /\ dial' = IF driver = "down" THEN "none" ELSE "open"
    /\ UNCHANGED <<pc, name, informer, world>>

\* grpc.Dial blocks, without a limit, until somebody listens on the socket.
DialEnds ==
    /\ dial = "dialing"
    /\ driver # "down"
    /\ dial' = "open"
    /\ UNCHANGED <<pc, name, informer, world>>

\* Connect leaves its loop when the channel is closed; a tick only logs.
Connect == pc = "dial" /\ dial = "open" /\ Goto("probe")

-----------------------------------------------------------------------------
(* ProbeDriver.                                                            *)

\* Slip: a probe that timed out counts as an answer without a name.
ProbeTimesOutQuietly ==
    /\ pc = "probe"
    /\ limit = 0 \/ driver \in {"hung", "down"}
    /\ Goto("manager")

ProbeAnswers ==
    /\ pc = "probe"
    /\ limit > 0
    /\ driver = "up"
    /\ pc' = "manager"
    /\ name' = TRUE
    /\ UNCHANGED <<dial, informer, world>>

\* DeadlineExceeded: sleep a second and probe again.  With a limit of zero
\* the context has expired before the call.
ProbeTimesOut ==
    /\ pc = "probe"
    /\ limit = 0 \/ driver \in {"hung", "down"}
    /\ Goto("sleep")

ProbeAgain == pc = "sleep" /\ Goto("probe")

\* Any other code, Unavailable of a broken connection among them.
ProbeFails ==
    /\ pc = "probe"
    /\ limit > 0
    /\ driver \in {"refusing", "down"}
    /\ Exit
    /\ UNCHANGED world

-----------------------------------------------------------------------------
(* The manager.                                                            *)

\* NewManager asks the API server for its resources; SetupWithManager starts
\* the informer on contents before it builds the controller.
SetupWithManager ==
    /\ pc = "manager"
    /\ server
    /\ pc' = "start"
    /\ informer' = "starting"
    /\ UNCHANGED <<dial, name, world>>

\* mgr.Start: the caches sync, and only from now on does r.Get answer; until
\* then the content informer's handler takes each snapshot for one that is
\* gone, and drops the event.
Start == pc = "start" /\ server /\ Goto("run")

\* Without the API server, no manager and no synced cache.
ManagerFails ==
    /\ pc \in {"manager", "start"}
    /\ ~server
    /\ Exit
    /\ UNCHANGED world

InformerLists ==
    /\ informer = "starting"
    /\ server
    /\ informer' = "listed"
    /\ UNCHANGED <<pc, dial, name, world>>

-----------------------------------------------------------------------------
(* The kubelet, the driver and the API server.                             *)

Restart == pc = "exited" /\ Goto("parse")

Change == changes > 0 /\ changes' = changes - 1

Crash ==
    /\ pc # "exited"
    /\ Change
    /\ Exit
    /\ UNCHANGED <<driver, server, args, limit>>

ChangeDriver ==
    /\ driver' \in {"down", "hung", "refusing", "up"} \ {driver}
    /\ Change
    /\ UNCHANGED <<local, server, args, limit>>

ChangeServer ==
    /\ server' = ~server
    /\ Change
    /\ UNCHANGED <<local, driver, args, limit>>

MainStep ==
    \/ ParseFails \/ Parse \/ Connect
    \/ ProbeAnswers \/ ProbeTimesOut \/ ProbeAgain \/ ProbeFails
    \/ SetupWithManager \/ Start \/ ManagerFails \/ Restart

Next ==
    \/ MainStep \/ DialEnds \/ InformerLists
    \/ Crash \/ ChangeDriver \/ ChangeServer

Spec == Init /\ [][Next]_vars

\* The goroutines run, and the kubelet restarts the container.  Nothing makes
\* the driver or the API server recover.
FairSpec ==
    /\ Spec
    /\ WF_vars(MainStep)
    /\ WF_vars(DialEnds)
    /\ WF_vars(InformerLists)

-----------------------------------------------------------------------------
(* Properties.                                                             *)

\* The reconciler compares classes with the name the driver gave over this
\* process's own connection: no order of timeouts, refusals, crashes and
\* restarts leads to a manager without it, no informer outlives its process,
\* and none handles events in one that still waits for the driver.
RunsConnected ==
    /\ pc \in {"manager", "start", "run"} => name /\ args \subseteq FirstFlags
    /\ name => dial = "open"
    /\ informer # "none" => pc \in {"start", "run"}

WellStarted == args \subseteq FirstFlags /\ limit > 0

\* Started with the flags it knows and a positive timeout, the controller
\* ends up running for good once driver and API server have come to stay,
\* however often it hung on the driver, was refused or crashed before.
StartsUp == WellStarted => (<>[](driver = "up" /\ server) => <>[](pc = "run"))

\* "Enabling this will ensure there is only one active controller manager":
\* with leader-elect on the command line some controller becomes active.
ElectsLeader ==
    "leader-elect" \in args /\ limit > 0
      => (<>[](driver = "up" /\ server) => <>(pc = "run"))
=============================================================================
