--------------------------- MODULE ProcessLifecycle ---------------------------
(***************************************************************************)
(* The process from its command line to its exit: run of src/src/main.rs,  *)
(* the public listener service and the management listener of              *)
(* src/src/api_server.rs, and the ordered shutdown of src/src/shutdown.rs. *)
(*                                                                         *)
(* Startup takes its resources one after the other and drops them in       *)
(* reverse.  The public service hands its bound descriptor to Pingora by   *)
(* number, and becomes ready only after the adoption; the other listeners  *)
(* start when it is ready.  A signal, or the failure of the public         *)
(* service, starts the shutdown; Pingora tears its runtimes down when the  *)
(* grace period is over, which cancels whatever still runs.                *)
(*                                                                         *)
(* Time is counted in seconds from the start of the shutdown, and what is  *)
(* due happens before time goes on.  Drain, flush and traffic drain may    *)
(* take any time up to their deadlines: they are modules of their own.     *)
(***************************************************************************)
EXTENDS AppConfig, FiniteSets

CONSTANTS Clis,            \* the command lines
          MaxHandshakes    \* MAX_CONCURRENT_TLS_HANDSHAKES

(* Ports are u16, and no error is None.                                    *)
ASSUME CliAssumption ==
    /\ Unset \notin Nat
    /\ \A c \in Clis : /\ {c.port, c.apiPort} \subseteq {Unset} \cup 0..MaxPort
                      /\ \A i \in DOMAIN Checks(c) : Checks(c)[i][2] # None

VARIABLES
    cli, stage, error, held,                       \* startup
    proc,                                          \* where the process is
    public, fd, armed, ready, verified, outcome,    \* the public service
    told, endpoints,                               \* its shutdown watch, its accept tasks
    failed,                                        \* public_service_failed
    signalled, shutdown, now,                      \* SIGTERM, Pingora's watch and the clock
    acked,                                         \* traffic.accepts_stopped
    api, stopRequested, macked, handshakes, conns, \* the management listener
    coordinator, phaseStart, late                  \* the coordinator

startupVars == <<cli, stage, error>>
publicVars == <<public, fd, armed, ready, verified, outcome, told, endpoints, failed>>
apiVars == <<api, stopRequested, macked, handshakes, conns>>
clockVars == <<shutdown, now, coordinator, phaseStart, late>>
processVars == <<startupVars, held, proc, publicVars, signalled, acked, apiVars, clockVars>>

ProcessInit ==
    /\ cli \in Clis
    /\ stage = "config" /\ error = None /\ held = {} /\ proc = "starting"
    /\ public = "reserved" /\ fd = "owned" /\ armed = FALSE
    /\ ready = FALSE /\ verified = FALSE /\ outcome = None
    /\ told = FALSE /\ endpoints = "none" /\ failed = FALSE
    /\ signalled = FALSE /\ shutdown = FALSE /\ now = 0
    /\ acked = FALSE
    /\ api = "waiting" /\ stopRequested = FALSE /\ macked = FALSE
    /\ handshakes = 0 /\ conns = 0
    /\ coordinator = "waiting" /\ phaseStart = 0 /\ late = FALSE

(***************************************************************************)
(* Startup                                                                 *)
(***************************************************************************)
NextStage == [config |-> "paths", paths |-> "pid", pid |-> "store", store |-> "api",
              api |-> "metrics", metrics |-> "redirect", redirect |-> "public",
              public |-> "run"]

(* The stage that takes something, and whether this command line asks.     *)
Takes(s) == CASE s = "pid" -> Has(cli, "pid-file")
              [] s = "metrics" -> Has(cli, "metrics-port")
              [] s = "redirect" -> Has(cli, "redirect-port")
              [] OTHER -> s \in {"api", "public"}

(* What the command line itself makes a stage refuse.                      *)
Refusal(s) ==
    CASE s = "config" -> TryFrom(cli)
      [] s = "api" /\ ApiListener(cli).kind = "unix" /\ ApiTls(cli) -> "InvalidTls"
      [] s = "redirect" /\ Takes(s) /\ ~RedirectConfigured(cli) -> "InvalidRedirectListener"
      [] s = "public" /\ PublicListener(cli).kind = "unix" /\ PublicTls(cli) -> "InvalidTls"
      [] OTHER -> None

StartupStep ==
    /\ proc = "starting"
    /\ Refusal(stage) = None
    /\ held' = IF Takes(stage) THEN held \cup {stage} ELSE held
    /\ stage' = NextStage[stage]
    /\ proc' = IF stage' = "run" THEN "running" ELSE proc
    /\ UNCHANGED <<cli, error, publicVars, signalled, acked, apiVars, clockVars>>

(* Refused by the command line, or by the machine: a path that is taken, a *)
(* store that does not answer, an address in use.                          *)
StartupFails ==
    /\ proc = "starting"
    /\ error' = IF Refusal(stage) # None THEN Refusal(stage) ELSE "environment"
    /\ proc' = "unwinding"
    /\ UNCHANGED <<cli, stage, held, publicVars, signalled, acked, apiVars, clockVars>>

(* Locals drop in the reverse order of their declaration.                  *)
MutantDropsBefore(r, s) == s # "pid" /\ r = "pid"  \* the PID file first
DropsBefore(r, s) == r # "pid" /\ s = "pid"

Unwind ==
    /\ proc = "unwinding"
    /\ IF held = {}
       THEN proc' = IF error # None \/ failed THEN "error" ELSE "ok"
       ELSE UNCHANGED proc
    /\ \/ held = {} /\ UNCHANGED held
       \/ \E r \in held : /\ \A s \in held : ~DropsBefore(s, r)
                          /\ held' = held \ {r}
    /\ UNCHANGED <<startupVars, publicVars, signalled, acked, apiVars, clockVars>>

(***************************************************************************)
(* The public service.  Every guard of start_service is dropped on each    *)
(* way out of it.                                                          *)
(***************************************************************************)
Running == proc = "running"
Rest == <<startupVars, proc, apiVars, clockVars>>

(* signal_startup_failure: the flag, then SIGTERM to the own process.      *)
SignalFailure == failed' = TRUE /\ signalled' = TRUE

(* Nothing to adopt, the path is no longer authentic, or the descriptor    *)
(* has no identity: the socket and the path owner are dropped.             *)
StartRefused ==
    /\ Running /\ public = "reserved"
    /\ public' = "done" /\ fd' = "closed" /\ held' = held \ {"public"}
    /\ SignalFailure
    /\ acked' = TRUE
    /\ UNCHANGED <<armed, ready, verified, outcome, told, endpoints, Rest>>

(* The number enters both tables, the guard is armed and the descriptor    *)
(* given up, with no await between.                                        *)
MutantArms == FALSE  \* the guard is never armed
Arms == TRUE

HandOver ==
    /\ Running /\ public = "reserved"
    /\ public' = "polling" /\ fd' = "raw" /\ armed' = Arms
    /\ UNCHANGED <<ready, verified, outcome, told, endpoints, failed, held, signalled, acked, Rest>>

(* The first poll, with the private table locked, returns: nothing was     *)
(* adopted.                                                                *)
FirstPollReturns ==
    /\ public = "polling"
    /\ outcome' = "FailedBeforeReady"
    /\ public' = "finishing"
    /\ UNCHANGED <<fd, armed, ready, verified, told, endpoints, failed, held, signalled, acked, Rest>>

(* External: Pingora builds its listener from the number in the second     *)
(* poll, and starts its accept tasks unless it returns or panics.          *)
SecondPoll ==
    /\ public = "polling"
    /\ armed' = FALSE
    /\ fd' = "listener"
    /\ \/ public' = "verifying" /\ endpoints' = "running" /\ UNCHANGED outcome
       \/ public' = "finishing" /\ outcome' = "FailedBeforeReady" /\ UNCHANGED endpoints
    /\ UNCHANGED <<ready, verified, told, failed, held, signalled, acked, Rest>>

(* verify_ready: the configured path must still lead to the socket.        *)
VerifyReady ==
    /\ public = "verifying"
    /\ ready' = TRUE /\ verified' = TRUE /\ public' = "serving"
    /\ UNCHANGED <<fd, armed, outcome, told, endpoints, failed, held, signalled, acked, Rest>>

VerifyFails ==
    /\ public = "verifying"
    /\ PublicListener(cli).kind = "unix"
    /\ public' = "finishing" /\ outcome' = "FailedBeforeReady"
    /\ UNCHANGED <<fd, armed, ready, verified, told, endpoints, failed, held, signalled, acked, Rest>>

(* The service future ends: when its accept tasks have, or by a panic.     *)
ServiceEnds ==
    /\ public = "serving"
    /\ \/ outcome' = "Exited" /\ endpoints = "stopped"
       \/ outcome' = "PanickedAfterReady"
    /\ public' = "finishing"
    /\ UNCHANGED <<fd, armed, ready, verified, told, endpoints, failed, held, signalled, acked, Rest>>

(* PublicServiceFutureState: the future and its listener go first, then    *)
(* the shutdown guard tells detached accept tasks; the exit guard          *)
(* acknowledges.                                                           *)
(* FailClosedReadyNotifier: a notifier that was not used is forgotten.     *)
MutantReadyWhenDropped == TRUE  \* Pingora's own Drop signals ready
ReadyWhenDropped == FALSE

Finish ==
    /\ public = "finishing"
    /\ fd' = IF fd = "listener" THEN "closed" ELSE fd
    /\ told' = TRUE
    /\ acked' = TRUE
    /\ ready' = (ready \/ ReadyWhenDropped)
    /\ public' = "judging"
    /\ UNCHANGED <<armed, verified, outcome, endpoints, failed, held, signalled, Rest>>

(* An exit nobody asked for is a failure too.                              *)
MutantUnexpected == outcome # "Exited"  \* an early exit passes for a normal one
Unexpected == outcome # "Exited" \/ ~shutdown

(* The path owner first, then the guard: armed, it closes the number if it *)
(* still denotes the socket.                                               *)
Judge ==
    /\ public = "judging"
    /\ IF Unexpected THEN SignalFailure ELSE UNCHANGED <<failed, signalled>>
    /\ fd' = IF armed /\ fd = "raw" THEN "closed" ELSE fd
    /\ armed' = FALSE
    /\ held' = held \ {"public"}
    /\ public' = "done"
    /\ UNCHANGED <<ready, verified, outcome, told, endpoints, acked, Rest>>

(* bridge_public_shutdown                                                  *)
Relay ==
    /\ Running /\ shutdown /\ ~told
    /\ told' = TRUE
    /\ UNCHANGED <<public, fd, armed, ready, verified, outcome, endpoints, failed, held,
                   signalled, acked, Rest>>

(* External: an accept task stops when told, or by itself.                 *)
EndpointStops ==
    /\ endpoints = "running"
    /\ told \/ public = "serving"
    /\ endpoints' = "stopped"
    /\ UNCHANGED <<public, fd, armed, ready, verified, outcome, told, failed, held, signalled,
                   acked, Rest>>

(***************************************************************************)
(* The management listener, which Pingora starts when the public service   *)
(* is ready.                                                               *)
(***************************************************************************)
ApiRest == <<startupVars, held, proc, publicVars, signalled, acked, clockVars>>

ApiStarts ==
    /\ Running /\ api = "waiting"
    /\ ready
    /\ api' = "serving"
    /\ UNCHANGED <<stopRequested, macked, handshakes, conns, ApiRest>>

MayAccept == api = "serving" /\ ~stopRequested

(* TlsTcpListener::accept: a bounded set of handshakes, each with its own  *)
(* time limit, so that a silent client holds up nobody.                    *)
HandshakeStarts ==
    /\ MayAccept /\ ApiTls(cli)
    /\ handshakes < MaxHandshakes
    /\ handshakes' = handshakes + 1
    /\ UNCHANGED <<api, stopRequested, macked, conns, ApiRest>>

HandshakeFails ==
    /\ api = "serving" /\ handshakes > 0
    /\ handshakes' = handshakes - 1
    /\ UNCHANGED <<api, stopRequested, macked, conns, ApiRest>>

AcceptConnection ==
    /\ MayAccept
    /\ conns = 0
    /\ conns' = 1
    /\ IF ApiTls(cli) THEN handshakes > 0 /\ handshakes' = handshakes - 1
                      ELSE UNCHANGED handshakes
    /\ UNCHANGED <<api, stopRequested, macked, ApiRest>>

ConnectionCloses ==
    /\ conns = 1
    /\ conns' = 0
    /\ UNCHANGED <<api, stopRequested, macked, handshakes, ApiRest>>

(* shutdown_signal                                                         *)
RequestStop ==
    /\ api = "serving" /\ shutdown
    /\ ~stopRequested
    /\ stopRequested' = TRUE
    /\ UNCHANGED <<api, macked, handshakes, conns, ApiRest>>

(* ManagedListener::accept sees the request before another connection, and *)
(* never returns again.                                                    *)
MutantAcknowledges == shutdown  \* the watch, not the request the accept loop has seen
Acknowledges == stopRequested

AcknowledgeStop ==
    /\ api = "serving" /\ ~macked
    /\ Acknowledges
    /\ macked' = TRUE
    /\ UNCHANGED <<api, stopRequested, handshakes, conns, ApiRest>>

(* axum returns when the signal has resolved and its connections are gone. *)
ApiEnds ==
    /\ api = "serving" /\ macked /\ conns = 0
    /\ api' = "done" /\ handshakes' = 0
    /\ held' = held \ {"api"}
    /\ UNCHANGED <<stopRequested, macked, conns, startupVars, proc, publicVars, signalled,
                   acked, clockVars>>

(***************************************************************************)
(* ShutdownCoordinator                                                     *)
(***************************************************************************)
PhaseDeadline == [accepts |-> 1, drain |-> 5, flush |-> 1, traffic |-> 2]
NextPhase == [accepts |-> "drain", drain |-> "flush", flush |-> "traffic", traffic |-> "done"]

MutantGracePeriod ==  \* forgets the flush
    PhaseDeadline.accepts + PhaseDeadline.drain + PhaseDeadline.traffic
GracePeriod ==
    PhaseDeadline.accepts + PhaseDeadline.drain + PhaseDeadline.flush + PhaseDeadline.traffic + 1

InPhase == coordinator \in DOMAIN PhaseDeadline
MutantPhaseIsOver == FALSE  \* no timeout
PhaseIsOver == now = phaseStart + PhaseDeadline[coordinator]

Else == <<startupVars, held, proc, publicVars, signalled, acked, apiVars, shutdown, now>>

CoordinatorStarts ==
    /\ Running /\ shutdown /\ coordinator = "waiting"
    /\ coordinator' = "accepts" /\ phaseStart' = now
    /\ UNCHANGED <<late, Else>>

PhaseEnds ==
    /\ Running /\ InPhase
    /\ coordinator = "accepts" => acked /\ macked
    /\ coordinator' = NextPhase[coordinator] /\ phaseStart' = now
    /\ UNCHANGED <<late, Else>>

PhaseTimesOut ==
    /\ Running /\ InPhase
    /\ PhaseIsOver
    /\ coordinator' = NextPhase[coordinator] /\ phaseStart' = now
    /\ late' = (late \/ coordinator = "accepts")
    /\ UNCHANGED Else

(***************************************************************************)
(* External: the operator's signal, Pingora's watch, the clock, and the    *)
(* end of the grace period, which drops every future that still runs.      *)
(***************************************************************************)
Signal ==
    /\ Running /\ ~signalled
    /\ signalled' = TRUE
    /\ UNCHANGED <<startupVars, held, proc, publicVars, acked, apiVars, clockVars>>

ShutdownBegins ==
    /\ Running /\ signalled /\ ~shutdown
    /\ shutdown' = TRUE
    /\ UNCHANGED <<startupVars, held, proc, publicVars, signalled, acked, apiVars,
                   now, coordinator, phaseStart, late>>

Tick ==
    /\ Running /\ shutdown
    /\ now < GracePeriod
    /\ coordinator # "waiting"
    /\ InPhase => now < phaseStart + PhaseDeadline[coordinator]
    /\ now' = now + 1
    /\ UNCHANGED <<startupVars, held, proc, publicVars, signalled, acked, apiVars,
                   shutdown, coordinator, phaseStart, late>>

Teardown ==
    /\ Running /\ now = GracePeriod
    /\ public \notin {"polling", "verifying", "finishing", "judging"}
    /\ proc' = "unwinding"
    /\ public' = "done" /\ fd' = "closed" /\ endpoints' = "stopped" /\ told' = TRUE
    /\ acked' = TRUE
    /\ api' = "done" /\ handshakes' = 0 /\ conns' = 0
    /\ UNCHANGED <<startupVars, held, armed, ready, verified, outcome, failed, signalled,
                   stopRequested, macked, clockVars>>

Due == \/ StartupStep \/ Unwind \/ HandOver \/ SecondPoll \/ VerifyReady \/ Finish \/ Judge
       \/ Relay \/ ApiStarts \/ RequestStop \/ AcknowledgeStop \/ ApiEnds
       \/ CoordinatorStarts \/ PhaseTimesOut \/ ShutdownBegins \/ Tick \/ Teardown

ProcessNext ==
    \/ Due
    \/ StartupFails \/ StartRefused \/ FirstPollReturns \/ VerifyFails \/ ServiceEnds
    \/ EndpointStops \/ HandshakeStarts \/ HandshakeFails \/ AcceptConnection
    \/ ConnectionCloses \/ PhaseEnds \/ Signal

ProcessSpec == ProcessInit /\ [][ProcessNext]_processVars

(* Every task that can go on does, and timers fire.  Whether accept tasks, *)
(* connections and phases end before their deadlines is left open.         *)
FairProcessSpec == ProcessSpec /\ WF_processVars(Due) /\ WF_processVars(EndpointStops)

(***************************************************************************)
(* Properties                                                              *)
(***************************************************************************)

(* The management API runs only in a process whose public listener was     *)
(* adopted and found at its configured path: a service that failed, or     *)
(* was cancelled, never counts as ready (api_server.rs 159-173, 322-439).  *)
ReadinessIsVerified == api = "serving" => verified

(* Whatever way the public service ends, its listening descriptor is       *)
(* closed: by its owner before the handover, by the guard until the        *)
(* adoption, by Pingora's future after it (api_server.rs 175-282, 1420).   *)
DescriptorReleased == public = "done" => fd = "closed"

(* The public service is never gone from a running process without a       *)
(* failure on record or a shutdown under way, and the process reports      *)
(* success only if the service did not fail (api_server.rs 1467-1470,      *)
(* main.rs 231-233).                                                       *)
FailureIsReported ==
    /\ Running /\ public = "done" => failed \/ shutdown
    /\ proc = "ok" => outcome \in {None, "Exited"}

(* After the first phase has ended in time, no management connection is    *)
(* accepted: mutations that the terminal drain waits for are all there     *)
(* (api_server.rs 664-690, shutdown.rs 117-136).                           *)
AcceptsStopBeforeDrain ==
    [][AcceptConnection => coordinator \in {"waiting", "accepts"} \/ late]_processVars

(* The grace period contains every phase at its deadline: the runtimes are *)
(* torn down only after the ordered shutdown has completed                 *)
(* (shutdown.rs 20-37).                                                    *)
GraceContainsPhases == proc # "running" /\ stage = "run" => coordinator = "done"

(* As long as a listener of the process is bound, its PID file is there    *)
(* (main.rs 94-98 and the order of its locals).                            *)
PidOutlivesListeners ==
    Has(cli, "pid-file") /\ held # {} => "pid" \in held

(* A port that the command line leaves to the default is a port, and not   *)
(* the one of the public listener (config.rs 504-527).                     *)
DefaultPortsDistinct ==
    stage # "config" /\ ApiListener(cli).kind = "tcp" =>
        /\ ApiListener(cli).port \in 1..MaxPort
        /\ NonzeroPort(cli.apiPort) = Unset /\ PublicListener(cli).kind = "tcp"
              => ApiListener(cli).port # PublicListener(cli).port

(* A signal, or a failure of the public service, ends the process, and     *)
(* after a failure the exit says so, however long connections, accept      *)
(* tasks and phases take (shutdown.rs 117-187, main.rs 230-234).           *)
ShutdownEnds ==
    /\ signalled ~> proc \in {"ok", "error"}
    /\ failed ~> proc = "error"

(* StartupError::InvalidRedirectListener says "redirect listener requires  *)
(* a TCP public listener" (main.rs 58): with one, it is not reported.      *)
RedirectNeedsOnlyTcp ==
    error = "InvalidRedirectListener" => PublicListener(cli).kind # "tcp"
=============================================================================
