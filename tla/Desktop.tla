------------------------------ MODULE Desktop ------------------------------
(***************************************************************************)
(* The desktop shell's two supervisors (apps/desktop gateway.ts, router.ts)*)
(* and the calls main.ts makes of them: at launch, from the menus and the  *)
(* panel, and on quit.  Everything runs on one thread, so a step is what   *)
(* happens between two awaits; calls interleave there, and so do the       *)
(* processes, other people's processes, and the exit events of children.   *)
(*                                                                         *)
(* A look at a port (probe, identify) is two steps: what was listening,    *)
(* and what the caller then does about it.                                 *)
(***************************************************************************)
EXTENDS Naturals, Sequences, FiniteSets, SequencesExt

CONSTANTS
  MaxProcesses,   \* processes ever started on the two ports
  MaxCalls,       \* calls of each supervisor
  MaxTerminals,   \* processes started by someone else
  RouterPorts     \* the ports the Router may be configured for

VARIABLES
  procs,        \* the processes
  sup,          \* the two supervisors' fields
  calls,        \* the calls of them under way
  made,         \* calls made so far
  app,          \* the shell itself: launching, up, quitting, gone
  routerPort,   \* HERMES_ROUTER_PORT
  asks,         \* which supervisor this person's requests are about
  overlapped,   \* history: a call was made while another was under way
  late          \* history: a child was started before the last one's exit was heard of

dvars == <<procs, sup, calls, made, app, routerPort, asks, overlapped, late>>

Supervisors == {"gateway", "router"}
Port(who) == IF who = "gateway" THEN "gateway" ELSE routerPort

Stopped == [child |-> 0, owned |-> FALSE, kind |-> "off"]
Call(who, op, pc) == [who |-> who, op |-> op, pc |-> pc, pid |-> 0, seen |-> "nothing"]

Process(service, by, pc) ==
  [service |-> service, port |-> Port(IF service = "gateway" THEN service ELSE "router"), by |-> by, pc |-> pc, signal |-> "none",
   told |-> FALSE]

(* At launch; or later, the gateway attached to and the Router's port looked *)
(* at; or later still, with a child of each kind serving.                    *)
AtLaunch ==
  /\ procs = <<>> /\ sup = [who \in Supervisors |-> Stopped]
  /\ calls = <<Call("gateway", "launch", "probe")>>
  /\ made = 1 /\ app = "launching" /\ asks = "gateway"
Attached ==
  /\ procs = <<>> /\ sup = [gateway |-> [Stopped EXCEPT !.kind = "attached"], router |-> Stopped]
  /\ calls = <<Call("router", "discover", "discover")>>
  /\ made = 1 /\ app = "up" /\ asks = "router"
Serving ==
  /\ procs = [p \in 1..2 |-> Process(IF p = 1 THEN "gateway" ELSE "router", "shell", "serving")]
  /\ sup = [gateway |-> [child |-> 1, owned |-> TRUE, kind |-> "running"],
            router |-> [child |-> 2, owned |-> TRUE, kind |-> "running"]]
  /\ calls = <<>> /\ made = 0 /\ app = "up" /\ asks = "nothing"

DesktopInit ==
  /\ routerPort \in RouterPorts /\ overlapped = FALSE /\ late = FALSE
  /\ AtLaunch \/ Attached \/ (routerPort = "router" /\ Serving)

-----------------------------------------------------------------------------
(* The processes. *)
Pids == DOMAIN procs
Listening(port) == {p \in Pids : procs[p].pc = "serving" /\ procs[p].port = port}
Holder(port) ==
  IF Listening(port) = {} THEN "nothing" ELSE procs[CHOOSE p \in Listening(port) : TRUE].service
ShellIsUp == app # "gone"
Others == UNCHANGED <<made, app, routerPort, asks, overlapped, late>>

TerminalStarts(service) ==
  /\ asks \in {"gateway", "router"} /\ (asks = "gateway" <=> service = "gateway")
  /\ Len(procs) < MaxProcesses /\ Listening(Port(IF service = "gateway" THEN service ELSE "router")) = {}
  /\ Cardinality({p \in Pids : procs[p].by = "terminal"}) < MaxTerminals
  /\ procs' = Append(procs, Process(service, "terminal", "serving"))
  /\ UNCHANGED <<sup, calls>> /\ Others

(* A child binds its port, or finds it taken and exits. *)
Boots(p) ==
  /\ procs[p].pc = "booting"
  /\ procs' = [procs EXCEPT ![p].pc = IF Listening(procs[p].port) = {} THEN "serving" ELSE "dead"]
  /\ UNCHANGED <<sup, calls>> /\ Others

(* It crashes, obeys the signal it was sent, or is killed. *)
Dies(p) ==
  /\ procs[p].pc \in {"booting", "serving"}
  /\ procs' = [procs EXCEPT ![p].pc = "dead"]
  /\ UNCHANGED <<sup, calls>> /\ Others

-----------------------------------------------------------------------------
(* The exit and error events of a child. *)

(* gateway.ts: whichever child it was. *)
GatewayExit(p) ==
  LET failed == sup.gateway.kind # "off" \/ procs[p].pc = "unborn"
  IN sup' = [sup EXCEPT !.gateway.child = 0, !.gateway.owned = FALSE,
                        !.gateway.kind = IF failed THEN "failed" ELSE @]

(* As: a child's exit never clears the ownership of it. *)
RouterExitKeeping(p) ==
  sup' = [sup EXCEPT !.router.child = IF @ = p THEN 0 ELSE @]
RouterExit(p) ==
  LET quiet == IF procs[p].pc = "unborn" THEN {"starting"} ELSE {"off", "starting"}
  IN sup' = [sup EXCEPT !.router.child = IF @ = p THEN 0 ELSE @, !.router.owned = FALSE,
                        !.router.kind = IF @ \in quiet THEN @ ELSE "failed"]

ExitEvent(p) ==
  /\ ShellIsUp /\ procs[p].by = "shell" /\ procs[p].pc \in {"dead", "unborn"} /\ ~procs[p].told
  /\ procs' = [procs EXCEPT ![p].told = TRUE]
  /\ IF procs[p].service = "gateway" THEN GatewayExit(p) ELSE RouterExit(p)
  /\ UNCHANGED calls /\ Others

-----------------------------------------------------------------------------
(* The calls. *)
At(c, who, pc) == ShellIsUp /\ calls[c].who = who /\ calls[c].pc = pc
Proceeds(c, call) ==
  calls' = IF call.pc = "done" THEN RemoveAt(calls, c) ELSE [calls EXCEPT ![c] = call]
GoTo(c, pc) == Proceeds(c, [calls[c] EXCEPT !.pc = pc, !.seen = "nothing"])
Becomes(who, kind) == sup' = [sup EXCEPT ![who].kind = kind]

(* probe and identify: what is listening, or (a timeout) no answer, which is *)
(* no gateway to the one and a stranger to the other.                        *)
Look(c, next) ==
  \E seen \in {Holder(Port(calls[c].who)),
               IF calls[c].who = "gateway" THEN "nothing" ELSE "stranger"} :
    /\ Proceeds(c, [calls[c] EXCEPT !.pc = next, !.seen = seen])
    /\ UNCHANGED <<procs, sup>> /\ Others

(* spawn, which may fail; the child is the supervisor's from here on. *)
Spawn(c, who) ==
  /\ Len(procs) < MaxProcesses
  /\ \E pc \in {"booting", "unborn"} : procs' = Append(procs, Process(who, "shell", pc))
  /\ sup' = [sup EXCEPT ![who].child = Len(procs) + 1, ![who].owned = TRUE,
                        ![who].kind = "starting"]
  /\ Proceeds(c, [calls[c] EXCEPT !.pc = "wait", !.pid = Len(procs) + 1, !.seen = "nothing"])
  /\ late' = (late \/ \E p \in Pids : /\ procs[p].service = who /\ procs[p].by = "shell"
                                      /\ ~procs[p].told)
  /\ UNCHANGED <<made, app, routerPort, asks, overlapped>>

(* attachOrStart. *)
Probe(c) == At(c, "gateway", "probe") /\ Look(c, "probed")

AttachOrStart(c) ==
  /\ At(c, "gateway", "probed")
  /\ \/ /\ calls[c].seen = "gateway" /\ GoTo(c, "done")
        /\ sup' = [sup EXCEPT !.gateway.owned = FALSE, !.gateway.kind = "attached"]
        /\ UNCHANGED procs /\ Others
     \/ calls[c].seen # "gateway" /\ Spawn(c, "gateway")

GatewayWaits(c) ==
  /\ At(c, "gateway", "wait")
  /\ IF sup.gateway.child = 0
     THEN GoTo(c, "done") /\ Becomes("gateway", "failed") /\ UNCHANGED procs /\ Others
     ELSE Look(c, "polled")

GatewayPolled(c) ==
  /\ At(c, "gateway", "polled") /\ UNCHANGED procs /\ Others
  /\ IF calls[c].seen = "gateway" THEN GoTo(c, "done") /\ Becomes("gateway", "running")
     ELSE \/ GoTo(c, "wait") /\ UNCHANGED sup
          \/ GoTo(c, "done") /\ Becomes("gateway", "failed")

(* stop, the gateway's: the grace is for the child that was there.  next is  *)
(* what the call goes on to.                                                 *)
Signals(c, signal, pc) ==
  /\ procs' = [procs EXCEPT ![calls[c].pid].signal = signal]
  /\ GoTo(c, pc)

Stop(c, who, next) ==
  /\ At(c, who, "stop") /\ Others
  /\ LET child == sup[who].child
         ours == child # 0 /\ sup[who].owned
     IN /\ sup' = [sup EXCEPT ![who].kind = "off", ![who].child = IF ours THEN @ ELSE 0]
        /\ Proceeds(c, [calls[c] EXCEPT !.pid = IF ours THEN child ELSE 0,
                                        !.pc = IF ours THEN "stopping" ELSE next])
        /\ procs' = IF ours THEN [procs EXCEPT ![child].signal = "asked"] ELSE procs

Forgets(who) == sup' = [sup EXCEPT ![who].child = 0, ![who].owned = FALSE]

GatewayStops(c, next) ==
  /\ At(c, "gateway", "stopping") /\ Forgets("gateway") /\ Others
  /\ \/ procs[calls[c].pid].told /\ GoTo(c, next) /\ UNCHANGED procs
     \/ Signals(c, "killed", next)

(* The Router's: a killed one is waited for a second time. *)
RouterStops(c, next) ==
  /\ Others
  /\ \/ At(c, "router", "stopping") /\ Signals(c, "killed", "killing") /\ UNCHANGED sup
     \/ At(c, "router", "stopping") /\ procs[calls[c].pid].told
          /\ GoTo(c, next) /\ Forgets("router") /\ UNCHANGED procs
     \/ At(c, "router", "killing") /\ GoTo(c, next) /\ Forgets("router") /\ UNCHANGED procs

(* What a stop is part of. *)
AfterStop(c) ==
  CASE calls[c].op = "restart" /\ calls[c].who = "gateway" -> "probe"
    [] calls[c].op = "restart" /\ calls[c].who = "router" -> "start"
    [] OTHER -> "done"

-----------------------------------------------------------------------------
(* RouterSupervisor.start and discover. *)

(* startRouter: the configuration's path is asked for first. *)
Locate(c) ==
  /\ At(c, "router", "locate") /\ UNCHANGED <<procs, sup>> /\ Others
  /\ GoTo(c, "start") \/ GoTo(c, "done")

RouterStart(c) ==
  /\ At(c, "router", "start") /\ UNCHANGED procs /\ Others
  /\ IF sup.router.owned /\ sup.router.child # 0 THEN GoTo(c, "done") /\ UNCHANGED sup
     ELSE IF routerPort = "gateway" THEN GoTo(c, "done") /\ Becomes("router", "conflict")
     ELSE GoTo(c, "identify") /\ UNCHANGED sup

Discover(c) ==
  /\ At(c, "router", "discover") /\ UNCHANGED <<procs, sup>> /\ Others
  /\ GoTo(c, IF sup.router.owned \/ sup.router.kind = "starting" THEN "done" ELSE "identify")

Identify(c) == At(c, "router", "identify") /\ Look(c, "identified")

Identified(c) ==
  LET found == calls[c].seen
      free == IF found = "nothing" /\ calls[c].op # "discover" THEN "inspect" ELSE "done"
  IN /\ At(c, "router", "identified") /\ GoTo(c, free) /\ UNCHANGED procs /\ Others
     /\ sup' = CASE found = "router" /\ calls[c].op = "discover" -> [sup EXCEPT !.router.kind = "attached"]
                 [] found = "router" /\ calls[c].op # "discover" ->
                      [sup EXCEPT !.router.kind = "attached", !.router.owned = FALSE]
                 [] found = "nothing" /\ calls[c].op = "discover" -> [sup EXCEPT !.router.kind = "off"]
                 [] found = "nothing" /\ calls[c].op # "discover" -> sup
                 [] OTHER -> [sup EXCEPT !.router.kind = "conflict"]

(* inspectConfigFile and validateConfig, then the spawn. *)
Inspected(c) ==
  /\ At(c, "router", "inspect")
  /\ \/ GoTo(c, "done") /\ Becomes("router", "needs-config") /\ UNCHANGED procs /\ Others
     \/ Spawn(c, "router")

(* identify's answer counts only for a child that is still this call's. *)
RouterWaits(c) ==
  LET gone == sup.router.child # calls[c].pid \/ procs[calls[c].pid].told
  IN /\ At(c, "router", "wait") /\ UNCHANGED procs /\ Others
     /\ \/ gone /\ GoTo(c, "gaveup") /\ UNCHANGED sup
        \/ ~gone /\ Holder(routerPort) = "router" /\ GoTo(c, "done") /\ Becomes("router", "running")
        \/ ~gone /\ GoTo(c, "gaveup") /\ UNCHANGED sup

(* Stopped while it was starting is no failure. *)
RouterGaveUp(c) ==
  /\ At(c, "router", "gaveup") /\ GoTo(c, "done") /\ UNCHANGED procs /\ Others
  /\ IF sup.router.kind # "starting" THEN UNCHANGED sup
     ELSE Becomes("router", "conflict") \/ Becomes("router", "failed")

-----------------------------------------------------------------------------
(* main.ts: what the shell's menus, its panel and quitting ask for. *)
Begins(call) ==
  /\ made < MaxCalls[asks] /\ made' = made + 1
  /\ calls' = Append(calls, call)
  /\ overlapped' = (overlapped \/ calls # <<>>)

IsServing == sup.router.kind \in {"running", "attached"}

RouterMenu ==
  /\ app = "up" /\ asks = "router" /\ UNCHANGED <<procs, sup, app, routerPort, asks, late>>
  /\ \/ ~IsServing /\ sup.router.kind # "starting" /\ Begins(Call("router", "start", "locate"))
     \/ sup.router.owned /\ sup.router.kind = "running" /\ Begins(Call("router", "restart", "stop"))
     \/ sup.router.owned /\ Begins(Call("router", "stop", "stop"))
     \/ Begins(Call("router", "discover", "discover"))

(* The panel's restart of the gateway. *)
GatewayRestart ==
  /\ app = "up" /\ asks = "gateway" /\ sup.gateway.owned /\ Begins(Call("gateway", "restart", "stop"))
  /\ UNCHANGED <<procs, sup, app, routerPort, asks, late>>

(* start: a gateway that did not come up ends the shell; otherwise the menus *)
(* are there, and the Router's port is looked at.                            *)
Launched ==
  /\ app = "launching" /\ calls = <<>>
  /\ IF sup.gateway.kind = "failed" THEN app' = "quit" /\ UNCHANGED calls
     ELSE app' = "up" /\ calls' = Append(calls, Call("router", "discover", "discover"))
  /\ UNCHANGED <<procs, sup, made, routerPort, asks, overlapped, late>>

Quit ==
  /\ app \in {"launching", "up"} /\ app' = "quit"
  /\ overlapped' = (overlapped \/ calls # <<>>)
  /\ UNCHANGED <<procs, sup, calls, made, routerPort, asks, late>>

(* will-quit and stopOwnedChildren: the Router first, then the gateway. *)
WillQuit ==
  /\ app = "quit"
  /\ app' = IF \E who \in Supervisors : sup[who].owned THEN "stop router" ELSE "gone"
  /\ UNCHANGED <<procs, sup, calls, made, routerPort, asks, overlapped, late>>

StopOwnedChildren(who, ask, await, next) ==
  /\ UNCHANGED <<procs, sup, made, routerPort, asks, overlapped, late>>
  /\ \/ /\ app = ask
        /\ IF sup[who].owned
           THEN calls' = Append(calls, Call(who, "quit", "stop")) /\ app' = await
           ELSE UNCHANGED calls /\ app' = next
     \/ /\ app = await /\ UNCHANGED calls
        /\ \A c \in DOMAIN calls : calls[c].op # "quit"
        /\ app' = next
Quits ==
  \/ WillQuit
  \/ StopOwnedChildren("router", "stop router", "stopping router", "stop gateway")
  \/ StopOwnedChildren("gateway", "stop gateway", "stopping gateway", "gone")

-----------------------------------------------------------------------------
CallStops(c) ==
  \/ \E who \in Supervisors : Stop(c, who, AfterStop(c))
  \/ GatewayStops(c, AfterStop(c)) \/ RouterStops(c, AfterStop(c))

CallStarts(c) ==
  \/ Probe(c) \/ AttachOrStart(c) \/ GatewayWaits(c) \/ GatewayPolled(c)
  \/ Locate(c) \/ RouterStart(c) \/ Discover(c) \/ Identify(c) \/ Identified(c) \/ Inspected(c)
  \/ RouterWaits(c) \/ RouterGaveUp(c)

DesktopNext ==
  \/ \E service \in Supervisors \cup {"stranger"} : TerminalStarts(service)
  \/ \E p \in Pids : Boots(p) \/ Dies(p) \/ ExitEvent(p)
  \/ \E c \in DOMAIN calls : CallStops(c) \/ CallStarts(c)
  \/ RouterMenu \/ GatewayRestart \/ Launched \/ Quit \/ Quits

(* The event loop runs, and a grace period ends. *)
DesktopFairness ==
  /\ WF_dvars(Quits)
  /\ WF_dvars(\E c \in DOMAIN calls : CallStops(c))

DesktopSpec == DesktopInit /\ [][DesktopNext]_dvars /\ DesktopFairness

-----------------------------------------------------------------------------
Alive(p) == procs[p].pc \in {"booting", "serving"} /\ procs[p].signal # "killed"
Orphans == {p \in Pids : procs[p].by = "shell" /\ Alive(p)}
Serial == ~overlapped /\ ~late
Quiet == calls = <<>>

(* As long as calls do not overlap and a child's exit is heard of before the *)
(* next is started: the shell leaves nothing it started behind when it goes; *)
(* between calls, a supervisor owns exactly the child it still has, and every*)
(* living process the shell started is one a supervisor owns.  On any path,  *)
(* nobody else's process is signalled.  (gateway.ts, router.ts: `owned`;     *)
(* main.ts will-quit.)                                                       *)
OwnedIsStopped ==
  /\ \A p \in Pids : procs[p].signal # "none" => procs[p].by = "shell"
  /\ Serial =>
       /\ app = "gone" => Orphans = {}
       /\ Quiet /\ ShellIsUp =>
            /\ \A who \in Supervisors : sup[who].owned <=> sup[who].child # 0
            /\ Orphans \subseteq {sup[who].child : who \in Supervisors}

(* Quitting ends, whatever the children do: each is given its grace once.    *)
(* (main.ts will-quit, stopOwnedChildren; the stop of either supervisor.)    *)
QuitEnds == app = "quit" ~> app = "gone"

(* What docs/DESKTOP_ROUTER.md says of quitting, and gateway.ts and router.ts*)
(* of the children they spawn: no child that is serving outlives the shell.  *)
QuitLeavesNoChild == app = "gone" => \A p \in Orphans : procs[p].pc # "serving"
=============================================================================
