----------------------------- MODULE Deployment -----------------------------
(***************************************************************************)
(* New binaries reach a host through scripts/deploy-remote.sh, run from    *)
(* any machine over ssh, and on a Mac also through `launch/service.sh      *)
(* reload`, run on the host.  Nothing keeps two scripts apart.  They meet  *)
(* at the installed file, its copy .pre-deploy, the port of the smoke test *)
(* and the supervisor, which starts whatever is installed when it starts.  *)
(*                                                                         *)
(* Each remote command of the deploy runs to its end even if the           *)
(* connection is lost meanwhile; what the script would have done next is   *)
(* then never done.  Two scripts may build the same commit, so a binary    *)
(* says nothing of who installed it.                                       *)
(***************************************************************************)
EXTENDS Naturals, FiniteSets

CONSTANTS
    Scripts,      \* the deploys and reloads
    Builds,       \* the binaries that commits build to
    Old,          \* the binary installed before all scripts
    None,         \* no script, or no file that executes
    MaxFaults     \* bound: crashes of the service, and signals nobody here sent

ASSUME NamesAssumption == Old \in Builds \ Scripts /\ None \notin Scripts \cup Builds

ASSUME FaultsAssumption == MaxFaults \in Nat

VARIABLES
    svc,          \* the supervisor the host has
    kind,         \* which script runs
    built,        \* what a script builds
    runs,         \* whether a binary serves /healthz on this host
    step,         \* where each script is
    staged,       \* the process of a smoke test
    port,         \* whose staged process listens on 127.0.0.1:11499
    answered,     \* whose staged process answered a script's probe (history)
    installed,    \* the binary in ~/.local/bin
    predecessor,  \* the binary beside it, .pre-deploy
    placed,       \* the scripts that have put their binary in place (history)
    proc,         \* the service's process
    wanted,       \* the supervisor has it started
    faults

hostVars  == <<svc, kind, built, runs>>
smokeVars == <<staged, port, answered>>
fileVars  == <<installed, predecessor, placed>>
procVars  == <<proc, wanted, faults>>
vars == <<hostVars, step, smokeVars, fileVars, procVars>>

Files == Builds \cup {None}

Managers == {"systemd", "launchd", "none"}

Steps == {"start", "landed", "testing", "passed", "copied", "unmoved", "swapped",
          "stopping", "stopped", "unstopped", "restarted", "kept", "unstarted",
          "retrying", "retried", "done", "failed", "lost"}

\* A process on its way out may stall; "told" if its supervisor sent the signal.
Processes == [at : {"down", "exited", "up", "stopping"}, bin : Files,
              stalled : BOOLEAN, told : BOOLEAN]

Process(at, b) == [at |-> at, bin |-> b, stalled |-> FALSE, told |-> FALSE]

Gone(at) == Process(at, None)

\* A process of this binary, if the binary gets as far as listening.
Launched(b) == IF runs[b] THEN Process("up", b) ELSE Gone("down")

\* SIGTERM, to a process that serves or has been signalled before.
Signalled(told) ==
    IF proc.at = "up"
    THEN [at : {"stopping"}, bin : {proc.bin}, stalled : BOOLEAN, told : {told}]
    ELSE {[proc EXCEPT !.told = proc.told \/ (told /\ proc.at = "stopping")]}

Init ==
    /\ svc \in Managers
    /\ kind \in [Scripts -> IF svc = "launchd" THEN {"deploy", "reload"} ELSE {"deploy"}]
    /\ built \in [Scripts -> Builds]
    /\ runs \in {f \in [Files -> BOOLEAN] : f[Old] /\ ~f[None]}
    /\ step = [d \in Scripts |-> "start"]
    /\ staged = [d \in Scripts |-> "none"]
    /\ port = None
    /\ answered = [d \in Scripts |-> None]
    /\ installed = Old
    /\ predecessor = None
    /\ placed = {}
    /\ proc = Process("up", Old)
    /\ wanted = TRUE
    /\ faults = 0

Goes(d, from, to) == step[d] = from /\ step' = [step EXCEPT ![d] = to]

-----------------------------------------------------------------------------
(* deploy-remote.sh.                                                       *)

\* Steps 1 to 4: build, inspect the artifact, copy it beside the live one.  A
\* file of the wrong format is refused; any command may fail.
Land(d) ==
    /\ kind[d] = "deploy"
    /\ \/ Goes(d, "start", "landed")
       \/ Goes(d, "start", "failed")
    /\ UNCHANGED <<hostVars, smokeVars, fileVars, procVars>>

\* Step 5: the binary is started on a port of its own ...
Stage(d) ==
    /\ Goes(d, "landed", "testing")
    /\ staged' = [staged EXCEPT ![d] = "starting"]
    /\ UNCHANGED <<hostVars, port, answered, fileVars, procVars>>

\* ... where it listens, unless it cannot run or the port is taken.
Bind(d) ==
    /\ staged[d] = "starting"
    /\ LET binds == port = None /\ runs[built[d]]
       IN  /\ staged' = [staged EXCEPT ![d] = IF binds THEN "serving" ELSE "none"]
           /\ port' = IF binds THEN d ELSE port
    /\ UNCHANGED <<hostVars, step, answered, fileVars, procVars>>

\* Mutant: the staged process is left running.
KillStaged_Left(d) == UNCHANGED <<staged, port>>

\* kill, which does not wait: a server begins to shut down, and holds the port
\* until it has closed its listener.
KillStaged(d) ==
    /\ staged' = [staged EXCEPT ![d] = IF @ = "serving" THEN "leaving" ELSE "none"]
    /\ UNCHANGED port

\* Mutant: the verdict of the probes is not looked at.
Probe_Unchecked(d) ==
    /\ Goes(d, "testing", "passed")
    /\ answered' = [answered EXCEPT ![d] = port]
    /\ KillStaged(d)
    /\ UNCHANGED <<hostVars, fileVars, procVars>>

\* One of twenty probes is answered on the port, or none in time.
Probe(d) ==
    /\ \/ /\ port # None
          /\ Goes(d, "testing", "passed")
          /\ answered' = [answered EXCEPT ![d] = port]
       \/ Goes(d, "testing", "failed") /\ UNCHANGED answered
    /\ KillStaged(d)
    /\ UNCHANGED <<hostVars, fileVars, procVars>>

\* The staged server's Shutdown closes its listener, whatever its script does.
Release(d) ==
    /\ staged[d] = "leaving"
    /\ staged' = [staged EXCEPT ![d] = "none"]
    /\ port' = IF port = d THEN None ELSE port
    /\ UNCHANGED <<hostVars, step, answered, fileVars, procVars>>

\* Step 6: cp, whose failure is ignored, even half-way ...
CopyPredecessor(d) ==
    /\ Goes(d, "passed", "copied")
    /\ predecessor' \in {installed, predecessor, None}
    /\ UNCHANGED <<hostVars, smokeVars, installed, placed, procVars>>

\* Mutant: the copy is made of what has just been installed.
Swap_ThenCopy(d) ==
    /\ Goes(d, "copied", "swapped")
    /\ installed' = built[d] /\ predecessor' = built[d]
    /\ placed' = placed \cup {d}
    /\ UNCHANGED <<hostVars, smokeVars, procVars>>

\* ... and mv, from /tmp: where it fails, even half-way, the script ends there.
Swap(d) ==
    /\ \/ /\ Goes(d, "copied", "swapped")
          /\ installed' = built[d] /\ placed' = placed \cup {d}
       \/ /\ Goes(d, "copied", "unmoved")
          /\ installed' \in {installed, None} /\ UNCHANGED placed
    /\ UNCHANGED <<hostVars, smokeVars, predecessor, procVars>>

\* The connection is lost between two remote commands; the script exits.
LoseConnection(d) ==
    /\ kind[d] = "deploy"
    /\ Goes(d, "passed", "failed") \/ Goes(d, "swapped", "lost")
    /\ UNCHANGED <<hostVars, smokeVars, fileVars, procVars>>

\* systemctl stop: SIGTERM to a process that runs.
StopService(d) ==
    /\ svc = "systemd" /\ Goes(d, "swapped", "stopping")
    /\ wanted' = FALSE
    /\ proc' \in Signalled(TRUE)
    /\ UNCHANGED <<hostVars, smokeVars, fileVars, faults>>

\* "|| true": the script goes on after a stop that failed.
StopFails(d) ==
    /\ svc = "systemd" /\ Goes(d, "swapped", "unstopped")
    /\ UNCHANGED <<hostVars, smokeVars, fileVars, procVars>>

\* It returns when the process is gone, or in favour of another start.
StopReturns(d) ==
    /\ Goes(d, "stopping", "stopped")
    /\ proc.at \in {"down", "exited"} \/ wanted
    /\ UNCHANGED <<hostVars, smokeVars, fileVars, procVars>>

\* systemctl start: nothing for a unit that is up, queued behind a stop.  Its
\* failure ends the script.
StartService(d) ==
    /\ \/ /\ Goes(d, "stopped", "restarted") \/ Goes(d, "unstopped", "kept")
          /\ wanted' = TRUE
          /\ proc' = IF proc.at \in {"down", "exited"} THEN Launched(installed) ELSE proc
       \/ /\ Goes(d, "stopped", "unstarted") \/ Goes(d, "unstopped", "lost")
          /\ UNCHANGED <<proc, wanted>>
    /\ UNCHANGED <<hostVars, smokeVars, fileVars, faults>>

\* The health check's failure is printed, and the script goes on to succeed.
CheckHealth(d) ==
    /\ kind[d] = "deploy" /\ Goes(d, "restarted", "done")
    /\ UNCHANGED <<hostVars, smokeVars, fileVars, procVars>>

\* No service manager found: installed, and nothing restarted.
NothingToRestart(d) ==
    /\ svc = "none" /\ Goes(d, "swapped", "done")
    /\ UNCHANGED <<hostVars, smokeVars, fileVars, procVars>>

-----------------------------------------------------------------------------
(* service.sh reload, and launchd.                                         *)

\* The build goes straight to the installed file; SMOLLLM_SKIP_BUILD leaves it.
Build(d) ==
    /\ kind[d] = "reload"
    /\ \/ Goes(d, "start", "failed") /\ UNCHANGED <<installed, placed>>
       \/ Goes(d, "start", "swapped") /\ UNCHANGED <<installed, placed>>
       \/ /\ Goes(d, "start", "swapped")
          /\ installed' = built[d] /\ placed' = placed \cup {d}
    /\ UNCHANGED <<hostVars, smokeVars, predecessor, procVars>>

\* Mutant: without -k, which leaves a running instance alone.
Kickstart_Gently(d) ==
    /\ svc = "launchd"
    /\ Goes(d, "swapped", "restarted") \/ Goes(d, "retrying", "retried")
    /\ UNCHANGED <<hostVars, smokeVars, fileVars, procVars>>

\* launchctl kickstart -k, of both scripts.  It kills what runs, at once or by a
\* signal; Respawn starts the next process, as soon as launchd's throttle
\* allows.  Where it fails the script ends.
Kickstart(d) ==
    /\ svc = "launchd"
    /\ \/ /\ Goes(d, "swapped", "restarted") \/ Goes(d, "retrying", "retried")
          /\ proc' \in {Gone("down")} \cup Signalled(TRUE)
       \/ /\ Goes(d, "swapped", "lost") \/ Goes(d, "retrying", "failed")
          /\ UNCHANGED proc
    /\ UNCHANGED <<hostVars, smokeVars, fileVars, wanted, faults>>

\* Twenty probes of /healthz, which a process may answer that has yet to notice
\* its signal; a second kickstart if none is answered.
VerifyHealthy(d) ==
    /\ kind[d] = "reload"
    /\ \/ /\ proc.at \in {"up", "stopping"}
          /\ Goes(d, "restarted", "done") \/ Goes(d, "retried", "done")
       \/ /\ proc.at # "up"
          /\ Goes(d, "restarted", "retrying") \/ Goes(d, "retried", "failed")
    /\ UNCHANGED <<hostVars, smokeVars, fileVars, procVars>>

-----------------------------------------------------------------------------
(* The supervisor and the process.                                         *)

Ends(at) ==
    /\ proc' = Gone(at)
    /\ UNCHANGED <<hostVars, step, smokeVars, fileVars, wanted>>

\* Server.Run: Shutdown returns, its requests done or, with an error, after
\* five seconds.  To systemd a clean exit that it has not asked for is no failure.
Shutdown ==
    /\ proc.at = "stopping" /\ ~proc.stalled
    /\ Ends("down") \/ (svc = "systemd" /\ ~proc.told /\ Ends("exited"))
    /\ UNCHANGED faults

\* Mutant: no watchdog.
Watchdog_None == FALSE /\ UNCHANGED vars

\* A process that stalls on its way out exits after ten seconds, with an error.
Watchdog ==
    /\ proc.at = "stopping" /\ proc.stalled
    /\ Ends("down") /\ UNCHANGED faults

\* The supervisor's own patience, after a signal of its own: TimeoutStopSec.
Kill ==
    /\ svc # "none" /\ proc.at = "stopping" /\ proc.told
    /\ Ends("down") /\ UNCHANGED faults

Crash ==
    /\ proc.at = "up" /\ faults < MaxFaults
    /\ Ends("down") /\ faults' = faults + 1

\* SIGTERM or SIGINT from someone else.
Signal ==
    /\ proc.at = "up" /\ faults < MaxFaults
    /\ proc' \in Signalled(FALSE) /\ faults' = faults + 1
    /\ UNCHANGED <<hostVars, step, smokeVars, fileVars, wanted>>

\* Restart=on-failure, KeepAlive, or a start that waited for a stop.
Respawn ==
    /\ svc # "none" /\ wanted /\ proc.at = "down"
    /\ proc' = Launched(installed)
    /\ UNCHANGED <<hostVars, step, smokeVars, fileVars, wanted, faults>>

Deploy(d) ==
    \/ Land(d) \/ Stage(d) \/ Bind(d) \/ Probe(d) \/ Release(d)
    \/ CopyPredecessor(d) \/ Swap(d) \/ LoseConnection(d)
    \/ StopService(d) \/ StopFails(d) \/ StopReturns(d) \/ StartService(d)
    \/ CheckHealth(d) \/ NothingToRestart(d)

Reload(d) == Build(d) \/ Kickstart(d) \/ VerifyHealthy(d)

Service == Shutdown \/ Watchdog \/ Kill \/ Crash \/ Signal \/ Respawn

Next == Service \/ \E d \in Scripts : Deploy(d) \/ Reload(d)

Spec == Init /\ [][Next]_vars

\* What runs without the operator: the rest of a restart that has begun, the
\* process on its way out, the supervisor.
Fairness ==
    /\ \A d \in Scripts : WF_vars(StopReturns(d)) /\ WF_vars(StartService(d))
    /\ WF_vars(Shutdown) /\ WF_vars(Watchdog) /\ WF_vars(Kill) /\ WF_vars(Respawn)

FairSpec == Spec /\ Fairness

-----------------------------------------------------------------------------
(* What the scripts promise.                                               *)

\* Every variable keeps its range.
TypeOK ==
    /\ svc \in Managers /\ kind \in [Scripts -> {"deploy", "reload"}]
    /\ built \in [Scripts -> Builds] /\ runs \in [Files -> BOOLEAN]
    /\ step \in [Scripts -> Steps]
    /\ staged \in [Scripts -> {"none", "starting", "serving", "leaving"}]
    /\ port \in Scripts \cup {None}
    /\ answered \in [Scripts -> Scripts \cup {None}]
    /\ installed \in Files /\ predecessor \in Files /\ placed \in SUBSET Scripts
    /\ proc \in Processes
    /\ wanted \in BOOLEAN /\ faults \in 0..MaxFaults

\* However the swaps, stops, starts and crashes of several scripts interleave,
\* the service runs the installed binary, or a script that put it there has
\* still to restart the service or never could: it lost its connection, its
\* kickstart or its stop failed (the script then goes on to report success,
\* "kept").  Otherwise a move that failed half-way has left no binary.
RunsWhatIsInstalled ==
    svc # "none" /\ proc.at = "up" /\ proc.bin # installed =>
        \/ \E d \in placed : /\ built[d] = installed
                            /\ step[d] \in {"swapped", "lost", "unstopped", "kept"}
        \/ installed = None /\ \E d \in Scripts : step[d] = "unmoved"

\* A deployed binary that does not run replaces nothing, unless the staged
\* process of another deploy answered the probe in its place, be it one that
\* was on its way out.
SmokeTestGuards ==
    \A b \in {installed, predecessor} \cap Builds :
        ~runs[b] =>
            \E d \in placed :
                /\ built[d] = b
                /\ kind[d] = "deploy" =>
                      answered[d] \in Scripts \ {d} /\ runs[built[answered[d]]]

\* What has put this binary into place, as far as the host remembers.
Origins(b) == {d \in placed : built[d] = b} \cup (IF b = Old THEN {Old} ELSE {})

\* The rollback the deploy prints undoes something: .pre-deploy is the installed
\* binary only while a deploy is about to replace that, after one whose move
\* failed, or where the same binary was installed more than once.
RollbackUndoes ==
    predecessor = installed /\ installed # None =>
        \/ \E d \in Scripts : step[d] \in {"copied", "unmoved"}
        \/ \E d, e \in Origins(installed) : d # e

\* What listens on the port of the smoke test is the server of a test in
\* progress, or one that its script has told to end: no script leaves a server
\* behind that would answer for every deploy to come.
SmokeServersEnd ==
    port # None =>
        \/ step[port] = "testing" /\ staged[port] = "serving"
        \/ staged[port] = "leaving"

\* A service that is down or on its way out comes back, if the installed binary
\* runs at all: neither two restarts at once nor a process that stalls on its
\* way out ends the service ("stuck-but-alive ... the service silently dies",
\* main.go).  Under systemd a clean exit nobody asked for stays, and so does a
\* stop whose start failed.
ServiceReturns ==
    proc.at # "up" /\ svc # "none" ~>
        \/ proc.at = "up" \/ ~runs[installed]
        \/ svc = "systemd" /\ proc.at = "exited"
        \/ ~wanted /\ \E d \in Scripts : step[d] = "unstarted"
=============================================================================
