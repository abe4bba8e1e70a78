------------------------------ MODULE RunStop ------------------------------
(* The life of a running VM: "vetu run" with its hypervisor, "vetu stop"     *)
(* with its timeout, "vetu set" as a writer of config.json, and what the PID *)
(* lock shows of them to "vetu list".  One VM, whose directory is not        *)
(* replaced or deleted meanwhile (LocalStorage has that).  Time passes in    *)
(* ticks, a few of which stand for the 30 seconds of each timer.             *)
EXTENDS Naturals, FiniteSets

CONSTANTS
  Run,        \* invocations of vetu run
  Stop,       \* invocations of vetu stop
  Pid,        \* process IDs, which the kernel uses again
  WaitDelay,  \* hv.WaitDelay
  Timeouts,   \* values of stop's --timeout
  MaxKills,   \* how many vetu processes something else kills
  None

ASSUME ConstantsAssumption ==
  /\ None \notin Run /\ None \notin Pid /\ "set" \notin Run \cup {None}
  /\ \E f \in [Run -> Pid] : \A q, r \in Run : f[q] = f[r] => q = r
  /\ WaitDelay \in Nat /\ Timeouts \subseteq Nat /\ MaxKills \in Nat

VARIABLES
  config,     \* config.json: "whole", or "empty" within os.WriteFile
  flock,      \* who has the VM directory locked: a run, "set" or None
  pidlock,    \* the run with the fcntl lock on config.json, or None
  glock,      \* the run with the global lock, or None
  pc,         \* where each run is
  pid,        \* its process ID
  cancelled,  \* its context is cancelled
  delay,      \* ticks until WaitDelay expires
  hv,         \* its hypervisor: "none", "up" or "ended"
  spc,        \* where each stop is
  timeout,    \* its --timeout
  target,     \* the process ID it read first
  left,       \* ticks until gracefulTerminationCtx expires
  interrupted,\* its own context is cancelled
  outcome,    \* how it ended
  set,        \* where the set is
  \* Histories, which no guard reads (but for the number of `killed`, under MaxKills):
  asked,      \* the run each stop found running
  hits,       \* <<stop, run>>: signals that reached a process
  orphaned,   \* runs that were killed while their hypervisor was up
  killed,     \* processes killed by something other than stop
  torn        \* a run has read an empty config.json

runVars == <<pc, pid, cancelled, delay, hv>>
stopVars == <<spc, timeout, target, left, interrupted, outcome, asked>>
lockVars == <<flock, pidlock, glock>>
histories == <<hits, orphaned, killed, torn>>
vars == <<config, lockVars, runVars, stopVars, set, histories>>

Live(r) == pc[r] \notin {"new", "exited"}

Init ==
  /\ config = "whole"
  /\ flock = None /\ pidlock = None /\ glock = None
  /\ pc = [r \in Run |-> "new"] /\ pid = [r \in Run |-> None]
  /\ cancelled = [r \in Run |-> FALSE] /\ delay = [r \in Run |-> 0]
  /\ hv = [r \in Run |-> "none"]
  /\ spc = [s \in Stop |-> "new"] /\ timeout \in [Stop -> Timeouts]
  /\ target = [s \in Stop |-> None] /\ left = [s \in Stop |-> 0]
  /\ interrupted = [s \in Stop |-> FALSE] /\ outcome = [s \in Stop |-> "none"]
  /\ set = "new"
  /\ asked = [s \in Stop |-> None] /\ hits = {} /\ orphaned = {} /\ killed = {} /\ torn = FALSE

---------------------------------------------------------------------------
(* vetu run                                                                *)

Goto(r, l) == pc' = [pc EXCEPT ![r] = l]

\* A process ID that no run has had, whichever, and those of runs that are gone.
NewPids == {i \in Pid : \A q \in Run : pid[q] # i}
OldPids == {i \in Pid : \A q \in Run : pid[q] = i => ~Live(q)} \ NewPids

\* The kernel gives the new process an ID that no live one has.
RunBegin(r) ==
  /\ pc[r] = "new"
  /\ \E i \in OldPids \cup {j \in NewPids : j = CHOOSE k \in NewPids : TRUE} :
       pid' = [pid EXCEPT ![r] = i]
  /\ Goto(r, "open")
  /\ UNCHANGED <<config, lockVars, cancelled, delay, hv, stopVars, set, histories>>

\* Open and Trylock under the global lock.
RunOpen(r) ==
  /\ pc[r] = "open" /\ ~cancelled[r] /\ glock = None
  /\ IF flock = None THEN flock' = r /\ Goto(r, "config")
                     ELSE Goto(r, "exit") /\ UNCHANGED flock
  /\ UNCHANGED <<config, pidlock, glock, pid, cancelled, delay, hv, stopVars, set, histories>>

\* globallock.With gives up when the context is cancelled.
RunGiveUp(r) ==
  /\ pc[r] \in {"open", "net"} /\ cancelled[r]
  /\ Goto(r, "exit")
  /\ UNCHANGED <<config, lockVars, pid, cancelled, delay, hv, stopVars, set, histories>>

\* vmDir.Config(): an empty file is no JSON.
RunConfig(r) ==
  /\ pc[r] = "config"
  /\ Goto(r, IF config = "whole" THEN "pid" ELSE "exit")
  /\ torn' = (torn \/ config = "empty")
  /\ UNCHANGED <<config, lockVars, pid, cancelled, delay, hv, stopVars, set, hits, orphaned, killed>>

\* Fault: config.json is read after the PID lock is taken, and closing it drops
\* the lock.
RunPidDropped(r) ==
  /\ pc[r] = "pid"
  /\ Goto(r, IF pidlock = None THEN "net" ELSE "exit")
  /\ UNCHANGED <<config, lockVars, pid, cancelled, delay, hv, stopVars, set, histories>>

\* pidlock.Trylock; then the architecture of the VM may turn out to be wrong.
RunPid(r) ==
  /\ pc[r] = "pid"
  /\ IF pidlock = None THEN pidlock' = r /\ (Goto(r, "net") \/ Goto(r, "exit"))
                       ELSE Goto(r, "exit") /\ UNCHANGED pidlock
  /\ UNCHANGED <<config, flock, glock, pid, cancelled, delay, hv, stopVars, set, histories>>

\* The network is initialised under the global lock, which takes a second.
RunNet(r) ==
  /\ pc[r] = "net" /\ ~cancelled[r] /\ glock = None
  /\ glock' = r
  /\ Goto(r, "netinit")
  /\ UNCHANGED <<config, flock, pidlock, pid, cancelled, delay, hv, stopVars, set, histories>>

\* With releases the global lock, except when its callback fails.
RunNetDone(r) ==
  /\ pc[r] = "netinit"
  /\ \/ glock' = None /\ Goto(r, "start")
     \/ Goto(r, "exit") /\ UNCHANGED glock
  /\ UNCHANGED <<config, flock, pidlock, pid, cancelled, delay, hv, stopVars, set, histories>>

\* hv.Run() starts the hypervisor, unless the context is cancelled or there is
\* no binary.
RunStart(r) ==
  /\ pc[r] = "start"
  /\ \/ ~cancelled[r] /\ hv' = [hv EXCEPT ![r] = "up"] /\ Goto(r, "running")
     \/ Goto(r, "exit") /\ UNCHANGED hv
  /\ UNCHANGED <<config, lockVars, pid, cancelled, delay, stopVars, set, histories>>

\* Fault: run returns as soon as it has sent SIGTERM.
CancelNoWait(r) ==
  /\ pc[r] = "running" /\ cancelled[r] /\ hv[r] = "up"
  /\ Goto(r, "exit")
  /\ UNCHANGED <<config, lockVars, pid, cancelled, delay, hv, stopVars, set, histories>>

\* hv.Cancel: SIGTERM, which the hypervisor may or may not obey (HvEnds).
Cancel(r) ==
  /\ pc[r] = "running" /\ cancelled[r] /\ hv[r] = "up"
  /\ delay' = [delay EXCEPT ![r] = WaitDelay]
  /\ Goto(r, "cancelling")
  /\ UNCHANGED <<config, lockVars, pid, cancelled, hv, stopVars, set, histories>>

\* Fault: a hypervisor that does not obey is not killed.
KillHvNever(r) == FALSE /\ UNCHANGED vars

\* WaitDelay is over: the hypervisor is killed.
KillHv(r) ==
  /\ pc[r] = "cancelling" /\ delay[r] = 0 /\ hv[r] = "up"
  /\ hv' = [hv EXCEPT ![r] = "ended"]
  /\ UNCHANGED <<config, lockVars, pc, pid, cancelled, delay, stopVars, set, histories>>

\* hv.Run() returns.
RunWait(r) ==
  /\ pc[r] \in {"running", "cancelling"} /\ hv[r] = "ended"
  /\ Goto(r, "exit")
  /\ UNCHANGED <<config, lockVars, pid, cancelled, delay, hv, stopVars, set, histories>>

\* The end of a run's process and its context: the kernel drops its fcntl lock
\* and its flocks, but a hypervisor that is still up has inherited the latter.
Gone(r) ==
  /\ Goto(r, "exited")
  /\ cancelled' = [cancelled EXCEPT ![r] = FALSE] /\ delay' = [delay EXCEPT ![r] = 0]
  /\ pidlock' = IF pidlock = r THEN None ELSE pidlock
  /\ glock' = IF glock = r THEN None ELSE glock
  /\ flock' = IF flock = r /\ hv[r] # "up" THEN None ELSE flock

RunExit(r) ==
  /\ pc[r] = "exit"
  /\ Gone(r)
  /\ UNCHANGED <<config, pid, hv, stopVars, set, histories>>

\* SIGKILL.
Killed(r) ==
  /\ Gone(r)
  /\ orphaned' = IF hv[r] = "up" THEN orphaned \cup {r} ELSE orphaned

\* The hypervisor ends: the guest shuts down, it obeys SIGTERM, or it fails.  An
\* orphan's lock on the directory goes with it.
HvEnds(r) ==
  /\ hv[r] = "up"
  /\ hv' = [hv EXCEPT ![r] = "ended"]
  /\ flock' = IF flock = r /\ ~Live(r) THEN None ELSE flock
  /\ UNCHANGED <<config, pidlock, glock, pc, pid, cancelled, delay, stopVars, set, histories>>

\* SIGINT or SIGTERM from a terminal.
RunInterrupt(r) ==
  /\ Live(r) /\ ~cancelled[r]
  /\ cancelled' = [cancelled EXCEPT ![r] = TRUE]
  /\ UNCHANGED <<config, lockVars, pc, pid, delay, hv, stopVars, set, histories>>

\* Something else kills a run.
RunKilled(r) ==
  /\ Live(r) /\ Cardinality(killed) < MaxKills
  /\ killed' = killed \cup {r}
  /\ Killed(r)
  /\ UNCHANGED <<config, pid, hv, stopVars, set, hits, torn>>

---------------------------------------------------------------------------
(* vetu stop                                                               *)

\* PIDLock.Pid, a F_GETLK: whose lock is in the way, if any.
LockPid == IF pidlock = None THEN None ELSE pid[pidlock]

GotoStop(s, l) == spc' = [spc EXCEPT ![s] = l]

\* Open under the global lock, then the first Pid().
StopAsk(s) ==
  /\ spc[s] = "new" /\ glock = None
  /\ IF LockPid = None
     THEN /\ GotoStop(s, "done")
          /\ outcome' = [outcome EXCEPT ![s] = "not running"]
          /\ UNCHANGED <<target, asked>>
     ELSE /\ GotoStop(s, "signal")
          /\ target' = [target EXCEPT ![s] = LockPid]
          /\ asked' = [asked EXCEPT ![s] = pidlock]
          /\ UNCHANGED outcome
  /\ UNCHANGED <<config, lockVars, runVars, timeout, left, interrupted, set, histories>>

\* The runs that have a process ID: none, or one.
Owner(i) == {r \in Run : Live(r) /\ pid[r] = i}

Hit(s) == hits' = hits \cup {<<s, r>> : r \in Owner(target[s])}

\* Fault: the deadline is already over.
StopSignalLate(s) ==
  /\ spc[s] = "signal"
  /\ cancelled' = [r \in Run |-> cancelled[r] \/ r \in Owner(target[s])]
  /\ Hit(s)
  /\ left' = [left EXCEPT ![s] = 0]
  /\ GotoStop(s, "poll")
  /\ UNCHANGED <<config, lockVars, pc, pid, delay, hv, timeout, target, interrupted, outcome, asked,
                 set, orphaned, killed, torn>>

\* SIGINT, whether or not the process is still there.
StopSignal(s) ==
  /\ spc[s] = "signal"
  /\ cancelled' = [r \in Run |-> cancelled[r] \/ r \in Owner(target[s])]
  /\ Hit(s)
  /\ left' = [left EXCEPT ![s] = timeout[s]]
  /\ GotoStop(s, "poll")
  /\ UNCHANGED <<config, lockVars, pc, pid, delay, hv, timeout, target, interrupted, outcome, asked,
                 set, orphaned, killed, torn>>

\* Fault: the poll overwrites the process ID that the signals go to.
StopPollAgain(s) ==
  /\ spc[s] = "poll" /\ left[s] > 0 /\ ~interrupted[s]
  /\ IF LockPid = None
     THEN GotoStop(s, "done") /\ outcome' = [outcome EXCEPT ![s] = "stopped"] /\ UNCHANGED target
     ELSE target' = [target EXCEPT ![s] = LockPid] /\ UNCHANGED <<spc, outcome>>
  /\ UNCHANGED <<config, lockVars, runVars, timeout, left, interrupted, asked, set, histories>>

\* retry.Do: the PID lock is free.  As long as it is not, the poll is repeated.
StopPoll(s) ==
  /\ spc[s] = "poll" /\ left[s] > 0 /\ ~interrupted[s]
  /\ LockPid = None
  /\ GotoStop(s, "done")
  /\ outcome' = [outcome EXCEPT ![s] = "stopped"]
  /\ UNCHANGED <<config, lockVars, runVars, timeout, target, left, interrupted, asked, set, histories>>

\* retry.Do gives up, at the deadline or because stop itself was interrupted, and
\* SIGKILL goes to the process ID read first; Kill fails if there is none.
StopKill(s) ==
  /\ spc[s] = "poll" /\ (left[s] = 0 \/ interrupted[s])
  /\ GotoStop(s, "done")
  /\ Hit(s)
  /\ \/ /\ Owner(target[s]) = {}
        /\ outcome' = [outcome EXCEPT ![s] = "no such process"]
        /\ UNCHANGED <<lockVars, pc, cancelled, delay, orphaned>>
     \/ \E r \in Owner(target[s]) :
          /\ Killed(r)
          /\ outcome' = [outcome EXCEPT ![s] = "killed"]
  /\ UNCHANGED <<config, pid, hv, timeout, target, left, interrupted, asked, set, killed, torn>>

StopInterrupt(s) ==
  /\ spc[s] \in {"signal", "poll"} /\ ~interrupted[s]
  /\ interrupted' = [interrupted EXCEPT ![s] = TRUE]
  /\ UNCHANGED <<config, lockVars, runVars, spc, timeout, target, left, outcome, asked, set, histories>>

---------------------------------------------------------------------------
(* vetu set                                                                *)

\* Fault: set does not lock the directory.
SetOpenUnlocked ==
  /\ set = "new" /\ glock = None
  /\ set' = "config"
  /\ UNCHANGED <<config, lockVars, runVars, stopVars, histories>>

SetOpen ==
  /\ set = "new" /\ glock = None
  /\ IF flock = None THEN flock' = "set" /\ set' = "config"
                     ELSE set' = "exit" /\ UNCHANGED flock
  /\ UNCHANGED <<config, pidlock, glock, runVars, stopVars, histories>>

SetRead ==
  /\ set = "config"
  /\ set' = IF config = "whole" THEN "truncate" ELSE "exit"
  /\ UNCHANGED <<config, lockVars, runVars, stopVars, histories>>

\* SetConfig is os.WriteFile: open with O_TRUNC ...
SetTruncate ==
  /\ set = "truncate"
  /\ config' = "empty"
  /\ set' = "write"
  /\ UNCHANGED <<lockVars, runVars, stopVars, histories>>

\* ... and write, which may fail.
SetWrite ==
  /\ set = "write"
  /\ config' \in {"whole", "empty"}
  /\ killed' = IF config' = "empty" THEN killed \cup {"set"} ELSE killed
  /\ set' = "exit"
  /\ UNCHANGED <<lockVars, runVars, stopVars, hits, orphaned, torn>>

SetExit ==
  /\ set = "exit"
  /\ set' = "exited"
  /\ flock' = IF flock = "set" THEN None ELSE flock
  /\ UNCHANGED <<config, pidlock, glock, runVars, stopVars, histories>>

\* Something kills the set.
SetKilled ==
  /\ set \in {"config", "truncate", "write"} /\ Cardinality(killed) < MaxKills
  /\ killed' = killed \cup {"set"}
  /\ set' = "exited"
  /\ flock' = IF flock = "set" THEN None ELSE flock
  /\ UNCHANGED <<config, pidlock, glock, runVars, stopVars, hits, orphaned, torn>>

---------------------------------------------------------------------------
(* Time                                                                    *)

\* What takes no time next to the seconds that the timers count: a due timer is
\* served, a cancelled context noticed, an ended process waited for, and the PID
\* lock polled.
Due ==
  \/ \E r \in Run : pc[r] = "exit"
  \/ \E r \in Run : pc[r] = "running" /\ (cancelled[r] \/ hv[r] = "ended")
  \/ \E r \in Run : pc[r] = "cancelling" /\ (delay[r] = 0 \/ hv[r] = "ended")
  \/ \E s \in Stop : spc[s] = "signal"
  \/ \E s \in Stop : spc[s] = "poll" /\ (left[s] = 0 \/ interrupted[s] \/ pidlock = None)

Ticking == \/ \E r \in Run : pc[r] = "cancelling"
           \/ \E s \in Stop : spc[s] = "poll"

Tick ==
  /\ Ticking /\ ~Due
  /\ delay' = [r \in Run |-> IF pc[r] = "cancelling" THEN delay[r] - 1 ELSE delay[r]]
  /\ left' = [s \in Stop |-> IF spc[s] = "poll" THEN left[s] - 1 ELSE left[s]]
  /\ UNCHANGED <<config, lockVars, pc, pid, cancelled, hv, spc, timeout, target, interrupted, outcome,
                 asked, set, histories>>

---------------------------------------------------------------------------
RunStep(r) ==
  \/ RunOpen(r) \/ RunGiveUp(r) \/ RunConfig(r) \/ RunPid(r) \/ RunNet(r) \/ RunNetDone(r)
  \/ RunStart(r) \/ Cancel(r) \/ KillHv(r) \/ RunWait(r) \/ RunExit(r)

StopStep(s) == StopAsk(s) \/ StopSignal(s) \/ StopPoll(s) \/ StopKill(s)

SetStep == SetOpen \/ SetRead \/ SetTruncate \/ SetWrite \/ SetExit

\* Everything has ended, but for an orphan that never does.
Rest ==
  /\ \A r \in Run : pc[r] \in {"running", "exited"}
  /\ \A s \in Stop : spc[s] = "done"
  /\ UNCHANGED vars

Next ==
  \/ \E r \in Run : RunBegin(r) \/ RunStep(r) \/ HvEnds(r) \/ RunInterrupt(r) \/ RunKilled(r)
  \/ \E s \in Stop : StopStep(s) \/ StopInterrupt(s)
  \/ SetStep \/ SetKilled \/ Tick \/ Rest

Spec == Init /\ [][Next]_vars

\* Processes are scheduled and time passes; nothing makes a guest shut down, a
\* hypervisor obey, or a user start, interrupt or kill something.
FairSpec ==
  /\ Spec
  /\ \A r \in Run : WF_vars(RunStep(r))
  /\ \A s \in Stop : WF_vars(StopStep(s))
  /\ WF_vars(Tick)

---------------------------------------------------------------------------
\* VMDirectory.State, as list shows it and as stop understands it.
State == IF LockPid = None THEN "stopped" ELSE "running"

\* A VM whose hypervisor is up is shown as running, and only its own vetu run
\* holds the PID lock, although config.json is opened and closed by many; the one
\* exception is a hypervisor whose vetu run was killed.
StateIsTrue ==
  \A r \in Run : hv[r] = "up" /\ r \notin orphaned => State = "running" /\ pidlock = r

\* stop never signals a run that took the VM over after stop had asked for its
\* PID, however late SIGKILL is, unless the kernel has used the PID again.
StopSparesOthers ==
  \A s \in Stop, r \in Run : <<s, r>> \in hits => r = asked[s] \/ pid[r] = pid[asked[s]]

\* When stop returns because the PID lock was free, the VM it asked about is not
\* running any more: vetu run gives the lock up only after its hypervisor has
\* ended, unless it was killed.
StoppedIsGone ==
  \A s \in Stop : outcome[s] = "stopped" => hv[asked[s]] # "up" \/ asked[s] \in orphaned

\* A stop that waits longer than WaitDelay, and is not interrupted, leaves no
\* hypervisor behind: vetu run has killed it by the time it is killed itself.
\* (A run that happens to have been given the PID has not been asked to end.)
LongStopOrphansNone ==
  \A r \in orphaned :
    \/ r \in killed
    \/ \E s \in Stop : <<s, r>> \in hits /\ (timeout[s] <= WaitDelay \/ interrupted[s] \/ r # asked[s])

\* run finds config.json without its contents only if a set was killed, or failed,
\* between truncating and writing it: their locks exclude each other.
ReadsWholeConfig == torn => "set" \in killed

\* run.go: "ensure that it will eventually be killed after some time": once the
\* context is cancelled the hypervisor ends, obeys it or not, unless vetu run is
\* killed first.
CancelledEnds == \A r \in Run : (cancelled[r] /\ hv[r] = "up") ~> (hv[r] # "up" \/ r \in orphaned)

============================================================================
