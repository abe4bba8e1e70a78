--------------------------- MODULE RunStopProofs ---------------------------
(* Proofs about RunStop, for any number of runs and stops, of process IDs    *)
(* and any timers: the invariant that a step of every command keeps, and     *)
(* what follows from it for the user of vetu stop, list and set.             *)
EXTENDS RunStop, TLAPS

Label == {"new", "open", "config", "pid", "net", "netinit", "start", "running", "cancelling",
          "exit", "exited"}

\* Where a run has the PID lock.
Locked == {"net", "netinit", "start", "running", "cancelling"}

\* Every variable has its type.
TypeOK ==
  /\ config \in {"whole", "empty"}
  /\ flock \in Run \cup {"set", None} /\ pidlock \in Run \cup {None} /\ glock \in Run \cup {None}
  /\ pc \in [Run -> Label] /\ pid \in [Run -> Pid \cup {None}]
  /\ cancelled \in [Run -> BOOLEAN] /\ delay \in [Run -> Nat]
  /\ hv \in [Run -> {"none", "up", "ended"}]
  /\ spc \in [Stop -> {"new", "signal", "poll", "done"}]
  /\ timeout \in [Stop -> Timeouts] /\ target \in [Stop -> Pid \cup {None}]
  /\ left \in [Stop -> Nat] /\ interrupted \in [Stop -> BOOLEAN]
  /\ outcome \in [Stop -> {"none", "not running", "stopped", "no such process", "killed"}]
  /\ set \in {"new", "config", "truncate", "write", "exit", "exited"}
  /\ asked \in [Stop -> Run \cup {None}] /\ hits \in SUBSET (Stop \X Run)
  /\ orphaned \in SUBSET Run /\ killed \in SUBSET (Run \cup {"set"}) /\ torn \in BOOLEAN

\* What a run has where it is: a process ID, its locks and its hypervisor.
RunInv(r) ==
  /\ (pc[r] = "new") => (pid[r] = None)
  /\ (pc[r] # "new") => (pid[r] \in Pid)
  /\ (pc[r] = "config") => (flock = r)
  /\ (pc[r] \in Locked) => (pidlock = r)
  /\ (pidlock = r) => (pc[r] \in Locked \cup {"exit"})
  /\ (hv[r] = "up") => (pc[r] \in {"running", "cancelling"} \/ r \in orphaned)
  /\ (r \in orphaned) => (pc[r] = "exited")
  /\ delay[r] <= WaitDelay

\* A stop keeps to the run that it has asked about, which has had the PID lock.
AskInv(s) ==
  /\ (spc[s] = "new") => (asked[s] = None /\ outcome[s] = "none")
  /\ (spc[s] \in {"signal", "poll"}) => (asked[s] \in Run /\ target[s] = pid[asked[s]])
  /\ (asked[s] # None) => (pc[asked[s]] \in Locked \cup {"exit", "exited"})
  /\ (outcome[s] = "stopped") => (asked[s] # None /\ pc[asked[s]] \in {"exit", "exited"})

\* Signals go to that run, or to one that has been given its process ID.
HitInv ==
  \A s \in Stop, r \in Run : <<s, r>> \in hits =>
    /\ pc[r] # "new" /\ spc[s] \in {"poll", "done"}
    /\ asked[s] # None /\ pid[r] = pid[asked[s]]

\* The two timers: the deadline of stop starts to run before that of the run it
\* has signalled, and by no more than the run needs to notice the signal.
TimeInv(s) ==
  (spc[s] = "poll") =>
    /\ left[s] <= timeout[s]
    /\ (pc[asked[s]] \notin {"new", "exited"}) => cancelled[asked[s]]
    /\ (pc[asked[s]] = "running") => (left[s] = timeout[s])
    /\ (pc[asked[s]] = "cancelling") => (delay[asked[s]] + timeout[s] <= WaitDelay + left[s])

\* Who may see config.json without its contents.
ConfigInv ==
  /\ (config = "empty") => (set = "write" \/ "set" \in killed)
  /\ (set \in {"config", "truncate", "write"}) => (flock = "set")
  /\ ReadsWholeConfig

\* The inductive invariant.
IInv ==
  /\ TypeOK
  /\ \A r \in Run : RunInv(r)
  /\ \A s \in Stop : AskInv(s) /\ TimeInv(s)
  /\ HitInv /\ ConfigInv /\ LongStopOrphansNone

---------------------------------------------------------------------------
(* What a step leaves alone                                                *)

\* A run whose process ID and place are kept in the sense of what stops know of it:
\* a begun run keeps its process ID, and what has had the PID lock does not get
\* back to where it had not.
Onward(q) ==
  /\ (pc[q] # "new") => (pc'[q] # "new" /\ pid'[q] = pid[q])
  /\ (pc[q] \in Locked \cup {"exit", "exited"}) => (pc'[q] \in Locked \cup {"exit", "exited"})
  /\ (pc[q] \in {"exit", "exited"}) => (pc'[q] \in {"exit", "exited"})

\* A run that a step does not touch.
Kept(q) ==
  /\ pc'[q] = pc[q] /\ pid'[q] = pid[q] /\ cancelled'[q] = cancelled[q]
  /\ delay'[q] = delay[q] /\ hv'[q] = hv[q]
  /\ (flock = q) => (flock' = q)
  /\ (pidlock' = q) <=> (pidlock = q)
  /\ (q \in orphaned') <=> (q \in orphaned)

\* What a step of run r keeps of the other runs and of the stops.
StepOf(r) ==
  /\ \A q \in Run : q # r => Kept(q)
  /\ Onward(r)
  /\ UNCHANGED stopVars /\ hits' = hits

\* What excuses an orphan in LongStopOrphansNone.
Excused(r) ==
  \/ r \in killed
  \/ \E s \in Stop : <<s, r>> \in hits /\ (timeout[s] <= WaitDelay \/ interrupted[s] \/ r # asked[s])

LEMMA KeptInv == ASSUME IInv, NEW q \in Run, Kept(q) PROVE RunInv(q)' /\ Onward(q)
<1>1. RunInv(q)  BY DEF IInv
<1> QED  BY <1>1 DEF RunInv, Kept, Onward

\* What excused an orphan stays.
LEMMA LongFrame ==
  ASSUME IInv, \A q \in orphaned' : q \in orphaned \/ Excused(q)',
         hits \subseteq hits', killed \subseteq killed', timeout' = timeout,
         \A s \in Stop : interrupted[s] => interrupted'[s],
         \A s \in Stop : spc[s] # "new" => asked'[s] = asked[s]
  PROVE  LongStopOrphansNone'
<1> SUFFICES ASSUME NEW r \in orphaned, r \notin killed PROVE Excused(r)'
  BY DEF LongStopOrphansNone, Excused
<1>1. PICK s \in Stop : /\ <<s, r>> \in hits
                        /\ timeout[s] <= WaitDelay \/ interrupted[s] \/ r # asked[s]
  BY DEF IInv, LongStopOrphansNone
<1>2. r \in Run  BY DEF IInv, TypeOK
<1>3. spc[s] # "new"  BY <1>1, <1>2 DEF IInv, HitInv
<1> QED  BY <1>1, <1>3 DEF Excused

\* Signals of before, and new ones that go to whoever has the process ID that the
\* stop has read.
LEMMA HitFrame ==
  ASSUME IInv, \A q \in Run : Onward(q),
         \A s \in Stop : spc[s] # "new" => asked'[s] = asked[s],
         \A s \in Stop : spc[s] \in {"poll", "done"} => spc'[s] \in {"poll", "done"},
         \A s \in Stop, r \in Run : <<s, r>> \in hits' =>
           \/ <<s, r>> \in hits
           \/ /\ spc[s] \in {"signal", "poll"} /\ spc'[s] \in {"poll", "done"}
              /\ pc[r] # "new" /\ pid[r] = target[s]
  PROVE  HitInv'
<1> SUFFICES ASSUME NEW s \in Stop, NEW r \in Run, <<s, r>> \in hits'
             PROVE  /\ pc'[r] # "new" /\ spc'[s] \in {"poll", "done"}
                    /\ asked'[s] # None /\ pid'[r] = pid'[asked'[s]]
  BY DEF HitInv
<1>0. AskInv(s)  BY DEF IInv
<1>1. /\ pc[r] # "new" /\ spc'[s] \in {"poll", "done"} /\ spc[s] # "new"
      /\ asked[s] # None /\ pid[r] = pid[asked[s]]
  <2>1. CASE <<s, r>> \in hits  BY <2>1 DEF IInv, HitInv
  <2>2. CASE <<s, r>> \notin hits  BY <2>2, <1>0, ConstantsAssumption DEF AskInv
  <2> QED  BY <2>1, <2>2
<1>2. asked[s] \in Run /\ pc[asked[s]] # "new"
  <2>1. asked[s] \in Run \cup {None}  BY DEF IInv, TypeOK
  <2> QED  BY <1>0, <1>1, <2>1 DEF AskInv, Locked
<1>3. pid'[r] = pid[r] /\ pc'[r] # "new" /\ pid'[asked[s]] = pid[asked[s]]  BY <1>1, <1>2 DEF Onward
<1> QED  BY <1>1, <1>3

\* A stop that is not at work.
LEMMA AskFrame ==
  ASSUME IInv, NEW s \in Stop, \A q \in Run : Onward(q),
         asked'[s] = asked[s], spc'[s] = spc[s], target'[s] = target[s], outcome'[s] = outcome[s]
  PROVE  AskInv(s)'
<1>1. AskInv(s) /\ asked[s] \in Run \cup {None}  BY DEF IInv, TypeOK
<1>2. CASE asked[s] = None  BY <1>1, <1>2, ConstantsAssumption DEF AskInv
<1>3. CASE asked[s] \in Run
  <2>1. Onward(asked[s])  BY <1>3
  <2> QED  BY <2>1, <1>1, <1>3, ConstantsAssumption DEF AskInv, Onward, Locked
<1> QED  BY <1>1, <1>2, <1>3

\* Its deadline and that of its run, when neither moves.
LEMMA TimeFrame ==
  ASSUME IInv, NEW s \in Stop,
         asked'[s] = asked[s], spc'[s] = spc[s], timeout'[s] = timeout[s], left'[s] = left[s],
         asked[s] \in Run =>
           \/ pc'[asked[s]] = "exited"
           \/ /\ pc'[asked[s]] = pc[asked[s]] /\ delay'[asked[s]] = delay[asked[s]]
              /\ cancelled[asked[s]] => cancelled'[asked[s]]
  PROVE  TimeInv(s)'
<1>1. TimeInv(s) /\ AskInv(s)  BY DEF IInv
<1>2. CASE spc[s] # "poll"  BY <1>2 DEF TimeInv
<1>3. CASE spc[s] = "poll"
  <2>1. asked[s] \in Run  BY <1>1, <1>3 DEF AskInv
  <2> QED  BY <2>1, <1>1, <1>3 DEF TimeInv
<1> QED  BY <1>2, <1>3

LEMMA RunFrame ==
  ASSUME IInv, TypeOK', NEW r \in Run, StepOf(r), RunInv(r)',
         \A s \in Stop : asked[s] = r => TimeInv(s)',
         ConfigInv', LongStopOrphansNone'
  PROVE  IInv'
<1>1. \A q \in Run : Onward(q) /\ RunInv(q)'
  BY KeptInv DEF StepOf
<1>2. ASSUME NEW s \in Stop PROVE AskInv(s)' /\ TimeInv(s)'
  <2>1. AskInv(s)'  BY <1>1, AskFrame DEF StepOf, stopVars
  <2>2. CASE asked[s] = r  BY <2>1, <2>2
  <2>3. CASE asked[s] # r
    <3>1. TimeInv(s)'  BY <2>3, TimeFrame DEF StepOf, stopVars, Kept
    <3> QED  BY <2>1, <3>1
  <2> QED  BY <2>2, <2>3
<1>3. HitInv'  BY <1>1, HitFrame DEF StepOf, stopVars
<1> QED  BY <1>1, <1>2, <1>3 DEF IInv

---------------------------------------------------------------------------
(* vetu run                                                                *)

LEMMA ExitStep ==
  ASSUME IInv, NEW r \in Run, pc[r] \notin {"new", "exited"}, hv[r] # "up", Goto(r, "exit"),
         UNCHANGED <<config, lockVars, pid, cancelled, delay, hv, stopVars, set, histories>>
  PROVE  IInv'
<1> USE ConstantsAssumption DEF Goto, lockVars, stopVars, histories
<1>1. TypeOK /\ RunInv(r)  BY DEF IInv
<1>2. TypeOK'  BY <1>1 DEF TypeOK, Label
<1>3. StepOf(r)  BY <1>1 DEF TypeOK, StepOf, Kept, Onward, Locked
<1>4. RunInv(r)'  BY <1>1 DEF RunInv, TypeOK, Label, Locked
<1>5. ASSUME NEW s \in Stop, asked[s] = r PROVE TimeInv(s)'
  <2>1. TimeInv(s) /\ AskInv(s)  BY DEF IInv
  <2> QED  BY <1>1, <1>5, <2>1 DEF TimeInv, AskInv, RunInv, TypeOK, Label, Locked
<1>6. ConfigInv'
  <2>1. ConfigInv  BY DEF IInv
  <2> QED  BY <1>1, <2>1 DEF ConfigInv, ReadsWholeConfig, RunInv, TypeOK, Label
<1>7. LongStopOrphansNone'  BY LongFrame
<1> QED  BY <1>2, <1>3, <1>4, <1>5, <1>6, <1>7, RunFrame

LEMMA BeginStep ==
  ASSUME IInv, NEW r \in Run, NEW i \in Pid, pc[r] = "new", pid' = [pid EXCEPT ![r] = i], Goto(r, "open"),
         UNCHANGED <<config, lockVars, cancelled, delay, hv, stopVars, set, histories>>
  PROVE  IInv'
<1> USE ConstantsAssumption DEF Goto, lockVars, stopVars, histories
<1>1. TypeOK /\ RunInv(r)  BY DEF IInv
<1>2. TypeOK'  BY <1>1 DEF TypeOK, Label
<1>3. StepOf(r)  BY <1>1 DEF TypeOK, StepOf, Kept, Onward, Locked
<1>4. RunInv(r)'  BY <1>1 DEF RunInv, TypeOK, Label, Locked
<1>5. ASSUME NEW s \in Stop, asked[s] = r PROVE TimeInv(s)'
  <2>1. TimeInv(s) /\ AskInv(s)  BY DEF IInv
  <2> QED  BY <1>1, <1>5, <2>1 DEF TimeInv, AskInv, RunInv, TypeOK, Label, Locked
<1>6. ConfigInv'
  <2>1. ConfigInv  BY DEF IInv
  <2> QED  BY <1>1, <2>1 DEF ConfigInv, ReadsWholeConfig, RunInv, TypeOK, Label
<1>7. LongStopOrphansNone'  BY LongFrame
<1> QED  BY <1>2, <1>3, <1>4, <1>5, <1>6, <1>7, RunFrame

LEMMA OpenStep ==
  ASSUME IInv, NEW r \in Run, pc[r] = "open", flock = None, flock' = r, Goto(r, "config"),
         UNCHANGED <<config, pidlock, glock, pid, cancelled, delay, hv, stopVars, set, histories>>
  PROVE  IInv'
<1> USE ConstantsAssumption DEF Goto, lockVars, stopVars, histories
<1>1. TypeOK /\ RunInv(r)  BY DEF IInv
<1>2. TypeOK'  BY <1>1 DEF TypeOK, Label
<1>3. StepOf(r)  BY <1>1 DEF TypeOK, StepOf, Kept, Onward, Locked
<1>4. RunInv(r)'  BY <1>1 DEF RunInv, TypeOK, Label, Locked
<1>5. ASSUME NEW s \in Stop, asked[s] = r PROVE TimeInv(s)'
  <2>1. TimeInv(s) /\ AskInv(s)  BY DEF IInv
  <2> QED  BY <1>1, <1>5, <2>1 DEF TimeInv, AskInv, RunInv, TypeOK, Label, Locked
<1>6. ConfigInv'
  <2>1. ConfigInv  BY DEF IInv
  <2> QED  BY <1>1, <2>1 DEF ConfigInv, ReadsWholeConfig, RunInv, TypeOK, Label
<1>7. LongStopOrphansNone'  BY LongFrame
<1> QED  BY <1>2, <1>3, <1>4, <1>5, <1>6, <1>7, RunFrame

LEMMA GiveUpStep ==
  ASSUME IInv, NEW r \in Run, RunGiveUp(r)
  PROVE  IInv'
<1> USE ConstantsAssumption DEF RunGiveUp, Goto, lockVars, stopVars, histories
<1>1. TypeOK /\ RunInv(r)  BY DEF IInv
<1>2. TypeOK'  BY <1>1 DEF TypeOK, Label
<1>3. StepOf(r)  BY <1>1 DEF TypeOK, StepOf, Kept, Onward, Locked
<1>4. RunInv(r)'  BY <1>1 DEF RunInv, TypeOK, Label, Locked
<1>5. ASSUME NEW s \in Stop, asked[s] = r PROVE TimeInv(s)'
  <2>1. TimeInv(s) /\ AskInv(s)  BY DEF IInv
  <2> QED  BY <1>1, <1>5, <2>1 DEF TimeInv, AskInv, RunInv, TypeOK, Label, Locked
<1>6. ConfigInv'
  <2>1. ConfigInv  BY DEF IInv
  <2> QED  BY <1>1, <2>1 DEF ConfigInv, ReadsWholeConfig, RunInv, TypeOK, Label
<1>7. LongStopOrphansNone'  BY LongFrame
<1> QED  BY <1>2, <1>3, <1>4, <1>5, <1>6, <1>7, RunFrame

LEMMA ConfigStep ==
  ASSUME IInv, NEW r \in Run, RunConfig(r)
  PROVE  IInv'
<1> USE ConstantsAssumption DEF RunConfig, Goto, lockVars, stopVars, histories
<1>1. TypeOK /\ RunInv(r)  BY DEF IInv
<1>2. TypeOK'  BY <1>1 DEF TypeOK, Label
<1>3. StepOf(r)  BY <1>1 DEF TypeOK, StepOf, Kept, Onward, Locked
<1>4. RunInv(r)'  BY <1>1 DEF RunInv, TypeOK, Label, Locked
<1>5. ASSUME NEW s \in Stop, asked[s] = r PROVE TimeInv(s)'
  <2>1. TimeInv(s) /\ AskInv(s)  BY DEF IInv
  <2> QED  BY <1>1, <1>5, <2>1 DEF TimeInv, AskInv, RunInv, TypeOK, Label, Locked
<1>6. ConfigInv'
  <2>1. ConfigInv  BY DEF IInv
  <2> QED  BY <1>1, <2>1 DEF ConfigInv, ReadsWholeConfig, RunInv, TypeOK, Label
<1>7. LongStopOrphansNone'  BY LongFrame
<1> QED  BY <1>2, <1>3, <1>4, <1>5, <1>6, <1>7, RunFrame

LEMMA NetStep ==
  ASSUME IInv, NEW r \in Run, RunNet(r)
  PROVE  IInv'
<1> USE ConstantsAssumption DEF RunNet, Goto, lockVars, stopVars, histories
<1>1. TypeOK /\ RunInv(r)  BY DEF IInv
<1>2. TypeOK'  BY <1>1 DEF TypeOK, Label
<1>3. StepOf(r)  BY <1>1 DEF TypeOK, StepOf, Kept, Onward, Locked
<1>4. RunInv(r)'  BY <1>1 DEF RunInv, TypeOK, Label, Locked
<1>5. ASSUME NEW s \in Stop, asked[s] = r PROVE TimeInv(s)'
  <2>1. TimeInv(s) /\ AskInv(s)  BY DEF IInv
  <2> QED  BY <1>1, <1>5, <2>1 DEF TimeInv, AskInv, RunInv, TypeOK, Label, Locked
<1>6. ConfigInv'
  <2>1. ConfigInv  BY DEF IInv
  <2> QED  BY <1>1, <2>1 DEF ConfigInv, ReadsWholeConfig, RunInv, TypeOK, Label
<1>7. LongStopOrphansNone'  BY LongFrame
<1> QED  BY <1>2, <1>3, <1>4, <1>5, <1>6, <1>7, RunFrame

LEMMA KillHvStep ==
  ASSUME IInv, NEW r \in Run, KillHv(r)
  PROVE  IInv'
<1> USE ConstantsAssumption DEF KillHv, Goto, lockVars, stopVars, histories
<1>1. TypeOK /\ RunInv(r)  BY DEF IInv
<1>2. TypeOK'  BY <1>1 DEF TypeOK, Label
<1>3. StepOf(r)  BY <1>1 DEF TypeOK, StepOf, Kept, Onward, Locked
<1>4. RunInv(r)'  BY <1>1 DEF RunInv, TypeOK, Label, Locked
<1>5. ASSUME NEW s \in Stop, asked[s] = r PROVE TimeInv(s)'
  <2>1. TimeInv(s) /\ AskInv(s)  BY DEF IInv
  <2> QED  BY <1>1, <1>5, <2>1 DEF TimeInv, AskInv, RunInv, TypeOK, Label, Locked
<1>6. ConfigInv'
  <2>1. ConfigInv  BY DEF IInv
  <2> QED  BY <1>1, <2>1 DEF ConfigInv, ReadsWholeConfig, RunInv, TypeOK, Label
<1>7. LongStopOrphansNone'  BY LongFrame
<1> QED  BY <1>2, <1>3, <1>4, <1>5, <1>6, <1>7, RunFrame

LEMMA WaitStep ==
  ASSUME IInv, NEW r \in Run, RunWait(r)
  PROVE  IInv'
<1> USE ConstantsAssumption DEF RunWait, Goto, lockVars, stopVars, histories
<1>1. TypeOK /\ RunInv(r)  BY DEF IInv
<1>2. TypeOK'  BY <1>1 DEF TypeOK, Label
<1>3. StepOf(r)  BY <1>1 DEF TypeOK, StepOf, Kept, Onward, Locked
<1>4. RunInv(r)'  BY <1>1 DEF RunInv, TypeOK, Label, Locked
<1>5. ASSUME NEW s \in Stop, asked[s] = r PROVE TimeInv(s)'
  <2>1. TimeInv(s) /\ AskInv(s)  BY DEF IInv
  <2> QED  BY <1>1, <1>5, <2>1 DEF TimeInv, AskInv, RunInv, TypeOK, Label, Locked
<1>6. ConfigInv'
  <2>1. ConfigInv  BY DEF IInv
  <2> QED  BY <1>1, <2>1 DEF ConfigInv, ReadsWholeConfig, RunInv, TypeOK, Label
<1>7. LongStopOrphansNone'  BY LongFrame
<1> QED  BY <1>2, <1>3, <1>4, <1>5, <1>6, <1>7, RunFrame

LEMMA PidStep ==
  ASSUME IInv, NEW r \in Run, pc[r] = "pid", pidlock = None, pidlock' = r, NEW l \in {"net", "exit"}, Goto(r, l),
         UNCHANGED <<config, flock, glock, pid, cancelled, delay, hv, stopVars, set, histories>>
  PROVE  IInv'
<1> USE ConstantsAssumption DEF Goto, lockVars, stopVars, histories
<1>1. TypeOK /\ RunInv(r)  BY DEF IInv
<1>2. TypeOK'  BY <1>1 DEF TypeOK, Label
<1>3. StepOf(r)  BY <1>1 DEF TypeOK, StepOf, Kept, Onward, Locked
<1>4. RunInv(r)'  BY <1>1 DEF RunInv, TypeOK, Label, Locked
<1>5. ASSUME NEW s \in Stop, asked[s] = r PROVE TimeInv(s)'
  <2>1. TimeInv(s) /\ AskInv(s)  BY DEF IInv
  <2> QED  BY <1>1, <1>5, <2>1 DEF TimeInv, AskInv, RunInv, TypeOK, Label, Locked
<1>6. ConfigInv'
  <2>1. ConfigInv  BY DEF IInv
  <2> QED  BY <1>1, <2>1 DEF ConfigInv, ReadsWholeConfig, RunInv, TypeOK, Label
<1>7. LongStopOrphansNone'  BY LongFrame
<1> QED  BY <1>2, <1>3, <1>4, <1>5, <1>6, <1>7, RunFrame

LEMMA NetDoneStep ==
  ASSUME IInv, NEW r \in Run, pc[r] = "netinit", glock' = None, Goto(r, "start"),
         UNCHANGED <<config, flock, pidlock, pid, cancelled, delay, hv, stopVars, set, histories>>
  PROVE  IInv'
<1> USE ConstantsAssumption DEF Goto, lockVars, stopVars, histories
<1>1. TypeOK /\ RunInv(r)  BY DEF IInv
<1>2. TypeOK'  BY <1>1 DEF TypeOK, Label
<1>3. StepOf(r)  BY <1>1 DEF TypeOK, StepOf, Kept, Onward, Locked
<1>4. RunInv(r)'  BY <1>1 DEF RunInv, TypeOK, Label, Locked
<1>5. ASSUME NEW s \in Stop, asked[s] = r PROVE TimeInv(s)'
  <2>1. TimeInv(s) /\ AskInv(s)  BY DEF IInv
  <2> QED  BY <1>1, <1>5, <2>1 DEF TimeInv, AskInv, RunInv, TypeOK, Label, Locked
<1>6. ConfigInv'
  <2>1. ConfigInv  BY DEF IInv
  <2> QED  BY <1>1, <2>1 DEF ConfigInv, ReadsWholeConfig, RunInv, TypeOK, Label
<1>7. LongStopOrphansNone'  BY LongFrame
<1> QED  BY <1>2, <1>3, <1>4, <1>5, <1>6, <1>7, RunFrame

LEMMA StartStep ==
  ASSUME IInv, NEW r \in Run, pc[r] = "start", ~cancelled[r], hv' = [hv EXCEPT ![r] = "up"], Goto(r, "running"),
         UNCHANGED <<config, lockVars, pid, cancelled, delay, stopVars, set, histories>>
  PROVE  IInv'
<1> USE ConstantsAssumption DEF Goto, lockVars, stopVars, histories
<1>1. TypeOK /\ RunInv(r)  BY DEF IInv
<1>2. TypeOK'  BY <1>1 DEF TypeOK, Label
<1>3. StepOf(r)  BY <1>1 DEF TypeOK, StepOf, Kept, Onward, Locked
<1>4. RunInv(r)'  BY <1>1 DEF RunInv, TypeOK, Label, Locked
<1>5. ASSUME NEW s \in Stop, asked[s] = r PROVE TimeInv(s)'
  <2>1. TimeInv(s) /\ AskInv(s)  BY DEF IInv
  <2> QED  BY <1>1, <1>5, <2>1 DEF TimeInv, AskInv, RunInv, TypeOK, Label, Locked
<1>6. ConfigInv'
  <2>1. ConfigInv  BY DEF IInv
  <2> QED  BY <1>1, <2>1 DEF ConfigInv, ReadsWholeConfig, RunInv, TypeOK, Label
<1>7. LongStopOrphansNone'  BY LongFrame
<1> QED  BY <1>2, <1>3, <1>4, <1>5, <1>6, <1>7, RunFrame

LEMMA CancelStep ==
  ASSUME IInv, NEW r \in Run, Cancel(r)
  PROVE  IInv'
<1> USE ConstantsAssumption DEF Cancel, Goto, lockVars, stopVars, histories
<1>1. TypeOK /\ RunInv(r)  BY DEF IInv
<1>2. TypeOK'  BY <1>1 DEF TypeOK, Label
<1>3. StepOf(r)  BY <1>1 DEF TypeOK, StepOf, Kept, Onward, Locked
<1>4. RunInv(r)'
  <2>1. /\ pc[r] = "running" /\ pc'[r] = "cancelling" /\ delay'[r] = WaitDelay
        /\ UNCHANGED <<pid, hv, orphaned, flock, pidlock>>
    BY <1>1 DEF TypeOK
  <2> HIDE DEF Cancel
  <2> QED  BY <1>1, <2>1 DEF RunInv, Locked
<1>5. ASSUME NEW s \in Stop, asked[s] = r PROVE TimeInv(s)'
  <2>1. TimeInv(s) /\ AskInv(s)  BY DEF IInv
  <2>2. /\ pc[r] = "running" /\ pc'[r] = "cancelling" /\ delay'[r] = WaitDelay
        /\ UNCHANGED <<cancelled, spc, asked, left, timeout>> /\ cancelled[r]
        /\ left[s] \in Nat /\ timeout[s] \in Nat
    BY <1>1 DEF TypeOK
  <2> HIDE DEF Cancel
  <2> QED  BY <1>5, <2>1, <2>2 DEF TimeInv
<1>6. ConfigInv'
  <2>1. ConfigInv  BY DEF IInv
  <2> QED  BY <1>1, <2>1 DEF ConfigInv, ReadsWholeConfig, RunInv, TypeOK, Label
<1>7. LongStopOrphansNone'  BY LongFrame
<1> QED  BY <1>2, <1>3, <1>4, <1>5, <1>6, <1>7, RunFrame

LEMMA RunExitStep ==
  ASSUME IInv, NEW r \in Run, RunExit(r)
  PROVE  IInv'
<1> USE ConstantsAssumption DEF RunExit, Gone, Goto, lockVars, stopVars, histories
<1>1. TypeOK /\ RunInv(r)  BY DEF IInv
<1>2. TypeOK'  BY <1>1 DEF TypeOK, Label
<1>3. StepOf(r)  BY <1>1 DEF TypeOK, StepOf, Kept, Onward, Locked
<1>4. RunInv(r)'
  <2>1. /\ pc[r] = "exit" /\ pc'[r] = "exited" /\ delay'[r] = 0 /\ pidlock' # r
        /\ UNCHANGED <<pid, hv, orphaned>>
    BY <1>1 DEF TypeOK
  <2> HIDE DEF RunExit
  <2> QED  BY <1>1, <2>1 DEF RunInv, Locked
<1>5. ASSUME NEW s \in Stop, asked[s] = r PROVE TimeInv(s)'
  <2>1. TimeInv(s) /\ AskInv(s)  BY DEF IInv
  <2> QED  BY <1>1, <1>5, <2>1 DEF TimeInv, AskInv, RunInv, TypeOK, Label, Locked
<1>6. ConfigInv'
  <2>1. ConfigInv  BY DEF IInv
  <2> QED  BY <1>1, <2>1 DEF ConfigInv, ReadsWholeConfig, RunInv, TypeOK, Label
<1>7. LongStopOrphansNone'  BY LongFrame
<1> QED  BY <1>2, <1>3, <1>4, <1>5, <1>6, <1>7, RunFrame

LEMMA HvEndsStep ==
  ASSUME IInv, NEW r \in Run, HvEnds(r)
  PROVE  IInv'
<1> USE ConstantsAssumption DEF HvEnds, Live, lockVars, stopVars, histories
<1>1. TypeOK /\ RunInv(r)  BY DEF IInv
<1>2. TypeOK'  BY <1>1 DEF TypeOK, Label
<1>3. StepOf(r)  BY <1>1 DEF TypeOK, StepOf, Kept, Onward, Locked
<1>4. RunInv(r)'  BY <1>1 DEF RunInv, TypeOK, Label, Locked
<1>5. ASSUME NEW s \in Stop, asked[s] = r PROVE TimeInv(s)'
  <2>1. TimeInv(s) /\ AskInv(s)  BY DEF IInv
  <2> QED  BY <1>1, <1>5, <2>1 DEF TimeInv, AskInv, RunInv, TypeOK, Label, Locked
<1>6. ConfigInv'
  <2>1. ConfigInv  BY DEF IInv
  <2> QED  BY <1>1, <2>1 DEF ConfigInv, ReadsWholeConfig, RunInv, TypeOK, Label
<1>7. LongStopOrphansNone'  BY LongFrame
<1> QED  BY <1>2, <1>3, <1>4, <1>5, <1>6, <1>7, RunFrame

LEMMA RunInterruptStep ==
  ASSUME IInv, NEW r \in Run, RunInterrupt(r)
  PROVE  IInv'
<1> USE ConstantsAssumption DEF RunInterrupt, Live, lockVars, stopVars, histories
<1>1. TypeOK /\ RunInv(r)  BY DEF IInv
<1>2. TypeOK'  BY <1>1 DEF TypeOK, Label
<1>3. StepOf(r)  BY <1>1 DEF TypeOK, StepOf, Kept, Onward, Locked
<1>4. RunInv(r)'  BY <1>1 DEF RunInv, TypeOK, Label, Locked
<1>5. ASSUME NEW s \in Stop, asked[s] = r PROVE TimeInv(s)'
  <2>1. TimeInv(s) /\ AskInv(s)  BY DEF IInv
  <2> QED  BY <1>1, <1>5, <2>1 DEF TimeInv, AskInv, RunInv, TypeOK, Label, Locked
<1>6. ConfigInv'
  <2>1. ConfigInv  BY DEF IInv
  <2> QED  BY <1>1, <2>1 DEF ConfigInv, ReadsWholeConfig, RunInv, TypeOK, Label
<1>7. LongStopOrphansNone'  BY LongFrame
<1> QED  BY <1>2, <1>3, <1>4, <1>5, <1>6, <1>7, RunFrame

LEMMA RunSteps == ASSUME IInv, NEW r \in Run, RunStep(r) PROVE IInv'
<1> USE DEF lockVars
<1>0. RunInv(r)  BY DEF IInv
<1>1. CASE RunOpen(r)
  <2>1. CASE flock = None  BY <1>1, <2>1, OpenStep DEF RunOpen
  <2>2. CASE flock # None  BY <1>0, <1>1, <2>2, ExitStep DEF RunOpen, RunInv
  <2> QED  BY <2>1, <2>2
<1>2. CASE RunPid(r)
  <2>1. CASE pidlock = None  BY <1>2, <2>1, PidStep DEF RunPid
  <2>2. CASE pidlock # None  BY <1>0, <1>2, <2>2, ExitStep DEF RunPid, RunInv
  <2> QED  BY <2>1, <2>2
<1>3. CASE RunNetDone(r)
  <2>1. CASE glock' = None /\ Goto(r, "start")  BY <1>3, <2>1, NetDoneStep DEF RunNetDone
  <2>2. CASE Goto(r, "exit") /\ UNCHANGED glock  BY <1>0, <1>3, <2>2, ExitStep DEF RunNetDone, RunInv
  <2> QED  BY <1>3, <2>1, <2>2 DEF RunNetDone
<1>4. CASE RunStart(r)
  <2>1. CASE ~cancelled[r] /\ hv' = [hv EXCEPT ![r] = "up"] /\ Goto(r, "running")
    BY <1>4, <2>1, StartStep DEF RunStart
  <2>2. CASE Goto(r, "exit") /\ UNCHANGED hv  BY <1>0, <1>4, <2>2, ExitStep DEF RunStart, RunInv
  <2> QED  BY <1>4, <2>1, <2>2 DEF RunStart
<1> QED
  BY <1>1, <1>2, <1>3, <1>4, GiveUpStep, ConfigStep, NetStep, CancelStep, KillHvStep, WaitStep,
     RunExitStep DEF RunStep


\* The death of a run, whoever kills it.
LEMMA KilledEffect ==
  ASSUME IInv, NEW r \in Run, Live(r), Killed(r), UNCHANGED <<pid, hv>>
  PROVE  /\ \A q \in Run : q # r => Kept(q)
         /\ Onward(r) /\ RunInv(r)' /\ pc'[r] = "exited"
<1> USE ConstantsAssumption
<1>1. TypeOK /\ RunInv(r)  BY DEF IInv
<1>2. /\ pc'[r] = "exited" /\ delay'[r] = 0 /\ pidlock' # r
      /\ (hv[r] = "up") => (r \in orphaned')
  BY <1>1 DEF TypeOK, Killed, Gone, Goto
<1>3. ASSUME NEW q \in Run, q # r PROVE Kept(q)
  <2>1. /\ pc'[q] = pc[q] /\ cancelled'[q] = cancelled[q] /\ delay'[q] = delay[q]
    BY <1>1, <1>3 DEF TypeOK, Killed, Gone, Goto
  <2>2. (q \in orphaned') <=> (q \in orphaned)  BY <1>3 DEF Killed
  <2>3. (flock = q => flock' = q) /\ ((pidlock' = q) <=> (pidlock = q))
    BY <1>3 DEF Killed, Gone
  <2> QED  BY <2>1, <2>2, <2>3 DEF Kept
<1>4. RunInv(r)'  BY <1>1, <1>2 DEF RunInv, Locked, Live
<1>5. Onward(r)  BY <1>1, <1>2 DEF Onward
<1> QED  BY <1>2, <1>3, <1>4, <1>5

LEMMA RunKilledStep == ASSUME IInv, NEW r \in Run, RunKilled(r) PROVE IInv'
<1> USE ConstantsAssumption
<1>1. TypeOK /\ RunInv(r)  BY DEF IInv
<1>2. TypeOK'  BY <1>1 DEF TypeOK, Label, RunKilled, Killed, Gone, Goto, stopVars
<1>3. StepOf(r) /\ RunInv(r)' /\ pc'[r] = "exited"
  BY KilledEffect DEF RunKilled, StepOf, stopVars
<1>4. ASSUME NEW s \in Stop, asked[s] = r PROVE TimeInv(s)'
  BY <1>3, <1>4, TimeFrame DEF RunKilled, stopVars
<1>5. ConfigInv'
  <2>1. ConfigInv  BY DEF IInv
  <2> QED  BY <1>1, <2>1 DEF ConfigInv, ReadsWholeConfig, RunKilled, Killed, Gone
<1>6. LongStopOrphansNone'
  BY <1>1, LongFrame DEF RunKilled, Killed, stopVars, Excused
<1> QED  BY <1>2, <1>3, <1>4, <1>5, <1>6, RunFrame

---------------------------------------------------------------------------
(* vetu stop                                                               *)

\* The end of the proof for a step of stop s: what remains to be shown of it.
LEMMA StopFrame ==
  ASSUME IInv, TypeOK', NEW s \in Stop,
         \A q \in Run : Onward(q) /\ RunInv(q)',
         \A t \in Stop : t # s => /\ asked'[t] = asked[t] /\ spc'[t] = spc[t] /\ target'[t] = target[t]
                                  /\ outcome'[t] = outcome[t],
         \A t \in Stop : t # s => TimeInv(t)',
         AskInv(s)', TimeInv(s)', HitInv', LongStopOrphansNone',
         UNCHANGED <<config, set, killed, torn>>, (flock = "set") => (flock' = "set")
  PROVE  IInv'
<1>1. ASSUME NEW t \in Stop PROVE AskInv(t)' /\ TimeInv(t)'
  <2>1. CASE t = s  BY <2>1
  <2>2. CASE t # s  BY <2>2, AskFrame
  <2> QED  BY <2>1, <2>2
<1>2. ConfigInv'  BY DEF IInv, ConfigInv, ReadsWholeConfig
<1> QED  BY <1>1, <1>2 DEF IInv

LEMMA PidOfLock == ASSUME IInv PROVE (LockPid = None) <=> (pidlock = None)
<1>1. CASE pidlock = None  BY <1>1 DEF LockPid
<1>2. CASE pidlock \in Run
  <2>1. RunInv(pidlock)  BY <1>2 DEF IInv
  <2>2. pid[pidlock] \in Pid  BY <2>1 DEF RunInv, Locked
  <2> QED  BY <2>2, <1>2, ConstantsAssumption DEF LockPid
<1> QED  BY <1>1, <1>2 DEF IInv, TypeOK

LEMMA StopAskStep == ASSUME IInv, NEW s \in Stop, StopAsk(s) PROVE IInv'
<1> USE ConstantsAssumption DEF lockVars, runVars, histories
<1>1. TypeOK /\ AskInv(s) /\ TimeInv(s)  BY DEF IInv
<1>2. /\ spc[s] = "new" /\ asked[s] = None /\ outcome[s] = "none"
      /\ UNCHANGED <<config, lockVars, runVars, timeout, left, interrupted, set, histories>>
  BY <1>1 DEF StopAsk, AskInv
<1>3. \A q \in Run : Kept(q)  BY <1>2 DEF Kept
<1>4. \A q \in Run : Onward(q) /\ RunInv(q)'  BY <1>3, KeptInv
<1>5. /\ spc' \in [Stop -> {"new", "signal", "poll", "done"}]
      /\ target' \in [Stop -> Pid \cup {None}] /\ asked' \in [Stop -> Run \cup {None}]
      /\ outcome' \in [Stop -> {"none", "not running", "stopped", "no such process", "killed"}]
      /\ \A t \in Stop : t # s => /\ asked'[t] = asked[t] /\ spc'[t] = spc[t] /\ target'[t] = target[t]
                                  /\ outcome'[t] = outcome[t]
      /\ \/ spc'[s] = "done" /\ asked'[s] = None /\ outcome'[s] = "not running"
         \/ /\ spc'[s] = "signal" /\ asked'[s] = pidlock /\ outcome'[s] = "none"
            /\ pidlock \in Run /\ target'[s] = pid[pidlock]
  <2>1. CASE LockPid = None
    <3>1. /\ spc' = [spc EXCEPT ![s] = "done"] /\ outcome' = [outcome EXCEPT ![s] = "not running"]
          /\ target' = target /\ asked' = asked
      BY <2>1 DEF StopAsk, GotoStop
    <3> QED  BY <1>1, <1>2, <3>1 DEF TypeOK
  <2>2. CASE LockPid # None
    <3>1. pidlock \in Run  BY <1>1, <2>2, PidOfLock DEF TypeOK
    <3>2. LockPid = pid[pidlock] /\ LockPid \in Pid \cup {None}  BY <1>1, <3>1 DEF LockPid, TypeOK
    <3>3. /\ spc' = [spc EXCEPT ![s] = "signal"] /\ target' = [target EXCEPT ![s] = pid[pidlock]]
          /\ asked' = [asked EXCEPT ![s] = pidlock] /\ outcome' = outcome
      BY <2>2, <3>2 DEF StopAsk, GotoStop
    <3>4. pid[pidlock] \in Pid \cup {None}  BY <3>2
    <3> QED  BY <1>1, <1>2, <3>1, <3>3, <3>4 DEF TypeOK
  <2> QED  BY <2>1, <2>2
<1>6. TypeOK'  BY <1>1, <1>2, <1>5 DEF TypeOK
<1>7. AskInv(s)'
  <2>1. CASE asked'[s] = None  BY <1>5, <2>1 DEF AskInv
  <2>2. CASE asked'[s] \in Run
    <3>1. RunInv(asked'[s])  BY <2>2 DEF IInv
    <3> QED  BY <1>2, <1>5, <2>2, <3>1 DEF AskInv, RunInv
  <2> QED  BY <1>6, <2>1, <2>2 DEF TypeOK
<1>8. TimeInv(s)'  BY <1>5 DEF TimeInv
<1>9. ASSUME NEW t \in Stop, t # s PROVE TimeInv(t)'  BY <1>2, <1>5, <1>9, TimeFrame
<1>10. HitInv'  BY <1>2, <1>4, <1>5, HitFrame
<1>11. LongStopOrphansNone'  BY <1>2, <1>5, LongFrame
<1> QED  BY <1>2, <1>4, <1>5, <1>6, <1>7, <1>8, <1>9, <1>10, <1>11, StopFrame

\* SIGINT reaches the run that was asked about, if it is still there.
LEMMA StopSignalStep == ASSUME IInv, NEW s \in Stop, StopSignal(s) PROVE IInv'
<1> USE ConstantsAssumption DEF lockVars
<1>1. TypeOK /\ AskInv(s) /\ TimeInv(s)  BY DEF IInv
<1>2. /\ spc[s] = "signal" /\ spc' = [spc EXCEPT ![s] = "poll"]
      /\ cancelled' = [r \in Run |-> cancelled[r] \/ r \in Owner(target[s])]
      /\ left' = [left EXCEPT ![s] = timeout[s]]
      /\ UNCHANGED <<config, lockVars, pc, pid, delay, hv, timeout, target, interrupted, outcome, asked,
                     set, orphaned, killed, torn>>
  BY DEF StopSignal, GotoStop
<1>3. /\ spc'[s] = "poll" /\ left'[s] = timeout[s]
      /\ \A t \in Stop : t # s => spc'[t] = spc[t] /\ left'[t] = left[t]
  BY <1>1, <1>2 DEF TypeOK
<1>4. \A r \in Run : (cancelled'[r] = (cancelled[r] \/ (Live(r) /\ pid[r] = target[s])))
  BY <1>2 DEF Owner
<1>5. asked[s] \in Run /\ target[s] = pid[asked[s]]  BY <1>1, <1>2 DEF AskInv
<1>6. ASSUME NEW q \in Run PROVE Onward(q) /\ RunInv(q)'
  <2>1. RunInv(q)  BY DEF IInv
  <2> QED  BY <1>2, <2>1 DEF RunInv, Onward
<1>7. hits' = hits \cup {<<s, r>> : r \in {q \in Run : Live(q) /\ pid[q] = target[s]}}
  BY DEF StopSignal, Hit, Owner
<1>8. TypeOK'
  <2>1. hits' \in SUBSET (Stop \X Run)
    <3>1. {<<s, r>> : r \in {q \in Run : Live(q) /\ pid[q] = target[s]}} \subseteq Stop \X Run  OBVIOUS
    <3> QED  BY <1>1, <1>7, <3>1 DEF TypeOK
  <2>2. left' \in [Stop -> Nat] /\ spc' \in [Stop -> {"new", "signal", "poll", "done"}]
    BY <1>1, <1>2 DEF TypeOK
  <2>3. cancelled' \in [Run -> BOOLEAN]  BY <1>1, <1>2 DEF TypeOK
  <2> QED  BY <1>1, <1>2, <2>1, <2>2, <2>3 DEF TypeOK
<1>9. AskInv(s)'  BY <1>1, <1>2, <1>3 DEF AskInv
<1>10. TimeInv(s)'
  <2>1. delay[asked[s]] <= WaitDelay /\ delay[asked[s]] \in Nat /\ timeout[s] \in Nat
    BY <1>1, <1>5 DEF IInv, RunInv, TypeOK
  <2>2. (pc[asked[s]] \notin {"new", "exited"}) => cancelled'[asked[s]]
    BY <1>4, <1>5 DEF Live
  <2> QED  BY <1>2, <1>3, <2>1, <2>2 DEF TimeInv
<1>11. ASSUME NEW t \in Stop, t # s PROVE TimeInv(t)'
  BY <1>2, <1>3, <1>4, <1>11, TimeFrame
<1>12. HitInv'
  <2>1. ASSUME NEW t \in Stop, NEW r \in Run, <<t, r>> \in hits', <<t, r>> \notin hits
        PROVE  t = s /\ pc[r] # "new" /\ pid[r] = target[s]
    BY <1>7, <2>1 DEF Live
  <2> QED  BY <1>2, <1>3, <1>6, <2>1, HitFrame
<1>13. LongStopOrphansNone'  BY <1>2, <1>7, LongFrame
<1> QED  BY <1>2, <1>3, <1>6, <1>8, <1>9, <1>10, <1>11, <1>12, <1>13, StopFrame

\* The PID lock is free: the run that had it is past its hypervisor.
LEMMA StopPollStep == ASSUME IInv, NEW s \in Stop, StopPoll(s) PROVE IInv'
<1> USE ConstantsAssumption DEF lockVars, runVars, histories
<1>1. TypeOK /\ AskInv(s) /\ TimeInv(s)  BY DEF IInv
<1>2. /\ spc[s] = "poll" /\ spc' = [spc EXCEPT ![s] = "done"]
      /\ outcome' = [outcome EXCEPT ![s] = "stopped"]
      /\ UNCHANGED <<config, lockVars, runVars, timeout, target, left, interrupted, asked, set, histories>>
  BY DEF StopPoll, GotoStop
<1>3. /\ spc'[s] = "done"
      /\ \A t \in Stop : t # s => spc'[t] = spc[t] /\ outcome'[t] = outcome[t]
  BY <1>1, <1>2 DEF TypeOK
<1>4. pidlock = None  BY PidOfLock DEF StopPoll
<1>5. asked[s] \in Run /\ target[s] = pid[asked[s]]  BY <1>1, <1>2 DEF AskInv
<1>6. pc[asked[s]] \in {"exit", "exited"}
  <2>1. RunInv(asked[s])  BY <1>5 DEF IInv
  <2> QED  BY <1>1, <1>4, <1>5, <2>1 DEF AskInv, RunInv
<1>7. \A q \in Run : Onward(q) /\ RunInv(q)'
  <2>1. \A q \in Run : Kept(q)  BY <1>2 DEF Kept
  <2> QED  BY <2>1, KeptInv
<1>8. TypeOK'  BY <1>1, <1>2 DEF TypeOK
<1>9. AskInv(s)'  BY <1>1, <1>2, <1>3, <1>5, <1>6 DEF AskInv
<1>10. ASSUME NEW t \in Stop, t # s PROVE TimeInv(t)'  BY <1>2, <1>3, <1>10, TimeFrame
<1>11. TimeInv(s)'  BY <1>3 DEF TimeInv
<1>12. HitInv'  BY <1>2, <1>3, <1>7, HitFrame
<1>13. LongStopOrphansNone'  BY <1>2, LongFrame
<1> QED  BY <1>2, <1>3, <1>7, <1>8, <1>9, <1>10, <1>11, <1>12, <1>13, StopFrame

LEMMA StopInterruptStep == ASSUME IInv, NEW s \in Stop, StopInterrupt(s) PROVE IInv'
<1> USE ConstantsAssumption DEF lockVars, runVars, histories
<1>1. TypeOK /\ AskInv(s) /\ TimeInv(s)  BY DEF IInv
<1>2. /\ interrupted' = [interrupted EXCEPT ![s] = TRUE]
      /\ UNCHANGED <<config, lockVars, runVars, spc, timeout, target, left, outcome, asked, set, histories>>
  BY DEF StopInterrupt
<1>3. \A t \in Stop : interrupted[t] => interrupted'[t]  BY <1>1, <1>2 DEF TypeOK
<1>4. \A q \in Run : Onward(q) /\ RunInv(q)'
  <2>1. \A q \in Run : Kept(q)  BY <1>2 DEF Kept
  <2> QED  BY <2>1, KeptInv
<1>5. TypeOK'  BY <1>1, <1>2 DEF TypeOK
<1>6. \A t \in Stop : AskInv(t)' /\ TimeInv(t)'  BY <1>2, <1>4, AskFrame, TimeFrame
<1>7. HitInv'  BY <1>2, <1>4, HitFrame
<1>8. LongStopOrphansNone'  BY <1>2, <1>3, LongFrame
<1> QED  BY <1>2, <1>4, <1>5, <1>6, <1>7, <1>8, StopFrame

\* The deadline is over and nobody has the process ID any more.
LEMMA NobodyKilled ==
  ASSUME IInv, NEW s \in Stop, StopKill(s), Owner(target[s]) = {},
         outcome' = [outcome EXCEPT ![s] = "no such process"],
         UNCHANGED <<lockVars, pc, cancelled, delay, orphaned>>
  PROVE  IInv'
<1> USE ConstantsAssumption DEF lockVars
<1>1. TypeOK /\ AskInv(s) /\ TimeInv(s)  BY DEF IInv
<1>2. /\ spc[s] = "poll" /\ spc' = [spc EXCEPT ![s] = "done"] /\ hits' = hits
      /\ UNCHANGED <<config, pid, hv, timeout, target, left, interrupted, asked, set, killed, torn>>
  BY DEF StopKill, GotoStop, Hit
<1>3. /\ spc'[s] = "done" /\ outcome'[s] = "no such process"
      /\ \A t \in Stop : t # s => spc'[t] = spc[t] /\ outcome'[t] = outcome[t]
  BY <1>1, <1>2 DEF TypeOK
<1>4. \A q \in Run : Onward(q) /\ RunInv(q)'
  <2>1. \A q \in Run : Kept(q)  BY <1>2 DEF Kept
  <2> QED  BY <2>1, KeptInv
<1>5. TypeOK'  BY <1>1, <1>2 DEF TypeOK
<1>6. AskInv(s)'  BY <1>1, <1>2, <1>3 DEF AskInv
<1>7. ASSUME NEW t \in Stop, t # s PROVE TimeInv(t)'  BY <1>2, <1>3, <1>7, TimeFrame
<1>8. TimeInv(s)'  BY <1>3 DEF TimeInv
<1>9. HitInv'  BY <1>2, <1>3, <1>4, HitFrame
<1>10. LongStopOrphansNone'  BY <1>2, LongFrame
<1> QED  BY <1>2, <1>3, <1>4, <1>5, <1>6, <1>7, <1>8, <1>9, <1>10, StopFrame

\* SIGKILL reaches run r.  If that is the run asked about and its hypervisor is
\* up, then stop was interrupted, or its deadline came before that of the run.
LEMMA OwnerKilled ==
  ASSUME IInv, NEW s \in Stop, StopKill(s), NEW r \in Owner(target[s]), Killed(r),
         outcome' = [outcome EXCEPT ![s] = "killed"]
  PROVE  IInv'
<1> USE ConstantsAssumption
<1>1. TypeOK /\ AskInv(s) /\ TimeInv(s)  BY DEF IInv
<1>2. /\ spc[s] = "poll" /\ spc' = [spc EXCEPT ![s] = "done"] /\ (left[s] = 0 \/ interrupted[s])
      /\ hits' = hits \cup {<<s, q>> : q \in {u \in Run : Live(u) /\ pid[u] = target[s]}}
      /\ UNCHANGED <<config, pid, hv, timeout, target, left, interrupted, asked, set, killed, torn>>
  BY DEF StopKill, GotoStop, Hit, Owner
<1>3. /\ spc'[s] = "done" /\ outcome'[s] = "killed"
      /\ \A t \in Stop : t # s => spc'[t] = spc[t] /\ outcome'[t] = outcome[t]
  BY <1>1, <1>2 DEF TypeOK
<1>4. r \in Run /\ Live(r) /\ pid[r] = target[s]  BY DEF Owner
<1>5. /\ \A q \in Run : q # r => Kept(q)
      /\ Onward(r) /\ RunInv(r)' /\ pc'[r] = "exited"
  BY <1>2, <1>4, KilledEffect
<1>6. \A q \in Run : Onward(q) /\ RunInv(q)'  BY <1>5, KeptInv
<1>7. TypeOK'
  <2>1. hits' \in SUBSET (Stop \X Run)
    <3>1. {<<s, q>> : q \in {u \in Run : Live(u) /\ pid[u] = target[s]}} \subseteq Stop \X Run  OBVIOUS
    <3> QED  BY <1>1, <1>2, <3>1 DEF TypeOK
  <2>2. /\ flock' \in Run \cup {"set", None} /\ pidlock' \in Run \cup {None} /\ glock' \in Run \cup {None}
        /\ pc' \in [Run -> Label] /\ cancelled' \in [Run -> BOOLEAN] /\ delay' \in [Run -> Nat]
        /\ orphaned' \in SUBSET Run
    BY <1>1, <1>4 DEF TypeOK, Killed, Gone, Goto, Label
  <2>3. /\ spc' \in [Stop -> {"new", "signal", "poll", "done"}]
        /\ outcome' \in [Stop -> {"none", "not running", "stopped", "no such process", "killed"}]
    BY <1>1, <1>2 DEF TypeOK
  <2> QED  BY <1>1, <1>2, <2>1, <2>2, <2>3 DEF TypeOK
<1>8. asked[s] \in Run /\ asked'[s] = asked[s] /\ Onward(asked[s])  BY <1>1, <1>2, <1>6 DEF AskInv
<1>9. AskInv(s)'  BY <1>1, <1>2, <1>3, <1>8 DEF AskInv, Onward
<1>10. ASSUME NEW t \in Stop, t # s PROVE TimeInv(t)'
  BY <1>2, <1>3, <1>5, <1>10, TimeFrame DEF Kept
<1>11. TimeInv(s)'  BY <1>3 DEF TimeInv
<1>12. HitInv'
  <2>1. ASSUME NEW t \in Stop, NEW q \in Run, <<t, q>> \in hits', <<t, q>> \notin hits
        PROVE  t = s /\ pc[q] # "new" /\ pid[q] = target[s]
    BY <1>2, <2>1 DEF Live
  <2> QED  BY <1>2, <1>3, <1>6, <2>1, HitFrame
<1>13. LongStopOrphansNone'
  <2>1. (r \in orphaned' /\ r \notin orphaned) => hv[r] = "up"  BY DEF Killed
  <2>2. ASSUME hv[r] = "up", r = asked[s] PROVE timeout[s] <= WaitDelay \/ interrupted[s]
    <3>1. RunInv(r)  BY <1>4 DEF IInv
    <3>2. pc[r] \in {"running", "cancelling"}  BY <1>4, <2>2, <3>1 DEF RunInv, Live
    <3>3. delay[r] \in Nat /\ timeout[s] \in Nat /\ left[s] \in Nat  BY <1>1, <1>4 DEF TypeOK
    <3> QED  BY <1>1, <1>2, <2>2, <3>2, <3>3 DEF TimeInv
  <2>3. <<s, r>> \in hits'  BY <1>2, <1>4
  <2>4. (r \in orphaned' /\ r \notin orphaned) => Excused(r)'
    BY <1>2, <2>1, <2>2, <2>3 DEF Excused
  <2>5. \A q \in orphaned' : q \in orphaned \/ Excused(q)'  BY <2>4 DEF Killed
  <2> QED  BY <1>2, <2>5, LongFrame
<1>14. (flock = "set") => (flock' = "set")  BY <1>4 DEF Killed, Gone
<1> QED  BY <1>2, <1>3, <1>6, <1>7, <1>9, <1>10, <1>11, <1>12, <1>13, <1>14, StopFrame

LEMMA StopSteps == ASSUME IInv, NEW s \in Stop, StopStep(s) \/ StopInterrupt(s) PROVE IInv'
<1>1. CASE StopKill(s)
  <2>1. CASE Owner(target[s]) = {}
    BY <1>1, <2>1, NobodyKilled DEF StopKill
  <2>2. CASE Owner(target[s]) # {}
    <3>1. PICK r \in Owner(target[s]) : Killed(r) /\ outcome' = [outcome EXCEPT ![s] = "killed"]
      BY <1>1, <2>2 DEF StopKill
    <3> QED  BY <1>1, <3>1, OwnerKilled
  <2> QED  BY <2>1, <2>2
<1> QED  BY <1>1, StopAskStep, StopSignalStep, StopPollStep, StopInterruptStep DEF StopStep

---------------------------------------------------------------------------
(* vetu set, and time                                                      *)

LEMMA SetFrame ==
  ASSUME IInv, TypeOK', ConfigInv', UNCHANGED <<pidlock, runVars, stopVars, hits, orphaned>>,
         killed \subseteq killed', \A q \in Run : flock = q => flock' = q
  PROVE  IInv'
<1> USE DEF runVars, stopVars
<1>1. \A q \in Run : Onward(q) /\ RunInv(q)'
  <2>1. \A q \in Run : Kept(q)  BY DEF Kept
  <2> QED  BY <2>1, KeptInv
<1>2. \A s \in Stop : AskInv(s)' /\ TimeInv(s)'  BY <1>1, AskFrame, TimeFrame
<1>3. HitInv'  BY <1>1, HitFrame
<1>4. LongStopOrphansNone'  BY LongFrame
<1> QED  BY <1>1, <1>2, <1>3, <1>4 DEF IInv

LEMMA SetSteps == ASSUME IInv, SetStep \/ SetKilled PROVE IInv'
<1> USE ConstantsAssumption DEF lockVars, runVars, stopVars, histories
<1>1. TypeOK /\ ConfigInv  BY DEF IInv
<1>2. CASE SetOpen
  <2>1. TypeOK'  BY <1>1, <1>2 DEF SetOpen, TypeOK
  <2>2. ConfigInv'  BY <1>1, <1>2 DEF SetOpen, ConfigInv, ReadsWholeConfig
  <2> QED  BY <1>2, <2>1, <2>2, SetFrame DEF SetOpen
<1>3. CASE SetRead
  <2>1. TypeOK'  BY <1>1, <1>3 DEF SetRead, TypeOK
  <2>2. ConfigInv'  BY <1>1, <1>3 DEF SetRead, ConfigInv, ReadsWholeConfig
  <2> QED  BY <1>3, <2>1, <2>2, SetFrame DEF SetRead
<1>4. CASE SetTruncate
  <2>1. TypeOK'  BY <1>1, <1>4 DEF SetTruncate, TypeOK
  <2>2. ConfigInv'  BY <1>1, <1>4 DEF SetTruncate, ConfigInv, ReadsWholeConfig
  <2> QED  BY <1>4, <2>1, <2>2, SetFrame DEF SetTruncate
<1>5. CASE SetWrite
  <2>1. TypeOK'  BY <1>1, <1>5 DEF SetWrite, TypeOK
  <2>2. ConfigInv'  BY <1>1, <1>5 DEF SetWrite, ConfigInv, ReadsWholeConfig
  <2> QED  BY <1>5, <2>1, <2>2, SetFrame DEF SetWrite
<1>6. CASE SetExit
  <2>1. TypeOK'  BY <1>1, <1>6 DEF SetExit, TypeOK
  <2>2. ConfigInv'  BY <1>1, <1>6 DEF SetExit, ConfigInv, ReadsWholeConfig
  <2> QED  BY <1>6, <2>1, <2>2, SetFrame DEF SetExit
<1>7. CASE SetKilled
  <2>1. TypeOK'  BY <1>1, <1>7 DEF SetKilled, TypeOK
  <2>2. ConfigInv'  BY <1>1, <1>7 DEF SetKilled, ConfigInv, ReadsWholeConfig
  <2> QED  BY <1>7, <2>1, <2>2, SetFrame DEF SetKilled
<1> QED  BY <1>2, <1>3, <1>4, <1>5, <1>6, <1>7 DEF SetStep

\* A tick takes as much from a run's delay as from the deadline of a stop that
\* waits for it, and none passes while the run has yet to notice the signal.
LEMMA TickStep == ASSUME IInv, Tick PROVE IInv'
<1> USE ConstantsAssumption DEF lockVars, histories
<1>1. TypeOK  BY DEF IInv
<1>2. UNCHANGED <<config, lockVars, pc, pid, cancelled, hv, spc, timeout, target, interrupted, outcome,
                  asked, set, histories>>
  BY DEF Tick
<1>3. ASSUME NEW r \in Run
      PROVE  /\ (pc[r] # "cancelling") => (delay'[r] = delay[r])
             /\ (pc[r] = "cancelling") => (delay[r] > 0 /\ delay'[r] = delay[r] - 1)
             /\ ~(pc[r] = "running" /\ cancelled[r])
             /\ delay[r] \in Nat
  <2>1. ~(pc[r] = "cancelling" /\ delay[r] = 0) /\ ~(pc[r] = "running" /\ cancelled[r])
    BY DEF Tick, Due
  <2>2. delay'[r] = IF pc[r] = "cancelling" THEN delay[r] - 1 ELSE delay[r]  BY DEF Tick
  <2>3. delay[r] \in Nat  BY <1>1 DEF TypeOK
  <2> QED  BY <2>1, <2>2, <2>3
<1>4. ASSUME NEW s \in Stop
      PROVE  /\ (spc[s] # "poll") => (left'[s] = left[s])
             /\ (spc[s] = "poll") => (left[s] > 0 /\ left'[s] = left[s] - 1)
             /\ left[s] \in Nat
  <2>1. ~(spc[s] = "poll" /\ left[s] = 0)  BY DEF Tick, Due
  <2>2. left'[s] = IF spc[s] = "poll" THEN left[s] - 1 ELSE left[s]  BY DEF Tick
  <2>3. left[s] \in Nat  BY <1>1 DEF TypeOK
  <2> QED  BY <2>1, <2>2, <2>3
<1>5. TypeOK'
  <2>1. \A r \in Run : delay'[r] \in Nat  BY <1>3
  <2>2. \A s \in Stop : left'[s] \in Nat  BY <1>4
  <2>3. delay' = [r \in Run |-> delay'[r]] /\ left' = [s \in Stop |-> left'[s]]  BY DEF Tick
  <2>4. delay' \in [Run -> Nat] /\ left' \in [Stop -> Nat]  BY <2>1, <2>2, <2>3
  <2> QED  BY <1>1, <1>2, <2>4 DEF TypeOK
<1>6. ASSUME NEW q \in Run PROVE Onward(q) /\ RunInv(q)'
  <2>1. RunInv(q)  BY DEF IInv
  <2>2. delay[q] <= WaitDelay  BY <2>1 DEF RunInv
  <2>3. delay'[q] <= WaitDelay  BY <1>3, <2>2
  <2> QED  BY <1>2, <2>1, <2>3 DEF RunInv, Onward
<1>7. ASSUME NEW s \in Stop PROVE AskInv(s)' /\ TimeInv(s)'
  <2>1. AskInv(s)'  BY <1>2, <1>6, AskFrame
  <2>2. TimeInv(s)'
    <3>1. TimeInv(s) /\ AskInv(s)  BY DEF IInv
    <3>2. CASE spc[s] # "poll"  BY <1>2, <3>2 DEF TimeInv
    <3>3. CASE spc[s] = "poll"
      <4>1. asked[s] \in Run  BY <3>1, <3>3 DEF AskInv
      <4>2. delay[asked[s]] \in Nat /\ left[s] \in Nat /\ timeout[s] \in Nat  BY <1>1, <4>1 DEF TypeOK
      <4>3. left'[s] = left[s] - 1  BY <1>4, <3>3
      <4>4. (pc[asked[s]] = "cancelling") => (delay'[asked[s]] = delay[asked[s]] - 1)  BY <1>3, <4>1
      <4>5. pc[asked[s]] # "running"  BY <1>3, <3>1, <3>3, <4>1 DEF TimeInv
      <4> QED  BY <1>2, <3>1, <3>3, <4>2, <4>3, <4>4, <4>5 DEF TimeInv
    <3> QED  BY <3>2, <3>3
  <2> QED  BY <2>1, <2>2
<1>8. HitInv'  BY <1>2, <1>6, HitFrame
<1>9. LongStopOrphansNone'  BY <1>2, LongFrame
<1>10. ConfigInv'  BY <1>2 DEF IInv, ConfigInv, ReadsWholeConfig
<1> QED  BY <1>5, <1>6, <1>7, <1>8, <1>9, <1>10 DEF IInv

LEMMA InitIInv == Init => IInv
<1> SUFFICES ASSUME Init PROVE IInv  OBVIOUS
<1> USE ConstantsAssumption DEF Init
<1>1. TypeOK  BY DEF TypeOK, Label
<1>2. \A r \in Run : RunInv(r)  BY DEF RunInv, Locked
<1>3. \A s \in Stop : AskInv(s) /\ TimeInv(s)  BY DEF AskInv, TimeInv
<1>4. HitInv /\ ConfigInv /\ LongStopOrphansNone
  BY DEF HitInv, ConfigInv, LongStopOrphansNone, ReadsWholeConfig
<1> QED  BY <1>1, <1>2, <1>3, <1>4 DEF IInv

LEMMA NextIInv == IInv /\ [Next]_vars => IInv'
<1> SUFFICES ASSUME IInv, [Next]_vars PROVE IInv'  OBVIOUS
<1>1. ASSUME NEW r \in Run, RunBegin(r) PROVE IInv'
  <2>1. PICK i \in Pid : pid' = [pid EXCEPT ![r] = i]  BY <1>1 DEF RunBegin, OldPids, NewPids
  <2> QED  BY <1>1, <2>1, BeginStep DEF RunBegin
<1>2. CASE UNCHANGED vars
  <2> USE <1>2 DEF vars, lockVars, runVars, stopVars, histories
  <2>1. TypeOK' /\ ConfigInv'  BY DEF IInv, TypeOK, ConfigInv, ReadsWholeConfig
  <2> QED  BY <2>1, SetFrame
<1>3. CASE \E r \in Run : RunBegin(r) \/ RunStep(r) \/ HvEnds(r) \/ RunInterrupt(r) \/ RunKilled(r)
  BY <1>1, <1>3, RunSteps, HvEndsStep, RunInterruptStep, RunKilledStep
<1>4. CASE \E s \in Stop : StopStep(s) \/ StopInterrupt(s)  BY <1>4, StopSteps
<1>5. CASE SetStep \/ SetKilled  BY <1>5, SetSteps
<1>6. CASE Tick  BY <1>6, TickStep
<1> QED  BY <1>2, <1>3, <1>4, <1>5, <1>6 DEF Next, Rest

---------------------------------------------------------------------------
(* The theorems                                                            *)

\* The invariant holds in every state, for any number of runs and stops, any
\* process IDs that the kernel uses again, and any values of the timers.
THEOREM Invariance == Spec => []IInv
BY InitIInv, NextIInv, PTL DEF Spec

\* What list shows as running is what runs: a hypervisor that is up has its own
\* vetu run, which holds the PID lock, unless that run was killed.
THEOREM StateIsTrueAlways == Spec => []StateIsTrue
<1>1. IInv => StateIsTrue
  <2> SUFFICES ASSUME IInv, NEW r \in Run, hv[r] = "up", r \notin orphaned
               PROVE  State = "running" /\ pidlock = r
    BY DEF StateIsTrue
  <2>1. pidlock = r  BY DEF IInv, RunInv, Locked
  <2>2. pidlock # None  BY <2>1, ConstantsAssumption
  <2> QED  BY <2>1, <2>2, PidOfLock DEF State
<1> QED  BY <1>1, Invariance, PTL

\* The signals of stop reach only the run it has found, or one to which the kernel
\* has given that process ID again.
THEOREM StopSparesOthersAlways == Spec => []StopSparesOthers
<1>1. IInv => StopSparesOthers  BY DEF IInv, HitInv, StopSparesOthers
<1> QED  BY <1>1, Invariance, PTL

\* A stop that says the VM has stopped is right about its hypervisor.
THEOREM StoppedIsGoneAlways == Spec => []StoppedIsGone
<1>1. IInv => StoppedIsGone
  <2> SUFFICES ASSUME IInv, NEW s \in Stop, outcome[s] = "stopped"
               PROVE  hv[asked[s]] # "up" \/ asked[s] \in orphaned
    BY DEF StoppedIsGone
  <2>1. AskInv(s) /\ asked[s] \in Run \cup {None}  BY DEF IInv, TypeOK
  <2>2. asked[s] \in Run /\ pc[asked[s]] \in {"exit", "exited"}  BY <2>1 DEF AskInv
  <2>3. RunInv(asked[s])  BY <2>2 DEF IInv
  <2> QED  BY <2>2, <2>3 DEF RunInv
<1> QED  BY <1>1, Invariance, PTL

\* A stop with a timeout longer than WaitDelay orphans no hypervisor, whatever the
\* two timers are.
THEOREM LongStopOrphansNoneAlways == Spec => []LongStopOrphansNone
<1>1. IInv => LongStopOrphansNone  BY DEF IInv
<1> QED  BY <1>1, Invariance, PTL

\* A run reads an empty config.json only after a set died between truncating and
\* writing it.
THEOREM ReadsWholeConfigAlways == Spec => []ReadsWholeConfig
<1>1. IInv => ReadsWholeConfig  BY DEF IInv, ConfigInv
<1> QED  BY <1>1, Invariance, PTL

=============================================================================
