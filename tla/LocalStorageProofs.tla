------------------------ MODULE LocalStorageProofs ------------------------
(* Proofs about LocalStorage for any number of processes, names, inodes and *)
(* UUIDs, any set of command lines and any allocator of free inodes.        *)
EXTENDS LocalStorage, TLAPS

\* A fresh inode is an inode that no process has open.
LEMMA PickDir ==
  FreshDirs # {} => /\ Pick(FreshDirs) \in Dir
                    /\ \A q \in Proc : loc[q].fd # Pick(FreshDirs)
<1>1. FreshDirs \in SUBSET Dir
  BY DEF FreshDirs
<1>2. FreshDirs # {} => Pick(FreshDirs) \in FreshDirs
  BY <1>1, ConstantsAssumption
<1>. QED
  BY <1>2 DEF FreshDirs

\* A fresh UUID is a UUID.
LEMMA PickUuid == FreshUuids # {} => Pick(FreshUuids) \in Uuid
<1>1. FreshUuids \in SUBSET Uuid
  BY DEF FreshUuids
<1>. QED
  BY <1>1, ConstantsAssumption

\* None is nobody and nothing.
LEMMA NoneIsNothing == None \notin Proc /\ None \notin Name /\ None \notin Dir /\ None \notin Uuid
BY ConstantsAssumption

\* The local state of an idle process is well typed.
LEMMA IdleType == Idle \in Local
BY ConstantsAssumption DEF Idle, Local, Stamp

\* A directory holds files.
LEMMA PresentType == \A d : Present(d) \in SUBSET File
BY DEF Present

\* What Goto(p, l, r) does to the process that takes the step and to the others.
LEMMA GotoEffect ==
  ASSUME TypeOK, NEW p \in Proc, NEW l \in Label, NEW r \in Local, Goto(p, l, r)
  PROVE  /\ pc' \in [Proc -> Label]
         /\ loc' \in [Proc -> Local]
         /\ pc'[p] = l
         /\ loc'[p] = r
         /\ \A q \in Proc \ {p} : pc'[q] = pc[q] /\ loc'[q] = loc[q]
BY DEF TypeOK, Goto

\* A process that a step of another one leaves alone keeps its Control, if the
\* step neither takes the global lock from it nor rebinds its name, except by
\* displacing the VM it holds.
LEMMA Frame ==
  ASSUME NEW q \in Proc, Control(q),
         pc'[q] = pc[q], loc'[q] = loc[q], excl'[q] = excl[q], shrd'[q] = shrd[q],
         glock = q => glock' = q,
         loc[q].fd \in displaced => loc[q].fd \in displaced',
         \/ vms'[loc[q].cur] = vms[loc[q].cur]
         \/ ~Holds(q) /\ pc[q] # "lock"
         \/ loc[q].fd \in displaced' /\ glock # q
         \/ loc[q].fd \in displaced' /\ vms'[loc[q].cur] = None
  PROVE  Control(q)'
BY DEF Control, There, Holds, ExclusiveLabels

\* The end of a process breaks nothing for the others.
LEMMA ExitStep ==
  ASSUME IInv, NEW p \in Proc, Exit(p)
  PROVE  /\ pc' \in [Proc -> Label] /\ loc' \in [Proc -> Local]
         /\ glock' \in Proc \cup {None}
         /\ excl' \in [Proc -> SUBSET Dir] /\ shrd' \in [Proc -> SUBSET Dir]
         /\ pid' \in [Proc -> Dir \cup {None}]
         /\ Flocks'
         /\ Control(p)'
         /\ \A q \in Proc \ {p} : /\ pc'[q] = pc[q] /\ loc'[q] = loc[q]
                                  /\ excl'[q] = excl[q] /\ shrd'[q] = shrd[q]
                                  /\ glock = q => glock' = q
<1>1. "idle" \in Label
  BY DEF Label
<1>2. /\ pc' \in [Proc -> Label] /\ loc' \in [Proc -> Local]
      /\ pc'[p] = "idle" /\ loc'[p] = Idle
      /\ \A q \in Proc \ {p} : pc'[q] = pc[q] /\ loc'[q] = loc[q]
  BY <1>1, IdleType, GotoEffect DEF IInv, Exit
<1>3. /\ excl' \in [Proc -> SUBSET Dir] /\ shrd' \in [Proc -> SUBSET Dir]
      /\ pid' \in [Proc -> Dir \cup {None}]
      /\ glock' \in Proc \cup {None}
      /\ excl'[p] = {} /\ shrd'[p] = {}
      /\ \A q \in Proc \ {p} : excl'[q] = excl[q] /\ shrd'[q] = shrd[q]
      /\ \A q \in Proc \ {p} : glock = q => glock' = q
  BY DEF IInv, TypeOK, Exit
<1>4. Flocks'
  BY <1>3 DEF IInv, Flocks
<1>5. Control(p)'
  BY <1>2, <1>3, NoneIsNothing
     DEF Control, Idle, Holds, Op, ExclusiveLabels, BuildLabels
<1>. QED
  BY <1>2, <1>3, <1>4, <1>5

\* An error return preserves the invariant.
LEMMA FailStep ==
  ASSUME IInv, NEW p \in Proc, Fail(p)
  PROVE  IInv'
<1>. USE DEF Fail
<1>1. TypeOK'
  BY ExitStep DEF IInv, TypeOK, fsVars, history, bounds
<1>2. ASSUME NEW q \in Proc \ {p} PROVE Control(q)'
  BY ExitStep, Frame DEF IInv, fsVars, history
<1>. QED
  BY <1>1, <1>2, ExitStep DEF IInv

\* A step that rebinds no name and takes or drops no flock preserves the
\* invariant if it is well typed and leaves the process itself in order.
LEMMA LocalStep ==
  ASSUME IInv, NEW p \in Proc, NEW l \in Label, NEW r \in Local, Goto(p, l, r),
         UNCHANGED <<vms, glock, excl, shrd, bounds>>,
         tmp' \in [Uuid -> Dir \cup {None}],
         content' \in [Dir -> [File -> Stamp]],
         pid' \in [Proc -> Dir \cup {None}],
         displaced' \subseteq Dir, doomed' \subseteq Dir, suspect' \subseteq Dir,
         \A q \in Proc \ {p} : loc[q].fd \in displaced => loc[q].fd \in displaced',
         Control(p)'
  PROVE  IInv'
<1>1. TypeOK'
  BY GotoEffect DEF IInv, TypeOK, bounds
<1>2. Flocks'
  BY DEF IInv, Flocks
<1>3. ASSUME NEW q \in Proc \ {p} PROVE Control(q)'
  BY GotoEffect, Frame DEF IInv
<1>. QED
  BY <1>1, <1>2, <1>3 DEF IInv

\* In particular, a step that changes nothing but the process.
LEMMA ContinueStep ==
  ASSUME IInv, NEW p \in Proc, NEW l \in Label, NEW r \in Local, Continue(p, l, r),
         Control(p)'
  PROVE  IInv'
<1>1. /\ Goto(p, l, r)
      /\ UNCHANGED <<vms, glock, excl, shrd, bounds>>
      /\ UNCHANGED <<tmp, content, pid, displaced, doomed, suspect>>
  BY DEF Continue, fsVars, lockVars, history
<1>. QED
  BY <1>1, LocalStep DEF IInv, TypeOK

---------------------------------------------------------------------------
(* One lemma per group of actions.                                         *)

\* The steps of temporary.GC.
LEMMA GCSteps ==
  ASSUME IInv, NEW p \in Proc, GC(p)
  PROVE  IInv'
<1>. USE NoneIsNothing
<1>0. loc[p] \in Local
  BY DEF IInv, TypeOK
<1>1. ASSUME GCUnlock(p), pc[p] \in GCLabels, UNCHANGED <<vms, content>>,
             tmp' \in [Uuid -> Dir \cup {None}]
      PROVE  IInv'
  <2>1. "gcNext" \in Label /\ [loc[p] EXCEPT !.uuid = None, !.fd = None, !.target = None] \in Local
    BY <1>0 DEF Label, GCLabels, Local
  <2>2. /\ pc' \in [Proc -> Label] /\ loc' \in [Proc -> Local]
        /\ pc'[p] = "gcNext"
        /\ loc'[p] = [loc[p] EXCEPT !.uuid = None, !.fd = None, !.target = None]
        /\ \A q \in Proc \ {p} : pc'[q] = pc[q] /\ loc'[q] = loc[q]
    BY <1>1, <2>1, GotoEffect DEF IInv, GCUnlock
  <2>3. /\ excl' \in [Proc -> SUBSET Dir]
        /\ \A q \in Proc \ {p} : excl'[q] = excl[q]
        /\ excl'[p] \subseteq excl[p]
        /\ UNCHANGED <<glock, shrd, pid, history, bounds>>
    BY <1>1 DEF IInv, TypeOK, GCUnlock
  <2>4. TypeOK'
    BY <1>1, <2>2, <2>3 DEF IInv, TypeOK, history, bounds
  <2>5. Flocks'
    BY <2>3 DEF IInv, TypeOK, Flocks
  <2>6. Control(p)'
    BY <1>1, <2>2, <2>3
       DEF IInv, TypeOK, Local, Control, Holds, GCLabels, Op, ExclusiveLabels, BuildLabels
  <2>7. ASSUME NEW q \in Proc \ {p} PROVE Control(q)'
    BY <1>1, <2>2, <2>3, Frame DEF IInv, history
  <2>. QED
    BY <2>4, <2>5, <2>6, <2>7 DEF IInv
<1>2. CASE GCOpen(p)
  <2>. PICK u \in loc[p].seen :
         \/ Continue(p, "gcNext", [loc[p] EXCEPT !.seen = loc[p].seen \ {u}])
         \/ /\ tmp[u] # None
            /\ Continue(p, "gcLock",
                        [loc[p] EXCEPT !.seen = loc[p].seen \ {u}, !.uuid = u, !.fd = tmp[u]])
    BY <1>2 DEF GCOpen
  <2>0. u \in Uuid
    BY <1>0 DEF Local
  <2>1. CASE Continue(p, "gcNext", [loc[p] EXCEPT !.seen = loc[p].seen \ {u}])
    <3>. DEFINE r == [loc[p] EXCEPT !.seen = loc[p].seen \ {u}]
    <3>1. "gcNext" \in Label /\ r \in Local
          /\ r.op = loc[p].op /\ r.dst = loc[p].dst /\ r.hv = loc[p].hv
      BY <1>0 DEF Label, GCLabels, Local
    <3>a. Continue(p, "gcNext", r)
      BY <2>1
    <3>. HIDE DEF r
    <3>2. Control(p)'
      BY <1>2, <3>a, <3>1, GotoEffect
         DEF GCOpen, Continue, IInv, Control, Holds, Op, ExclusiveLabels, BuildLabels
    <3>. QED
      BY <3>a, <3>1, <3>2, ContinueStep
  <2>2. CASE /\ tmp[u] # None
             /\ Continue(p, "gcLock",
                         [loc[p] EXCEPT !.seen = loc[p].seen \ {u}, !.uuid = u, !.fd = tmp[u]])
    <3>. DEFINE r == [loc[p] EXCEPT !.seen = loc[p].seen \ {u}, !.uuid = u, !.fd = tmp[u]]
    <3>0. tmp[u] \in Dir
      BY <2>0, <2>2 DEF IInv, TypeOK
    <3>1. "gcLock" \in Label /\ r \in Local
      BY <1>0, <2>0, <3>0 DEF Label, GCLabels, Local
    <3>2. r.fd \in Dir /\ r.uuid \in Uuid /\ r.op = loc[p].op /\ r.dst = loc[p].dst
          /\ r.hv = loc[p].hv
      BY <1>0, <2>0, <3>0 DEF Local
    <3>a. Continue(p, "gcLock", r)
      BY <2>2
    <3>. HIDE DEF r
    <3>3. Control(p)'
      BY <1>2, <3>a, <3>1, <3>2, GotoEffect
         DEF GCOpen, Continue, IInv, Control, Holds, Op, ExclusiveLabels, BuildLabels
    <3>. QED
      BY <3>a, <3>1, <3>3, ContinueStep
  <2>. QED
    BY <2>1, <2>2
<1>3. CASE GCTrylock(p)
  <2>1. CASE Exclusive(p, loc[p].fd)
    <3>1. loc[p].fd \in Dir /\ "gcResolve" \in Label /\ loc[p] \in Local
      BY <1>3 DEF GCTrylock, IInv, TypeOK, Control, Label, GCLabels
    <3>2. /\ excl' \in [Proc -> SUBSET Dir]
          /\ excl'[p] = excl[p] \cup {loc[p].fd}
          /\ \A q \in Proc \ {p} : excl'[q] = excl[q]
          /\ Goto(p, "gcResolve", loc[p])
          /\ UNCHANGED <<fsVars, glock, shrd, pid, history, bounds>>
      BY <1>3, <2>1, <3>1 DEF GCTrylock, IInv, TypeOK
    <3>3. TypeOK'
      BY <3>1, <3>2, GotoEffect DEF IInv, TypeOK, fsVars, history, bounds
    <3>4. Flocks'
      BY <2>1, <3>2 DEF IInv, Flocks, Exclusive
    <3>5. Control(p)'
      BY <1>3, <3>1, <3>2, GotoEffect
         DEF GCTrylock, IInv, Control, Holds, Op, ExclusiveLabels, BuildLabels
    <3>6. ASSUME NEW q \in Proc \ {p} PROVE Control(q)'
      BY <3>1, <3>2, GotoEffect, Frame DEF IInv, fsVars, history
    <3>. QED
      BY <3>3, <3>4, <3>5, <3>6 DEF IInv
  <2>2. CASE ~Exclusive(p, loc[p].fd)
    BY <1>1, <1>3, <2>2 DEF GCTrylock, GCLabels, fsVars, IInv, TypeOK
  <2>. QED
    BY <2>1, <2>2
<1>4. CASE GCResolve(p)
  <2>1. CASE Built(p) = None
    BY <1>1, <1>4, <2>1 DEF GCResolve, GCLabels, fsVars, IInv, TypeOK
  <2>2. CASE Built(p) # None
    <3>. DEFINE r == [loc[p] EXCEPT !.target = Built(p), !.todo = Present(Built(p))]
    <3>1. Built(p) \in Dir
      BY <1>4, <2>2 DEF GCResolve, Built, IInv, TypeOK, Control
    <3>2. /\ "gcRm" \in Label /\ r \in Local
          /\ r.target \in Dir /\ r.fd = loc[p].fd /\ r.uuid = loc[p].uuid
          /\ r.op = loc[p].op /\ r.dst = loc[p].dst /\ r.hv = loc[p].hv
      BY <1>0, <3>1, PresentType DEF Label, GCLabels, Local
    <3>3. Continue(p, "gcRm", r)
      BY <1>4, <2>2 DEF GCResolve
    <3>. HIDE DEF r
    <3>4. Control(p)'
      BY <1>4, <3>2, <3>3, GotoEffect
         DEF GCResolve, Continue, IInv, Control, Holds, Op, ExclusiveLabels, BuildLabels
    <3>. QED
      BY <3>2, <3>3, <3>4, ContinueStep
  <2>. QED
    BY <2>1, <2>2
<1>5. CASE GCRmdir(p)
  <2>1. CASE Removable(Built(p))
    BY <1>1, <1>5, <2>1 DEF GCRmdir, GCLabels, IInv, TypeOK
  <2>2. CASE ~Removable(Built(p))
    BY <1>5, <2>2, FailStep DEF GCRmdir
  <2>. QED
    BY <2>1, <2>2
<1>6. CASE GCDone(p)
  <2>. DEFINE l == IF loc[p].op = "create" THEN "mkTmp" ELSE "open"
  <2>1. l \in Label /\ loc[p] \in Local /\ Continue(p, l, loc[p])
    BY <1>6 DEF GCDone, IInv, TypeOK, Label
  <2>2. Control(p)'
    BY <1>6, <2>1, GotoEffect
       DEF GCDone, Continue, IInv, Control, Holds, Op, ExclusiveLabels, BuildLabels
  <2>. QED
    BY <2>1, <2>2, ContinueStep
<1>. QED
  BY <1>2, <1>3, <1>4, <1>5, <1>6 DEF GC

\* The steps of "vetu set".
LEMMA SetSteps ==
  ASSUME IInv, NEW p \in Proc, Set(p)
  PROVE  IInv'
<1>. USE NoneIsNothing
<1>0. loc[p] \in Local /\ Control(p) /\ loc[p].id \in Stamp
  BY DEF IInv, TypeOK, Local
<1>1. {"setRead", "setDisk", "setConfig"} \subseteq Label /\ {"config", "disk"} = File
  BY DEF Label, File
<1>2. CASE SetRead(p) /\ HasFile(There(p), "config")
  <2>1. Continue(p, "setDisk", loc[p])
    BY <1>2 DEF SetRead
  <2>2. Control(p)'
    BY <1>0, <1>1, <1>2, <2>1, GotoEffect
       DEF SetRead, Continue, fsVars, lockVars, history, IInv, Control, There, Holds, Op,
           ExclusiveLabels, BuildLabels
  <2>. QED
    BY <1>0, <1>1, <2>1, <2>2, ContinueStep
<1>3. CASE SetDisk(p) /\ Continue(p, "setConfig", loc[p])
  <2>1. Control(p)'
    BY <1>0, <1>1, <1>3, GotoEffect
       DEF SetDisk, Continue, fsVars, lockVars, history, IInv, Control, There, Holds, Op,
           ExclusiveLabels, BuildLabels
  <2>. QED
    BY <1>0, <1>1, <1>3, <2>1, ContinueStep
<1>4. CASE /\ pc[p] = "setDisk"
           /\ HasFile(There(p), "disk")
           /\ Write(There(p), "disk", loc[p].id)
           /\ Touched(p)
           /\ Goto(p, "setConfig", loc[p])
           /\ UNCHANGED <<vms, tmp, lockVars, displaced, doomed, bounds>>
  <2>1. There(p) \in Dir
    BY <1>0, <1>4 DEF IInv, TypeOK, HasFile, There, Control, Holds, ExclusiveLabels
  <2>2. content' \in [Dir -> [File -> Stamp]] /\ suspect' \subseteq Dir
    BY <1>0, <1>1, <1>4, <2>1 DEF IInv, TypeOK, Write, Touched
  <2>3. Control(p)'
    BY <1>0, <1>1, <1>4, GotoEffect
       DEF lockVars, IInv, Control, There, Holds, Op, ExclusiveLabels, BuildLabels
  <2>. QED
    BY <1>0, <1>1, <1>4, <2>2, <2>3, LocalStep DEF IInv, TypeOK, lockVars
<1>5. CASE SetConfig(p)
  <2>1. content' \in [Dir -> [File -> Stamp]] /\ suspect' \subseteq Dir
    <3>1. CASE There(p) = None
      BY <1>5, <3>1 DEF SetConfig, IInv, TypeOK
    <3>2. CASE There(p) # None
      <4>1. There(p) \in Dir
        BY <1>0, <1>5, <3>2 DEF SetConfig, IInv, TypeOK, There, Control, Holds, ExclusiveLabels
      <4>2. Write(There(p), "config", loc[p].id) /\ Touched(p)
        BY <1>5, <3>2 DEF SetConfig
      <4>. QED
        BY <1>0, <1>1, <4>1, <4>2 DEF IInv, TypeOK, Write, Touched
    <3>. QED
      BY <3>1, <3>2
  <2>2. Exit(p) /\ UNCHANGED <<vms, tmp, displaced, doomed, bounds>>
    BY <1>5 DEF SetConfig
  <2>3. TypeOK'
    BY <2>1, <2>2, ExitStep DEF IInv, TypeOK, bounds
  <2>4. ASSUME NEW q \in Proc \ {p} PROVE Control(q)'
    BY <2>2, ExitStep, Frame DEF IInv
  <2>. QED
    BY <2>2, <2>3, <2>4, ExitStep DEF IInv
<1>. QED
  BY <1>2, <1>3, <1>4, <1>5, FailStep DEF Set, SetRead, SetDisk

\* The steps of "vetu run" and "vetu push" after the lock.
LEMMA RunSteps ==
  ASSUME IInv, NEW p \in Proc, Run(p) \/ PushExit(p)
  PROVE  IInv'
<1>. USE NoneIsNothing
<1>0. loc[p] \in Local /\ Control(p)
  BY DEF IInv, TypeOK
<1>1. {"runConfig", "runPid", "runNet", "runStart", "running"} \subseteq Label
  BY DEF Label
<1>2. CASE pc[p] = "runConfig" /\ Continue(p, "runPid", loc[p])
  <2>1. Control(p)'
    BY <1>0, <1>1, <1>2, GotoEffect
       DEF Continue, fsVars, lockVars, history, IInv, Control, There, Holds, Op,
           ExclusiveLabels, BuildLabels
  <2>. QED
    BY <1>0, <1>1, <1>2, <2>1, ContinueStep
<1>3. CASE /\ pc[p] = "runPid"
           /\ HasFile(There(p), "config")
           /\ pid' = [pid EXCEPT ![p] = There(p)]
           /\ Goto(p, "runNet", loc[p])
           /\ UNCHANGED <<fsVars, glock, excl, shrd, history, bounds>>
  <2>1. There(p) \in Dir
    BY <1>0, <1>3 DEF IInv, TypeOK, HasFile, There, Control, Holds, ExclusiveLabels
  <2>2. pid' \in [Proc -> Dir \cup {None}]
    BY <1>3, <2>1 DEF IInv, TypeOK
  <2>3. Control(p)'
    BY <1>0, <1>1, <1>3, GotoEffect
       DEF fsVars, history, IInv, Control, There, Holds, Op, ExclusiveLabels, BuildLabels
  <2>. QED
    BY <1>0, <1>1, <1>3, <2>2, <2>3, LocalStep DEF IInv, TypeOK, fsVars, history
<1>4. CASE pc[p] = "runNet" /\ Continue(p, "runStart", loc[p])
  <2>1. Control(p)'
    BY <1>0, <1>1, <1>4, GotoEffect
       DEF Continue, fsVars, lockVars, history, IInv, Control, There, Holds, Op,
           ExclusiveLabels, BuildLabels
  <2>. QED
    BY <1>0, <1>1, <1>4, <2>1, ContinueStep
<1>5. CASE /\ pc[p] = "runStart"
           /\ HasFile(There(p), "disk")
           /\ Continue(p, "running", [loc[p] EXCEPT !.hv = There(p)])
  <2>. DEFINE r == [loc[p] EXCEPT !.hv = There(p)]
  <2>1. There(p) \in Dir
    BY <1>0, <1>5 DEF IInv, TypeOK, HasFile, There, Control, Holds, ExclusiveLabels
  <2>2. /\ r \in Local /\ r.hv = There(p) /\ r.fd = loc[p].fd /\ r.cur = loc[p].cur
        /\ r.op = loc[p].op /\ r.dst = loc[p].dst
    BY <1>0, <2>1 DEF Local
  <2>3. Continue(p, "running", r)
    BY <1>5
  <2>. HIDE DEF r
  <2>4. Control(p)'
    BY <1>0, <1>1, <1>5, <2>2, <2>3, GotoEffect
       DEF Continue, fsVars, lockVars, history, IInv, Control, There, Holds, Op,
           ExclusiveLabels, BuildLabels
  <2>. QED
    BY <1>1, <2>2, <2>3, <2>4, ContinueStep
<1>. QED
  BY <1>2, <1>3, <1>4, <1>5, FailStep
     DEF Run, PushExit, RunConfig, RunPid, RunNet, RunStart, RunExit

\* "vetu push --populate-cache" takes a VM away without the global lock, also
\* from a command that has opened it and not locked it yet.
LEMMA PushStep ==
  ASSUME IInv, NEW p \in Proc, PushPopulate(p)
  PROVE  IInv'
<1>. USE NoneIsNothing
<1>1. /\ pc[p] = "push" /\ There(p) # None /\ Exit(p)
      /\ vms' = [vms EXCEPT ![loc[p].cur] = None]
      /\ displaced' = displaced \cup {There(p)}
      /\ UNCHANGED <<tmp, content, doomed, suspect, bounds>>
  BY DEF PushPopulate
<1>2. loc[p].cur \in Name /\ There(p) \in Dir
  BY <1>1 DEF IInv, Control, Holds, There, TypeOK
<1>3. TypeOK'
  BY <1>1, <1>2, ExitStep DEF IInv, TypeOK, bounds
<1>4. ASSUME NEW q \in Proc \ {p} PROVE Control(q)'
  <2>1. CASE ~Holds(q) /\ pc[q] # "lock"
    BY <1>1, <2>1, ExitStep, Frame DEF IInv
  <2>2. CASE Holds(q) \/ pc[q] = "lock"
    <3>1. loc[q].cur \in Name /\ (There(q) \in {loc[q].fd, None} \/ loc[q].fd \in displaced)
      BY <2>2 DEF IInv, Control
    <3>2. CASE loc[q].cur # loc[p].cur
      <4>1. vms'[loc[q].cur] = vms[loc[q].cur]
        BY <1>1, <3>1, <3>2 DEF IInv, TypeOK
      <4>. QED
        BY <1>1, <4>1, ExitStep, Frame DEF IInv
    <3>3. CASE loc[q].cur = loc[p].cur
      <4>1. vms'[loc[q].cur] = None /\ loc[q].fd \in displaced'
        BY <1>1, <1>2, <3>1, <3>3 DEF There, IInv, TypeOK
      <4>. QED
        BY <1>1, <4>1, ExitStep, Frame DEF IInv
    <3>. QED
      BY <3>2, <3>3
  <2>. QED
    BY <2>1, <2>2
<1>. QED
  BY <1>1, <1>3, <1>4, ExitStep DEF IInv

\* The steps that build a VM in tmp/.
LEMMA BuildSteps ==
  ASSUME IInv, NEW p \in Proc, Build(p)
  PROVE  IInv'
<1>. USE NoneIsNothing
<1>0. loc[p] \in Local /\ Control(p) /\ loc[p].id \in Stamp
  BY DEF IInv, TypeOK, Local
<1>1. BuildLabels \subseteq Label /\ {"config", "disk"} = File
  BY DEF Label, File
<1>2. CASE MakeTmp(p)
  <2>. DEFINE u == Pick(FreshUuids)
              d == Pick(FreshDirs)
              l == IF loc[p].op = "create" THEN "initConfig" ELSE "openTmp"
              r == [loc[p] EXCEPT !.uuid = u]
  <2>1. u \in Uuid /\ d \in Dir /\ \A q \in Proc : loc[q].fd # d
    BY <1>2, PickDir, PickUuid DEF MakeTmp
  <2>2. /\ pc[p] = "mkTmp" /\ Goto(p, l, r)
        /\ tmp' = [tmp EXCEPT ![u] = d] /\ content' = [content EXCEPT ![d] = EmptyDir]
        /\ displaced' = displaced \ {d} /\ doomed' = doomed \ {d} /\ suspect' = suspect \ {d}
        /\ UNCHANGED <<vms, lockVars, bounds>>
    BY <1>2 DEF MakeTmp, Mkdir
  <2>3. /\ r \in Local /\ r.uuid \in Uuid /\ r.fd = loc[p].fd /\ r.cur = loc[p].cur
        /\ r.op = loc[p].op /\ r.dst = loc[p].dst /\ r.hv = loc[p].hv
    BY <1>0, <2>1 DEF Local
  <2>. HIDE DEF u, d, r
  <2>4. l \in Label /\ l \in {"initConfig", "openTmp"}
    BY <1>1 DEF BuildLabels
  <2>5. EmptyDir \in [File -> Stamp]
    BY ConstantsAssumption DEF EmptyDir, Stamp
  <2>6. /\ tmp' \in [Uuid -> Dir \cup {None}] /\ content' \in [Dir -> [File -> Stamp]]
        /\ displaced' \subseteq Dir /\ doomed' \subseteq Dir /\ suspect' \subseteq Dir
    BY <2>1, <2>2, <2>5 DEF IInv, TypeOK
  <2>. HIDE DEF l
  <2>7. Control(p)'
    BY <1>0, <2>1, <2>2, <2>3, <2>4, GotoEffect
       DEF lockVars, IInv, Control, There, Holds, Op, ExclusiveLabels, BuildLabels
  <2>. QED
    BY <2>1, <2>2, <2>3, <2>4, <2>6, <2>7, LocalStep DEF IInv, TypeOK, lockVars
<1>3. ASSUME NEW f \in File, NEW s \in Stamp, NEW l \in BuildLabels, NEW r \in Local,
             Built(p) # None, Write(Built(p), f, s), Goto(p, l, r),
             pc[p] \in BuildLabels, l \notin {"lockTmp"},
             r = loc[p] \/ r = [loc[p] EXCEPT !.todo = loc[p].todo \ {f}],
             l \in {"readSrc", "copySrc"} => loc[p].op = "clone",
             UNCHANGED <<vms, tmp, lockVars, history, bounds>>
      PROVE  IInv'
  <2>1. Built(p) \in Dir
    BY <1>0, <1>3 DEF IInv, TypeOK, Built, Control
  <2>2. content' \in [Dir -> [File -> Stamp]]
    BY <1>3, <2>1 DEF IInv, TypeOK, Write
  <2>3. /\ r.uuid = loc[p].uuid /\ r.fd = loc[p].fd /\ r.cur = loc[p].cur
        /\ r.op = loc[p].op /\ r.dst = loc[p].dst /\ r.hv = loc[p].hv
    BY <1>0, <1>3 DEF Local
  <2>4. /\ Goto(p, l, r) /\ l \in Label /\ r \in Local
        /\ UNCHANGED <<vms, tmp, lockVars, history, bounds>>
    BY <1>1, <1>3
  <2>5. Control(p)'
    BY <1>0, <1>1, <1>3, <2>3, <2>4, GotoEffect
       DEF lockVars, history, IInv, Control, There, Holds, Op, ExclusiveLabels, BuildLabels
  <2>. QED
    BY <2>2, <2>4, <2>5, LocalStep DEF IInv, TypeOK, lockVars, history
<1>4. CASE InitConfig(p)
  BY <1>0, <1>1, <1>3, <1>4, FailStep DEF InitConfig, BuildLabels
<1>5. CASE OpenTmp(p) /\ Built(p) # None
  <2>. DEFINE r == [loc[p] EXCEPT !.target = Built(p)]
  <2>1. Built(p) \in Dir
    BY <1>0, <1>5 DEF OpenTmp, IInv, TypeOK, Built, Control, BuildLabels
  <2>2. /\ r \in Local /\ r.target \in Dir /\ r.uuid = loc[p].uuid /\ r.fd = loc[p].fd
        /\ r.cur = loc[p].cur /\ r.op = loc[p].op /\ r.dst = loc[p].dst /\ r.hv = loc[p].hv
    BY <1>0, <2>1 DEF Local
  <2>3. pc[p] = "openTmp" /\ Continue(p, "lockTmp", r) /\ "lockTmp" \in Label
    BY <1>1, <1>5 DEF OpenTmp, BuildLabels
  <2>. HIDE DEF r
  <2>4. Control(p)'
    BY <1>0, <2>2, <2>3, GotoEffect
       DEF Continue, fsVars, lockVars, history, IInv, Control, There, Holds, Op,
           ExclusiveLabels, BuildLabels
  <2>. QED
    BY <2>2, <2>3, <2>4, ContinueStep
<1>6. CASE LockTmp(p) /\ Exclusive(p, loc[p].target)
  <2>. DEFINE l == IF loc[p].op = "create" THEN "copyIn" ELSE "readSrc"
  <2>1. /\ loc[p].target \in Dir /\ l \in Label /\ l \in {"copyIn", "readSrc"}
        /\ l = "readSrc" => loc[p].op = "clone"
    BY <1>0, <1>1, <1>6 DEF LockTmp, Control, BuildLabels
  <2>2. /\ pc[p] = "lockTmp" /\ Goto(p, l, loc[p])
        /\ excl' \in [Proc -> SUBSET Dir]
        /\ excl'[p] = excl[p] \cup {loc[p].target}
        /\ \A q \in Proc \ {p} : excl'[q] = excl[q]
        /\ UNCHANGED <<fsVars, glock, shrd, pid, history, bounds>>
    BY <1>6, <2>1 DEF LockTmp, IInv, TypeOK
  <2>. HIDE DEF l
  <2>3. TypeOK'
    BY <1>0, <2>1, <2>2, GotoEffect DEF IInv, TypeOK, fsVars, history, bounds
  <2>4. Flocks'
    BY <1>6, <2>2 DEF IInv, Flocks, Exclusive
  <2>5. Control(p)'
    BY <1>0, <2>1, <2>2, GotoEffect
       DEF fsVars, history, IInv, Control, There, Holds, Op, ExclusiveLabels, BuildLabels
  <2>6. ASSUME NEW q \in Proc \ {p} PROVE Control(q)'
    BY <1>0, <2>1, <2>2, GotoEffect, Frame DEF IInv, fsVars, history
  <2>. QED
    BY <2>3, <2>4, <2>5, <2>6 DEF IInv
<1>7. CASE CopyIn(p)
  <2>1. CASE /\ Built(p) # None
             /\ Write(Built(p), "disk", loc[p].id)
             /\ Goto(p, "writeConfig", loc[p])
             /\ UNCHANGED <<vms, tmp, lockVars, history, bounds>>
    BY <1>0, <1>1, <1>3, <1>7, <2>1 DEF CopyIn, BuildLabels
  <2>2. CASE /\ FreshDirs # {}
             /\ Mkdir(loc[p].uuid, Pick(FreshDirs), [EmptyDir EXCEPT !["disk"] = loc[p].id])
             /\ suspect' = suspect \cup {Pick(FreshDirs)}
             /\ Goto(p, "writeConfig", loc[p])
             /\ UNCHANGED <<vms, lockVars, bounds>>
    <3>. DEFINE d == Pick(FreshDirs)
    <3>1. d \in Dir /\ \A q \in Proc : loc[q].fd # d
      BY <2>2, PickDir
    <3>2. loc[p].uuid \in Uuid /\ pc[p] = "copyIn" /\ "writeConfig" \in Label
      BY <1>0, <1>1, <1>7 DEF CopyIn, Control, BuildLabels
    <3>3. [EmptyDir EXCEPT !["disk"] = loc[p].id] \in [File -> Stamp]
      BY <1>0, <1>1, ConstantsAssumption DEF EmptyDir, Stamp
    <3>. HIDE DEF d
    <3>4. /\ tmp' \in [Uuid -> Dir \cup {None}] /\ content' \in [Dir -> [File -> Stamp]]
          /\ displaced' = displaced \ {d}
          /\ displaced' \subseteq Dir /\ doomed' \subseteq Dir /\ suspect' \subseteq Dir
      BY <2>2, <3>1, <3>2, <3>3 DEF Mkdir, IInv, TypeOK, d
    <3>5. Control(p)'
      BY <1>0, <2>2, <3>1, <3>2, <3>4, GotoEffect
         DEF lockVars, IInv, Control, There, Holds, Op, ExclusiveLabels, BuildLabels
    <3>. QED
      BY <1>0, <2>2, <3>1, <3>2, <3>4, <3>5, LocalStep DEF IInv, TypeOK, lockVars
  <2>. QED
    BY <1>7, <2>1, <2>2, FailStep DEF CopyIn
<1>8. CASE ReadSource(p) /\ There(p) # None
  <2>. DEFINE r == [loc[p] EXCEPT !.todo = Present(There(p))]
  <2>1. Present(There(p)) \subseteq File
    BY DEF Present
  <2>2. /\ r \in Local /\ r.uuid = loc[p].uuid /\ r.fd = loc[p].fd
        /\ r.cur = loc[p].cur /\ r.op = loc[p].op /\ r.dst = loc[p].dst /\ r.hv = loc[p].hv
    BY <1>0, <2>1 DEF Local
  <2>3. pc[p] = "readSrc" /\ Continue(p, "copySrc", r) /\ "copySrc" \in Label
    BY <1>1, <1>8 DEF ReadSource, BuildLabels
  <2>. HIDE DEF r
  <2>4. Control(p)'
    BY <1>0, <2>2, <2>3, GotoEffect
       DEF Continue, fsVars, lockVars, history, IInv, Control, There, Holds, Op,
           ExclusiveLabels, BuildLabels
  <2>. QED
    BY <2>2, <2>3, <2>4, ContinueStep
<1>9. CASE CopyFile(p)
  <2>. PICK f \in loc[p].todo :
         IF HasFile(There(p), f) /\ Built(p) # None
         THEN /\ Write(Built(p), f, content[There(p)][f])
              /\ Goto(p, "copySrc", [loc[p] EXCEPT !.todo = loc[p].todo \ {f}])
              /\ UNCHANGED <<vms, tmp, lockVars, history, bounds>>
         ELSE Fail(p)
    BY <1>9 DEF CopyFile
  <2>1. CASE HasFile(There(p), f) /\ Built(p) # None
    <3>1. f \in File /\ [loc[p] EXCEPT !.todo = loc[p].todo \ {f}] \in Local
      BY <1>0 DEF Local
    <3>2. pc[p] = "copySrc" /\ "copySrc" \in BuildLabels /\ loc[p].op = "clone"
      BY <1>0, <1>9 DEF CopyFile, BuildLabels, Control
    <3>3. There(p) \in Dir
      BY <1>0, <2>1, <3>2 DEF IInv, TypeOK, HasFile, There, Control, Holds
    <3>4. content[There(p)][f] \in Stamp
      BY <3>1, <3>3 DEF IInv, TypeOK
    <3>. QED
      BY <1>3, <2>1, <3>1, <3>2, <3>4
  <2>. QED
    BY <2>1, FailStep
<1>10. CASE WriteConfig(p)
  <2>1. pc[p] \in {"writeConfig", "copySrc"}
    BY <1>10 DEF WriteConfig
  <2>2. CASE Fail(p)
    BY <2>2, FailStep
  <2>3. CASE /\ Built(p) # None
             /\ IF loc[p].op = "create"
                THEN Write(Built(p), "config", loc[p].id)
                ELSE UNCHANGED content
             /\ Goto(p, "moveIn", loc[p])
             /\ UNCHANGED <<vms, tmp, lockVars, history, bounds>>
    <3>1. CASE loc[p].op = "create"
      BY <1>0, <1>1, <1>3, <2>1, <2>3, <3>1 DEF BuildLabels
    <3>2. CASE loc[p].op # "create"
      <4>1. Continue(p, "moveIn", loc[p]) /\ "moveIn" \in Label
        BY <1>1, <2>3, <3>2 DEF Continue, fsVars, BuildLabels
      <4>2. Control(p)'
        BY <1>0, <2>1, <4>1, GotoEffect
           DEF Continue, fsVars, lockVars, history, IInv, Control, There, Holds, Op,
               ExclusiveLabels, BuildLabels
      <4>. QED
        BY <1>0, <4>1, <4>2, ContinueStep
    <3>. QED
      BY <3>1, <3>2
  <2>. QED
    BY <1>10, <2>2, <2>3 DEF WriteConfig
<1>. QED
  BY <1>2, <1>4, <1>5, <1>6, <1>7, <1>8, <1>9, <1>10, FailStep
     DEF Build, OpenTmp, LockTmp, ReadSource

\* A process that ends, or goes on with the next name of a delete, after a step
\* that rebinds at most the name it was deleting.
LEMMA DeleteNextStep ==
  ASSUME IInv, NEW p \in Proc, NEW rest \in SUBSET Name, DeleteNext(p, rest),
         loc[p].op = "delete", pc[p] \in {"open", "lock", "delResolve", "delRm"},
         glock \in {None, p},
         vms' \in [Name -> Dir \cup {None}],
         \A q \in Proc \ {p} : Holds(q) => \/ vms'[loc[q].cur] = vms[loc[q].cur]
                                          \/ loc[q].fd \in displaced,
         UNCHANGED <<tmp, content, history, bounds>>
  PROVE  IInv'
<1>. USE NoneIsNothing
<1>0. loc[p] \in Local /\ Control(p)
  BY DEF IInv, TypeOK
<1>1. ASSUME NEW q \in Proc \ {p} PROVE pc[q] # "lock" /\ glock # q
  BY <1>1 DEF IInv, Control
<1>2. CASE rest = {}
  <2>1. Exit(p)
    BY <1>2 DEF DeleteNext
  <2>2. TypeOK'
    BY <2>1, ExitStep DEF IInv, TypeOK, history, bounds
  <2>3. ASSUME NEW q \in Proc \ {p} PROVE Control(q)'
    BY <1>1, <2>1, ExitStep, Frame DEF IInv, history
  <2>. QED
    BY <2>1, <2>2, <2>3, ExitStep DEF IInv
<1>3. CASE rest # {}
  <2>. DEFINE r == [loc[p] EXCEPT !.args = rest, !.cur = None, !.fd = None, !.target = None]
  <2>1. /\ r \in Local /\ r.op = loc[p].op /\ r.dst = loc[p].dst /\ r.hv = loc[p].hv
        /\ "open" \in Label
    BY <1>0 DEF Local, Label
  <2>2. /\ Goto(p, "open", r)
        /\ glock' = p
        /\ excl' \in [Proc -> SUBSET Dir]
        /\ excl'[p] \subseteq excl[p]
        /\ \A q \in Proc \ {p} : excl'[q] = excl[q]
        /\ UNCHANGED <<shrd, pid>>
    BY <1>3 DEF DeleteNext, IInv, TypeOK
  <2>. HIDE DEF r
  <2>3. TypeOK'
    BY <2>1, <2>2, GotoEffect DEF IInv, TypeOK, history, bounds
  <2>4. Flocks'
    BY <2>2 DEF IInv, Flocks
  <2>5. Control(p)'
    <3>1. loc[p].hv = None
      BY <1>0 DEF Control
    <3>. QED
      BY <1>0, <2>1, <2>2, <3>1, GotoEffect
         DEF IInv, Control, Holds, Op, ExclusiveLabels, BuildLabels
  <2>6. ASSUME NEW q \in Proc \ {p} PROVE Control(q)'
    BY <1>1, <2>1, <2>2, GotoEffect, Frame DEF IInv, history
  <2>. QED
    BY <2>3, <2>4, <2>5, <2>6 DEF IInv
<1>. QED
  BY <1>2, <1>3

\* Opening and locking a VM under the global lock.
LEMMA OpenSteps ==
  ASSUME IInv, NEW p \in Proc, OpenNamed(p) \/ LockNamed(p)
  PROVE  IInv'
<1>. USE NoneIsNothing
<1>0. loc[p] \in Local /\ Control(p) /\ loc[p].args \subseteq Name
  BY DEF IInv, TypeOK, Local
<1>1. ASSUME NEW rest \in SUBSET Name, Refused(p, rest), pc[p] \in {"open", "lock"},
             glock \in {None, p}, UNCHANGED <<fsVars, history, bounds>>
      PROVE  IInv'
  <2>1. CASE loc[p].op = "delete"
    <3>1. DeleteNext(p, rest) /\ pc[p] \in {"open", "lock"} /\ glock \in {None, p}
          /\ UNCHANGED <<vms, tmp, content, history, bounds>>
      BY <1>1, <2>1 DEF Refused, fsVars
    <3>. QED
      BY <1>1, <2>1, <3>1, DeleteNextStep DEF IInv, TypeOK
  <2>2. CASE loc[p].op # "delete"
    BY <1>1, <2>2, FailStep DEF Refused, Fail
  <2>. QED
    BY <2>1, <2>2
<1>2. CASE OpenNamed(p)
  <2>0. pc[p] = "open" /\ glock \in {None, p} /\ UNCHANGED <<fsVars, history, bounds>>
    BY <1>2 DEF OpenNamed
  <2>. PICK n \in loc[p].args :
         \/ Refused(p, loc[p].args \ {n})
         \/ /\ vms[n] # None
            /\ glock' = p
            /\ Goto(p, "lock", [loc[p] EXCEPT !.args = loc[p].args \ {n}, !.cur = n,
                                              !.fd = vms[n]])
            /\ UNCHANGED <<excl, shrd, pid>>
    BY <1>2 DEF OpenNamed
  <2>1. CASE Refused(p, loc[p].args \ {n})
    BY <1>0, <1>1, <2>0, <2>1
  <2>2. CASE /\ vms[n] # None
             /\ glock' = p
             /\ Goto(p, "lock", [loc[p] EXCEPT !.args = loc[p].args \ {n}, !.cur = n,
                                               !.fd = vms[n]])
             /\ UNCHANGED <<excl, shrd, pid>>
    <3>. DEFINE r == [loc[p] EXCEPT !.args = loc[p].args \ {n}, !.cur = n, !.fd = vms[n]]
    <3>1. n \in Name /\ vms[n] \in Dir
      BY <1>0, <2>2 DEF IInv, TypeOK
    <3>2. /\ r \in Local /\ r.cur = n /\ r.fd = vms[n]
          /\ r.op = loc[p].op /\ r.dst = loc[p].dst /\ r.hv = loc[p].hv
          /\ "lock" \in Label
      BY <1>0, <3>1 DEF Local, Label
    <3>3. Goto(p, "lock", r)
      BY <2>2
    <3>. HIDE DEF r
    <3>4. TypeOK'
      BY <2>0, <2>2, <3>2, <3>3, GotoEffect DEF IInv, TypeOK, fsVars, history, bounds
    <3>5. Flocks'
      BY <2>2 DEF IInv, Flocks
    <3>6. Control(p)'
      BY <1>0, <2>0, <2>2, <3>1, <3>2, <3>3, GotoEffect
         DEF fsVars, IInv, Control, There, Holds, Op, ExclusiveLabels, BuildLabels
    <3>7. ASSUME NEW q \in Proc \ {p} PROVE Control(q)'
      BY <2>0, <2>2, <3>2, <3>3, GotoEffect, Frame DEF IInv, fsVars, history
    <3>. QED
      BY <3>4, <3>5, <3>6, <3>7 DEF IInv
  <2>. QED
    BY <2>1, <2>2
<1>3. CASE LockNamed(p)
  <2>0. /\ pc[p] = "lock" /\ glock = p /\ loc[p].fd \in Dir /\ loc[p].cur \in Name
        /\ There(p) = loc[p].fd \/ (There(p) = None /\ loc[p].fd \in displaced)
        /\ loc[p].op \in Op \ {"create"}
        /\ UNCHANGED <<fsVars, history, bounds>>
    BY <1>0, <1>3 DEF LockNamed, Control
  <2>1. CASE ~CanLock(p, loc[p].fd)
    BY <1>0, <1>1, <1>3, <2>0, <2>1 DEF LockNamed
  <2>2. CASE CanLock(p, loc[p].fd)
    <3>. DEFINE l == AfterLock(loc[p].op)
    <3>1. /\ l \in {"mkTmp", "delResolve", "setRead", "runConfig", "push"} /\ l \in Label
          /\ l = "mkTmp" <=> loc[p].op = "clone"
          /\ l = "push" <=> loc[p].op = "push"
          /\ l = "delResolve" <=> loc[p].op = "delete"
      BY <2>0 DEF AfterLock, Op, Label
    <3>2. /\ Goto(p, l, loc[p])
          /\ glock' = IF loc[p].op = "delete" THEN p ELSE None
          /\ UNCHANGED pid
      BY <1>3, <2>2 DEF LockNamed
    <3>. HIDE DEF l
    <3>3. /\ excl' \in [Proc -> SUBSET Dir] /\ shrd' \in [Proc -> SUBSET Dir]
          /\ \A q \in Proc \ {p} : excl'[q] = excl[q] /\ shrd'[q] = shrd[q]
          /\ loc[p].fd \in excl'[p] \cup shrd'[p]
          /\ loc[p].op \notin {"clone", "push"} => loc[p].fd \in excl'[p]
          /\ Flocks'
      <4>1. CASE TakesShared(p)
        <5>1. shrd' = [shrd EXCEPT ![p] = @ \cup {loc[p].fd}] /\ UNCHANGED excl
          BY <1>3, <2>2, <4>1 DEF LockNamed
        <5>2. \A q \in Proc \ {p} : loc[p].fd \notin excl[q]
          BY <2>2, <4>1 DEF CanLock, Shared
        <5>3. Flocks'
          BY <5>1, <5>2 DEF IInv, TypeOK, Flocks
        <5>. QED
          BY <2>0, <4>1, <5>1, <5>3 DEF IInv, TypeOK, TakesShared
      <4>2. CASE ~TakesShared(p)
        <5>1. excl' = [excl EXCEPT ![p] = @ \cup {loc[p].fd}] /\ UNCHANGED shrd
          BY <1>3, <2>2, <4>2 DEF LockNamed
        <5>2. \A q \in Proc \ {p} : loc[p].fd \notin excl[q] \cup shrd[q]
          BY <2>2, <4>2 DEF CanLock, Exclusive
        <5>3. Flocks'
          BY <5>1, <5>2 DEF IInv, TypeOK, Flocks
        <5>. QED
          BY <2>0, <4>2, <5>1, <5>3 DEF IInv, TypeOK, TakesShared
      <4>. QED
        BY <4>1, <4>2
    <3>4. TypeOK'
      BY <1>0, <2>0, <3>1, <3>2, <3>3, GotoEffect DEF IInv, TypeOK, fsVars, history, bounds
    <3>5. Control(p)'
      BY <1>0, <2>0, <3>1, <3>2, <3>3, GotoEffect
         DEF fsVars, history, IInv, Control, There, Holds, Op, ExclusiveLabels, BuildLabels
    <3>6. ASSUME NEW q \in Proc \ {p} PROVE Control(q)'
      BY <1>0, <2>0, <3>1, <3>2, <3>3, GotoEffect, Frame DEF IInv, fsVars, history
    <3>. QED
      BY <3>3, <3>4, <3>5, <3>6 DEF IInv
  <2>. QED
    BY <2>1, <2>2
<1>. QED
  BY <1>2, <1>3

\* os.RemoveAll in "vetu delete", and the unlinking common to all RemoveAlls.
LEMMA RemoveSteps ==
  ASSUME IInv, NEW p \in Proc, Unlink(p) \/ Delete(p)
  PROVE  IInv'
<1>. USE NoneIsNothing
<1>0. loc[p] \in Local /\ Control(p) /\ loc[p].args \subseteq Name
  BY DEF IInv, TypeOK, Local
<1>1. CASE Unlink(p)
  <2>1. loc[p].target \in Dir /\ loc[p].todo \subseteq File
    BY <1>0, <1>1 DEF Unlink, Control, Local
  <2>2. PICK f \in File : /\ Write(loc[p].target, f, 0)
                         /\ Goto(p, pc[p], [loc[p] EXCEPT !.todo = @ \ {f}])
    BY <1>1, <2>1 DEF Unlink
  <2>. DEFINE r == [loc[p] EXCEPT !.todo = @ \ {f}]
  <2>3. content' \in [Dir -> [File -> Stamp]]
    BY <2>1, <2>2, ConstantsAssumption DEF IInv, TypeOK, Write, Stamp
  <2>4. UNCHANGED <<vms, tmp, lockVars, history, bounds>> /\ pc[p] \in {"gcRm", "mvRm", "delRm"}
    BY <1>1 DEF Unlink
  <2>5. /\ r \in Local /\ r.target = loc[p].target /\ r.cur = loc[p].cur /\ r.fd = loc[p].fd
        /\ r.op = loc[p].op /\ r.dst = loc[p].dst /\ r.hv = loc[p].hv /\ r.uuid = loc[p].uuid
    BY <1>0, <2>1 DEF Local
  <2>6. Goto(p, pc[p], r) /\ pc[p] \in Label
    BY <2>2 DEF IInv, TypeOK
  <2>. HIDE DEF r
  <2>7. Control(p)'
    BY <1>0, <2>4, <2>5, <2>6, GotoEffect
       DEF lockVars, history, IInv, Control, There, Holds, ExclusiveLabels, BuildLabels
  <2>. QED
    BY <2>3, <2>4, <2>5, <2>6, <2>7, LocalStep DEF IInv, TypeOK, lockVars, history
<1>2. CASE DeleteResolve(p)
  <2>0. /\ pc[p] = "delResolve" /\ glock = p /\ loc[p].op = "delete" /\ loc[p].cur \in Name
        /\ There(p) = loc[p].fd \/ (There(p) = None /\ loc[p].fd \in displaced)
        /\ UNCHANGED <<fsVars, bounds, displaced, suspect>>
    BY <1>0, <1>2 DEF DeleteResolve, Control
  <2>1. CASE There(p) = None
    <3>1. DeleteNext(p, loc[p].args) /\ UNCHANGED <<vms, tmp, content, history, bounds>>
      BY <1>2, <2>0, <2>1 DEF DeleteResolve, fsVars, history
    <3>. QED
      BY <1>0, <2>0, <3>1, DeleteNextStep DEF IInv, TypeOK
  <2>2. CASE There(p) # None
    <3>. DEFINE r == [loc[p] EXCEPT !.target = There(p), !.todo = Present(There(p))]
    <3>1. There(p) = loc[p].fd /\ There(p) \in Dir
      BY <2>0, <2>2 DEF There, IInv, TypeOK
    <3>2. /\ r \in Local /\ r.target = loc[p].fd /\ r.cur = loc[p].cur /\ r.fd = loc[p].fd
          /\ r.op = loc[p].op /\ r.dst = loc[p].dst /\ r.hv = loc[p].hv
          /\ "delRm" \in Label
      BY <1>0, <3>1, PresentType DEF Local, Label
    <3>3. Goto(p, "delRm", r) /\ doomed' = doomed \cup {There(p)} /\ UNCHANGED lockVars
      BY <1>2, <2>2 DEF DeleteResolve
    <3>. HIDE DEF r
    <3>4. Control(p)'
      BY <1>0, <2>0, <3>1, <3>2, <3>3, GotoEffect
         DEF fsVars, lockVars, IInv, Control, There, Holds, Op, ExclusiveLabels, BuildLabels
    <3>. QED
      BY <2>0, <3>1, <3>2, <3>3, <3>4, LocalStep DEF IInv, TypeOK, fsVars, lockVars
  <2>. QED
    BY <2>1, <2>2
<1>3. CASE DeleteRmdir(p)
  <2>0. /\ pc[p] = "delRm" /\ glock = p /\ loc[p].cur \in Name
        /\ There(p) = loc[p].fd \/ There(p) = None
        /\ loc[p].fd \in excl[p] /\ loc[p].op = "delete"
    BY <1>0, <1>3 DEF DeleteRmdir, Control, ExclusiveLabels
  <2>1. /\ vms' = [vms EXCEPT ![loc[p].cur] = IF Removable(@) THEN None ELSE @]
        /\ DeleteNext(p, loc[p].args)
        /\ UNCHANGED <<tmp, content, history, bounds>>
    BY <1>3 DEF DeleteRmdir
  <2>2. vms' \in [Name -> Dir \cup {None}]
    BY <2>0, <2>1 DEF IInv, TypeOK
  <2>3. ASSUME NEW q \in Proc \ {p}, Holds(q), loc[q].fd \notin displaced, There(p) # None
        PROVE  loc[q].cur # loc[p].cur
    <3>1. loc[q].fd = vms[loc[q].cur] /\ loc[q].fd \in excl[q] \cup shrd[q]
      BY <2>3 DEF IInv, Control, There
    <3>2. vms[loc[p].cur] \in excl[p]
      BY <2>0, <2>3 DEF There
    <3>. QED
      BY <3>1, <3>2 DEF IInv, Flocks
  <2>4. ASSUME NEW q \in Proc \ {p}, Holds(q)
        PROVE  vms'[loc[q].cur] = vms[loc[q].cur] \/ loc[q].fd \in displaced
    <3>1. loc[q].cur \in Name
      BY <2>4 DEF IInv, Control
    <3>. QED
      BY <2>0, <2>1, <2>3, <2>4, <3>1 DEF IInv, TypeOK, There, Removable
  <2>. QED
    BY <1>0, <2>0, <2>1, <2>2, <2>4, DeleteNextStep
<1>. QED
  BY <1>1, <1>2, <1>3 DEF Delete

\* Moving a finished VM to its name.
LEMMA MoveInSteps ==
  ASSUME IInv, NEW p \in Proc, MoveIn(p)
  PROVE  IInv'
<1>. USE NoneIsNothing
<1>0. loc[p] \in Local /\ Control(p)
  BY DEF IInv, TypeOK
<1>1. ASSUME pc[p] = "moveIn", Built(p) # None, Published(p)
      PROVE  /\ loc[p].dst \in Name /\ loc[p].uuid \in Uuid /\ Built(p) \in Dir
             /\ suspect' \subseteq Dir
  BY <1>0, <1>1 DEF Control, BuildLabels, Built, IInv, TypeOK, Published
<1>2. CASE MoveInRename(p)
  <2>1. /\ pc[p] = "moveIn" /\ glock = None /\ Built(p) # None /\ Published(p)
        /\ vms[loc[p].dst] = None
        /\ vms' = [vms EXCEPT ![loc[p].dst] = Built(p)]
        /\ tmp' = [tmp EXCEPT ![loc[p].uuid] = None]
        /\ Exit(p)
        /\ UNCHANGED <<content, displaced, doomed, bounds>>
    BY <1>2 DEF MoveInRename
  <2>2. TypeOK'
    BY <1>1, <2>1, ExitStep DEF IInv, TypeOK, bounds
  <2>3. ASSUME NEW q \in Proc \ {p} PROVE Control(q)'
    <3>1. Holds(q) => vms'[loc[q].cur] = vms[loc[q].cur] \/ loc[q].fd \in displaced
      BY <1>1, <2>1 DEF IInv, TypeOK, Control, There
    <3>2. pc[q] # "lock" /\ glock # q
      BY <2>1 DEF IInv, Control
    <3>. QED
      BY <2>1, <3>1, <3>2, ExitStep, Frame DEF IInv
  <2>. QED
    BY <2>1, <2>2, <2>3, ExitStep DEF IInv
<1>3. CASE MoveInExchange(p)
  <2>. DEFINE old == vms[loc[p].dst]
              r == [loc[p] EXCEPT !.target = old, !.todo = Present(old)]
  <2>1. /\ pc[p] = "moveIn" /\ glock = None /\ Built(p) # None /\ Published(p)
        /\ old # None
        /\ vms' = [vms EXCEPT ![loc[p].dst] = Built(p)]
        /\ tmp' = [tmp EXCEPT ![loc[p].uuid] = old]
        /\ displaced' = displaced \cup {old}
        /\ Goto(p, "mvRm", r)
        /\ glock' = p
        /\ UNCHANGED <<content, excl, shrd, pid, bounds, doomed>>
    BY <1>3 DEF MoveInExchange
  <2>2. old \in Dir
    BY <1>1, <2>1 DEF IInv, TypeOK
  <2>3. /\ r \in Local /\ r.target \in Dir /\ r.uuid = loc[p].uuid
        /\ r.op = loc[p].op /\ r.dst = loc[p].dst /\ r.hv = loc[p].hv
        /\ "mvRm" \in Label
    BY <1>0, <2>2, PresentType DEF Local, Label
  <2>. HIDE DEF r
  <2>4. TypeOK'
    BY <1>1, <2>1, <2>2, <2>3, GotoEffect DEF IInv, TypeOK, bounds
  <2>5. Flocks'
    BY <2>1 DEF IInv, Flocks
  <2>6. Control(p)'
    BY <1>0, <2>1, <2>3, GotoEffect
       DEF IInv, Control, Holds, Op, ExclusiveLabels, BuildLabels
  <2>7. ASSUME NEW q \in Proc \ {p} PROVE Control(q)'
    <3>1. Holds(q) => vms'[loc[q].cur] = vms[loc[q].cur] \/ loc[q].fd \in displaced'
      BY <1>1, <2>1 DEF IInv, TypeOK, Control, There
    <3>2. pc[q] # "lock" /\ glock # q
      BY <2>1 DEF IInv, Control
    <3>. QED
      BY <2>1, <2>3, <3>1, <3>2, GotoEffect, Frame DEF IInv
  <2>. QED
    BY <2>4, <2>5, <2>6, <2>7 DEF IInv
<1>4. CASE MoveInRmdir(p)
  <2>1. /\ pc[p] = "mvRm" /\ Exit(p) /\ UNCHANGED <<vms, content, history, bounds>>
        /\ tmp' = [tmp EXCEPT ![loc[p].uuid] = IF Removable(@) THEN None ELSE @]
    BY <1>4 DEF MoveInRmdir
  <2>2. TypeOK'
    BY <2>1, ExitStep DEF IInv, TypeOK, history, bounds
  <2>3. ASSUME NEW q \in Proc \ {p} PROVE Control(q)'
    BY <2>1, ExitStep, Frame DEF IInv, history
  <2>. QED
    BY <2>1, <2>2, <2>3, ExitStep DEF IInv
<1>. QED
  BY <1>2, <1>3, <1>4, FailStep DEF MoveIn, MoveInFail

\* A command starts.
LEMMA StartStep ==
  ASSUME IInv, NEW p \in Proc, Start(p)
  PROVE  IInv'
<1>. USE NoneIsNothing
<1>. PICK c \in Commands :
       Goto(p, "gcNext", [Idle EXCEPT !.op = c.op, !.args = c.args, !.dst = c.dst,
                                      !.id = starts + 2,
                                      !.seen = {u \in Uuid : tmp[u] # None}])
  BY DEF Start
<1>. DEFINE S == {u \in Uuid : tmp[u] # None}
            r == [Idle EXCEPT !.op = c.op, !.args = c.args, !.dst = c.dst,
                              !.id = starts + 2, !.seen = S]
<1>0. Goto(p, "gcNext", r)
  OBVIOUS
<1>1. /\ c.op \in Op /\ c.args \in SUBSET Name /\ c.dst \in Name \cup {None}
      /\ c.op \in {"create", "clone"} => c.dst \in Name
  BY ConstantsAssumption DEF Command
<1>2. starts + 2 \in Stamp /\ starts + 1 \in 0 .. MaxStarts
  BY ConstantsAssumption DEF Start, IInv, TypeOK, Stamp
<1>3. S \in SUBSET Uuid
  OBVIOUS
<1>4. /\ r \in Local /\ r.op = c.op /\ r.dst = c.dst /\ r.hv = None
      /\ "gcNext" \in Label
  <2>. HIDE DEF S
  <2>. QED
    BY <1>1, <1>2, <1>3 DEF Local, Idle, Label, GCLabels
<1>5. UNCHANGED <<fsVars, lockVars, history, crashes>>
  BY DEF Start
<1>. HIDE DEF r
<1>6. starts' \in 0 .. MaxStarts /\ lone' \in [Proc -> BOOLEAN]
  BY <1>2 DEF Start
<1>7. TypeOK'
  BY <1>0, <1>4, <1>5, <1>6, GotoEffect DEF IInv, TypeOK, fsVars, lockVars, history
<1>8. Flocks'
  BY <1>5 DEF IInv, Flocks, lockVars
<1>9. Control(p)'
  BY <1>0, <1>1, <1>4, <1>5, GotoEffect
     DEF IInv, Control, Holds, Op, ExclusiveLabels, BuildLabels
<1>10. ASSUME NEW q \in Proc \ {p} PROVE Control(q)'
  BY <1>0, <1>4, <1>5, GotoEffect, Frame DEF IInv, fsVars, lockVars, history
<1>. QED
  BY <1>7, <1>8, <1>9, <1>10 DEF IInv

\* A process is killed; the hypervisor of a "vetu run" lives on.
LEMMA CrashStep ==
  ASSUME IInv, NEW p \in Proc, Crash(p)
  PROVE  IInv'
<1>. USE NoneIsNothing
<1>0. loc[p] \in Local /\ Control(p)
  BY DEF IInv, TypeOK
<1>1. crashes' \in 0 .. MaxCrashes /\ UNCHANGED <<fsVars, history, starts, lone>>
  BY ConstantsAssumption DEF Crash, IInv, TypeOK
<1>2. CASE pc[p] = "running"
  <2>1. /\ Goto(p, "orphan", loc[p]) /\ "orphan" \in Label
        /\ pid' = [pid EXCEPT ![p] = None]
        /\ UNCHANGED <<glock, excl, shrd>>
    BY <1>2 DEF Crash, Label
  <2>2. TypeOK' /\ Flocks'
    BY <1>0, <1>1, <2>1, GotoEffect DEF IInv, TypeOK, Flocks, fsVars, history
  <2>3. Control(p)'
    BY <1>0, <1>1, <1>2, <2>1, GotoEffect
       DEF fsVars, history, IInv, Control, There, Holds, Op, ExclusiveLabels, BuildLabels
  <2>4. ASSUME NEW q \in Proc \ {p} PROVE Control(q)'
    BY <1>0, <1>1, <2>1, GotoEffect, Frame DEF IInv, fsVars, history
  <2>. QED
    BY <2>2, <2>3, <2>4 DEF IInv
<1>3. CASE pc[p] # "running"
  <2>1. Exit(p)
    BY <1>3 DEF Crash
  <2>2. TypeOK'
    BY <1>1, <2>1, ExitStep DEF IInv, TypeOK, fsVars, history
  <2>3. ASSUME NEW q \in Proc \ {p} PROVE Control(q)'
    BY <1>1, <2>1, ExitStep, Frame DEF IInv, fsVars, history
  <2>. QED
    BY <2>1, <2>2, <2>3, ExitStep DEF IInv
<1>. QED
  BY <1>2, <1>3

---------------------------------------------------------------------------
(* The theorems.                                                           *)

\* IInv holds at first and every step, of a command or of nobody, keeps it.
THEOREM Invariance == Spec => []IInv
<1>1. Init => IInv
  <2>. SUFFICES ASSUME Init PROVE IInv
    OBVIOUS
  <2>. USE NoneIsNothing
  <2>1. TypeOK
    BY ConstantsAssumption, IdleType DEF Init, TypeOK, Stamp, Label
  <2>2. Flocks
    BY DEF Init, Flocks
  <2>3. ASSUME NEW p \in Proc PROVE Control(p)
    <3>1. pc[p] = "idle" /\ loc[p] = Idle
      BY DEF Init
    <3>. QED
      BY <3>1 DEF Control, Idle, Holds, Op, ExclusiveLabels, BuildLabels
  <2>. QED
    BY <2>1, <2>2, <2>3 DEF IInv
<1>2. IInv /\ [Next]_vars => IInv'
  <2>. SUFFICES ASSUME IInv, [Next]_vars PROVE IInv'
    OBVIOUS
  <2>1. ASSUME NEW p \in Proc, Start(p) \/ Step(p) \/ Crash(p) PROVE IInv'
    BY <2>1, StartStep, CrashStep, GCSteps, SetSteps, RunSteps, BuildSteps, OpenSteps,
       RemoveSteps, PushStep, MoveInSteps DEF Step, Push
  <2>2. CASE UNCHANGED vars
    <3>1. UNCHANGED <<vms, tmp, content, glock, excl, shrd, pid, pc, loc, starts, crashes,
                      lone, displaced, doomed, suspect>>
      BY <2>2 DEF vars, fsVars, lockVars, bounds, history
    <3>2. TypeOK' /\ Flocks'
      BY <3>1 DEF IInv, TypeOK, Flocks
    <3>3. ASSUME NEW q \in Proc PROVE Control(q)'
      BY <3>1, Frame DEF IInv
    <3>. QED
      BY <3>2, <3>3 DEF IInv
  <2>. QED
    BY <2>1, <2>2 DEF Next, Quiet
<1>. QED
  BY <1>1, <1>2, PTL DEF Spec

\* Type correctness of the store, for any number of commands and names.
THEOREM TypeCorrect == Spec => []TypeOK
BY Invariance, PTL DEF IInv

\* Every command works on the directory it locked, or that directory has been
\* replaced by a MoveIn.
THEOREM LockedIsNamedAlways == Spec => []LockedIsNamed
<1>1. IInv => LockedIsNamed
  BY DEF IInv, Control, LockedIsNamed, Working, Holds, ExclusiveLabels, BuildLabels
<1>. QED
  BY <1>1, Invariance, PTL

\* local.Delete removes nothing but the VM it has locked, and nobody else has a
\* lock on it.
THEOREM DeleteRemovesLockedAlways == Spec => []DeleteRemovesLocked
<1>1. IInv => DeleteRemovesLocked
  BY DEF IInv, Control, Flocks, DeleteRemovesLocked, Exclusive, ExclusiveLabels
<1>. QED
  BY <1>1, Invariance, PTL

\* Two hypervisors have the same disks open only if a MoveIn replaced the VM of
\* one of them while it ran.
THEOREM HypervisorExclusiveAlways == Spec => []HypervisorExclusive
<1>1. IInv => HypervisorExclusive
  <2>. SUFFICES ASSUME IInv, NEW p \in Proc, NEW q \in Proc, p # q,
                       loc[p].hv # None, loc[p].hv = loc[q].hv,
                       loc[p].fd \notin displaced, loc[q].fd \notin displaced
                PROVE  FALSE
    BY DEF HypervisorExclusive
  <2>1. loc[p].hv = loc[p].fd /\ loc[p].fd \in excl[p]
    BY DEF IInv, Control, ExclusiveLabels
  <2>2. loc[q].hv = loc[q].fd /\ loc[q].fd \in excl[q]
    BY DEF IInv, Control, ExclusiveLabels
  <2>. QED
    BY <2>1, <2>2 DEF IInv, Flocks
<1>. QED
  BY <1>1, Invariance, PTL

\* A name disappears from vms/ only at the end of a delete of that name, which
\* holds the global lock, or of a push of it: no local.MoveIn leaves a moment without the VM it replaces.
THEOREM NamesVanishOnPurposeAlways == Spec => NamesVanishOnPurpose
<1>. DEFINE Vanish == \A n \in Name : vms[n] # None /\ vms'[n] = None =>
                        \E p \in Proc : /\ loc[p].cur = n
                                        /\ (pc[p] = "delRm" /\ glock = p) \/ pc[p] = "push"
<1>1. IInv /\ [Next]_vars => [Vanish]_vars
  <2>. SUFFICES ASSUME IInv, Next PROVE Vanish \/ UNCHANGED vms
    BY DEF vars, fsVars
  <2>1. ASSUME NEW p \in Proc, Start(p) \/ Crash(p)
        PROVE  UNCHANGED vms
    BY <2>1 DEF Start, Crash, fsVars
  <2>2. ASSUME NEW p \in Proc, GC(p) \/ Unlink(p) PROVE UNCHANGED vms
    BY <2>2 DEF GC, GCOpen, GCTrylock, GCResolve, GCRmdir, GCDone, Unlink, Continue, Fail, fsVars
  <2>3. ASSUME NEW p \in Proc, OpenNamed(p) \/ LockNamed(p) \/ PushExit(p) PROVE UNCHANGED vms
    BY <2>3 DEF OpenNamed, LockNamed, PushExit, Fail, fsVars
  <2>4. ASSUME NEW p \in Proc, Set(p) \/ Run(p) PROVE UNCHANGED vms
    BY <2>4 DEF Set, SetRead, SetDisk, SetConfig, Run, RunConfig, RunPid, RunNet, RunStart,
                RunExit, Continue, Fail, fsVars
  <2>5. ASSUME NEW p \in Proc, Build(p) PROVE UNCHANGED vms
    BY <2>5 DEF Build, MakeTmp, InitConfig, OpenTmp, LockTmp, CopyIn, ReadSource, CopyFile,
                WriteConfig, Continue, Fail, fsVars
  <2>6. ASSUME NEW p \in Proc, MoveIn(p) PROVE Vanish \/ UNCHANGED vms
    <3>1. CASE MoveInFail(p) \/ MoveInRmdir(p)
      BY <3>1 DEF MoveInFail, MoveInRmdir, Fail, fsVars
    <3>2. CASE MoveInRename(p) \/ MoveInExchange(p)
      <4>1. Built(p) # None /\ vms' = [vms EXCEPT ![loc[p].dst] = Built(p)]
        BY <3>2 DEF MoveInRename, MoveInExchange
      <4>. QED
        BY <4>1 DEF IInv, TypeOK
    <3>. QED
      BY <2>6, <3>1, <3>2 DEF MoveIn
  <2>7. ASSUME NEW p \in Proc, PushPopulate(p) PROVE Vanish
    <3>1. pc[p] = "push" /\ vms' = [vms EXCEPT ![loc[p].cur] = None]
      BY <2>7 DEF PushPopulate
    <3>2. \A n \in Name : n # loc[p].cur => vms'[n] = vms[n]
      BY <3>1 DEF IInv, TypeOK
    <3>. QED
      BY <3>1, <3>2
  <2>8. ASSUME NEW p \in Proc, Delete(p) PROVE Vanish \/ UNCHANGED vms
    <3>1. CASE DeleteResolve(p)
      BY <3>1 DEF DeleteResolve, fsVars
    <3>2. CASE DeleteRmdir(p)
      <4>1. pc[p] = "delRm" /\ glock = p
        BY <3>2 DEF DeleteRmdir, IInv, Control
      <4>2. vms' = [vms EXCEPT ![loc[p].cur] = IF Removable(@) THEN None ELSE @]
        BY <3>2 DEF DeleteRmdir
      <4>3. \A n \in Name : n # loc[p].cur => vms'[n] = vms[n]
        BY <4>2 DEF IInv, TypeOK
      <4>. QED
        BY <4>1, <4>3
    <3>. QED
      BY <2>8, <3>1, <3>2 DEF Delete
  <2>. QED
    BY <2>1, <2>2, <2>3, <2>4, <2>5, <2>6, <2>7, <2>8 DEF Next, Step, Push, Quiet, vars, fsVars
<1>. QED
  BY <1>1, Invariance, PTL DEF Spec, NamesVanishOnPurpose

---------------------------------------------------------------------------
(* What the entries of tmp/ and vms/ denote, whose they are and what they  *)
(* hold, on top of the invariant above.                                    *)

---------------------------------------------------------------------------
(* Names and locks.                                                        *)

\* Where a builder has the lock on the directory that it builds.
PostLock == {"copyIn", "readSrc", "copySrc", "writeConfig", "moveIn"}

\* No directory has two names.
Unique ==
  /\ \A m, n \in Name : vms[m] = vms[n] /\ vms[m] # None => m = n
  /\ \A u, v \in Uuid : tmp[u] = tmp[v] /\ tmp[u] # None => u = v
  /\ \A n \in Name, u \in Uuid : vms[n] = tmp[u] => vms[n] = None

\* No two commands build under the same UUID.
Owned ==
  \A p, q \in Proc :
    p # q /\ pc[p] \in BuildLabels \cup {"mvRm"} /\ pc[q] \in BuildLabels \cup {"mvRm"} =>
      loc[p].uuid # loc[q].uuid

\* Which flocks a process has, given where it is.
LockSets(p) ==
  /\ pc[p] \in {"idle", "gcNext", "gcLock", "open", "lock"} => excl[p] = {} /\ shrd[p] = {}
  /\ pc[p] \in {"gcResolve", "gcRm"} \cup ExclusiveLabels => excl[p] = {loc[p].fd} /\ shrd[p] = {}
  /\ pc[p] = "push" => excl[p] = {} /\ shrd[p] = {loc[p].fd}
  /\ pc[p] \in {"mkTmp", "initConfig", "openTmp", "lockTmp"} => excl[p] = {}
  /\ pc[p] \in PostLock => excl[p] = {loc[p].target}
  /\ pc[p] \in {"mkTmp", "mvRm"} \cup BuildLabels =>
       shrd[p] = IF loc[p].op = "clone" THEN {loc[p].fd} ELSE {}

\* What MoveIn has replaced never comes back to vms/.
Replaced ==
  \A d \in displaced :
    /\ \A n \in Name : vms[n] # d
    /\ \A p \in Proc : pc[p] \in BuildLabels => Built(p) # d

\* The directory that a builder has opened is its own: it has no name but the
\* one in tmp/ under the builder's UUID, which may be gone.
Private(p) ==
  /\ pc[p] \in {"initConfig", "copyIn", "writeConfig"} => loc[p].op = "create"
  /\ pc[p] \in {"lockTmp"} \cup PostLock =>
       /\ loc[p].target \in Dir /\ loc[p].target \notin displaced
       /\ \A n \in Name : vms[n] # loc[p].target
       /\ \A v \in Uuid : tmp[v] = loc[p].target => v = loc[p].uuid
  /\ \/ pc[p] \in {"lockTmp", "copyIn", "readSrc", "copySrc"}
     \/ pc[p] = "moveIn" /\ loc[p].op = "clone"
     => Built(p) \in {loc[p].target, None}
  /\ pc[p] = "mvRm" => loc[p].target \in displaced /\ Built(p) \in {loc[p].target, None}

\* A lock on an entry of tmp/ is a collector's, or that of the command that
\* builds it, unless MoveIn has put the directory there.
Guarded ==
  \A q \in Proc, u \in Uuid :
    tmp[u] \in excl[q] \cup shrd[q] /\ tmp[u] \notin displaced =>
      pc[q] \in GCLabels \/ (pc[q] \in PostLock /\ loc[q].uuid = u /\ loc[q].target = tmp[u])

\* A collector p that has opened the directory of a builder b at work has opened
\* the one that b opens, until a create has lost it and made another one.
Collects(p, b) ==
  /\ pc[p] \in {"gcLock", "gcResolve", "gcRm"} /\ pc[b] \in BuildLabels
  /\ loc[p].uuid = loc[b].uuid
  => /\ pc[b] \in {"initConfig", "openTmp"} => Built(b) \in {loc[p].fd, None}
     /\ pc[b] \in {"lockTmp", "copyIn", "readSrc", "copySrc"} => loc[p].fd = loc[b].target
     /\ pc[b] \in {"writeConfig", "moveIn"} =>
          loc[p].fd = loc[b].target \/ Built(b) \in {loc[p].fd, None}

\* The directory a collector empties has lost its builder, and nobody but
\* collectors will get hold of it.
Lost(p) ==
  /\ \A b \in Proc : pc[b] \in BuildLabels => loc[b].uuid # loc[p].uuid
  /\ \A b \in Proc : pc[b] = "lockTmp" => loc[b].target # loc[p].target
  /\ \A n \in Name : vms[n] # loc[p].target
  /\ \A v \in Uuid : tmp[v] = loc[p].target => v = loc[p].uuid
  /\ \A q \in Proc : loc[p].target \in excl[q] \cup shrd[q] => pc[q] \in GCLabels

\* What a collector empties: what it has locked, a VM that was replaced, or what
\* nobody else can use.
Aims(p) ==
  pc[p] = "gcRm" => loc[p].target = loc[p].fd \/ loc[p].target \in displaced \/ Lost(p)

NInv ==
  /\ Unique /\ Owned /\ Replaced /\ Guarded
  /\ \A p \in Proc : LockSets(p) /\ Private(p) /\ Aims(p)
  /\ \A p, b \in Proc : Collects(p, b)

---------------------------------------------------------------------------
(* Contents.                                                               *)

\* What a builder has put into its directory so far.
Filled(p) ==
  /\ pc[p] # "idle" => loc[p].id # 0
  /\ pc[p] \in PostLock => Built(p) \in {loc[p].target, None} \cup suspect
  /\ pc[p] = "writeConfig" /\ Built(p) = loc[p].target => content[loc[p].target]["disk"] # 0
  /\ pc[p] = "moveIn" /\ loc[p].op = "create" /\ Built(p) = loc[p].target => Complete(loc[p].target)

\* What a clone has copied so far: what its source has.
Copied(p) ==
  loc[p].op = "clone" /\ pc[p] \in BuildLabels /\ Built(p) # None =>
    /\ pc[p] \in {"openTmp", "lockTmp", "readSrc"} => content[Built(p)] = EmptyDir
    /\ pc[p] = "copySrc" /\ loc[p].fd \notin displaced \cup suspect =>
         \A f \in File \ loc[p].todo : content[Built(p)][f] = content[loc[p].fd][f]
    /\ pc[p] = "moveIn" /\ loc[p].fd \notin displaced \cup suspect =>
         content[Built(p)] = content[loc[p].fd]

\* A collection does not reach what is in vms/, but a directory that create made
\* again after another collection took the first one.
Reaches(p) ==
  pc[p] = "gcRm" => \A n \in Name : vms[n] = loc[p].target => loc[p].target \in suspect

\* A delete is known for what it empties.
Dooms(p) == pc[p] = "delRm" => loc[p].target \in doomed

CInv ==
  /\ PublishedComplete
  /\ \A p \in Proc : Filled(p) /\ Copied(p) /\ Reaches(p) /\ Dooms(p)

\* Alone, a command meets nobody's locks and visits all of tmp/.
Alone(p) ==
  lone[p] =>
    /\ \A q \in Proc : q # p => pc[q] = "idle"
    /\ pc[p] \in GCLabels => \A u \in Uuid : tmp[u] # None =>
         u \in loc[p].seen \/ (pc[p] # "gcNext" /\ u = loc[p].uuid)
    /\ pc[p] \in {"open", "mkTmp", "lock", "delResolve", "delRm"} => \A u \in Uuid : tmp[u] = None

SInv == NInv /\ CInv /\ \A p \in Proc : Alone(p)

---------------------------------------------------------------------------
(* What a step of p does to the names, and to the other processes.         *)

\* The others stay where they are and keep their locks.
Apart(p) ==
  \A q \in Proc \ {p} : /\ pc'[q] = pc[q] /\ loc'[q] = loc[q]
                         /\ excl'[q] = excl[q] /\ shrd'[q] = shrd[q]

\* Names are only removed, and what is displaced loses its name in vms/.
Calm(p) ==
  /\ Apart(p)
  /\ \A n \in Name : vms'[n] \in {vms[n], None}
  /\ \A u \in Uuid : tmp'[u] \in {tmp[u], None}
  /\ displaced \subseteq displaced'
  /\ \A d \in displaced' \ displaced : \E n \in Name : vms[n] = d /\ vms'[n] = None

\* A builder goes on with its own directory.
Builds(p) ==
  /\ pc'[p] \in BuildLabels => /\ pc[p] \in BuildLabels /\ pc'[p] # "initConfig"
                               /\ loc'[p].uuid = loc[p].uuid /\ loc'[p].op = loc[p].op
  /\ pc'[p] = "openTmp" => pc[p] = "initConfig"
  /\ pc'[p] = "lockTmp" => pc[p] = "openTmp" /\ loc'[p].target = Built(p) /\ Built(p) # None
  /\ pc'[p] \in PostLock => pc[p] \in {"lockTmp"} \cup PostLock /\ loc'[p].target = loc[p].target
  /\ pc'[p] \in {"copyIn", "readSrc", "copySrc"} => pc[p] \in {"lockTmp", "copyIn", "readSrc", "copySrc"}
  /\ pc'[p] = "moveIn" => pc[p] \in {"copySrc", "writeConfig"}
  /\ pc'[p] \in {"copyIn", "writeConfig"} => loc[p].op = "create"
  /\ pc'[p] = "mvRm" => /\ pc[p] = "mvRm"
                        /\ loc'[p].uuid = loc[p].uuid /\ loc'[p].target = loc[p].target

\* A collector goes on with the entry it has opened.
Sweeps(p) ==
  /\ pc'[p] = "gcLock" => loc'[p].fd = tmp[loc'[p].uuid] /\ loc'[p].fd # None
  /\ pc'[p] = "gcResolve" =>
       pc[p] = "gcLock" /\ loc'[p].uuid = loc[p].uuid /\ loc'[p].fd = loc[p].fd
  /\ pc'[p] = "gcRm" =>
       /\ loc'[p].uuid = loc[p].uuid /\ loc'[p].fd = loc[p].fd
       /\ \/ pc[p] = "gcRm" /\ loc'[p].target = loc[p].target
          \/ pc[p] = "gcResolve" /\ loc'[p].target = Built(p) /\ Built(p) # None

\* What p has locked it had locked, or found in vms/, or opened as its own.
Takes(p) ==
  \A d \in excl'[p] \cup shrd'[p] :
    \/ pc'[p] \in GCLabels
    \/ d \in displaced \/ \E n \in Name : vms[n] = d
    \/ /\ d \in excl[p] \cup shrd[p] /\ pc[p] \notin GCLabels
       /\ pc[p] \in PostLock => pc'[p] \in PostLock
    \/ pc[p] = "lockTmp" /\ pc'[p] \in PostLock /\ d = loc[p].target

Turns(p) == Builds(p) /\ Sweeps(p) /\ Takes(p)

---------------------------------------------------------------------------
(* The invariant of the names, NInv, after a calm step.                    *)

\* The other processes keep what NInv says of them.
LEMMA CalmOthers ==
  ASSUME IInv, IInv', NInv, NEW p \in Proc, Calm(p), Turns(p), NEW q \in Proc \ {p}
  PROVE  LockSets(q)' /\ Private(q)'
<1>1. /\ pc'[q] = pc[q] /\ loc'[q] = loc[q] /\ excl'[q] = excl[q] /\ shrd'[q] = shrd[q]
      /\ LockSets(q) /\ Private(q)
  BY DEF Calm, Apart, NInv
<1>2. LockSets(q)'
  BY <1>1 DEF LockSets
<1>3. /\ \A n \in Name : vms'[n] \in {vms[n], None}
      /\ \A u \in Uuid : tmp'[u] \in {tmp[u], None}
      /\ \A d \in displaced' \ displaced : \E n \in Name : vms[n] = d
      /\ displaced \subseteq displaced'
  BY DEF Calm
<1>4. pc[q] \in BuildLabels \cup {"mvRm"} => loc[q].uuid \in Uuid
  BY DEF IInv, Control
<1>5. pc[q] \in {"lockTmp"} \cup PostLock => pc[q] \in BuildLabels
  BY DEF PostLock, BuildLabels
<1>6. pc[q] \in BuildLabels \cup {"mvRm"} => Built(q)' \in {Built(q), None}
  BY <1>1, <1>3, <1>4 DEF Built
<1>7. ASSUME pc[q] \in {"lockTmp"} \cup PostLock
      PROVE  /\ loc[q].target \in Dir /\ loc[q].target \notin displaced'
             /\ \A n \in Name : vms'[n] # loc[q].target
             /\ \A v \in Uuid : tmp'[v] = loc[q].target => v = loc[q].uuid
  BY <1>1, <1>3, <1>7, NoneIsNothing DEF Private
<1>8. \/ pc[q] \in {"lockTmp", "copyIn", "readSrc", "copySrc"}
      \/ pc[q] = "moveIn" /\ loc[q].op = "clone"
      => Built(q)' \in {loc[q].target, None}
  BY <1>1, <1>6 DEF Private, BuildLabels
<1>9. pc[q] = "mvRm" => loc[q].target \in displaced' /\ Built(q)' \in {loc[q].target, None}
  BY <1>1, <1>3, <1>6 DEF Private
<1>10. Private(q)'
  BY <1>1, <1>7, <1>8, <1>9 DEF Private
<1>. QED
  BY <1>2, <1>10

\* Directories keep at most one name, UUIDs one owner, and what MoveIn has
\* replaced stays away.
LEMMA CalmNames ==
  ASSUME IInv, IInv', NInv, NEW p \in Proc, Calm(p), Turns(p)
  PROVE  Unique' /\ Owned' /\ Replaced'
<1>1. /\ \A n \in Name : vms'[n] \in {vms[n], None}
      /\ \A u \in Uuid : tmp'[u] \in {tmp[u], None}
      /\ \A d \in displaced' \ displaced : \E n \in Name : vms[n] = d /\ vms'[n] = None
  BY DEF Calm
<1>2. Unique /\ Owned /\ Replaced
  BY DEF NInv
<1>3. Unique'
  BY <1>1, <1>2 DEF Unique
<1>4. \A q \in Proc : pc'[q] \in BuildLabels => pc[q] \in BuildLabels /\ loc'[q].uuid = loc[q].uuid
  BY DEF Calm, Apart, Turns, Builds
<1>5. \A q \in Proc : pc'[q] = "mvRm" => pc[q] = "mvRm" /\ loc'[q].uuid = loc[q].uuid
  BY DEF Calm, Apart, Turns, Builds
<1>6. Owned'
  BY <1>2, <1>4, <1>5 DEF Owned
<1>7. \A q \in Proc : pc'[q] \in BuildLabels =>
        /\ loc[q].uuid \in Uuid /\ pc[q] \in BuildLabels
        /\ Built(q)' \in {tmp[loc[q].uuid], None}
  BY <1>1, <1>4 DEF Built, IInv, Control
<1>8. ASSUME NEW d \in displaced', NEW n \in Name PROVE vms'[n] # d
  <2>1. d \in Dir
    BY DEF IInv, TypeOK
  <2>2. CASE d \in displaced
    BY <1>1, <1>2, <2>1, <2>2, NoneIsNothing DEF Replaced
  <2>3. CASE d \notin displaced
    <3>1. PICK m \in Name : vms[m] = d /\ vms'[m] = None
      BY <1>1, <2>3
    <3>. QED
      BY <1>1, <1>2, <2>1, <3>1, NoneIsNothing DEF Unique
  <2>. QED
    BY <2>2, <2>3
<1>9. ASSUME NEW d \in displaced', NEW q \in Proc, pc'[q] \in BuildLabels PROVE Built(q)' # d
  <2>1. d \in Dir
    BY DEF IInv, TypeOK
  <2>2. CASE d \in displaced
    BY <1>2, <1>7, <1>9, <2>1, <2>2, NoneIsNothing DEF Replaced, Built
  <2>3. CASE d \notin displaced
    BY <1>1, <1>2, <1>7, <1>9, <2>1, <2>3, NoneIsNothing DEF Unique
  <2>. QED
    BY <2>2, <2>3
<1>10. Replaced'
  BY <1>8, <1>9 DEF Replaced
<1>. QED
  BY <1>3, <1>6, <1>10

\* The process that takes the step is in its own directory.
LEMMA CalmSelf ==
  ASSUME IInv, IInv', NInv, NEW p \in Proc, Calm(p), Turns(p)
  PROVE  Private(p)'
<1>1. /\ \A n \in Name : vms'[n] \in {vms[n], None}
      /\ \A u \in Uuid : tmp'[u] \in {tmp[u], None}
      /\ \A d \in displaced' \ displaced : \E n \in Name : vms[n] = d
      /\ displaced \subseteq displaced'
  BY DEF Calm
<1>2. Unique /\ Replaced /\ Private(p) /\ Builds(p)
  BY DEF NInv, Turns
<1>3. pc'[p] \in BuildLabels \cup {"mvRm"} =>
        loc'[p].uuid = loc[p].uuid /\ loc[p].uuid \in Uuid /\ Built(p)' \in {Built(p), None}
  BY <1>1, <1>2 DEF Builds, IInv, Control, Built
<1>4. pc'[p] \in {"initConfig", "copyIn", "writeConfig"} => loc'[p].op = "create"
  BY <1>2 DEF Builds, Private, BuildLabels
<1>5. ASSUME pc'[p] = "lockTmp"
      PROVE  /\ loc'[p].target \in Dir /\ loc'[p].target \notin displaced'
             /\ \A n \in Name : vms'[n] # loc'[p].target
             /\ \A v \in Uuid : tmp'[v] = loc'[p].target => v = loc'[p].uuid
             /\ Built(p)' \in {loc'[p].target, None}
  <2>1. pc[p] = "openTmp" /\ loc'[p].target = Built(p) /\ Built(p) # None
    BY <1>2, <1>5 DEF Builds
  <2>2. Built(p) \notin displaced /\ Built(p) \in Dir /\ Built(p) = tmp[loc[p].uuid]
        /\ loc[p].uuid \in Uuid
    BY <1>2, <2>1 DEF Replaced, Built, IInv, TypeOK, Control, BuildLabels
  <2>3. \A n \in Name : vms[n] # Built(p)
    BY <1>2, <2>1, <2>2 DEF Unique
  <2>. QED
    BY <1>1, <1>2, <1>3, <1>5, <2>1, <2>2, <2>3, NoneIsNothing DEF Unique, BuildLabels
<1>6. ASSUME pc'[p] \in PostLock
      PROVE  /\ loc'[p].target \in Dir /\ loc'[p].target \notin displaced'
             /\ \A n \in Name : vms'[n] # loc'[p].target
             /\ \A v \in Uuid : tmp'[v] = loc'[p].target => v = loc'[p].uuid
  <2>1. pc[p] \in {"lockTmp"} \cup PostLock /\ loc'[p].target = loc[p].target
        /\ loc'[p].uuid = loc[p].uuid
    BY <1>2, <1>3, <1>6 DEF Builds, PostLock, BuildLabels
  <2>. QED
    BY <1>1, <1>2, <2>1, NoneIsNothing DEF Private
<1>7. ASSUME \/ pc'[p] \in {"copyIn", "readSrc", "copySrc"}
             \/ pc'[p] = "moveIn" /\ loc'[p].op = "clone"
      PROVE  Built(p)' \in {loc'[p].target, None}
  <2>1. loc'[p].target = loc[p].target /\ Built(p)' \in {Built(p), None} /\ loc'[p].op = loc[p].op
    BY <1>2, <1>3, <1>7 DEF Builds, PostLock, BuildLabels
  <2>2. pc[p] \in {"lockTmp", "copyIn", "readSrc", "copySrc"}
    BY <1>2, <1>7, <2>1 DEF Builds, Private
  <2>. QED
    BY <1>2, <2>1, <2>2 DEF Private
<1>8. pc'[p] = "mvRm" => loc'[p].target \in displaced' /\ Built(p)' \in {loc'[p].target, None}
  BY <1>1, <1>2, <1>3 DEF Builds, Private
<1>. QED
  BY <1>4, <1>5, <1>6, <1>7, <1>8 DEF Private

\* A lock on an entry of tmp/ stays a collector's or the builder's.
LEMMA CalmGuard ==
  ASSUME IInv, IInv', NInv, NEW p \in Proc, Calm(p), Turns(p)
  PROVE  Guarded'
<1>. SUFFICES ASSUME NEW q \in Proc, NEW u \in Uuid,
                     tmp'[u] \in excl'[q] \cup shrd'[q], tmp'[u] \notin displaced'
              PROVE  \/ pc'[q] \in GCLabels
                     \/ pc'[q] \in PostLock /\ loc'[q].uuid = u /\ loc'[q].target = tmp'[u]
  BY DEF Guarded
<1>1. tmp'[u] = tmp[u] /\ tmp[u] \in Dir /\ tmp[u] \notin displaced
  BY NoneIsNothing DEF Calm, IInv, TypeOK
<1>2. Guarded /\ Unique /\ Private(p)
  BY DEF NInv
<1>3. CASE q # p
  BY <1>1, <1>2, <1>3 DEF Calm, Apart, Guarded
<1>4. CASE q = p
  <2>1. \/ pc'[p] \in GCLabels
        \/ \E n \in Name : vms[n] = tmp[u]
        \/ /\ tmp[u] \in excl[p] \cup shrd[p] /\ pc[p] \notin GCLabels
           /\ pc[p] \in PostLock => pc'[p] \in PostLock
        \/ pc[p] = "lockTmp" /\ pc'[p] \in PostLock /\ tmp[u] = loc[p].target
    BY <1>1, <1>4 DEF Turns, Takes
  <2>2. ~ \E n \in Name : vms[n] = tmp[u]
    BY <1>1, <1>2, NoneIsNothing DEF Unique
  <2>3. pc'[p] \in PostLock => loc'[p].uuid = loc[p].uuid /\ loc'[p].target = loc[p].target
    BY DEF Turns, Builds, PostLock, BuildLabels
  <2>4. CASE tmp[u] \in excl[p] \cup shrd[p] /\ pc[p] \notin GCLabels
    <3>1. pc[p] \in PostLock /\ loc[p].uuid = u /\ loc[p].target = tmp[u]
      BY <1>1, <1>2, <2>4 DEF Guarded
    <3>. QED
      BY <1>1, <1>4, <2>1, <2>2, <2>3, <3>1
  <2>5. CASE pc[p] = "lockTmp" /\ pc'[p] \in PostLock /\ tmp[u] = loc[p].target
    BY <1>1, <1>2, <1>4, <2>3, <2>5 DEF Private
  <2>. QED
    BY <1>4, <2>1, <2>2, <2>4, <2>5
<1>. QED
  BY <1>3, <1>4

\* Collectors and builders of the same entry still agree on its directory.
LEMMA CalmCollects ==
  ASSUME IInv, IInv', NInv, NEW p \in Proc, Calm(p), Turns(p), NEW c \in Proc, NEW b \in Proc
  PROVE  Collects(c, b)'
<1>. SUFFICES ASSUME pc'[c] \in {"gcLock", "gcResolve", "gcRm"}, pc'[b] \in BuildLabels,
                     loc'[c].uuid = loc'[b].uuid
              PROVE  /\ pc'[b] \in {"initConfig", "openTmp"} => Built(b)' \in {loc'[c].fd, None}
                     /\ pc'[b] \in {"lockTmp", "copyIn", "readSrc", "copySrc"} =>
                          loc'[c].fd = loc'[b].target
                     /\ pc'[b] \in {"writeConfig", "moveIn"} =>
                          loc'[c].fd = loc'[b].target \/ Built(b)' \in {loc'[c].fd, None}
  BY DEF Collects
<1>1. c # b
  BY DEF BuildLabels
<1>2. Collects(c, b) /\ Private(b)
  BY DEF NInv
<1>3. /\ pc[b] \in BuildLabels /\ loc'[b].uuid = loc[b].uuid /\ loc[b].uuid \in Uuid
      /\ Built(b)' \in {Built(b), None}
  BY DEF Calm, Apart, Turns, Builds, IInv, Control, Built
<1>4. CASE c # p /\ b # p
  BY <1>2, <1>3, <1>4 DEF Calm, Apart, Collects
<1>5. CASE b = p
  <2>1. pc'[c] = pc[c] /\ loc'[c] = loc[c]
    BY <1>1, <1>5 DEF Calm, Apart
  <2>2. Builds(b)
    BY <1>5 DEF Turns
  <2>3. pc[b] \in {"initConfig", "openTmp"} => Built(b) \in {loc[c].fd, None}
    BY <1>2, <1>3, <2>1 DEF Collects
  <2>4. pc[b] \in {"lockTmp", "copyIn", "readSrc", "copySrc"} => loc[c].fd = loc[b].target
    BY <1>2, <1>3, <2>1 DEF Collects
  <2>5. pc[b] \in {"writeConfig", "moveIn"} =>
          loc[c].fd = loc[b].target \/ Built(b) \in {loc[c].fd, None}
    BY <1>2, <1>3, <2>1 DEF Collects
  <2>6. pc'[b] \in {"initConfig", "openTmp"} => Built(b)' \in {loc'[c].fd, None}
    BY <1>3, <2>1, <2>2, <2>3 DEF Builds
  <2>7. pc'[b] \in {"lockTmp", "copyIn", "readSrc", "copySrc"} => loc'[c].fd = loc'[b].target
    BY <1>3, <2>1, <2>2, <2>3, <2>4 DEF Builds, PostLock
  <2>8. pc'[b] \in {"writeConfig", "moveIn"} =>
          loc'[c].fd = loc'[b].target \/ Built(b)' \in {loc'[c].fd, None}
    BY <1>3, <2>1, <2>2, <2>4, <2>5 DEF Builds, PostLock
  <2>. QED
    BY <2>6, <2>7, <2>8
<1>6. CASE c = p
  <2>1. pc'[b] = pc[b] /\ loc'[b] = loc[b]
    BY <1>1, <1>6 DEF Calm, Apart
  <2>2. CASE pc'[c] = "gcLock"
    <3>1. loc'[c].fd = Built(b) /\ loc'[c].fd # None
      BY <1>3, <1>6, <2>1, <2>2 DEF Turns, Sweeps, Built
    <3>. QED
      BY <1>2, <1>3, <2>1, <3>1 DEF Private
  <2>3. CASE pc'[c] \in {"gcResolve", "gcRm"}
    <3>1. pc[c] \in {"gcLock", "gcResolve", "gcRm"} /\ loc'[c].uuid = loc[c].uuid
          /\ loc'[c].fd = loc[c].fd
      BY <1>6, <2>3 DEF Turns, Sweeps
    <3>. QED
      BY <1>2, <1>3, <2>1, <3>1 DEF Collects
  <2>. QED
    BY <2>2, <2>3
<1>. QED
  BY <1>4, <1>5, <1>6

\* What nobody but collectors can get hold of stays so.
LEMMA CalmLost ==
  ASSUME IInv, IInv', NInv, NEW p \in Proc, Calm(p), Turns(p), NEW q \in Proc,
         pc[q] = "gcRm", pc'[q] = "gcRm", Lost(q), loc[q].target \notin displaced,
         loc'[q].target = loc[q].target, loc'[q].uuid = loc[q].uuid
  PROVE  Lost(q)'
<1>. DEFINE t == loc[q].target
            u == loc[q].uuid
<1>0. t \in Dir /\ u \in Uuid
  BY DEF IInv, Control
<1>1. /\ \A b \in Proc : pc[b] \in BuildLabels => loc[b].uuid # u
      /\ \A b \in Proc : pc[b] = "lockTmp" => loc[b].target # t
      /\ \A n \in Name : vms[n] # t
      /\ \A v \in Uuid : tmp[v] = t => v = u
      /\ \A b \in Proc : t \in excl[b] \cup shrd[b] => pc[b] \in GCLabels
  BY DEF Lost
<1>2. ASSUME NEW b \in Proc, pc'[b] \in BuildLabels PROVE loc'[b].uuid # u
  BY <1>1, <1>2 DEF Calm, Apart, Turns, Builds
<1>3. ASSUME NEW b \in Proc, pc'[b] = "lockTmp" PROVE loc'[b].target # t
  <2>1. CASE b # p
    BY <1>1, <1>3, <2>1 DEF Calm, Apart
  <2>2. CASE b = p
    <3>1. pc[p] = "openTmp" /\ loc'[p].target = tmp[loc[p].uuid] /\ loc[p].uuid \in Uuid
      BY <1>3, <2>2 DEF Turns, Builds, Built, IInv, Control, BuildLabels
    <3>2. loc[p].uuid # u
      BY <1>1, <3>1 DEF BuildLabels
    <3>. QED
      BY <1>1, <2>2, <3>1, <3>2
  <2>. QED
    BY <2>1, <2>2
<1>4. (\A n \in Name : vms'[n] # t) /\ (\A v \in Uuid : tmp'[v] = t => v = u)
  BY <1>0, <1>1, NoneIsNothing DEF Calm
<1>5. ASSUME NEW b \in Proc, t \in excl'[b] \cup shrd'[b] PROVE pc'[b] \in GCLabels
  <2>1. CASE b # p
    BY <1>1, <1>5, <2>1 DEF Calm, Apart
  <2>2. CASE b = p
    <3>1. \/ pc'[p] \in GCLabels
          \/ t \in excl[p] \cup shrd[p] /\ pc[p] \notin GCLabels
          \/ pc[p] = "lockTmp" /\ t = loc[p].target
      BY <1>1, <1>5, <2>2 DEF Turns, Takes
    <3>. QED
      BY <1>1, <2>2, <3>1
  <2>. QED
    BY <2>1, <2>2
<1>. QED
  BY <1>2, <1>3, <1>4, <1>5 DEF Lost

\* A collector that finds another directory than the one it has locked under the
\* name it was given finds one without a builder.
LEMMA FindsLost ==
  ASSUME IInv, NInv, NEW p \in Proc, pc[p] = "gcResolve",
         Built(p) \notin {loc[p].fd, None}, Built(p) \notin displaced
  PROVE  /\ \A b \in Proc : pc[b] \in BuildLabels => loc[b].uuid # loc[p].uuid
         /\ \A b \in Proc : pc[b] = "lockTmp" => loc[b].target # Built(p)
         /\ \A n \in Name : vms[n] # Built(p)
         /\ \A v \in Uuid : tmp[v] = Built(p) => v = loc[p].uuid
         /\ \A q \in Proc : Built(p) \in excl[q] \cup shrd[q] => pc[q] \in GCLabels
<1>1. loc[p].uuid \in Uuid /\ Built(p) = tmp[loc[p].uuid] /\ Built(p) # None
  BY DEF IInv, Control, Built
<1>2. Unique /\ Guarded
  BY DEF NInv
<1>3. ASSUME NEW b \in Proc, pc[b] \in BuildLabels, loc[b].uuid = loc[p].uuid PROVE FALSE
  <2>1. b # p /\ Built(b) = Built(p)
    BY <1>3 DEF BuildLabels, Built
  <2>2. Collects(p, b) /\ Private(b) /\ LockSets(b) /\ LockSets(p)
    BY DEF NInv
  <2>3. CASE pc[b] \in {"initConfig", "openTmp"}
    BY <1>3, <2>1, <2>2, <2>3 DEF Collects
  <2>4. CASE pc[b] \in {"lockTmp", "copyIn", "readSrc", "copySrc"}
    BY <1>3, <2>1, <2>2, <2>4 DEF Collects, Private
  <2>5. CASE pc[b] \in {"writeConfig", "moveIn"}
    <3>1. loc[p].fd = loc[b].target \/ Built(b) \in {loc[p].fd, None}
      BY <1>3, <2>2, <2>5 DEF Collects
    <3>2. loc[p].fd \in excl[p] /\ loc[b].target \in excl[b]
      BY <2>2, <2>5 DEF LockSets, PostLock
    <3>3. loc[p].fd # loc[b].target
      BY <2>1, <3>2 DEF IInv, Flocks
    <3>. QED
      BY <2>1, <3>1, <3>3
  <2>. QED
    BY <1>3, <2>3, <2>4, <2>5 DEF BuildLabels
<1>4. ASSUME NEW b \in Proc, pc[b] = "lockTmp" PROVE loc[b].target # Built(p)
  <2>1. Private(b) /\ pc[b] \in BuildLabels
    BY <1>4 DEF NInv, BuildLabels
  <2>. QED
    BY <1>1, <1>3, <1>4, <2>1 DEF Private
<1>5. \A q \in Proc : Built(p) \in excl[q] \cup shrd[q] => pc[q] \in GCLabels
  BY <1>1, <1>2, <1>3 DEF Guarded, PostLock, BuildLabels
<1>. QED
  BY <1>1, <1>2, <1>3, <1>4, <1>5 DEF Unique

\* A collector still empties nothing that somebody else can use.
LEMMA CalmAims ==
  ASSUME IInv, IInv', NInv, NEW p \in Proc, Calm(p), Turns(p), NEW q \in Proc
  PROVE  Aims(q)'
<1>. SUFFICES ASSUME pc'[q] = "gcRm", loc'[q].target # loc'[q].fd, loc'[q].target \notin displaced'
              PROVE  Lost(q)'
  BY DEF Aims
<1>1. Aims(q) /\ displaced \subseteq displaced'
  BY DEF NInv, Calm
<1>2. CASE pc[q] = "gcRm"
  <2>1. loc'[q].target = loc[q].target /\ loc'[q].uuid = loc[q].uuid /\ loc'[q].fd = loc[q].fd
    BY <1>2 DEF Calm, Apart, Turns, Sweeps
  <2>2. Lost(q) /\ loc[q].target \notin displaced
    BY <1>1, <1>2, <2>1 DEF Aims
  <2>. QED
    BY <1>2, <2>1, <2>2, CalmLost
<1>3. CASE pc[q] # "gcRm"
  <2>1. /\ q = p /\ pc[p] = "gcResolve" /\ loc'[p].target = Built(p) /\ Built(p) # None
        /\ loc'[p].uuid = loc[p].uuid /\ loc'[p].fd = loc[p].fd
    BY <1>3 DEF Calm, Apart, Turns, Sweeps
  <2>2. Built(p) \notin {loc[p].fd, None} /\ Built(p) \notin displaced
    BY <1>1, <2>1
  <2>3. /\ \A b \in Proc : pc[b] \in BuildLabels => loc[b].uuid # loc[p].uuid
        /\ \A b \in Proc : pc[b] = "lockTmp" => loc[b].target # Built(p)
        /\ \A n \in Name : vms[n] # Built(p)
        /\ \A v \in Uuid : tmp[v] = Built(p) => v = loc[p].uuid
        /\ \A b \in Proc : Built(p) \in excl[b] \cup shrd[b] => pc[b] \in GCLabels
    BY <2>1, <2>2, FindsLost
  <2>4. (\A n \in Name : vms'[n] # Built(p)) /\ (\A v \in Uuid : tmp'[v] = Built(p) => v = loc[p].uuid)
    BY <2>1, <2>3 DEF Calm
  <2>5. \A b \in Proc : pc'[b] \in BuildLabels => loc'[b].uuid # loc[p].uuid
    BY <2>3 DEF Calm, Apart, Turns, Builds
  <2>6. \A b \in Proc : pc'[b] = "lockTmp" => b # p
    BY <1>3, <2>1
  <2>7. \A b \in Proc : pc'[b] = "lockTmp" => loc'[b].target # Built(p)
    BY <2>3, <2>6 DEF Calm, Apart
  <2>8. \A b \in Proc : Built(p) \in excl'[b] \cup shrd'[b] => pc'[b] \in GCLabels
    BY <2>1, <2>3 DEF Calm, Apart, GCLabels
  <2>. QED
    BY <2>1, <2>4, <2>5, <2>7, <2>8 DEF Lost
<1>. QED
  BY <1>2, <1>3

\* A calm step preserves the invariant of the names.
LEMMA CalmStep ==
  ASSUME IInv, IInv', NInv, NEW p \in Proc, Calm(p), Turns(p), LockSets(p)'
  PROVE  NInv'
<1>1. \A q \in Proc : LockSets(q)' /\ Private(q)'
  BY CalmOthers, CalmSelf
<1>2. \A q \in Proc : Aims(q)'
  BY CalmAims
<1>3. \A q, b \in Proc : Collects(q, b)'
  BY CalmCollects
<1>. QED
  BY <1>1, <1>2, <1>3, CalmNames, CalmGuard DEF NInv

---------------------------------------------------------------------------
(* NInv after a builder has made a directory.                              *)

\* What a fresh inode is.
LEMMA FreshDir ==
  FreshDirs # {} =>
    /\ Pick(FreshDirs) \in Dir
    /\ \A n \in Name : vms[n] # Pick(FreshDirs)
    /\ \A u \in Uuid : tmp[u] # Pick(FreshDirs)
    /\ \A q \in Proc : /\ Pick(FreshDirs) \notin {loc[q].fd, loc[q].target}
                       /\ Pick(FreshDirs) \notin excl[q] \cup shrd[q]
<1>1. FreshDirs \in SUBSET Dir
  BY DEF FreshDirs
<1>2. FreshDirs # {} => Pick(FreshDirs) \in FreshDirs
  BY <1>1, ConstantsAssumption
<1>. QED
  BY <1>2 DEF FreshDirs

\* What a fresh UUID is.
LEMMA FreshUuid ==
  FreshUuids # {} =>
    /\ Pick(FreshUuids) \in Uuid /\ tmp[Pick(FreshUuids)] = None
    /\ \A q \in Proc : loc[q].uuid # Pick(FreshUuids)
<1>1. FreshUuids \in SUBSET Uuid
  BY DEF FreshUuids
<1>2. FreshUuids # {} => Pick(FreshUuids) \in FreshUuids
  BY <1>1, ConstantsAssumption
<1>. QED
  BY <1>2 DEF FreshUuids

\* The builder p has made the fresh directory d under its UUID u, which was free.
Makes(p, u, d) ==
  /\ Apart(p) /\ UNCHANGED <<vms, excl, shrd>>
  /\ tmp' = [tmp EXCEPT ![u] = d]
  /\ displaced' = displaced \ {d}
  /\ tmp[u] = None
  /\ \A n \in Name : vms[n] # d
  /\ \A v \in Uuid : tmp[v] # d
  /\ \A q \in Proc : d \notin {loc[q].fd, loc[q].target} \cup excl[q] \cup shrd[q]
  /\ \A q \in Proc \ {p} : pc[q] \in BuildLabels \cup {"mvRm"} => loc[q].uuid # u
  /\ \A q \in Proc \ {p} : pc[q] = "gcRm" /\ Lost(q) => loc[q].uuid # u
  /\ pc'[p] \in BuildLabels \ {"lockTmp"} /\ loc'[p].uuid = u
  /\ pc[p] \notin GCLabels

\* Making a directory preserves the invariant of the names.
LEMMA MakesStep ==
  ASSUME IInv, IInv', NInv, NEW p \in Proc, NEW u \in Uuid, NEW d \in Dir, Makes(p, u, d),
         LockSets(p)', Private(p)', \A q \in Proc : Collects(q, p)',
         \A v \in Uuid : tmp[v] \in excl[p] \cup shrd[p] /\ tmp[v] \notin displaced =>
           pc'[p] \in PostLock /\ loc'[p].uuid = v /\ loc'[p].target = tmp[v]
  PROVE  NInv'
<1>0. Unique /\ Owned /\ Replaced /\ Guarded
  BY DEF NInv
<1>1. /\ tmp'[u] = d /\ (\A v \in Uuid \ {u} : tmp'[v] = tmp[v])
      /\ vms' = vms /\ displaced' = displaced \ {d} /\ tmp[u] = None
      /\ (\A n \in Name : vms[n] # d) /\ (\A v \in Uuid : tmp[v] # d)
  BY DEF Makes, IInv, TypeOK
<1>2. \A q \in Proc \ {p} : pc'[q] = pc[q] /\ loc'[q] = loc[q]
  BY DEF Makes, Apart
<1>3. \A q \in Proc : /\ d # loc[q].fd /\ d # loc[q].target
                      /\ d \notin excl[q] \cup shrd[q]
                      /\ excl'[q] = excl[q] /\ shrd'[q] = shrd[q]
  BY DEF Makes
<1>4. /\ pc'[p] \in BuildLabels \ {"lockTmp"} /\ loc'[p].uuid = u
      /\ \A q \in Proc \ {p} : pc[q] \in BuildLabels \cup {"mvRm"} => loc[q].uuid # u
      /\ \A q \in Proc \ {p} : pc[q] = "gcRm" /\ Lost(q) => loc[q].uuid # u
  BY DEF Makes
<1>5. Unique'
  BY <1>0, <1>1 DEF Unique
<1>6. Owned'
  BY <1>0, <1>2, <1>4 DEF Owned
<1>7. \A q \in Proc \ {p} : pc[q] \in BuildLabels \cup {"mvRm"} =>
        loc[q].uuid \in Uuid /\ Built(q)' = Built(q)
  BY <1>1, <1>2, <1>4 DEF IInv, Control, Built
<1>8. Replaced'
  <2>1. Built(p)' = d
    BY <1>1, <1>4 DEF Built
  <2>2. \A e \in displaced', n \in Name : vms'[n] # e
    BY <1>0, <1>1 DEF Replaced
  <2>3. \A e \in displaced', q \in Proc \ {p} : pc'[q] \in BuildLabels => Built(q)' # e
    BY <1>0, <1>1, <1>2, <1>7 DEF Replaced
  <2>. QED
    BY <1>1, <2>1, <2>2, <2>3 DEF Replaced
<1>9. Guarded'
  <2>. SUFFICES ASSUME NEW q \in Proc, NEW v \in Uuid,
                       tmp'[v] \in excl[q] \cup shrd[q], tmp'[v] \notin displaced'
                PROVE  \/ pc'[q] \in GCLabels
                       \/ pc'[q] \in PostLock /\ loc'[q].uuid = v /\ loc'[q].target = tmp'[v]
    BY <1>3 DEF Guarded
  <2>1. v # u /\ tmp'[v] = tmp[v] /\ tmp[v] \notin displaced
    BY <1>1, <1>3
  <2>2. CASE q # p
    BY <1>0, <1>2, <2>1, <2>2 DEF Guarded
  <2>3. CASE q = p
    BY <1>0, <2>1, <2>3
  <2>. QED
    BY <2>2, <2>3
<1>10. ASSUME NEW q \in Proc \ {p} PROVE LockSets(q)'
  BY <1>2, <1>3 DEF NInv, LockSets
<1>11. ASSUME NEW q \in Proc \ {p} PROVE Private(q)'
  <2>1. Private(q) /\ pc'[q] = pc[q] /\ loc'[q] = loc[q]
    BY <1>2 DEF NInv
  <2>2. pc[q] \in {"lockTmp"} \cup PostLock => pc[q] \in BuildLabels
    BY DEF PostLock, BuildLabels
  <2>3. /\ (pc[q] \in {"lockTmp"} \cup PostLock => Built(q)' = Built(q))
        /\ (pc[q] = "mvRm" => Built(q)' = Built(q))
    BY <1>7, <2>2
  <2>4. d # loc[q].target
    BY <1>3
  <2>. QED
    BY <1>1, <2>1, <2>3, <2>4 DEF Private, PostLock
<1>12. ASSUME NEW q \in Proc PROVE Aims(q)'
  <2>. SUFFICES ASSUME pc'[q] = "gcRm", loc'[q].target # loc'[q].fd, loc'[q].target \notin displaced'
                PROVE  Lost(q)'
    BY DEF Aims
  <2>1. q # p /\ pc[q] = "gcRm" /\ loc'[q] = loc[q]
    BY <1>2, <1>4 DEF BuildLabels
  <2>2. d # loc[q].target /\ loc[q].target \notin displaced
    BY <1>1, <1>3, <2>1
  <2>3. Lost(q) /\ loc[q].uuid # u
    BY <1>4, <2>1, <2>2 DEF NInv, Aims
  <2>4. \A b \in Proc : pc'[b] \in BuildLabels => loc'[b].uuid # loc[q].uuid
    BY <1>2, <1>4, <2>3 DEF Lost
  <2>5. \A b \in Proc : pc'[b] = "lockTmp" => loc'[b].target # loc[q].target
    BY <1>2, <1>4, <2>3 DEF Lost
  <2>6. (\A n \in Name : vms'[n] # loc[q].target) /\ (\A v \in Uuid : tmp'[v] = loc[q].target => v = loc[q].uuid)
    BY <1>1, <2>2, <2>3 DEF Lost
  <2>7. \A b \in Proc : loc[q].target \in excl'[b] \cup shrd'[b] => pc'[b] \in GCLabels
    BY <1>2, <1>3, <2>3 DEF Lost, Makes
  <2>. QED
    BY <2>1, <2>4, <2>5, <2>6, <2>7 DEF Lost
<1>13. ASSUME NEW q \in Proc, NEW b \in Proc PROVE Collects(q, b)'
  <2>1. CASE b = p
    BY <2>1
  <2>2. CASE q = p
    BY <1>4, <2>2 DEF Collects, BuildLabels
  <2>3. CASE b # p /\ q # p
    BY <1>2, <1>7, <2>3 DEF NInv, Collects
  <2>. QED
    BY <2>1, <2>2, <2>3
<1>. QED
  BY <1>5, <1>6, <1>8, <1>9, <1>10, <1>11, <1>12, <1>13 DEF NInv

---------------------------------------------------------------------------
(* NInv after local.MoveIn.                                                *)

\* MoveIn has given the name loc[p].dst to the directory that p has built, and
\* what had that name before, if anything, the name in tmp/.
Moves(p) ==
  /\ Apart(p) /\ pc[p] = "moveIn" /\ Built(p) # None
  /\ vms' = [vms EXCEPT ![loc[p].dst] = Built(p)]
  /\ tmp' = [tmp EXCEPT ![loc[p].uuid] = vms[loc[p].dst]]
  /\ displaced' = displaced \cup ({vms[loc[p].dst]} \ {None})
  /\ \/ pc'[p] = "idle"
     \/ /\ pc'[p] = "mvRm" /\ vms[loc[p].dst] # None
        /\ loc'[p].uuid = loc[p].uuid /\ loc'[p].target = vms[loc[p].dst]
  /\ excl'[p] \subseteq excl[p] /\ shrd'[p] \subseteq shrd[p]

\* The facts about the directory D that moves and the one it replaces.
LEMMA MovesFacts ==
  ASSUME IInv, NInv, NEW p \in Proc, Moves(p)
  PROVE  /\ loc[p].dst \in Name /\ loc[p].uuid \in Uuid /\ Built(p) \in Dir
         /\ Built(p) = tmp[loc[p].uuid] /\ Built(p) \notin displaced
         /\ vms[loc[p].dst] \in Dir \cup {None}
         /\ vms'[loc[p].dst] = Built(p) /\ tmp'[loc[p].uuid] = vms[loc[p].dst]
         /\ \A n \in Name \ {loc[p].dst} : vms'[n] = vms[n]
         /\ \A v \in Uuid \ {loc[p].uuid} : tmp'[v] = tmp[v]
         /\ \A q \in Proc \ {p} : pc[q] \in BuildLabels \cup {"mvRm"} => loc[q].uuid # loc[p].uuid
<1>1. pc[p] = "moveIn" /\ pc[p] \in BuildLabels /\ Built(p) # None /\ Control(p)
  BY DEF Moves, BuildLabels, IInv
<1>2. /\ loc[p].dst \in Name /\ loc[p].uuid \in Uuid
      /\ Built(p) \in Dir /\ vms[loc[p].dst] \in Dir \cup {None} /\ Built(p) = tmp[loc[p].uuid]
  BY <1>1 DEF Control, IInv, TypeOK, Built
<1>3. Built(p) \notin displaced
  BY <1>1 DEF NInv, Replaced
<1>4. \A q \in Proc \ {p} : pc[q] \in BuildLabels \cup {"mvRm"} => loc[q].uuid # loc[p].uuid
  BY <1>1 DEF NInv, Owned
<1>. QED
  BY <1>2, <1>3, <1>4 DEF Moves, IInv, TypeOK

\* local.MoveIn preserves the invariant of the names.
LEMMA MovesStep ==
  ASSUME IInv, IInv', NInv, NEW p \in Proc, Moves(p), LockSets(p)'
  PROVE  NInv'
<1>. DEFINE D == Built(p)
            u == loc[p].uuid
            m == loc[p].dst
            old == vms[m]
<1>0. Unique /\ Owned /\ Replaced /\ Guarded
  BY DEF NInv
<1>1. /\ m \in Name /\ u \in Uuid /\ D \in Dir /\ D = tmp[u] /\ D \notin displaced
      /\ old \in Dir \cup {None} /\ D # None
      /\ vms'[m] = D /\ tmp'[u] = old
      /\ \A n \in Name \ {m} : vms'[n] = vms[n]
      /\ \A v \in Uuid \ {u} : tmp'[v] = tmp[v]
      /\ \A q \in Proc \ {p} : pc[q] \in BuildLabels \cup {"mvRm"} => loc[q].uuid # u
  BY MovesFacts, NoneIsNothing
<1>2. /\ \A q \in Proc \ {p} : pc'[q] = pc[q] /\ loc'[q] = loc[q]
      /\ \A q \in Proc : excl'[q] \subseteq excl[q] /\ shrd'[q] \subseteq shrd[q]
      /\ \A q \in Proc \ {p} : excl'[q] = excl[q] /\ shrd'[q] = shrd[q]
  BY DEF Moves, Apart
<1>3. displaced' = displaced \cup ({old} \ {None})
  BY DEF Moves
<1>4. /\ pc[p] = "moveIn"
      /\ \/ pc'[p] = "idle"
         \/ pc'[p] = "mvRm" /\ old # None /\ loc'[p].uuid = u /\ loc'[p].target = old
  BY DEF Moves
<1>. HIDE DEF D, u, m, old
<1>5. /\ old # D
      /\ \A n \in Name : vms[n] # D
      /\ \A v \in Uuid : tmp[v] = D => v = u
      /\ \A n \in Name \ {m} : old # None => vms[n] # old
      /\ \A v \in Uuid : old # None => tmp[v] # old
  BY <1>0, <1>1 DEF Unique, old
<1>6. Unique'
  <2>1. \A n, o \in Name : vms'[n] = vms'[o] /\ vms'[n] # None => n = o
    BY <1>0, <1>1, <1>5 DEF Unique
  <2>2. \A v, w \in Uuid : tmp'[v] = tmp'[w] /\ tmp'[v] # None => v = w
    BY <1>0, <1>1, <1>5 DEF Unique
  <2>3. \A n \in Name, v \in Uuid : vms'[n] = tmp'[v] => vms'[n] = None
    BY <1>0, <1>1, <1>5 DEF Unique
  <2>. QED
    BY <2>1, <2>2, <2>3 DEF Unique
<1>7. Owned'
  BY <1>0, <1>1, <1>2, <1>4 DEF Owned, BuildLabels
<1>8. \A q \in Proc \ {p} : pc[q] \in BuildLabels \cup {"mvRm"} =>
        loc[q].uuid \in Uuid /\ Built(q)' = Built(q) /\ Built(q) = tmp[loc[q].uuid] /\ Built(q) # D
  BY <1>1, <1>2, <1>5 DEF IInv, Control, Built
<1>9. Replaced'
  <2>1. \A e \in displaced', n \in Name : vms'[n] # e
    BY <1>0, <1>1, <1>3, <1>5 DEF Replaced
  <2>2. \A e \in displaced', q \in Proc \ {p} : pc'[q] \in BuildLabels => Built(q)' # e
    BY <1>0, <1>2, <1>3, <1>5, <1>8 DEF Replaced
  <2>. QED
    BY <1>4, <2>1, <2>2 DEF Replaced, BuildLabels
<1>10. Guarded'
  <2>. SUFFICES ASSUME NEW q \in Proc, NEW v \in Uuid,
                       tmp'[v] \in excl'[q] \cup shrd'[q], tmp'[v] \notin displaced'
                PROVE  \/ pc'[q] \in GCLabels
                       \/ pc'[q] \in PostLock /\ loc'[q].uuid = v /\ loc'[q].target = tmp'[v]
    BY DEF Guarded
  <2>1. tmp'[v] \in Dir
    BY DEF IInv, TypeOK
  <2>2. v # u /\ tmp'[v] = tmp[v] /\ tmp[v] \notin displaced /\ tmp[v] \in excl[q] \cup shrd[q]
    BY <1>1, <1>2, <1>3, <2>1, NoneIsNothing
  <2>3. pc[q] \in GCLabels \/ (pc[q] \in PostLock /\ loc[q].uuid = v /\ loc[q].target = tmp[v])
    BY <1>0, <2>2 DEF Guarded
  <2>4. q # p
    BY <1>4, <2>2, <2>3 DEF GCLabels, u
  <2>. QED
    BY <1>2, <2>2, <2>3, <2>4
<1>11. ASSUME NEW q \in Proc \ {p} PROVE LockSets(q)'
  <2>1. /\ pc'[q] = pc[q] /\ loc'[q] = loc[q] /\ excl'[q] = excl[q] /\ shrd'[q] = shrd[q]
        /\ LockSets(q)
    BY <1>2 DEF NInv
  <2>. QED
    BY <2>1 DEF LockSets
<1>12. ASSUME NEW q \in Proc \ {p} PROVE Private(q)'
  <2>1. Private(q) /\ pc'[q] = pc[q] /\ loc'[q] = loc[q]
    BY <1>2 DEF NInv
  <2>2. pc[q] \in {"lockTmp"} \cup PostLock => pc[q] \in BuildLabels
    BY DEF PostLock, BuildLabels
  <2>3. /\ (pc[q] \in {"lockTmp"} \cup PostLock => Built(q)' = Built(q))
        /\ (pc[q] = "mvRm" => Built(q)' = Built(q))
    BY <1>8, <2>2
  <2>4. ASSUME pc[q] \in {"lockTmp"} \cup PostLock
        PROVE  /\ loc[q].target \in Dir /\ loc[q].target \notin displaced'
               /\ \A n \in Name : vms'[n] # loc[q].target
               /\ \A v \in Uuid : tmp'[v] = loc[q].target => v = loc[q].uuid
    <3>1. loc[q].target # D /\ loc[q].target # old /\ loc[q].target \in Dir
      BY <1>1, <2>1, <2>2, <2>4 DEF Private, old
    <3>. QED
      BY <1>1, <1>3, <2>1, <2>4, <3>1 DEF Private
  <2>5. pc[q] = "mvRm" => loc[q].target \in displaced' /\ Built(q)' \in {loc[q].target, None}
    BY <1>3, <2>1, <2>3 DEF Private
  <2>. QED
    BY <2>1, <2>3, <2>4, <2>5 DEF Private, PostLock
<1>13. Private(p)'
  BY <1>1, <1>3, <1>4 DEF Private, PostLock, Built
<1>14. ASSUME NEW q \in Proc PROVE Aims(q)'
  <2>. SUFFICES ASSUME pc'[q] = "gcRm", loc'[q].target # loc'[q].fd, loc'[q].target \notin displaced'
                PROVE  Lost(q)'
    BY DEF Aims
  <2>1. q # p /\ pc[q] = "gcRm" /\ loc'[q] = loc[q] /\ loc[q].target \in Dir
    BY <1>2, <1>4 DEF IInv, Control
  <2>2. loc[q].target \notin displaced /\ loc[q].target # old
    BY <1>3, <2>1, NoneIsNothing
  <2>3. Lost(q)
    BY <2>1, <2>2 DEF NInv, Aims
  <2>4. loc[q].uuid # u /\ loc[q].target # D
    BY <1>1, <1>4, <2>3 DEF Lost, BuildLabels, u
  <2>5. \A b \in Proc : pc'[b] \in BuildLabels => loc'[b].uuid # loc[q].uuid
    BY <1>2, <1>4, <2>3 DEF Lost, BuildLabels
  <2>6. \A b \in Proc : pc'[b] = "lockTmp" => loc'[b].target # loc[q].target
    BY <1>2, <1>4, <2>3 DEF Lost
  <2>7. (\A n \in Name : vms'[n] # loc[q].target) /\ (\A v \in Uuid : tmp'[v] = loc[q].target => v = loc[q].uuid)
    BY <1>1, <2>2, <2>3, <2>4 DEF Lost
  <2>8. \A b \in Proc : loc[q].target \in excl'[b] \cup shrd'[b] => pc'[b] \in GCLabels
    BY <1>2, <1>4, <2>3 DEF Lost, GCLabels
  <2>. QED
    BY <2>1, <2>5, <2>6, <2>7, <2>8 DEF Lost
<1>15. ASSUME NEW q \in Proc, NEW b \in Proc PROVE Collects(q, b)'
  <2>1. CASE b = p \/ q = p
    BY <1>4, <2>1 DEF Collects, BuildLabels
  <2>2. CASE b # p /\ q # p
    BY <1>2, <1>8, <2>2 DEF NInv, Collects
  <2>. QED
    BY <2>1, <2>2
<1>. QED
  BY <1>6, <1>7, <1>9, <1>10, <1>11, <1>12, <1>13, <1>14, <1>15 DEF NInv

---------------------------------------------------------------------------
(* The invariant of the contents, CInv.                                    *)

\* No file of d has gone.
Spares(d) == \A f \in File : content[d][f] # 0 => content'[d][f] # 0

\* A directory that is known to anybody.
Known(d) ==
  \/ \E n \in Name : vms[n] = d
  \/ \E q \in Proc : d = loc[q].fd \/ d = loc[q].target

\* A step of p forgets nothing of a directory that is known, takes no file from a
\* VM or from the directory of a builder, unless the history says so, and does
\* not change what a clone copies, or has copied.
Keeps(p) ==
  /\ \A d \in Dir : Known(d) =>
       /\ d \in displaced => d \in displaced'
       /\ d \in doomed => d \in doomed'
       /\ d \in suspect => d \in suspect'
  /\ \A n \in Name : vms[n] # None => Spares(vms[n]) \/ vms[n] \in doomed' \cup suspect'
  /\ \A q \in Proc \ {p} :
       /\ pc[q] \in BuildLabels /\ Built(q) \in suspect => Built(q) \in suspect'
       /\ pc[q] \in PostLock => Spares(loc[q].target)
       /\ pc[q] \in BuildLabels /\ loc[q].op = "clone" /\ Built(q) # None =>
            content'[Built(q)] = content[Built(q)]
       /\ pc[q] \in {"copySrc", "moveIn"} /\ loc[q].op = "clone" =>
            content'[loc[q].fd] = content[loc[q].fd] \/ loc[q].fd \in displaced' \cup suspect'

\* History: what was said of a known directory is still said.
LEMMA KeepsKnown ==
  ASSUME NEW p \in Proc, Keeps(p), NEW d \in Dir, Known(d)
  PROVE  /\ d \in displaced => d \in displaced'
         /\ d \in doomed => d \in doomed'
         /\ d \in suspect => d \in suspect'
BY DEF Keeps

\* The other processes keep what CInv says of them.
LEMMA KeepsOthers ==
  ASSUME IInv, IInv', NInv, CInv, NEW p \in Proc, Apart(p), Keeps(p), NEW q \in Proc \ {p},
         pc[q] \in BuildLabels => Built(q)' \in {Built(q), None}
  PROVE  Filled(q)' /\ Copied(q)' /\ Dooms(q)'
<1>1. pc'[q] = pc[q] /\ loc'[q] = loc[q]
  BY DEF Apart
<1>2. Filled(q) /\ Copied(q) /\ Dooms(q)
  BY DEF CInv
<1>3. \A d \in {loc[q].fd, loc[q].target} : d \in Dir =>
        /\ d \in displaced => d \in displaced'
        /\ d \in doomed => d \in doomed'
        /\ d \in suspect => d \in suspect'
  <2>1. Known(loc[q].fd) /\ Known(loc[q].target)
    BY DEF Known
  <2>. QED
    BY <2>1, KeepsKnown
<1>4. pc[q] \in PostLock => pc[q] \in BuildLabels
  BY DEF PostLock, BuildLabels
<1>5. Dooms(q)'
  BY <1>1, <1>2, <1>3 DEF Dooms, IInv, Control
<1>6. Filled(q)'
  <2>1. pc[q] \in PostLock => Built(q)' \in {loc[q].target, None} \cup suspect'
    BY <1>2, <1>4 DEF Filled, Keeps
  <2>2. pc[q] = "writeConfig" /\ Built(q)' = loc[q].target => content'[loc[q].target]["disk"] # 0
    <3>. SUFFICES ASSUME pc[q] = "writeConfig", Built(q)' = loc[q].target
                  PROVE  content'[loc[q].target]["disk"] # 0
      OBVIOUS
    <3>1. loc[q].target \in Dir
      BY DEF NInv, Private, PostLock
    <3>2. Built(q) = loc[q].target
      BY <1>4, <3>1, NoneIsNothing DEF PostLock
    <3>. QED
      BY <1>2, <3>2 DEF Filled, Keeps, Spares, File, PostLock
  <2>3. pc[q] = "moveIn" /\ loc[q].op = "create" /\ Built(q)' = loc[q].target =>
          \A f \in File : content'[loc[q].target][f] # 0
    <3>. SUFFICES ASSUME pc[q] = "moveIn", loc[q].op = "create", Built(q)' = loc[q].target
                  PROVE  \A f \in File : content'[loc[q].target][f] # 0
      OBVIOUS
    <3>1. loc[q].target \in Dir
      BY DEF NInv, Private, PostLock
    <3>2. Built(q) = loc[q].target
      BY <1>4, <3>1, NoneIsNothing DEF PostLock
    <3>. QED
      BY <1>2, <3>2 DEF Filled, Keeps, Spares, PostLock, Complete, Present
  <2>. QED
    BY <1>1, <1>2, <2>1, <2>2, <2>3 DEF Filled, Complete, Present
<1>7. Copied(q)'
  <2>. SUFFICES ASSUME loc[q].op = "clone", pc[q] \in BuildLabels, Built(q)' # None
                PROVE  /\ pc[q] \in {"openTmp", "lockTmp", "readSrc"} => content'[Built(q)'] = EmptyDir
                       /\ pc[q] = "copySrc" /\ loc[q].fd \notin displaced' \cup suspect' =>
                            \A f \in File \ loc[q].todo : content'[Built(q)'][f] = content'[loc[q].fd][f]
                       /\ pc[q] = "moveIn" /\ loc[q].fd \notin displaced' \cup suspect' =>
                            content'[Built(q)'] = content'[loc[q].fd]
    BY <1>1 DEF Copied
  <2>1. Built(q)' = Built(q) /\ Built(q) # None
    OBVIOUS
  <2>2. content'[Built(q)] = content[Built(q)]
    BY <2>1 DEF Keeps
  <2>3. loc[q].fd \in Dir
    <3>1. Holds(q)
      BY DEF Holds
    <3>. QED
      BY <3>1 DEF IInv, TypeOK, Control
  <2>4. loc[q].fd \notin displaced' \cup suspect' => loc[q].fd \notin displaced \cup suspect
    BY <1>3, <2>3
  <2>5. pc[q] \in {"copySrc", "moveIn"} /\ loc[q].fd \notin displaced' \cup suspect' =>
          content'[loc[q].fd] = content[loc[q].fd]
    BY DEF Keeps
  <2>. QED
    BY <1>2, <2>1, <2>2, <2>4, <2>5 DEF Copied
<1>. QED
  BY <1>5, <1>6, <1>7

\* A step that puts nothing into vms/ preserves the invariant of the contents, if
\* it leaves the process itself in order.
LEMMA KeepsStep ==
  ASSUME IInv, IInv', NInv, CInv, NEW p \in Proc, Apart(p), Keeps(p),
         \A n \in Name : vms'[n] \in {vms[n], None},
         \A q \in Proc \ {p} : pc[q] \in BuildLabels => Built(q)' \in {Built(q), None},
         pc'[p] = "gcRm" => Sweeps(p),
         Filled(p)', Copied(p)', Dooms(p)'
  PROVE  CInv'
<1>1. \A q \in Proc : Filled(q)' /\ Copied(q)' /\ Dooms(q)'
  BY KeepsOthers
<1>2. PublishedComplete'
  <2>. SUFFICES ASSUME NEW n \in Name, vms'[n] # None, vms'[n] \notin doomed' \cup suspect'
                PROVE  \A f \in File : content'[vms'[n]][f] # 0
    BY DEF PublishedComplete, Complete, Present
  <2>1. vms'[n] = vms[n] /\ vms[n] \in Dir /\ Known(vms[n])
    BY DEF IInv, TypeOK, Known
  <2>2. vms[n] \notin doomed \cup suspect
    BY <2>1, KeepsKnown
  <2>a. Spares(vms[n])
    BY <2>1 DEF Keeps
  <2>3. Complete(vms[n])
    BY <2>1, <2>2 DEF CInv, PublishedComplete
  <2>. QED
    BY <2>1, <2>a, <2>3 DEF Spares, Complete, Present
<1>3. ASSUME NEW q \in Proc PROVE Reaches(q)'
  <2>. SUFFICES ASSUME pc'[q] = "gcRm", NEW n \in Name, vms'[n] = loc'[q].target
                PROVE  loc'[q].target \in suspect'
    BY DEF Reaches
  <2>1. loc'[q].target \in Dir /\ vms[n] = loc'[q].target
    BY NoneIsNothing DEF IInv, Control
  <2>2. CASE pc[q] = "gcRm" /\ loc'[q].target = loc[q].target
    <3>1. Known(loc[q].target) /\ loc[q].target \in suspect
      BY <2>1, <2>2 DEF CInv, Reaches, Known
    <3>. QED
      BY <2>1, <2>2, <3>1, KeepsKnown
  <2>3. CASE ~(pc[q] = "gcRm" /\ loc'[q].target = loc[q].target)
    <3>1. q = p /\ pc[p] = "gcResolve" /\ loc'[p].target = Built(p)
      BY <2>3 DEF Apart, Sweeps
    <3>2. loc[p].uuid \in Uuid
      BY <3>1 DEF IInv, Control
    <3>. QED
      BY <2>1, <3>1, <3>2, NoneIsNothing DEF NInv, Unique, Built
  <2>. QED
    BY <2>2, <2>3
<1>. QED
  BY <1>1, <1>2, <1>3 DEF CInv

\* A builder that is a clone has its source locked.
LEMMA CloneHolds ==
  ASSUME IInv, NEW q \in Proc, pc[q] \in BuildLabels, loc[q].op = "clone"
  PROVE  /\ loc[q].cur \in Name /\ loc[q].fd \in Dir /\ loc[q].fd \in excl[q] \cup shrd[q]
         /\ There(q) = loc[q].fd \/ loc[q].fd \in displaced
<1>1. Holds(q)
  BY DEF Holds
<1>. QED
  BY <1>1 DEF IInv, TypeOK, Control

\* What a builder finds under its UUID.
LEMMA BuiltFacts ==
  ASSUME IInv, NInv, NEW q \in Proc, pc[q] \in BuildLabels, Built(q) # None
  PROVE  /\ loc[q].uuid \in Uuid /\ Built(q) \in Dir /\ Built(q) = tmp[loc[q].uuid]
         /\ Built(q) \notin displaced
         /\ \A n \in Name : vms[n] # Built(q)
         /\ \A b \in Proc \ {q} : pc[b] \in BuildLabels => loc[b].uuid # loc[q].uuid /\ Built(b) # Built(q)
         /\ \A b \in Proc \ {q} : pc[b] \in PostLock => loc[b].target # Built(q)
<1>1. loc[q].uuid \in Uuid /\ Built(q) \in Dir /\ Built(q) = tmp[loc[q].uuid]
  BY DEF IInv, TypeOK, Control, Built
<1>2. Unique /\ Owned /\ Replaced
  BY DEF NInv
<1>3. \A b \in Proc \ {q} : pc[b] \in BuildLabels => loc[b].uuid # loc[q].uuid /\ loc[b].uuid \in Uuid
  BY <1>2 DEF Owned, IInv, Control
<1>4. \A b \in Proc \ {q} : pc[b] \in BuildLabels => Built(b) # Built(q)
  BY <1>1, <1>2, <1>3 DEF Unique, Built
<1>5. \A b \in Proc \ {q} : pc[b] \in PostLock => loc[b].target # Built(q)
  BY <1>1, <1>3 DEF NInv, Private, PostLock, BuildLabels
<1>. QED
  BY <1>1, <1>2, <1>3, <1>4, <1>5 DEF Unique, Replaced

\* A step that writes no file keeps the contents.
LEMMA StillKeeps ==
  ASSUME NEW p \in Proc, UNCHANGED content,
         displaced \subseteq displaced', doomed \subseteq doomed', suspect \subseteq suspect'
  PROVE  Keeps(p)
BY DEF Keeps, Spares

\* A builder writes to its own directory.
LEMMA BuiltKeeps ==
  ASSUME IInv, NInv, NEW p \in Proc, pc[p] \in BuildLabels, Built(p) # None,
         NEW f, NEW s, Write(Built(p), f, s), UNCHANGED history
  PROVE  Keeps(p)
<1>1. /\ loc[p].uuid \in Uuid /\ Built(p) \in Dir /\ Built(p) \notin displaced
      /\ \A n \in Name : vms[n] # Built(p)
      /\ \A b \in Proc \ {p} : pc[b] \in BuildLabels => Built(b) # Built(p)
      /\ \A b \in Proc \ {p} : pc[b] \in PostLock => loc[b].target # Built(p)
  BY BuiltFacts
<1>2. \A d \in Dir \ {Built(p)} : content'[d] = content[d]
  BY DEF Write, IInv, TypeOK
<1>3. UNCHANGED <<displaced, doomed, suspect>>
  BY DEF history
<1>4. \A n \in Name : vms[n] # None => Spares(vms[n])
  BY <1>1, <1>2 DEF Spares, IInv, TypeOK
<1>5. ASSUME NEW q \in Proc \ {p}
      PROVE  /\ pc[q] \in PostLock => Spares(loc[q].target)
             /\ pc[q] \in BuildLabels /\ loc[q].op = "clone" /\ Built(q) # None =>
                  content'[Built(q)] = content[Built(q)]
             /\ pc[q] \in {"copySrc", "moveIn"} /\ loc[q].op = "clone" =>
                  content'[loc[q].fd] = content[loc[q].fd]
  <2>1. pc[q] \in PostLock => Spares(loc[q].target)
    BY <1>1, <1>2 DEF Spares, NInv, Private
  <2>2. pc[q] \in BuildLabels /\ Built(q) # None => content'[Built(q)] = content[Built(q)]
    BY <1>1, <1>2, BuiltFacts
  <2>3. ASSUME pc[q] \in {"copySrc", "moveIn"}, loc[q].op = "clone"
        PROVE  content'[loc[q].fd] = content[loc[q].fd]
    <3>1. pc[q] \in BuildLabels
      BY <2>3 DEF BuildLabels
    <3>2. loc[q].cur \in Name /\ loc[q].fd \in Dir /\ (There(q) = loc[q].fd \/ loc[q].fd \in displaced)
      BY <2>3, <3>1, CloneHolds
    <3>. QED
      BY <1>1, <1>2, <3>2 DEF There
  <2>. QED
    BY <2>1, <2>2, <2>3
<1>. QED
  BY <1>3, <1>4, <1>5 DEF Keeps

\* "vetu set" writes to the VM that it finds under the name it has opened.
LEMMA ThereKeeps ==
  ASSUME IInv, NInv, NEW p \in Proc, pc[p] \in {"setDisk", "setConfig"}, There(p) # None,
         NEW f \in File, NEW s \in Stamp \ {0}, Write(There(p), f, s), Touched(p),
         UNCHANGED <<displaced, doomed>>
  PROVE  Keeps(p)
<1>1. loc[p].cur \in Name /\ There(p) \in Dir /\ There(p) = vms[loc[p].cur] /\ loc[p].fd \in excl[p]
  BY DEF IInv, TypeOK, Control, Holds, ExclusiveLabels, There
<1>2. /\ \A d \in Dir \ {There(p)} : content'[d] = content[d]
      /\ \A d \in Dir : Spares(d)
  BY <1>1 DEF Write, IInv, TypeOK, Spares
<1>3. suspect \subseteq suspect' /\ (There(p) = loc[p].fd \/ There(p) \in suspect')
  BY DEF Touched
<1>4. \A n \in Name : vms[n] # None => Spares(vms[n])
  BY <1>2 DEF IInv, TypeOK
<1>5. ASSUME NEW q \in Proc \ {p}
      PROVE  /\ pc[q] \in PostLock => Spares(loc[q].target)
             /\ pc[q] \in BuildLabels /\ loc[q].op = "clone" /\ Built(q) # None =>
                  content'[Built(q)] = content[Built(q)]
             /\ pc[q] \in {"copySrc", "moveIn"} /\ loc[q].op = "clone" =>
                  content'[loc[q].fd] = content[loc[q].fd] \/ loc[q].fd \in displaced' \cup suspect'
  <2>1. pc[q] \in PostLock => Spares(loc[q].target)
    BY <1>2 DEF NInv, Private
  <2>2. pc[q] \in BuildLabels /\ Built(q) # None => content'[Built(q)] = content[Built(q)]
    BY <1>1, <1>2, BuiltFacts
  <2>3. ASSUME pc[q] \in {"copySrc", "moveIn"}, loc[q].op = "clone"
        PROVE  content'[loc[q].fd] = content[loc[q].fd] \/ loc[q].fd \in displaced' \cup suspect'
    <3>1. pc[q] \in BuildLabels
      BY <2>3 DEF BuildLabels
    <3>2. loc[q].fd \in Dir /\ loc[q].fd \in excl[q] \cup shrd[q]
      BY <2>3, <3>1, CloneHolds
    <3>3. loc[q].fd # loc[p].fd
      BY <1>1, <3>2 DEF IInv, Flocks
    <3>. QED
      BY <1>2, <1>3, <3>2, <3>3
  <2>. QED
    BY <2>1, <2>2, <2>3
<1>. QED
  BY <1>3, <1>4, <1>5 DEF Keeps

\* Nobody empties the directory that a builder has locked, or the VM that a
\* command holds, unless that was replaced.
LEMMA UnlinkMisses ==
  ASSUME IInv, NInv, NEW p \in Proc, pc[p] \in {"gcRm", "mvRm", "delRm"}, NEW q \in Proc \ {p}
  PROVE  /\ pc[q] \in PostLock => loc[p].target # loc[q].target
         /\ Holds(q) => loc[p].target # loc[q].fd \/ loc[q].fd \in displaced
<1>1. LockSets(p) /\ LockSets(q) /\ Private(p) /\ Private(q) /\ Aims(p) /\ Control(p) /\ Control(q)
  BY DEF NInv, IInv
<1>2. CASE pc[p] = "mvRm"
  BY <1>1, <1>2 DEF Private
<1>3. CASE loc[p].target \in excl[p]
  <2>1. pc[q] \in PostLock => loc[q].target \in excl[q]
    BY <1>1 DEF LockSets
  <2>2. Holds(q) => loc[q].fd \in excl[q] \cup shrd[q]
    BY <1>1 DEF Control
  <2>. QED
    BY <1>3, <2>1, <2>2 DEF IInv, Flocks
<1>4. CASE pc[p] = "delRm"
  <2>1. loc[p].target \in excl[p]
    BY <1>1, <1>4 DEF Control, ExclusiveLabels
  <2>. QED
    BY <1>3, <2>1
<1>5. CASE pc[p] = "gcRm"
  <2>1. loc[p].fd \in excl[p]
    BY <1>1, <1>5 DEF LockSets
  <2>2. CASE loc[p].target = loc[p].fd
    BY <1>3, <2>1, <2>2
  <2>3. CASE loc[p].target \in displaced
    BY <1>1, <2>3 DEF Private
  <2>4. CASE Lost(p)
    <3>1. pc[q] \in PostLock => loc[q].target \in excl[q] /\ pc[q] \notin GCLabels
      BY <1>1 DEF LockSets, PostLock, GCLabels
    <3>2. Holds(q) => loc[q].fd \in excl[q] \cup shrd[q] /\ pc[q] \notin GCLabels
      BY <1>1 DEF Control, Holds, ExclusiveLabels, BuildLabels, GCLabels
    <3>. QED
      BY <2>4, <3>1, <3>2 DEF Lost
  <2>. QED
    BY <1>1, <1>5, <2>2, <2>3, <2>4 DEF Aims
<1>. QED
  BY <1>2, <1>4, <1>5

\* os.RemoveAll unlinks a file.
LEMMA UnlinkKeeps ==
  ASSUME IInv, NInv, CInv, NEW p \in Proc, pc[p] \in {"gcRm", "mvRm", "delRm"},
         NEW f \in File, Write(loc[p].target, f, 0), UNCHANGED history
  PROVE  Keeps(p)
<1>. DEFINE t == loc[p].target
<1>1. t \in Dir
  BY DEF IInv, Control
<1>2. /\ \A d \in Dir \ {t} : content'[d] = content[d]
      /\ content'[t] = [content[t] EXCEPT ![f] = 0]
  BY <1>1 DEF Write, IInv, TypeOK
<1>3. UNCHANGED <<displaced, doomed, suspect>>
  BY DEF history
<1>4. ASSUME NEW n \in Name, vms[n] # None PROVE Spares(vms[n]) \/ vms[n] \in doomed' \cup suspect'
  <2>1. CASE vms[n] # t
    BY <1>2, <1>4, <2>1 DEF Spares, IInv, TypeOK
  <2>2. CASE vms[n] = t
    <3>1. pc[p] = "gcRm" => t \in suspect
      BY <2>2 DEF CInv, Reaches
    <3>2. pc[p] = "delRm" => t \in doomed
      BY DEF CInv, Dooms
    <3>3. pc[p] # "mvRm"
      BY <2>2 DEF NInv, Private, Replaced
    <3>. QED
      BY <1>3, <2>2, <3>1, <3>2, <3>3
  <2>. QED
    BY <2>1, <2>2
<1>5. ASSUME NEW q \in Proc \ {p}, pc[q] \in PostLock PROVE loc[q].target \in Dir \ {t}
  BY <1>5, UnlinkMisses DEF NInv, Private
<1>6. ASSUME NEW q \in Proc \ {p}
      PROVE  /\ pc[q] \in PostLock => Spares(loc[q].target)
             /\ pc[q] \in BuildLabels /\ loc[q].op = "clone" /\ Built(q) # None =>
                  content'[Built(q)] = content[Built(q)]
             /\ pc[q] \in {"copySrc", "moveIn"} /\ loc[q].op = "clone" =>
                  content'[loc[q].fd] = content[loc[q].fd] \/ loc[q].fd \in displaced' \cup suspect'
  <2>1. pc[q] \in PostLock => Spares(loc[q].target)
    BY <1>2, <1>5 DEF Spares
  <2>2. ASSUME pc[q] \in BuildLabels, loc[q].op = "clone", Built(q) # None
        PROVE  content'[Built(q)] = content[Built(q)]
    <3>1. Built(q) \in Dir
      BY <2>2, BuiltFacts
    <3>2. CASE pc[q] \in {"openTmp", "lockTmp", "readSrc"}
      <4>1. content[Built(q)] = EmptyDir
        BY <2>2, <3>2 DEF CInv, Copied
      <4>2. [EmptyDir EXCEPT ![f] = 0] = EmptyDir
        BY DEF EmptyDir
      <4>. QED
        BY <1>2, <3>1, <4>1, <4>2
    <3>3. CASE pc[q] \in {"copySrc", "moveIn"}
      <4>1. Built(q) = loc[q].target
        BY <2>2, <3>3 DEF NInv, Private
      <4>2. pc[q] \in PostLock
        BY <3>3 DEF PostLock
      <4>. QED
        BY <1>2, <1>5, <4>1, <4>2
    <3>4. pc[q] \notin {"initConfig", "copyIn", "writeConfig"}
      BY <2>2 DEF NInv, Private
    <3>. QED
      BY <2>2, <3>2, <3>3, <3>4 DEF BuildLabels
  <2>3. ASSUME pc[q] \in {"copySrc", "moveIn"}, loc[q].op = "clone"
        PROVE  content'[loc[q].fd] = content[loc[q].fd] \/ loc[q].fd \in displaced' \cup suspect'
    <3>1. pc[q] \in BuildLabels /\ Holds(q)
      BY <2>3 DEF BuildLabels, Holds
    <3>2. loc[q].fd \in Dir
      BY <2>3, <3>1, CloneHolds
    <3>. QED
      BY <1>2, <1>3, <3>1, <3>2, UnlinkMisses
  <2>. QED
    BY <2>1, <2>2, <2>3
<1>. QED
  BY <1>3, <1>4, <1>6 DEF Keeps

\* A builder makes a directory.
LEMMA MakesKeeps ==
  ASSUME IInv, NInv, NEW p \in Proc, NEW u \in Uuid, NEW d \in Dir, Makes(p, u, d),
         NEW c, content' = [content EXCEPT ![d] = c],
         doomed' = doomed \ {d}, suspect \subseteq suspect' \cup {d}
  PROVE  Keeps(p)
<1>1. /\ \A n \in Name : vms[n] # d
      /\ \A v \in Uuid : tmp[v] # d
      /\ \A q \in Proc : d # loc[q].fd /\ d # loc[q].target
      /\ displaced' = displaced \ {d}
  BY DEF Makes
<1>2. \A e \in Dir \ {d} : content'[e] = content[e]
  BY DEF IInv, TypeOK
<1>3. ~Known(d)
  BY <1>1 DEF Known
<1>4. \A n \in Name : vms[n] # None => Spares(vms[n])
  BY <1>1, <1>2 DEF Spares, IInv, TypeOK
<1>5. ASSUME NEW q \in Proc \ {p}
      PROVE  /\ pc[q] \in PostLock => Spares(loc[q].target)
             /\ pc[q] \in BuildLabels /\ Built(q) \in suspect => Built(q) \in suspect'
             /\ pc[q] \in BuildLabels /\ loc[q].op = "clone" /\ Built(q) # None =>
                  content'[Built(q)] = content[Built(q)]
             /\ pc[q] \in {"copySrc", "moveIn"} /\ loc[q].op = "clone" =>
                  content'[loc[q].fd] = content[loc[q].fd]
  <2>1. pc[q] \in PostLock => Spares(loc[q].target)
    BY <1>1, <1>2 DEF Spares, NInv, Private
  <2>2. pc[q] \in BuildLabels => Built(q) # d /\ Built(q) \in Dir \cup {None}
    BY <1>1 DEF Built, IInv, TypeOK, Control
  <2>3. pc[q] \in {"copySrc", "moveIn"} => pc[q] \in BuildLabels
    BY DEF BuildLabels
  <2>4. pc[q] \in {"copySrc", "moveIn"} /\ loc[q].op = "clone" => loc[q].fd \in Dir
    BY <2>3, CloneHolds
  <2>. QED
    BY <1>1, <1>2, <2>1, <2>2, <2>4
<1>. QED
  BY <1>1, <1>3, <1>4, <1>5 DEF Keeps

\* What is about to be moved in is complete, or known to be doubtful.
LEMMA BuiltIsComplete ==
  ASSUME IInv, NInv, CInv, NEW p \in Proc, pc[p] = "moveIn", Built(p) # None, Published(p)
  PROVE  Complete(Built(p)) \/ Built(p) \in suspect'
<1>1. pc[p] \in BuildLabels /\ pc[p] \in PostLock /\ suspect \subseteq suspect'
  BY DEF BuildLabels, PostLock, Published
<1>2. Filled(p) /\ Copied(p) /\ loc[p].op \in {"create", "clone"}
  BY <1>1 DEF CInv, IInv, Control
<1>3. CASE loc[p].op = "create"
  BY <1>1, <1>2, <1>3 DEF Filled
<1>4. CASE loc[p].op = "clone" /\ loc[p].fd \in displaced \cup doomed \cup suspect
  BY <1>4 DEF Published
<1>5. CASE loc[p].op = "clone" /\ loc[p].fd \notin displaced \cup doomed \cup suspect
  <2>1. loc[p].cur \in Name /\ loc[p].fd \in Dir /\ vms[loc[p].cur] = loc[p].fd
    BY <1>1, <1>5, CloneHolds DEF There
  <2>2. Complete(loc[p].fd)
    BY <1>5, <2>1, NoneIsNothing DEF CInv, PublishedComplete
  <2>3. content[Built(p)] = content[loc[p].fd]
    BY <1>1, <1>2, <1>5 DEF Copied
  <2>. QED
    BY <2>2, <2>3 DEF Complete, Present
<1>. QED
  BY <1>2, <1>3, <1>4, <1>5

\* local.MoveIn preserves the invariant of the contents.
LEMMA MovesContents ==
  ASSUME IInv, IInv', NInv, CInv, NEW p \in Proc, Moves(p), Published(p),
         UNCHANGED <<content, doomed>>, Filled(p)'
  PROVE  CInv'
<1>1. /\ pc[p] = "moveIn" /\ pc[p] \in BuildLabels /\ Built(p) # None /\ Apart(p)
      /\ pc'[p] \in {"idle", "mvRm"} /\ displaced \subseteq displaced' /\ suspect \subseteq suspect'
  BY DEF Moves, Published, BuildLabels
<1>2. /\ loc[p].dst \in Name /\ loc[p].uuid \in Uuid /\ Built(p) \in Dir
      /\ Built(p) = tmp[loc[p].uuid] /\ Built(p) \notin displaced
      /\ vms'[loc[p].dst] = Built(p)
      /\ \A n \in Name \ {loc[p].dst} : vms'[n] = vms[n]
      /\ \A v \in Uuid \ {loc[p].uuid} : tmp'[v] = tmp[v]
      /\ \A q \in Proc \ {p} : pc[q] \in BuildLabels \cup {"mvRm"} => loc[q].uuid # loc[p].uuid
  BY MovesFacts
<1>3. Keeps(p)
  BY <1>1, StillKeeps
<1>4. ASSUME NEW q \in Proc \ {p}, pc[q] \in BuildLabels PROVE Built(q)' \in {Built(q), None}
  BY <1>1, <1>2, <1>4 DEF Apart, Built, IInv, Control
<1>5. ASSUME NEW q \in Proc PROVE Filled(q)' /\ Copied(q)' /\ Dooms(q)'
  <2>1. CASE q # p
    BY <1>1, <1>3, <1>4, <2>1, KeepsOthers
  <2>2. CASE q = p
    BY <1>1, <2>2 DEF Copied, Dooms, BuildLabels
  <2>. QED
    BY <2>1, <2>2
<1>6. PublishedComplete'
  <2>. SUFFICES ASSUME NEW n \in Name, vms'[n] # None, vms'[n] \notin doomed' \cup suspect'
                PROVE  \A f \in File : content'[vms'[n]][f] # 0
    BY DEF PublishedComplete, Complete, Present
  <2>1. CASE n = loc[p].dst
    BY <1>1, <1>2, <2>1, BuiltIsComplete DEF Complete, Present
  <2>2. CASE n # loc[p].dst
    BY <1>1, <1>2, <2>2 DEF CInv, PublishedComplete, Complete, Present
  <2>. QED
    BY <2>1, <2>2
<1>7. ASSUME NEW q \in Proc PROVE Reaches(q)'
  <2>. SUFFICES ASSUME pc'[q] = "gcRm", NEW n \in Name, vms'[n] = loc'[q].target
                PROVE  loc'[q].target \in suspect'
    BY DEF Reaches
  <2>1. q # p /\ pc[q] = "gcRm" /\ loc'[q] = loc[q]
    BY <1>1 DEF Apart
  <2>2. CASE n # loc[p].dst
    BY <1>1, <1>2, <2>1, <2>2 DEF CInv, Reaches
  <2>3. CASE n = loc[p].dst
    <3>1. loc[q].target = Built(p)
      BY <1>2, <2>1, <2>3
    <3>2. CASE loc[q].target = loc[q].fd
      <4>1. loc[q].fd \in excl[q] /\ loc[p].target \in excl[p]
        BY <1>1, <2>1 DEF NInv, LockSets, PostLock
      <4>2. Built(p) # loc[p].target
        BY <2>1, <3>1, <3>2, <4>1 DEF IInv, Flocks
      <4>3. Built(p) \in suspect
        BY <1>1, <4>2 DEF CInv, Filled, PostLock
      <4>. QED
        BY <1>1, <2>1, <3>1, <4>3
    <3>3. CASE loc[q].target \in displaced
      BY <1>2, <3>1, <3>3
    <3>4. CASE Lost(q)
      BY <1>1, <1>2, <3>1, <3>4 DEF Lost
    <3>. QED
      BY <2>1, <3>2, <3>3, <3>4 DEF NInv, Aims
  <2>. QED
    BY <2>2, <2>3
<1>. QED
  BY <1>5, <1>6, <1>7 DEF CInv

---------------------------------------------------------------------------
(* Steps that leave the process itself in order preserve all of SInv.      *)

\* What SInv asks of the process that has taken the step.
InOrder(p) == LockSets(p)' /\ Filled(p)' /\ Copied(p)' /\ Dooms(p)' /\ Alone(p)'

\* A process that has been alone since it started saw no other one move.
LEMMA AloneOthers ==
  ASSUME SInv, NEW p \in Proc, pc[p] # "idle", UNCHANGED lone, Alone(p)'
  PROVE  \A q \in Proc : Alone(q)'
<1>1. \A q \in Proc \ {p} : ~lone[q]
  BY DEF SInv, Alone
<1>. QED
  BY <1>1 DEF Alone

\* A step that only removes names.
LEMMA GentleStep ==
  ASSUME IInv, IInv', SInv, NEW p \in Proc, pc[p] # "idle", UNCHANGED lone,
         Calm(p), Turns(p), Keeps(p), InOrder(p)
  PROVE  SInv'
<1>1. NInv /\ CInv
  BY DEF SInv
<1>2. NInv'
  BY <1>1, CalmStep DEF InOrder
<1>3. ASSUME NEW q \in Proc \ {p}, pc[q] \in BuildLabels PROVE Built(q)' \in {Built(q), None}
  BY <1>3 DEF Calm, Apart, Built, IInv, Control
<1>4. CInv'
  BY <1>1, <1>3, KeepsStep DEF InOrder, Calm, Turns
<1>5. \A q \in Proc : Alone(q)'
  BY AloneOthers DEF InOrder
<1>. QED
  BY <1>2, <1>4, <1>5 DEF SInv

\* A step that touches no name and no file.
LEMMA StillStep ==
  ASSUME IInv, IInv', SInv, NEW p \in Proc, pc[p] # "idle", UNCHANGED lone,
         UNCHANGED <<vms, tmp, content, displaced, suspect>>, doomed \subseteq doomed',
         Apart(p), Turns(p), InOrder(p)
  PROVE  SInv'
<1>1. Calm(p)
  BY DEF Calm
<1>2. Keeps(p)
  BY StillKeeps
<1>. QED
  BY <1>1, <1>2, GentleStep

\* The end of a process.
LEMMA ExitFacts ==
  ASSUME IInv, SInv, NEW p \in Proc, Exit(p), UNCHANGED lone
  PROVE  Apart(p) /\ Turns(p) /\ InOrder(p) /\ pc'[p] = "idle" /\ excl'[p] = {} /\ shrd'[p] = {}
<1>1. "idle" \in Label
  BY DEF Label
<1>2. /\ pc'[p] = "idle" /\ loc'[p] = Idle
      /\ \A q \in Proc \ {p} : pc'[q] = pc[q] /\ loc'[q] = loc[q]
  BY <1>1, IdleType, GotoEffect DEF IInv, Exit
<1>3. /\ excl'[p] = {} /\ shrd'[p] = {}
      /\ \A q \in Proc \ {p} : excl'[q] = excl[q] /\ shrd'[q] = shrd[q]
  BY DEF IInv, TypeOK, Exit
<1>4. Apart(p)
  BY <1>2, <1>3 DEF Apart
<1>5. Turns(p)
  BY <1>2, <1>3 DEF Turns, Builds, Sweeps, Takes, BuildLabels, PostLock
<1>6. LockSets(p)'
  BY <1>2, <1>3 DEF LockSets, ExclusiveLabels, BuildLabels, PostLock
<1>7. Filled(p)' /\ Copied(p)' /\ Dooms(p)'
  BY <1>2 DEF Filled, Copied, Dooms, BuildLabels, PostLock
<1>8. Alone(p)'
  BY <1>2 DEF SInv, Alone, GCLabels
<1>. QED
  BY <1>2, <1>3, <1>4, <1>5, <1>6, <1>7, <1>8 DEF InOrder

\* An error return.
LEMMA FailKeeps ==
  ASSUME IInv, IInv', SInv, NEW p \in Proc, pc[p] # "idle", Fail(p)
  PROVE  SInv'
<1>1. Exit(p) /\ UNCHANGED <<vms, tmp, content, displaced, suspect, doomed, lone>>
  BY DEF Fail, fsVars, history, bounds
<1>. QED
  BY <1>1, ExitFacts, StillStep

\* A process that holds a VM goes on with it.
LEMMA WorkStep ==
  ASSUME IInv, IInv', SInv, NEW p \in Proc, UNCHANGED lone,
         UNCHANGED <<vms, tmp, content, displaced, suspect, doomed, excl, shrd>>,
         NEW l \in ExclusiveLabels \ {"delResolve", "delRm"}, NEW r \in Local, Goto(p, l, r),
         pc[p] \in ExclusiveLabels, r.fd = loc[p].fd, r.id = loc[p].id
  PROVE  SInv'
<1>1. l \in Label
  BY DEF ExclusiveLabels, Label
<1>2. /\ pc'[p] = l /\ loc'[p] = r
      /\ \A q \in Proc \ {p} : pc'[q] = pc[q] /\ loc'[q] = loc[q]
  BY <1>1, GotoEffect DEF IInv
<1>3. /\ l \notin BuildLabels /\ l \notin GCLabels /\ l \notin PostLock
      /\ l \notin {"mvRm", "idle", "open", "mkTmp", "lock", "delResolve", "delRm", "push"}
      /\ pc[p] \notin GCLabels /\ pc[p] \notin PostLock /\ pc[p] # "idle"
  BY DEF ExclusiveLabels, BuildLabels, GCLabels, PostLock
<1>4. Apart(p)
  BY <1>2 DEF Apart
<1>5. Turns(p)
  BY <1>2, <1>3 DEF Turns, Builds, Sweeps, Takes, BuildLabels, PostLock, GCLabels
<1>6. LockSets(p)'
  <2>1. excl[p] = {loc[p].fd} /\ shrd[p] = {}
    BY DEF SInv, NInv, LockSets
  <2>. QED
    BY <1>2, <1>3, <2>1 DEF LockSets, BuildLabels, GCLabels
<1>7. Filled(p)' /\ Copied(p)' /\ Dooms(p)'
  BY <1>2, <1>3 DEF SInv, CInv, Filled, Copied, Dooms, PostLock
<1>8. Alone(p)'
  BY <1>2, <1>3 DEF SInv, Alone
<1>. QED
  BY <1>3, <1>4, <1>5, <1>6, <1>7, <1>8, StillStep DEF InOrder

---------------------------------------------------------------------------
(* One lemma per group of actions.                                         *)

\* The steps of "vetu set".
LEMMA SetKeeps ==
  ASSUME IInv, IInv', SInv, NEW p \in Proc, Set(p)
  PROVE  SInv'
<1>0. /\ loc[p] \in Local /\ NInv /\ CInv
      /\ pc[p] \in {"setRead", "setDisk", "setConfig"} /\ pc[p] \in ExclusiveLabels
      /\ pc[p] # "idle" /\ loc[p].id \in Stamp \ {0}
  <2>1. pc[p] \in {"setRead", "setDisk", "setConfig"}
    BY DEF Set, SetRead, SetDisk, SetConfig
  <2>2. loc[p] \in Local /\ loc[p].id \in Stamp
    BY DEF IInv, TypeOK, Local
  <2>3. loc[p].id # 0
    BY <2>1 DEF SInv, CInv, Filled
  <2>. QED
    BY <2>1, <2>2, <2>3 DEF SInv, ExclusiveLabels
<1>1. "setDisk" \in ExclusiveLabels /\ "setConfig" \in ExclusiveLabels /\ {"config", "disk"} = File
  BY DEF ExclusiveLabels, File
<1>2. ASSUME NEW l \in {"setDisk", "setConfig"}, Continue(p, l, loc[p]) PROVE SInv'
  BY <1>0, <1>1, <1>2, WorkStep DEF Continue, fsVars, lockVars, history, bounds
<1>3. CASE /\ pc[p] = "setDisk"
           /\ HasFile(There(p), "disk")
           /\ Write(There(p), "disk", loc[p].id)
           /\ Touched(p)
           /\ Goto(p, "setConfig", loc[p])
           /\ UNCHANGED <<vms, tmp, lockVars, displaced, doomed, bounds>>
  <2>1. Keeps(p)
    BY <1>0, <1>1, <1>3, ThereKeeps DEF HasFile
  <2>2. /\ "setConfig" \in Label
        /\ UNCHANGED <<vms, tmp, excl, shrd, displaced, lone>>
    BY <1>3 DEF Label, lockVars, bounds
  <2>3. /\ pc'[p] = "setConfig" /\ loc'[p] = loc[p]
        /\ \A q \in Proc \ {p} : pc'[q] = pc[q] /\ loc'[q] = loc[q]
    BY <1>0, <1>3, <2>2, GotoEffect DEF IInv
  <2>4. Calm(p)
    BY <2>2, <2>3 DEF Calm, Apart
  <2>5. Turns(p)
    BY <1>0, <2>2, <2>3
       DEF Turns, Builds, Sweeps, Takes, BuildLabels, PostLock, GCLabels
  <2>6. LockSets(p)'
    <3>1. excl[p] = {loc[p].fd} /\ shrd[p] = {}
      BY <1>0 DEF NInv, LockSets
    <3>. QED
      BY <2>2, <2>3, <3>1 DEF LockSets, BuildLabels, PostLock
  <2>7. Filled(p)' /\ Copied(p)' /\ Dooms(p)'
    BY <1>0, <2>3 DEF Filled, Copied, Dooms, PostLock, BuildLabels
  <2>8. Alone(p)'
    BY <2>2, <2>3 DEF SInv, Alone, GCLabels
  <2>. QED
    BY <1>0, <2>1, <2>2, <2>4, <2>5, <2>6, <2>7, <2>8, GentleStep DEF InOrder
<1>4. CASE SetConfig(p)
  <2>1. Exit(p) /\ UNCHANGED <<vms, tmp, displaced, doomed, lone>> /\ pc[p] = "setConfig"
    BY <1>4 DEF SetConfig, bounds
  <2>2. Keeps(p)
    <3>1. CASE There(p) = None
      BY <1>4, <2>1, <3>1, StillKeeps DEF SetConfig
    <3>2. CASE There(p) # None
      BY <1>0, <1>1, <1>4, <2>1, <3>2, ThereKeeps DEF SetConfig
    <3>. QED
      BY <3>1, <3>2
  <2>3. Apart(p) /\ Turns(p) /\ InOrder(p)
    BY <2>1, ExitFacts
  <2>4. Calm(p)
    BY <2>1, <2>3 DEF Calm
  <2>. QED
    BY <1>0, <2>1, <2>2, <2>3, <2>4, GentleStep
<1>. QED
  BY <1>0, <1>2, <1>3, <1>4, FailKeeps DEF Set, SetRead, SetDisk

\* The steps of "vetu run", and the end of "vetu push".
LEMMA RunKeeps ==
  ASSUME IInv, IInv', SInv, NEW p \in Proc, Run(p) \/ PushExit(p)
  PROVE  SInv'
<1>0. loc[p] \in Local /\ pc[p] # "idle"
  BY DEF IInv, TypeOK, Run, PushExit, RunConfig, RunPid, RunNet, RunStart, RunExit
<1>1. {"runConfig", "runPid", "runNet", "runStart", "running"} \subseteq ExclusiveLabels
  BY DEF ExclusiveLabels
<1>2. ASSUME NEW l \in {"runPid", "runStart"}, Continue(p, l, loc[p]),
             pc[p] \in {"runConfig", "runNet"}
      PROVE  SInv'
  <2>1. UNCHANGED <<vms, tmp, content, displaced, suspect, doomed, excl, shrd, lone>>
    BY <1>2 DEF Continue, fsVars, lockVars, history, bounds
  <2>. QED
    BY <1>0, <1>1, <1>2, <2>1, WorkStep DEF Continue
<1>3. CASE /\ pc[p] = "runPid"
           /\ Goto(p, "runNet", loc[p])
           /\ UNCHANGED <<fsVars, glock, excl, shrd, history, bounds>>
  BY <1>0, <1>1, <1>3, WorkStep DEF fsVars, history, bounds
<1>4. CASE /\ pc[p] = "runStart"
           /\ HasFile(There(p), "disk")
           /\ Continue(p, "running", [loc[p] EXCEPT !.hv = There(p)])
  <2>. DEFINE r == [loc[p] EXCEPT !.hv = There(p)]
  <2>1. There(p) \in Dir
    BY <1>1, <1>4 DEF IInv, TypeOK, HasFile, There, Control, Holds
  <2>2. r \in Local /\ r.fd = loc[p].fd /\ r.id = loc[p].id
    BY <1>0, <2>1 DEF Local
  <2>3. Continue(p, "running", r)
    BY <1>4
  <2>. HIDE DEF r
  <2>4. UNCHANGED <<vms, tmp, content, displaced, suspect, doomed, excl, shrd, lone>>
    BY <2>3 DEF Continue, fsVars, lockVars, history, bounds
  <2>. QED
    BY <1>0, <1>1, <1>4, <2>2, <2>3, <2>4, WorkStep DEF Continue
<1>. QED
  BY <1>0, <1>2, <1>3, <1>4, FailKeeps
     DEF Run, PushExit, RunConfig, RunPid, RunNet, RunStart, RunExit

\* "vetu push --populate-cache" takes a VM away.
LEMMA PushKeeps ==
  ASSUME IInv, IInv', SInv, NEW p \in Proc, PushPopulate(p)
  PROVE  SInv'
<1>1. /\ pc[p] = "push" /\ There(p) # None /\ Exit(p)
      /\ vms' = [vms EXCEPT ![loc[p].cur] = None]
      /\ displaced' = displaced \cup {There(p)}
      /\ UNCHANGED <<tmp, content, doomed, suspect, lone>>
  BY DEF PushPopulate, bounds
<1>2. loc[p].cur \in Name
  BY <1>1 DEF IInv, Control, Holds
<1>3. Apart(p) /\ Turns(p) /\ InOrder(p)
  BY <1>1, ExitFacts
<1>4. vms'[loc[p].cur] = None /\ vms[loc[p].cur] = There(p)
      /\ \A n \in Name : vms'[n] \in {vms[n], None}
  BY <1>1, <1>2 DEF IInv, TypeOK, There
<1>5. Calm(p)
  BY <1>1, <1>2, <1>3, <1>4 DEF Calm
<1>6. Keeps(p)
  BY <1>1, StillKeeps
<1>. QED
  BY <1>1, <1>3, <1>5, <1>6, GentleStep

\* temporary.GC is done with an entry.
LEMMA UnlockKeeps ==
  ASSUME IInv, IInv', SInv, NEW p \in Proc, GCUnlock(p), pc[p] \in {"gcLock", "gcResolve", "gcRm"},
         UNCHANGED <<vms, content>>, \A u \in Uuid : tmp'[u] \in {tmp[u], None},
         lone[p] => tmp'[loc[p].uuid] = None
  PROVE  SInv'
<1>. DEFINE r == [loc[p] EXCEPT !.uuid = None, !.fd = None, !.target = None]
<1>0. loc[p] \in Local /\ "gcNext" \in Label
  BY DEF IInv, TypeOK, Label, GCLabels
<1>1. r \in Local /\ r.id = loc[p].id /\ r.seen = loc[p].seen /\ Goto(p, "gcNext", r)
  BY <1>0 DEF Local, GCUnlock
<1>. HIDE DEF r
<1>2. /\ pc'[p] = "gcNext" /\ loc'[p] = r
      /\ \A q \in Proc \ {p} : pc'[q] = pc[q] /\ loc'[q] = loc[q]
  BY <1>0, <1>1, GotoEffect DEF IInv
<1>3. /\ excl'[p] = excl[p] \ {loc[p].fd} /\ shrd' = shrd
      /\ \A q \in Proc \ {p} : excl'[q] = excl[q]
      /\ UNCHANGED <<displaced, doomed, suspect, lone>>
  BY DEF GCUnlock, IInv, TypeOK, history, bounds
<1>4. excl'[p] = {} /\ shrd'[p] = {}
  BY <1>3 DEF SInv, NInv, LockSets
<1>5. Calm(p)
  BY <1>2, <1>3 DEF Calm, Apart
<1>6. Turns(p)
  BY <1>2, <1>4 DEF Turns, Builds, Sweeps, Takes, BuildLabels, PostLock
<1>7. LockSets(p)'
  BY <1>2, <1>4 DEF LockSets, ExclusiveLabels, BuildLabels, PostLock
<1>8. Filled(p)' /\ Copied(p)' /\ Dooms(p)'
  BY <1>1, <1>2 DEF SInv, CInv, Filled, Copied, Dooms, PostLock, BuildLabels
<1>9. Alone(p)'
  <2>1. lone[p] => \A q \in Proc : q # p => pc'[q] = "idle"
    BY <1>2 DEF SInv, Alone
  <2>2. lone[p] => \A u \in Uuid : tmp'[u] # None => u \in r.seen
    BY <1>1 DEF SInv, Alone, GCLabels
  <2>. QED
    BY <1>2, <1>3, <2>1, <2>2 DEF Alone
<1>10. Keeps(p) /\ pc[p] # "idle"
  BY <1>3, StillKeeps
<1>. QED
  BY <1>3, <1>5, <1>6, <1>7, <1>8, <1>9, <1>10, GentleStep DEF InOrder

\* temporary.GC goes on, from one of its steps to another, without a name or a
\* file being touched.
LEMMA SweepStep ==
  ASSUME IInv, IInv', SInv, NEW p \in Proc, NEW l \in GCLabels, NEW r \in Local, Goto(p, l, r),
         pc[p] \in GCLabels, r.id = loc[p].id,
         UNCHANGED <<vms, tmp, content, displaced, suspect, doomed, shrd, lone>>,
         \A q \in Proc \ {p} : excl'[q] = excl[q], Sweeps(p),
         excl'[p] = IF l \in {"gcNext", "gcLock"} THEN {} ELSE {r.fd},
         lone[p] => \A u \in Uuid : tmp[u] # None => u \in r.seen \/ (l # "gcNext" /\ u = r.uuid)
  PROVE  SInv'
<1>1. /\ pc'[p] = l /\ loc'[p] = r
      /\ \A q \in Proc \ {p} : pc'[q] = pc[q] /\ loc'[q] = loc[q]
  BY GotoEffect DEF IInv, Label
<1>2. /\ pc[p] # "idle" /\ l \notin BuildLabels /\ l \notin PostLock /\ l \notin ExclusiveLabels
      /\ l \notin {"mvRm", "mkTmp", "idle", "open", "lock", "delResolve", "delRm", "push"}
  BY DEF GCLabels, BuildLabels, PostLock, ExclusiveLabels
<1>3. Apart(p)
  BY <1>1 DEF Apart
<1>4. Turns(p)
  BY <1>1, <1>2 DEF Turns, Builds, Takes, BuildLabels, PostLock
<1>5. shrd[p] = {}
  BY DEF SInv, NInv, LockSets, GCLabels
<1>6. LockSets(p)'
  BY <1>1, <1>2, <1>5 DEF LockSets, BuildLabels
<1>7. Filled(p)' /\ Copied(p)' /\ Dooms(p)'
  BY <1>1, <1>2 DEF SInv, CInv, Filled, Copied, Dooms, PostLock
<1>8. Alone(p)'
  BY <1>1, <1>2 DEF SInv, Alone
<1>. QED
  BY <1>2, <1>3, <1>4, <1>6, <1>7, <1>8, StillStep DEF InOrder

\* The steps of temporary.GC.
LEMMA GCKeeps ==
  ASSUME IInv, IInv', SInv, NEW p \in Proc, GC(p)
  PROVE  SInv'
<1>0. /\ loc[p] \in Local /\ LockSets(p) /\ Alone(p) /\ Control(p)
      /\ {"gcNext", "gcLock", "gcResolve", "gcRm"} = GCLabels
  BY DEF IInv, TypeOK, SInv, NInv, GCLabels
<1>1. CASE GCOpen(p)
  <2>0. pc[p] = "gcNext" /\ excl[p] = {}
    BY <1>0, <1>1 DEF GCOpen, LockSets
  <2>. PICK u \in loc[p].seen :
         \/ /\ tmp[u] = None
            /\ Continue(p, "gcNext", [loc[p] EXCEPT !.seen = loc[p].seen \ {u}])
         \/ /\ tmp[u] # None
            /\ Continue(p, "gcLock",
                        [loc[p] EXCEPT !.seen = loc[p].seen \ {u}, !.uuid = u, !.fd = tmp[u]])
    BY <1>1 DEF GCOpen
  <2>a. u \in Uuid
    BY <1>0 DEF Local
  <2>b. lone[p] => \A v \in Uuid : tmp[v] # None => v \in loc[p].seen
    BY <1>0, <2>0 DEF Alone
  <2>1. CASE /\ tmp[u] = None
             /\ Continue(p, "gcNext", [loc[p] EXCEPT !.seen = loc[p].seen \ {u}])
    <3>. DEFINE r == [loc[p] EXCEPT !.seen = loc[p].seen \ {u}]
    <3>1. r \in Local /\ r.id = loc[p].id /\ r.seen = loc[p].seen \ {u} /\ "gcNext" \in Label
      BY <1>0 DEF Local, Label, GCLabels
    <3>2. Goto(p, "gcNext", r) /\ "gcNext" \in GCLabels
          /\ UNCHANGED <<vms, tmp, content, displaced, suspect, doomed, excl, shrd, lone>>
      BY <1>0, <2>1 DEF Continue, fsVars, lockVars, history, bounds
    <3>. HIDE DEF r
    <3>3. Sweeps(p)
      BY <3>1, <3>2, GotoEffect DEF Sweeps, IInv
    <3>. QED
      BY <1>0, <2>0, <2>1, <2>b, <3>1, <3>2, <3>3, SweepStep
  <2>2. CASE /\ tmp[u] # None
             /\ Continue(p, "gcLock",
                         [loc[p] EXCEPT !.seen = loc[p].seen \ {u}, !.uuid = u, !.fd = tmp[u]])
    <3>. DEFINE r == [loc[p] EXCEPT !.seen = loc[p].seen \ {u}, !.uuid = u, !.fd = tmp[u]]
    <3>1. /\ r \in Local /\ r.id = loc[p].id /\ r.seen = loc[p].seen \ {u} /\ r.uuid = u
          /\ r.fd = tmp[u] /\ "gcLock" \in Label
      BY <1>0, <2>a DEF IInv, TypeOK, Local, Label, GCLabels
    <3>2. Goto(p, "gcLock", r) /\ "gcLock" \in GCLabels
          /\ UNCHANGED <<vms, tmp, content, displaced, suspect, doomed, excl, shrd, lone>>
      BY <1>0, <2>2 DEF Continue, fsVars, lockVars, history, bounds
    <3>. HIDE DEF r
    <3>3. Sweeps(p)
      BY <2>2, <3>1, <3>2, GotoEffect DEF Sweeps, IInv
    <3>. QED
      BY <1>0, <2>0, <2>b, <3>1, <3>2, <3>3, SweepStep
  <2>. QED
    BY <2>1, <2>2
<1>2. CASE GCTrylock(p)
  <2>0. pc[p] = "gcLock" /\ loc[p].fd \in Dir /\ excl[p] = {} /\ loc[p].uuid \in Uuid
    BY <1>0, <1>2 DEF GCTrylock, LockSets, Control
  <2>1. CASE Exclusive(p, loc[p].fd)
    <3>1. /\ excl' = [excl EXCEPT ![p] = excl[p] \cup {loc[p].fd}]
          /\ Goto(p, "gcResolve", loc[p]) /\ "gcResolve" \in GCLabels /\ "gcResolve" \in Label
          /\ UNCHANGED <<vms, tmp, content, displaced, suspect, doomed, shrd, lone>>
      BY <1>0, <1>2, <2>1 DEF GCTrylock, fsVars, history, bounds, Label
    <3>2. excl'[p] = {loc[p].fd} /\ \A q \in Proc \ {p} : excl'[q] = excl[q]
      BY <2>0, <3>1 DEF IInv, TypeOK
    <3>3. Sweeps(p)
      BY <1>0, <2>0, <3>1, GotoEffect DEF Sweeps, IInv
    <3>4. lone[p] => \A u \in Uuid : tmp[u] # None => u \in loc[p].seen \/ u = loc[p].uuid
      BY <1>0, <2>0 DEF Alone, GCLabels
    <3>. QED
      BY <1>0, <2>0, <3>1, <3>2, <3>3, <3>4, SweepStep
  <2>2. CASE ~Exclusive(p, loc[p].fd)
    <3>1. GCUnlock(p) /\ UNCHANGED <<vms, tmp, content>>
      BY <1>2, <2>2 DEF GCTrylock, fsVars
    <3>2. ~lone[p]
      BY <1>0, <2>2 DEF Exclusive, Alone, SInv, NInv, LockSets
    <3>. QED
      BY <2>0, <3>1, <3>2, UnlockKeeps
  <2>. QED
    BY <2>1, <2>2
<1>3. CASE GCResolve(p)
  <2>0. pc[p] = "gcResolve" /\ excl[p] = {loc[p].fd} /\ loc[p].uuid \in Uuid
    BY <1>0, <1>3 DEF GCResolve, LockSets, Control
  <2>1. CASE Built(p) = None
    BY <1>3, <2>0, <2>1, UnlockKeeps DEF GCResolve, fsVars, Built
  <2>2. CASE Built(p) # None
    <3>. DEFINE r == [loc[p] EXCEPT !.target = Built(p), !.todo = Present(Built(p))]
    <3>1. Built(p) \in Dir
      BY <2>0, <2>2 DEF Built, IInv, TypeOK
    <3>2. /\ r \in Local /\ r.id = loc[p].id /\ r.seen = loc[p].seen /\ r.uuid = loc[p].uuid
          /\ r.fd = loc[p].fd /\ r.target = Built(p) /\ "gcRm" \in Label
      BY <1>0, <3>1, PresentType DEF Local, Label, GCLabels
    <3>3. Goto(p, "gcRm", r) /\ "gcRm" \in GCLabels
          /\ UNCHANGED <<vms, tmp, content, displaced, suspect, doomed, excl, shrd, lone>>
      BY <1>0, <1>3, <2>2 DEF GCResolve, Continue, fsVars, lockVars, history, bounds
    <3>. HIDE DEF r
    <3>4. Sweeps(p)
      BY <2>0, <2>2, <3>2, <3>3, GotoEffect DEF Sweeps, IInv
    <3>5. lone[p] => \A u \in Uuid : tmp[u] # None => u \in r.seen \/ u = r.uuid
      BY <1>0, <2>0, <3>2 DEF Alone, GCLabels
    <3>. QED
      BY <1>0, <2>0, <3>2, <3>3, <3>4, <3>5, SweepStep
  <2>. QED
    BY <2>1, <2>2
<1>4. CASE GCRmdir(p)
  <2>0. pc[p] = "gcRm" /\ loc[p].uuid \in Uuid
    BY <1>0, <1>4 DEF GCRmdir, Control
  <2>1. CASE Removable(Built(p))
    <3>1. /\ tmp' = [tmp EXCEPT ![loc[p].uuid] = None] /\ GCUnlock(p) /\ UNCHANGED <<vms, content>>
      BY <1>4, <2>1 DEF GCRmdir
    <3>2. tmp'[loc[p].uuid] = None /\ \A u \in Uuid : tmp'[u] \in {tmp[u], None}
      BY <2>0, <3>1 DEF IInv, TypeOK
    <3>. QED
      BY <2>0, <3>1, <3>2, UnlockKeeps
  <2>2. CASE ~Removable(Built(p))
    BY <1>4, <2>0, <2>2, FailKeeps DEF GCRmdir
  <2>. QED
    BY <2>1, <2>2
<1>5. CASE GCDone(p)
  <2>. DEFINE l == IF loc[p].op = "create" THEN "mkTmp" ELSE "open"
  <2>0. /\ pc[p] = "gcNext" /\ excl[p] = {} /\ shrd[p] = {} /\ loc[p].seen = {} /\ l \in Label
        /\ Goto(p, l, loc[p]) /\ l \in {"mkTmp", "open"} /\ (l = "mkTmp" => loc[p].op = "create")
        /\ UNCHANGED <<vms, tmp, content, displaced, suspect, doomed, excl, shrd, lone>>
    BY <1>0, <1>5 DEF GCDone, LockSets, Label, Continue, fsVars, lockVars, history, bounds
  <2>. HIDE DEF l
  <2>1. /\ pc'[p] = l /\ loc'[p] = loc[p]
        /\ \A q \in Proc \ {p} : pc'[q] = pc[q] /\ loc'[q] = loc[q]
    BY <1>0, <2>0, GotoEffect DEF IInv
  <2>2. Apart(p)
    BY <2>0, <2>1 DEF Apart
  <2>3. Turns(p)
    BY <2>0, <2>1 DEF Turns, Builds, Sweeps, Takes, BuildLabels, PostLock
  <2>4. LockSets(p)'
    BY <2>0, <2>1 DEF LockSets, ExclusiveLabels, BuildLabels, PostLock
  <2>5. Filled(p)' /\ Copied(p)' /\ Dooms(p)'
    BY <2>0, <2>1 DEF SInv, CInv, Filled, Copied, Dooms, PostLock, BuildLabels
  <2>6. Alone(p)'
    <3>1. lone[p] => \A u \in Uuid : tmp[u] = None
      BY <1>0, <2>0 DEF Alone, GCLabels
    <3>. QED
      BY <1>0, <2>0, <2>1, <3>1 DEF Alone
  <2>. QED
    BY <2>0, <2>2, <2>3, <2>4, <2>5, <2>6, StillStep DEF InOrder
<1>. QED
  BY <1>1, <1>2, <1>3, <1>4, <1>5 DEF GC

\* A delete is done with one of its names.
LEMMA DeleteNextKeeps ==
  ASSUME IInv, IInv', SInv, NEW p \in Proc, NEW rest \in SUBSET Name, DeleteNext(p, rest),
         pc[p] \in {"open", "lock", "delResolve", "delRm"},
         \A n \in Name : vms'[n] \in {vms[n], None},
         UNCHANGED <<tmp, content, displaced, doomed, suspect, lone>>
  PROVE  SInv'
<1>0. Keeps(p) /\ pc[p] # "idle" /\ loc[p] \in Local /\ LockSets(p) /\ Alone(p) /\ "open" \in Label
  BY StillKeeps DEF SInv, NInv, IInv, TypeOK, Label
<1>1. CASE rest = {}
  <2>1. Exit(p)
    BY <1>1 DEF DeleteNext
  <2>2. Apart(p) /\ Turns(p) /\ InOrder(p)
    BY <2>1, ExitFacts
  <2>3. Calm(p)
    BY <2>2 DEF Calm
  <2>. QED
    BY <1>0, <2>2, <2>3, GentleStep
<1>2. CASE rest # {}
  <2>. DEFINE r == [loc[p] EXCEPT !.args = rest, !.cur = None, !.fd = None, !.target = None]
  <2>1. r \in Local /\ r.id = loc[p].id /\ Goto(p, "open", r)
    BY <1>0, <1>2 DEF Local, DeleteNext
  <2>. HIDE DEF r
  <2>2. /\ pc'[p] = "open" /\ loc'[p] = r
        /\ \A q \in Proc \ {p} : pc'[q] = pc[q] /\ loc'[q] = loc[q]
    BY <1>0, <2>1, GotoEffect DEF IInv
  <2>3. /\ excl'[p] = excl[p] \ {loc[p].fd} /\ shrd' = shrd
        /\ \A q \in Proc \ {p} : excl'[q] = excl[q]
    BY <1>2 DEF DeleteNext, IInv, TypeOK
  <2>4. excl'[p] = {} /\ shrd'[p] = {}
    BY <1>0, <2>3 DEF LockSets, ExclusiveLabels
  <2>5. Calm(p)
    BY <2>2, <2>3 DEF Calm, Apart
  <2>6. Turns(p)
    BY <2>2, <2>4 DEF Turns, Builds, Sweeps, Takes, BuildLabels, PostLock
  <2>7. LockSets(p)'
    BY <2>2, <2>4 DEF LockSets, ExclusiveLabels, BuildLabels, PostLock
  <2>8. Filled(p)' /\ Copied(p)' /\ Dooms(p)'
    BY <1>0, <2>1, <2>2 DEF SInv, CInv, Filled, Copied, Dooms, PostLock, BuildLabels
  <2>9. Alone(p)'
    BY <1>0, <2>2 DEF Alone, GCLabels
  <2>. QED
    BY <1>0, <2>5, <2>6, <2>7, <2>8, <2>9, GentleStep DEF InOrder
<1>. QED
  BY <1>1, <1>2

\* Opening and locking a VM.
LEMMA OpenKeeps ==
  ASSUME IInv, IInv', SInv, NEW p \in Proc, OpenNamed(p) \/ LockNamed(p)
  PROVE  SInv'
<1>0. /\ loc[p] \in Local /\ loc[p].args \subseteq Name /\ Control(p) /\ LockSets(p) /\ Alone(p)
      /\ pc[p] \in {"open", "lock"} /\ Filled(p)
      /\ UNCHANGED <<vms, tmp, content, displaced, doomed, suspect, lone>>
  BY DEF SInv, NInv, CInv, IInv, TypeOK, Local, OpenNamed, LockNamed, fsVars, history, bounds
<1>1. excl[p] = {} /\ shrd[p] = {}
  BY <1>0 DEF LockSets
<1>2. ASSUME NEW rest \in SUBSET Name, Refused(p, rest) PROVE SInv'
  <2>1. CASE loc[p].op = "delete"
    BY <1>0, <1>2, <2>1, DeleteNextKeeps DEF Refused
  <2>2. CASE loc[p].op # "delete"
    <3>1. Exit(p)
      BY <1>2, <2>2 DEF Refused
    <3>. QED
      BY <1>0, <3>1, ExitFacts, StillStep
  <2>. QED
    BY <2>1, <2>2
<1>3. CASE OpenNamed(p)
  <2>. PICK n \in loc[p].args :
         \/ Refused(p, loc[p].args \ {n})
         \/ /\ Goto(p, "lock", [loc[p] EXCEPT !.args = loc[p].args \ {n}, !.cur = n,
                                              !.fd = vms[n]])
            /\ UNCHANGED <<excl, shrd, pid>>
    BY <1>3 DEF OpenNamed
  <2>1. CASE Refused(p, loc[p].args \ {n})
    BY <1>0, <1>2, <2>1
  <2>2. CASE /\ Goto(p, "lock", [loc[p] EXCEPT !.args = loc[p].args \ {n}, !.cur = n,
                                               !.fd = vms[n]])
             /\ UNCHANGED <<excl, shrd, pid>>
    <3>. DEFINE r == [loc[p] EXCEPT !.args = loc[p].args \ {n}, !.cur = n, !.fd = vms[n]]
    <3>1. r \in Local /\ r.id = loc[p].id /\ "lock" \in Label
      BY <1>0 DEF IInv, TypeOK, Local, Label
    <3>2. Goto(p, "lock", r) /\ pc[p] = "open"
      BY <1>3, <2>2 DEF OpenNamed
    <3>. HIDE DEF r
    <3>3. /\ pc'[p] = "lock" /\ loc'[p] = r
          /\ \A q \in Proc \ {p} : pc'[q] = pc[q] /\ loc'[q] = loc[q]
      BY <3>1, <3>2, GotoEffect DEF IInv
    <3>4. Apart(p)
      BY <2>2, <3>3 DEF Apart
    <3>5. Turns(p)
      BY <1>1, <2>2, <3>3 DEF Turns, Builds, Sweeps, Takes, BuildLabels, PostLock
    <3>6. LockSets(p)'
      BY <1>1, <2>2, <3>3 DEF LockSets, ExclusiveLabels, BuildLabels, PostLock
    <3>7. Filled(p)' /\ Copied(p)' /\ Dooms(p)'
      BY <1>0, <3>1, <3>2, <3>3 DEF Filled, Copied, Dooms, PostLock, BuildLabels
    <3>8. Alone(p)'
      BY <1>0, <3>2, <3>3 DEF Alone, GCLabels
    <3>. QED
      BY <1>0, <3>2, <3>4, <3>5, <3>6, <3>7, <3>8, StillStep DEF InOrder
  <2>. QED
    BY <2>1, <2>2
<1>4. CASE LockNamed(p)
  <2>0. /\ pc[p] = "lock" /\ loc[p].cur \in Name /\ loc[p].op \in Op \ {"create"}
        /\ There(p) = loc[p].fd \/ loc[p].fd \in displaced
    BY <1>0, <1>4 DEF LockNamed, Control
  <2>1. CASE ~CanLock(p, loc[p].fd)
    BY <1>0, <1>2, <1>4, <2>1 DEF LockNamed
  <2>2. CASE CanLock(p, loc[p].fd)
    <3>. DEFINE l == AfterLock(loc[p].op)
    <3>1. /\ l \in {"mkTmp", "delResolve", "setRead", "runConfig", "push"} /\ l \in Label
          /\ l = "mkTmp" <=> loc[p].op = "clone"
          /\ l = "push" <=> loc[p].op = "push"
      BY <2>0 DEF AfterLock, Op, Label
    <3>2. Goto(p, l, loc[p])
      BY <1>4, <2>2 DEF LockNamed
    <3>. HIDE DEF l
    <3>3. /\ excl'[p] = IF loc[p].op \in {"clone", "push"} THEN {} ELSE {loc[p].fd}
          /\ shrd'[p] = IF loc[p].op \in {"clone", "push"} THEN {loc[p].fd} ELSE {}
          /\ \A q \in Proc \ {p} : excl'[q] = excl[q] /\ shrd'[q] = shrd[q]
      <4>1. CASE TakesShared(p)
        <5>1. shrd' = [shrd EXCEPT ![p] = shrd[p] \cup {loc[p].fd}] /\ UNCHANGED excl
          BY <1>4, <2>2, <4>1 DEF LockNamed
        <5>. QED
          BY <1>1, <4>1, <5>1 DEF TakesShared, IInv, TypeOK
      <4>2. CASE ~TakesShared(p)
        <5>1. excl' = [excl EXCEPT ![p] = excl[p] \cup {loc[p].fd}] /\ UNCHANGED shrd
          BY <1>4, <2>2, <4>2 DEF LockNamed
        <5>. QED
          BY <1>1, <4>2, <5>1 DEF TakesShared, IInv, TypeOK
      <4>. QED
        BY <4>1, <4>2
    <3>4. /\ pc'[p] = l /\ loc'[p] = loc[p]
          /\ \A q \in Proc \ {p} : pc'[q] = pc[q] /\ loc'[q] = loc[q]
      BY <1>0, <3>1, <3>2, GotoEffect DEF IInv
    <3>5. Apart(p)
      BY <3>3, <3>4 DEF Apart
    <3>6. Takes(p)
      BY <2>0, <3>3 DEF Takes, There
    <3>7. Turns(p)
      BY <3>1, <3>4, <3>6 DEF Turns, Builds, Sweeps, BuildLabels, PostLock
    <3>8. LockSets(p)'
      BY <3>1, <3>3, <3>4 DEF LockSets, ExclusiveLabels, BuildLabels, PostLock
    <3>9. Filled(p)' /\ Copied(p)' /\ Dooms(p)'
      BY <1>0, <2>0, <3>1, <3>4 DEF Filled, Copied, Dooms, PostLock, BuildLabels
    <3>10. Alone(p)'
      BY <1>0, <2>0, <3>1, <3>4 DEF Alone, GCLabels
    <3>. QED
      BY <1>0, <2>0, <3>5, <3>7, <3>8, <3>9, <3>10, StillStep DEF InOrder
  <2>. QED
    BY <2>1, <2>2
<1>. QED
  BY <1>3, <1>4

\* os.RemoveAll: the unlinking common to all of them, and "vetu delete".
LEMMA RemoveKeeps ==
  ASSUME IInv, IInv', SInv, NEW p \in Proc, Unlink(p) \/ Delete(p)
  PROVE  SInv'
<1>0. /\ loc[p] \in Local /\ loc[p].args \subseteq Name /\ Control(p) /\ LockSets(p) /\ Alone(p)
      /\ Filled(p) /\ Dooms(p) /\ NInv /\ CInv
  BY DEF SInv, NInv, CInv, IInv, TypeOK, Local
<1>1. CASE Unlink(p)
  <2>0. /\ pc[p] \in {"gcRm", "mvRm", "delRm"} /\ loc[p].todo \subseteq File /\ pc[p] \in Label
        /\ pc[p] # "idle"
        /\ UNCHANGED <<vms, tmp, excl, shrd, displaced, doomed, suspect, lone>> /\ UNCHANGED history
    BY <1>0, <1>1 DEF Unlink, Local, lockVars, history, bounds, IInv, TypeOK
  <2>. PICK f \in File : /\ Write(loc[p].target, f, 0)
                        /\ Goto(p, pc[p], [loc[p] EXCEPT !.todo = @ \ {f}])
    BY <1>1, <2>0 DEF Unlink
  <2>. DEFINE r == [loc[p] EXCEPT !.todo = @ \ {f}]
  <2>1. /\ r \in Local /\ r.id = loc[p].id /\ r.seen = loc[p].seen /\ r.uuid = loc[p].uuid
        /\ r.op = loc[p].op /\ r.fd = loc[p].fd /\ r.target = loc[p].target
        /\ Goto(p, pc[p], r)
    BY <1>0, <2>0 DEF Local
  <2>. HIDE DEF r
  <2>2. /\ pc'[p] = pc[p] /\ loc'[p] = r
        /\ \A q \in Proc \ {p} : pc'[q] = pc[q] /\ loc'[q] = loc[q]
    BY <2>0, <2>1, GotoEffect DEF IInv
  <2>3. Calm(p)
    BY <2>0, <2>2 DEF Calm, Apart
  <2>4. Turns(p)
    BY <2>0, <2>1, <2>2 DEF Turns, Builds, Sweeps, Takes, BuildLabels, PostLock, GCLabels
  <2>5. Keeps(p)
    BY <1>0, <2>0, UnlinkKeeps
  <2>6. LockSets(p)'
    BY <1>0, <2>0, <2>1, <2>2 DEF LockSets
  <2>7. Filled(p)' /\ Copied(p)' /\ Dooms(p)'
    BY <1>0, <2>0, <2>1, <2>2 DEF Filled, Copied, Dooms, PostLock, BuildLabels
  <2>8. Alone(p)'
    BY <1>0, <2>0, <2>1, <2>2 DEF Alone
  <2>. QED
    BY <2>0, <2>3, <2>4, <2>5, <2>6, <2>7, <2>8, GentleStep DEF InOrder
<1>2. CASE DeleteResolve(p)
  <2>0. /\ pc[p] = "delResolve" /\ loc[p].cur \in Name /\ excl[p] = {loc[p].fd} /\ shrd[p] = {}
        /\ There(p) = loc[p].fd \/ There(p) = None
        /\ UNCHANGED <<vms, tmp, content, displaced, suspect, lone>>
    BY <1>0, <1>2 DEF DeleteResolve, Control, LockSets, ExclusiveLabels, fsVars, bounds
  <2>1. CASE There(p) = None
    <3>1. DeleteNext(p, loc[p].args) /\ UNCHANGED doomed
      BY <1>2, <2>1 DEF DeleteResolve
    <3>. QED
      BY <1>0, <2>0, <3>1, DeleteNextKeeps
  <2>2. CASE There(p) # None
    <3>. DEFINE r == [loc[p] EXCEPT !.target = There(p), !.todo = Present(There(p))]
    <3>1. There(p) \in Dir
      BY <2>0, <2>2 DEF There, IInv, TypeOK
    <3>2. /\ r \in Local /\ r.id = loc[p].id /\ r.target = There(p) /\ r.fd = loc[p].fd
          /\ "delRm" \in Label
      BY <1>0, <3>1, PresentType DEF Local, Label
    <3>3. Goto(p, "delRm", r) /\ doomed' = doomed \cup {There(p)} /\ UNCHANGED <<excl, shrd>>
      BY <1>2, <2>2 DEF DeleteResolve, lockVars
    <3>. HIDE DEF r
    <3>4. /\ pc'[p] = "delRm" /\ loc'[p] = r
          /\ \A q \in Proc \ {p} : pc'[q] = pc[q] /\ loc'[q] = loc[q]
      BY <3>2, <3>3, GotoEffect DEF IInv
    <3>5. Apart(p)
      BY <3>3, <3>4 DEF Apart
    <3>6. Turns(p)
      BY <2>0, <3>2, <3>3, <3>4 DEF Turns, Builds, Sweeps, Takes, BuildLabels, PostLock, GCLabels
    <3>7. LockSets(p)'
      BY <2>0, <3>2, <3>3, <3>4 DEF LockSets, ExclusiveLabels, BuildLabels, PostLock
    <3>8. Filled(p)' /\ Copied(p)' /\ Dooms(p)'
      BY <1>0, <2>0, <3>2, <3>3, <3>4 DEF Filled, Copied, Dooms, PostLock, BuildLabels
    <3>9. Alone(p)'
      BY <1>0, <2>0, <3>4 DEF Alone, GCLabels
    <3>. QED
      BY <2>0, <3>3, <3>5, <3>6, <3>7, <3>8, <3>9, StillStep DEF InOrder
  <2>. QED
    BY <2>1, <2>2
<1>3. CASE DeleteRmdir(p)
  <2>1. /\ pc[p] = "delRm" /\ loc[p].cur \in Name
        /\ vms' = [vms EXCEPT ![loc[p].cur] = IF Removable(@) THEN None ELSE @]
        /\ DeleteNext(p, loc[p].args)
        /\ UNCHANGED <<tmp, content, displaced, doomed, suspect, lone>>
    BY <1>0, <1>3 DEF DeleteRmdir, Control, history, bounds
  <2>2. \A n \in Name : vms'[n] \in {vms[n], None}
    BY <2>1 DEF IInv, TypeOK
  <2>. QED
    BY <1>0, <2>1, <2>2, DeleteNextKeeps
<1>. QED
  BY <1>1, <1>2, <1>3 DEF Delete

\* Moving a finished VM to its name.
LEMMA MoveInKeeps ==
  ASSUME IInv, IInv', SInv, NEW p \in Proc, MoveIn(p)
  PROVE  SInv'
<1>0. loc[p] \in Local /\ Control(p) /\ LockSets(p) /\ Alone(p) /\ Filled(p) /\ NInv /\ CInv
  BY DEF SInv, NInv, CInv, IInv, TypeOK
<1>1. CASE MoveInFail(p)
  BY <1>1, FailKeeps DEF MoveInFail
<1>2. ASSUME Moves(p), Published(p), UNCHANGED <<content, doomed, lone>>, InOrder(p) PROVE SInv'
  <2>1. NInv' /\ CInv'
    BY <1>0, <1>2, MovesStep, MovesContents DEF InOrder
  <2>2. \A q \in Proc : Alone(q)'
    BY <1>2, AloneOthers DEF InOrder, Moves
  <2>. QED
    BY <2>1, <2>2 DEF SInv
<1>3. CASE MoveInRename(p)
  <2>1. /\ pc[p] = "moveIn" /\ Built(p) # None /\ Published(p)
        /\ vms[loc[p].dst] = None
        /\ vms' = [vms EXCEPT ![loc[p].dst] = Built(p)]
        /\ tmp' = [tmp EXCEPT ![loc[p].uuid] = None]
        /\ Exit(p)
        /\ UNCHANGED <<content, displaced, doomed, lone>>
    BY <1>3 DEF MoveInRename, bounds
  <2>2. Apart(p) /\ InOrder(p) /\ pc'[p] = "idle" /\ excl'[p] = {} /\ shrd'[p] = {}
    BY <2>1, ExitFacts
  <2>3. Moves(p)
    BY <2>1, <2>2 DEF Moves
  <2>. QED
    BY <1>2, <2>1, <2>2, <2>3
<1>4. CASE MoveInExchange(p)
  <2>. DEFINE old == vms[loc[p].dst]
              r == [loc[p] EXCEPT !.target = old, !.todo = Present(old)]
  <2>1. /\ pc[p] = "moveIn" /\ Built(p) # None /\ Published(p)
        /\ old # None
        /\ vms' = [vms EXCEPT ![loc[p].dst] = Built(p)]
        /\ tmp' = [tmp EXCEPT ![loc[p].uuid] = old]
        /\ displaced' = displaced \cup {old}
        /\ Goto(p, "mvRm", r)
        /\ UNCHANGED <<content, excl, shrd, doomed, lone>>
    BY <1>4 DEF MoveInExchange, bounds
  <2>2. loc[p].dst \in Name /\ old \in Dir /\ "mvRm" \in Label
    BY <1>0, <2>1 DEF Control, BuildLabels, IInv, TypeOK, Label
  <2>3. /\ r \in Local /\ r.target = old /\ r.uuid = loc[p].uuid /\ r.id = loc[p].id
        /\ r.op = loc[p].op /\ r.fd = loc[p].fd
    BY <1>0, <2>2, PresentType DEF Local
  <2>. HIDE DEF r
  <2>4. /\ pc'[p] = "mvRm" /\ loc'[p] = r
        /\ \A q \in Proc \ {p} : pc'[q] = pc[q] /\ loc'[q] = loc[q]
    BY <2>1, <2>2, <2>3, GotoEffect DEF IInv
  <2>5. Moves(p)
    BY <2>1, <2>2, <2>3, <2>4, NoneIsNothing DEF Moves, Apart
  <2>6. LockSets(p)'
    <3>1. shrd[p] = IF loc[p].op = "clone" THEN {loc[p].fd} ELSE {}
      BY <1>0, <2>1 DEF LockSets, BuildLabels
    <3>. QED
      BY <2>1, <2>3, <2>4, <3>1 DEF LockSets, ExclusiveLabels, PostLock
  <2>7. Filled(p)' /\ Copied(p)' /\ Dooms(p)'
    BY <1>0, <2>1, <2>3, <2>4 DEF Filled, Copied, Dooms, PostLock, BuildLabels
  <2>8. Alone(p)'
    BY <1>0, <2>1, <2>4 DEF Alone, GCLabels
  <2>. QED
    BY <1>2, <2>1, <2>5, <2>6, <2>7, <2>8 DEF InOrder
<1>5. CASE MoveInRmdir(p)
  <2>1. /\ pc[p] = "mvRm" /\ Exit(p) /\ UNCHANGED <<vms, content, displaced, doomed, suspect, lone>>
        /\ tmp' = [tmp EXCEPT ![loc[p].uuid] = IF Removable(@) THEN None ELSE @]
    BY <1>5 DEF MoveInRmdir, history, bounds
  <2>2. Apart(p) /\ Turns(p) /\ InOrder(p)
    BY <2>1, ExitFacts
  <2>3. Calm(p)
    BY <2>1, <2>2 DEF Calm, IInv, TypeOK
  <2>4. Keeps(p)
    BY <2>1, StillKeeps
  <2>. QED
    BY <2>1, <2>2, <2>3, <2>4, GentleStep
<1>. QED
  BY <1>1, <1>3, <1>4, <1>5 DEF MoveIn

\* A process is killed.
LEMMA CrashKeeps ==
  ASSUME IInv, IInv', SInv, NEW p \in Proc, Crash(p)
  PROVE  SInv'
<1>1. pc[p] # "idle" /\ UNCHANGED <<vms, tmp, content, displaced, doomed, suspect, lone>>
  BY DEF Crash, fsVars, history
<1>2. CASE pc[p] = "running"
  <2>1. Goto(p, "orphan", loc[p]) /\ UNCHANGED <<excl, shrd>>
    BY <1>2 DEF Crash
  <2>2. loc[p] \in Local /\ "orphan" \in ExclusiveLabels /\ "running" \in ExclusiveLabels
    BY DEF IInv, TypeOK, ExclusiveLabels
  <2>. QED
    BY <1>1, <1>2, <2>1, <2>2, WorkStep
<1>3. CASE pc[p] # "running"
  <2>1. Exit(p)
    BY <1>3 DEF Crash
  <2>. QED
    BY <1>1, <2>1, ExitFacts, StillStep
<1>. QED
  BY <1>2, <1>3

\* What writing a file does.
LEMMA WriteEffect ==
  ASSUME TypeOK, NEW d \in Dir, NEW f \in File, NEW s, Write(d, f, s)
  PROVE  /\ content'[d][f] = s
         /\ \A g \in File \ {f} : content'[d][g] = content[d][g]
         /\ \A e \in Dir \ {d} : content'[e] = content[e]
BY DEF TypeOK, Write

\* A builder goes on with its directory.
LEMMA BuildStep ==
  ASSUME IInv, IInv', SInv, NEW p \in Proc, NEW l \in BuildLabels, NEW r \in Local, Goto(p, l, r),
         pc[p] \in BuildLabels,
         r.uuid = loc[p].uuid, r.op = loc[p].op, r.fd = loc[p].fd,
         UNCHANGED <<vms, tmp, displaced, doomed, suspect, shrd, lone>>,
         \A q \in Proc \ {p} : excl'[q] = excl[q],
         excl'[p] = IF l \in PostLock THEN {r.target} ELSE {},
         pc[p] \in PostLock => l \in PostLock,
         Builds(p), Keeps(p), Filled(p)', Copied(p)'
  PROVE  SInv'
<1>1. l \in Label
  BY DEF Label
<1>2. /\ pc'[p] = l /\ loc'[p] = r
      /\ \A q \in Proc \ {p} : pc'[q] = pc[q] /\ loc'[q] = loc[q]
  BY <1>1, GotoEffect DEF IInv
<1>3. /\ pc[p] # "idle" /\ pc[p] \notin GCLabels
      /\ l \notin GCLabels /\ l \notin ExclusiveLabels
      /\ l \notin {"mvRm", "mkTmp", "idle", "open", "lock", "delResolve", "delRm", "push"}
  BY DEF BuildLabels, GCLabels, ExclusiveLabels
<1>4. Calm(p)
  BY <1>2 DEF Calm, Apart
<1>5. LockSets(p)
  BY DEF SInv, NInv
<1>6. Takes(p)
  <2>. SUFFICES ASSUME NEW d \in excl'[p] \cup shrd'[p]
                PROVE  \/ /\ d \in excl[p] \cup shrd[p] /\ pc[p] \notin GCLabels
                          /\ pc[p] \in PostLock => pc'[p] \in PostLock
                       \/ pc[p] = "lockTmp" /\ pc'[p] \in PostLock /\ d = loc[p].target
    BY DEF Takes
  <2>1. CASE d \in shrd'[p]
    BY <1>2, <1>3, <2>1
  <2>2. CASE d \in excl'[p]
    <3>1. l \in PostLock /\ d = r.target
      BY <2>2
    <3>2. pc[p] \in {"lockTmp"} \cup PostLock /\ d = loc[p].target
      BY <1>2, <3>1 DEF Builds
    <3>3. pc[p] \in PostLock => d \in excl[p]
      BY <1>5, <3>2 DEF LockSets
    <3>. QED
      BY <1>2, <1>3, <3>1, <3>2, <3>3
  <2>. QED
    BY <2>1, <2>2
<1>7. Turns(p)
  BY <1>2, <1>3, <1>6 DEF Turns, Sweeps, GCLabels
<1>8. LockSets(p)'
  <2>1. shrd[p] = IF loc[p].op = "clone" THEN {loc[p].fd} ELSE {}
    BY <1>5 DEF LockSets
  <2>2. l \in {"initConfig", "openTmp", "lockTmp"} => l \notin PostLock
    BY DEF PostLock
  <2>. QED
    BY <1>2, <1>3, <2>1, <2>2 DEF LockSets, GCLabels
<1>9. Dooms(p)' /\ Alone(p)'
  BY <1>2, <1>3 DEF Dooms, SInv, Alone
<1>. QED
  BY <1>3, <1>4, <1>7, <1>8, <1>9, GentleStep DEF InOrder

\* The steps that build a VM in a directory that is there.
LEMMA FillKeeps ==
  ASSUME IInv, IInv', SInv, NEW p \in Proc,
         \/ InitConfig(p) \/ OpenTmp(p) \/ LockTmp(p) \/ ReadSource(p) \/ CopyFile(p) \/ WriteConfig(p)
         \/ /\ pc[p] = "copyIn" /\ Built(p) # None
            /\ Write(Built(p), "disk", loc[p].id)
            /\ Goto(p, "writeConfig", loc[p])
            /\ UNCHANGED <<vms, tmp, lockVars, history, bounds>>
  PROVE  SInv'
<1>0. /\ loc[p] \in Local /\ Control(p) /\ LockSets(p) /\ Private(p) /\ Filled(p) /\ Copied(p)
      /\ NInv /\ CInv
  BY DEF SInv, NInv, CInv, IInv, TypeOK
<1>1. /\ {"config", "disk"} = File /\ pc[p] \in BuildLabels /\ pc[p] # "idle"
      /\ loc[p].id \in Stamp \ {0}
  <2>1. pc[p] \in BuildLabels
    BY DEF InitConfig, OpenTmp, LockTmp, ReadSource, CopyFile, WriteConfig, BuildLabels
  <2>2. loc[p].id \in Stamp
    BY <1>0 DEF Local
  <2>. QED
    BY <1>0, <2>1, <2>2 DEF Filled, File, BuildLabels
<1>2. CASE Fail(p)
  BY <1>1, <1>2, FailKeeps
<1>3. Built(p) # None => Built(p) \in Dir /\ Built(p) = tmp[loc[p].uuid] /\ loc[p].uuid \in Uuid
  BY <1>0, <1>1, BuiltFacts
<1>4. CASE InitConfig(p) /\ Built(p) # None
  <2>1. /\ pc[p] = "initConfig" /\ Write(Built(p), "config", loc[p].id) /\ Goto(p, "openTmp", loc[p])
        /\ UNCHANGED <<vms, tmp, excl, shrd, displaced, doomed, suspect, lone>> /\ UNCHANGED history
        /\ "openTmp" \in BuildLabels /\ "openTmp" \in Label
    BY <1>4 DEF InitConfig, lockVars, history, bounds, BuildLabels, Label
  <2>2. pc'[p] = "openTmp" /\ loc'[p] = loc[p] /\ loc[p].op = "create" /\ excl[p] = {}
    BY <1>0, <2>1, GotoEffect DEF IInv, Private, LockSets
  <2>3. Keeps(p)
    BY <1>0, <1>1, <1>4, <2>1, BuiltKeeps
  <2>4. Builds(p)
    BY <1>1, <2>1, <2>2 DEF Builds, PostLock
  <2>5. Filled(p)' /\ Copied(p)'
    BY <1>1, <2>2 DEF Filled, Copied, PostLock
  <2>. QED
    BY <1>0, <1>1, <2>1, <2>2, <2>3, <2>4, <2>5, BuildStep DEF PostLock
<1>5. CASE OpenTmp(p) /\ Built(p) # None
  <2>. DEFINE r == [loc[p] EXCEPT !.target = Built(p)]
  <2>1. /\ pc[p] = "openTmp" /\ Goto(p, "lockTmp", r)
        /\ UNCHANGED <<vms, tmp, content, excl, shrd, displaced, doomed, suspect, lone>>
        /\ "lockTmp" \in BuildLabels /\ "lockTmp" \in Label
    BY <1>5 DEF OpenTmp, Continue, fsVars, lockVars, history, bounds, BuildLabels, Label
  <2>2. /\ r \in Local /\ r.target = Built(p) /\ r.uuid = loc[p].uuid /\ r.op = loc[p].op
        /\ r.fd = loc[p].fd /\ r.id = loc[p].id /\ r.todo = loc[p].todo
    BY <1>0, <1>3, <1>5 DEF Local
  <2>. HIDE DEF r
  <2>3. pc'[p] = "lockTmp" /\ loc'[p] = r /\ excl[p] = {}
    BY <1>0, <2>1, <2>2, GotoEffect DEF IInv, LockSets
  <2>4. Keeps(p)
    BY <2>1, StillKeeps
  <2>5. Builds(p)
    BY <1>5, <2>1, <2>2, <2>3 DEF Builds, PostLock, BuildLabels
  <2>6. Built(p)' = Built(p)
    BY <2>1, <2>2, <2>3 DEF Built
  <2>7. Filled(p)'
    BY <1>1, <2>2, <2>3 DEF Filled, PostLock
  <2>8. Copied(p)'
    BY <1>0, <1>1, <2>1, <2>2, <2>3, <2>6 DEF Copied
  <2>. QED
    BY <1>0, <1>1, <2>1, <2>2, <2>3, <2>4, <2>5, <2>7, <2>8, BuildStep DEF PostLock
<1>6. CASE LockTmp(p) /\ Exclusive(p, loc[p].target)
  <2>. DEFINE l == IF loc[p].op = "create" THEN "copyIn" ELSE "readSrc"
  <2>1. /\ pc[p] = "lockTmp" /\ Goto(p, l, loc[p]) /\ l \in {"copyIn", "readSrc"}
        /\ (l = "copyIn" <=> loc[p].op = "create")
        /\ excl' = [excl EXCEPT ![p] = excl[p] \cup {loc[p].target}]
        /\ UNCHANGED <<vms, tmp, content, shrd, displaced, doomed, suspect, lone>>
    BY <1>6 DEF LockTmp, fsVars, history, bounds
  <2>2. l \in BuildLabels /\ l \in Label /\ l \in PostLock
    BY DEF BuildLabels, Label, PostLock
  <2>. HIDE DEF l
  <2>3. pc'[p] = l /\ loc'[p] = loc[p] /\ excl[p] = {}
    BY <1>0, <2>1, <2>2, GotoEffect DEF IInv, LockSets
  <2>4. excl'[p] = {loc[p].target} /\ \A q \in Proc \ {p} : excl'[q] = excl[q]
    BY <2>1, <2>3 DEF IInv, TypeOK
  <2>5. Keeps(p)
    BY <2>1, StillKeeps
  <2>6. Builds(p)
    BY <1>1, <2>1, <2>2, <2>3 DEF Builds
  <2>7. Built(p)' = Built(p) /\ Built(p) \in {loc[p].target, None}
    BY <1>0, <2>1, <2>3 DEF Built, Private
  <2>8. Filled(p)'
    BY <1>1, <2>1, <2>3, <2>7 DEF Filled
  <2>9. Copied(p)'
    BY <1>0, <1>1, <2>1, <2>3, <2>7 DEF Copied
  <2>. QED
    BY <1>0, <1>1, <2>1, <2>2, <2>3, <2>4, <2>5, <2>6, <2>8, <2>9, BuildStep
<1>7. CASE /\ pc[p] = "copyIn" /\ Built(p) # None
           /\ Write(Built(p), "disk", loc[p].id)
           /\ Goto(p, "writeConfig", loc[p])
           /\ UNCHANGED <<vms, tmp, lockVars, history, bounds>>
  <2>1. /\ UNCHANGED <<vms, tmp, excl, shrd, displaced, doomed, suspect, lone>> /\ UNCHANGED history
        /\ "writeConfig" \in BuildLabels /\ "writeConfig" \in Label /\ "writeConfig" \in PostLock
    BY <1>7 DEF lockVars, history, bounds, BuildLabels, Label, PostLock
  <2>2. pc'[p] = "writeConfig" /\ loc'[p] = loc[p] /\ loc[p].op = "create" /\ excl[p] = {loc[p].target}
    BY <1>0, <1>7, <2>1, GotoEffect DEF IInv, Private, LockSets, PostLock
  <2>3. Keeps(p)
    BY <1>0, <1>1, <1>7, <2>1, BuiltKeeps
  <2>4. Builds(p)
    BY <1>1, <1>7, <2>1, <2>2 DEF Builds, PostLock
  <2>5. Built(p)' = Built(p) /\ Built(p) = loc[p].target
    BY <1>0, <1>7, <2>1, <2>2 DEF Built, Private
  <2>6. content'[loc[p].target]["disk"] # 0
    BY <1>1, <1>3, <1>7, <2>5, WriteEffect DEF IInv
  <2>7. Filled(p)' /\ Copied(p)'
    BY <1>1, <2>2, <2>5, <2>6 DEF Filled, Copied
  <2>. QED
    BY <1>0, <1>1, <1>7, <2>1, <2>2, <2>3, <2>4, <2>7, BuildStep
<1>8. CASE ReadSource(p) /\ There(p) # None
  <2>. DEFINE r == [loc[p] EXCEPT !.todo = Present(There(p))]
  <2>1. /\ pc[p] = "readSrc" /\ Goto(p, "copySrc", r) /\ pc[p] \in PostLock
        /\ UNCHANGED <<vms, tmp, content, excl, shrd, displaced, doomed, suspect, lone>>
        /\ "copySrc" \in BuildLabels /\ "copySrc" \in Label /\ "copySrc" \in PostLock
    BY <1>8 DEF ReadSource, Continue, fsVars, lockVars, history, bounds, BuildLabels, Label, PostLock
  <2>2. /\ r \in Local /\ r.target = loc[p].target /\ r.uuid = loc[p].uuid /\ r.op = loc[p].op
        /\ r.fd = loc[p].fd /\ r.id = loc[p].id /\ r.todo = Present(There(p))
    BY <1>0, PresentType DEF Local
  <2>. HIDE DEF r
  <2>3. pc'[p] = "copySrc" /\ loc'[p] = r /\ excl[p] = {loc[p].target} /\ loc[p].op = "clone"
    BY <1>0, <2>1, <2>2, GotoEffect DEF IInv, LockSets, Control
  <2>4. Keeps(p)
    BY <2>1, StillKeeps
  <2>5. Builds(p)
    BY <1>1, <2>1, <2>2, <2>3 DEF Builds
  <2>6. Built(p)' = Built(p) /\ Built(p) \in {loc[p].target, None}
    BY <1>0, <2>1, <2>2, <2>3 DEF Built, Private
  <2>7. Filled(p)'
    BY <1>1, <2>1, <2>2, <2>3, <2>6 DEF Filled
  <2>8. Copied(p)'
    <3>. SUFFICES ASSUME Built(p) # None, loc[p].fd \notin displaced \cup suspect,
                         NEW f \in File \ r.todo
                  PROVE  content[Built(p)][f] = content[loc[p].fd][f]
      BY <2>1, <2>2, <2>3, <2>6 DEF Copied
    <3>1. content[Built(p)][f] = 0
      BY <1>0, <1>1, <2>1, <2>3 DEF Copied, EmptyDir
    <3>2. There(p) = loc[p].fd
      BY <1>1, <2>3, CloneHolds
    <3>. QED
      BY <2>2, <3>1, <3>2 DEF Present
  <2>. QED
    BY <1>0, <1>1, <2>1, <2>2, <2>3, <2>4, <2>5, <2>7, <2>8, BuildStep
<1>9. CASE CopyFile(p)
  <2>. PICK f \in loc[p].todo :
         IF HasFile(There(p), f) /\ Built(p) # None
         THEN /\ Write(Built(p), f, content[There(p)][f])
              /\ Goto(p, "copySrc", [loc[p] EXCEPT !.todo = loc[p].todo \ {f}])
              /\ UNCHANGED <<vms, tmp, lockVars, history, bounds>>
         ELSE Fail(p)
    BY <1>9 DEF CopyFile
  <2>. DEFINE r == [loc[p] EXCEPT !.todo = loc[p].todo \ {f}]
  <2>0. CASE HasFile(There(p), f) /\ Built(p) # None
    <3>1. /\ pc[p] = "copySrc" /\ Goto(p, "copySrc", r) /\ pc[p] \in PostLock
          /\ Write(Built(p), f, content[There(p)][f])
          /\ UNCHANGED <<vms, tmp, excl, shrd, displaced, doomed, suspect, lone>> /\ UNCHANGED history
          /\ "copySrc" \in BuildLabels /\ "copySrc" \in Label /\ "copySrc" \in PostLock
      BY <1>9, <2>0 DEF CopyFile, lockVars, history, bounds, BuildLabels, Label, PostLock
    <3>2. /\ r \in Local /\ r.target = loc[p].target /\ r.uuid = loc[p].uuid /\ r.op = loc[p].op
          /\ r.fd = loc[p].fd /\ r.id = loc[p].id /\ r.todo = loc[p].todo \ {f} /\ f \in File
      BY <1>0 DEF Local
    <3>. HIDE DEF r
    <3>3. pc'[p] = "copySrc" /\ loc'[p] = r /\ excl[p] = {loc[p].target} /\ loc[p].op = "clone"
      BY <1>0, <3>1, <3>2, GotoEffect DEF IInv, LockSets, Control
    <3>4. Keeps(p)
      BY <1>0, <1>1, <2>0, <3>1, BuiltKeeps
    <3>5. Builds(p)
      BY <1>1, <3>1, <3>2, <3>3 DEF Builds
    <3>6. Built(p)' = Built(p) /\ Built(p) = loc[p].target
      BY <1>0, <2>0, <3>1, <3>2, <3>3 DEF Built, Private
    <3>7. Filled(p)'
      BY <1>1, <3>1, <3>2, <3>3, <3>6 DEF Filled
    <3>8. Copied(p)'
      <4>. SUFFICES ASSUME loc[p].fd \notin displaced \cup suspect, NEW g \in File \ r.todo
                    PROVE  content'[Built(p)][g] = content'[loc[p].fd][g]
        BY <3>1, <3>2, <3>3, <3>6 DEF Copied
      <4>1. There(p) = loc[p].fd /\ loc[p].fd \in Dir /\ loc[p].cur \in Name
        BY <1>1, <3>3, CloneHolds
      <4>2. Built(p) # loc[p].fd /\ Built(p) \in Dir
        BY <1>0, <1>1, <2>0, <4>1, BuiltFacts DEF There
      <4>3. /\ content'[Built(p)][f] = content[loc[p].fd][f]
            /\ \A h \in File \ {f} : content'[Built(p)][h] = content[Built(p)][h]
            /\ content'[loc[p].fd] = content[loc[p].fd]
        BY <3>1, <3>2, <4>1, <4>2, WriteEffect DEF IInv
      <4>4. \A h \in File \ loc[p].todo : content[Built(p)][h] = content[loc[p].fd][h]
        BY <1>0, <1>1, <2>0, <3>1, <3>3 DEF Copied
      <4>. QED
        BY <3>2, <4>3, <4>4
    <3>. QED
      BY <1>0, <1>1, <3>1, <3>2, <3>3, <3>4, <3>5, <3>7, <3>8, BuildStep
  <2>. QED
    BY <1>2, <2>0
<1>10. CASE /\ WriteConfig(p) /\ Built(p) # None
            /\ IF loc[p].op = "create"
               THEN Write(Built(p), "config", loc[p].id)
               ELSE UNCHANGED content
            /\ Goto(p, "moveIn", loc[p])
            /\ UNCHANGED <<vms, tmp, lockVars, history, bounds>>
  <2>1. /\ UNCHANGED <<vms, tmp, excl, shrd, displaced, doomed, suspect, lone>> /\ UNCHANGED history
        /\ "moveIn" \in BuildLabels /\ "moveIn" \in Label /\ "moveIn" \in PostLock
        /\ pc[p] \in PostLock
        /\ \/ pc[p] = "writeConfig" /\ loc[p].op = "create"
           \/ pc[p] = "copySrc" /\ loc[p].todo = {} /\ loc[p].op = "clone"
    BY <1>0, <1>10 DEF WriteConfig, lockVars, history, bounds, BuildLabels, Label, PostLock,
                       Private, Control
  <2>2. pc'[p] = "moveIn" /\ loc'[p] = loc[p] /\ excl[p] = {loc[p].target}
    BY <1>0, <1>10, <2>1, GotoEffect DEF IInv, LockSets
  <2>3. Keeps(p)
    BY <1>0, <1>1, <1>10, <2>1, BuiltKeeps, StillKeeps
  <2>4. Builds(p)
    BY <1>1, <2>1, <2>2 DEF Builds
  <2>5. Built(p)' = Built(p) /\ Built(p) \in {loc[p].target} \cup suspect
    BY <1>0, <1>10, <2>1, <2>2 DEF Built, Filled
  <2>6. Filled(p)'
    <3>1. ASSUME loc[p].op = "create", Built(p) = loc[p].target
          PROVE  \A f \in File : content'[loc[p].target][f] # 0
      <4>1. content[loc[p].target]["disk"] # 0
        BY <1>0, <2>1, <3>1 DEF Filled
      <4>2. /\ content'[loc[p].target]["config"] = loc[p].id
            /\ content'[loc[p].target]["disk"] = content[loc[p].target]["disk"]
        BY <1>1, <1>3, <1>10, <3>1, WriteEffect DEF IInv
      <4>. QED
        BY <1>1, <4>1, <4>2
    <3>. QED
      BY <1>1, <2>1, <2>2, <2>5, <3>1 DEF Filled, Complete, Present
  <2>7. Copied(p)'
    <3>. SUFFICES ASSUME loc[p].op = "clone", loc[p].fd \notin displaced \cup suspect
                  PROVE  content'[Built(p)] = content'[loc[p].fd]
      BY <2>1, <2>2, <2>5 DEF Copied
    <3>1. pc[p] = "copySrc" /\ loc[p].todo = {} /\ content' = content
      BY <1>10, <2>1
    <3>2. \A f \in File : content[Built(p)][f] = content[loc[p].fd][f]
      BY <1>0, <1>1, <1>10, <3>1 DEF Copied
    <3>3. content[Built(p)] \in [File -> Stamp] /\ content[loc[p].fd] \in [File -> Stamp]
      BY <1>1, <1>3, <1>10, CloneHolds DEF IInv, TypeOK
    <3>. QED
      BY <3>1, <3>2, <3>3
  <2>. QED
    BY <1>0, <1>1, <1>10, <2>1, <2>2, <2>3, <2>4, <2>6, <2>7, BuildStep
<1>. QED
  BY <1>2, <1>4, <1>5, <1>6, <1>7, <1>8, <1>9, <1>10
     DEF InitConfig, OpenTmp, LockTmp, ReadSource, WriteConfig

\* Making a directory, for any builder.
LEMMA NewDirKeeps ==
  ASSUME IInv, IInv', SInv, NEW p \in Proc, pc[p] # "idle", UNCHANGED lone,
         NEW u \in Uuid, NEW d \in Dir, Makes(p, u, d),
         NEW c, content' = [content EXCEPT ![d] = c],
         doomed' = doomed \ {d}, suspect \subseteq suspect' \cup {d},
         Private(p)', \A q \in Proc : Collects(q, p)',
         \A v \in Uuid : tmp[v] \in excl[p] \cup shrd[p] /\ tmp[v] \notin displaced =>
           pc'[p] \in PostLock /\ loc'[p].uuid = v /\ loc'[p].target = tmp[v],
         InOrder(p)
  PROVE  SInv'
<1>1. NInv /\ CInv
  BY DEF SInv
<1>2. NInv'
  BY <1>1, MakesStep DEF InOrder
<1>3. Keeps(p)
  BY <1>1, MakesKeeps
<1>4. ASSUME NEW q \in Proc \ {p}, pc[q] \in BuildLabels PROVE Built(q)' \in {Built(q), None}
  <2>1. loc[q].uuid \in Uuid \ {u} /\ loc'[q] = loc[q] /\ tmp' = [tmp EXCEPT ![u] = d]
    BY <1>4 DEF Makes, Apart, IInv, Control
  <2>. QED
    BY <2>1 DEF Built, IInv, TypeOK
<1>5. Apart(p) /\ pc'[p] # "gcRm" /\ \A n \in Name : vms'[n] \in {vms[n], None}
  BY DEF Makes, BuildLabels
<1>6. CInv'
  BY <1>1, <1>3, <1>4, <1>5, KeepsStep DEF InOrder
<1>7. \A q \in Proc : Alone(q)'
  BY AloneOthers DEF InOrder
<1>. QED
  BY <1>2, <1>6, <1>7 DEF SInv

\* temporary.Create and CreateTryLocked make the directory.
LEMMA MakeTmpKeeps ==
  ASSUME IInv, IInv', SInv, NEW p \in Proc, MakeTmp(p)
  PROVE  SInv'
<1>. DEFINE u == Pick(FreshUuids)
            d == Pick(FreshDirs)
            l == IF loc[p].op = "create" THEN "initConfig" ELSE "openTmp"
            r == [loc[p] EXCEPT !.uuid = u]
<1>0. /\ loc[p] \in Local /\ Control(p) /\ LockSets(p) /\ Alone(p) /\ Filled(p) /\ Guarded
  BY DEF SInv, NInv, CInv, IInv, TypeOK
<1>1. /\ u \in Uuid /\ tmp[u] = None /\ (\A q \in Proc : loc[q].uuid # u)
      /\ d \in Dir /\ (\A n \in Name : vms[n] # d) /\ (\A v \in Uuid : tmp[v] # d)
      /\ (\A q \in Proc : d \notin {loc[q].fd, loc[q].target} /\ d \notin excl[q] \cup shrd[q])
  BY FreshDir, FreshUuid DEF MakeTmp
<1>2. /\ pc[p] = "mkTmp" /\ Goto(p, l, r)
      /\ tmp' = [tmp EXCEPT ![u] = d] /\ content' = [content EXCEPT ![d] = EmptyDir]
      /\ displaced' = displaced \ {d} /\ doomed' = doomed \ {d} /\ suspect' = suspect \ {d}
      /\ UNCHANGED <<vms, excl, shrd, lone>>
  BY DEF MakeTmp, Mkdir, lockVars, bounds
<1>3. /\ r \in Local /\ r.uuid = u /\ r.fd = loc[p].fd /\ r.op = loc[p].op /\ r.id = loc[p].id
  BY <1>0, <1>1 DEF Local
<1>4. /\ l \in Label /\ l \in {"initConfig", "openTmp"} /\ l \in BuildLabels
      /\ (l = "initConfig" <=> loc[p].op = "create")
      /\ l \notin PostLock
  BY DEF Label, BuildLabels, PostLock
<1>. HIDE DEF u, d, r, l
<1>5. /\ pc'[p] = l /\ loc'[p] = r
      /\ \A q \in Proc \ {p} : pc'[q] = pc[q] /\ loc'[q] = loc[q]
  BY <1>2, <1>3, <1>4, GotoEffect DEF IInv
<1>6. Makes(p, u, d)
  BY <1>1, <1>2, <1>3, <1>4, <1>5 DEF Makes, Apart, GCLabels
<1>7. tmp'[u] = d /\ content'[d] = EmptyDir /\ Built(p)' = d
  BY <1>1, <1>2, <1>3, <1>5 DEF IInv, TypeOK, Built
<1>8. Private(p)'
  BY <1>3, <1>4, <1>5 DEF Private, PostLock
<1>9. ASSUME NEW q \in Proc PROVE Collects(q, p)'
  BY <1>1, <1>3, <1>4, <1>5 DEF Collects
<1>10. \A v \in Uuid : ~(tmp[v] \in excl[p] \cup shrd[p] /\ tmp[v] \notin displaced)
  BY <1>0, <1>2 DEF Guarded, GCLabels, PostLock
<1>11. LockSets(p)'
  <2>1. excl[p] = {} /\ shrd[p] = IF loc[p].op = "clone" THEN {loc[p].fd} ELSE {}
    BY <1>0, <1>2 DEF LockSets
  <2>. QED
    BY <1>2, <1>3, <1>4, <1>5, <2>1 DEF LockSets, ExclusiveLabels, PostLock
<1>12. Filled(p)' /\ Copied(p)' /\ Dooms(p)'
  <2>1. Filled(p)'
    BY <1>0, <1>2, <1>3, <1>4, <1>5 DEF Filled, PostLock
  <2>2. Copied(p)'
    BY <1>3, <1>4, <1>5, <1>7 DEF Copied
  <2>. QED
    BY <1>4, <1>5, <2>1, <2>2 DEF Dooms
<1>13. Alone(p)'
  BY <1>0, <1>2, <1>4, <1>5 DEF Alone, GCLabels
<1>14. InOrder(p)
  BY <1>11, <1>12, <1>13 DEF InOrder
<1>. QED
  BY <1>1, <1>2, <1>6, <1>8, <1>9, <1>10, <1>14, NewDirKeeps

\* "vetu create" makes the directory again after it has lost it to a collection.
LEMMA RemakeKeeps ==
  ASSUME IInv, IInv', SInv, NEW p \in Proc, pc[p] = "copyIn", Built(p) = None, FreshDirs # {},
         Mkdir(loc[p].uuid, Pick(FreshDirs), [EmptyDir EXCEPT !["disk"] = loc[p].id]),
         suspect' = suspect \cup {Pick(FreshDirs)},
         Goto(p, "writeConfig", loc[p]),
         UNCHANGED <<vms, lockVars, bounds>>
  PROVE  SInv'
<1>. DEFINE d == Pick(FreshDirs)
            c == [EmptyDir EXCEPT !["disk"] = loc[p].id]
<1>0. /\ loc[p] \in Local /\ Control(p) /\ LockSets(p) /\ Private(p) /\ Alone(p) /\ Filled(p)
      /\ Guarded /\ Owned /\ NInv
  BY DEF SInv, NInv, CInv, IInv, TypeOK
<1>1. /\ d \in Dir /\ (\A n \in Name : vms[n] # d) /\ (\A v \in Uuid : tmp[v] # d)
      /\ (\A q \in Proc : d \notin {loc[q].fd, loc[q].target} /\ d \notin excl[q] \cup shrd[q])
  BY FreshDir
<1>2. /\ tmp' = [tmp EXCEPT ![loc[p].uuid] = d] /\ content' = [content EXCEPT ![d] = c]
      /\ displaced' = displaced \ {d} /\ doomed' = doomed \ {d} /\ suspect' = suspect \cup {d}
      /\ UNCHANGED <<vms, excl, shrd, lone>>
  BY DEF Mkdir, lockVars, bounds
<1>. HIDE DEF d, c
<1>3. /\ loc[p].uuid \in Uuid /\ tmp[loc[p].uuid] = None /\ loc[p].op = "create"
      /\ pc[p] \in BuildLabels /\ pc[p] \in PostLock /\ excl[p] = {loc[p].target} /\ shrd[p] = {}
      /\ "writeConfig" \in BuildLabels /\ "writeConfig" \in Label /\ "writeConfig" \in PostLock
  BY <1>0 DEF Control, BuildLabels, PostLock, Label, Built, Private, LockSets
<1>4. /\ pc'[p] = "writeConfig" /\ loc'[p] = loc[p]
      /\ \A q \in Proc \ {p} : pc'[q] = pc[q] /\ loc'[q] = loc[q]
  BY <1>0, <1>3, GotoEffect DEF IInv
<1>5. ASSUME NEW q \in Proc \ {p}, pc[q] \in BuildLabels \cup {"mvRm"} PROVE loc[q].uuid # loc[p].uuid
  BY <1>0, <1>3, <1>5 DEF Owned
<1>6. ASSUME NEW q \in Proc \ {p}, Lost(q) PROVE loc[q].uuid # loc[p].uuid
  BY <1>3, <1>6 DEF Lost
<1>7. Makes(p, loc[p].uuid, d)
  BY <1>1, <1>2, <1>3, <1>4, <1>5, <1>6 DEF Makes, Apart, GCLabels
<1>8. tmp'[loc[p].uuid] = d /\ Built(p)' = d /\ d # loc[p].target
      /\ \A v \in Uuid \ {loc[p].uuid} : tmp'[v] = tmp[v]
  BY <1>1, <1>2, <1>3, <1>4 DEF IInv, TypeOK, Built
<1>9. Private(p)'
  <2>1. /\ loc[p].target \in Dir /\ loc[p].target \notin displaced'
        /\ \A n \in Name : vms'[n] # loc[p].target
        /\ \A v \in Uuid : tmp'[v] = loc[p].target => v = loc[p].uuid
    BY <1>0, <1>2, <1>3, <1>8 DEF Private
  <2>. QED
    BY <1>3, <1>4, <2>1 DEF Private
<1>10. ASSUME NEW q \in Proc PROVE Collects(q, p)'
  <2>1. CASE q = p
    BY <1>4, <2>1 DEF Collects
  <2>2. CASE q # p
    <3>1. Collects(q, p) /\ pc'[q] = pc[q] /\ loc'[q] = loc[q]
      BY <1>0, <1>4, <2>2 DEF NInv
    <3>. QED
      BY <1>3, <1>4, <3>1 DEF Collects
  <2>. QED
    BY <2>1, <2>2
<1>11. \A v \in Uuid : tmp[v] \in excl[p] \cup shrd[p] /\ tmp[v] \notin displaced =>
         pc'[p] \in PostLock /\ loc'[p].uuid = v /\ loc'[p].target = tmp[v]
  BY <1>0, <1>3, <1>4 DEF Guarded, GCLabels
<1>12. LockSets(p)'
  BY <1>2, <1>3, <1>4 DEF LockSets, ExclusiveLabels
<1>13. Filled(p)' /\ Copied(p)' /\ Dooms(p)'
  <2>1. Filled(p)'
    BY <1>0, <1>2, <1>4, <1>8 DEF Filled
  <2>. QED
    BY <1>3, <1>4, <2>1 DEF Copied, Dooms
<1>14. Alone(p)'
  BY <1>0, <1>2, <1>4 DEF Alone, GCLabels
<1>15. InOrder(p)
  BY <1>12, <1>13, <1>14 DEF InOrder
<1>. QED
  BY <1>1, <1>2, <1>3, <1>7, <1>9, <1>10, <1>11, <1>15, NewDirKeeps

\* A command starts.
LEMMA StartKeeps ==
  ASSUME IInv, IInv', SInv, NEW p \in Proc, Start(p)
  PROVE  SInv'
<1>. PICK c \in Commands :
       Goto(p, "gcNext", [Idle EXCEPT !.op = c.op, !.args = c.args, !.dst = c.dst,
                                      !.id = starts + 2,
                                      !.seen = {u \in Uuid : tmp[u] # None}])
  BY DEF Start
<1>. DEFINE S == {u \in Uuid : tmp[u] # None}
            r == [Idle EXCEPT !.op = c.op, !.args = c.args, !.dst = c.dst,
                              !.id = starts + 2, !.seen = S]
<1>0. Goto(p, "gcNext", r) /\ "gcNext" \in Label
  BY DEF Label, GCLabels
<1>1. /\ r.seen = S /\ r.id = starts + 2
  BY DEF Idle
<1>2. starts + 2 # 0
  BY DEF IInv, TypeOK
<1>3. /\ pc[p] = "idle" /\ UNCHANGED <<vms, tmp, content, displaced, doomed, suspect, excl, shrd>>
      /\ lone' = [q \in Proc |-> q = p /\ \A b \in Proc \ {p} : pc[b] = "idle"]
  BY DEF Start, fsVars, lockVars, history
<1>. HIDE DEF r
<1>4. /\ pc'[p] = "gcNext" /\ loc'[p] = r
      /\ \A q \in Proc \ {p} : pc'[q] = pc[q] /\ loc'[q] = loc[q]
  BY <1>0 DEF Goto, IInv, TypeOK
<1>5. NInv /\ CInv /\ excl[p] = {} /\ shrd[p] = {}
  BY <1>3 DEF SInv, NInv, LockSets
<1>6. Calm(p)
  BY <1>3, <1>4 DEF Calm, Apart
<1>7. Turns(p)
  BY <1>3, <1>4, <1>5 DEF Turns, Builds, Sweeps, Takes, BuildLabels, PostLock
<1>8. LockSets(p)'
  BY <1>3, <1>4, <1>5 DEF LockSets, ExclusiveLabels, BuildLabels, PostLock
<1>9. NInv'
  BY <1>5, <1>6, <1>7, <1>8, CalmStep
<1>10. Filled(p)' /\ Copied(p)' /\ Dooms(p)'
  BY <1>1, <1>2, <1>4 DEF Filled, Copied, Dooms, PostLock, BuildLabels
<1>11. Keeps(p)
  BY <1>3, StillKeeps
<1>12. ASSUME NEW q \in Proc \ {p}, pc[q] \in BuildLabels PROVE Built(q)' \in {Built(q), None}
  BY <1>3, <1>4, <1>12 DEF Built
<1>13. CInv'
  BY <1>5, <1>6, <1>7, <1>10, <1>11, <1>12, KeepsStep DEF Calm, Turns
<1>14. ASSUME NEW q \in Proc PROVE Alone(q)'
  BY <1>1, <1>3, <1>4, <1>14 DEF Alone, GCLabels
<1>. QED
  BY <1>9, <1>13, <1>14 DEF SInv

---------------------------------------------------------------------------
(* The theorems.                                                           *)

\* SInv holds at first.
LEMMA InitSInv == Init => SInv
<1>. SUFFICES ASSUME Init PROVE SInv
  OBVIOUS
<1>1. /\ \A p \in Proc : pc[p] = "idle" /\ excl[p] = {} /\ shrd[p] = {} /\ loc[p] = Idle
      /\ \A u \in Uuid : tmp[u] = None
      /\ displaced = {} /\ doomed = {} /\ suspect = {}
      /\ \A p \in Proc : ~lone[p]
      /\ vms \in InitialVMs
  BY DEF Init
<1>2. /\ vms \in [Name -> Dir \cup {None}]
      /\ \A m, n \in Name : vms[m] = vms[n] => m = n \/ vms[m] = None
  BY <1>1, ConstantsAssumption
<1>3. Unique /\ Owned /\ Replaced
  BY <1>1, <1>2 DEF Unique, Owned, Replaced, BuildLabels
<1>4. Guarded
  BY <1>1 DEF Guarded
<1>5. ASSUME NEW p \in Proc PROVE LockSets(p) /\ Private(p) /\ Aims(p)
  BY <1>1 DEF LockSets, Private, Aims, PostLock, BuildLabels, ExclusiveLabels
<1>6. ASSUME NEW p \in Proc, NEW b \in Proc PROVE Collects(p, b)
  BY <1>1 DEF Collects
<1>7. NInv
  BY <1>3, <1>4, <1>5, <1>6 DEF NInv
<1>8. PublishedComplete
  <2>. SUFFICES ASSUME NEW n \in Name, vms[n] # None PROVE \A f \in File : content[vms[n]][f] # 0
    BY DEF PublishedComplete, Complete, Present
  <2>1. vms[n] \in Dir
    BY <1>2
  <2>. QED
    BY <2>1 DEF Init
<1>9. ASSUME NEW p \in Proc PROVE Filled(p) /\ Copied(p) /\ Reaches(p) /\ Dooms(p) /\ Alone(p)
  BY <1>1 DEF Filled, Copied, Reaches, Dooms, Alone, PostLock, BuildLabels
<1>. QED
  BY <1>7, <1>8, <1>9 DEF SInv, CInv

\* Every step of a command keeps SInv.
LEMMA StepSInv ==
  ASSUME IInv, IInv', SInv, NEW p \in Proc, Start(p) \/ Step(p) \/ Crash(p)
  PROVE  SInv'
<1>1. ASSUME Build(p) PROVE SInv'
  <2>1. CASE CopyIn(p)
    <3>1. pc[p] = "copyIn"
      BY <2>1 DEF CopyIn
    <3>. QED
      BY <2>1, <3>1, FailKeeps, FillKeeps, RemakeKeeps DEF CopyIn
  <2>. QED
    BY <1>1, <2>1, MakeTmpKeeps, FillKeeps DEF Build
<1>. QED
  BY <1>1, StartKeeps, CrashKeeps, GCKeeps, SetKeeps, RunKeeps, PushKeeps, OpenKeeps, RemoveKeeps,
     MoveInKeeps DEF Step, Push

\* Nothing happens: SInv stays.
LEMMA StutterSInv == SInv /\ UNCHANGED vars => SInv'
<1>. SUFFICES ASSUME SInv, UNCHANGED vars PROVE SInv'
  OBVIOUS
<1>1. UNCHANGED <<vms, tmp, content, excl, shrd, pc, loc, lone, displaced, doomed, suspect>>
  BY DEF vars, fsVars, lockVars, bounds, history
<1>2. NInv'
  <2>1. Unique' /\ Owned' /\ Replaced' /\ Guarded'
    BY <1>1 DEF SInv, NInv, Unique, Owned, Replaced, Guarded, Built
  <2>2. ASSUME NEW p \in Proc PROVE LockSets(p)' /\ Private(p)' /\ Aims(p)'
    <3>1. LockSets(p) /\ Private(p) /\ Aims(p)
      BY DEF SInv, NInv
    <3>. QED
      BY <1>1, <3>1 DEF LockSets, Private, Aims, Lost, Built
  <2>3. ASSUME NEW p \in Proc, NEW b \in Proc PROVE Collects(p, b)'
    <3>1. Collects(p, b)
      BY DEF SInv, NInv
    <3>. QED
      BY <1>1, <3>1 DEF Collects, Built
  <2>. QED
    BY <2>1, <2>2, <2>3 DEF NInv
<1>3. CInv'
  BY <1>1 DEF SInv, CInv, PublishedComplete, Complete, Present, Filled, Copied, Reaches, Dooms, Built
<1>4. \A p \in Proc : Alone(p)'
  BY <1>1 DEF SInv, Alone
<1>. QED
  BY <1>2, <1>3, <1>4 DEF SInv

---------------------------------------------------------------------------
(* The theorems.                                                           *)

\* SInv is an invariant, on top of the one of LocalStorageProofs.
THEOREM SInvariance == Spec => []SInv
<1>1. IInv /\ IInv' /\ SInv /\ [Next]_vars => SInv'
  <2>. SUFFICES ASSUME IInv, IInv', SInv, [Next]_vars PROVE SInv'
    OBVIOUS
  <2>1. ASSUME NEW p \in Proc, Start(p) \/ Step(p) \/ Crash(p) PROVE SInv'
    BY <2>1, StepSInv
  <2>2. ASSUME UNCHANGED vars PROVE SInv'
    BY <2>2, StutterSInv
  <2>. QED
    BY <2>1, <2>2 DEF Next, Quiet
<1>. QED
  BY <1>1, InitSInv, Invariance, PTL DEF Spec

\* temporary.GC empties no directory that a command of another process has
\* locked, but one that a MoveIn replaced.
THEOREM GCSparesLockedAlways == Spec => []GCSparesLocked
<1>1. IInv /\ SInv => GCSparesLocked
  <2>. SUFFICES ASSUME IInv, SInv, NEW p \in Proc, NEW q \in Proc, p # q, pc[p] = "gcRm",
                       loc[p].target \in excl[q] \cup shrd[q], loc[p].target \notin displaced
                PROVE  pc[q] \in GCLabels
    BY DEF GCSparesLocked
  <2>1. excl[p] = {loc[p].fd}
    BY DEF SInv, NInv, LockSets
  <2>2. loc[p].target # loc[p].fd
    BY <2>1 DEF IInv, Flocks
  <2>3. Lost(p)
    BY <2>2 DEF SInv, NInv, Aims
  <2>. QED
    BY <2>3 DEF Lost
<1>. QED
  BY <1>1, Invariance, SInvariance, PTL

\* What is reachable under vms/ is complete, until a delete of it begins.
THEOREM PublishedCompleteAlways == Spec => []PublishedComplete
<1>1. SInv => PublishedComplete
  BY DEF SInv, CInv
<1>. QED
  BY <1>1, SInvariance, PTL

\* What a clone is about to move in is file by file what its locked source holds.
THEOREM CloneIntactAlways == Spec => []CloneIntact
<1>1. SInv => CloneIntact
  BY DEF SInv, CInv, Copied, CloneIntact, BuildLabels
<1>. QED
  BY <1>1, SInvariance, PTL

\* A command that starts while no other runs collects all of tmp/ before it does
\* its own work.
THEOREM LoneGCCollectsAllAlways == Spec => []LoneGCCollectsAll
<1>1. SInv => LoneGCCollectsAll
  BY DEF SInv, Alone, LoneGCCollectsAll
<1>. QED
  BY <1>1, SInvariance, PTL

===========================================================================
