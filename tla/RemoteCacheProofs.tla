------------------------ MODULE RemoteCacheProofs ------------------------
(* Proofs about RemoteCache for any number of processes, tags and digests,  *)
(* any set of command lines and any number of crashes.                      *)
EXTENDS RemoteCache, TLAPS

---------------------------------------------------------------------------
(* The inductive invariant.                                                *)

\* A process that collects or deletes, and so has the global lock.
GlobalLabels == GCLabels \cup {"delTag", "delRm"}

\* Which command a process can be running, given where it is.
OpAt(p) ==
  /\ pc[p] # "idle" => loc[p].op \in Op
  /\ loc[p].op = "push" => loc[p].args \subseteq Tag
  /\ pc[p] = "push" => loc[p].op = "push"
  /\ pc[p] \in {"delete", "delTag", "delRm"} => loc[p].op = "delete"
  /\ pc[p] = "checkSrc" => loc[p].op = "clone"
  /\ pc[p] \in {"lockReg", "manifest", "check", "download", "checkTag", "mark", "pulled"} =>
       loc[p].op \in {"pull", "clone"}
  /\ pc[p] \in {"rename", "rmTag", "mkTag"} => loc[p].op \in {"pull", "clone", "push"}

\* What its local variables hold there.
Names(p) ==
  /\ pc[p] \in {"lockReg", "manifest", "check", "download", "rename", "pulled", "checkSrc",
                "openSrc"} => loc[p].ref \in Tag \cup Digest
  /\ pc[p] \in {"checkTag", "rmTag", "mkTag", "delTag", "push"} => loc[p].ref \in Tag
  /\ pc[p] = "rename" /\ loc[p].op = "push" => loc[p].ref \in Tag
  /\ pc[p] = "mark" => loc[p].ref \in Digest
  /\ pc[p] \in {"check", "download", "rename", "checkTag", "rmTag", "mkTag", "mark", "pulled",
                "gcStat", "gcUnlink", "gcRm", "delRm", "readSrc", "copySrc"} =>
       loc[p].dig \in Digest
  /\ pc[p] \in {"check", "download", "rename", "mark", "pulled"} /\ loc[p].ref \in Digest =>
       loc[p].dig = loc[p].ref
  /\ pc[p] \in {"gcStat", "gcUnlink"} => loc[p].cur \in Tag

\* What a pull has downloaded so far.
Downloaded(p) ==
  /\ pc[p] = "rename" => loc[p].got \in {Image, {"config"}}
  /\ /\ loc[p].op \in {"pull", "clone"}
     /\ pc[p] \notin {"rename", "rmTag", "mkTag", "pulled", "openSrc", "readSrc", "copySrc"}
     => loc[p].got = {}

\* The locks that go with the place.
Locks(p) ==
  /\ pc[p] \in GlobalLabels => glock = p
  /\ pc[p] \in PullLabels \cup {"pulled"} /\ loc[p].op # "push" => rlock = p

\* A directory that is being removed is there, and known to be damaged; a
\* collection goes on to directories that are there.
Removing(p) ==
  /\ pc[p] \in {"gcRm", "delRm"} => loc[p].dig \in exists /\ loc[p].dig \in damaged
  /\ pc[p] \in GCLabels => loc[p].managed \subseteq exists
  /\ pc[p] = "gcRm" => loc[p].dig \notin loc[p].managed

\* A collection has counted, or has yet to visit, every link that is not newer
\* than its listing.
Counted(p) ==
  pc[p] \in GCLabels =>
    \A t \in Tag :
      \/ tags[t] = None
      \/ t \in written
      \/ t \in loc[p].seen
      \/ tags[t] \in loc[p].refs
      \/ pc[p] = "gcStat" /\ tags[t] = loc[p].dig

\* The part of GCSparesReferenced about one process.
Spares(p) ==
  pc[p] = "gcRm" =>
    /\ \A t \in Tag : tags[t] = loc[p].dig => t \in written
    /\ Mark \in files[loc[p].dig] => loc[p].dig \in written

\* What a pull or a push publishes.
Publishes(p) ==
  /\ pc[p] = "rename" /\ loc[p].got # Image => loc[p].dig \in exists \cup damaged
  /\ pc[p] \in {"rename", "rmTag", "mkTag"} /\ loc[p].op = "push" => loc[p].dig \in populated
  /\ pc[p] \in {"download", "rename"} /\ loc[p].op # "push" =>
       loc[p].dig \notin exists \/ loc[p].dig \in populated
  /\ pc[p] = "mkTag" /\ loc[p].op # "push" =>
       tags[loc[p].ref] = None \/ tags[loc[p].ref] \in populated

\* A pull that nobody has interfered with has its image in the cache from the
\* moment it found it there or put it there.
Delivers(p) ==
  loc[p].op # "push" /\ p \notin raced =>
    /\ pc[p] \in {"checkTag", "rmTag", "mkTag", "mark"} => loc[p].dig \in exists
    /\ pc[p] = "pulled" => Exists(loc[p].ref)
    /\ pc[p] = "pulled" /\ loc[p].got # {} => Target(loc[p].ref) = loc[p].dig

Control(p) ==
  /\ OpAt(p) /\ Names(p) /\ Downloaded(p) /\ Locks(p) /\ Removing(p) /\ Counted(p) /\ Spares(p)
  /\ Publishes(p) /\ Delivers(p)

IInv == TypeOK /\ CacheWhole /\ \A p \in Proc : Control(p)

---------------------------------------------------------------------------
(* Facts that every step needs.                                            *)

\* None is nobody and nothing, and no name is both a tag and a digest.
LEMMA NoneIsNothing ==
  None \notin Proc /\ None \notin Tag /\ None \notin Digest /\ Tag \cap Digest = {}
BY ConstantsAssumption

\* The local state of an idle process is well typed.
LEMMA IdleType == Idle \in Local
BY DEF Idle, Local

\* What Goto(p, l, r) does to the process that takes the step and to the others.
LEMMA GotoEffect ==
  ASSUME TypeOK, NEW p \in Proc, NEW l \in Label, NEW r \in Local, Goto(p, l, r)
  PROVE  /\ pc' \in [Proc -> Label]
         /\ loc' \in [Proc -> Local]
         /\ pc'[p] = l
         /\ loc'[p] = r
         /\ \A q \in Proc \ {p} : pc'[q] = pc[q] /\ loc'[q] = loc[q]
BY DEF TypeOK, Goto

\* A process that a step of another one leaves alone keeps its Control, if its
\* locks stay with it and the parts about the shared state are preserved.
LEMMA Frame ==
  ASSUME NEW q \in Proc, Control(q), pc'[q] = pc[q], loc'[q] = loc[q],
         glock = q => glock' = q, rlock = q => rlock' = q,
         Removing(q)', Counted(q)', Spares(q)', Publishes(q)', Delivers(q)'
  PROVE  Control(q)'
<1>1. OpAt(q)'
  BY DEF Control, OpAt
<1>2. Names(q)'
  BY DEF Control, Names
<1>3. Downloaded(q)'
  BY DEF Control, Downloaded
<1>4. Locks(q)'
  BY DEF Control, Locks
<1>. QED
  BY <1>1, <1>2, <1>3, <1>4 DEF Control

\* In particular if the step changes neither the cache nor a history.
LEMMA QuietFrame ==
  ASSUME NEW q \in Proc, Control(q), pc'[q] = pc[q], loc'[q] = loc[q],
         glock = q => glock' = q, rlock = q => rlock' = q,
         UNCHANGED <<fsVars, history>>
  PROVE  Control(q)'
<1>. USE DEF fsVars, history, Control
<1>1. Removing(q)'
  BY DEF Removing
<1>2. Counted(q)'
  BY DEF Counted
<1>3. Spares(q)'
  BY DEF Spares
<1>4. Publishes(q)'
  BY DEF Publishes
<1>5. Delivers(q)'
  BY DEF Delivers, Exists, Target
<1>. QED
  BY <1>1, <1>2, <1>3, <1>4, <1>5, Frame

\* The end of a process, and an idle one is in order.
LEMMA ExitEffect ==
  ASSUME TypeOK, NEW p \in Proc, Exit(p)
  PROVE  /\ pc' \in [Proc -> Label] /\ loc' \in [Proc -> Local]
         /\ glock' \in Proc \cup {None} /\ rlock' \in Proc \cup {None}
         /\ dlock' \in [Digest -> Proc \cup {None}]
         /\ Control(p)'
         /\ \A q \in Proc \ {p} : /\ pc'[q] = pc[q] /\ loc'[q] = loc[q]
                                  /\ glock = q => glock' = q
                                  /\ rlock = q => rlock' = q
<1>1. "idle" \in Label
  BY DEF Label
<1>2. /\ pc' \in [Proc -> Label] /\ loc' \in [Proc -> Local]
      /\ pc'[p] = "idle" /\ loc'[p] = Idle
      /\ \A q \in Proc \ {p} : pc'[q] = pc[q] /\ loc'[q] = loc[q]
  BY <1>1, IdleType, GotoEffect DEF Exit
<1>3. /\ glock' \in Proc \cup {None} /\ rlock' \in Proc \cup {None}
      /\ dlock' \in [Digest -> Proc \cup {None}]
      /\ \A q \in Proc \ {p} : (glock = q => glock' = q) /\ (rlock = q => rlock' = q)
  BY DEF TypeOK, Exit, Release
<1>4. OpAt(p)' /\ Names(p)' /\ Downloaded(p)'
  BY <1>2 DEF OpAt, Names, Downloaded, Idle
<1>5. Locks(p)' /\ Removing(p)' /\ Counted(p)' /\ Spares(p)'
  BY <1>2 DEF Locks, Removing, Counted, Spares, GlobalLabels, GCLabels, PullLabels
<1>6. Publishes(p)' /\ Delivers(p)'
  BY <1>2 DEF Publishes, Delivers
<1>. QED
  BY <1>2, <1>3, <1>4, <1>5, <1>6 DEF Control

\* An error return preserves the invariant.
LEMMA FailStep ==
  ASSUME IInv, NEW p \in Proc, Fail(p)
  PROVE  IInv'
<1>1. Exit(p) /\ UNCHANGED <<fsVars, registry, bounds, history>> /\ TypeOK
  BY DEF Fail, IInv
<1>2. TypeOK'
  BY <1>1, ExitEffect DEF TypeOK, fsVars, history, bounds
<1>3. CacheWhole'
  BY <1>1 DEF IInv, CacheWhole, fsVars, history
<1>4. ASSUME NEW q \in Proc \ {p} PROVE Control(q)'
  BY <1>1, ExitEffect, QuietFrame DEF IInv
<1>. QED
  BY <1>1, <1>2, <1>3, <1>4, ExitEffect DEF IInv

\* So does a step that changes nothing but its process, if it leaves the process
\* in order.
LEMMA ContinueStep ==
  ASSUME IInv, NEW p \in Proc, NEW l \in Label, NEW r \in Local, Continue(p, l, r),
         Control(p)'
  PROVE  IInv'
<1>1. /\ Goto(p, l, r) /\ TypeOK
      /\ UNCHANGED <<fsVars, registry, glock, rlock, dlock, bounds, history>>
  BY DEF Continue, IInv, lockVars
<1>2. TypeOK'
  BY <1>1, GotoEffect DEF TypeOK, fsVars, history, bounds
<1>3. CacheWhole'
  BY <1>1 DEF IInv, CacheWhole, fsVars, history
<1>4. ASSUME NEW q \in Proc \ {p} PROVE Control(q)'
  BY <1>1, GotoEffect, QuietFrame DEF IInv
<1>. QED
  BY <1>1, <1>2, <1>3, <1>4 DEF IInv

\* runDelete goes on, or ends.
LEMMA DeleteNextStep ==
  ASSUME IInv, NEW p \in Proc, pc[p] \in GlobalLabels, loc[p].op = "delete", DeleteNext(p)
  PROVE  IInv'
<1>1. CASE Continue(p, "delete", loc[p])
  <2>1. "delete" \in Label /\ loc[p] \in Local /\ TypeOK /\ Control(p)
    BY DEF Label, IInv, TypeOK
  <2>2. pc'[p] = "delete" /\ loc'[p] = loc[p]
    BY <1>1, <2>1, GotoEffect DEF Continue
  <2>3. Control(p)'
    BY <2>1, <2>2
       DEF Control, OpAt, Names, Downloaded, Locks, Removing, Counted, Spares, Publishes, Delivers,
           Op, GlobalLabels, GCLabels, PullLabels
  <2>. QED
    BY <1>1, <2>1, <2>3, ContinueStep
<1>2. CASE Fail(p)
  BY <1>2, FailStep
<1>. QED
  BY <1>1, <1>2 DEF DeleteNext

\* remote.GC gives up.
LEMMA GCFailStep ==
  ASSUME IInv, NEW p \in Proc, pc[p] \in GCLabels, GCFail(p)
  PROVE  IInv'
BY FailStep, DeleteNextStep DEF GCFail, InDelete, GlobalLabels

---------------------------------------------------------------------------
(* One lemma per group of actions.                                         *)

\* The walk of a collection: listing, Readlink and Lstat of each link.
LEMMA GCWalkSteps ==
  ASSUME IInv, NEW p \in Proc, GCList(p) \/ GCVisit(p) \/ GCStat(p)
  PROVE  IInv'
<1>. USE NoneIsNothing
<1>0. loc[p] \in Local /\ TypeOK /\ Control(p)
  BY DEF IInv, TypeOK
<1>1. CASE GCList(p)
  <2>. DEFINE r == [loc[p] EXCEPT !.seen = {t \in Tag : tags[t] # None}, !.refs = {},
                                  !.managed = exists]
  <2>1. /\ "gcVisit" \in Label /\ r \in Local
        /\ r.op = loc[p].op /\ r.args = loc[p].args /\ r.got = loc[p].got
        /\ r.seen = {t \in Tag : tags[t] # None} /\ r.managed = exists
    BY <1>0 DEF Label, GCLabels, Local, TypeOK
  <2>2. /\ pc[p] = "gcList" /\ glock \in {None, p} /\ glock' = p /\ written' = {}
        /\ Goto(p, "gcVisit", r)
        /\ UNCHANGED <<fsVars, registry, rlock, dlock, bounds, damaged, raced, populated>>
    BY <1>1 DEF GCList
  <2>. HIDE DEF r
  <2>3. /\ pc' \in [Proc -> Label] /\ loc' \in [Proc -> Local]
        /\ pc'[p] = "gcVisit" /\ loc'[p] = r
        /\ \A q \in Proc \ {p} : pc'[q] = pc[q] /\ loc'[q] = loc[q]
    BY <1>0, <2>1, <2>2, GotoEffect
  <2>4. TypeOK'
    BY <1>0, <2>2, <2>3 DEF TypeOK, fsVars, bounds
  <2>5. CacheWhole'
    BY <2>2 DEF IInv, CacheWhole, fsVars
  <2>6. Control(p)'
    BY <1>0, <2>1, <2>2, <2>3
       DEF Control, OpAt, Names, Downloaded, Locks, Removing, Counted, Spares, Publishes, Delivers,
           fsVars, GlobalLabels, GCLabels, PullLabels
  <2>7. ASSUME NEW q \in Proc \ {p} PROVE Control(q)'
    <3>1. Control(q) /\ glock # q /\ pc[q] \notin GlobalLabels
      BY <2>2 DEF IInv, Control, Locks
    <3>2. Removing(q)' /\ Counted(q)' /\ Spares(q)'
      BY <2>3, <3>1 DEF Removing, Counted, Spares, GlobalLabels, GCLabels
    <3>3. Publishes(q)' /\ Delivers(q)'
      BY <2>2, <2>3, <3>1 DEF Control, Publishes, Delivers, Exists, Target, fsVars
    <3>. QED
      BY <2>2, <2>3, <3>1, <3>2, <3>3, Frame
  <2>. QED
    BY <2>4, <2>5, <2>6, <2>7 DEF IInv
<1>2. CASE GCVisit(p)
  <2>. PICK t \in loc[p].seen :
         IF tags[t] = None
         THEN GCFail(p)
         ELSE Continue(p, "gcStat", [loc[p] EXCEPT !.seen = loc[p].seen \ {t}, !.cur = t,
                                                   !.dig = tags[t]])
    BY <1>2 DEF GCVisit
  <2>1. pc[p] = "gcVisit" /\ t \in Tag
    BY <1>0, <1>2 DEF GCVisit, Local
  <2>2. CASE tags[t] = None
    BY <2>1, <2>2, GCFailStep DEF GCLabels
  <2>3. CASE tags[t] # None
    <3>. DEFINE r == [loc[p] EXCEPT !.seen = loc[p].seen \ {t}, !.cur = t, !.dig = tags[t]]
    <3>1. tags[t] \in Digest
      BY <1>0, <2>1, <2>3 DEF TypeOK
    <3>2. /\ "gcStat" \in Label /\ r \in Local
          /\ r.op = loc[p].op /\ r.args = loc[p].args /\ r.got = loc[p].got
          /\ r.seen = loc[p].seen \ {t} /\ r.cur = t /\ r.dig = tags[t]
          /\ r.managed = loc[p].managed /\ r.refs = loc[p].refs
      BY <1>0, <2>1, <3>1 DEF Label, GCLabels, Local
    <3>3. Continue(p, "gcStat", r)
      BY <2>3
    <3>. HIDE DEF r
    <3>4. /\ pc'[p] = "gcStat" /\ loc'[p] = r /\ UNCHANGED <<fsVars, lockVars, history>>
      BY <1>0, <3>2, <3>3, GotoEffect DEF Continue
    <3>5. Control(p)'
      BY <1>0, <2>1, <3>1, <3>2, <3>4
         DEF Control, OpAt, Names, Downloaded, Locks, Removing, Counted, Spares, Publishes, Delivers,
             fsVars, lockVars, history, GlobalLabels, GCLabels, PullLabels
    <3>. QED
      BY <3>2, <3>3, <3>5, ContinueStep
  <2>. QED
    BY <2>2, <2>3
<1>3. CASE GCStat(p)
  <2>. DEFINE l == IF loc[p].dig \in exists THEN "gcVisit" ELSE "gcUnlink"
              r == [loc[p] EXCEPT !.refs = loc[p].refs \cup {loc[p].dig}]
  <2>1. pc[p] = "gcStat" /\ loc[p].dig \in Digest /\ Continue(p, l, r)
    BY <1>0, <1>3 DEF GCStat, Control, Names
  <2>2. /\ l \in {"gcVisit", "gcUnlink"} /\ l \in Label /\ r \in Local
        /\ r.op = loc[p].op /\ r.args = loc[p].args /\ r.got = loc[p].got
        /\ r.seen = loc[p].seen /\ r.cur = loc[p].cur /\ r.dig = loc[p].dig
        /\ r.managed = loc[p].managed /\ r.refs = loc[p].refs \cup {loc[p].dig}
    BY <1>0, <2>1 DEF Label, GCLabels, Local
  <2>. HIDE DEF l, r
  <2>3. /\ pc'[p] = l /\ loc'[p] = r /\ UNCHANGED <<fsVars, lockVars, history>>
    BY <1>0, <2>1, <2>2, GotoEffect DEF Continue
  <2>4. Control(p)'
    BY <1>0, <2>1, <2>2, <2>3
       DEF Control, OpAt, Names, Downloaded, Locks, Removing, Counted, Spares, Publishes, Delivers,
           fsVars, lockVars, history, GlobalLabels, GCLabels, PullLabels
  <2>. QED
    BY <2>1, <2>2, <2>4, ContinueStep
<1>. QED
  BY <1>1, <1>2, <1>3

\* A removal of links or files, and the beginning of one, leave the others in
\* order, if the pulls in progress are noted when a link or a directory may be
\* missed.
LEMMA HarmFrame ==
  ASSUME TypeOK, NEW q \in Proc, Control(q), pc'[q] = pc[q], loc'[q] = loc[q],
         UNCHANGED <<exists, glock, rlock, written, populated>>,
         \A t \in Tag : tags'[t] \in {tags[t], None},
         \A d \in Digest : files'[d] \subseteq files[d],
         damaged \subseteq damaged', raced \subseteq raced',
         tags' = tags \/ (q \in Pulling => q \in raced')
  PROVE  Control(q)'
<1>. USE NoneIsNothing
<1>1. Removing(q)'
  BY DEF Control, Removing
<1>2. Counted(q)'
  BY DEF Control, Counted
<1>3. Spares(q)'
  BY DEF Control, Spares, Names, TypeOK
<1>4. Publishes(q)'
  BY DEF Control, Publishes, Names
<1>5. Delivers(q)'
  BY DEF Control, Delivers, Exists, Target, Pulling, PullLabels
<1>. QED
  BY <1>1, <1>2, <1>3, <1>4, <1>5, Frame

\* Removing a directory, which takes the global lock, leaves the others in order.
LEMMA RmdirFrame ==
  ASSUME TypeOK, NEW p \in Proc, NEW q \in Proc \ {p}, Control(p), Control(q),
         pc[p] \in {"gcRm", "delRm"}, Rmdir(p), pc'[q] = pc[q], loc'[q] = loc[q]
  PROVE  Control(q)'
<1>1. /\ exists' = exists \ {loc[p].dig}
      /\ raced' = raced \cup Pulling
      /\ UNCHANGED <<files, tags, glock, rlock, written, damaged, populated>>
  BY DEF Rmdir
<1>2. glock = p /\ loc[p].dig \in damaged
  BY DEF Control, Locks, GlobalLabels, GCLabels, Removing
<1>3. pc[q] \notin GlobalLabels
  BY <1>2 DEF Control, Locks
<1>4. Removing(q)' /\ Counted(q)' /\ Spares(q)'
  BY <1>3 DEF Removing, Counted, Spares, GlobalLabels, GCLabels
<1>5. Publishes(q)'
  BY <1>1, <1>2 DEF Control, Publishes
<1>6. Delivers(q)'
  BY <1>1 DEF Control, Delivers, Pulling, PullLabels
<1>. QED
  BY <1>1, <1>4, <1>5, <1>6, Frame

\* The removals of a collection: broken links, then directories.
LEMMA GCRemoveSteps ==
  ASSUME IInv, NEW p \in Proc, GCUnlink(p) \/ GCPick(p) \/ GCRmdir(p)
  PROVE  IInv'
<1>. USE NoneIsNothing
<1>0. loc[p] \in Local /\ TypeOK /\ Control(p)
  BY DEF IInv, TypeOK
<1>1. CASE GCUnlink(p)
  <2>1. pc[p] = "gcUnlink" /\ loc[p].cur \in Tag
    BY <1>0, <1>1 DEF GCUnlink, Control, Names
  <2>2. CASE tags[loc[p].cur] = None
    BY <1>1, <2>1, <2>2, GCFailStep DEF GCUnlink, GCLabels
  <2>3. CASE tags[loc[p].cur] # None
    <3>1. /\ tags' = [tags EXCEPT ![loc[p].cur] = None]
          /\ raced' = raced \cup Pulling
          /\ Goto(p, "gcVisit", loc[p])
          /\ UNCHANGED <<exists, files, registry, glock, rlock, dlock, bounds, written, damaged,
                         populated>>
      BY <1>1, <2>3 DEF GCUnlink, lockVars
    <3>2. "gcVisit" \in Label
      BY DEF Label, GCLabels
    <3>3. /\ pc' \in [Proc -> Label] /\ loc' \in [Proc -> Local]
          /\ pc'[p] = "gcVisit" /\ loc'[p] = loc[p]
          /\ \A q \in Proc \ {p} : pc'[q] = pc[q] /\ loc'[q] = loc[q]
      BY <1>0, <3>1, <3>2, GotoEffect
    <3>4. TypeOK'
      BY <1>0, <2>1, <3>1, <3>3 DEF TypeOK, bounds, Pulling
    <3>5. CacheWhole'
      BY <3>1 DEF IInv, CacheWhole
    <3>6. Control(p)'
      BY <1>0, <2>1, <3>1, <3>3
         DEF TypeOK, Control, OpAt, Names, Downloaded, Locks, Removing, Counted, Spares, Publishes,
             Delivers, GlobalLabels, GCLabels, PullLabels
    <3>7. ASSUME NEW q \in Proc \ {p} PROVE Control(q)'
      BY <1>0, <3>1, <3>3, HarmFrame DEF IInv, TypeOK
    <3>. QED
      BY <3>4, <3>5, <3>6, <3>7 DEF IInv
  <2>. QED
    BY <2>2, <2>3
<1>2. CASE GCPick(p)
  <2>. PICK d \in loc[p].managed :
         LET rest == [loc[p] EXCEPT !.managed = loc[p].managed \ {d}]
         IN IF d \in loc[p].refs \/ Mark \in files[d]
            THEN Continue(p, "gcPick", rest)
            ELSE /\ Goto(p, "gcRm", [rest EXCEPT !.dig = d, !.todo = files[d]])
                 /\ damaged' = damaged \cup {d}
                 /\ raced' = raced \cup Pulling
                 /\ UNCHANGED <<fsVars, registry, lockVars, bounds, written, populated>>
    BY <1>2 DEF GCPick
  <2>1. /\ pc[p] \in {"gcVisit", "gcPick"} /\ loc[p].seen = {}
        /\ d \in Digest /\ d \in exists /\ files[d] \subseteq File
    BY <1>0, <1>2 DEF GCPick, Local, Control, Removing, GCLabels, TypeOK
  <2>. DEFINE rest == [loc[p] EXCEPT !.managed = loc[p].managed \ {d}]
              r == [rest EXCEPT !.dig = d, !.todo = files[d]]
  <2>2. CASE d \in loc[p].refs \/ Mark \in files[d]
    <3>1. /\ "gcPick" \in Label /\ rest \in Local
          /\ rest.op = loc[p].op /\ rest.args = loc[p].args /\ rest.got = loc[p].got
          /\ rest.seen = loc[p].seen /\ rest.refs = loc[p].refs
          /\ rest.managed = loc[p].managed \ {d}
      BY <1>0, <2>1 DEF Label, GCLabels, Local
    <3>2. Continue(p, "gcPick", rest)
      BY <2>2
    <3>. HIDE DEF rest
    <3>3. /\ pc'[p] = "gcPick" /\ loc'[p] = rest /\ UNCHANGED <<fsVars, lockVars, history>>
      BY <1>0, <3>1, <3>2, GotoEffect DEF Continue
    <3>4. Control(p)'
      BY <1>0, <2>1, <3>1, <3>3
         DEF Control, OpAt, Names, Downloaded, Locks, Removing, Counted, Spares, Publishes, Delivers,
             fsVars, lockVars, history, GlobalLabels, GCLabels, PullLabels
    <3>. QED
      BY <3>1, <3>2, <3>4, ContinueStep
  <2>3. CASE ~(d \in loc[p].refs \/ Mark \in files[d])
    <3>1. /\ "gcRm" \in Label /\ r \in Local
          /\ r.op = loc[p].op /\ r.args = loc[p].args /\ r.got = loc[p].got
          /\ r.seen = loc[p].seen /\ r.refs = loc[p].refs
          /\ r.managed = loc[p].managed \ {d} /\ r.dig = d
      BY <1>0, <2>1 DEF Label, GCLabels, Local
    <3>2. /\ Goto(p, "gcRm", r)
          /\ damaged' = damaged \cup {d}
          /\ raced' = raced \cup Pulling
          /\ UNCHANGED <<exists, files, tags, registry, glock, rlock, dlock, bounds, written, populated>>
      BY <2>3 DEF fsVars, lockVars
    <3>. HIDE DEF r
    <3>3. /\ pc' \in [Proc -> Label] /\ loc' \in [Proc -> Local]
          /\ pc'[p] = "gcRm" /\ loc'[p] = r
          /\ \A q \in Proc \ {p} : pc'[q] = pc[q] /\ loc'[q] = loc[q]
      BY <1>0, <3>1, <3>2, GotoEffect
    <3>4. TypeOK'
      BY <1>0, <2>1, <3>2, <3>3 DEF TypeOK, bounds, Pulling
    <3>5. CacheWhole'
      BY <3>2 DEF IInv, CacheWhole
    <3>6. Control(p)'
      BY <1>0, <2>1, <2>3, <3>1, <3>2, <3>3
         DEF TypeOK, Control, OpAt, Names, Downloaded, Locks, Removing, Counted, Spares, Publishes,
             Delivers, GlobalLabels, GCLabels, PullLabels
    <3>7. ASSUME NEW q \in Proc \ {p} PROVE Control(q)'
      BY <1>0, <3>2, <3>3, HarmFrame DEF IInv, TypeOK
    <3>. QED
      BY <3>4, <3>5, <3>6, <3>7 DEF IInv
  <2>. QED
    BY <2>2, <2>3
<1>3. CASE GCRmdir(p)
  <2>1. pc[p] = "gcRm" /\ loc[p].dig \in Digest
    BY <1>0, <1>3 DEF GCRmdir, Control, Names
  <2>2. CASE Rmdir(p) /\ Goto(p, "gcPick", loc[p])
    <3>1. "gcPick" \in Label
      BY DEF Label, GCLabels
    <3>2. /\ pc' \in [Proc -> Label] /\ loc' \in [Proc -> Local]
          /\ pc'[p] = "gcPick" /\ loc'[p] = loc[p]
          /\ \A q \in Proc \ {p} : pc'[q] = pc[q] /\ loc'[q] = loc[q]
      BY <1>0, <2>2, <3>1, GotoEffect
    <3>3. TypeOK'
      BY <1>0, <2>1, <2>2, <3>2 DEF TypeOK, Rmdir, bounds, Pulling
    <3>4. CacheWhole'
      BY <2>2 DEF IInv, CacheWhole, Rmdir
    <3>5. Control(p)'
      BY <1>0, <2>1, <2>2, <3>2
         DEF Rmdir, Control, OpAt, Names, Downloaded, Locks, Removing, Counted, Spares, Publishes,
             Delivers, GlobalLabels, GCLabels, PullLabels
    <3>6. ASSUME NEW q \in Proc \ {p} PROVE Control(q)'
      BY <1>0, <2>1, <2>2, <3>2, RmdirFrame DEF IInv
    <3>. QED
      BY <3>3, <3>4, <3>5, <3>6 DEF IInv
  <2>3. CASE GCFail(p)
    BY <2>1, <2>3, GCFailStep DEF GCLabels
  <2>. QED
    BY <1>3, <2>2, <2>3 DEF GCRmdir
<1>. QED
  BY <1>1, <1>2, <1>3

\* os.RemoveAll unlinks one file more.
LEMMA UnlinkStep ==
  ASSUME IInv, NEW p \in Proc, Unlink(p)
  PROVE  IInv'
<1>. USE NoneIsNothing
<1>0. loc[p] \in Local /\ TypeOK /\ Control(p)
  BY DEF IInv, TypeOK
<1>. PICK f \in loc[p].todo :
       /\ files' = [files EXCEPT ![loc[p].dig] = files[loc[p].dig] \ {f}]
       /\ Goto(p, pc[p], [loc[p] EXCEPT !.todo = loc[p].todo \ {f}])
  BY DEF Unlink, TypeOK
<1>1. /\ pc[p] \in {"gcRm", "delRm"} /\ loc[p].dig \in Digest
      /\ UNCHANGED <<exists, tags, registry, glock, rlock, dlock, bounds, written, damaged, raced,
                     populated>>
  BY <1>0 DEF Unlink, Control, Names, lockVars, history
<1>. DEFINE r == [loc[p] EXCEPT !.todo = loc[p].todo \ {f}]
<1>2. /\ pc[p] \in Label /\ r \in Local
      /\ r.op = loc[p].op /\ r.args = loc[p].args /\ r.got = loc[p].got /\ r.ref = loc[p].ref
      /\ r.seen = loc[p].seen /\ r.refs = loc[p].refs /\ r.managed = loc[p].managed
      /\ r.dig = loc[p].dig
  BY <1>0, <1>1 DEF Label, GCLabels, Local
<1>3. Goto(p, pc[p], r)
  OBVIOUS
<1>. HIDE DEF r
<1>4. /\ pc' \in [Proc -> Label] /\ loc' \in [Proc -> Local]
      /\ pc'[p] = pc[p] /\ loc'[p] = r
      /\ \A q \in Proc \ {p} : pc'[q] = pc[q] /\ loc'[q] = loc[q]
  BY <1>0, <1>2, <1>3, GotoEffect
<1>5. \A d \in Digest : files'[d] \subseteq files[d] /\ (d # loc[p].dig => files'[d] = files[d])
  BY <1>0, <1>1 DEF TypeOK
<1>6. TypeOK'
  BY <1>0, <1>1, <1>4 DEF TypeOK, bounds
<1>7. CacheWhole'
  BY <1>0, <1>1, <1>5 DEF IInv, CacheWhole, Control, Removing, TypeOK
<1>8. Control(p)'
  BY <1>0, <1>1, <1>2, <1>4, <1>5
     DEF Control, OpAt, Names, Downloaded, Locks, Removing, Counted, Spares, Publishes, Delivers,
         GlobalLabels, GCLabels, PullLabels
<1>9. ASSUME NEW q \in Proc \ {p} PROVE Control(q)'
  BY <1>0, <1>1, <1>4, <1>5, HarmFrame DEF IInv
<1>. QED
  BY <1>6, <1>7, <1>8, <1>9 DEF IInv

\* The beginning of a command, and of what follows its collection.
LEMMA BeginSteps ==
  ASSUME IInv, NEW p \in Proc, Start(p) \/ GCDone(p)
  PROVE  IInv'
<1>. USE NoneIsNothing
<1>0. loc[p] \in Local /\ TypeOK /\ Control(p)
  BY DEF IInv, TypeOK
<1>1. CASE Start(p)
  <2>. PICK c \in Commands : Goto(p, "gcList", [Idle EXCEPT !.op = c.op, !.args = c.args])
    BY <1>1 DEF Start
  <2>. DEFINE r == [Idle EXCEPT !.op = c.op, !.args = c.args]
  <2>1. c.op \in Op /\ c.args \subseteq Tag \cup Digest /\ (c.op = "push" => c.args \subseteq Tag)
    BY ConstantsAssumption DEF Command
  <2>2. /\ "gcList" \in Label /\ r \in Local
        /\ r.op = c.op /\ r.args = c.args /\ r.got = {}
    BY <2>1, IdleType DEF Label, Local, Idle
  <2>3. Goto(p, "gcList", r)
    OBVIOUS
  <2>. HIDE DEF r
  <2>4. /\ pc' \in [Proc -> Label] /\ loc' \in [Proc -> Local]
        /\ pc'[p] = "gcList" /\ loc'[p] = r
        /\ \A q \in Proc \ {p} : pc'[q] = pc[q] /\ loc'[q] = loc[q]
    BY <1>0, <2>2, <2>3, GotoEffect
  <2>5. /\ starts < MaxStarts /\ starts' = starts + 1
        /\ UNCHANGED <<fsVars, registry, glock, rlock, dlock, crashes, history>>
    BY <1>1 DEF Start, lockVars
  <2>6. starts' \in 0 .. MaxStarts
    BY <1>0, <2>5, ConstantsAssumption DEF TypeOK
  <2>7. TypeOK'
    BY <1>0, <2>4, <2>5, <2>6 DEF TypeOK, fsVars, history
  <2>8. CacheWhole'
    BY <2>5 DEF IInv, CacheWhole, fsVars, history
  <2>9. Control(p)'
    BY <2>1, <2>2, <2>4
       DEF Control, OpAt, Names, Downloaded, Locks, Removing, Counted, Spares, Publishes, Delivers,
           GlobalLabels, GCLabels, PullLabels
  <2>10. ASSUME NEW q \in Proc \ {p} PROVE Control(q)'
    BY <2>4, <2>5, QuietFrame DEF IInv
  <2>. QED
    BY <2>7, <2>8, <2>9, <2>10 DEF IInv
<1>2. CASE GCDone(p) /\ InDelete(p)
  BY <1>2, DeleteNextStep DEF GCDone, InDelete, GlobalLabels, GCLabels
<1>3. CASE GCDone(p) /\ ~InDelete(p)
  <2>. PICK n \in loc[p].args :
         Goto(p, CASE loc[p].op = "pull" -> "lockReg" [] loc[p].op = "clone" -> "checkSrc"
                   [] OTHER -> loc[p].op,
              IF loc[p].op = "delete" THEN loc[p] ELSE [loc[p] EXCEPT !.ref = n])
    BY <1>3 DEF GCDone
  <2>. DEFINE l == CASE loc[p].op = "pull" -> "lockReg" [] loc[p].op = "clone" -> "checkSrc"
                     [] OTHER -> loc[p].op
              r == IF loc[p].op = "delete" THEN loc[p] ELSE [loc[p] EXCEPT !.ref = n]
  <2>1. /\ pc[p] \in {"gcVisit", "gcPick"} /\ glock' = None /\ n \in Tag \cup Digest
        /\ UNCHANGED <<fsVars, registry, rlock, dlock, bounds, history>>
        /\ loc[p].op \in Op
    BY <1>0, <1>3 DEF GCDone, Local, Control, OpAt
  <2>2. /\ l \in Label
        /\ \/ l = "lockReg" /\ loc[p].op = "pull"
           \/ l = "checkSrc" /\ loc[p].op = "clone"
           \/ l = "push" /\ loc[p].op = "push"
           \/ l = "delete" /\ loc[p].op = "delete"
    BY <2>1 DEF Label, Op
  <2>3. /\ r \in Local
        /\ r.op = loc[p].op /\ r.args = loc[p].args /\ r.got = loc[p].got
        /\ loc[p].op # "delete" => r.ref = n
    BY <1>0, <2>1 DEF Local
  <2>4. Goto(p, l, r)
    OBVIOUS
  <2>. HIDE DEF l, r
  <2>5. /\ pc' \in [Proc -> Label] /\ loc' \in [Proc -> Local]
        /\ pc'[p] = l /\ loc'[p] = r
        /\ \A q \in Proc \ {p} : pc'[q] = pc[q] /\ loc'[q] = loc[q]
    BY <1>0, <2>2, <2>3, <2>4, GotoEffect
  <2>6. TypeOK'
    BY <1>0, <2>1, <2>5 DEF TypeOK, fsVars, history, bounds
  <2>7. CacheWhole'
    BY <2>1 DEF IInv, CacheWhole, fsVars, history
  <2>8. Control(p)'
    BY <1>0, <2>1, <2>2, <2>3, <2>5
       DEF Control, OpAt, Names, Downloaded, Locks, Removing, Counted, Spares, Publishes, Delivers,
           GlobalLabels, GCLabels, PullLabels
  <2>9. ASSUME NEW q \in Proc \ {p} PROVE Control(q)'
    <3>1. glock = p
      BY <1>0, <2>1 DEF Control, Locks, GlobalLabels, GCLabels
    <3>. QED
      BY <2>1, <2>5, <3>1, QuietFrame DEF IInv
  <2>. QED
    BY <2>6, <2>7, <2>8, <2>9 DEF IInv
<1>. QED
  BY <1>1, <1>2, <1>3

\* The steps of "vetu delete".
LEMMA DeleteSteps ==
  ASSUME IInv, NEW p \in Proc, Delete(p)
  PROVE  IInv'
<1>. USE NoneIsNothing
<1>0. loc[p] \in Local /\ TypeOK /\ Control(p)
  BY DEF IInv, TypeOK
<1>1. CASE DeleteStat(p)
  <2>. PICK n \in loc[p].args :
         LET this == [loc[p] EXCEPT !.args = loc[p].args \ {n}, !.ref = n, !.dig = Target(n)]
         IN CASE ~Exists(n) /\ this.args = {} -> Fail(p)
              [] ~Exists(n) /\ this.args # {} ->
                   /\ Goto(p, "delete", this) /\ glock' = p
                   /\ UNCHANGED <<fsVars, registry, rlock, dlock, bounds, history>>
              [] Exists(n) /\ n \in Tag ->
                   /\ Goto(p, "delTag", this) /\ glock' = p
                   /\ UNCHANGED <<fsVars, registry, rlock, dlock, bounds, history>>
              [] OTHER ->
                   /\ Goto(p, "delRm", [this EXCEPT !.todo = files[n]]) /\ glock' = p
                   /\ damaged' = damaged \cup {n}
                   /\ raced' = raced \cup Pulling
                   /\ UNCHANGED <<fsVars, registry, rlock, dlock, bounds, written, populated>>
    BY <1>1 DEF DeleteStat
  <2>1. /\ pc[p] = "delete" /\ glock \in {None, p}
        /\ n \in Tag \cup Digest /\ Target(n) \in Digest \cup {None}
        /\ loc[p].op \in Op
    BY <1>0, <1>1 DEF DeleteStat, Local, TypeOK, Target, Control, OpAt
  <2>. DEFINE this == [loc[p] EXCEPT !.args = loc[p].args \ {n}, !.ref = n, !.dig = Target(n)]
              r == [this EXCEPT !.todo = files[n]]
  <2>2. /\ this \in Local
        /\ this.op = loc[p].op /\ this.args = loc[p].args \ {n} /\ this.got = loc[p].got
        /\ this.ref = n
    BY <1>0, <2>1 DEF Local
  <2>3. CASE Fail(p)
    BY <2>3, FailStep
  <2>4. ASSUME NEW l \in {"delete", "delTag"}, l = "delTag" => n \in Tag,
               Goto(p, l, this), glock' = p,
               UNCHANGED <<fsVars, registry, rlock, dlock, bounds, history>>
        PROVE  IInv'
    <3>. HIDE DEF this
    <3>1. l \in Label
      BY DEF Label
    <3>2. /\ pc' \in [Proc -> Label] /\ loc' \in [Proc -> Local]
          /\ pc'[p] = l /\ loc'[p] = this
          /\ \A q \in Proc \ {p} : pc'[q] = pc[q] /\ loc'[q] = loc[q]
      BY <1>0, <2>2, <2>4, <3>1, GotoEffect
    <3>3. TypeOK'
      BY <1>0, <2>4, <3>2 DEF TypeOK, fsVars, history, bounds
    <3>4. CacheWhole'
      BY <2>4 DEF IInv, CacheWhole, fsVars, history
    <3>5. Control(p)'
      BY <1>0, <2>1, <2>2, <2>4, <3>2
         DEF Control, OpAt, Names, Downloaded, Locks, Removing, Counted, Spares, Publishes, Delivers,
             GlobalLabels, GCLabels, PullLabels
    <3>6. ASSUME NEW q \in Proc \ {p} PROVE Control(q)'
      BY <2>1, <2>4, <3>2, QuietFrame DEF IInv
    <3>. QED
      BY <3>3, <3>4, <3>5, <3>6 DEF IInv
  <2>5. CASE /\ Exists(n) /\ n \notin Tag
             /\ Goto(p, "delRm", r) /\ glock' = p
             /\ damaged' = damaged \cup {n}
             /\ raced' = raced \cup Pulling
             /\ UNCHANGED <<fsVars, registry, rlock, dlock, bounds, written, populated>>
    <3>1. n \in Digest /\ n \in exists /\ Target(n) = n
      BY <2>1, <2>5 DEF Exists, Target
    <3>2. /\ "delRm" \in Label /\ r \in Local
          /\ r.op = loc[p].op /\ r.args = loc[p].args \ {n} /\ r.got = loc[p].got
          /\ r.ref = n /\ r.dig = n
      BY <1>0, <3>1 DEF Label, Local, TypeOK
    <3>. HIDE DEF r
    <3>3. /\ pc' \in [Proc -> Label] /\ loc' \in [Proc -> Local]
          /\ pc'[p] = "delRm" /\ loc'[p] = r
          /\ \A q \in Proc \ {p} : pc'[q] = pc[q] /\ loc'[q] = loc[q]
      BY <1>0, <2>5, <3>2, GotoEffect
    <3>4. TypeOK'
      BY <1>0, <2>5, <3>1, <3>3 DEF TypeOK, fsVars, bounds, Pulling
    <3>5. CacheWhole'
      BY <2>5 DEF IInv, CacheWhole, fsVars
    <3>6. Control(p)'
      BY <1>0, <2>1, <2>5, <3>1, <3>2, <3>3
         DEF Control, OpAt, Names, Downloaded, Locks, Removing, Counted, Spares, Publishes, Delivers,
             fsVars, GlobalLabels, GCLabels, PullLabels
    <3>7. ASSUME NEW q \in Proc \ {p} PROVE Control(q)'
      <4>1. /\ Control(q) /\ glock # q
            /\ UNCHANGED <<exists, files, tags, rlock, written, populated>>
        BY <2>1, <2>5 DEF IInv, fsVars
      <4>2. pc[q] \notin GlobalLabels
        BY <4>1 DEF Control, Locks
      <4>3. Removing(q)' /\ Counted(q)' /\ Spares(q)'
        BY <3>3, <4>2 DEF Removing, Counted, Spares, GlobalLabels, GCLabels
      <4>4. Publishes(q)' /\ Delivers(q)'
        BY <2>5, <3>3, <4>1 DEF Control, Publishes, Delivers, Exists, Target
      <4>. QED
        BY <2>5, <3>3, <4>1, <4>3, <4>4, Frame
    <3>. QED
      BY <3>4, <3>5, <3>6, <3>7 DEF IInv
  <2>6. CASE ~Exists(n)
    BY <2>3, <2>4, <2>6
  <2>7. CASE Exists(n) /\ n \in Tag
    BY <2>4, <2>7
  <2>8. CASE Exists(n) /\ n \notin Tag
    <3>1. /\ Goto(p, "delRm", r) /\ glock' = p
          /\ damaged' = damaged \cup {n}
          /\ raced' = raced \cup Pulling
          /\ UNCHANGED <<fsVars, registry, rlock, dlock, bounds, written, populated>>
      BY <2>8
    <3>. HIDE DEF r
    <3>. QED
      BY <2>5, <2>8, <3>1
  <2>. QED
    BY ONLY <2>6, <2>7, <2>8
<1>2. CASE DeleteTag(p)
  <2>1. /\ pc[p] = "delTag" /\ loc[p].ref \in Tag
        /\ pc[p] \in GlobalLabels /\ loc[p].op = "delete"
    BY <1>0, <1>2 DEF DeleteTag, Control, OpAt, Names, GlobalLabels
  <2>2. CASE tags[loc[p].ref] = None
    BY <1>2, <2>1, <2>2, DeleteNextStep DEF DeleteTag
  <2>3. CASE tags[loc[p].ref] # None
    <3>1. /\ tags' = [tags EXCEPT ![loc[p].ref] = None]
          /\ raced' = raced \cup Pulling
          /\ Goto(p, "gcList", loc[p])
          /\ UNCHANGED <<exists, files, registry, glock, rlock, dlock, bounds, written, damaged,
                         populated>>
      BY <1>2, <2>3 DEF DeleteTag, lockVars
    <3>2. "gcList" \in Label
      BY DEF Label
    <3>3. /\ pc' \in [Proc -> Label] /\ loc' \in [Proc -> Local]
          /\ pc'[p] = "gcList" /\ loc'[p] = loc[p]
          /\ \A q \in Proc \ {p} : pc'[q] = pc[q] /\ loc'[q] = loc[q]
      BY <1>0, <3>1, <3>2, GotoEffect
    <3>4. TypeOK'
      BY <1>0, <2>1, <3>1, <3>3 DEF TypeOK, bounds, Pulling
    <3>5. CacheWhole'
      BY <3>1 DEF IInv, CacheWhole
    <3>6. Control(p)'
      BY <1>0, <2>1, <3>1, <3>3
         DEF Control, OpAt, Names, Downloaded, Locks, Removing, Counted, Spares, Publishes,
             Delivers, GlobalLabels, GCLabels, PullLabels
    <3>7. ASSUME NEW q \in Proc \ {p} PROVE Control(q)'
      BY <1>0, <3>1, <3>3, HarmFrame DEF IInv, TypeOK
    <3>. QED
      BY <3>4, <3>5, <3>6, <3>7 DEF IInv
  <2>. QED
    BY <2>2, <2>3
<1>3. CASE DeleteRmdir(p)
  <2>1. /\ pc[p] = "delRm" /\ loc[p].dig \in Digest
        /\ pc[p] \in GlobalLabels /\ loc[p].op = "delete"
    BY <1>0, <1>3 DEF DeleteRmdir, Control, OpAt, Names, GlobalLabels
  <2>2. CASE Rmdir(p) /\ Goto(p, "gcList", loc[p])
    <3>1. "gcList" \in Label
      BY DEF Label
    <3>2. /\ pc' \in [Proc -> Label] /\ loc' \in [Proc -> Local]
          /\ pc'[p] = "gcList" /\ loc'[p] = loc[p]
          /\ \A q \in Proc \ {p} : pc'[q] = pc[q] /\ loc'[q] = loc[q]
      BY <1>0, <2>2, <3>1, GotoEffect
    <3>3. TypeOK'
      BY <1>0, <2>1, <2>2, <3>2 DEF TypeOK, Rmdir, bounds, Pulling
    <3>4. CacheWhole'
      BY <2>2 DEF IInv, CacheWhole, Rmdir
    <3>5. Control(p)'
      BY <1>0, <2>1, <2>2, <3>2
         DEF Rmdir, Control, OpAt, Names, Downloaded, Locks, Removing, Counted, Spares, Publishes,
             Delivers, GlobalLabels, GCLabels, PullLabels
    <3>6. ASSUME NEW q \in Proc \ {p} PROVE Control(q)'
      BY <1>0, <2>1, <2>2, <3>2, RmdirFrame DEF IInv
    <3>. QED
      BY <3>3, <3>4, <3>5, <3>6 DEF IInv
  <2>3. CASE DeleteNext(p)
    BY <2>1, <2>3, DeleteNextStep
  <2>. QED
    BY <1>3, <2>2, <2>3 DEF DeleteRmdir
<1>. QED
  BY <1>1, <1>2, <1>3 DEF Delete

\* The steps of remote.Pull that publish nothing.
LEMMA PullSteps ==
  ASSUME IInv, NEW p \in Proc, Pull(p)
  PROVE  IInv'
<1>. USE NoneIsNothing
<1>0. loc[p] \in Local /\ TypeOK /\ Control(p)
  BY DEF IInv, TypeOK
<1>1. ASSUME NEW l \in Label, NEW r \in Local, Continue(p, l, r)
      PROVE  pc'[p] = l /\ loc'[p] = r /\ UNCHANGED <<fsVars, lockVars, history>>
  BY <1>0, <1>1, GotoEffect DEF Continue
<1>2. CASE LockRegistry(p)
  <2>1. /\ pc[p] = "lockReg" /\ rlock = None /\ rlock' = p /\ raced' = raced \ {p}
        /\ Goto(p, "manifest", loc[p])
        /\ UNCHANGED <<fsVars, registry, glock, dlock, bounds, written, damaged, populated>>
    BY <1>2 DEF LockRegistry
  <2>2. "manifest" \in Label
    BY DEF Label, PullLabels
  <2>3. /\ pc' \in [Proc -> Label] /\ loc' \in [Proc -> Local]
        /\ pc'[p] = "manifest" /\ loc'[p] = loc[p]
        /\ \A q \in Proc \ {p} : pc'[q] = pc[q] /\ loc'[q] = loc[q]
    BY <1>0, <2>1, <2>2, GotoEffect
  <2>4. TypeOK'
    BY <1>0, <2>1, <2>3 DEF TypeOK, fsVars, bounds
  <2>5. CacheWhole'
    BY <2>1 DEF IInv, CacheWhole, fsVars
  <2>6. Control(p)'
    BY <1>0, <2>1, <2>3
       DEF Control, OpAt, Names, Downloaded, Locks, Removing, Counted, Spares, Publishes, Delivers,
           GlobalLabels, GCLabels, PullLabels
  <2>7. ASSUME NEW q \in Proc \ {p} PROVE Control(q)'
    <3>1. Control(q) /\ (q \notin raced' => q \notin raced)
      BY <2>1 DEF IInv
    <3>2. Removing(q)' /\ Counted(q)' /\ Spares(q)'
      BY <2>1, <2>3, <3>1 DEF Control, Removing, Counted, Spares, fsVars
    <3>3. Publishes(q)' /\ Delivers(q)'
      BY <2>1, <2>3, <3>1 DEF Control, Publishes, Delivers, Exists, Target, fsVars
    <3>. QED
      BY <2>1, <2>3, <3>1, <3>2, <3>3, Frame
  <2>. QED
    BY <2>4, <2>5, <2>6, <2>7 DEF IInv
<1>3. CASE ManifestGet(p)
  <2>. DEFINE d == IF loc[p].ref \in Tag THEN registry[loc[p].ref] ELSE loc[p].ref
              r == [loc[p] EXCEPT !.dig = d]
  <2>1. CASE Fail(p)
    BY <2>1, FailStep
  <2>2. CASE d # None /\ Continue(p, "check", r)
    <3>1. pc[p] = "manifest" /\ loc[p].ref \in Tag \cup Digest
      BY <1>0, <1>3 DEF ManifestGet, Control, Names
    <3>2. d \in Digest /\ (loc[p].ref \in Digest => d = loc[p].ref)
      BY <1>0, <2>2, <3>1 DEF TypeOK
    <3>. HIDE DEF d
    <3>3. /\ "check" \in Label /\ r \in Local
          /\ r.op = loc[p].op /\ r.args = loc[p].args /\ r.got = loc[p].got /\ r.ref = loc[p].ref
          /\ r.dig = d
      BY <1>0, <3>2 DEF Label, PullLabels, Local
    <3>4. Continue(p, "check", r)
      BY <2>2
    <3>. HIDE DEF r
    <3>5. Control(p)'
      BY <1>0, <1>1, <3>1, <3>2, <3>3, <3>4
         DEF Control, OpAt, Names, Downloaded, Locks, Removing, Counted, Spares, Publishes, Delivers,
             lockVars, GlobalLabels, GCLabels, PullLabels
    <3>. QED
      BY <3>3, <3>4, <3>5, ContinueStep
  <2>. QED
    BY <1>3, <2>1, <2>2 DEF ManifestGet
<1>4. CASE CheckDigest(p)
  <2>. DEFINE l == IF loc[p].dig \notin exists THEN "download"
                   ELSE IF loc[p].ref \in Tag THEN "checkTag" ELSE "mark"
  <2>1. pc[p] = "check" /\ Continue(p, l, loc[p]) /\ loc[p].ref \in Tag \cup Digest
    BY <1>0, <1>4 DEF CheckDigest, Control, Names
  <2>2. /\ l \in Label
        /\ \/ l = "download" /\ loc[p].dig \notin exists
           \/ l = "checkTag" /\ loc[p].dig \in exists /\ loc[p].ref \in Tag
           \/ l = "mark" /\ loc[p].dig \in exists /\ loc[p].ref \in Digest
    BY <2>1 DEF Label, PullLabels
  <2>. HIDE DEF l
  <2>3. Control(p)'
    BY <1>0, <1>1, <2>1, <2>2
       DEF Control, OpAt, Names, Downloaded, Locks, Removing, Counted, Spares, Publishes, Delivers,
           fsVars, lockVars, history, GlobalLabels, GCLabels, PullLabels
  <2>. QED
    BY <1>0, <2>1, <2>2, <2>3, ContinueStep
<1>5. CASE Download(p)
  <2>. DEFINE r == [loc[p] EXCEPT !.got = Image]
  <2>1. CASE Fail(p)
    BY <2>1, FailStep
  <2>2. CASE Continue(p, "rename", r)
    <3>1. pc[p] = "download"
      BY <1>5 DEF Download
    <3>2. /\ "rename" \in Label /\ r \in Local
          /\ r.op = loc[p].op /\ r.args = loc[p].args /\ r.got = Image /\ r.ref = loc[p].ref
          /\ r.dig = loc[p].dig
      BY <1>0 DEF Label, PullLabels, Local, File
    <3>. HIDE DEF r
    <3>3. Control(p)'
      BY <1>0, <1>1, <2>2, <3>1, <3>2
         DEF Control, OpAt, Names, Downloaded, Locks, Removing, Counted, Spares, Publishes, Delivers,
             fsVars, lockVars, history, GlobalLabels, GCLabels, PullLabels
    <3>. QED
      BY <2>2, <3>2, <3>3, ContinueStep
  <2>. QED
    BY <1>5, <2>1, <2>2 DEF Download
<1>6. CASE DownloadInterrupted(p)
  <2>. DEFINE r == [loc[p] EXCEPT !.got = {"config"}]
  <2>1. /\ pc[p] = "download" /\ crashes < MaxCrashes /\ crashes' = crashes + 1
        /\ Goto(p, "rename", r)
        /\ damaged' = damaged \cup {loc[p].dig}
        /\ UNCHANGED <<exists, files, tags, registry, glock, rlock, dlock, starts, written, raced,
                       populated>>
        /\ loc[p].dig \in Digest
    BY <1>0, <1>6 DEF DownloadInterrupted, fsVars, lockVars, Control, Names
  <2>2. /\ "rename" \in Label /\ r \in Local
        /\ r.op = loc[p].op /\ r.args = loc[p].args /\ r.got = {"config"} /\ r.ref = loc[p].ref
        /\ r.dig = loc[p].dig
    BY <1>0 DEF Label, PullLabels, Local, File, Image
  <2>. HIDE DEF r
  <2>3. /\ pc' \in [Proc -> Label] /\ loc' \in [Proc -> Local]
        /\ pc'[p] = "rename" /\ loc'[p] = r
        /\ \A q \in Proc \ {p} : pc'[q] = pc[q] /\ loc'[q] = loc[q]
    BY <1>0, <2>1, <2>2, GotoEffect
  <2>4. crashes' \in 0 .. MaxCrashes
    BY <1>0, <2>1, ConstantsAssumption DEF TypeOK
  <2>5. TypeOK'
    BY <1>0, <2>1, <2>3, <2>4 DEF TypeOK
  <2>6. CacheWhole'
    BY <2>1 DEF IInv, CacheWhole
  <2>7. Control(p)'
    BY <1>0, <2>1, <2>2, <2>3
       DEF Control, OpAt, Names, Downloaded, Locks, Removing, Counted, Spares, Publishes, Delivers,
           GlobalLabels, GCLabels, PullLabels
  <2>8. ASSUME NEW q \in Proc \ {p} PROVE Control(q)'
    BY <1>0, <2>1, <2>3, HarmFrame DEF IInv
  <2>. QED
    BY <2>5, <2>6, <2>7, <2>8 DEF IInv
<1>7. CASE CheckTag(p)
  <2>. DEFINE l == IF Exists(loc[p].ref) THEN "pulled" ELSE "rmTag"
  <2>1. pc[p] = "checkTag" /\ Continue(p, l, loc[p])
    BY <1>7 DEF CheckTag
  <2>2. l \in Label /\ (l = "rmTag" \/ (l = "pulled" /\ Exists(loc[p].ref)))
    BY DEF Label, PullLabels
  <2>. HIDE DEF l
  <2>3. Control(p)'
    BY <1>0, <1>1, <2>1, <2>2
       DEF Control, OpAt, Names, Downloaded, Locks, Removing, Counted, Spares, Publishes, Delivers,
           Exists, Target, fsVars, lockVars, history, GlobalLabels, GCLabels, PullLabels
  <2>. QED
    BY <1>0, <2>1, <2>2, <2>3, ContinueStep
<1>8. CASE MarkExplicit(p)
  <2>1. pc[p] = "mark" /\ loc[p].ref \in Digest /\ loc[p].dig = loc[p].ref
    BY <1>0, <1>8 DEF MarkExplicit, Control, Names
  <2>2. CASE ~Exists(loc[p].ref)
    BY <1>8, <2>2, FailStep DEF MarkExplicit
  <2>3. CASE Exists(loc[p].ref)
    <3>1. /\ files' = [files EXCEPT ![loc[p].ref] = files[loc[p].ref] \cup {Mark}]
          /\ written' = written \cup {loc[p].ref}
          /\ Goto(p, "pulled", loc[p])
          /\ UNCHANGED <<exists, tags, registry, glock, rlock, dlock, bounds, damaged, raced,
                         populated>>
          /\ loc[p].ref \in exists
      BY <1>8, <2>1, <2>3 DEF MarkExplicit, lockVars, Exists, Target
    <3>2. "pulled" \in Label
      BY DEF Label
    <3>3. /\ pc' \in [Proc -> Label] /\ loc' \in [Proc -> Local]
          /\ pc'[p] = "pulled" /\ loc'[p] = loc[p]
          /\ \A q \in Proc \ {p} : pc'[q] = pc[q] /\ loc'[q] = loc[q]
      BY <1>0, <3>1, <3>2, GotoEffect
    <3>4. TypeOK'
      BY <1>0, <2>1, <3>1, <3>3 DEF TypeOK, bounds, File
    <3>5. CacheWhole'
      BY <1>0, <2>1, <3>1 DEF IInv, CacheWhole, TypeOK
    <3>6. Control(p)'
      BY <1>0, <2>1, <3>1, <3>3
         DEF Control, OpAt, Names, Downloaded, Locks, Removing, Counted, Spares, Publishes, Delivers,
             Exists, Target, GlobalLabels, GCLabels, PullLabels
    <3>7. ASSUME NEW q \in Proc \ {p} PROVE Control(q)'
      <4>1. Control(q)
        BY DEF IInv
      <4>2. Removing(q)' /\ Counted(q)'
        BY <3>1, <3>3, <4>1 DEF Control, Removing, Counted
      <4>3. Spares(q)'
        BY <1>0, <2>1, <3>1, <3>3, <4>1 DEF Control, Spares, TypeOK
      <4>4. Publishes(q)' /\ Delivers(q)'
        BY <3>1, <3>3, <4>1 DEF Control, Publishes, Delivers, Exists, Target
      <4>. QED
        BY <3>1, <3>3, <4>1, <4>2, <4>3, <4>4, Frame
    <3>. QED
      BY <3>4, <3>5, <3>6, <3>7 DEF IInv
  <2>. QED
    BY <2>2, <2>3
<1>9. CASE Pulled(p)
  <2>1. /\ pc[p] = "pulled" /\ UNCHANGED <<fsVars, registry, bounds, history>>
        /\ loc[p].ref \in Tag \cup Digest
    BY <1>0, <1>9 DEF Pulled, Control, Names
  <2>2. CASE loc[p].op # "clone"
    BY <1>9, <2>2, FailStep DEF Pulled, Fail
  <2>3. CASE loc[p].op = "clone"
    <3>. DEFINE r == [loc[p] EXCEPT !.got = {}]
    <3>1. Goto(p, "openSrc", r) /\ Release(p) /\ UNCHANGED glock
      BY <1>9, <2>3 DEF Pulled
    <3>2. /\ "openSrc" \in Label /\ r \in Local
          /\ r.op = loc[p].op /\ r.args = loc[p].args /\ r.got = {} /\ r.ref = loc[p].ref
      BY <1>0 DEF Label, Local
    <3>. HIDE DEF r
    <3>3. /\ pc' \in [Proc -> Label] /\ loc' \in [Proc -> Local]
          /\ pc'[p] = "openSrc" /\ loc'[p] = r
          /\ \A q \in Proc \ {p} : pc'[q] = pc[q] /\ loc'[q] = loc[q]
      BY <1>0, <3>1, <3>2, GotoEffect
    <3>4. /\ rlock' \in Proc \cup {None} /\ dlock' \in [Digest -> Proc \cup {None}]
          /\ \A q \in Proc \ {p} : rlock = q => rlock' = q
      BY <1>0, <3>1 DEF Release, TypeOK
    <3>5. TypeOK'
      BY <1>0, <2>1, <3>1, <3>3, <3>4 DEF TypeOK, fsVars, history, bounds
    <3>6. CacheWhole'
      BY <2>1 DEF IInv, CacheWhole, fsVars, history
    <3>7. Control(p)'
      BY <1>0, <2>1, <2>3, <3>2, <3>3
         DEF Control, OpAt, Names, Downloaded, Locks, Removing, Counted, Spares, Publishes, Delivers,
             Op, GlobalLabels, GCLabels, PullLabels
    <3>8. ASSUME NEW q \in Proc \ {p} PROVE Control(q)'
      BY <2>1, <3>1, <3>3, <3>4, QuietFrame DEF IInv
    <3>. QED
      BY <3>5, <3>6, <3>7, <3>8 DEF IInv
  <2>. QED
    BY <2>2, <2>3
<1>. QED
  BY <1>2, <1>3, <1>4, <1>5, <1>6, <1>7, <1>8, <1>9 DEF Pull

\* A pull and another pull are never both past the registry lock.
LEMMA OnePull ==
  ASSUME NEW p \in Proc, NEW q \in Proc \ {p}, Control(p), Control(q),
         pc[p] \in {"rename", "rmTag", "mkTag"}, loc[p].op # "push",
         pc[q] \in PullLabels \cup {"pulled"}, loc[q].op # "push"
  PROVE  FALSE
BY DEF Control, Locks, PullLabels

\* What a pull and a push have in common: the rename and the new link.
LEMMA PublishSteps ==
  ASSUME IInv, NEW p \in Proc, Publish(p)
  PROVE  IInv'
<1>. USE NoneIsNothing
<1>0. loc[p] \in Local /\ TypeOK /\ Control(p)
  BY DEF IInv, TypeOK
<1>1. CASE MoveIn(p)
  <2>. DEFINE l == IF loc[p].ref \in Tag THEN "rmTag" ELSE "pulled"
  <2>1. /\ pc[p] = "rename" /\ loc[p].dig \in Digest /\ loc[p].ref \in Tag \cup Digest
        /\ Goto(p, l, loc[p])
        /\ UNCHANGED <<tags, registry, glock, rlock, bounds, written, raced, populated>>
    BY <1>0, <1>1 DEF MoveIn, Control, Names
  <2>2. /\ l \in Label
        /\ \/ l = "rmTag" /\ loc[p].ref \in Tag
           \/ l = "pulled" /\ loc[p].ref \in Digest /\ loc[p].dig = loc[p].ref
    BY <1>0, <2>1 DEF Label, PullLabels, Control, Names
  <2>. HIDE DEF l
  <2>3. /\ pc' \in [Proc -> Label] /\ loc' \in [Proc -> Local]
        /\ pc'[p] = l /\ loc'[p] = loc[p]
        /\ \A q \in Proc \ {p} : pc'[q] = pc[q] /\ loc'[q] = loc[q]
    BY <1>0, <2>1, <2>2, GotoEffect
  <2>4. CASE loc[p].dig \in exists
    <3>1. UNCHANGED <<exists, files, dlock, damaged>>
      BY <1>1, <2>4 DEF MoveIn
    <3>2. TypeOK'
      BY <1>0, <2>1, <2>3, <3>1 DEF TypeOK, bounds
    <3>3. CacheWhole'
      BY <3>1 DEF IInv, CacheWhole
    <3>4. Control(p)'
      BY <1>0, <2>1, <2>2, <2>3, <2>4, <3>1
         DEF Control, OpAt, Names, Downloaded, Locks, Removing, Counted, Spares, Publishes, Delivers,
             Exists, Target, GlobalLabels, GCLabels, PullLabels
    <3>5. ASSUME NEW q \in Proc \ {p} PROVE Control(q)'
      BY <2>1, <2>3, <3>1, QuietFrame DEF IInv, fsVars, history
    <3>. QED
      BY <3>2, <3>3, <3>4, <3>5 DEF IInv
  <2>5. CASE loc[p].dig \notin exists
    <3>1. /\ exists' = exists \cup {loc[p].dig}
          /\ files' = [files EXCEPT ![loc[p].dig] = loc[p].got]
          /\ dlock' = [dlock EXCEPT ![loc[p].dig] = IF loc[p].op = "push" THEN None ELSE p]
          /\ damaged' = IF loc[p].got = Image THEN damaged \ {loc[p].dig} ELSE damaged
      BY <1>1, <2>5 DEF MoveIn
    <3>2. loc[p].got \subseteq File /\ (loc[p].got = Image \/ loc[p].dig \in damaged)
      BY <1>0, <2>1, <2>5 DEF Local, Control, Publishes
    <3>3. TypeOK'
      BY <1>0, <2>1, <2>3, <3>1, <3>2 DEF TypeOK, bounds
    <3>4. CacheWhole'
      BY <1>0, <2>1, <3>1, <3>2 DEF IInv, CacheWhole, TypeOK
    <3>5. Control(p)'
      BY <1>0, <2>1, <2>2, <2>3, <3>1
         DEF Control, OpAt, Names, Downloaded, Locks, Removing, Counted, Spares, Publishes, Delivers,
             Exists, Target, GlobalLabels, GCLabels, PullLabels
    <3>6. ASSUME NEW q \in Proc \ {p} PROVE Control(q)'
      <4>1. Control(q)
        BY DEF IInv
      <4>2. pc[q] \in {"gcRm", "delRm"} => loc[q].dig # loc[p].dig /\ loc[q].dig \in Digest
        BY <2>5, <4>1 DEF Control, Removing, Names
      <4>3. Removing(q)' /\ Counted(q)'
        BY <2>1, <2>3, <3>1, <4>1, <4>2 DEF Control, Removing, Counted
      <4>4. Spares(q)'
        BY <1>0, <2>1, <2>3, <3>1, <4>1, <4>2 DEF Control, Spares, TypeOK
      <4>5. Publishes(q)'
        <5>1. pc[q] \in {"download", "rename"} /\ loc[q].op # "push" =>
                loc[p].op = "push" /\ loc[p].dig \in populated
          BY <1>0, <2>1, <4>1, OnePull DEF Control, Publishes, PullLabels
        <5>. QED
          BY <2>1, <2>3, <3>1, <4>1, <5>1 DEF Control, Publishes
      <4>6. Delivers(q)'
        BY <2>1, <2>3, <3>1, <4>1 DEF Control, Delivers, Exists, Target
      <4>. QED
        BY <2>1, <2>3, <4>1, <4>3, <4>4, <4>5, <4>6, Frame
    <3>. QED
      BY <3>3, <3>4, <3>5, <3>6 DEF IInv
  <2>. QED
    BY <2>4, <2>5
<1>2. CASE RemoveTag(p)
  <2>1. /\ pc[p] = "rmTag" /\ loc[p].ref \in Tag
        /\ tags' = [tags EXCEPT ![loc[p].ref] = None]
        /\ raced' = raced \cup (Pulling \ {p})
        /\ Goto(p, "mkTag", loc[p])
        /\ UNCHANGED <<exists, files, registry, glock, rlock, dlock, bounds, written, damaged,
                       populated>>
    BY <1>0, <1>2 DEF RemoveTag, Control, Names, lockVars
  <2>2. "mkTag" \in Label
    BY DEF Label, PullLabels
  <2>3. /\ pc' \in [Proc -> Label] /\ loc' \in [Proc -> Local]
        /\ pc'[p] = "mkTag" /\ loc'[p] = loc[p]
        /\ \A q \in Proc \ {p} : pc'[q] = pc[q] /\ loc'[q] = loc[q]
    BY <1>0, <2>1, <2>2, GotoEffect
  <2>4. TypeOK'
    BY <1>0, <2>1, <2>3 DEF TypeOK, bounds, Pulling
  <2>5. CacheWhole'
    BY <2>1 DEF IInv, CacheWhole
  <2>6. Control(p)'
    BY <1>0, <2>1, <2>3
       DEF TypeOK, Control, OpAt, Names, Downloaded, Locks, Removing, Counted, Spares, Publishes,
           Delivers, GlobalLabels, GCLabels, PullLabels
  <2>7. ASSUME NEW q \in Proc \ {p} PROVE Control(q)'
    BY <1>0, <2>1, <2>3, HarmFrame DEF IInv, TypeOK
  <2>. QED
    BY <2>4, <2>5, <2>6, <2>7 DEF IInv
<1>3. CASE MakeTag(p) /\ tags[loc[p].ref] # None
  BY <1>3, FailStep DEF MakeTag
<1>4. CASE MakeTag(p) /\ tags[loc[p].ref] = None
  <2>1. /\ pc[p] = "mkTag" /\ loc[p].ref \in Tag /\ loc[p].dig \in Digest
        /\ tags' = [tags EXCEPT ![loc[p].ref] = loc[p].dig]
        /\ written' = written \cup {loc[p].ref}
        /\ UNCHANGED <<exists, files, registry, bounds, damaged, raced, populated>>
    BY <1>0, <1>4 DEF MakeTag, Control, Names
  <2>2. "pulled" \in Label
    BY DEF Label
  <2>3. /\ pc' \in [Proc -> Label] /\ loc' \in [Proc -> Local]
        /\ glock' \in Proc \cup {None} /\ rlock' \in Proc \cup {None}
        /\ dlock' \in [Digest -> Proc \cup {None}]
        /\ \A q \in Proc \ {p} : /\ pc'[q] = pc[q] /\ loc'[q] = loc[q]
                                 /\ glock = q => glock' = q
                                 /\ rlock = q => rlock' = q
    <3>1. CASE loc[p].op = "push"
      BY <1>0, <1>4, <3>1, ExitEffect DEF MakeTag
    <3>2. CASE loc[p].op # "push"
      BY <1>0, <1>4, <2>2, <3>2, GotoEffect DEF MakeTag, lockVars, TypeOK
    <3>. QED
      BY <3>1, <3>2
  <2>4. TypeOK'
    BY <1>0, <2>1, <2>3 DEF TypeOK, bounds
  <2>5. CacheWhole'
    BY <2>1 DEF IInv, CacheWhole
  <2>6. Control(p)'
    <3>1. CASE loc[p].op = "push"
      BY <1>0, <1>4, <3>1, ExitEffect DEF MakeTag
    <3>2. CASE loc[p].op # "push"
      <4>1. Goto(p, "pulled", loc[p]) /\ UNCHANGED <<glock, rlock>>
        BY <1>4, <3>2 DEF MakeTag, lockVars
      <4>2. pc'[p] = "pulled" /\ loc'[p] = loc[p]
        BY <1>0, <2>2, <4>1, GotoEffect
      <4>3. tags'[loc[p].ref] = loc[p].dig
        BY <1>0, <2>1 DEF TypeOK
      <4>. QED
        BY <1>0, <2>1, <3>2, <4>1, <4>2, <4>3
           DEF Control, OpAt, Names, Downloaded, Locks, Removing, Counted, Spares, Publishes,
               Delivers, Exists, Target, GlobalLabels, GCLabels, PullLabels
    <3>. QED
      BY <3>1, <3>2
  <2>7. ASSUME NEW q \in Proc \ {p} PROVE Control(q)'
    <3>1. Control(q)
      BY DEF IInv
    <3>2. /\ tags'[loc[p].ref] = loc[p].dig
          /\ \A t \in Tag : t # loc[p].ref => tags'[t] = tags[t]
      BY <1>0, <2>1 DEF TypeOK
    <3>3. Removing(q)'
      BY <2>1, <2>3, <3>1 DEF Control, Removing
    <3>4. Counted(q)' /\ Spares(q)'
      BY <2>1, <2>3, <3>1, <3>2 DEF Control, Counted, Spares
    <3>5. Publishes(q)'
      <4>1. pc[q] = "mkTag" /\ loc[q].op # "push" => loc[p].op = "push" /\ loc[p].dig \in populated
        BY <1>0, <2>1, <3>1, OnePull DEF Control, Publishes, PullLabels
      <4>. QED
        BY <2>1, <2>3, <3>1, <3>2, <4>1 DEF Control, Publishes, Names
    <3>6. Delivers(q)'
      <4>1. q \notin raced /\ loc[q].op # "push" /\ pc[q] = "pulled" => loc[q].ref # loc[p].ref
        BY <1>0, <1>4, <2>1, <3>1 DEF Control, Delivers, Exists, Target, TypeOK
      <4>. QED
        BY <2>1, <2>3, <3>1, <3>2, <4>1 DEF Control, Delivers, Exists, Target
    <3>. QED
      BY <2>3, <3>1, <3>3, <3>4, <3>5, <3>6, Frame
  <2>. QED
    BY <2>4, <2>5, <2>6, <2>7 DEF IInv
<1>. QED
  BY <1>1, <1>2, <1>3, <1>4 DEF Publish

\* The steps of a clone next to its pull.
LEMMA CloneSteps ==
  ASSUME IInv, NEW p \in Proc, Clone(p)
  PROVE  IInv'
<1>. USE NoneIsNothing
<1>0. loc[p] \in Local /\ TypeOK /\ Control(p)
  BY DEF IInv, TypeOK
<1>1. ASSUME NEW l \in Label, NEW r \in Local, Continue(p, l, r)
      PROVE  pc'[p] = l /\ loc'[p] = r /\ UNCHANGED <<fsVars, lockVars, history>>
  BY <1>0, <1>1, GotoEffect DEF Continue
<1>2. CASE CheckSource(p)
  <2>. DEFINE l == IF Exists(loc[p].ref) THEN "openSrc" ELSE "lockReg"
  <2>1. pc[p] = "checkSrc" /\ Continue(p, l, loc[p])
    BY <1>2 DEF CheckSource
  <2>2. l \in Label /\ l \in {"openSrc", "lockReg"}
    BY DEF Label
  <2>. HIDE DEF l
  <2>3. Control(p)'
    BY <1>0, <1>1, <2>1, <2>2
       DEF Control, OpAt, Names, Downloaded, Locks, Removing, Counted, Spares, Publishes, Delivers,
           GlobalLabels, GCLabels, PullLabels
  <2>. QED
    BY <1>0, <2>1, <2>2, <2>3, ContinueStep
<1>3. ASSUME NEW l \in {"readSrc", "copySrc"}, NEW r \in Local, Continue(p, l, r),
             r.op = loc[p].op, r.args = loc[p].args, r.dig \in Digest,
             pc[p] \in {"openSrc", "readSrc", "copySrc"}
      PROVE  IInv'
  <2>1. l \in Label
    BY DEF Label
  <2>2. Control(p)'
    BY <1>0, <1>1, <1>3, <2>1
       DEF Control, OpAt, Names, Downloaded, Locks, Removing, Counted, Spares, Publishes, Delivers,
           GlobalLabels, GCLabels, PullLabels
  <2>. QED
    BY <1>3, <2>1, <2>2, ContinueStep
<1>4. CASE OpenSource(p)
  <2>. DEFINE r == [loc[p] EXCEPT !.dig = Target(loc[p].ref)]
  <2>1. CASE Exists(loc[p].ref) /\ Continue(p, "readSrc", r)
    <3>1. Target(loc[p].ref) \in Digest
      BY <1>0, <2>1 DEF Exists, TypeOK
    <3>2. r \in Local /\ r.op = loc[p].op /\ r.args = loc[p].args /\ r.dig = Target(loc[p].ref)
      BY <1>0, <3>1 DEF Local
    <3>. HIDE DEF r
    <3>. QED
      BY <1>3, <1>4, <2>1, <3>1, <3>2 DEF OpenSource
  <2>. QED
    BY <1>4, <2>1, FailStep DEF OpenSource
<1>5. CASE ReadSource(p)
  <2>. DEFINE r == [loc[p] EXCEPT !.todo = files[loc[p].dig]]
  <2>1. CASE Continue(p, "copySrc", r)
    <3>1. loc[p].dig \in Digest /\ files[loc[p].dig] \subseteq File
      BY <1>0, <1>5 DEF ReadSource, Control, Names, TypeOK
    <3>2. r \in Local /\ r.op = loc[p].op /\ r.args = loc[p].args /\ r.dig = loc[p].dig
      BY <1>0, <3>1 DEF Local
    <3>. HIDE DEF r
    <3>. QED
      BY <1>3, <1>5, <2>1, <3>1, <3>2 DEF ReadSource
  <2>. QED
    BY <1>5, <2>1, FailStep DEF ReadSource
<1>6. CASE CopyFile(p)
  <2>. PICK f \in loc[p].todo :
         IF f \in files[loc[p].dig]
         THEN Continue(p, "copySrc", [loc[p] EXCEPT !.todo = loc[p].todo \ {f},
                                                    !.got = loc[p].got \cup {f}])
         ELSE Fail(p)
    BY <1>6 DEF CopyFile
  <2>. DEFINE r == [loc[p] EXCEPT !.todo = loc[p].todo \ {f}, !.got = loc[p].got \cup {f}]
  <2>1. CASE Continue(p, "copySrc", r)
    <3>1. loc[p].dig \in Digest /\ f \in File
      BY <1>0, <1>6 DEF CopyFile, Control, Names, Local
    <3>2. r \in Local /\ r.op = loc[p].op /\ r.args = loc[p].args /\ r.dig = loc[p].dig
      BY <1>0, <3>1 DEF Local
    <3>. HIDE DEF r
    <3>. QED
      BY <1>3, <1>6, <2>1, <3>1, <3>2 DEF CopyFile
  <2>. QED
    BY <2>1, FailStep
<1>. QED
  BY <1>2, <1>4, <1>5, <1>6, FailStep DEF Clone, CloneDone

\* The push itself.
LEMMA PushStep ==
  ASSUME IInv, NEW p \in Proc, PushImage(p)
  PROVE  IInv'
<1>. USE NoneIsNothing
<1>0. loc[p] \in Local /\ TypeOK /\ Control(p)
  BY DEF IInv, TypeOK
<1>1. CASE Fail(p)
  BY <1>1, FailStep
<1>2. ASSUME NEW d \in Digest,
             registry' = [registry EXCEPT ![loc[p].ref] = d],
             \/ /\ Goto(p, "rename", [loc[p] EXCEPT !.dig = d, !.got = Image])
                /\ populated' = populated \cup {d}
                /\ UNCHANGED lockVars
             \/ Exit(p) /\ UNCHANGED populated,
             UNCHANGED <<fsVars, bounds, written, damaged, raced>>
      PROVE  IInv'
  <2>. DEFINE r == [loc[p] EXCEPT !.dig = d, !.got = Image]
  <2>1. /\ pc[p] = "push" /\ loc[p].ref \in Tag /\ loc[p].op = "push"
        /\ registry' \in [Tag -> Digest \cup {None}]
        /\ populated \subseteq populated' /\ populated' \subseteq Digest
    BY <1>0, <1>2 DEF PushImage, Control, Names, OpAt, TypeOK
  <2>2. /\ "rename" \in Label /\ r \in Local
        /\ r.op = loc[p].op /\ r.args = loc[p].args /\ r.got = Image /\ r.ref = loc[p].ref
        /\ r.dig = d
    BY <1>0 DEF Label, PullLabels, Local, File
  <2>3. /\ pc' \in [Proc -> Label] /\ loc' \in [Proc -> Local]
        /\ glock' \in Proc \cup {None} /\ rlock' \in Proc \cup {None}
        /\ dlock' \in [Digest -> Proc \cup {None}]
        /\ Control(p)'
        /\ \A q \in Proc \ {p} : /\ pc'[q] = pc[q] /\ loc'[q] = loc[q]
                                 /\ glock = q => glock' = q
                                 /\ rlock = q => rlock' = q
    <3>1. CASE Goto(p, "rename", r) /\ populated' = populated \cup {d} /\ UNCHANGED lockVars
      <4>. HIDE DEF r
      <4>1. /\ pc' \in [Proc -> Label] /\ loc' \in [Proc -> Local]
            /\ pc'[p] = "rename" /\ loc'[p] = r
            /\ \A q \in Proc \ {p} : pc'[q] = pc[q] /\ loc'[q] = loc[q]
        BY <1>0, <2>2, <3>1, GotoEffect
      <4>2. Control(p)'
        BY <1>0, <2>1, <2>2, <3>1, <4>1
           DEF Control, OpAt, Names, Downloaded, Locks, Removing, Counted, Spares, Publishes,
               Delivers, GlobalLabels, GCLabels, PullLabels
      <4>. QED
        BY <1>0, <3>1, <4>1, <4>2 DEF lockVars, TypeOK
    <3>2. CASE Exit(p)
      BY <1>0, <3>2, ExitEffect
    <3>. QED
      BY <1>2, <3>1, <3>2
  <2>4. TypeOK'
    BY <1>0, <1>2, <2>1, <2>3 DEF TypeOK, fsVars, bounds
  <2>5. CacheWhole'
    BY <1>2 DEF IInv, CacheWhole, fsVars
  <2>6. ASSUME NEW q \in Proc \ {p} PROVE Control(q)'
    <3>1. Control(q) /\ UNCHANGED <<exists, files, tags, written, damaged, raced>>
      BY <1>2 DEF IInv, fsVars
    <3>2. Removing(q)' /\ Counted(q)' /\ Spares(q)'
      BY <2>3, <3>1 DEF Control, Removing, Counted, Spares
    <3>3. Publishes(q)' /\ Delivers(q)'
      BY <2>1, <2>3, <3>1 DEF Control, Publishes, Delivers, Exists, Target
    <3>. QED
      BY <2>3, <3>1, <3>2, <3>3, Frame
  <2>. QED
    BY <2>3, <2>4, <2>5, <2>6 DEF IInv
<1>. QED
  BY <1>1, <1>2 DEF PushImage

\* A crash is an error return at any point.
LEMMA CrashStep ==
  ASSUME IInv, NEW p \in Proc, Crash(p)
  PROVE  IInv'
<1>1. /\ Exit(p) /\ crashes < MaxCrashes /\ crashes' = crashes + 1
      /\ UNCHANGED <<fsVars, registry, starts, history>> /\ TypeOK
  BY DEF Crash, IInv
<1>2. crashes' \in 0 .. MaxCrashes
  BY <1>1, ConstantsAssumption DEF TypeOK
<1>3. TypeOK'
  BY <1>1, <1>2, ExitEffect DEF TypeOK, fsVars, history
<1>4. CacheWhole'
  BY <1>1 DEF IInv, CacheWhole, fsVars, history
<1>5. ASSUME NEW q \in Proc \ {p} PROVE Control(q)'
  BY <1>1, ExitEffect, QuietFrame DEF IInv
<1>. QED
  BY <1>1, <1>3, <1>4, <1>5, ExitEffect DEF IInv

---------------------------------------------------------------------------
(* The theorems.                                                           *)

\* The invariant holds of a cache that finished commands leave.
LEMMA InitIInv == Init => IInv
<1>. SUFFICES ASSUME Init PROVE IInv
  OBVIOUS
<1>1. PICK marked \in SUBSET exists :
        files = [d \in Digest |-> CASE d \in marked -> File
                                    [] d \in exists \ marked -> Image
                                    [] OTHER -> {}]
  BY DEF Init
<1>2. /\ exists \subseteq Digest /\ files \in [Digest -> SUBSET File]
      /\ \A d \in exists : Image \subseteq files[d]
  BY <1>1 DEF Init, File
<1>3. TypeOK
  BY <1>2, IdleType, ConstantsAssumption DEF Init, TypeOK, Label
<1>4. CacheWhole
  BY <1>2 DEF CacheWhole
<1>5. ASSUME NEW p \in Proc PROVE Control(p)
  <2>1. pc[p] = "idle" /\ loc[p] = Idle
    BY DEF Init
  <2>. QED
    BY <2>1
       DEF Control, OpAt, Names, Downloaded, Locks, Removing, Counted, Spares, Publishes, Delivers,
           Idle, GlobalLabels, GCLabels, PullLabels
<1>. QED
  BY <1>3, <1>4, <1>5 DEF IInv

\* Every step preserves it.
LEMMA NextIInv == IInv /\ [Next]_vars => IInv'
<1>. SUFFICES ASSUME IInv, [Next]_vars PROVE IInv'
  OBVIOUS
<1>1. ASSUME NEW p \in Proc, Start(p) \/ Step(p) \/ Crash(p) PROVE IInv'
  BY <1>1, GCWalkSteps, GCRemoveSteps, UnlinkStep, BeginSteps, DeleteSteps, PullSteps, PublishSteps,
     CloneSteps, PushStep, CrashStep DEF Step, GC
<1>2. CASE UNCHANGED vars
  <2>1. UNCHANGED <<fsVars, registry, glock, rlock, dlock, pc, loc, bounds, history>>
    BY <1>2 DEF vars, lockVars
  <2>2. TypeOK'
    BY <2>1 DEF IInv, TypeOK, fsVars, history, bounds
  <2>3. CacheWhole'
    BY <2>1 DEF IInv, CacheWhole, fsVars, history
  <2>4. ASSUME NEW q \in Proc PROVE Control(q)'
    BY <2>1, QuietFrame DEF IInv
  <2>. QED
    BY <2>2, <2>3, <2>4 DEF IInv
<1>. QED
  BY <1>1, <1>2 DEF Next, Quiet

\* The inductive invariant is one: whatever commands run side by side and
\* whichever of them are killed, every process finds itself as Control says.
THEOREM Invariance == Spec => []IInv
BY InitIInv, NextIInv, PTL DEF Spec

\* Every variable keeps its type.
THEOREM TypeCorrect == Spec => []TypeOK
<1>1. IInv => TypeOK
  BY DEF IInv
<1>. QED
  BY <1>1, Invariance, PTL

\* A directory appears in the cache with the whole image in it, and keeps it until
\* a removal begins, save for a download that a signal cut short.
THEOREM ImagesAreWhole == Spec => []CacheWhole
<1>1. IInv => CacheWhole
  BY DEF IInv
<1>. QED
  BY <1>1, Invariance, PTL

\* remote.GC removes nothing that a link listed before refers to, and nothing that
\* was marked before.
THEOREM CollectionSpares == Spec => []GCSparesReferenced
<1>1. IInv => GCSparesReferenced
  BY DEF IInv, Control, Spares, GCSparesReferenced
<1>. QED
  BY <1>1, Invariance, PTL

\* The registry lock keeps what a pull has found out true until it acts on it.
THEOREM PullsAreExclusive == Spec => []PullsDoNotCollide
<1>1. IInv => PullsDoNotCollide
  BY DEF IInv, Control, Publishes, PullsDoNotCollide
<1>. QED
  BY <1>1, Invariance, PTL

\* remote.Pull that returns nil, undisturbed, leaves the name resolvable.
THEOREM PullsDeliver == Spec => []PullDelivers
<1>1. IInv => PullDelivers
  BY DEF IInv, Control, OpAt, Delivers, PullDelivers
<1>. QED
  BY <1>1, Invariance, PTL

===========================================================================
