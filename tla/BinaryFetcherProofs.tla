------------------------ MODULE BinaryFetcherProofs ------------------------
(* Proofs about BinaryFetcher for any number of processes, commands and      *)
(* crashes, and downloads of any length.                                     *)
EXTENDS BinaryFetcher, TLAPS

---------------------------------------------------------------------------
(* The inductive invariant.                                                *)

Label == {"idle", "gcNext", "gcLock", "gcRemove", "stat", "create", "package", "fetch", "chmod",
          "close", "rename", "use", "copy", "pulled"}
Local == [op : Op, seen : SUBSET Path, path : Path \cup {None}, kernel : Nat]
Inode == [parts : Nat, exec : BOOLEAN]

\* Every variable has its type.
TypeOK ==
  /\ tmp \in SUBSET Path /\ debs \in SUBSET Path /\ abandoned \in SUBSET Path
  /\ bin \in [Binary -> Path \cup {None}]
  /\ inode \in [Path -> Inode]
  /\ flock \in [Path -> Proc \cup {None}]
  /\ pc \in [Proc -> Label] /\ loc \in [Proc -> Local]
  /\ starts \in Nat /\ crashes \in Nat

\* What a process has made sure of on its way: the file it is about to publish is
\* whole, and so is the one that it copies; what it returns is in the cache.
Control(p) ==
  /\ pc[p] \in Fetching \cup {"gcLock", "gcRemove", "copy"} => loc[p].path \in Path
  /\ pc[p] = "chmod" => inode[loc[p].path].parts = Parts
  /\ pc[p] \in {"close", "rename", "copy"} => inode[loc[p].path] = Whole
  /\ pc[p] = "use" => bin[Needs(loc[p].op)] # None
  /\ pc[p] = "pulled" => loc[p].kernel = Parts

IInv == TypeOK /\ CachedIsWhole /\ LeavesNothing /\ \A p \in Proc : Control(p)

---------------------------------------------------------------------------
(* Facts that every step needs.                                            *)

LEMMA IdleType == Idle \in Local
BY DEF Idle, Local, Op

LEMMA NeedsType == \A op : Needs(op) \in Binary
BY DEF Needs, Binary

\* What Goto(p, l, r) does to the process that takes the step and to the others.
LEMMA GotoEffect ==
  ASSUME TypeOK, NEW p \in Proc, NEW l \in Label, NEW r \in Local, Goto(p, l, r)
  PROVE  /\ pc' \in [Proc -> Label] /\ loc' \in [Proc -> Local]
         /\ pc'[p] = l /\ loc'[p] = r
         /\ \A q \in Proc : q # p => (pc'[q] = pc[q] /\ loc'[q] = loc[q])
BY DEF TypeOK, Goto

LEMMA Executable ==
  ASSUME NEW i \in [parts : Nat, exec : BOOLEAN], i.parts = Parts
  PROVE  [i EXCEPT !.exec = TRUE] = [parts |-> Parts, exec |-> TRUE]
<1> DEFINE j == [i EXCEPT !.exec = TRUE]
<1>1. j \in [parts : Nat, exec : BOOLEAN] /\ j.parts = Parts /\ j.exec = TRUE  OBVIOUS
<1> HIDE DEF j
<1>2. j = [parts |-> Parts, exec |-> TRUE]  BY <1>1
<1> QED  BY <1>2 DEF j

\* What no step undoes: a name in cache/bin stays there, whatever it leads to, and
\* a file neither shrinks nor ceases to be executable.
Grows ==
  /\ \A b \in Binary : bin[b] # None => bin'[b] # None
  /\ \A f \in Path : /\ (inode[f].parts = Parts) => (inode'[f].parts = Parts)
                     /\ (inode[f] = Whole) => (inode'[f] = Whole)

\* A step of p leaves nothing behind, if it does not forget its own file.
Tidy(p) ==
  /\ abandoned \subseteq abandoned'
  /\ \A f \in tmp' : \/ f \in tmp /\ ~(pc[p] \in Fetching /\ loc[p].path = f)
                     \/ f \in abandoned' \/ (pc'[p] \in Fetching /\ loc'[p].path = f)
  /\ \A f \in debs' : \/ f \in debs /\ ~(pc[p] = "fetch" /\ loc[p].path = f)
                      \/ f \in abandoned' \/ (pc'[p] = "fetch" /\ loc'[p].path = f)

LEMMA StepFrame ==
  ASSUME IInv, TypeOK', NEW p \in Proc, Grows, Tidy(p), Control(p)',
         \A q \in Proc : q # p => (pc'[q] = pc[q] /\ loc'[q] = loc[q]),
         \A b \in Binary : (bin'[b] # bin[b]) => (bin'[b] \in Path /\ inode'[bin'[b]] = Whole)
  PROVE  IInv'
<1>1. ASSUME NEW q \in Proc PROVE Control(q)'
  <2>1. CASE q = p  BY <2>1
  <2>2. CASE q # p
    <3>1. Control(q) /\ pc'[q] = pc[q] /\ loc'[q] = loc[q]  BY <2>2 DEF IInv
    <3> QED  BY <3>1, NeedsType DEF Control, Grows, Fetching
  <2> QED  BY <2>1, <2>2
<1>2. CachedIsWhole'
  <2> SUFFICES ASSUME NEW b \in Binary, bin'[b] # None PROVE inode'[bin'[b]] = Whole
    BY DEF CachedIsWhole
  <2>1. CASE bin'[b] = bin[b]
    <3>1. bin[b] \in Path /\ inode[bin[b]] = Whole  BY <2>1 DEF IInv, TypeOK, CachedIsWhole
    <3> QED  BY <2>1, <3>1 DEF Grows
  <2>2. CASE bin'[b] # bin[b]  BY <2>2
  <2> QED  BY <2>1, <2>2
<1>3. ASSUME NEW f \in tmp'
      PROVE  f \in abandoned' \/ \E q \in Proc : loc'[q].path = f /\ pc'[q] \in Fetching
  <2>1. CASE f \in tmp /\ ~(pc[p] \in Fetching /\ loc[p].path = f)
    <3>1. f \in abandoned \/ \E q \in Proc : loc[q].path = f /\ pc[q] \in Fetching
      BY <2>1 DEF IInv, LeavesNothing
    <3> QED  BY <2>1, <3>1 DEF Tidy
  <2> QED  BY <2>1, <1>3 DEF Tidy
<1>4. ASSUME NEW f \in debs'
      PROVE  f \in abandoned' \/ \E q \in Proc : loc'[q].path = f /\ pc'[q] = "fetch"
  <2>1. CASE f \in debs /\ ~(pc[p] = "fetch" /\ loc[p].path = f)
    <3>1. f \in abandoned \/ \E q \in Proc : loc[q].path = f /\ pc[q] = "fetch"
      BY <2>1 DEF IInv, LeavesNothing
    <3> QED  BY <2>1, <3>1 DEF Tidy
  <2> QED  BY <2>1, <1>4 DEF Tidy
<1> QED  BY <1>1, <1>2, <1>3, <1>4 DEF IInv, LeavesNothing

\* A step that changes no file: only where p is, and who has locked what.
LEMMA QuietStep ==
  ASSUME IInv, NEW p \in Proc, NEW l \in Label, NEW r \in Local, Goto(p, l, r),
         pc[p] \notin Fetching, l \notin Fetching,
         flock' \in [Path -> Proc \cup {None}], starts' \in Nat, crashes' \in Nat,
         UNCHANGED <<bin, inode, debs, abandoned>>, tmp' \subseteq tmp,
         (l \in {"gcLock", "gcRemove", "copy"}) => (r.path \in Path),
         (l = "copy") => (inode[r.path] = Whole),
         (l = "use") => (bin[Needs(r.op)] # None),
         (l = "pulled") => (r.kernel = Parts)
  PROVE  IInv'
<1>1. TypeOK  BY DEF IInv
<1>2. /\ pc' \in [Proc -> Label] /\ loc' \in [Proc -> Local]
      /\ pc'[p] = l /\ loc'[p] = r
      /\ \A q \in Proc : q # p => (pc'[q] = pc[q] /\ loc'[q] = loc[q])
  BY <1>1, GotoEffect
<1>3. TypeOK'  BY <1>1, <1>2 DEF TypeOK
<1>4. Control(p)'  BY <1>2 DEF Control, Fetching
<1>5. Grows /\ Tidy(p)  BY DEF Grows, Tidy, Fetching
<1> QED  BY <1>2, <1>3, <1>4, <1>5, StepFrame

---------------------------------------------------------------------------
(* The collection                                                          *)

LEMMA StartStep == ASSUME IInv, NEW p \in Proc, Start(p) PROVE IInv'
<1> USE DEF Start, fsVars
<1>1. TypeOK  BY DEF IInv
<1>2. PICK op \in Op : Goto(p, "gcNext", [Idle EXCEPT !.op = op, !.seen = tmp])  OBVIOUS
<1> DEFINE r == [Idle EXCEPT !.op = op, !.seen = tmp]
<1>3. r \in Local  BY <1>1 DEF Idle, Local, TypeOK
<1>4. flock' \in [Path -> Proc \cup {None}] /\ starts' \in Nat /\ crashes' \in Nat  BY <1>1 DEF TypeOK
<1> HIDE DEF r
<1>5. Goto(p, "gcNext", r)  BY <1>2 DEF r
<1> QED  BY <1>3, <1>4, <1>5, QuietStep DEF Label, Fetching

LEMMA CollectSteps ==
  ASSUME IInv, NEW p \in Proc, GCOpen(p) \/ GCTrylock(p) \/ GCRemove(p) \/ GCDone(p)
  PROVE  IInv'
<1> USE DEF fsVars, bounds, Label, Fetching
<1>1. TypeOK /\ Control(p) /\ loc[p] \in Local  BY DEF IInv, TypeOK
<1>2. flock \in [Path -> Proc \cup {None}] /\ starts \in Nat /\ crashes \in Nat  BY <1>1 DEF TypeOK
<1>3. CASE GCOpen(p)
  <2>1. PICK f \in loc[p].seen :
          IF f \in tmp THEN Goto(p, "gcLock", [loc[p] EXCEPT !.path = f])
          ELSE Goto(p, "gcNext", [loc[p] EXCEPT !.seen = @ \ {f}])
    BY <1>3 DEF GCOpen
  <2>2. f \in Path  BY <1>1, <2>1 DEF Local
  <2>3. pc[p] = "gcNext" /\ UNCHANGED <<fsVars, flock, bounds, abandoned>>  BY <1>3 DEF GCOpen
  <2>4. CASE f \in tmp
    <3> DEFINE r == [loc[p] EXCEPT !.path = f]
    <3>1. r \in Local /\ r.path = f  BY <1>1, <2>2 DEF Local
    <3>2. Goto(p, "gcLock", r)  BY <2>1, <2>4
    <3> HIDE DEF r
    <3> QED  BY <1>2, <2>2, <2>3, <3>1, <3>2, QuietStep
  <2>5. CASE f \notin tmp
    <3> DEFINE r == [loc[p] EXCEPT !.seen = @ \ {f}]
    <3>1. r \in Local  BY <1>1 DEF Local
    <3>2. Goto(p, "gcNext", r)  BY <2>1, <2>5
    <3> HIDE DEF r
    <3> QED  BY <1>2, <2>3, <3>1, <3>2, QuietStep
  <2> QED  BY <2>4, <2>5
<1>4. CASE GCTrylock(p)
  <2> DEFINE f == loc[p].path
  <2>1. f \in Path  BY <1>1, <1>4 DEF GCTrylock, Control
  <2>2. pc[p] = "gcLock" /\ UNCHANGED <<fsVars, bounds, abandoned>>  BY <1>4 DEF GCTrylock
  <2>3. CASE flock[f] \in {None, p}
    <3>1. flock' = [flock EXCEPT ![f] = p] /\ Goto(p, "gcRemove", loc[p])  BY <1>4, <2>3 DEF GCTrylock
    <3>2. flock' \in [Path -> Proc \cup {None}]  BY <1>2, <3>1
    <3> QED  BY <1>1, <1>2, <2>1, <2>2, <3>1, <3>2, QuietStep
  <2>4. CASE flock[f] \notin {None, p}
    <3> DEFINE r == [loc[p] EXCEPT !.seen = @ \ {f}]
    <3>1. r \in Local  BY <1>1 DEF Local
    <3>2. Goto(p, "gcNext", r) /\ flock' = flock  BY <1>4, <2>4 DEF GCTrylock
    <3> HIDE DEF r
    <3> QED  BY <1>2, <2>2, <3>1, <3>2, QuietStep
  <2> QED  BY <2>3, <2>4
<1>5. CASE GCRemove(p)
  <2> DEFINE f == loc[p].path
             r == [loc[p] EXCEPT !.seen = @ \ {f}, !.path = None]
  <2>1. f \in Path  BY <1>1, <1>5 DEF GCRemove, Control
  <2>2. /\ pc[p] = "gcRemove" /\ UNCHANGED <<bin, inode, debs, bounds, abandoned>>
        /\ tmp' \subseteq tmp /\ Goto(p, "gcNext", r) /\ flock' = [flock EXCEPT ![f] = None]
    BY <1>5 DEF GCRemove
  <2>3. r \in Local  BY <1>1 DEF Local
  <2>4. flock' \in [Path -> Proc \cup {None}]  BY <1>2, <2>1, <2>2
  <2> HIDE DEF r
  <2> QED  BY <1>2, <2>2, <2>3, <2>4, QuietStep
<1>6. CASE GCDone(p)
  <2>1. \/ Goto(p, "idle", Idle)
        \/ Goto(p, "stat", loc[p])
    BY <1>6 DEF GCDone, End
  <2>2. pc[p] = "gcNext" /\ UNCHANGED <<fsVars, flock, bounds, abandoned>>  BY <1>6 DEF GCDone
  <2> QED  BY <1>1, <1>2, <2>1, <2>2, IdleType, QuietStep
<1> QED  BY <1>3, <1>4, <1>5, <1>6

---------------------------------------------------------------------------
(* GetOrFetch                                                              *)

LEMMA StatStep == ASSUME IInv, NEW p \in Proc, Stat(p) PROVE IInv'
<1> USE DEF fsVars, bounds, Label, Fetching
<1>1. TypeOK /\ loc[p] \in Local  BY DEF IInv, TypeOK
<1>2. flock \in [Path -> Proc \cup {None}] /\ starts \in Nat /\ crashes \in Nat  BY <1>1 DEF TypeOK
<1>3. pc[p] = "stat" /\ UNCHANGED <<fsVars, flock, bounds, abandoned>>  BY DEF Stat
<1>4. CASE Goto(p, "idle", Idle)  BY <1>2, <1>3, <1>4, IdleType, QuietStep
<1>5. CASE bin[Needs(loc[p].op)] = None /\ Goto(p, "create", loc[p])
  BY <1>1, <1>2, <1>3, <1>5, QuietStep
<1>6. CASE bin[Needs(loc[p].op)] # None /\ Goto(p, "use", loc[p])
  BY <1>1, <1>2, <1>3, <1>6, QuietStep
<1> QED  BY <1>4, <1>5, <1>6 DEF Stat, End

LEMMA CreateStep == ASSUME IInv, NEW p \in Proc, CreateTemp(p) PROVE IInv'
<1> USE DEF fsVars, bounds
<1>1. TypeOK /\ loc[p] \in Local  BY DEF IInv, TypeOK
<1>2. PICK f \in Path :
        /\ tmp' = tmp \cup {f}
        /\ Goto(p, IF Needs(loc[p].op) \in Packaged THEN "package" ELSE "fetch",
                [loc[p] EXCEPT !.path = f])
  BY DEF CreateTemp, Fresh
<1>3. pc[p] = "create" /\ UNCHANGED <<bin, inode, debs, flock, bounds, abandoned>>  BY DEF CreateTemp
<1> DEFINE l == IF Needs(loc[p].op) \in Packaged THEN "package" ELSE "fetch"
           r == [loc[p] EXCEPT !.path = f]
<1>4. r \in Local /\ r.path = f /\ l \in {"package", "fetch"} /\ Goto(p, l, r)
  BY <1>1, <1>2 DEF Local
<1> HIDE DEF r, l
<1>5. /\ pc' \in [Proc -> Label] /\ loc' \in [Proc -> Local]
      /\ pc'[p] = l /\ loc'[p] = r
      /\ \A q \in Proc : q # p => (pc'[q] = pc[q] /\ loc'[q] = loc[q])
  BY <1>1, <1>4, GotoEffect DEF Label
<1>6. TypeOK'  BY <1>1, <1>2, <1>3, <1>5 DEF TypeOK
<1>7. Control(p)'  BY <1>4, <1>5 DEF Control
<1>8. Grows /\ Tidy(p)  BY <1>2, <1>3, <1>4, <1>5 DEF Grows, Tidy, Fetching
<1> QED  BY <1>3, <1>5, <1>6, <1>7, <1>8, StepFrame

\* GetOrFetch ends while p has a file, which it removes or abandons.
LEMMA EndStep ==
  ASSUME IInv, NEW p \in Proc, pc[p] \in Fetching, End(p), UNCHANGED <<bin, inode, flock, bounds>>,
         abandoned' \in SUBSET Path, abandoned \subseteq abandoned', tmp' \subseteq tmp,
         debs' \subseteq debs \cup {loc[p].path}, 
         loc[p].path \in tmp' => loc[p].path \in abandoned',
         loc[p].path \in debs' => loc[p].path \in abandoned'
  PROVE  IInv'
<1>1. TypeOK /\ Control(p)  BY DEF IInv
<1>2. /\ pc' \in [Proc -> Label] /\ loc' \in [Proc -> Local]
      /\ pc'[p] = "idle" /\ loc'[p] = Idle
      /\ \A q \in Proc : q # p => (pc'[q] = pc[q] /\ loc'[q] = loc[q])
  BY <1>1, GotoEffect, IdleType DEF End, Label
<1>3. TypeOK'
  <2>1. loc[p].path \in Path  BY <1>1 DEF Control
  <2> QED  BY <1>1, <1>2, <2>1 DEF TypeOK, bounds
<1>4. Control(p)'  BY <1>2 DEF Control, Fetching
<1>5. Grows  BY DEF Grows
<1>6. Tidy(p)  BY DEF Tidy
<1> QED  BY <1>2, <1>3, <1>4, <1>5, <1>6, StepFrame

\* p goes on with its file, without a change to any.
LEMMA GoOnStep ==
  ASSUME IInv, NEW p \in Proc, pc[p] \in Fetching, NEW l \in Fetching, Goto(p, l, loc[p]),
         UNCHANGED <<tmp, bin, inode, flock, bounds, abandoned>>,
         debs' \subseteq debs \cup {loc[p].path}, loc[p].path \in debs' => l = "fetch",
         l = "chmod" => inode[loc[p].path].parts = Parts,
         l \in {"close", "rename"} => inode[loc[p].path] = Whole
  PROVE  IInv'
<1>1. TypeOK /\ Control(p) /\ loc[p] \in Local  BY DEF IInv, TypeOK
<1>2. /\ pc' \in [Proc -> Label] /\ loc' \in [Proc -> Local]
      /\ pc'[p] = l /\ loc'[p] = loc[p]
      /\ \A q \in Proc : q # p => (pc'[q] = pc[q] /\ loc'[q] = loc[q])
  BY <1>1, GotoEffect DEF Label, Fetching
<1>3. loc[p].path \in Path  BY <1>1 DEF Control
<1>4. TypeOK'  BY <1>1, <1>2, <1>3 DEF TypeOK, bounds
<1>5. Control(p)'  BY <1>2, <1>3 DEF Control, Fetching
<1>6. Grows  BY DEF Grows
<1>7. Tidy(p)  BY <1>2 DEF Tidy
<1> QED  BY <1>2, <1>4, <1>5, <1>6, <1>7, StepFrame

\* p writes its file, which was not whole or becomes so.
LEMMA WriteStep ==
  ASSUME IInv, NEW p \in Proc, NEW i \in Inode, inode' = [inode EXCEPT ![loc[p].path] = i],
         UNCHANGED <<tmp, bin, debs, flock, bounds, abandoned>>,
         inode[loc[p].path].parts = Parts => i.parts = Parts,
         inode[loc[p].path] = Whole => i = Whole,
         \/ pc[p] = "fetch" /\ UNCHANGED <<pc, loc>>
         \/ pc[p] = "chmod" /\ Goto(p, "close", loc[p]) /\ i = Whole
  PROVE  IInv'
<1>1. TypeOK /\ Control(p) /\ loc[p] \in Local  BY DEF IInv, TypeOK
<1>2. /\ pc' \in [Proc -> Label] /\ loc' \in [Proc -> Local]
      /\ (pc[p] = "fetch" /\ pc'[p] = "fetch") \/ (pc[p] = "chmod" /\ pc'[p] = "close" /\ i = Whole)
      /\ loc'[p] = loc[p]
      /\ \A q \in Proc : q # p => (pc'[q] = pc[q] /\ loc'[q] = loc[q])
  <2>1. CASE pc[p] = "fetch" /\ UNCHANGED <<pc, loc>>  BY <1>1, <2>1 DEF TypeOK
  <2>2. CASE pc[p] = "chmod" /\ Goto(p, "close", loc[p]) /\ i = Whole
    BY <1>1, <2>2, GotoEffect DEF Label
  <2> QED  BY <2>1, <2>2
<1>3. loc[p].path \in Path  BY <1>1, <1>2 DEF Control, Fetching
<1>4. /\ inode' \in [Path -> Inode] /\ inode'[loc[p].path] = i
      /\ \A f \in Path : f # loc[p].path => inode'[f] = inode[f]
  BY <1>1, <1>3 DEF TypeOK
<1>5. TypeOK'  BY <1>1, <1>2, <1>4 DEF TypeOK, bounds
<1>6. Control(p)'  BY <1>2, <1>3, <1>4 DEF Control, Fetching
<1>7. Grows  BY <1>4 DEF Grows
<1>8. Tidy(p)  BY <1>2 DEF Tidy, Fetching
<1> QED  BY <1>2, <1>5, <1>6, <1>7, <1>8, StepFrame

LEMMA FetchSteps == ASSUME IInv, NEW p \in Proc, Fetch(p) PROVE IInv'
<1> USE DEF bounds
<1>1. TypeOK /\ Control(p)  BY DEF IInv
<1>2. CASE FetchPackage(p)
  <2>1. pc[p] = "package" /\ UNCHANGED <<bin, inode, flock, bounds>>  BY <1>2 DEF FetchPackage
  <2>2. loc[p].path \in Path  BY <1>1, <2>1 DEF Control, Fetching
  <2>3. CASE /\ debs' = debs \cup {loc[p].path} /\ Goto(p, "fetch", loc[p])
             /\ UNCHANGED <<tmp, abandoned>>
    BY <2>1, <2>3, GoOnStep DEF Fetching
  <2>4. CASE Drop(p) /\ UNCHANGED abandoned
    BY <1>1, <2>1, <2>4, EndStep DEF Fetching, Drop, TypeOK
  <2>5. CASE /\ tmp' = tmp \ {loc[p].path} /\ debs' = debs \cup {loc[p].path}
             /\ abandoned' = abandoned \cup {loc[p].path} /\ End(p)
    BY <1>1, <2>1, <2>2, <2>5, EndStep DEF Fetching, TypeOK
  <2> QED  BY <1>2, <2>3, <2>4, <2>5 DEF FetchPackage
<1>3. CASE FetchPart(p)
  <2> DEFINE f == loc[p].path
             i == [inode[f] EXCEPT !.parts = @ + 1]
  <2>1. /\ pc[p] = "fetch" /\ inode[f].parts < Parts /\ inode' = [inode EXCEPT ![f] = i]
        /\ UNCHANGED <<tmp, bin, debs, flock, pc, loc, bounds, abandoned>>
    BY <1>3 DEF FetchPart
  <2>2. f \in Path  BY <1>1, <2>1 DEF Control, Fetching
  <2>3. inode[f] \in Inode /\ i \in Inode  BY <1>1, <2>2 DEF TypeOK, Inode
  <2>4. inode[f].parts # Parts /\ inode[f] # Whole
    BY <2>1, <2>3, ConstantsAssumption DEF Whole, Inode
  <2> HIDE DEF i
  <2> QED  BY <2>1, <2>3, <2>4, WriteStep
<1>4. CASE FetchDone(p)
  BY <1>1, <1>4, GoOnStep DEF FetchDone, Fetching
<1>5. CASE FetchFail(p)
  BY <1>1, <1>5, EndStep DEF FetchFail, Drop, Fetching, TypeOK
<1> QED  BY <1>2, <1>3, <1>4, <1>5 DEF Fetch

LEMMA FinishSteps == ASSUME IInv, NEW p \in Proc, Chmod(p) \/ Close(p) \/ Rename(p) PROVE IInv'
<1> USE DEF bounds, fsVars
<1>1. TypeOK /\ Control(p) /\ loc[p] \in Local  BY DEF IInv, TypeOK
<1>2. CASE Chmod(p)
  <2> DEFINE f == loc[p].path
             i == [inode[f] EXCEPT !.exec = TRUE]
  <2>1. pc[p] = "chmod" /\ UNCHANGED <<bin, flock, bounds, abandoned>>  BY <1>2 DEF Chmod
  <2>2. f \in Path /\ inode[f].parts = Parts  BY <1>1, <2>1 DEF Control, Fetching
  <2>3. i \in Inode /\ i = Whole
    <3>1. inode[f] \in [parts : Nat, exec : BOOLEAN]  BY <1>1, <2>2 DEF TypeOK, Inode
    <3>2. i = [parts |-> Parts, exec |-> TRUE]  BY <2>2, <3>1, Executable
    <3> QED  BY <3>2, ConstantsAssumption DEF Whole, Inode
  <2>4. CASE inode' = [inode EXCEPT ![f].exec = TRUE] /\ Goto(p, "close", loc[p]) /\ UNCHANGED <<tmp, debs>>
    <3>1. inode' = [inode EXCEPT ![f] = i]  BY <2>4
    <3> HIDE DEF i
    <3> QED  BY <2>1, <2>3, <2>4, <3>1, WriteStep DEF Whole
  <2>5. CASE Drop(p) /\ UNCHANGED inode
    BY <1>1, <2>1, <2>5, EndStep DEF Drop, Fetching, TypeOK
  <2> QED  BY <1>2, <2>4, <2>5 DEF Chmod
<1>3. CASE Close(p)
  <2>1. pc[p] = "close" /\ UNCHANGED <<fsVars, flock, bounds>>  BY <1>3 DEF Close
  <2>2. loc[p].path \in Path /\ inode[loc[p].path] = Whole  BY <1>1, <2>1 DEF Control, Fetching
  <2>3. CASE Goto(p, "rename", loc[p]) /\ UNCHANGED abandoned
    <3>1. /\ pc' \in [Proc -> Label] /\ loc' \in [Proc -> Local]
          /\ pc'[p] = "rename" /\ loc'[p] = loc[p]
          /\ \A q \in Proc : q # p => (pc'[q] = pc[q] /\ loc'[q] = loc[q])
      BY <1>1, <2>3, GotoEffect DEF Label
    <3>2. TypeOK'  BY <1>1, <2>1, <2>3, <3>1 DEF TypeOK
    <3>3. Control(p)'  BY <2>1, <2>2, <3>1 DEF Control, Fetching
    <3>4. Grows /\ Tidy(p)  BY <2>1, <2>3, <3>1 DEF Grows, Tidy, Fetching
    <3> QED  BY <2>1, <3>1, <3>2, <3>3, <3>4, StepFrame
  <2>4. CASE End(p) /\ abandoned' = abandoned \cup {loc[p].path}
    BY <1>1, <2>1, <2>2, <2>4, EndStep DEF Fetching, TypeOK
  <2> QED  BY <1>3, <2>3, <2>4 DEF Close
<1>4. CASE Rename(p)
  <2> DEFINE f == loc[p].path
             b == Needs(loc[p].op)
             r == [loc[p] EXCEPT !.path = None]
  <2>1. pc[p] = "rename" /\ UNCHANGED <<inode, debs, flock, bounds>>  BY <1>4 DEF Rename
  <2>2. f \in Path /\ inode[f] = Whole  BY <1>1, <2>1 DEF Control, Fetching
  <2>3. CASE /\ tmp' = tmp \ {f} /\ bin' = [bin EXCEPT ![b] = f] /\ Goto(p, "use", r)
             /\ UNCHANGED abandoned
    <3>1. tmp' = tmp \ {f} /\ bin' = [bin EXCEPT ![b] = f] /\ Goto(p, "use", r) /\ UNCHANGED abandoned
      BY <2>3
    <3>2. r \in Local /\ r.op = loc[p].op  BY <1>1 DEF Local
    <3> HIDE DEF r
    <3>3. /\ pc' \in [Proc -> Label] /\ loc' \in [Proc -> Local]
          /\ pc'[p] = "use" /\ loc'[p] = r
          /\ \A q \in Proc : q # p => (pc'[q] = pc[q] /\ loc'[q] = loc[q])
      BY <1>1, <3>1, <3>2, GotoEffect DEF Label
    <3>4. /\ b \in Binary /\ bin' \in [Binary -> Path \cup {None}] /\ bin'[b] = f
          /\ \A c \in Binary : c # b => bin'[c] = bin[c]
      BY <1>1, <2>2, <3>1, NeedsType DEF TypeOK
    <3>5. f # None  BY <2>2, ConstantsAssumption
    <3>6. TypeOK'  BY <1>1, <2>1, <3>1, <3>3, <3>4 DEF TypeOK
    <3>7. Control(p)'  BY <3>2, <3>3, <3>4, <3>5 DEF Control, Fetching
    <3>8. Grows  BY <2>1, <3>4, <3>5 DEF Grows
    <3>9. Tidy(p)  BY <2>1, <3>1 DEF Tidy
    <3>10. \A c \in Binary : (bin'[c] # bin[c]) => (bin'[c] \in Path /\ inode'[bin'[c]] = Whole)
      BY <2>1, <2>2, <3>4
    <3> QED  BY <3>3, <3>6, <3>7, <3>8, <3>9, <3>10, StepFrame
  <2>4. CASE End(p) /\ abandoned' = abandoned \cup ({f} \cap tmp) /\ UNCHANGED <<tmp, bin>>
    <3>1. /\ pc' \in [Proc -> Label] /\ loc' \in [Proc -> Local]
          /\ pc'[p] = "idle" /\ loc'[p] = Idle
          /\ \A q \in Proc : q # p => (pc'[q] = pc[q] /\ loc'[q] = loc[q])
      BY <1>1, <2>4, GotoEffect, IdleType DEF End, Label
    <3>2. TypeOK'  BY <1>1, <2>1, <2>2, <2>4, <3>1 DEF TypeOK
    <3>3. Control(p)'  BY <3>1 DEF Control, Fetching
    <3>4. Grows /\ Tidy(p)  BY <2>1, <2>4 DEF Grows, Tidy, Fetching
    <3> QED  BY <2>1, <2>4, <3>1, <3>2, <3>3, <3>4, StepFrame
  <2> QED  BY <1>4, <2>3, <2>4 DEF Rename
<1> QED  BY <1>2, <1>3, <1>4

---------------------------------------------------------------------------
(* The callers, and crashes                                                *)

LEMMA UseSteps ==
  ASSUME IInv, NEW p \in Proc, Execute(p) \/ CopyOpen(p) \/ CopyPart(p) \/ CopyDone(p)
  PROVE  IInv'
<1> USE DEF fsVars, bounds, Label, Fetching
<1>1. TypeOK /\ Control(p) /\ loc[p] \in Local  BY DEF IInv, TypeOK
<1>2. flock \in [Path -> Proc \cup {None}] /\ starts \in Nat /\ crashes \in Nat  BY <1>1 DEF TypeOK
<1>3. CASE Execute(p)  BY <1>2, <1>3, IdleType, QuietStep DEF Execute, End
<1>4. CASE CopyOpen(p)
  <2> DEFINE f == bin[Needs(loc[p].op)]
             r == [loc[p] EXCEPT !.path = f]
  <2>1. /\ pc[p] = "use" /\ f # None /\ Goto(p, "copy", r)
        /\ UNCHANGED <<fsVars, flock, bounds, abandoned>>
    BY <1>4 DEF CopyOpen
  <2>2. f \in Path /\ inode[f] = Whole  BY <1>1, <2>1, NeedsType DEF IInv, TypeOK, CachedIsWhole
  <2>3. r \in Local /\ r.path = f  BY <1>1, <2>2 DEF Local
  <2> HIDE DEF r
  <2> QED  BY <1>2, <2>1, <2>2, <2>3, QuietStep
<1>5. CASE CopyPart(p)
  <2> DEFINE r == [loc[p] EXCEPT !.kernel = @ + 1]
  <2>1. /\ pc[p] = "copy" /\ Goto(p, "copy", r) /\ UNCHANGED <<fsVars, flock, bounds, abandoned>>
    BY <1>5 DEF CopyPart
  <2>2. loc[p].path \in Path /\ inode[loc[p].path] = Whole  BY <1>1, <2>1 DEF Control
  <2>3. r \in Local /\ r.path = loc[p].path  BY <1>1 DEF Local
  <2> HIDE DEF r
  <2> QED  BY <1>2, <2>1, <2>2, <2>3, QuietStep
<1>6. CASE CopyDone(p)
  <2> DEFINE r == [Idle EXCEPT !.op = "tart", !.kernel = loc[p].kernel]
  <2>1. /\ pc[p] = "copy" /\ loc[p].kernel = inode[loc[p].path].parts /\ Goto(p, "pulled", r)
        /\ UNCHANGED <<fsVars, flock, bounds, abandoned>>
    BY <1>6 DEF CopyDone
  <2>2. loc[p].kernel = Parts  BY <1>1, <2>1 DEF Control, Whole
  <2>3. r \in Local /\ r.kernel = loc[p].kernel  BY <1>1 DEF Local, Idle, Op
  <2> HIDE DEF r
  <2> QED  BY <1>2, <2>1, <2>2, <2>3, QuietStep
<1> QED  BY <1>3, <1>4, <1>5, <1>6

LEMMA CrashStep == ASSUME IInv, NEW p \in Proc, Crash(p) PROVE IInv'
<1> USE DEF fsVars
<1>1. TypeOK /\ Control(p)  BY DEF IInv
<1>2. /\ pc' \in [Proc -> Label] /\ loc' \in [Proc -> Local]
      /\ pc'[p] = "idle" /\ loc'[p] = Idle
      /\ \A q \in Proc : q # p => (pc'[q] = pc[q] /\ loc'[q] = loc[q])
  BY <1>1, GotoEffect, IdleType DEF Crash, End, Label
<1>3. /\ abandoned' \in SUBSET Path /\ abandoned \subseteq abandoned'
      /\ (pc[p] \in Fetching) => (loc[p].path \in abandoned')
  BY <1>1 DEF Crash, TypeOK, Control
<1>4. UNCHANGED fsVars /\ starts' \in Nat /\ crashes' \in Nat /\ flock' \in [Path -> Proc \cup {None}]
  BY <1>1 DEF Crash, TypeOK
<1>5. TypeOK'  BY <1>1, <1>2, <1>3, <1>4 DEF TypeOK
<1>6. Control(p)'  BY <1>2 DEF Control, Fetching
<1>7. Grows  BY <1>4 DEF Grows
<1>8. Tidy(p)  BY <1>3, <1>4 DEF Tidy, Fetching
<1> QED  BY <1>2, <1>4, <1>5, <1>6, <1>7, <1>8, StepFrame

LEMMA InitIInv == Init => IInv
<1> SUFFICES ASSUME Init PROVE IInv  OBVIOUS
<1> USE DEF Init
<1>1. TypeOK  BY IdleType DEF TypeOK, Label, Inode, Empty
<1>2. CachedIsWhole /\ LeavesNothing  BY DEF CachedIsWhole, LeavesNothing
<1>3. \A p \in Proc : Control(p)  BY DEF Control, Fetching
<1> QED  BY <1>1, <1>2, <1>3 DEF IInv

LEMMA NextIInv == IInv /\ [Next]_vars => IInv'
<1> SUFFICES ASSUME IInv, [Next]_vars PROVE IInv'  OBVIOUS
<1>1. CASE UNCHANGED vars
  BY <1>1 DEF vars, IInv, TypeOK, CachedIsWhole, LeavesNothing, Control
<1>2. ASSUME NEW p \in Proc, Start(p) \/ Step(p) \/ Crash(p) PROVE IInv'
  BY <1>2, StartStep, CollectSteps, StatStep, CreateStep, FetchSteps, FinishSteps, UseSteps, CrashStep
     DEF Step
<1> QED  BY <1>1, <1>2 DEF Next, Quiet

---------------------------------------------------------------------------
(* The theorems                                                            *)

\* The invariant holds in every state, for any number of processes and commands.
THEOREM Invariance == Spec => []IInv
BY InitIInv, NextIInv, PTL DEF Spec

\* cache/bin only ever leads to whole, executable files.
THEOREM CachedIsWholeAlways == Spec => []CachedIsWhole
<1>1. IInv => CachedIsWhole  BY DEF IInv
<1> QED  BY <1>1, Invariance, PTL

\* What GetOrFetch returns can be used, and the kernel of a pulled Tart VM is the
\* whole firmware, whoever replaces or collects files meanwhile.
THEOREM FetchedIsUsableAlways == Spec => []FetchedIsUsable
<1>1. IInv => FetchedIsUsable  BY DEF IInv, Control, FetchedIsUsable
<1> QED  BY <1>1, Invariance, PTL

\* A command that was not killed leaves no file behind, but where Close or the
\* copy of a package fails.
THEOREM LeavesNothingAlways == Spec => []LeavesNothing
<1>1. IInv => LeavesNothing  BY DEF IInv
<1> QED  BY <1>1, Invariance, PTL

=============================================================================
