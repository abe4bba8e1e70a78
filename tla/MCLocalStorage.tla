-------------------------- MODULE MCLocalStorage --------------------------
(* Instances of LocalStorage for TLC.                                      *)
EXTENDS LocalStorage

CONSTANTS a, b   \* the VM names

Line(o, s, t) == [op |-> o, args |-> s, dst |-> t]

\* Every command on every name.
AllCommands ==
  {Line("create", {}, n) : n \in Name} \cup {Line("clone", {m}, n) : m, n \in Name}
    \cup {Line("delete", s, None) : s \in (SUBSET Name) \ {{}}}
    \cup {Line(o, {n}, None) : o \in {"set", "run", "push"}, n \in Name}

PickAny(S) == CHOOSE x \in S : TRUE

\* Each name has a VM or not; which inode it has does not matter.
DistinctVMs ==
  LET inode == CHOOSE f \in [Name -> Dir] : \A m, n \in Name : f[m] = f[n] => m = n
  IN {[n \in Name |-> IF n \in S THEN inode[n] ELSE None] : S \in SUBSET Name}

===========================================================================
