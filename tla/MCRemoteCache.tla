--------------------------- MODULE MCRemoteCache ---------------------------
(* Instances of RemoteCache for TLC.                                       *)
EXTENDS RemoteCache

Line(o, s) == [op |-> o, args |-> s]

\* The digest that commands name.  Another one is met as what a tag stands for in
\* the cache or in the registry, so that the two are never named for each other.
Named == CHOOSE d \in Digest : TRUE

\* Every command: pull of a tag or a digest, delete of either or of both, clone
\* and push of a tag.
AllCommands ==
  {Line("pull", {r}) : r \in Tag \cup {Named}}
    \cup {Line("delete", s) : s \in (SUBSET (Tag \cup {Named})) \ {{}}}
    \cup {Line(o, {t}) : o \in {"clone", "push"}, t \in Tag}
===========================================================================
