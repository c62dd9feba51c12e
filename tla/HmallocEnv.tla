----------------------------- MODULE HmallocEnv -----------------------------
(***************************************************************************)
(* The HMALLOC_* environment variables: the only channel from hmctl, which *)
(* writes them, to libhmalloc, which reads them when it is loaded.         *)
(***************************************************************************)
EXTENDS NodeMask

CONSTANT Unset   \* a variable that is not in the environment

Modes == {"default", "preferred", "bind", "interleave", "preferred_many",
          "weighted_interleave"}

\* HMALLOC_JEMALLOC is "1" or not, HMALLOC_MPOL_MODE the number of a mode,
\* HMALLOC_NODEMASK the text of a mask.
Environs == [jemalloc : BOOLEAN, mode : Modes \cup {Unset}, mask : Texts \cup {Unset}]

ASSUME UnsetAssumption == Unset \notin Modes \cup Texts

NoEnviron == [jemalloc |-> FALSE, mode |-> Unset, mask |-> Unset]

\* Mutant: the variable is used without a test.
getenv_mpol_mode_unchecked(e) == e.mode

getenv_jemalloc(e)  == e.jemalloc
getenv_nodemask(e)  == IF e.mask = Unset THEN {} ELSE Atol(e.mask)
getenv_mpol_mode(e) == IF e.mode = Unset THEN "default" ELSE e.mode

Loaded(e) == [mode |-> getenv_mpol_mode(e), nodes |-> getenv_nodemask(e)]
=============================================================================
