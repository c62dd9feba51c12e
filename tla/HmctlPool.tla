------------------------------ MODULE HmctlPool ------------------------------
(***************************************************************************)
(* hmctl and the program it starts, end to end: the environment hmctl has  *)
(* written when execv() succeeds is the one libhmalloc is loaded in.       *)
(***************************************************************************)
EXTENDS Hmctl

CONSTANTS Threads, Addr, MapFailed, Null, Unmapped, KernelModes, MaxPossible,
          Requests, MaxClass, SizeMax, PointerSize, MaxTries, Failing, AppErrnos

VARIABLES lib, vma, heap, held, mapped, errno, frame

\* The nodes libnuma lets hmctl name are those that have memory.
Library == INSTANCE Hmalloc WITH MemNodes <- Online, Environments <- {NoEnviron}

ASSUME HmctlPoolAssumption == Library!HmallocAssumption

hmctlVars   == <<phase, opts, given, wanted, nesting>>
libraryVars == <<lib, vma, heap, held, mapped, errno, frame>>

EndToEndInit == Init /\ Library!Init

HmctlStep   == Next /\ UNCHANGED libraryVars
ProgramStep == phase = "running" /\ Library!Next /\ UNCHANGED hmctlVars

EndToEndSpec == EndToEndInit /\ [][HmctlStep \/ ProgramStep]_<<vars, libraryVars>>

-----------------------------------------------------------------------------
\* hmctl(8): if one policy option is given with valid nodes, the pool memory is
\* allocated from the target nodes with the given policy.  Every block and every
\* mapping the program has from libhmalloc is under exactly the policy that was
\* asked for on the command lines.
TargetNodes ==
    wanted # NoWish => \A a \in held \cup mapped : vma[a] = wanted
=============================================================================
