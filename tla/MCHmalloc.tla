------------------------------ MODULE MCHmalloc ------------------------------
(***************************************************************************)
(* libhmalloc on small address spaces.  Nodes 0 and 1 have memory and the  *)
(* kernel knows no weighted interleave.                                    *)
(***************************************************************************)
EXTENDS Hmalloc, TLC

Environment(mode, nodes) ==
    [jemalloc |-> TRUE, mode |-> mode, mask |-> [conv |-> "%lu", mask |-> nodes]]

BindOne   == Environment("bind", {1})
Weighted  == Environment("weighted_interleave", {0, 1})
Manual    == [BindOne EXCEPT !.jemalloc = FALSE]

\* What hmctl leaves behind, nothing at all, and a node mask set by hand.
AllEnvironments == {BindOne, Weighted, NoEnviron, Manual}
BindEnvironment == {BindOne}
WeightedEnvironment == {Weighted}
\* mbind() fails for want of memory in the one and with EINVAL in the other.
BoundEnvironments == {BindOne, Weighted}

OldKernel == Modes \ {"weighted_interleave"}

Ask(op, count, size, align) == [op |-> op, count |-> count, size |-> size, align |-> align]

Malloc    == Ask("hmalloc", 1, 1, 0)
Realloc   == Ask("hrealloc", 1, 2, 0)
ReallocTo0 == Ask("hrealloc", 1, 0, 0)
Memalign  == Ask("hposix_memalign", 1, 1, 8)
Aligned   == Ask("haligned_alloc", 1, 1, 2)

AllRequests == { Malloc, Realloc, ReallocTo0, Memalign, Aligned,
                 Ask("hcalloc", 2, 1, 0),
                 Ask("haligned_alloc", 1, 1, 3),
                 Ask("hposix_memalign", 1, 1, 0) }

MallocOnly   == {Malloc}
MemalignRealloc == {Memalign, Realloc}
BlockRequests == {Malloc, Realloc, ReallocTo0, Memalign}

ThreadSymmetry == Permutations(Threads)
AddrSymmetry   == Permutations(Addr)
Symmetric      == ThreadSymmetry \cup AddrSymmetry
=============================================================================
