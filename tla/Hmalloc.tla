------------------------------- MODULE Hmalloc -------------------------------
(***************************************************************************)
(* libhmalloc in one process: the constructor, the allocation functions on *)
(* top of a jemalloc arena, the extent hooks, and hmmap() with its system  *)
(* calls one at a time.  Threads interleave between system calls.          *)
(*                                                                         *)
(* jemalloc, libc and the kernel are external: jemalloc hands out whole    *)
(* extents, one per region, and takes any answer of the alloc hook that is *)
(* not NULL for the address of an extent.                                  *)
(***************************************************************************)
EXTENDS HmallocEnv

CONSTANTS
    Threads,
    Addr,          \* regions of the address space, an extent each
    MapFailed,     \* MAP_FAILED
    Null,
    Unmapped,      \* a region without a mapping
    MemNodes,      \* nodes that have memory
    KernelModes,   \* policies the running kernel implements
    MaxPossible,   \* numa_max_possible_node()
    Environments,  \* environments the process may be started in
    Requests,      \* what the application asks for
    MaxClass,      \* the largest size class of jemalloc
    SizeMax,       \* SIZE_MAX
    PointerSize,   \* sizeof(void *)
    MaxTries,      \* bound: times jemalloc asks the alloc hook in one call
    Failing,       \* system calls that may fail for want of memory
    AppErrnos      \* values the application itself leaves in errno

Errnos   == {"ok", "ENOMEM", "EINVAL"}
Allocs   == {"hmalloc", "hcalloc", "hrealloc", "haligned_alloc", "hposix_memalign"}
Request  == [op : Allocs, count : Nat, size : Nat, align : Nat]
Policies == [mode : Modes, nodes : Masks]

ASSUME HmallocAssumption ==
    /\ Environments \subseteq Environs
    /\ Requests \subseteq Request
    /\ KernelModes \subseteq Modes
    /\ Failing \subseteq {"mmap", "mbind", "munmap"}
    /\ AppErrnos \subseteq Errnos
    /\ MapFailed # Null /\ MapFailed \notin Addr /\ Null \notin Addr
    /\ Unmapped \notin Policies
    /\ MaxPossible \in Nat /\ MaxClass \in Nat /\ MaxTries \in Nat
    /\ SizeMax \in Nat /\ PointerSize \in Nat \ {0}

VARIABLES
    env,      \* the HMALLOC_* environment variables
    lib,      \* the static variables of hmalloc.c
    vma,      \* external: the kernel's mappings and their policies
    heap,     \* external: the allocator's extents
    held,     \* blocks the application owns
    mapped,   \* mappings the application owns
    errno,    \* errno of each thread
    frame     \* what each thread is doing inside the library

vars == <<env, lib, vma, heap, held, mapped, errno, frame>>

-----------------------------------------------------------------------------
PCs   == {"idle", "alloc", "mmap", "mbind", "munmap", "restore", "mapped",
          "tail", "done", "crashed"}
Ptrs  == Addr \cup {MapFailed, Null}

Frames == [pc : PCs, op : Allocs \cup {"hmmap", "none"}, size : Nat,
           old : Ptrs, ret : Ptrs, status : Errnos,
           mbind_errno : Errnos, old_errno : Errnos,   \* the locals of the code
           cause : Errnos, entry : Errnos,             \* history
           tries : Nat]

Idle == [pc |-> "idle", op |-> "none", size |-> 0,
         old |-> Null, ret |-> Null, status |-> "ok",
         mbind_errno |-> "ok", old_errno |-> "ok", cause |-> "ok",
         entry |-> "ok", tries |-> 0]

Libs == [loaded : BOOLEAN, use_jemalloc : BOOLEAN, nodemask : Masks,
         mpol_mode : Modes, maxnode : Nat, arena_index : {0, 1}]

Goto(t, f) == frame' = [frame EXCEPT ![t] = f]
SetErrno(t, e) == errno' = [errno EXCEPT ![t] = e]

IsPow2(n) == \E k \in 0 .. n : n = 2^k
-----------------------------------------------------------------------------
(* mbind(2) with the library's arguments. *)
Named(l)  == KernelNodes(l.nodemask, l.maxnode)
Usable(l) == Named(l) \cap MemNodes
Bound(l)  == [mode |-> l.mpol_mode, nodes |-> Usable(l)]

Rejected(l) ==
    \/ l.maxnode = 0
    \/ l.mpol_mode \notin KernelModes
    \/ l.mpol_mode = "default" /\ Named(l) # {}
    \/ l.mpol_mode # "default" /\ Usable(l) = {}
       /\ ~(l.mpol_mode = "preferred" /\ Named(l) = {})

MbindErrors(l) == (IF Rejected(l) THEN {"EINVAL"} ELSE {})
                  \cup (IF "mbind" \in Failing THEN {"ENOMEM"} ELSE {})

DefaultPolicy == [mode |-> "default", nodes |-> {}]

\* The policy hmmap() gives a region: none of its own without a node mask.
PoolPolicy(l) == IF l.nodemask = {} THEN DefaultPolicy ELSE Bound(l)

-----------------------------------------------------------------------------
(* Loading the library. *)
update_env(l) == [l EXCEPT !.use_jemalloc = getenv_jemalloc(env),
                           !.nodemask     = getenv_nodemask(env),
                           !.mpol_mode    = getenv_mpol_mode(env)]

\* arenas.create maps the arena's metadata through the alloc hook: the new arena
\* is there only if that worked.  Otherwise arena_index stays 0, jemalloc's
\* default arena, which has no hooks; the assert is not in the default build.
Created(l) == { i \in {0, 1} :
                  \/ i = 1 /\ (l.nodemask = {} \/ ~Rejected(l))
                  \/ i = 0 /\ l.nodemask # {} /\ MbindErrors(l) # {} }

\* main() starts with the errno of that mbind() in the thread that loaded the library.
MbindErrno(l) == \E t \in Threads, e \in MbindErrors(l) : SetErrno(t, e)

hmalloc_init ==
    /\ ~lib.loaded
    /\ LET l == [update_env(lib) EXCEPT !.loaded = TRUE]
           m == [l EXCEPT !.maxnode = MaxPossible]
       IN  \/ ~l.use_jemalloc /\ lib' = l /\ UNCHANGED errno
           \/ /\ l.use_jemalloc
              /\ \E i \in Created(m) :
                    /\ lib' = [m EXCEPT !.arena_index = i]
                    /\ IF i = 1 THEN UNCHANGED errno ELSE MbindErrno(m)
    /\ UNCHANGED <<env, vma, heap, held, mapped, frame>>

Hooked == lib.use_jemalloc /\ lib.arena_index = 1

-----------------------------------------------------------------------------
(* Entering the API. *)
Running(t) == /\ lib.loaded
              /\ frame[t].pc = "idle"
              /\ \A u \in Threads : frame[u].pc # "crashed"

\* A call that reaches the allocator with so many bytes.
Enter(t, r, size, old) ==
    Goto(t, [Idle EXCEPT !.pc = "alloc", !.op = r.op, !.size = size,
                         !.old = old, !.entry = errno[t]])

\* A call that returns at once.
Leave(t, r, status) ==
    Goto(t, [Idle EXCEPT !.pc = "done", !.op = r.op,
                         !.status = status, !.entry = errno[t]])

\* Mutant: hrealloc(p, 0) forgets to free.
hrealloc_leaks(t, r) ==
    /\ Running(t) /\ r.op = "hrealloc"
    /\ \/ /\ Enter(t, [r EXCEPT !.op = "hmalloc"], r.size, Null)
          /\ UNCHANGED held
       \/ \E p \in held \cap Addr :
            /\ held' = held \ {p}
            /\ \/ r.size = 0 /\ Leave(t, r, "ok")
               \/ r.size # 0 /\ Enter(t, r, r.size, p)
    /\ UNCHANGED <<env, lib, vma, heap, mapped, errno>>

hmalloc(t, r) ==
    /\ Running(t) /\ r.op = "hmalloc"
    /\ Enter(t, r, r.size, Null)
    /\ UNCHANGED <<env, lib, vma, heap, held, mapped, errno>>

\* The product is taken in a size_t.
hcalloc(t, r) ==
    /\ Running(t) /\ r.op = "hcalloc"
    /\ Enter(t, r, (r.count * r.size) % (SizeMax + 1), Null)
    /\ UNCHANGED <<env, lib, vma, heap, held, mapped, errno>>

Free(p) == heap' = [heap EXCEPT ![p] = "cached"]

hfree(t) ==
    /\ Running(t)
    /\ \E p \in held \cap Addr : Free(p) /\ held' = held \ {p}
    /\ UNCHANGED <<env, lib, vma, mapped, errno, frame>>

\* hrealloc(NULL, n) is hmalloc(n); hrealloc(p, 0) is hfree(p).  The block being
\* resized is the library's until the call returns.
hrealloc(t, r) ==
    /\ Running(t) /\ r.op = "hrealloc"
    /\ \/ /\ Enter(t, [r EXCEPT !.op = "hmalloc"], r.size, Null)
          /\ UNCHANGED <<heap, held>>
       \/ \E p \in held \cap Addr :
            /\ held' = held \ {p}
            /\ \/ r.size = 0 /\ Free(p) /\ Leave(t, r, "ok")
               \/ r.size # 0 /\ Enter(t, r, r.size, p) /\ UNCHANGED heap
    /\ UNCHANGED <<env, lib, vma, mapped, errno>>

\* libc makes its own checks; jemalloc is not asked with an alignment it rejects.
BadAlign(r) == lib.use_jemalloc /\ (r.align = 0 \/ ~IsPow2(r.align))

haligned_alloc(t, r) ==
    /\ Running(t) /\ r.op = "haligned_alloc"
    /\ IF BadAlign(r)
       THEN Leave(t, r, "ok") /\ SetErrno(t, "EINVAL")
       ELSE Enter(t, r, r.size, Null) /\ UNCHANGED errno
    /\ UNCHANGED <<env, lib, vma, heap, held, mapped>>

hposix_memalign(t, r) ==
    /\ Running(t) /\ r.op = "hposix_memalign"
    /\ IF BadAlign(r) \/ (~lib.use_jemalloc /\ r.align % PointerSize # 0)
       THEN Leave(t, r, "EINVAL")
       ELSE Goto(t, [Idle EXCEPT !.pc = "alloc", !.op = r.op, !.size = r.size,
                                 !.old_errno = errno[t], !.entry = errno[t]])
    /\ UNCHANGED <<env, lib, vma, heap, held, mapped, errno>>
-----------------------------------------------------------------------------
(* External: the allocator serves the call of thread t. *)
At(t, pc) == frame[t].pc = pc

\* Region a becomes the block of the call; a block that was moved is freed.
Deliver(t, a) ==
    LET f == frame[t]
    IN  /\ heap' = [p \in DOMAIN heap |-> IF p = a THEN "live"
                                          ELSE IF p = f.old THEN "cached"
                                          ELSE heap[p]]
        /\ Goto(t, [f EXCEPT !.pc = "tail", !.ret = a, !.old = Null])

Fits(t) == frame[t].size <= MaxClass

Reuse(t) ==
    /\ At(t, "alloc") /\ Fits(t)
    /\ \E a \in Addr : heap[a] = "cached" /\ Deliver(t, a)
    /\ UNCHANGED <<env, lib, vma, held, mapped, errno>>

ResizeInPlace(t) ==
    /\ At(t, "alloc") /\ Fits(t) /\ frame[t].old # Null
    /\ Goto(t, [frame[t] EXCEPT !.pc = "tail", !.ret = frame[t].old, !.old = Null])
    /\ UNCHANGED <<env, lib, vma, heap, held, mapped, errno>>

\* No such size class, or the hook has failed: mallocx() and rallocx() answer NULL
\* and leave errno alone, libc sets it.
Refuse(t) ==
    /\ At(t, "alloc")
    /\ ~Fits(t) \/ frame[t].tries > 0
    /\ Goto(t, [frame[t] EXCEPT !.pc = "tail", !.ret = Null])
    /\ IF lib.use_jemalloc THEN UNCHANGED errno ELSE SetErrno(t, "ENOMEM")
    /\ UNCHANGED <<env, lib, vma, heap, held, mapped>>

\* The arena grows: extent_alloc() calls hmmap().
extent_alloc(t) ==
    /\ At(t, "alloc") /\ Fits(t) /\ Hooked
    /\ frame[t].tries < MaxTries
    /\ Goto(t, [frame[t] EXCEPT !.pc = "mmap"])
    /\ UNCHANGED <<env, lib, vma, heap, held, mapped, errno>>

\* libc and jemalloc's default arena map memory for themselves.
PlainMap(t) ==
    /\ At(t, "alloc") /\ Fits(t) /\ ~Hooked
    /\ \E a \in Addr : /\ vma[a] = Unmapped
                       /\ vma' = [vma EXCEPT ![a] = DefaultPolicy]
                       /\ Deliver(t, a)
    /\ UNCHANGED <<env, lib, held, mapped, errno>>

PlainMapFails(t) ==
    /\ At(t, "alloc") /\ Fits(t) /\ ~Hooked /\ "mmap" \in Failing
    /\ Goto(t, [frame[t] EXCEPT !.pc = "tail", !.ret = Null])
    /\ SetErrno(t, "ENOMEM")
    /\ UNCHANGED <<env, lib, vma, heap, held, mapped>>

\* The allocator gives a cached extent back; extent_dalloc() unmaps it.
extent_dalloc ==
    /\ \E a \in Addr : /\ heap[a] = "cached"
                       /\ vma' = [vma EXCEPT ![a] = Unmapped]
                       /\ heap' = [heap EXCEPT ![a] = "none"]
    /\ UNCHANGED <<env, lib, held, mapped, errno, frame>>

\* munmap() may fail for want of memory, and sets errno.
MunmapErrno(t) == "munmap" \in Failing /\ SetErrno(t, "ENOMEM")

\* extent_dalloc() then answers true and the extent stays with the allocator, which
\* purges its cache in the course of mallocx(), or of dallocx() in hfree().
extent_dalloc_fails(t) ==
    /\ lib.loaded /\ frame[t].pc \in {"idle", "alloc"}
    /\ \E a \in Addr : heap[a] = "cached"
    /\ MunmapErrno(t)
    /\ UNCHANGED <<env, lib, vma, heap, held, mapped, frame>>

-----------------------------------------------------------------------------
(* hmmap(), called by the application or by extent_alloc(). *)
hmmap(t) ==
    /\ Running(t)
    /\ Goto(t, [Idle EXCEPT !.pc = "mmap", !.op = "hmmap", !.entry = errno[t]])
    /\ UNCHANGED <<env, lib, vma, heap, held, mapped, errno>>

Mmap(t) ==
    /\ At(t, "mmap")
    /\ \E a \in Addr :
          /\ vma[a] = Unmapped
          /\ vma' = [vma EXCEPT ![a] = DefaultPolicy]
          /\ Goto(t, [frame[t] EXCEPT !.ret = a,
                          !.pc = IF lib.nodemask # {} THEN "mbind" ELSE "mapped"])
    /\ UNCHANGED <<env, lib, heap, held, mapped, errno>>

\* Mutant: mmap() is tried until it succeeds.
MmapRetries(t) ==
    /\ At(t, "mmap") /\ "mmap" \in Failing
    /\ SetErrno(t, IF errno[t] = "ENOMEM" THEN "ok" ELSE "ENOMEM")
    /\ UNCHANGED <<env, lib, vma, heap, held, mapped, frame>>

MmapFails(t) ==
    /\ At(t, "mmap") /\ "mmap" \in Failing
    /\ SetErrno(t, "ENOMEM")
    /\ Goto(t, [frame[t] EXCEPT !.pc = "mapped", !.ret = MapFailed, !.cause = "ENOMEM"])
    /\ UNCHANGED <<env, lib, vma, heap, held, mapped>>

Mbind(t) ==
    /\ At(t, "mbind") /\ ~Rejected(lib)
    /\ vma' = [vma EXCEPT ![frame[t].ret] = Bound(lib)]
    /\ Goto(t, [frame[t] EXCEPT !.pc = "mapped"])
    /\ UNCHANGED <<env, lib, heap, held, mapped, errno>>

\* Mutant: the result of mbind() is not looked at.
MbindIgnored(t) ==
    /\ At(t, "mbind") /\ MbindErrors(lib) # {}
    /\ Goto(t, [frame[t] EXCEPT !.pc = "mapped"])
    /\ UNCHANGED <<env, lib, vma, heap, held, mapped, errno>>

\* Mutant: the region is not unmapped again.
MbindFailsAndLeaks(t) ==
    /\ At(t, "mbind")
    /\ \E e \in MbindErrors(lib) :
          /\ SetErrno(t, e)
          /\ Goto(t, [frame[t] EXCEPT !.pc = "restore", !.ret = Null, !.mbind_errno = e])
    /\ UNCHANGED <<env, lib, vma, heap, held, mapped>>

MbindFails(t) ==
    /\ At(t, "mbind")
    /\ \E e \in MbindErrors(lib) :
          /\ SetErrno(t, e)
          /\ Goto(t, [frame[t] EXCEPT !.pc = "munmap", !.mbind_errno = e, !.cause = e])
    /\ UNCHANGED <<env, lib, vma, heap, held, mapped>>

Munmap(t) ==
    /\ At(t, "munmap")
    /\ vma' = [vma EXCEPT ![frame[t].ret] = Unmapped]
    /\ Goto(t, [frame[t] EXCEPT !.pc = "restore", !.ret = Null])
    /\ UNCHANGED <<env, lib, heap, held, mapped, errno>>

\* The result of munmap() is not looked at.
MunmapFails(t) ==
    /\ At(t, "munmap") /\ MunmapErrno(t)
    /\ Goto(t, [frame[t] EXCEPT !.pc = "restore", !.ret = Null])
    /\ UNCHANGED <<env, lib, vma, heap, held, mapped>>

\* Mutant: errno is what munmap() left.
KeepErrno(t) ==
    /\ At(t, "restore")
    /\ Goto(t, [frame[t] EXCEPT !.pc = "mapped", !.mbind_errno = "ok"])
    /\ UNCHANGED <<env, lib, vma, heap, held, mapped, errno>>

RestoreErrno(t) ==
    /\ At(t, "restore")
    /\ SetErrno(t, frame[t].mbind_errno)
    /\ Goto(t, [frame[t] EXCEPT !.pc = "mapped", !.mbind_errno = "ok"])
    /\ UNCHANGED <<env, lib, vma, heap, held, mapped>>

\* hmmap() returns to the application ...
HmmapReturns(t) ==
    /\ At(t, "mapped") /\ frame[t].op = "hmmap"
    /\ Goto(t, [frame[t] EXCEPT !.pc = "done"])
    /\ UNCHANGED <<env, lib, vma, heap, held, mapped, errno>>

\* ... or through extent_alloc() to jemalloc, which knows NULL as a failure only.
\* A block moved to MAP_FAILED is copied there, which is the end of the process.
HookReturns(t) ==
    /\ At(t, "mapped") /\ frame[t].op # "hmmap"
    /\ LET f == frame[t]
       IN  \/ /\ f.ret = Null
              /\ Goto(t, [f EXCEPT !.pc = "alloc", !.tries = @ + 1, !.cause = "ok"])
              /\ UNCHANGED heap
           \/ /\ f.ret = MapFailed /\ f.old # Null
              /\ Goto(t, [f EXCEPT !.pc = "crashed"])
              /\ UNCHANGED heap
           \/ /\ f.ret # Null
              /\ f.ret = MapFailed => f.old = Null
              /\ Deliver(t, f.ret)
    /\ UNCHANGED <<env, lib, vma, held, mapped, errno>>

-----------------------------------------------------------------------------
(* Leaving the API: what each function does with the answer of the allocator. *)
Answer(t, ret, status) ==
    Goto(t, [frame[t] EXCEPT !.pc = "done", !.ret = ret, !.status = status,
                             !.cause = "ok", !.old_errno = "ok"])

\* hmalloc(), and hcalloc() on top of it, take errno for the answer.
HmallocTail(t) ==
    /\ At(t, "tail") /\ frame[t].op \in {"hmalloc", "hcalloc"}
    /\ Answer(t, IF lib.use_jemalloc /\ errno[t] = "ENOMEM" THEN Null ELSE frame[t].ret, "ok")
    /\ UNCHANGED <<env, lib, vma, heap, held, mapped, errno>>

PlainTail(t) ==
    /\ At(t, "tail") /\ frame[t].op \in {"hrealloc", "haligned_alloc"}
    /\ Answer(t, frame[t].ret, "ok")
    /\ UNCHANGED <<env, lib, vma, heap, held, mapped, errno>>

\* Mutant: old_errno is not put back.
MemalignTailSetsErrno(t) ==
    /\ At(t, "tail") /\ frame[t].op = "hposix_memalign"
    /\ Answer(t, frame[t].ret, IF frame[t].ret = Null THEN errno[t] ELSE "ok")
    /\ UNCHANGED <<env, lib, vma, heap, held, mapped, errno>>

\* libc's posix_memalign() reports ENOMEM itself.
MemalignTail(t) ==
    /\ At(t, "tail") /\ frame[t].op = "hposix_memalign"
    /\ IF frame[t].ret # Null
       THEN Answer(t, frame[t].ret, "ok") /\ UNCHANGED errno
       ELSE IF lib.use_jemalloc
       THEN Answer(t, Null, errno[t]) /\ SetErrno(t, frame[t].old_errno)
       ELSE Answer(t, Null, "ENOMEM") /\ UNCHANGED errno
    /\ UNCHANGED <<env, lib, vma, heap, held, mapped>>

\* The call returns.  A block that could not be resized is the application's again.
Return(t) ==
    /\ At(t, "done")
    /\ LET f   == frame[t]
           new == {f.ret, f.old} \ {Null, MapFailed}
       IN  IF f.op = "hmmap"
           THEN mapped' = mapped \cup new /\ UNCHANGED held
           ELSE held' = held \cup new /\ UNCHANGED mapped
    /\ Goto(t, Idle)
    /\ UNCHANGED <<env, lib, vma, heap, errno>>

hmunmap(t) ==
    /\ Running(t)
    /\ \E a \in mapped : mapped' = mapped \ {a} /\ vma' = [vma EXCEPT ![a] = Unmapped]
    /\ UNCHANGED <<env, lib, heap, held, errno, frame>>

\* A mapping that munmap() has refused to take away is still the application's.
hmunmap_fails(t) ==
    /\ Running(t) /\ mapped # {}
    /\ MunmapErrno(t)
    /\ UNCHANGED <<env, lib, vma, heap, held, mapped, frame>>

\* The application's own system calls leave something in errno.
AppErrno(t) ==
    /\ Running(t)
    /\ \E e \in AppErrnos : SetErrno(t, e)
    /\ UNCHANGED <<env, lib, vma, heap, held, mapped, frame>>

-----------------------------------------------------------------------------
Init ==
    /\ env \in Environments
    /\ lib = [loaded |-> FALSE, use_jemalloc |-> FALSE, nodemask |-> {},
              mpol_mode |-> "default", maxnode |-> 0, arena_index |-> 0]
    /\ vma = [a \in Addr |-> Unmapped]
    /\ heap = [a \in Addr \cup {MapFailed} |-> "none"]
    /\ held = {}
    /\ mapped = {}
    /\ errno = [t \in Threads |-> "ok"]
    /\ frame = [t \in Threads |-> Idle]

Allocator(t) == \/ Reuse(t) \/ ResizeInPlace(t) \/ Refuse(t) \/ extent_alloc(t)
                \/ PlainMap(t) \/ PlainMapFails(t)

Hmmap(t) == \/ Mmap(t) \/ MmapFails(t) \/ Mbind(t) \/ MbindFails(t)
            \/ Munmap(t) \/ MunmapFails(t) \/ RestoreErrno(t)
            \/ HmmapReturns(t) \/ HookReturns(t)

\* A call on its way back to the application.
Progress(t) == \/ Allocator(t) \/ Hmmap(t)
               \/ HmallocTail(t) \/ PlainTail(t) \/ MemalignTail(t) \/ Return(t)

Call(t) == \/ \E r \in Requests : \/ hmalloc(t, r) \/ hcalloc(t, r) \/ hrealloc(t, r)
                                  \/ haligned_alloc(t, r) \/ hposix_memalign(t, r)
           \/ hfree(t) \/ hmmap(t) \/ hmunmap(t) \/ hmunmap_fails(t) \/ AppErrno(t)

Next == hmalloc_init \/ extent_dalloc
        \/ \E t \in Threads : Call(t) \/ Progress(t) \/ extent_dalloc_fails(t)

Spec == Init /\ [][Next]_vars

\* A thread inside the library is scheduled.
FairSpec == Spec /\ \A t \in Threads : WF_vars(Progress(t))
-----------------------------------------------------------------------------
TypeOK ==
    /\ env \in Environs
    /\ lib \in Libs
    /\ vma \in [Addr -> Policies \cup {Unmapped}]
    /\ heap \in [Addr \cup {MapFailed} -> {"none", "cached", "live"}]
    /\ held \subseteq Addr
    /\ mapped \subseteq Addr
    /\ errno \in [Threads -> Errnos]
    /\ frame \in [Threads -> Frames]

\* hmmap() still has the region to itself: nobody else knows of it.
InHmmap(t, a) == /\ frame[t].ret = a
                 /\ \/ frame[t].pc \in {"mbind", "munmap", "mapped"}
                    \/ frame[t].pc = "done" /\ frame[t].op = "hmmap"

\* A call in progress is answerable for the block: the one it is about to return,
\* or the one it was given to resize.
InCall(t, a) == \/ frame[t].old = a
                \/ frame[t].ret = a /\ \/ frame[t].pc = "tail"
                                       \/ frame[t].pc = "done" /\ frame[t].op # "hmmap"

InPool(a) == a \in mapped \/ (Hooked /\ heap[a] # "none")

\* A region that jemalloc's hooked arena or a caller of hmmap() can see is already
\* under the policy of the environment: no thread finds a region between its
\* mmap() and its mbind(), or one whose mbind() failed.
PoolIsBound == \A a \in Addr : InPool(a) => vma[a] = PoolPolicy(lib)

\* Every mapping has exactly one owner at any moment: the allocator, the
\* application, or the one hmmap() call that has not finished with it.  Nothing is
\* lost when mbind() fails half way, nothing is unmapped under its owner.
MappingOwners(a) == {t \in Threads : InHmmap(t, a)}
                    \cup {x \in {"heap"} : heap[a] # "none"}
                    \cup {x \in {"app"} : a \in mapped}

MappingsAccounted ==
    \A a \in Addr : /\ vma[a] = Unmapped <=> MappingOwners(a) = {}
                    /\ \A o, p \in MappingOwners(a) : o = p

\* Every live block belongs to the application or to exactly one call in progress,
\* and those own only live blocks: no API call loses a block, frees it twice or
\* gives it to two callers.
BlockOwners(a) == {t \in Threads : InCall(t, a)} \cup {x \in {"app"} : a \in held}

BlocksAccounted ==
    \A a \in Addr : /\ heap[a] = "live" <=> BlockOwners(a) # {}
                    /\ \A o, p \in BlockOwners(a) : o = p

\* When hmmap() fails because of mbind(), errno is what mbind() left there, even if
\* the munmap() that cleans up fails as well.
HmmapKeepsErrno ==
    \A t \in Threads :
        At(t, "done") /\ frame[t].op = "hmmap" /\ frame[t].cause # "ok" =>
            errno[t] = frame[t].cause

\* A failing hposix_memalign() leaves errno as its caller had it, whatever the
\* extent hooks did to it in between.
MemalignKeepsErrno ==
    \A t \in Threads :
        /\ lib.use_jemalloc
        /\ At(t, "done") /\ frame[t].op = "hposix_memalign" /\ frame[t].ret = Null
        => errno[t] = frame[t].entry

\* Every call comes back, also when system calls keep failing under it, unless the
\* process has crashed.
CallsReturn ==
    \A t \in Threads :
        ~At(t, "idle") ~> At(t, "idle") \/ \E u \in Threads : At(u, "crashed")

-----------------------------------------------------------------------------
\* The pool as its users see it: the regions jemalloc's hooked arena or a caller of
\* hmmap() has, and the policy the library was loaded with.
Pool == INSTANCE PolicyPool WITH
            Region <- Addr,
            Policy <- Policies,
            None   <- Unmapped,
            target <- IF lib.loaded THEN PoolPolicy(lib) ELSE Unmapped,
            pool   <- [a \in Addr |-> IF InPool(a) THEN vma[a] ELSE Unmapped]

\* mmap(), mbind() and the munmap() that undoes them look like one step from
\* outside: the library implements the abstract pool.
ImplementsPool == Pool!PoolSpec

-----------------------------------------------------------------------------
\* hmctl(8): with a policy option and valid nodes, the pool memory is allocated
\* under the given policy.  So no block is handed out under another one.
BlocksAreBound ==
    lib.use_jemalloc => \A a \in held : vma[a] = PoolPolicy(lib)

\* hposix_memalign(3): on error haligned_alloc() returns NULL, and hmalloc(3):
\* hrealloc() fails with ENOMEM.  Neither returns or crashes on MAP_FAILED.
FailureIsNull ==
    \A t \in Threads : /\ frame[t].pc # "crashed"
                       /\ At(t, "done") /\ frame[t].op # "hmmap" => frame[t].ret # MapFailed
=============================================================================
