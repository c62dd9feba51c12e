---------------------------- MODULE HmallocProofs ----------------------------
(***************************************************************************)
(* Proofs about libhmalloc, for any number of threads and regions, any     *)
(* environment, any requests and any failures of the system calls.         *)
(***************************************************************************)
EXTENDS Hmalloc, TLAPS

-----------------------------------------------------------------------------
(* The inductive invariant.  The owners of regions and blocks are read off *)
(* the frames of the threads, so a step changes them for one thread only.  *)
HmmapOf(f, a) == /\ f.ret = a
                 /\ \/ f.pc \in {"mbind", "munmap", "mapped"}
                    \/ f.pc = "done" /\ f.op = "hmmap"

CallOf(f, a) == \/ f.old = a
                \/ f.ret = a /\ \/ f.pc = "tail"
                                \/ f.pc = "done" /\ f.op # "hmmap"

\* Nothing happens before the constructor has run.
LoadInv == ~lib.loaded => /\ \A t \in Threads : frame[t].pc = "idle"
                          /\ \A a \in Addr : heap[a] = "none"
                          /\ mapped = {}

\* The steps of hmmap() follow one another with the region they are about.
FrameOK(f) == /\ f.pc \in {"mbind", "munmap"} => f.ret \in Addr
              /\ f.pc = "mbind" => lib.nodemask # {}
              /\ f.pc = "restore" => f.ret = Null
              /\ f.op = "hmmap" => f.old = Null

FrameInv == \A t \in Threads : FrameOK(frame[t])

\* A region has at most one owner, and what is owned is mapped.
OwnerInv ==
    \A a \in Addr :
        /\ \A t \in Threads : HmmapOf(frame[t], a) => /\ vma[a] # Unmapped
                                                      /\ heap[a] = "none"
                                                      /\ a \notin mapped
        /\ \A t, u \in Threads : HmmapOf(frame[t], a) /\ HmmapOf(frame[u], a) => t = u
        /\ heap[a] # "none" => vma[a] # Unmapped /\ a \notin mapped
        /\ a \in mapped => vma[a] # Unmapped

\* A block has at most one owner, and what is owned is live.
BlockInv ==
    \A a \in Addr :
        /\ \A t \in Threads : CallOf(frame[t], a) => heap[a] = "live" /\ a \notin held
        /\ \A t, u \in Threads : CallOf(frame[t], a) /\ CallOf(frame[u], a) => t = u
        /\ a \in held => heap[a] = "live"

\* A region hmmap() is about to return is under the policy already.
BoundOf(f, a) == HmmapOf(f, a) /\ f.pc \in {"mapped", "done"}

BoundInv == \A t \in Threads : \A a \in Addr : BoundOf(frame[t], a) => vma[a] = PoolPolicy(lib)

IInv == LoadInv /\ FrameInv /\ OwnerInv /\ BlockInv /\ BoundInv /\ PoolIsBound

-----------------------------------------------------------------------------
(* Type correctness. *)
LEMMA FrameType ==
    ASSUME TypeOK, NEW t \in Threads, NEW f \in Frames, Goto(t, f)
    PROVE  frame' \in [Threads -> Frames]
  BY DEF TypeOK, Goto

LEMMA ErrnoType ==
    ASSUME TypeOK, NEW t \in Threads, NEW e \in Errnos, SetErrno(t, e)
    PROVE  errno' \in [Threads -> Errnos]
  BY DEF TypeOK, SetErrno

LEMMA IdleType == Idle \in Frames
  BY DEF Idle, Frames, PCs, Ptrs, Errnos

\* A frame whose fields are replaced one at a time.
LEMMA FramePc ==
    ASSUME NEW f \in Frames, NEW pc \in PCs
    PROVE  [f EXCEPT !.pc = pc] \in Frames
  BY DEF Frames

LEMMA FrameRet ==
    ASSUME NEW f \in Frames, NEW pc \in PCs, NEW ret \in Ptrs
    PROVE  [f EXCEPT !.pc = pc, !.ret = ret] \in Frames
  BY DEF Frames

LEMMA EnterType ==
    ASSUME TypeOK, NEW t \in Threads, NEW r \in Request, NEW size \in Nat, NEW old \in Ptrs,
           Enter(t, r, size, old)
    PROVE  frame' \in [Threads -> Frames]
<1> DEFINE f == [Idle EXCEPT !.pc = "alloc", !.op = r.op, !.size = size,
                             !.old = old, !.entry = errno[t]]
<1>1. r.op \in Allocs /\ errno[t] \in Errnos
  BY DEF Request, TypeOK
<1>2. f \in Frames
  BY <1>1 DEF Idle, Frames, PCs, Ptrs, Errnos
<1>3. QED
  BY <1>2, FrameType DEF Enter

LEMMA LeaveType ==
    ASSUME TypeOK, NEW t \in Threads, NEW r \in Request, NEW status \in Errnos,
           Leave(t, r, status)
    PROVE  frame' \in [Threads -> Frames]
<1> DEFINE f == [Idle EXCEPT !.pc = "done", !.op = r.op,
                             !.status = status, !.entry = errno[t]]
<1>1. r.op \in Allocs
  BY DEF Request
<1>2. errno[t] \in Errnos
  BY DEF TypeOK
<1>3. f \in Frames
  BY <1>1, <1>2 DEF Idle, Frames, PCs, Ptrs, Errnos
<1>4. QED
  BY <1>3, FrameType DEF Leave

LEMMA AnswerType ==
    ASSUME TypeOK, NEW t \in Threads, NEW ret \in Ptrs, NEW status \in Errnos,
           Answer(t, ret, status)
    PROVE  frame' \in [Threads -> Frames]
<1> DEFINE f == [frame[t] EXCEPT !.pc = "done", !.ret = ret, !.status = status,
                                 !.cause = "ok", !.old_errno = "ok"]
<1>1. frame[t] \in Frames
  BY DEF TypeOK
<1>2. f \in Frames
  BY <1>1 DEF Frames, PCs, Errnos
<1>3. QED
  BY <1>2, FrameType DEF Answer

\* The allocator's answer leaves well-formed extents and frames.
LEMMA DeliverType ==
    ASSUME TypeOK, NEW t \in Threads, NEW a \in Addr \cup {MapFailed}, Deliver(t, a)
    PROVE  /\ heap' \in [Addr \cup {MapFailed} -> {"none", "cached", "live"}]
           /\ frame' \in [Threads -> Frames]
<1>1. heap' \in [Addr \cup {MapFailed} -> {"none", "cached", "live"}]
  BY DEF TypeOK, Deliver
<1> DEFINE f == [frame[t] EXCEPT !.pc = "tail", !.ret = a, !.old = Null]
<1>2. frame[t] \in Frames
  BY DEF TypeOK
<1>3. f \in Frames
  BY <1>2 DEF Frames, PCs, Ptrs
<1>4. QED
  BY <1>1, <1>3, FrameType DEF Deliver

\* A node mask read from the environment consists of bits of a long.
LEMMA LoadedType ==
    ASSUME NEW e \in Environs
    PROVE  getenv_nodemask(e) \in Masks /\ getenv_mpol_mode(e) \in Modes
<1>1. getenv_mpol_mode(e) \in Modes
  BY DEF getenv_mpol_mode, Environs, Modes
<1>2. CASE e.mask = Unset
  BY <1>1, <1>2 DEF getenv_nodemask, Masks
<1>3. CASE e.mask # Unset
  <2>1. e.mask \in Texts
    BY <1>3 DEF Environs
  <2>2. e.mask.mask \in Masks
    BY <2>1 DEF Texts
  <2>3. 0 .. LongBits - 2 \in Masks
    BY WidthAssumption DEF Masks, Bits
  <2>4. Atol(e.mask) \in Masks
    BY <2>2, <2>3 DEF Atol
  <2>5. QED
    BY <1>1, <1>3, <2>4 DEF getenv_nodemask
<1>4. QED
  BY <1>2, <1>3

LEMMA PoolPolicyType ==
    ASSUME NEW l \in Libs
    PROVE  PoolPolicy(l) \in Policies /\ Bound(l) \in Policies /\ DefaultPolicy \in Policies
<1>1. l.nodemask \in Masks /\ l.mpol_mode \in Modes
  BY DEF Libs
<1>2. Usable(l) \in Masks
  BY <1>1 DEF Usable, Named, KernelNodes, Masks
<1>3. Bound(l) \in Policies
  BY <1>1, <1>2 DEF Bound, Policies
<1>4. DefaultPolicy \in Policies
  BY DEF DefaultPolicy, Policies, Modes, Masks
<1>5. QED
  BY <1>3, <1>4 DEF PoolPolicy

LEMMA MbindErrorsType ==
    ASSUME NEW l, NEW e \in MbindErrors(l)
    PROVE  e \in Errnos
  BY DEF MbindErrors, Errnos

-----------------------------------------------------------------------------
LEMMA InitTypeOK == Init => TypeOK
<1> SUFFICES ASSUME Init PROVE TypeOK
  OBVIOUS
<1>1. env \in Environs
  BY HmallocAssumption DEF Init
<1>2. lib \in Libs
  BY DEF Init, Libs, Masks, Modes
<1>3. QED
  BY <1>1, <1>2, IdleType DEF Init, TypeOK, Errnos

LEMMA LoadTypeOK == TypeOK /\ hmalloc_init => TypeOK'
<1> SUFFICES ASSUME TypeOK, hmalloc_init PROVE TypeOK'
  OBVIOUS
<1> DEFINE l == [update_env(lib) EXCEPT !.loaded = TRUE]
           m == [l EXCEPT !.maxnode = MaxPossible]
<1>1. getenv_nodemask(env) \in Masks /\ getenv_mpol_mode(env) \in Modes
  BY LoadedType DEF TypeOK
<1>2. getenv_jemalloc(env) \in BOOLEAN
  BY DEF TypeOK, Environs, getenv_jemalloc
<1>3. l \in Libs
  BY <1>1, <1>2 DEF TypeOK, update_env, Libs
<1>4. MaxPossible \in Nat
  BY HmallocAssumption
<1>5. m \in Libs
  BY <1>3, <1>4 DEF Libs
<1>6. ASSUME NEW i \in Created(m) PROVE [m EXCEPT !.arena_index = i] \in Libs
  BY <1>5 DEF Libs, Created
<1>7. lib' \in Libs
  BY <1>3, <1>6 DEF hmalloc_init
<1>8. UNCHANGED errno \/ MbindErrno(m)
  BY DEF hmalloc_init
<1> HIDE DEF l, m
<1>9. errno' \in [Threads -> Errnos]
  BY <1>8, ErrnoType, MbindErrorsType DEF MbindErrno, TypeOK
<1>10. QED
  BY <1>7, <1>9 DEF hmalloc_init, TypeOK

\* A munmap() that fails in hmunmap() or extent_dalloc() leaves ENOMEM.
LEMMA UnmapFailsTypeOK ==
    ASSUME TypeOK, NEW t \in Threads, hmunmap_fails(t) \/ extent_dalloc_fails(t)
    PROVE  TypeOK'
<1>1. SetErrno(t, "ENOMEM") /\ UNCHANGED <<env, lib, vma, heap, held, mapped, frame>>
  BY DEF hmunmap_fails, extent_dalloc_fails, MunmapErrno
<1>2. errno' \in [Threads -> Errnos]
  BY <1>1, ErrnoType DEF Errnos
<1>3. QED
  BY <1>1, <1>2 DEF TypeOK

LEMMA CallTypeOK ==
    ASSUME TypeOK, NEW t \in Threads, Call(t)
    PROVE  TypeOK'
<1>1. errno[t] \in Errnos /\ Null \in Ptrs
  BY DEF TypeOK, Ptrs
<1>2. Requests \subseteq Request
  BY HmallocAssumption
<1>3. ASSUME NEW r \in Requests, hmalloc(t, r)
      PROVE  TypeOK'
  <2>1. r \in Request /\ r.size \in Nat
    BY <1>2 DEF Request
  <2>2. frame' \in [Threads -> Frames]
    BY <1>1, <1>3, <2>1, EnterType DEF hmalloc
  <2>3. QED
    BY <1>3, <2>2 DEF hmalloc, TypeOK
<1>4. ASSUME NEW r \in Requests, hcalloc(t, r)
      PROVE  TypeOK'
  <2>1. r \in Request /\ r.size \in Nat /\ r.count \in Nat
    BY <1>2 DEF Request
  <2>2. (r.count * r.size) % (SizeMax + 1) \in Nat
    <3>1. r.count * r.size \in Nat
      BY <2>1
    <3>2. SizeMax + 1 \in Nat \ {0}
      BY HmallocAssumption
    <3>3. QED
      BY <3>1, <3>2
  <2>3. frame' \in [Threads -> Frames]
    BY <1>1, <1>4, <2>1, <2>2, EnterType DEF hcalloc
  <2>4. QED
    BY <1>4, <2>3 DEF hcalloc, TypeOK
<1>5. ASSUME NEW r \in Requests, hrealloc(t, r)
      PROVE  TypeOK'
  <2>1. r \in Request /\ r.size \in Nat
    BY <1>2 DEF Request
  <2>2. CASE Enter(t, [r EXCEPT !.op = "hmalloc"], r.size, Null) /\ UNCHANGED <<heap, held>>
    <3>1. [r EXCEPT !.op = "hmalloc"] \in Request
      BY <2>1 DEF Request, Allocs
    <3>2. frame' \in [Threads -> Frames]
      BY <1>1, <2>1, <2>2, <3>1, EnterType
    <3>3. QED
      BY <1>5, <2>2, <3>2 DEF hrealloc, TypeOK
  <2>3. ASSUME NEW p \in held \cap Addr, held' = held \ {p},
               \/ r.size = 0 /\ Free(p) /\ Leave(t, r, "ok")
               \/ r.size # 0 /\ Enter(t, r, r.size, p) /\ UNCHANGED heap
        PROVE  TypeOK'
    <3>1. p \in Ptrs /\ "ok" \in Errnos
      BY DEF Ptrs, Errnos
    <3>2. frame' \in [Threads -> Frames]
      BY <2>1, <2>3, <3>1, EnterType, LeaveType
    <3>3. heap' \in [Addr \cup {MapFailed} -> {"none", "cached", "live"}]
      BY <2>3 DEF Free, TypeOK
    <3>4. QED
      BY <1>5, <2>3, <3>2, <3>3 DEF hrealloc, TypeOK
  <2>4. QED
    BY <1>5, <2>2, <2>3 DEF hrealloc
<1>6. ASSUME NEW r \in Requests, haligned_alloc(t, r)
      PROVE  TypeOK'
  <2>1. r \in Request /\ r.size \in Nat /\ {"ok", "EINVAL"} \subseteq Errnos
    BY <1>2 DEF Request, Errnos
  <2>2. CASE BadAlign(r)
    <3>1. frame' \in [Threads -> Frames]
      BY <1>6, <2>1, <2>2, LeaveType DEF haligned_alloc
    <3>2. errno' \in [Threads -> Errnos]
      BY <1>6, <2>1, <2>2, ErrnoType DEF haligned_alloc
    <3>3. QED
      BY <1>6, <3>1, <3>2 DEF haligned_alloc, TypeOK
  <2>3. CASE ~BadAlign(r)
    <3>1. frame' \in [Threads -> Frames]
      BY <1>1, <1>6, <2>1, <2>3, EnterType DEF haligned_alloc
    <3>2. QED
      BY <1>6, <2>3, <3>1 DEF haligned_alloc, TypeOK
  <2>4. QED
    BY <2>2, <2>3
<1>7. ASSUME NEW r \in Requests, hposix_memalign(t, r)
      PROVE  TypeOK'
  <2>1. r \in Request /\ r.size \in Nat /\ "EINVAL" \in Errnos
    BY <1>2 DEF Request, Errnos
  <2> DEFINE f == [Idle EXCEPT !.pc = "alloc", !.op = r.op, !.size = r.size,
                               !.old_errno = errno[t], !.entry = errno[t]]
  <2>2. f \in Frames
    <3>1. r.op \in Allocs
      BY <2>1 DEF Request
    <3>2. QED
      BY <1>1, <2>1, <3>1 DEF Idle, Frames, PCs, Ptrs, Errnos
  <2>3. Leave(t, r, "EINVAL") \/ Goto(t, f)
    BY <1>7 DEF hposix_memalign
  <2>4. frame' \in [Threads -> Frames]
    BY <2>1, <2>2, <2>3, LeaveType, FrameType
  <2>5. QED
    BY <1>7, <2>4 DEF hposix_memalign, TypeOK
<1>8. CASE hfree(t)
  BY <1>8 DEF hfree, Free, TypeOK
<1>9. CASE hmmap(t)
  <2> DEFINE f == [Idle EXCEPT !.pc = "mmap", !.op = "hmmap", !.entry = errno[t]]
  <2>1. f \in Frames
    BY <1>1 DEF Idle, Frames, PCs, Ptrs, Errnos
  <2>2. frame' \in [Threads -> Frames]
    BY <1>9, <2>1, FrameType DEF hmmap
  <2>3. QED
    BY <1>9, <2>2 DEF hmmap, TypeOK
<1>10. CASE hmunmap(t)
  BY <1>10 DEF hmunmap, TypeOK
<1>11. CASE AppErrno(t)
  <2>1. AppErrnos \subseteq Errnos
    BY HmallocAssumption
  <2>2. errno' \in [Threads -> Errnos]
    BY <1>11, <2>1, ErrnoType DEF AppErrno
  <2>3. QED
    BY <1>11, <2>2 DEF AppErrno, TypeOK
<1>12. CASE hmunmap_fails(t)
  BY <1>12, UnmapFailsTypeOK
<1>13. QED
  BY <1>3, <1>4, <1>5, <1>6, <1>7, <1>8, <1>9, <1>10, <1>11, <1>12 DEF Call

LEMMA AllocatorTypeOK ==
    ASSUME TypeOK, NEW t \in Threads, Allocator(t)
    PROVE  TypeOK'
<1>1. /\ frame[t] \in Frames /\ Null \in Ptrs /\ "ENOMEM" \in Errnos
      /\ "tail" \in PCs /\ "mmap" \in PCs
  BY DEF TypeOK, Ptrs, Errnos, PCs
<1>2. CASE Reuse(t)
  BY <1>2, DeliverType DEF Reuse, TypeOK
<1>3. CASE ResizeInPlace(t)
  <2> DEFINE f == [frame[t] EXCEPT !.pc = "tail", !.ret = frame[t].old, !.old = Null]
  <2>1. f \in Frames
    BY <1>1 DEF Frames
  <2>2. frame' \in [Threads -> Frames]
    BY <1>3, <2>1, FrameType DEF ResizeInPlace
  <2>3. QED
    BY <1>3, <2>2 DEF ResizeInPlace, TypeOK
<1>4. CASE Refuse(t)
  <2>1. [frame[t] EXCEPT !.pc = "tail", !.ret = Null] \in Frames
    BY <1>1, FrameRet
  <2>2. frame' \in [Threads -> Frames]
    BY <1>4, <2>1, FrameType DEF Refuse
  <2>3. errno' \in [Threads -> Errnos]
    BY <1>1, <1>4, ErrnoType DEF Refuse, TypeOK
  <2>4. QED
    BY <1>4, <2>2, <2>3 DEF Refuse, TypeOK
<1>5. CASE extent_alloc(t)
  <2>1. [frame[t] EXCEPT !.pc = "mmap"] \in Frames
    BY <1>1, FramePc
  <2>2. frame' \in [Threads -> Frames]
    BY <1>5, <2>1, FrameType DEF extent_alloc
  <2>3. QED
    BY <1>5, <2>2 DEF extent_alloc, TypeOK
<1>6. CASE PlainMap(t)
  <2>1. PICK a \in Addr : /\ vma' = [vma EXCEPT ![a] = DefaultPolicy]
                          /\ Deliver(t, a)
    BY <1>6 DEF PlainMap
  <2>2. vma' \in [Addr -> Policies \cup {Unmapped}]
    BY <2>1, PoolPolicyType DEF TypeOK
  <2>3. QED
    BY <1>6, <2>1, <2>2, DeliverType DEF PlainMap, TypeOK
<1>7. CASE PlainMapFails(t)
  <2>1. [frame[t] EXCEPT !.pc = "tail", !.ret = Null] \in Frames
    BY <1>1, FrameRet
  <2>2. frame' \in [Threads -> Frames]
    BY <1>7, <2>1, FrameType DEF PlainMapFails
  <2>3. errno' \in [Threads -> Errnos]
    BY <1>1, <1>7, ErrnoType DEF PlainMapFails
  <2>4. QED
    BY <1>7, <2>2, <2>3 DEF PlainMapFails, TypeOK
<1>8. QED
  BY <1>2, <1>3, <1>4, <1>5, <1>6, <1>7 DEF Allocator

LEMMA HmmapTypeOK ==
    ASSUME TypeOK, NEW t \in Threads, Hmmap(t)
    PROVE  TypeOK'
<1>1. /\ frame[t] \in Frames /\ {Null, MapFailed} \subseteq Ptrs /\ Addr \subseteq Ptrs
      /\ {"ok", "ENOMEM", "EINVAL"} = Errnos
  BY DEF TypeOK, Ptrs, Errnos
<1>2. CASE Mmap(t)
  <2>1. PICK a \in Addr :
          /\ vma' = [vma EXCEPT ![a] = DefaultPolicy]
          /\ Goto(t, [frame[t] EXCEPT !.ret = a,
                          !.pc = IF lib.nodemask # {} THEN "mbind" ELSE "mapped"])
    BY <1>2 DEF Mmap
  <2>2. vma' \in [Addr -> Policies \cup {Unmapped}]
    BY <2>1, PoolPolicyType DEF TypeOK
  <2>3. [frame[t] EXCEPT !.ret = a,
            !.pc = IF lib.nodemask # {} THEN "mbind" ELSE "mapped"] \in Frames
    <3>1. a \in Ptrs
      BY <1>1
    <3>2. \A pc : pc = (IF lib.nodemask # {} THEN "mbind" ELSE "mapped") => pc \in PCs
      BY DEF PCs
    <3>3. \A pc \in PCs : [frame[t] EXCEPT !.ret = a, !.pc = pc] \in Frames
      BY <1>1, <3>1 DEF Frames
    <3>4. QED
      BY <3>2, <3>3
  <2>4. frame' \in [Threads -> Frames]
    BY <2>1, <2>3, FrameType
  <2>5. QED
    BY <1>2, <2>2, <2>4 DEF Mmap, TypeOK
<1>3. CASE MmapFails(t)
  <2>1. [frame[t] EXCEPT !.pc = "mapped", !.ret = MapFailed, !.cause = "ENOMEM"] \in Frames
    BY <1>1 DEF Frames, PCs
  <2>2. frame' \in [Threads -> Frames]
    BY <1>3, <2>1, FrameType DEF MmapFails
  <2>3. errno' \in [Threads -> Errnos]
    BY <1>1, <1>3, ErrnoType DEF MmapFails
  <2>4. QED
    BY <1>3, <2>2, <2>3 DEF MmapFails, TypeOK
<1>4. CASE Mbind(t)
  <2>1. vma' \in [Addr -> Policies \cup {Unmapped}]
    BY <1>4, PoolPolicyType DEF Mbind, TypeOK
  <2>2. [frame[t] EXCEPT !.pc = "mapped"] \in Frames
    BY <1>1, FramePc DEF PCs
  <2>3. frame' \in [Threads -> Frames]
    BY <1>4, <2>2, FrameType DEF Mbind
  <2>4. QED
    BY <1>4, <2>1, <2>3 DEF Mbind, TypeOK
<1>5. CASE MbindFails(t)
  <2>1. PICK e \in MbindErrors(lib) :
          /\ SetErrno(t, e)
          /\ Goto(t, [frame[t] EXCEPT !.pc = "munmap", !.mbind_errno = e, !.cause = e])
    BY <1>5 DEF MbindFails
  <2>2. e \in Errnos
    BY MbindErrorsType
  <2>3. [frame[t] EXCEPT !.pc = "munmap", !.mbind_errno = e, !.cause = e] \in Frames
    <3>1. "munmap" \in PCs
      BY DEF PCs
    <3>2. \A pc \in PCs :
             [frame[t] EXCEPT !.pc = pc, !.mbind_errno = e, !.cause = e] \in Frames
      BY <1>1, <2>2 DEF Frames
    <3>3. QED
      BY <3>1, <3>2
  <2>4. frame' \in [Threads -> Frames] /\ errno' \in [Threads -> Errnos]
    BY <2>1, <2>2, <2>3, FrameType, ErrnoType
  <2>5. QED
    BY <1>5, <2>4 DEF MbindFails, TypeOK
<1>6. CASE Munmap(t) \/ MunmapFails(t)
  <2>1. [frame[t] EXCEPT !.pc = "restore", !.ret = Null] \in Frames
    BY <1>1, FrameRet DEF PCs
  <2>2. frame' \in [Threads -> Frames]
    BY <1>6, <2>1, FrameType DEF Munmap, MunmapFails
  <2>3. errno' \in [Threads -> Errnos]
    BY <1>1, <1>6, ErrnoType DEF Munmap, MunmapFails, MunmapErrno, TypeOK
  <2>4. vma' \in [Addr -> Policies \cup {Unmapped}]
    BY <1>6 DEF Munmap, MunmapFails, TypeOK
  <2>5. QED
    BY <1>6, <2>2, <2>3, <2>4 DEF Munmap, MunmapFails, TypeOK
<1>7. CASE RestoreErrno(t)
  <2>1. [frame[t] EXCEPT !.pc = "mapped", !.mbind_errno = "ok"] \in Frames
    <3>1. "mapped" \in PCs
      BY DEF PCs
    <3>2. \A pc \in PCs : [frame[t] EXCEPT !.pc = pc, !.mbind_errno = "ok"] \in Frames
      BY <1>1 DEF Frames
    <3>3. QED
      BY <3>1, <3>2
  <2>2. frame[t].mbind_errno \in Errnos
    BY <1>1 DEF Frames
  <2>3. frame' \in [Threads -> Frames] /\ errno' \in [Threads -> Errnos]
    BY <1>7, <2>1, <2>2, FrameType, ErrnoType DEF RestoreErrno
  <2>4. QED
    BY <1>7, <2>3 DEF RestoreErrno, TypeOK
<1>8. CASE HmmapReturns(t)
  <2>1. [frame[t] EXCEPT !.pc = "done"] \in Frames
    BY <1>1, FramePc DEF PCs
  <2>2. frame' \in [Threads -> Frames]
    BY <1>8, <2>1, FrameType DEF HmmapReturns
  <2>3. QED
    BY <1>8, <2>2 DEF HmmapReturns, TypeOK
<1>9. CASE HookReturns(t)
  <2> DEFINE f == frame[t]
  <2>1. CASE Goto(t, [f EXCEPT !.pc = "alloc", !.tries = @ + 1, !.cause = "ok"])
             /\ UNCHANGED heap
    <3>1. [f EXCEPT !.pc = "alloc", !.tries = @ + 1, !.cause = "ok"] \in Frames
      <4> DEFINE n == f.tries + 1
      <4>1. n \in Nat
        <5>1. f.tries \in Nat
          BY <1>1 DEF Frames
        <5>2. QED
          BY <5>1
      <4> HIDE DEF n
      <4>2. [f EXCEPT !.pc = "alloc", !.tries = n, !.cause = "ok"] \in Frames
        BY <1>1, <4>1 DEF Frames, PCs
      <4>3. QED
        BY <4>2 DEF n
    <3>2. frame' \in [Threads -> Frames]
      BY <2>1, <3>1, FrameType
    <3>3. QED
      BY <1>9, <2>1, <3>2 DEF HookReturns, TypeOK
  <2>2. CASE Goto(t, [f EXCEPT !.pc = "crashed"]) /\ UNCHANGED heap
    <3>1. [f EXCEPT !.pc = "crashed"] \in Frames
      BY <1>1, FramePc DEF PCs
    <3>2. frame' \in [Threads -> Frames]
      BY <2>2, <3>1, FrameType
    <3>3. QED
      BY <1>9, <2>2, <3>2 DEF HookReturns, TypeOK
  <2>3. CASE f.ret # Null /\ Deliver(t, f.ret)
    <3>1. f.ret \in Addr \cup {MapFailed}
      BY <1>1, <2>3 DEF Frames, Ptrs
    <3>2. /\ heap' \in [Addr \cup {MapFailed} -> {"none", "cached", "live"}]
          /\ frame' \in [Threads -> Frames]
      BY <2>3, <3>1, DeliverType
    <3>3. QED
      BY <1>9, <3>2 DEF HookReturns, TypeOK
  <2>4. QED
    BY <1>9, <2>1, <2>2, <2>3 DEF HookReturns
<1>10. QED
  BY <1>2, <1>3, <1>4, <1>5, <1>6, <1>7, <1>8, <1>9 DEF Hmmap

LEMMA TailTypeOK ==
    ASSUME TypeOK, NEW t \in Threads,
           HmallocTail(t) \/ PlainTail(t) \/ MemalignTail(t) \/ Return(t)
    PROVE  TypeOK'
<1>1. /\ frame[t].ret \in Ptrs /\ Null \in Ptrs /\ {"ok", "ENOMEM"} \subseteq Errnos
      /\ frame[t].old \in Ptrs /\ frame[t].old_errno \in Errnos /\ errno[t] \in Errnos
  BY DEF TypeOK, Frames, Ptrs, Errnos
<1>2. CASE HmallocTail(t)
  <2>1. frame' \in [Threads -> Frames]
    BY <1>1, <1>2, AnswerType DEF HmallocTail
  <2>2. QED
    BY <1>2, <2>1 DEF HmallocTail, TypeOK
<1>3. CASE PlainTail(t)
  <2>1. frame' \in [Threads -> Frames]
    BY <1>1, <1>3, AnswerType DEF PlainTail
  <2>2. QED
    BY <1>3, <2>1 DEF PlainTail, TypeOK
<1>4. CASE MemalignTail(t)
  <2>1. frame' \in [Threads -> Frames]
    BY <1>1, <1>4, AnswerType DEF MemalignTail
  <2>2. errno' \in [Threads -> Errnos]
    BY <1>1, <1>4, ErrnoType DEF MemalignTail, TypeOK
  <2>3. QED
    BY <1>4, <2>1, <2>2 DEF MemalignTail, TypeOK
<1>5. CASE Return(t)
  <2>1. {frame[t].ret, frame[t].old} \ {Null, MapFailed} \subseteq Addr
    BY <1>1 DEF Ptrs
  <2>2. frame' \in [Threads -> Frames]
    BY <1>5, IdleType, FrameType DEF Return
  <2>3. QED
    BY <1>5, <2>1, <2>2 DEF Return, TypeOK
<1>6. QED
  BY <1>2, <1>3, <1>4, <1>5

LEMMA NextTypeOK == TypeOK /\ [Next]_vars => TypeOK'
<1> SUFFICES ASSUME TypeOK, [Next]_vars PROVE TypeOK'
  OBVIOUS
<1>1. CASE hmalloc_init
  BY <1>1, LoadTypeOK
<1>2. CASE extent_dalloc
  BY <1>2 DEF extent_dalloc, TypeOK
<1>3. ASSUME NEW t \in Threads, Call(t) PROVE TypeOK'
  BY <1>3, CallTypeOK
<1>4. ASSUME NEW t \in Threads, Progress(t) PROVE TypeOK'
  BY <1>4, AllocatorTypeOK, HmmapTypeOK, TailTypeOK DEF Progress
<1>5. CASE UNCHANGED vars
  BY <1>5 DEF vars, TypeOK
<1>6. ASSUME NEW t \in Threads, extent_dalloc_fails(t) PROVE TypeOK'
  BY <1>6, UnmapFailsTypeOK
<1>7. QED
  BY <1>1, <1>2, <1>3, <1>4, <1>5, <1>6 DEF Next

\* Type correctness of libhmalloc: in particular the pool holds policies made of the
\* bits of a long, errno holds one of the errors the code knows, and what the
\* application owns are regions, never NULL or MAP_FAILED.
THEOREM TypeCorrect == Spec => []TypeOK
<1>1. QED
  BY InitTypeOK, NextTypeOK, PTL DEF Spec

-----------------------------------------------------------------------------
(* Steps that move one thread and nothing else. *)
LEMMA NullIsNoRegion == Null \notin Addr /\ MapFailed \notin Addr /\ Unmapped \notin Policies
  BY HmallocAssumption

LEMMA OtherFrames ==
    ASSUME TypeOK, NEW t \in Threads, NEW f, Goto(t, f)
    PROVE  frame'[t] = f /\ \A u \in Threads \ {t} : frame'[u] = frame[u]
  BY DEF TypeOK, Goto

\* A call is in progress only when the library is loaded.
LEMMA BusyIsLoaded ==
    ASSUME IInv, NEW t \in Threads, frame[t].pc # "idle"
    PROVE  lib.loaded
  BY DEF IInv, LoadInv

LEMMA LoadKept ==
    ASSUME lib.loaded, UNCHANGED lib
    PROVE  LoadInv'
  BY DEF LoadInv

LEMMA FrameKept ==
    ASSUME TypeOK, FrameInv, NEW t \in Threads, NEW f, Goto(t, f), FrameOK(f), UNCHANGED lib
    PROVE  FrameInv'
<1>1. frame'[t] = f /\ \A u \in Threads \ {t} : frame'[u] = frame[u]
  BY OtherFrames
<1>2. QED
  BY <1>1 DEF FrameInv, FrameOK

\* Thread t takes over no block: the blocks stay accounted for.
LEMMA BlocksKept ==
    ASSUME TypeOK, BlockInv, NEW t \in Threads, NEW f, Goto(t, f),
           \A a \in Addr : CallOf(f, a) => CallOf(frame[t], a),
           UNCHANGED <<heap, held>>
    PROVE  BlockInv'
<1>1. frame'[t] = f /\ \A u \in Threads \ {t} : frame'[u] = frame[u]
  BY OtherFrames
<1>2. \A u \in Threads : \A a \in Addr : CallOf(frame'[u], a) => CallOf(frame[u], a)
  BY <1>1
<1>3. QED
  BY <1>2 DEF BlockInv

\* Thread t takes over no region: the regions stay accounted for.
LEMMA OwnersKept ==
    ASSUME TypeOK, OwnerInv, NEW t \in Threads, NEW f, Goto(t, f),
           \A a \in Addr : HmmapOf(f, a) => HmmapOf(frame[t], a),
           \A a \in Addr : heap'[a] = "none" <=> heap[a] = "none",
           UNCHANGED <<vma, mapped>>
    PROVE  OwnerInv'
<1>1. frame'[t] = f /\ \A u \in Threads \ {t} : frame'[u] = frame[u]
  BY OtherFrames
<1>2. \A u \in Threads : \A a \in Addr : HmmapOf(frame'[u], a) => HmmapOf(frame[u], a)
  BY <1>1
<1>3. QED
  BY <1>2 DEF OwnerInv

LEMMA BoundKept ==
    ASSUME TypeOK, BoundInv, NEW t \in Threads, NEW f, Goto(t, f),
           \A a \in Addr : BoundOf(f, a) => BoundOf(frame[t], a),
           UNCHANGED <<lib, vma>>
    PROVE  BoundInv'
<1>1. frame'[t] = f /\ \A u \in Threads \ {t} : frame'[u] = frame[u]
  BY OtherFrames
<1>2. \A u \in Threads : \A a \in Addr : BoundOf(frame'[u], a) => BoundOf(frame[u], a)
  BY <1>1
<1>3. QED
  BY <1>2 DEF BoundInv

LEMMA PoolKept ==
    ASSUME PoolIsBound,
           \A a \in Addr : heap'[a] = "none" <=> heap[a] = "none",
           UNCHANGED <<lib, vma, mapped>>
    PROVE  PoolIsBound'
  BY DEF PoolIsBound, InPool, Hooked

LEMMA RegionsKept ==
    ASSUME TypeOK, IInv, lib.loaded, NEW t \in Threads, NEW f, Goto(t, f), FrameOK(f),
           \A a \in Addr : HmmapOf(f, a) => HmmapOf(frame[t], a),
           \A a \in Addr : BoundOf(f, a) => BoundOf(frame[t], a),
           \A a \in Addr : heap'[a] = "none" <=> heap[a] = "none",
           UNCHANGED <<lib, vma, mapped>>
    PROVE  LoadInv' /\ FrameInv' /\ OwnerInv' /\ BoundInv' /\ PoolIsBound'
<1>1. LoadInv' /\ FrameInv'
  BY LoadKept, FrameKept DEF IInv
<1>2. OwnerInv' /\ BoundInv'
  BY OwnersKept, BoundKept DEF IInv
<1>3. PoolIsBound'
  BY PoolKept DEF IInv
<1>4. QED
  BY <1>1, <1>2, <1>3

\* A step that only moves the thread, which takes over nothing.
LEMMA QuietStep ==
    ASSUME TypeOK, IInv, lib.loaded, NEW t \in Threads, NEW f, Goto(t, f), FrameOK(f),
           \A a \in Addr : HmmapOf(f, a) => HmmapOf(frame[t], a),
           \A a \in Addr : BoundOf(f, a) => BoundOf(frame[t], a),
           \A a \in Addr : CallOf(f, a) => CallOf(frame[t], a),
           UNCHANGED <<lib, vma, heap, held, mapped>>
    PROVE  IInv'
<1>1. LoadInv' /\ FrameInv' /\ OwnerInv' /\ BoundInv' /\ PoolIsBound'
  BY RegionsKept
<1>2. BlockInv'
  BY BlocksKept DEF IInv
<1>3. QED
  BY <1>1, <1>2 DEF IInv

\* The common case: the new frame owns nothing.
LEMMA EmptyHanded ==
    ASSUME TypeOK, IInv, lib.loaded, NEW t \in Threads, NEW f, Goto(t, f),
           f.ret \notin Addr, f.old = Null \/ f.old = frame[t].old,
           f.op = "hmmap" => f.old = Null,
           f.pc \notin {"mbind", "munmap", "restore"},
           UNCHANGED <<lib, vma, heap, held, mapped>>
    PROVE  IInv'
<1>1. FrameOK(f)
  BY DEF FrameOK
<1>2. \A a \in Addr : ~HmmapOf(f, a) /\ ~BoundOf(f, a)
  BY DEF HmmapOf, BoundOf
<1>3. \A a \in Addr : CallOf(f, a) => CallOf(frame[t], a)
  BY NullIsNoRegion DEF CallOf
<1>4. QED
  BY <1>1, <1>2, <1>3, QuietStep

-----------------------------------------------------------------------------
(* The calls of the application. *)
LEMMA FreeBlocks ==
    ASSUME TypeOK, BlockInv, NEW t \in Threads, NEW f, Goto(t, f),
           \A a \in Addr : CallOf(f, a) => CallOf(frame[t], a),
           NEW p \in held \cap Addr, held' = held \ {p}, Free(p)
    PROVE  BlockInv' /\ \A a \in Addr : heap'[a] = "none" <=> heap[a] = "none"
<1>1. frame'[t] = f /\ \A u \in Threads \ {t} : frame'[u] = frame[u]
  BY OtherFrames
<1>2. \A u \in Threads : \A a \in Addr : CallOf(frame'[u], a) => CallOf(frame[u], a)
  BY <1>1
<1>3. heap'[p] = "cached" /\ \A a \in Addr \ {p} : heap'[a] = heap[a]
  BY DEF TypeOK, Free
<1>4. heap[p] = "live" /\ \A u \in Threads : ~CallOf(frame[u], p)
  BY DEF BlockInv
<1>5. BlockInv'
  BY <1>2, <1>3, <1>4 DEF BlockInv
<1>6. QED
  BY <1>3, <1>4, <1>5

LEMMA ReallocBlocks ==
    ASSUME TypeOK, BlockInv, NEW t \in Threads, NEW f, Goto(t, f),
           NEW p \in held \cap Addr, held' = held \ {p}, UNCHANGED heap,
           \A a \in Addr : CallOf(f, a) => a = p
    PROVE  BlockInv'
<1>1. frame'[t] = f /\ \A u \in Threads \ {t} : frame'[u] = frame[u]
  BY OtherFrames
<1>2. heap[p] = "live" /\ \A u \in Threads : ~CallOf(frame[u], p)
  BY DEF BlockInv
<1>3. ASSUME NEW a \in Addr
      PROVE  /\ \A u \in Threads : CallOf(frame'[u], a) => heap[a] = "live" /\ a \notin held'
             /\ \A u, v \in Threads : CallOf(frame'[u], a) /\ CallOf(frame'[v], a) => u = v
             /\ a \in held' => heap[a] = "live"
  <2>1. CASE a = p
    BY <1>1, <1>2, <2>1
  <2>2. CASE a # p
    <3>1. \A u \in Threads : CallOf(frame'[u], a) => u # t /\ CallOf(frame[u], a)
      BY <1>1, <2>2
    <3>2. QED
      BY <3>1 DEF BlockInv
  <2>3. QED
    BY <2>1, <2>2
<1>4. QED
  BY <1>3 DEF BlockInv

LEMMA hreallocIInv ==
    ASSUME TypeOK, IInv, NEW t \in Threads, NEW r \in Request, hrealloc(t, r)
    PROVE  IInv'
<1>1. lib.loaded /\ frame[t].pc = "idle" /\ r.op = "hrealloc"
      /\ UNCHANGED <<lib, vma, mapped>>
  BY DEF hrealloc, Running
<1>2. CASE Enter(t, [r EXCEPT !.op = "hmalloc"], r.size, Null) /\ UNCHANGED <<heap, held>>
  <2> DEFINE q == [r EXCEPT !.op = "hmalloc"]
             f == [Idle EXCEPT !.pc = "alloc", !.op = q.op, !.size = r.size,
                               !.old = Null, !.entry = errno[t]]
  <2>1. Goto(t, f)
    BY <1>2 DEF Enter
  <2>2. f.pc = "alloc" /\ f.ret = Null /\ f.old = Null
    BY DEF Idle
  <2> HIDE DEF f
  <2>3. QED
    BY <1>1, <1>2, <2>1, <2>2, NullIsNoRegion, EmptyHanded
<1>3. ASSUME NEW p \in held \cap Addr, held' = held \ {p},
             r.size = 0, Free(p), Leave(t, r, "ok")
      PROVE  IInv'
  <2> DEFINE f == [Idle EXCEPT !.pc = "done", !.op = r.op,
                               !.status = "ok", !.entry = errno[t]]
  <2>1. Goto(t, f)
    BY <1>3 DEF Leave
  <2>2. f.pc = "done" /\ f.ret = Null /\ f.old = Null
    BY DEF Idle
  <2> HIDE DEF f
  <2>3. FrameOK(f) /\ \A a \in Addr : ~HmmapOf(f, a) /\ ~BoundOf(f, a) /\ ~CallOf(f, a)
    BY <2>2, NullIsNoRegion DEF FrameOK, HmmapOf, BoundOf, CallOf
  <2>4. BlockInv' /\ \A a \in Addr : heap'[a] = "none" <=> heap[a] = "none"
    BY <1>3, <2>1, <2>3, FreeBlocks DEF IInv
  <2>5. LoadInv' /\ FrameInv' /\ OwnerInv' /\ BoundInv' /\ PoolIsBound'
    BY <1>1, <2>1, <2>3, <2>4, RegionsKept
  <2>6. QED
    BY <2>4, <2>5 DEF IInv
<1>4. ASSUME NEW p \in held \cap Addr, held' = held \ {p},
             r.size # 0, Enter(t, r, r.size, p), UNCHANGED heap
      PROVE  IInv'
  <2> DEFINE f == [Idle EXCEPT !.pc = "alloc", !.op = r.op, !.size = r.size,
                               !.old = p, !.entry = errno[t]]
  <2>1. Goto(t, f)
    BY <1>4 DEF Enter
  <2>2. f.pc = "alloc" /\ f.ret = Null /\ f.old = p /\ f.op = "hrealloc"
    BY <1>1 DEF Idle
  <2> HIDE DEF f
  <2>3. /\ FrameOK(f)
        /\ \A a \in Addr : ~HmmapOf(f, a) /\ ~BoundOf(f, a) /\ (CallOf(f, a) => a = p)
    BY <2>2, NullIsNoRegion DEF FrameOK, HmmapOf, BoundOf, CallOf
  <2>4. BlockInv'
    BY <1>4, <2>1, <2>3, ReallocBlocks DEF IInv
  <2>5. LoadInv' /\ FrameInv' /\ OwnerInv' /\ BoundInv' /\ PoolIsBound'
    BY <1>1, <1>4, <2>1, <2>3, RegionsKept
  <2>6. QED
    BY <2>4, <2>5 DEF IInv
<1>5. QED
  BY <1>2, <1>3, <1>4 DEF hrealloc

\* A call that enters the allocator without a block, or returns at once, owns nothing.
LEMMA EnterIInv ==
    ASSUME TypeOK, IInv, NEW t \in Threads, Running(t), NEW r, NEW size, NEW status,
           Enter(t, r, size, Null) \/ Leave(t, r, status),
           UNCHANGED <<lib, vma, heap, held, mapped>>
    PROVE  IInv'
<1> DEFINE f == [Idle EXCEPT !.pc = "alloc", !.op = r.op, !.size = size,
                             !.old = Null, !.entry = errno[t]]
           g == [Idle EXCEPT !.pc = "done", !.op = r.op,
                             !.status = status, !.entry = errno[t]]
<1>1. f.pc = "alloc" /\ f.ret = Null /\ f.old = Null
  BY DEF Idle
<1>2. g.pc = "done" /\ g.ret = Null /\ g.old = Null
  BY DEF Idle
<1>3. Goto(t, f) \/ Goto(t, g)
  BY DEF Enter, Leave
<1> HIDE DEF f, g
<1>4. lib.loaded
  BY DEF Running
<1>5. CASE Goto(t, f)
  BY <1>1, <1>4, <1>5, NullIsNoRegion, EmptyHanded
<1>6. CASE Goto(t, g)
  BY <1>2, <1>4, <1>6, NullIsNoRegion, EmptyHanded
<1>7. QED
  BY <1>3, <1>5, <1>6

LEMMA UnmapFailsIInv ==
    ASSUME TypeOK, IInv, NEW t \in Threads, hmunmap_fails(t) \/ extent_dalloc_fails(t)
    PROVE  IInv'
<1>1. UNCHANGED <<lib, vma, heap, held, mapped, frame>> /\ lib.loaded
  BY DEF hmunmap_fails, extent_dalloc_fails, Running
<1>2. Goto(t, frame[t]) /\ FrameOK(frame[t])
  BY <1>1 DEF Goto, TypeOK, IInv, FrameInv
<1>3. QED
  BY <1>1, <1>2, QuietStep

LEMMA CallIInv ==
    ASSUME TypeOK, IInv, NEW t \in Threads, Call(t)
    PROVE  IInv'
<1>1. ASSUME NEW r \in Requests, hmalloc(t, r) PROVE IInv'
  BY <1>1, EnterIInv DEF hmalloc
<1>2. ASSUME NEW r \in Requests, hcalloc(t, r) PROVE IInv'
  BY <1>2, EnterIInv DEF hcalloc
<1>3. ASSUME NEW r \in Requests, hrealloc(t, r) PROVE IInv'
  <2>1. r \in Request
    BY HmallocAssumption
  <2>2. QED
    BY <1>3, <2>1, hreallocIInv
<1>4. ASSUME NEW r \in Requests, haligned_alloc(t, r) PROVE IInv'
  BY <1>4, EnterIInv DEF haligned_alloc
<1>5. ASSUME NEW r \in Requests, hposix_memalign(t, r) PROVE IInv'
  <2> DEFINE f == [Idle EXCEPT !.pc = "alloc", !.op = r.op, !.size = r.size,
                               !.old_errno = errno[t], !.entry = errno[t]]
  <2>1. f.pc = "alloc" /\ f.ret = Null /\ f.old = Null
    BY DEF Idle
  <2>2. Leave(t, r, "EINVAL") \/ Goto(t, f)
    BY <1>5 DEF hposix_memalign
  <2> HIDE DEF f
  <2>3. Running(t) /\ lib.loaded /\ UNCHANGED <<lib, vma, heap, held, mapped>>
    BY <1>5 DEF hposix_memalign, Running
  <2>4. CASE Leave(t, r, "EINVAL")
    BY <2>3, <2>4, EnterIInv
  <2>5. CASE Goto(t, f)
    BY <2>1, <2>3, <2>5, NullIsNoRegion, EmptyHanded
  <2>6. QED
    BY <2>2, <2>4, <2>5
<1>6. CASE hfree(t)
  <2>1. PICK p \in held \cap Addr : Free(p) /\ held' = held \ {p}
    BY <1>6 DEF hfree
  <2>2. Goto(t, frame[t]) /\ lib.loaded /\ UNCHANGED <<lib, vma, mapped>>
    BY <1>6 DEF hfree, Goto, TypeOK, Running
  <2>3. FrameOK(frame[t])
    BY DEF IInv, FrameInv
  <2>4. BlockInv' /\ \A a \in Addr : heap'[a] = "none" <=> heap[a] = "none"
    BY <2>1, <2>2, FreeBlocks DEF IInv
  <2>5. LoadInv' /\ FrameInv' /\ OwnerInv' /\ BoundInv' /\ PoolIsBound'
    BY <2>2, <2>3, <2>4, RegionsKept
  <2>6. QED
    BY <2>4, <2>5 DEF IInv
<1>7. CASE hmmap(t)
  <2> DEFINE f == [Idle EXCEPT !.pc = "mmap", !.op = "hmmap", !.entry = errno[t]]
  <2>1. f.pc = "mmap" /\ f.ret = Null /\ f.old = Null
    BY DEF Idle
  <2>2. Goto(t, f) /\ lib.loaded /\ UNCHANGED <<lib, vma, heap, held, mapped>>
    BY <1>7 DEF hmmap, Running
  <2> HIDE DEF f
  <2>3. QED
    BY <2>1, <2>2, NullIsNoRegion, EmptyHanded
<1>8. CASE hmunmap(t)
  <2>1. PICK b \in mapped : mapped' = mapped \ {b} /\ vma' = [vma EXCEPT ![b] = Unmapped]
    BY <1>8 DEF hmunmap
  <2>2. lib.loaded /\ UNCHANGED <<lib, heap, held, frame>>
    BY <1>8 DEF hmunmap, Running
  <2>3. \A a \in Addr \ {b} : vma'[a] = vma[a]
    BY <2>1 DEF TypeOK
  <2>4. b \in Addr /\ heap[b] = "none" /\ \A u \in Threads : ~HmmapOf(frame[u], b)
    BY DEF TypeOK, IInv, OwnerInv
  <2>5. OwnerInv'
    <3>1. OwnerInv
      BY DEF IInv
    <3>2. QED
      BY <2>1, <2>2, <2>3, <2>4, <3>1 DEF OwnerInv
  <2>6. BoundInv'
    <3>1. BoundInv
      BY DEF IInv
    <3>2. \A u \in Threads : ~BoundOf(frame[u], b)
      BY <2>4 DEF BoundOf
    <3>3. QED
      BY <2>2, <2>3, <3>1, <3>2 DEF BoundInv
  <2>7. PoolIsBound'
    <3>1. PoolIsBound
      BY DEF IInv
    <3>2. QED
      BY <2>1, <2>2, <2>3, <2>4, <3>1 DEF PoolIsBound, InPool, Hooked
  <2>8. LoadInv' /\ FrameInv' /\ BlockInv'
    BY <2>2 DEF IInv, LoadInv, FrameInv, FrameOK, BlockInv
  <2>9. QED
    BY <2>5, <2>6, <2>7, <2>8 DEF IInv
<1>9. CASE AppErrno(t)
  <2>1. UNCHANGED <<lib, vma, heap, held, mapped, frame>>
    BY <1>9 DEF AppErrno
  <2>2. Goto(t, frame[t]) /\ lib.loaded /\ FrameOK(frame[t])
    BY <1>9, <2>1 DEF AppErrno, Goto, TypeOK, Running, IInv, FrameInv
  <2>3. QED
    BY <2>1, <2>2, QuietStep
<1>10. CASE hmunmap_fails(t)
  BY <1>10, UnmapFailsIInv
<1>11. QED
  BY <1>1, <1>2, <1>3, <1>4, <1>5, <1>6, <1>7, <1>8, <1>9, <1>10 DEF Call

-----------------------------------------------------------------------------
(* The allocator. *)

\* What Deliver() does to the extents, and to the frame of its thread.
LEMMA DeliverEffect ==
    ASSUME TypeOK, IInv, NEW t \in Threads, NEW b \in Addr \cup {MapFailed}, Deliver(t, b)
    PROVE  /\ \A u \in Threads \ {t} : frame'[u] = frame[u]
           /\ frame'[t].pc = "tail" /\ frame'[t].ret = b /\ frame'[t].old = Null
           /\ frame'[t].op = frame[t].op
           /\ heap'[b] = "live"
           /\ \A a \in Addr \ {b} :
                 heap'[a] = IF a = frame[t].old THEN "cached" ELSE heap[a]
           /\ frame[t].old \in Addr => heap[frame[t].old] = "live"
<1> DEFINE f == [frame[t] EXCEPT !.pc = "tail", !.ret = b, !.old = Null]
<1>1. frame[t] \in Frames
  BY DEF TypeOK
<1>2. f.pc = "tail" /\ f.ret = b /\ f.old = Null /\ f.op = frame[t].op
  BY <1>1 DEF Frames
<1>3. Goto(t, f)
  BY DEF Deliver
<1> HIDE DEF f
<1>4. frame'[t] = f /\ \A u \in Threads \ {t} : frame'[u] = frame[u]
  BY <1>3, OtherFrames
<1>5. /\ heap'[b] = "live"
      /\ \A a \in Addr \ {b} :
            heap'[a] = IF a = frame[t].old THEN "cached" ELSE heap[a]
  BY DEF Deliver, TypeOK
<1>6. frame[t].old \in Addr => heap[frame[t].old] = "live"
  BY DEF IInv, BlockInv, CallOf
<1>7. QED
  BY <1>2, <1>4, <1>5, <1>6

LEMMA DeliverBlocks ==
    ASSUME TypeOK, IInv, NEW t \in Threads, NEW b \in Addr \cup {MapFailed}, Deliver(t, b),
           b \in Addr => heap[b] # "live", UNCHANGED held
    PROVE  BlockInv'
<1>1. BlockInv
  BY DEF IInv
<1>2. /\ \A u \in Threads \ {t} : frame'[u] = frame[u]
      /\ heap'[b] = "live"
      /\ \A a \in Addr \ {b} :
            heap'[a] = IF a = frame[t].old THEN "cached" ELSE heap[a]
  BY DeliverEffect
<1>3. \A a \in Addr : CallOf(frame'[t], a) => a = b
  BY DeliverEffect, NullIsNoRegion DEF CallOf
<1>4. ASSUME NEW a \in Addr
      PROVE  /\ \A u \in Threads : CallOf(frame'[u], a) => heap'[a] = "live" /\ a \notin held
             /\ \A u, v \in Threads : CallOf(frame'[u], a) /\ CallOf(frame'[v], a) => u = v
             /\ a \in held => heap'[a] = "live"
  <2>1. CASE a = b
    <3>1. a \notin held /\ \A u \in Threads : ~CallOf(frame[u], a)
      BY <1>1, <2>1 DEF BlockInv
    <3>2. \A u \in Threads : CallOf(frame'[u], a) => u = t
      BY <1>2, <3>1
    <3>3. QED
      BY <1>2, <2>1, <3>1, <3>2
  <2>2. CASE a # b /\ a = frame[t].old
    <3>1. CallOf(frame[t], a)
      BY <2>2 DEF CallOf
    <3>2. a \notin held /\ \A u \in Threads \ {t} : ~CallOf(frame[u], a)
      BY <1>1, <3>1 DEF BlockInv
    <3>3. \A u \in Threads : ~CallOf(frame'[u], a)
      BY <1>2, <1>3, <2>2, <3>2
    <3>4. QED
      BY <3>2, <3>3
  <2>3. CASE a # b /\ a # frame[t].old
    <3>1. heap'[a] = heap[a]
      BY <1>2, <2>3
    <3>2. \A u \in Threads : CallOf(frame'[u], a) => CallOf(frame[u], a)
      BY <1>2, <1>3, <2>3
    <3>3. QED
      BY <1>1, <3>1, <3>2 DEF BlockInv
  <2>4. QED
    BY <2>1, <2>2, <2>3
<1>5. QED
  BY <1>4 DEF BlockInv

\* A region becomes a block: it must be nobody's, and under the policy already if the
\* arena is the hooked one.
LEMMA DeliverIInv ==
    ASSUME TypeOK, IInv, NEW t \in Threads, NEW b \in Addr \cup {MapFailed}, Deliver(t, b),
           lib.loaded, UNCHANGED <<lib, held, mapped>>,
           \A a \in Addr \ {b} : vma'[a] = vma[a],
           b \in Addr => /\ heap[b] # "live"
                         /\ b \notin mapped
                         /\ vma'[b] # Unmapped
                         /\ Hooked => vma'[b] = PoolPolicy(lib)
                         /\ \A u \in Threads \ {t} : ~HmmapOf(frame[u], b)
    PROVE  IInv'
<1>1. /\ \A u \in Threads \ {t} : frame'[u] = frame[u]
      /\ frame'[t].pc = "tail" /\ frame'[t].old = Null
      /\ \A a \in Addr \ {b} : heap'[a] = "none" <=> heap[a] = "none"
      /\ heap'[b] = "live"
  BY DeliverEffect
<1>2. \A a \in Addr : ~HmmapOf(frame'[t], a) /\ ~BoundOf(frame'[t], a)
  BY <1>1 DEF HmmapOf, BoundOf
<1>3. \A u \in Threads : \A a \in Addr :
         /\ HmmapOf(frame'[u], a) => a # b /\ HmmapOf(frame[u], a)
         /\ BoundOf(frame'[u], a) => a # b /\ BoundOf(frame[u], a)
  BY <1>1, <1>2 DEF BoundOf
<1>4. LoadInv'
  BY LoadKept
<1>5. FrameInv'
  <2> DEFINE f == [frame[t] EXCEPT !.pc = "tail", !.ret = b, !.old = Null]
  <2>1. frame[t] \in Frames
    BY DEF TypeOK
  <2>2. FrameOK(f)
    BY <2>1 DEF FrameOK, Frames
  <2>3. Goto(t, f)
    BY DEF Deliver
  <2> HIDE DEF f
  <2>4. QED
    BY <2>2, <2>3, FrameKept DEF IInv
<1>6. OwnerInv'
  <2>1. OwnerInv
    BY DEF IInv
  <2>2. QED
    BY <1>1, <1>3, <2>1 DEF OwnerInv
<1>7. BlockInv'
  BY DeliverBlocks
<1>8. BoundInv'
  <2>1. BoundInv
    BY DEF IInv
  <2>2. QED
    BY <1>3, <2>1 DEF BoundInv
<1>9. PoolIsBound'
  <2>1. PoolIsBound
    BY DEF IInv
  <2>2. QED
    BY <1>1, <2>1 DEF PoolIsBound, InPool, Hooked
<1>10. QED
  BY <1>4, <1>5, <1>6, <1>7, <1>8, <1>9 DEF IInv

LEMMA AllocatorIInv ==
    ASSUME TypeOK, IInv, NEW t \in Threads, Allocator(t)
    PROVE  IInv'
<1>1. frame[t] \in Frames /\ FrameOK(frame[t])
  BY DEF TypeOK, IInv, FrameInv
<1>2. lib.loaded /\ frame[t].pc = "alloc"
  <2>1. frame[t].pc = "alloc"
    BY DEF Allocator, Reuse, ResizeInPlace, Refuse, extent_alloc, PlainMap, PlainMapFails, At
  <2>2. QED
    BY <2>1, BusyIsLoaded
<1>3. OwnerInv /\ PoolIsBound
  BY DEF IInv
<1>4. CASE Reuse(t)
  <2>1. PICK b \in Addr : heap[b] = "cached" /\ Deliver(t, b)
    BY <1>4 DEF Reuse
  <2>2. UNCHANGED <<lib, vma, held, mapped>>
    BY <1>4 DEF Reuse
  <2>3. /\ b \notin mapped /\ vma[b] # Unmapped
        /\ \A u \in Threads : ~HmmapOf(frame[u], b)
    BY <1>3, <2>1 DEF OwnerInv
  <2>4. Hooked => vma[b] = PoolPolicy(lib)
    BY <1>3, <2>1 DEF PoolIsBound, InPool
  <2>5. QED
    BY <1>2, <2>1, <2>2, <2>3, <2>4, DeliverIInv
<1>5. CASE ResizeInPlace(t)
  <2> DEFINE f == [frame[t] EXCEPT !.pc = "tail", !.ret = frame[t].old, !.old = Null]
  <2>1. f.pc = "tail" /\ f.ret = frame[t].old /\ f.old = Null
    BY <1>1 DEF Frames
  <2>2. Goto(t, f) /\ UNCHANGED <<lib, vma, heap, held, mapped>>
    BY <1>5 DEF ResizeInPlace
  <2> HIDE DEF f
  <2>3. FrameOK(f) /\ \A a \in Addr : ~HmmapOf(f, a) /\ ~BoundOf(f, a)
    BY <2>1 DEF FrameOK, HmmapOf, BoundOf
  <2>4. \A a \in Addr : CallOf(f, a) => CallOf(frame[t], a)
    BY <2>1, NullIsNoRegion DEF CallOf
  <2>5. QED
    BY <1>2, <2>2, <2>3, <2>4, QuietStep
<1>6. CASE Refuse(t) \/ PlainMapFails(t)
  <2> DEFINE f == [frame[t] EXCEPT !.pc = "tail", !.ret = Null]
  <2>1. f.pc = "tail" /\ f.ret = Null /\ f.old = frame[t].old /\ f.op = frame[t].op
    BY <1>1 DEF Frames
  <2>2. Goto(t, f) /\ UNCHANGED <<lib, vma, heap, held, mapped>>
    BY <1>6 DEF Refuse, PlainMapFails
  <2> HIDE DEF f
  <2>3. f.op = "hmmap" => f.old = Null
    BY <1>1, <2>1 DEF FrameOK
  <2>4. QED
    BY <1>2, <2>1, <2>2, <2>3, NullIsNoRegion, EmptyHanded
<1>7. CASE extent_alloc(t)
  <2> DEFINE f == [frame[t] EXCEPT !.pc = "mmap"]
  <2>1. f.pc = "mmap" /\ f.ret = frame[t].ret /\ f.old = frame[t].old /\ f.op = frame[t].op
    BY <1>1 DEF Frames
  <2>2. Goto(t, f) /\ UNCHANGED <<lib, vma, heap, held, mapped>>
    BY <1>7 DEF extent_alloc
  <2> HIDE DEF f
  <2>3. FrameOK(f) /\ \A a \in Addr : ~HmmapOf(f, a) /\ ~BoundOf(f, a)
    BY <1>1, <2>1 DEF FrameOK, HmmapOf, BoundOf
  <2>4. \A a \in Addr : CallOf(f, a) => CallOf(frame[t], a)
    BY <2>1 DEF CallOf
  <2>5. QED
    BY <1>2, <2>2, <2>3, <2>4, QuietStep
<1>8. CASE PlainMap(t)
  <2>1. PICK b \in Addr : /\ vma[b] = Unmapped
                          /\ vma' = [vma EXCEPT ![b] = DefaultPolicy]
                          /\ Deliver(t, b)
    BY <1>8 DEF PlainMap
  <2>2. ~Hooked /\ UNCHANGED <<lib, held, mapped>>
    BY <1>8 DEF PlainMap
  <2>3. DefaultPolicy # Unmapped
    BY PoolPolicyType, NullIsNoRegion DEF TypeOK
  <2>4. vma'[b] # Unmapped /\ \A a \in Addr \ {b} : vma'[a] = vma[a]
    BY <2>1, <2>3 DEF TypeOK
  <2>5. heap[b] = "none" /\ b \notin mapped /\ \A u \in Threads : ~HmmapOf(frame[u], b)
    BY <1>3, <2>1 DEF OwnerInv
  <2>6. QED
    BY <1>2, <2>1, <2>2, <2>4, <2>5, DeliverIInv
<1>9. QED
  BY <1>4, <1>5, <1>6, <1>7, <1>8 DEF Allocator

LEMMA extent_dallocIInv ==
    ASSUME TypeOK, IInv, extent_dalloc
    PROVE  IInv'
<1>1. PICK b \in Addr : /\ heap[b] = "cached"
                        /\ vma' = [vma EXCEPT ![b] = Unmapped]
                        /\ heap' = [heap EXCEPT ![b] = "none"]
  BY DEF extent_dalloc
<1>2. UNCHANGED <<lib, held, mapped, frame>>
  BY DEF extent_dalloc
<1>3. /\ heap'[b] = "none"
      /\ \A a \in Addr \ {b} : vma'[a] = vma[a] /\ heap'[a] = heap[a]
  BY <1>1 DEF TypeOK
<1>4. LoadInv /\ FrameInv /\ OwnerInv /\ BlockInv /\ BoundInv /\ PoolIsBound
  BY DEF IInv
<1>5. /\ b \notin mapped /\ b \notin held
      /\ \A u \in Threads : ~HmmapOf(frame[u], b) /\ ~BoundOf(frame[u], b) /\ ~CallOf(frame[u], b)
  BY <1>1, <1>4 DEF OwnerInv, BlockInv, BoundOf
<1>6. LoadInv'
  BY <1>2, <1>3, <1>4 DEF LoadInv
<1>7. FrameInv'
  BY <1>2, <1>4 DEF FrameInv, FrameOK
<1>8. OwnerInv'
  BY <1>2, <1>3, <1>4, <1>5 DEF OwnerInv
<1>9. BlockInv'
  BY <1>2, <1>3, <1>4, <1>5 DEF BlockInv
<1>10. BoundInv'
  BY <1>2, <1>3, <1>4, <1>5 DEF BoundInv
<1>11. PoolIsBound'
  BY <1>2, <1>3, <1>4, <1>5 DEF PoolIsBound, InPool, Hooked
<1>12. QED
  BY <1>6, <1>7, <1>8, <1>9, <1>10, <1>11 DEF IInv

-----------------------------------------------------------------------------
(* The steps of hmmap(). *)

\* A region is mapped: nobody had it, and thread t has it alone from here on.
LEMMA MmapIInv ==
    ASSUME TypeOK, IInv, NEW t \in Threads, Mmap(t)
    PROVE  IInv'
<1>1. PICK b \in Addr :
        /\ vma[b] = Unmapped
        /\ vma' = [vma EXCEPT ![b] = DefaultPolicy]
        /\ Goto(t, [frame[t] EXCEPT !.ret = b,
                        !.pc = IF lib.nodemask # {} THEN "mbind" ELSE "mapped"])
  BY DEF Mmap
<1> DEFINE f == [frame[t] EXCEPT !.ret = b,
                     !.pc = IF lib.nodemask # {} THEN "mbind" ELSE "mapped"]
<1>2. /\ f.ret = b /\ f.old = frame[t].old /\ f.op = frame[t].op
      /\ \/ f.pc = "mbind" /\ lib.nodemask # {}
         \/ f.pc = "mapped" /\ lib.nodemask = {}
  BY DEF TypeOK, Frames
<1>3. Goto(t, f)
  BY <1>1
<1> HIDE DEF f
<1>4. frame'[t] = f /\ \A u \in Threads \ {t} : frame'[u] = frame[u]
  BY <1>3, OtherFrames
<1>5. lib.loaded /\ UNCHANGED <<lib, heap, held, mapped>>
  BY BusyIsLoaded DEF Mmap, At
<1>6. LoadInv /\ FrameInv /\ OwnerInv /\ BlockInv /\ BoundInv /\ PoolIsBound
  BY DEF IInv
<1>7. vma'[b] = DefaultPolicy /\ \A a \in Addr \ {b} : vma'[a] = vma[a]
  BY <1>1 DEF TypeOK
<1>8. DefaultPolicy # Unmapped
  BY PoolPolicyType, NullIsNoRegion DEF TypeOK
<1>9. /\ heap[b] = "none" /\ b \notin mapped
      /\ \A u \in Threads : ~HmmapOf(frame[u], b) /\ ~BoundOf(frame[u], b)
  BY <1>1, <1>6 DEF OwnerInv, BoundOf
<1>10. \A a \in Addr : HmmapOf(f, a) => a = b
  BY <1>2 DEF HmmapOf
<1>11. FrameOK(frame[t])
  BY <1>6 DEF FrameInv
<1>12. FrameOK(f)
  BY <1>2, <1>11 DEF FrameOK
<1>13. LoadInv' /\ FrameInv'
  BY <1>3, <1>5, <1>6, <1>12, LoadKept, FrameKept
<1>14. OwnerInv'
  BY <1>4, <1>5, <1>6, <1>7, <1>8, <1>9, <1>10 DEF OwnerInv
<1>15. BlockInv'
  <2>1. \A a \in Addr : CallOf(f, a) => CallOf(frame[t], a)
    BY <1>2 DEF CallOf
  <2>2. QED
    BY <1>3, <1>5, <1>6, <2>1, BlocksKept
<1>16. BoundInv'
  <2>1. \A a \in Addr : BoundOf(f, a) => a = b /\ PoolPolicy(lib) = DefaultPolicy
    BY <1>2, <1>10 DEF BoundOf, PoolPolicy
  <2>2. QED
    BY <1>4, <1>5, <1>6, <1>7, <1>9, <2>1 DEF BoundInv
<1>17. PoolIsBound'
  BY <1>5, <1>6, <1>7, <1>9 DEF PoolIsBound, InPool, Hooked
<1>18. QED
  BY <1>13, <1>14, <1>15, <1>16, <1>17 DEF IInv

\* Thread t has region b for itself: whatever it does to the policy of b, it does to
\* nobody else.
LEMMA OwnRegion ==
    ASSUME TypeOK, IInv, NEW t \in Threads, NEW b \in Addr, HmmapOf(frame[t], b),
           NEW f, Goto(t, f), FrameOK(f),
           \A a \in Addr : HmmapOf(f, a) => a = b,
           \A a \in Addr : CallOf(f, a) => CallOf(frame[t], a),
           \A a \in Addr \ {b} : vma'[a] = vma[a],
           HmmapOf(f, b) => vma'[b] # Unmapped,
           BoundOf(f, b) => vma'[b] = PoolPolicy(lib),
           UNCHANGED <<lib, heap, held, mapped>>
    PROVE  IInv'
<1>1. frame'[t] = f /\ \A u \in Threads \ {t} : frame'[u] = frame[u]
  BY OtherFrames
<1>2. lib.loaded
  BY BusyIsLoaded DEF HmmapOf
<1>3. LoadInv /\ FrameInv /\ OwnerInv /\ BlockInv /\ BoundInv /\ PoolIsBound
  BY DEF IInv
<1>4. /\ heap[b] = "none" /\ b \notin mapped
      /\ \A u \in Threads \ {t} : ~HmmapOf(frame[u], b) /\ ~BoundOf(frame[u], b)
  BY <1>3 DEF OwnerInv, BoundOf
<1>5. LoadInv' /\ FrameInv' /\ BlockInv'
  BY <1>2, <1>3, LoadKept, FrameKept, BlocksKept
<1>6. OwnerInv'
  BY <1>1, <1>3, <1>4 DEF OwnerInv
<1>7. BoundInv'
  <2>1. \A a \in Addr : BoundOf(f, a) => a = b
    BY DEF BoundOf
  <2>2. QED
    BY <1>1, <1>3, <1>4, <2>1 DEF BoundInv
<1>8. PoolIsBound'
  BY <1>3, <1>4 DEF PoolIsBound, InPool, Hooked
<1>9. QED
  BY <1>5, <1>6, <1>7, <1>8 DEF IInv

LEMMA MbindIInv ==
    ASSUME TypeOK, IInv, NEW t \in Threads, Mbind(t) \/ Munmap(t)
    PROVE  IInv'
<1>1. /\ frame[t] \in Frames /\ FrameOK(frame[t])
      /\ frame[t].pc \in {"mbind", "munmap"} /\ frame[t].ret \in Addr
  BY DEF TypeOK, IInv, FrameInv, FrameOK, Mbind, Munmap, At
<1> DEFINE b == frame[t].ret
<1>2. b \in Addr /\ HmmapOf(frame[t], b) /\ UNCHANGED <<lib, heap, held, mapped>>
  BY <1>1 DEF HmmapOf, Mbind, Munmap
<1>3. \A a \in Addr \ {b} : vma'[a] = vma[a]
  BY DEF TypeOK, Mbind, Munmap
<1>4. CASE Mbind(t)
  <2> DEFINE f == [frame[t] EXCEPT !.pc = "mapped"]
  <2>1. f.pc = "mapped" /\ f.ret = b /\ f.old = frame[t].old /\ f.op = frame[t].op
    BY <1>1 DEF Frames
  <2>2. Goto(t, f)
    BY <1>4 DEF Mbind
  <2> HIDE DEF f
  <2>3. vma'[b] = Bound(lib) /\ lib.nodemask # {}
    BY <1>1, <1>4 DEF Mbind, At, TypeOK, FrameOK
  <2>4. vma'[b] = PoolPolicy(lib) /\ vma'[b] # Unmapped
    <3>1. Bound(lib) \in Policies
      BY PoolPolicyType DEF TypeOK
    <3>2. QED
      BY <2>3, <3>1, NullIsNoRegion DEF PoolPolicy
  <2>5. FrameOK(f)
    BY <1>1, <2>1 DEF FrameOK
  <2>6. /\ \A a \in Addr : HmmapOf(f, a) => a = b
        /\ \A a \in Addr : CallOf(f, a) => CallOf(frame[t], a)
    BY <2>1 DEF HmmapOf, CallOf
  <2> HIDE DEF b
  <2>7. QED
    BY <1>2, <1>3, <2>2, <2>4, <2>5, <2>6, OwnRegion
<1>5. CASE Munmap(t)
  <2> DEFINE f == [frame[t] EXCEPT !.pc = "restore", !.ret = Null]
  <2>1. f.pc = "restore" /\ f.ret = Null /\ f.old = frame[t].old /\ f.op = frame[t].op
    BY <1>1 DEF Frames
  <2>2. Goto(t, f)
    BY <1>5 DEF Munmap
  <2> HIDE DEF f
  <2>3. FrameOK(f)
    BY <1>1, <2>1 DEF FrameOK
  <2>4. /\ \A a \in Addr : ~HmmapOf(f, a) /\ ~BoundOf(f, a)
        /\ \A a \in Addr : CallOf(f, a) => CallOf(frame[t], a)
    BY <2>1 DEF HmmapOf, BoundOf, CallOf
  <2> HIDE DEF b
  <2>5. QED
    BY <1>2, <1>3, <2>2, <2>3, <2>4, OwnRegion
<1>6. QED
  BY <1>4, <1>5

\* The hook has answered: jemalloc tries again, the process is gone, or the region
\* becomes a block, under the policy already.
LEMMA HookIInv ==
    ASSUME TypeOK, IInv, NEW t \in Threads, HookReturns(t)
    PROVE  IInv'
<1>1. /\ frame[t] \in Frames /\ frame[t].pc = "mapped" /\ frame[t].op # "hmmap"
      /\ UNCHANGED <<lib, vma, held, mapped>>
  BY DEF TypeOK, HookReturns, At
<1>2. lib.loaded
  BY <1>1, BusyIsLoaded
<1>3. CASE /\ frame[t].ret = Null
           /\ Goto(t, [frame[t] EXCEPT !.pc = "alloc", !.tries = @ + 1, !.cause = "ok"])
           /\ UNCHANGED heap
  <2> DEFINE n == frame[t].tries + 1
             f == [frame[t] EXCEPT !.pc = "alloc", !.tries = n, !.cause = "ok"]
  <2>1. Goto(t, f)
    BY <1>1, <1>3 DEF Frames
  <2> HIDE DEF n
  <2>2. f.pc = "alloc" /\ f.ret = Null /\ f.old = frame[t].old /\ f.op # "hmmap"
    BY <1>1, <1>3 DEF Frames
  <2> HIDE DEF f
  <2>3. QED
    BY <1>1, <1>2, <1>3, <2>1, <2>2, NullIsNoRegion, EmptyHanded
<1>4. CASE /\ frame[t].ret = MapFailed
           /\ Goto(t, [frame[t] EXCEPT !.pc = "crashed"])
           /\ UNCHANGED heap
  <2> DEFINE f == [frame[t] EXCEPT !.pc = "crashed"]
  <2>1. f.pc = "crashed" /\ f.ret = MapFailed /\ f.old = frame[t].old /\ f.op # "hmmap"
    BY <1>1, <1>4 DEF Frames
  <2>2. Goto(t, f)
    BY <1>4
  <2> HIDE DEF f
  <2>3. QED
    BY <1>1, <1>2, <1>4, <2>1, <2>2, NullIsNoRegion, EmptyHanded
<1>5. CASE frame[t].ret # Null /\ Deliver(t, frame[t].ret)
  <2> DEFINE b == frame[t].ret
  <2>1. b \in Addr \cup {MapFailed} /\ Deliver(t, b)
    BY <1>1, <1>5 DEF Frames, Ptrs
  <2>2. b \in Addr => HmmapOf(frame[t], b) /\ BoundOf(frame[t], b)
    BY <1>1 DEF HmmapOf, BoundOf
  <2> HIDE DEF b
  <2>3. b \in Addr => /\ heap[b] = "none" /\ b \notin mapped /\ vma[b] # Unmapped
                      /\ \A u \in Threads \ {t} : ~HmmapOf(frame[u], b)
    BY <2>2 DEF IInv, OwnerInv
  <2>4. b \in Addr => vma[b] = PoolPolicy(lib)
    BY <2>2 DEF IInv, BoundInv
  <2>5. QED
    BY <1>1, <1>2, <2>1, <2>3, <2>4, DeliverIInv
<1>6. QED
  BY <1>3, <1>4, <1>5 DEF HookReturns

LEMMA HmmapIInv ==
    ASSUME TypeOK, IInv, NEW t \in Threads, Hmmap(t)
    PROVE  IInv'
<1>1. frame[t] \in Frames /\ FrameOK(frame[t])
  BY DEF TypeOK, IInv, FrameInv
<1>2. lib.loaded
  <2>1. frame[t].pc # "idle"
    BY DEF Hmmap, Mmap, MmapFails, Mbind, MbindFails, Munmap, MunmapFails, RestoreErrno,
           HmmapReturns, HookReturns, At
  <2>2. QED
    BY <2>1, BusyIsLoaded
<1>3. CASE MmapFails(t)
  <2> DEFINE f == [frame[t] EXCEPT !.pc = "mapped", !.ret = MapFailed, !.cause = "ENOMEM"]
  <2>1. /\ f.pc = "mapped" /\ f.ret = MapFailed /\ f.old = frame[t].old
        /\ f.op = frame[t].op
    BY <1>1 DEF Frames
  <2>2. Goto(t, f) /\ UNCHANGED <<lib, vma, heap, held, mapped>>
    BY <1>3 DEF MmapFails
  <2> HIDE DEF f
  <2>3. f.op = "hmmap" => f.old = Null
    BY <1>1, <2>1 DEF FrameOK
  <2>4. QED
    BY <1>2, <2>1, <2>2, <2>3, NullIsNoRegion, EmptyHanded
<1>4. CASE MbindFails(t)
  <2>1. PICK e \in MbindErrors(lib) :
          Goto(t, [frame[t] EXCEPT !.pc = "munmap", !.mbind_errno = e, !.cause = e])
    BY <1>4 DEF MbindFails
  <2> DEFINE f == [frame[t] EXCEPT !.pc = "munmap", !.mbind_errno = e, !.cause = e]
  <2>2. f.pc = "munmap" /\ f.ret = frame[t].ret /\ f.old = frame[t].old /\ f.op = frame[t].op
    BY <1>1 DEF Frames
  <2>3. Goto(t, f) /\ frame[t].pc = "mbind" /\ UNCHANGED <<lib, vma, heap, held, mapped>>
    BY <1>4, <2>1 DEF MbindFails, At
  <2> HIDE DEF f
  <2>4. FrameOK(f)
    BY <1>1, <2>2, <2>3 DEF FrameOK
  <2>5. \A a \in Addr : /\ HmmapOf(f, a) => HmmapOf(frame[t], a)
                        /\ ~BoundOf(f, a)
                        /\ CallOf(f, a) => CallOf(frame[t], a)
    BY <2>2, <2>3 DEF HmmapOf, BoundOf, CallOf
  <2>6. QED
    BY <1>2, <2>3, <2>4, <2>5, QuietStep
<1>5. CASE MunmapFails(t)
  <2> DEFINE f == [frame[t] EXCEPT !.pc = "restore", !.ret = Null]
  <2>1. f.pc = "restore" /\ f.ret = Null /\ f.old = frame[t].old /\ f.op = frame[t].op
    BY <1>1 DEF Frames
  <2>2. Goto(t, f) /\ UNCHANGED <<lib, vma, heap, held, mapped>>
    BY <1>5 DEF MunmapFails
  <2> HIDE DEF f
  <2>3. FrameOK(f)
    BY <1>1, <2>1 DEF FrameOK
  <2>4. \A a \in Addr : /\ ~HmmapOf(f, a) /\ ~BoundOf(f, a)
                        /\ CallOf(f, a) => CallOf(frame[t], a)
    BY <2>1 DEF HmmapOf, BoundOf, CallOf
  <2>5. QED
    BY <1>2, <2>2, <2>3, <2>4, QuietStep
<1>6. CASE RestoreErrno(t)
  <2> DEFINE f == [frame[t] EXCEPT !.pc = "mapped", !.mbind_errno = "ok"]
  <2>1. f.pc = "mapped" /\ f.ret = frame[t].ret /\ f.old = frame[t].old /\ f.op = frame[t].op
    BY <1>1 DEF Frames
  <2>2. /\ Goto(t, f) /\ frame[t].pc = "restore"
        /\ UNCHANGED <<lib, vma, heap, held, mapped>>
    BY <1>6 DEF RestoreErrno, At
  <2> HIDE DEF f
  <2>3. f.ret = Null /\ (f.op = "hmmap" => f.old = Null)
    BY <1>1, <2>1, <2>2 DEF FrameOK
  <2>4. QED
    BY <1>2, <2>1, <2>2, <2>3, NullIsNoRegion, EmptyHanded
<1>7. CASE HmmapReturns(t)
  <2> DEFINE f == [frame[t] EXCEPT !.pc = "done"]
  <2>1. f.pc = "done" /\ f.ret = frame[t].ret /\ f.old = frame[t].old /\ f.op = frame[t].op
    BY <1>1 DEF Frames
  <2>2. /\ Goto(t, f) /\ frame[t].pc = "mapped" /\ frame[t].op = "hmmap"
        /\ UNCHANGED <<lib, vma, heap, held, mapped>>
    BY <1>7 DEF HmmapReturns, At
  <2> HIDE DEF f
  <2>3. FrameOK(f)
    BY <1>1, <2>1 DEF FrameOK
  <2>4. \A a \in Addr : /\ HmmapOf(f, a) => HmmapOf(frame[t], a)
                        /\ BoundOf(f, a) => BoundOf(frame[t], a)
                        /\ CallOf(f, a) => CallOf(frame[t], a)
    BY <2>1, <2>2 DEF HmmapOf, BoundOf, CallOf
  <2>5. QED
    BY <1>2, <2>2, <2>3, <2>4, QuietStep
<1>8. QED
  BY <1>3, <1>4, <1>5, <1>6, <1>7, MmapIInv, MbindIInv, HookIInv DEF Hmmap

-----------------------------------------------------------------------------
(* Leaving the API. *)

\* A function answers with the block the allocator delivered, or withholds it.
LEMMA AnswerIInv ==
    ASSUME TypeOK, IInv, NEW t \in Threads, frame[t].pc = "tail", frame[t].op # "hmmap",
           NEW ret, ret = frame[t].ret \/ ret = Null, NEW status, Answer(t, ret, status),
           UNCHANGED <<lib, vma, heap, held, mapped>>
    PROVE  IInv'
<1> DEFINE f == [frame[t] EXCEPT !.pc = "done", !.ret = ret, !.status = status,
                                 !.cause = "ok", !.old_errno = "ok"]
<1>1. f.pc = "done" /\ f.ret = ret /\ f.old = frame[t].old /\ f.op = frame[t].op
  BY DEF TypeOK, Frames
<1>2. Goto(t, f)
  BY DEF Answer
<1> HIDE DEF f
<1>3. FrameOK(f) /\ \A a \in Addr : ~HmmapOf(f, a) /\ ~BoundOf(f, a)
  BY <1>1 DEF FrameOK, HmmapOf, BoundOf
<1>4. \A a \in Addr : CallOf(f, a) => CallOf(frame[t], a)
  BY <1>1, NullIsNoRegion DEF CallOf
<1>5. lib.loaded
  BY BusyIsLoaded
<1>6. QED
  BY <1>2, <1>3, <1>4, <1>5, QuietStep

\* What a call returns is the application's; nobody else has it.
LEMMA ReturnIInv ==
    ASSUME TypeOK, IInv, NEW t \in Threads, Return(t)
    PROVE  IInv'
<1> DEFINE new == {frame[t].ret, frame[t].old} \ {Null, MapFailed}
<1>1. /\ frame[t].pc = "done" /\ Goto(t, Idle) /\ UNCHANGED <<lib, vma, heap>>
      /\ FrameOK(frame[t])
  BY DEF Return, At, IInv, FrameInv
<1>2. lib.loaded
  BY <1>1, BusyIsLoaded
<1>3. /\ FrameOK(Idle)
      /\ \A a \in Addr : ~HmmapOf(Idle, a) /\ ~BoundOf(Idle, a) /\ ~CallOf(Idle, a)
  BY NullIsNoRegion DEF Idle, FrameOK, HmmapOf, BoundOf, CallOf
<1>4. frame'[t] = Idle /\ \A u \in Threads \ {t} : frame'[u] = frame[u]
  BY <1>1, OtherFrames
<1>5. LoadInv /\ FrameInv /\ OwnerInv /\ BlockInv /\ BoundInv /\ PoolIsBound
  BY DEF IInv
<1>6. CASE frame[t].op = "hmmap"
  <2>1. mapped' = mapped \cup new /\ held' = held
    BY <1>6 DEF Return
  <2>2. \A a \in new : HmmapOf(frame[t], a) /\ BoundOf(frame[t], a)
    BY <1>1, <1>6 DEF FrameOK, HmmapOf, BoundOf
  <2> HIDE DEF new
  <2>3. \A a \in Addr : a \in new => /\ vma[a] = PoolPolicy(lib) /\ vma[a] # Unmapped
                                     /\ heap[a] = "none"
                                     /\ \A u \in Threads \ {t} : ~HmmapOf(frame[u], a)
    BY <1>5, <2>2 DEF OwnerInv, BoundInv
  <2>4. LoadInv' /\ FrameInv'
    BY <1>1, <1>2, <1>3, <1>5, LoadKept, FrameKept
  <2>5. BlockInv'
    BY <1>1, <1>3, <1>5, <2>1, BlocksKept
  <2>6. OwnerInv'
    <3>1. \A u \in Threads : \A a \in Addr :
             HmmapOf(frame'[u], a) => u # t /\ HmmapOf(frame[u], a)
      BY <1>3, <1>4
    <3>2. ASSUME NEW a \in Addr
          PROVE  /\ \A u \in Threads : HmmapOf(frame'[u], a) => /\ vma[a] # Unmapped
                                                                /\ heap[a] = "none"
                                                                /\ a \notin mapped'
                 /\ \A u, v \in Threads : HmmapOf(frame'[u], a) /\ HmmapOf(frame'[v], a)
                                             => u = v
                 /\ heap[a] # "none" => vma[a] # Unmapped /\ a \notin mapped'
                 /\ a \in mapped' => vma[a] # Unmapped
      BY <1>5, <2>1, <2>3, <3>1 DEF OwnerInv
    <3>3. QED
      BY <1>1, <3>2 DEF OwnerInv
  <2>7. BoundInv'
    BY <1>1, <1>3, <1>5, BoundKept
  <2>8. PoolIsBound'
    BY <1>1, <1>5, <2>1, <2>3 DEF PoolIsBound, InPool, Hooked
  <2>9. QED
    BY <2>4, <2>5, <2>6, <2>7, <2>8 DEF IInv
<1>7. CASE frame[t].op # "hmmap"
  <2>1. held' = held \cup new /\ mapped' = mapped
    BY <1>7 DEF Return
  <2>2. \A a \in new : CallOf(frame[t], a)
    BY <1>1, <1>7 DEF CallOf
  <2> HIDE DEF new
  <2>3. \A a \in Addr : a \in new => /\ heap[a] = "live"
                                     /\ \A u \in Threads \ {t} : ~CallOf(frame[u], a)
    BY <1>5, <2>2 DEF BlockInv
  <2>4. BlockInv'
    <3>1. \A u \in Threads : \A a \in Addr :
             CallOf(frame'[u], a) => u # t /\ CallOf(frame[u], a)
      BY <1>3, <1>4
    <3>2. QED
      BY <1>1, <1>5, <2>1, <2>3, <3>1 DEF BlockInv
  <2>5. LoadInv' /\ FrameInv' /\ OwnerInv' /\ BoundInv' /\ PoolIsBound'
    BY <1>1, <1>2, <1>3, <2>1, RegionsKept
  <2>6. QED
    BY <2>4, <2>5 DEF IInv
<1>8. QED
  BY <1>6, <1>7

LEMMA TailIInv ==
    ASSUME TypeOK, IInv, NEW t \in Threads,
           HmallocTail(t) \/ PlainTail(t) \/ MemalignTail(t) \/ Return(t)
    PROVE  IInv'
<1>1. CASE HmallocTail(t)
  <2>1. frame[t].pc = "tail" /\ frame[t].op # "hmmap" /\ UNCHANGED <<lib, vma, heap, held, mapped>>
    BY <1>1 DEF HmallocTail, At
  <2>2. \E ret : (ret = frame[t].ret \/ ret = Null) /\ Answer(t, ret, "ok")
    BY <1>1 DEF HmallocTail
  <2>3. QED
    BY <2>1, <2>2, AnswerIInv
<1>2. CASE PlainTail(t)
  <2>1. frame[t].pc = "tail" /\ frame[t].op # "hmmap" /\ UNCHANGED <<lib, vma, heap, held, mapped>>
    BY <1>2 DEF PlainTail, At
  <2>2. Answer(t, frame[t].ret, "ok")
    BY <1>2 DEF PlainTail
  <2>3. QED
    BY <2>1, <2>2, AnswerIInv
<1>3. CASE MemalignTail(t)
  <2>1. frame[t].pc = "tail" /\ frame[t].op # "hmmap" /\ UNCHANGED <<lib, vma, heap, held, mapped>>
    BY <1>3 DEF MemalignTail, At
  <2>2. \E ret, status : (ret = frame[t].ret \/ ret = Null) /\ Answer(t, ret, status)
    BY <1>3 DEF MemalignTail
  <2>3. QED
    BY <2>1, <2>2, AnswerIInv
<1>4. QED
  BY <1>1, <1>2, <1>3, ReturnIInv

-----------------------------------------------------------------------------
(* The constructor, and the proof that the invariant is inductive. *)
LEMMA LoadsLib ==
    ASSUME TypeOK, hmalloc_init
    PROVE  lib'.loaded
<1> DEFINE l == [update_env(lib) EXCEPT !.loaded = TRUE]
           m == [l EXCEPT !.maxnode = MaxPossible]
<1>1. l \in [{"loaded", "use_jemalloc", "nodemask", "mpol_mode", "maxnode", "arena_index"}
                -> {l[x] : x \in DOMAIN l}] /\ l.loaded
  BY DEF update_env, TypeOK, Libs
<1>2. m.loaded /\ \A i : [m EXCEPT !.arena_index = i].loaded
  BY <1>1
<1>3. lib' = l \/ \E i : lib' = [m EXCEPT !.arena_index = i]
  BY DEF hmalloc_init
<1>4. QED
  BY <1>1, <1>2, <1>3

LEMMA LoadIInv ==
    ASSUME TypeOK, IInv, hmalloc_init
    PROVE  IInv'
<1>1. /\ ~lib.loaded /\ lib'.loaded
      /\ UNCHANGED <<vma, heap, held, mapped, frame>>
  BY LoadsLib DEF hmalloc_init
<1>2. /\ \A t \in Threads : frame[t].pc = "idle"
      /\ \A a \in Addr : heap[a] = "none"
      /\ mapped = {}
  BY <1>1 DEF IInv, LoadInv
<1>3. \A t \in Threads : \A a \in Addr : ~BoundOf(frame[t], a)
  BY <1>2 DEF BoundOf
<1>4. LoadInv' /\ OwnerInv' /\ BlockInv'
  BY <1>1 DEF IInv, LoadInv, OwnerInv, BlockInv
<1>5. FrameInv'
  BY <1>1, <1>2 DEF IInv, FrameInv, FrameOK
<1>6. BoundInv'
  BY <1>1, <1>3 DEF BoundInv
<1>7. PoolIsBound'
  BY <1>1, <1>2 DEF PoolIsBound, InPool
<1>8. QED
  BY <1>4, <1>5, <1>6, <1>7 DEF IInv

LEMMA InitIInv == Init => IInv
<1> SUFFICES ASSUME Init PROVE IInv
  OBVIOUS
<1>1. \A t \in Threads : FrameOK(frame[t])
  BY DEF Init, FrameOK, Idle
<1>2. \A t \in Threads : \A a \in Addr :
         ~HmmapOf(frame[t], a) /\ ~CallOf(frame[t], a) /\ ~BoundOf(frame[t], a)
  BY NullIsNoRegion DEF Init, Idle, HmmapOf, CallOf, BoundOf
<1>3. OwnerInv /\ BlockInv /\ BoundInv /\ PoolIsBound
  BY <1>2 DEF Init, OwnerInv, BlockInv, BoundInv, PoolIsBound, InPool
<1>4. LoadInv
  BY DEF Init, LoadInv, Idle
<1>5. QED
  BY <1>1, <1>3, <1>4 DEF IInv, FrameInv

LEMMA NextIInv == TypeOK /\ IInv /\ [Next]_vars => IInv'
<1> SUFFICES ASSUME TypeOK, IInv, [Next]_vars PROVE IInv'
  OBVIOUS
<1>1. CASE hmalloc_init
  BY <1>1, LoadIInv
<1>2. CASE extent_dalloc
  BY <1>2, extent_dallocIInv
<1>3. ASSUME NEW t \in Threads, Call(t) PROVE IInv'
  BY <1>3, CallIInv
<1>4. ASSUME NEW t \in Threads, Progress(t) PROVE IInv'
  BY <1>4, AllocatorIInv, HmmapIInv, TailIInv DEF Progress
<1>5. CASE UNCHANGED vars
  BY <1>5 DEF vars, IInv, LoadInv, FrameInv, FrameOK, OwnerInv, BlockInv, BoundInv,
              PoolIsBound, InPool, Hooked
<1>6. ASSUME NEW t \in Threads, extent_dalloc_fails(t) PROVE IInv'
  BY <1>6, UnmapFailsIInv
<1>7. QED
  BY <1>1, <1>2, <1>3, <1>4, <1>5, <1>6 DEF Next

LEMMA Inductive == Spec => [](TypeOK /\ IInv)
<1>1. QED
  BY InitTypeOK, NextTypeOK, InitIInv, NextIInv, PTL DEF Spec

\* A region that jemalloc's hooked arena or a caller of hmmap() can see is under the
\* policy of the environment, whatever thread is between its mmap() and its mbind() and
\* whichever system calls fail.
THEOREM PoolIsAlwaysBound == Spec => []PoolIsBound
<1>1. TypeOK /\ IInv => PoolIsBound
  BY DEF IInv
<1>2. QED
  BY <1>1, Inductive, PTL

-----------------------------------------------------------------------------
(* The environment is read once, by the constructor. *)
ReadsEnv ==
    lib.loaded =>
        /\ lib.use_jemalloc = env.jemalloc
        /\ lib.nodemask = getenv_nodemask(env) /\ lib.mpol_mode = getenv_mpol_mode(env)
        /\ lib.use_jemalloc => /\ lib.maxnode = MaxPossible
                              /\ (lib.arena_index = 1 \/ MbindErrors(lib) # {})
                              /\ (lib.arena_index = 1 \/ lib.nodemask # {})

LEMMA LoadReadsEnv ==
    ASSUME TypeOK, hmalloc_init
    PROVE  ReadsEnv'
<1> DEFINE l == [update_env(lib) EXCEPT !.loaded = TRUE]
           m == [l EXCEPT !.maxnode = MaxPossible]
<1>1. lib \in Libs /\ env' = env
  BY DEF TypeOK, hmalloc_init
<1>2. /\ l.use_jemalloc = env.jemalloc /\ l.nodemask = getenv_nodemask(env)
      /\ l.mpol_mode = getenv_mpol_mode(env)
  BY <1>1 DEF update_env, Libs, getenv_jemalloc
<1>3. /\ m.use_jemalloc = env.jemalloc /\ m.nodemask = getenv_nodemask(env)
      /\ m.mpol_mode = getenv_mpol_mode(env) /\ m.maxnode = MaxPossible
  BY <1>1, <1>2 DEF update_env, Libs
<1>4. m \in [{"loaded", "use_jemalloc", "nodemask", "mpol_mode", "maxnode", "arena_index"}
                -> {m[x] : x \in DOMAIN m}]
  BY <1>1 DEF update_env, Libs
<1>5. \/ ~l.use_jemalloc /\ lib' = l
      \/ \E i \in Created(m) : lib' = [m EXCEPT !.arena_index = i]
  BY DEF hmalloc_init
<1>6. CASE ~l.use_jemalloc /\ lib' = l
  BY <1>1, <1>2, <1>6 DEF ReadsEnv
<1>7. ASSUME NEW i \in Created(m), lib' = [m EXCEPT !.arena_index = i]
      PROVE  ReadsEnv'
  <2>1. i \in {0, 1} /\ (i = 1 \/ (m.nodemask # {} /\ MbindErrors(m) # {}))
    BY <1>7 DEF Created
  <2> HIDE DEF m
  <2>2. /\ lib'.use_jemalloc = m.use_jemalloc /\ lib'.nodemask = m.nodemask
        /\ lib'.mpol_mode = m.mpol_mode /\ lib'.maxnode = m.maxnode /\ lib'.arena_index = i
    BY <1>4, <1>7
  <2>3. MbindErrors(lib)' = MbindErrors(m)
    BY <2>2 DEF MbindErrors, Rejected, Usable, Named
  <2>4. QED
    BY <1>1, <1>3, <2>1, <2>2, <2>3 DEF ReadsEnv
<1>8. QED
  BY <1>5, <1>6, <1>7

LEMMA NextReadsEnv ==
    ASSUME TypeOK, ReadsEnv, [Next]_vars
    PROVE  ReadsEnv' /\ env' = env /\ (lib' = lib \/ hmalloc_init)
<1>1. ASSUME env' = env, lib' = lib
      PROVE  ReadsEnv'
  BY <1>1 DEF ReadsEnv, MbindErrors, Rejected, Usable, Named
<1>2. CASE hmalloc_init
  BY <1>2, LoadReadsEnv DEF hmalloc_init
<1>3. CASE extent_dalloc
  BY <1>1, <1>3 DEF extent_dalloc
<1>4. ASSUME NEW t \in Threads, Call(t)
      PROVE  env' = env /\ lib' = lib
  BY <1>4 DEF Call, hmalloc, hcalloc, hrealloc, haligned_alloc, hposix_memalign, hfree,
              hmmap, hmunmap, hmunmap_fails, AppErrno
<1>5. ASSUME NEW t \in Threads, Progress(t)
      PROVE  env' = env /\ lib' = lib
  BY <1>5 DEF Progress, Allocator, Hmmap, Reuse, ResizeInPlace, Refuse, extent_alloc,
              PlainMap, PlainMapFails, Mmap, MmapFails, Mbind, MbindFails, Munmap,
              MunmapFails, RestoreErrno, HmmapReturns, HookReturns, HmallocTail,
              PlainTail, MemalignTail, Return
<1>6. CASE UNCHANGED vars
  BY <1>1, <1>6 DEF vars
<1>7. ASSUME NEW t \in Threads, extent_dalloc_fails(t)
      PROVE  env' = env /\ lib' = lib
  BY <1>7 DEF extent_dalloc_fails
<1>8. QED
  BY <1>1, <1>2, <1>3, <1>4, <1>5, <1>6, <1>7 DEF Next

-----------------------------------------------------------------------------
(* errno: the inductive invariant speaks of one frame and of errno of its thread. *)
\* On its way through hmmap() the reason of the failure is in the frame first, in
\* mbind_errno while munmap() may disturb errno, and in errno in the end.
HmmapErrno(f, e) ==
    f.op = "hmmap" =>
        /\ f.pc \notin {"alloc", "tail"}
        /\ f.pc \in {"mmap", "mbind"} => f.cause = "ok"
        /\ f.pc \in {"munmap", "restore"} => f.mbind_errno = f.cause
        /\ f.pc \in {"mapped", "done"} /\ f.cause # "ok" => e = f.cause

\* From the entry to the tail of hposix_memalign() old_errno is errno at the entry.
MemalignErrno(f, e) ==
    lib.use_jemalloc /\ f.op = "hposix_memalign" =>
        /\ f.pc \notin {"idle", "done", "crashed"} => f.old_errno = f.entry
        /\ f.pc = "done" /\ f.ret = Null => e = f.entry

ErrnoOK(f, e) == HmmapErrno(f, e) /\ MemalignErrno(f, e)

ErrnoInv == \A t \in Threads : ErrnoOK(frame[t], errno[t])

-----------------------------------------------------------------------------
\* A step of thread t: only its own frame and its own errno change.
LEMMA MoveOnly ==
    ASSUME TypeOK, ErrnoInv, UNCHANGED lib, NEW t \in Threads, NEW f, Goto(t, f),
           UNCHANGED errno, ErrnoOK(f, errno[t])
    PROVE  ErrnoInv'
<1>1. frame'[t] = f /\ \A u \in Threads \ {t} : frame'[u] = frame[u]
  BY OtherFrames
<1>2. QED
  BY <1>1 DEF ErrnoInv, ErrnoOK, HmmapErrno, MemalignErrno

LEMMA MoveAndSet ==
    ASSUME TypeOK, ErrnoInv, UNCHANGED lib, NEW t \in Threads, NEW f, Goto(t, f),
           NEW e, SetErrno(t, e), ErrnoOK(f, e)
    PROVE  ErrnoInv'
<1>1. frame'[t] = f /\ \A u \in Threads \ {t} : frame'[u] = frame[u]
  BY OtherFrames
<1>2. errno'[t] = e /\ \A u \in Threads \ {t} : errno'[u] = errno[u]
  BY DEF TypeOK, SetErrno
<1>3. QED
  BY <1>1, <1>2 DEF ErrnoInv, ErrnoOK, HmmapErrno, MemalignErrno

-----------------------------------------------------------------------------
(* The calls of the application. *)
LEMMA EnterErrno ==
    ASSUME TypeOK, ErrnoInv, UNCHANGED lib, NEW t \in Threads, NEW r \in Request,
           r.op # "hposix_memalign", NEW size, NEW old, Enter(t, r, size, old), UNCHANGED errno
    PROVE  ErrnoInv'
<1> DEFINE f == [Idle EXCEPT !.pc = "alloc", !.op = r.op, !.size = size,
                             !.old = old, !.entry = errno[t]]
<1>1. f.op = r.op /\ r.op # "hmmap"
  BY DEF Idle, Request, Allocs
<1>2. ErrnoOK(f, errno[t])
  BY <1>1 DEF ErrnoOK, HmmapErrno, MemalignErrno
<1>3. QED
  BY <1>2, MoveOnly DEF Enter

LEMMA LeaveErrno ==
    ASSUME TypeOK, ErrnoInv, UNCHANGED lib, NEW t \in Threads, NEW r \in Request, NEW status,
           Leave(t, r, status),
           \/ UNCHANGED errno
           \/ r.op # "hposix_memalign" /\ \E e \in Errnos : SetErrno(t, e)
    PROVE  ErrnoInv'
<1> DEFINE f == [Idle EXCEPT !.pc = "done", !.op = r.op,
                             !.status = status, !.entry = errno[t]]
<1>1. f.op = r.op /\ f.entry = errno[t] /\ f.pc = "done" /\ r.op # "hmmap"
  BY DEF Idle, Request, Allocs
<1>2. Goto(t, f)
  BY DEF Leave
<1>3. CASE UNCHANGED errno
  <2>1. ErrnoOK(f, errno[t])
    BY <1>1 DEF ErrnoOK, HmmapErrno, MemalignErrno
  <2>2. QED
    BY <1>2, <1>3, <2>1, MoveOnly
<1>4. ASSUME r.op # "hposix_memalign", NEW e \in Errnos, SetErrno(t, e) PROVE ErrnoInv'
  <2>1. ErrnoOK(f, e)
    BY <1>1, <1>4 DEF ErrnoOK, HmmapErrno, MemalignErrno
  <2>2. QED
    BY <1>2, <1>4, <2>1, MoveAndSet
<1>5. QED
  BY <1>3, <1>4

\* Steps that touch neither frames nor errno.
LEMMA SameErrno ==
    ASSUME ErrnoInv, UNCHANGED <<lib, frame, errno>>
    PROVE  ErrnoInv'
  BY DEF ErrnoInv, ErrnoOK, HmmapErrno, MemalignErrno

\* A munmap() fails under a call that has nothing to keep in errno.
LEMMA UnmapFailsErrno ==
    ASSUME TypeOK, ErrnoInv, NEW t \in Threads, hmunmap_fails(t) \/ extent_dalloc_fails(t)
    PROVE  ErrnoInv'
<1>1. frame[t].pc \in {"idle", "alloc"} /\ UNCHANGED <<lib, frame>>
  BY DEF hmunmap_fails, extent_dalloc_fails, Running
<1>2. \A u \in Threads \ {t} : errno'[u] = errno[u]
  BY DEF hmunmap_fails, extent_dalloc_fails, MunmapErrno, SetErrno, TypeOK
<1>3. QED
  BY <1>1, <1>2 DEF ErrnoInv, ErrnoOK, HmmapErrno, MemalignErrno

LEMMA CallErrno ==
    ASSUME TypeOK, ErrnoInv, NEW t \in Threads, Call(t)
    PROVE  ErrnoInv'
<1>1. ASSUME NEW r \in Requests, hmalloc(t, r) \/ hcalloc(t, r) PROVE ErrnoInv'
  <2>1. r \in Request /\ r.op # "hposix_memalign" /\ UNCHANGED <<lib, errno>>
    BY <1>1, HmallocAssumption DEF hmalloc, hcalloc
  <2>2. \E size : Enter(t, r, size, Null)
    BY <1>1 DEF hmalloc, hcalloc
  <2>3. QED
    BY <2>1, <2>2, EnterErrno
<1>2. ASSUME NEW r \in Requests, hrealloc(t, r) PROVE ErrnoInv'
  <2>1. r \in Request /\ r.op = "hrealloc" /\ UNCHANGED <<lib, errno>>
    BY <1>2, HmallocAssumption DEF hrealloc
  <2> DEFINE q == [r EXCEPT !.op = "hmalloc"]
  <2>2. q \in Request /\ q.op = "hmalloc"
    BY <2>1 DEF Request, Allocs
  <2>3. CASE Enter(t, q, r.size, Null)
    BY <2>1, <2>2, <2>3, EnterErrno
  <2>4. ASSUME NEW p \in Addr, Leave(t, r, "ok") \/ Enter(t, r, r.size, p) PROVE ErrnoInv'
    BY <2>1, <2>4, EnterErrno, LeaveErrno
  <2>5. QED
    BY <1>2, <2>3, <2>4 DEF hrealloc
<1>3. ASSUME NEW r \in Requests, haligned_alloc(t, r) PROVE ErrnoInv'
  <2>1. r \in Request /\ r.op = "haligned_alloc" /\ UNCHANGED lib
    BY <1>3, HmallocAssumption DEF haligned_alloc
  <2>2. CASE Leave(t, r, "ok") /\ SetErrno(t, "EINVAL")
    BY <2>1, <2>2, LeaveErrno DEF Errnos
  <2>3. CASE Enter(t, r, r.size, Null) /\ UNCHANGED errno
    BY <2>1, <2>3, EnterErrno
  <2>4. QED
    BY <1>3, <2>2, <2>3 DEF haligned_alloc
<1>4. ASSUME NEW r \in Requests, hposix_memalign(t, r) PROVE ErrnoInv'
  <2>1. r \in Request /\ r.op = "hposix_memalign" /\ UNCHANGED <<lib, errno>>
    BY <1>4, HmallocAssumption DEF hposix_memalign
  <2>2. CASE Leave(t, r, "EINVAL")
    BY <2>1, <2>2, LeaveErrno
  <2> DEFINE f == [Idle EXCEPT !.pc = "alloc", !.op = r.op, !.size = r.size,
                               !.old_errno = errno[t], !.entry = errno[t]]
  <2>3. CASE Goto(t, f)
    <3>1. f.op # "hmmap" /\ f.old_errno = f.entry /\ f.pc = "alloc"
      BY <2>1 DEF Idle
    <3>2. ErrnoOK(f, errno[t])
      BY <3>1 DEF ErrnoOK, HmmapErrno, MemalignErrno
    <3>3. QED
      BY <2>1, <2>3, <3>2, MoveOnly
  <2>4. QED
    BY <1>4, <2>2, <2>3 DEF hposix_memalign
<1>5. CASE hmmap(t)
  <2> DEFINE f == [Idle EXCEPT !.pc = "mmap", !.op = "hmmap", !.entry = errno[t]]
  <2>1. ErrnoOK(f, errno[t])
    BY DEF Idle, ErrnoOK, HmmapErrno, MemalignErrno
  <2>2. QED
    BY <1>5, <2>1, MoveOnly DEF hmmap
<1>6. CASE hfree(t) \/ hmunmap(t)
  BY <1>6, SameErrno DEF hfree, hmunmap
<1>7. CASE AppErrno(t)
  <2>1. frame[t].pc = "idle" /\ UNCHANGED <<lib, frame>>
    BY <1>7 DEF AppErrno, Running
  <2>2. \A u \in Threads \ {t} : errno'[u] = errno[u]
    BY <1>7 DEF AppErrno, SetErrno, TypeOK
  <2>3. QED
    BY <2>1, <2>2 DEF ErrnoInv, ErrnoOK, HmmapErrno, MemalignErrno
<1>8. CASE hmunmap_fails(t)
  BY <1>8, UnmapFailsErrno
<1>9. QED
  BY <1>1, <1>2, <1>3, <1>4, <1>5, <1>6, <1>7, <1>8 DEF Call

-----------------------------------------------------------------------------
(* The allocator, hmmap() and the tails. *)
\* The frame of thread t, and what moving it from place to place leaves of it.
LEMMA OwnErrno ==
    ASSUME TypeOK, ErrnoInv, NEW t \in Threads
    PROVE  frame[t] \in Frames /\ errno[t] \in Errnos /\ ErrnoOK(frame[t], errno[t])
  BY DEF TypeOK, ErrnoInv

\* The frames the steps make, for an errno they may set.
LEMMA FrameErrno ==
    ASSUME NEW f \in Frames, NEW e0 \in Errnos, ErrnoOK(f, e0)
    PROVE  /\ f.pc = "alloc" => \A a, e : ErrnoOK([f EXCEPT !.pc = "tail", !.ret = a], e)
           /\ f.pc = "mmap" => \A a, pc : pc \in {"mbind", "mapped"} =>
                                  ErrnoOK([f EXCEPT !.ret = a, !.pc = pc], e0)
           /\ f.pc = "mmap" => \A e : ErrnoOK([f EXCEPT !.pc = "mapped", !.ret = MapFailed,
                                                        !.cause = e], e)
           /\ f.pc = "mbind" => \A e : ErrnoOK([f EXCEPT !.pc = "munmap", !.mbind_errno = e,
                                                         !.cause = e], e)
           /\ f.pc = "munmap" => \A e : ErrnoOK([f EXCEPT !.pc = "restore", !.ret = Null], e)
           /\ f.pc = "restore" => ErrnoOK([f EXCEPT !.pc = "mapped", !.mbind_errno = "ok"],
                                          f.mbind_errno)
  BY DEF Frames, ErrnoOK, HmmapErrno, MemalignErrno

LEMMA AllocatorErrno ==
    ASSUME TypeOK, ErrnoInv, NEW t \in Threads, Allocator(t)
    PROVE  ErrnoInv'
<1>1. CASE Reuse(t) \/ PlainMap(t)
  <2>1. PICK a \in Addr : Goto(t, [frame[t] EXCEPT !.pc = "tail", !.ret = a, !.old = Null])
    BY <1>1 DEF Reuse, PlainMap, Deliver
  <2>2. At(t, "alloc") /\ UNCHANGED <<lib, errno>>
    BY <1>1 DEF Reuse, PlainMap
  <2>3. QED
    BY <2>1, <2>2, MoveOnly, OwnErrno DEF ErrnoOK, HmmapErrno, MemalignErrno, At, Frames
<1>2. CASE ResizeInPlace(t)
  BY <1>2, MoveOnly, OwnErrno
     DEF ResizeInPlace, ErrnoOK, HmmapErrno, MemalignErrno, At, Frames
<1>3. CASE Refuse(t)
  <2> DEFINE f == [frame[t] EXCEPT !.pc = "tail", !.ret = Null]
  <2>1. Goto(t, f) /\ UNCHANGED lib /\ (UNCHANGED errno \/ SetErrno(t, "ENOMEM"))
    BY <1>3 DEF Refuse
  <2>2. \A e : ErrnoOK(f, e)
    BY <1>3, OwnErrno, FrameErrno DEF Refuse, At
  <2> HIDE DEF f
  <2>3. QED
    BY <2>1, <2>2, MoveOnly, MoveAndSet
<1>4. CASE extent_alloc(t)
  BY <1>4, MoveOnly, OwnErrno
     DEF extent_alloc, ErrnoOK, HmmapErrno, MemalignErrno, At, Frames
<1>5. CASE PlainMapFails(t)
  <2> DEFINE f == [frame[t] EXCEPT !.pc = "tail", !.ret = Null]
  <2>1. Goto(t, f) /\ UNCHANGED lib /\ SetErrno(t, "ENOMEM")
    BY <1>5 DEF PlainMapFails
  <2>2. \A e : ErrnoOK(f, e)
    BY <1>5, OwnErrno, FrameErrno DEF PlainMapFails, At
  <2> HIDE DEF f
  <2>3. QED
    BY <2>1, <2>2, MoveAndSet
<1>6. QED
  BY <1>1, <1>2, <1>3, <1>4, <1>5 DEF Allocator

LEMMA HmmapErrnoStep ==
    ASSUME TypeOK, ErrnoInv, NEW t \in Threads, Hmmap(t)
    PROVE  ErrnoInv'
<1>1. CASE Mmap(t)
  <2> DEFINE pc == IF lib.nodemask # {} THEN "mbind" ELSE "mapped"
  <2>1. PICK a \in Addr : Goto(t, [frame[t] EXCEPT !.ret = a, !.pc = pc])
    BY <1>1 DEF Mmap
  <2>2. pc \in {"mbind", "mapped"}
    OBVIOUS
  <2> HIDE DEF pc
  <2> DEFINE f == [frame[t] EXCEPT !.ret = a, !.pc = pc]
  <2>3. ErrnoOK(f, errno[t])
    BY <1>1, <2>2, OwnErrno, FrameErrno DEF Mmap, At
  <2>4. Goto(t, f) /\ UNCHANGED <<lib, errno>>
    BY <1>1, <2>1 DEF Mmap
  <2> HIDE DEF f
  <2>5. QED
    BY <2>3, <2>4, MoveOnly
<1>2. CASE MmapFails(t)
  <2> DEFINE f == [frame[t] EXCEPT !.pc = "mapped", !.ret = MapFailed, !.cause = "ENOMEM"]
  <2>1. ErrnoOK(f, "ENOMEM")
    BY <1>2, OwnErrno, FrameErrno DEF MmapFails, At
  <2>2. Goto(t, f) /\ SetErrno(t, "ENOMEM") /\ UNCHANGED lib
    BY <1>2 DEF MmapFails
  <2> HIDE DEF f
  <2>3. QED
    BY <2>1, <2>2, MoveAndSet
<1>3. CASE Mbind(t)
  BY <1>3, MoveOnly, OwnErrno DEF Mbind, ErrnoOK, HmmapErrno, MemalignErrno, At, Frames
<1>4. CASE MbindFails(t)
  <2>1. PICK e \in MbindErrors(lib) :
            /\ SetErrno(t, e)
            /\ Goto(t, [frame[t] EXCEPT !.pc = "munmap", !.mbind_errno = e, !.cause = e])
    BY <1>4 DEF MbindFails
  <2> DEFINE f == [frame[t] EXCEPT !.pc = "munmap", !.mbind_errno = e, !.cause = e]
  <2>2. ErrnoOK(f, e)
    BY <1>4, OwnErrno, FrameErrno DEF MbindFails, At
  <2>3. Goto(t, f) /\ SetErrno(t, e) /\ UNCHANGED lib
    BY <1>4, <2>1 DEF MbindFails
  <2> HIDE DEF f
  <2>4. QED
    BY <2>2, <2>3, MoveAndSet
<1>5. CASE Munmap(t)
  BY <1>5, MoveOnly, OwnErrno DEF Munmap, ErrnoOK, HmmapErrno, MemalignErrno, At, Frames
<1>6. CASE MunmapFails(t)
  <2> DEFINE f == [frame[t] EXCEPT !.pc = "restore", !.ret = Null]
  <2>1. ErrnoOK(f, "ENOMEM")
    BY <1>6, OwnErrno, FrameErrno DEF MunmapFails, At
  <2>2. Goto(t, f) /\ SetErrno(t, "ENOMEM") /\ UNCHANGED lib
    BY <1>6 DEF MunmapFails, MunmapErrno
  <2> HIDE DEF f
  <2>3. QED
    BY <2>1, <2>2, MoveAndSet
<1>7. CASE RestoreErrno(t)
  <2> DEFINE f == [frame[t] EXCEPT !.pc = "mapped", !.mbind_errno = "ok"]
             e == frame[t].mbind_errno
  <2>1. ErrnoOK(f, e)
    BY <1>7, OwnErrno, FrameErrno DEF RestoreErrno, At
  <2>2. Goto(t, f) /\ SetErrno(t, e) /\ UNCHANGED lib
    BY <1>7 DEF RestoreErrno
  <2> HIDE DEF f, e
  <2>3. QED
    BY <2>1, <2>2, MoveAndSet
<1>8. CASE HmmapReturns(t)
  BY <1>8, MoveOnly, OwnErrno DEF HmmapReturns, ErrnoOK, HmmapErrno, MemalignErrno, At, Frames
<1>9. CASE HookReturns(t)
  <2>1. At(t, "mapped") /\ frame[t].op # "hmmap" /\ UNCHANGED <<lib, errno>>
    BY <1>9 DEF HookReturns
  <2>2. CASE Goto(t, [frame[t] EXCEPT !.pc = "alloc", !.tries = @ + 1, !.cause = "ok"])
    BY <2>1, <2>2, MoveOnly, OwnErrno DEF ErrnoOK, HmmapErrno, MemalignErrno, At, Frames
  <2>3. CASE Goto(t, [frame[t] EXCEPT !.pc = "crashed"])
    BY <2>1, <2>3, MoveOnly, OwnErrno DEF ErrnoOK, HmmapErrno, MemalignErrno, At, Frames
  <2>4. CASE Goto(t, [frame[t] EXCEPT !.pc = "tail", !.ret = frame[t].ret, !.old = Null])
    BY <2>1, <2>4, MoveOnly, OwnErrno DEF ErrnoOK, HmmapErrno, MemalignErrno, At, Frames
  <2>5. QED
    BY <1>9, <2>2, <2>3, <2>4 DEF HookReturns, Deliver
<1>10. QED
  BY <1>1, <1>2, <1>3, <1>4, <1>5, <1>6, <1>7, <1>8, <1>9 DEF Hmmap

LEMMA TailErrno ==
    ASSUME TypeOK, ErrnoInv, NEW t \in Threads,
           HmallocTail(t) \/ PlainTail(t) \/ MemalignTail(t) \/ Return(t)
    PROVE  ErrnoInv'
<1>1. CASE HmallocTail(t)
  BY <1>1, MoveOnly, OwnErrno
     DEF HmallocTail, Answer, ErrnoOK, HmmapErrno, MemalignErrno, At, Frames
<1>2. CASE PlainTail(t)
  BY <1>2, MoveOnly, OwnErrno
     DEF PlainTail, Answer, ErrnoOK, HmmapErrno, MemalignErrno, At, Frames
<1>3. CASE MemalignTail(t)
  <2>1. At(t, "tail") /\ frame[t].op = "hposix_memalign" /\ UNCHANGED lib
    BY <1>3 DEF MemalignTail
  <2>2. CASE frame[t].ret # Null /\ Answer(t, frame[t].ret, "ok") /\ UNCHANGED errno
    BY <2>1, <2>2, MoveOnly, OwnErrno
       DEF Answer, ErrnoOK, HmmapErrno, MemalignErrno, At, Frames
  <2>3. CASE Answer(t, Null, errno[t]) /\ SetErrno(t, frame[t].old_errno)
    <3> DEFINE f == [frame[t] EXCEPT !.pc = "done", !.ret = Null, !.status = errno[t],
                                     !.cause = "ok", !.old_errno = "ok"]
               e == frame[t].old_errno
    <3>1. ErrnoOK(f, e)
      BY <2>1, OwnErrno DEF ErrnoOK, HmmapErrno, MemalignErrno, At, Frames
    <3>2. Goto(t, f) /\ SetErrno(t, e)
      BY <2>3 DEF Answer
    <3> HIDE DEF f, e
    <3>3. QED
      BY <2>1, <3>1, <3>2, MoveAndSet
  <2>4. CASE ~lib.use_jemalloc /\ Answer(t, Null, "ENOMEM") /\ UNCHANGED errno
    BY <2>1, <2>4, MoveOnly, OwnErrno
       DEF Answer, ErrnoOK, HmmapErrno, MemalignErrno, At, Frames
  <2>5. QED
    BY <1>3, <2>2, <2>3, <2>4 DEF MemalignTail
<1>4. CASE Return(t)
  BY <1>4, MoveOnly DEF Return, Idle, ErrnoOK, HmmapErrno, MemalignErrno
<1>5. QED
  BY <1>1, <1>2, <1>3, <1>4

LEMMA NextErrno == TypeOK /\ IInv /\ ErrnoInv /\ [Next]_vars => ErrnoInv'
<1> SUFFICES ASSUME TypeOK, IInv, ErrnoInv, [Next]_vars PROVE ErrnoInv'
  OBVIOUS
<1>1. CASE hmalloc_init
  <2>1. \A t \in Threads : frame[t].pc = "idle"
    BY <1>1 DEF hmalloc_init, IInv, LoadInv
  <2>2. QED
    BY <1>1, <2>1 DEF hmalloc_init, ErrnoInv, ErrnoOK, HmmapErrno, MemalignErrno
<1>2. CASE extent_dalloc
  BY <1>2, SameErrno DEF extent_dalloc
<1>3. ASSUME NEW t \in Threads, Call(t) PROVE ErrnoInv'
  BY <1>3, CallErrno
<1>4. ASSUME NEW t \in Threads, Progress(t) PROVE ErrnoInv'
  BY <1>4, AllocatorErrno, HmmapErrnoStep, TailErrno DEF Progress
<1>5. CASE UNCHANGED vars
  BY <1>5, SameErrno DEF vars
<1>6. ASSUME NEW t \in Threads, extent_dalloc_fails(t) PROVE ErrnoInv'
  BY <1>6, UnmapFailsErrno
<1>7. QED
  BY <1>1, <1>2, <1>3, <1>4, <1>5, <1>6 DEF Next

LEMMA ErrnoCorrect == Spec => []ErrnoInv
<1>1. Init => ErrnoInv
  BY DEF Init, Idle, ErrnoInv, ErrnoOK, HmmapErrno, MemalignErrno
<1>2. QED
  BY <1>1, Inductive, NextErrno, PTL DEF Spec

\* When hmmap() fails because of mbind(), errno is what mbind() left there, whatever
\* munmap() has done to it and however many threads fail at the same time.
THEOREM HmmapErrnoIsKept == Spec => []HmmapKeepsErrno
<1>1. ErrnoInv => HmmapKeepsErrno
  BY DEF ErrnoInv, ErrnoOK, HmmapErrno, HmmapKeepsErrno, At
<1>2. QED
  BY <1>1, ErrnoCorrect, PTL

\* A failing hposix_memalign() leaves errno as its caller had it, however often the
\* extent hooks have failed in between and whatever they did to errno.
THEOREM MemalignErrnoIsKept == Spec => []MemalignKeepsErrno
<1>1. ErrnoInv => MemalignKeepsErrno
  BY DEF ErrnoInv, ErrnoOK, MemalignErrno, MemalignKeepsErrno, At
<1>2. QED
  BY <1>1, ErrnoCorrect, PTL
=============================================================================
