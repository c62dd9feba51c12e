-------------------------- MODULE HmallocPoolProofs --------------------------
(***************************************************************************)
(* Proofs about who owns what in libhmalloc: the library implements the    *)
(* abstract pool of PolicyPool, and, as long as the kernel does not refuse *)
(* what the code does not expect to be refused, no mapping and no block is *)
(* lost.                                                                   *)
(***************************************************************************)
EXTENDS HmallocProofs

-----------------------------------------------------------------------------
(* The steps of the abstract pool.  A step of the library is one of them   *)
(* or leaves the pool as it is.                                            *)
LEMMA PoolStutters ==
    ASSUME UNCHANGED lib,
           \A a \in Addr : /\ InPool(a)' <=> InPool(a)
                           /\ InPool(a) => vma'[a] = vma[a]
    PROVE  UNCHANGED Pool!poolVars
<1>1. \A a \in Addr : (IF InPool(a) THEN vma[a] ELSE Unmapped)'
                         = (IF InPool(a) THEN vma[a] ELSE Unmapped)
  OBVIOUS
<1>2. [a \in Addr |-> IF InPool(a) THEN vma[a] ELSE Unmapped]'
         = [a \in Addr |-> IF InPool(a) THEN vma[a] ELSE Unmapped]
  BY <1>1
<1>3. PoolPolicy(lib)' = PoolPolicy(lib)
  BY DEF PoolPolicy, Bound, Usable, Named
<1>4. QED
  BY <1>2, <1>3 DEF Pool!poolVars

LEMMA PoolPublishes ==
    ASSUME TypeOK, lib.loaded, UNCHANGED lib, NEW b \in Addr, ~InPool(b), InPool(b)',
           vma'[b] = PoolPolicy(lib),
           \A a \in Addr \ {b} : /\ InPool(a)' <=> InPool(a)
                                 /\ InPool(a) => vma'[a] = vma[a]
    PROVE  Pool!Publish(b)
<1> DEFINE pool == [a \in Addr |-> IF InPool(a) THEN vma[a] ELSE Unmapped]
<1>1. pool' = [pool EXCEPT ![b] = PoolPolicy(lib)]
  <2>1. \A a \in Addr : pool'[a] = [pool EXCEPT ![b] = PoolPolicy(lib)][a]
    OBVIOUS
  <2>2. QED
    BY <2>1
<1>2. PoolPolicy(lib) \in Policies
  BY PoolPolicyType DEF TypeOK
<1>3. PoolPolicy(lib) # Unmapped
  BY <1>2, NullIsNoRegion
<1>4. PoolPolicy(lib)' = PoolPolicy(lib)
  BY DEF PoolPolicy, Bound, Usable, Named
<1>5. pool[b] = Unmapped
  OBVIOUS
<1>6. QED
  BY <1>1, <1>3, <1>4, <1>5 DEF Pool!Publish

LEMMA PoolWithdraws ==
    ASSUME UNCHANGED lib, NEW b \in Addr, InPool(b), vma[b] # Unmapped, ~InPool(b)',
           \A a \in Addr \ {b} : /\ InPool(a)' <=> InPool(a)
                                 /\ InPool(a) => vma'[a] = vma[a]
    PROVE  Pool!Withdraw(b)
<1> DEFINE pool == [a \in Addr |-> IF InPool(a) THEN vma[a] ELSE Unmapped]
<1>1. pool' = [pool EXCEPT ![b] = Unmapped]
  <2>1. \A a \in Addr : pool'[a] = [pool EXCEPT ![b] = Unmapped][a]
    OBVIOUS
  <2>2. QED
    BY <2>1
<1>2. PoolPolicy(lib)' = PoolPolicy(lib)
  BY DEF PoolPolicy, Bound, Usable, Named
<1>3. pool[b] # Unmapped
  OBVIOUS
<1>4. QED
  BY <1>1, <1>2, <1>3 DEF Pool!Withdraw

PoolStep == Pool!PoolNext \/ UNCHANGED Pool!poolVars

\* The common case: extents stay extents, and the policy of what is in the pool stays.
LEMMA PoolUntouched ==
    ASSUME UNCHANGED <<lib, mapped>>,
           \A a \in Addr : /\ heap'[a] = "none" <=> heap[a] = "none"
                           /\ a \in mapped \/ heap[a] # "none" => vma'[a] = vma[a]
    PROVE  PoolStep
<1>1. \A a \in Addr : /\ InPool(a)' <=> InPool(a)
                      /\ InPool(a) => vma'[a] = vma[a]
  BY DEF InPool, Hooked
<1>2. QED
  BY <1>1, PoolStutters DEF PoolStep

\* A region no one has seen yet, or one that only hmmap() knows of.
LEMMA UnseenRegion ==
    ASSUME IInv, NEW b \in Addr,
           vma[b] = Unmapped \/ \E t \in Threads : HmmapOf(frame[t], b)
    PROVE  heap[b] = "none" /\ b \notin mapped
  BY DEF IInv, OwnerInv

\* A munmap() that fails in hmunmap() or extent_dalloc() changes errno only.
LEMMA UnmapFailsQuiet ==
    ASSUME NEW t \in Threads, hmunmap_fails(t) \/ extent_dalloc_fails(t)
    PROVE  UNCHANGED <<env, lib, vma, heap, held, mapped, frame>>
  BY DEF hmunmap_fails, extent_dalloc_fails

LEMMA CallPool ==
    ASSUME TypeOK, IInv, NEW t \in Threads, Call(t)
    PROVE  PoolStep
<1>1. ASSUME NEW r \in Requests,
             hmalloc(t, r) \/ hcalloc(t, r) \/ haligned_alloc(t, r) \/ hposix_memalign(t, r)
      PROVE  PoolStep
  BY <1>1, PoolUntouched DEF hmalloc, hcalloc, haligned_alloc, hposix_memalign
<1>2. CASE hmmap(t) \/ hmunmap_fails(t) \/ AppErrno(t)
  BY <1>2, PoolUntouched, UnmapFailsQuiet DEF hmmap, AppErrno
<1>3. ASSUME NEW p \in held \cap Addr, Free(p), UNCHANGED <<lib, vma, mapped>>
      PROVE  PoolStep
  <2>1. heap[p] # "none"
    BY DEF IInv, BlockInv
  <2>2. \A a \in Addr : heap'[a] = "none" <=> heap[a] = "none"
    BY <1>3, <2>1 DEF Free, TypeOK
  <2>3. QED
    BY <1>3, <2>2, PoolUntouched
<1>4. CASE hfree(t)
  BY <1>3, <1>4 DEF hfree
<1>5. ASSUME NEW r \in Requests, hrealloc(t, r) PROVE PoolStep
  <2>1. UNCHANGED <<lib, vma, mapped>>
    BY <1>5 DEF hrealloc
  <2>2. UNCHANGED heap \/ \E p \in held \cap Addr : Free(p)
    BY <1>5 DEF hrealloc
  <2>3. QED
    BY <1>3, <2>1, <2>2, PoolUntouched
<1>6. CASE hmunmap(t)
  <2>1. PICK b \in mapped : mapped' = mapped \ {b} /\ vma' = [vma EXCEPT ![b] = Unmapped]
    BY <1>6 DEF hmunmap
  <2>2. b \in Addr /\ heap[b] = "none" /\ vma[b] # Unmapped
    BY DEF TypeOK, IInv, OwnerInv
  <2>3. UNCHANGED <<lib, heap>>
    BY <1>6 DEF hmunmap
  <2>4. /\ InPool(b) /\ ~InPool(b)'
        /\ \A a \in Addr \ {b} : /\ InPool(a)' <=> InPool(a)
                                 /\ vma'[a] = vma[a]
    BY <2>1, <2>2, <2>3 DEF InPool, Hooked, TypeOK
  <2>5. Pool!Withdraw(b)
    BY <2>2, <2>3, <2>4, PoolWithdraws
  <2>6. QED
    BY <2>2, <2>5 DEF PoolStep, Pool!PoolNext
<1>7. QED
  BY <1>1, <1>2, <1>4, <1>5, <1>6 DEF Call

\* The allocator hands out a region whose extent it has already.
LEMMA DeliverExtents ==
    ASSUME TypeOK, IInv, NEW t \in Threads, NEW b \in Addr \cup {MapFailed}, Deliver(t, b)
    PROVE  \A a \in Addr \ {b} : heap'[a] = "none" <=> heap[a] = "none"
  BY DeliverEffect

LEMMA AllocatorPool ==
    ASSUME TypeOK, IInv, NEW t \in Threads, Allocator(t)
    PROVE  PoolStep
<1>1. CASE Reuse(t)
  <2>1. PICK b \in Addr : heap[b] = "cached" /\ Deliver(t, b)
    BY <1>1 DEF Reuse
  <2>2. heap'[b] = "live"
    BY <2>1, DeliverEffect
  <2>3. \A a \in Addr : heap'[a] = "none" <=> heap[a] = "none"
    BY <2>1, <2>2, DeliverExtents
  <2>4. QED
    BY <1>1, <2>3, PoolUntouched DEF Reuse
<1>2. CASE ResizeInPlace(t) \/ Refuse(t) \/ extent_alloc(t) \/ PlainMapFails(t)
  BY <1>2, PoolUntouched DEF ResizeInPlace, Refuse, extent_alloc, PlainMapFails
<1>3. CASE PlainMap(t)
  <2>1. PICK b \in Addr : /\ vma[b] = Unmapped
                          /\ vma' = [vma EXCEPT ![b] = DefaultPolicy]
                          /\ Deliver(t, b)
    BY <1>3 DEF PlainMap
  <2>2. ~Hooked /\ UNCHANGED <<lib, mapped>>
    BY <1>3 DEF PlainMap
  <2>3. b \notin mapped
    BY <2>1, UnseenRegion
  <2>4. \A a \in Addr : /\ InPool(a)' <=> InPool(a)
                        /\ InPool(a) => vma'[a] = vma[a]
    BY <2>1, <2>2, <2>3 DEF InPool, Hooked, TypeOK
  <2>5. QED
    BY <2>2, <2>4, PoolStutters DEF PoolStep
<1>4. QED
  BY <1>1, <1>2, <1>3 DEF Allocator

\* hmmap() at work is invisible.  What it returns to jemalloc enters the pool at that
\* moment, if the arena is the hooked one.
LEMMA HmmapPool ==
    ASSUME TypeOK, IInv, NEW t \in Threads, Hmmap(t)
    PROVE  PoolStep
<1>1. frame[t] \in Frames /\ FrameOK(frame[t])
  BY DEF TypeOK, IInv, FrameInv
<1>2. CASE MmapFails(t) \/ MbindFails(t) \/ MunmapFails(t) \/ RestoreErrno(t) \/ HmmapReturns(t)
  BY <1>2, PoolUntouched DEF MmapFails, MbindFails, MunmapFails, RestoreErrno, HmmapReturns
<1>3. ASSUME NEW b \in Addr, heap[b] = "none", b \notin mapped,
             NEW policy, vma' = [vma EXCEPT ![b] = policy], UNCHANGED <<lib, heap, mapped>>
      PROVE  PoolStep
  <2>1. \A a \in Addr : a \in mapped \/ heap[a] # "none" => vma'[a] = vma[a]
    BY <1>3 DEF TypeOK
  <2>2. QED
    BY <1>3, <2>1, PoolUntouched
<1>4. CASE Mmap(t)
  BY <1>3, <1>4, UnseenRegion DEF Mmap
<1>5. CASE Mbind(t) \/ Munmap(t)
  <2>1. frame[t].pc \in {"mbind", "munmap"} /\ frame[t].ret \in Addr
    BY <1>1, <1>5 DEF FrameOK, Mbind, Munmap, At
  <2>2. HmmapOf(frame[t], frame[t].ret)
    BY <2>1 DEF HmmapOf
  <2>3. QED
    BY <1>3, <1>5, <2>1, <2>2, UnseenRegion DEF Mbind, Munmap
<1>6. CASE HookReturns(t)
  <2>1. frame[t].pc = "mapped" /\ UNCHANGED <<lib, vma, mapped>>
    BY <1>6 DEF HookReturns, At
  <2>2. CASE UNCHANGED heap
    BY <2>1, <2>2, PoolUntouched
  <2>3. CASE frame[t].ret # Null /\ Deliver(t, frame[t].ret)
    <3>1. PICK b \in Addr \cup {MapFailed} : b = frame[t].ret /\ Deliver(t, b)
      BY <1>1, <2>3 DEF Frames, Ptrs
    <3>2. b \in Addr => HmmapOf(frame[t], b) /\ BoundOf(frame[t], b)
      BY <2>1, <3>1 DEF HmmapOf, BoundOf
    <3>3. heap'[b] = "live" /\ \A a \in Addr \ {b} : heap'[a] = "none" <=> heap[a] = "none"
      BY <3>1, DeliverEffect, DeliverExtents
    <3>4. CASE b \notin Addr
      BY <2>1, <3>3, <3>4, PoolUntouched
    <3>5. CASE b \in Addr
      <4>1. heap[b] = "none" /\ b \notin mapped /\ vma[b] = PoolPolicy(lib)
        BY <3>2, <3>5, UnseenRegion DEF IInv, BoundInv
      <4>2. CASE Hooked
        <5>1. /\ ~InPool(b) /\ InPool(b)' /\ vma'[b] = PoolPolicy(lib)
              /\ \A a \in Addr \ {b} : InPool(a)' <=> InPool(a)
          BY <2>1, <3>3, <4>1, <4>2 DEF InPool, Hooked
        <5>2. lib.loaded
          BY <2>1, BusyIsLoaded
        <5>3. Pool!Publish(b)
          BY <2>1, <3>5, <5>1, <5>2, PoolPublishes
        <5>4. QED
          BY <3>5, <5>3 DEF PoolStep, Pool!PoolNext
      <4>3. CASE ~Hooked
        <5>1. \A a \in Addr : InPool(a)' <=> InPool(a)
          BY <2>1, <4>3 DEF InPool, Hooked
        <5>2. QED
          BY <2>1, <5>1, PoolStutters DEF PoolStep
      <4>4. QED
        BY <4>2, <4>3
    <3>6. QED
      BY <3>4, <3>5
  <2>4. QED
    BY <1>6, <2>2, <2>3 DEF HookReturns
<1>7. QED
  BY <1>2, <1>4, <1>5, <1>6 DEF Hmmap

\* What it returns to the application enters the pool when the call returns.
LEMMA ReturnPool ==
    ASSUME TypeOK, IInv, NEW t \in Threads, Return(t)
    PROVE  PoolStep
<1> DEFINE new == {frame[t].ret, frame[t].old} \ {Null, MapFailed}
<1>1. /\ frame[t] \in Frames /\ frame[t].pc = "done" /\ UNCHANGED <<lib, vma, heap>>
      /\ FrameOK(frame[t])
  BY DEF TypeOK, Return, At, IInv, FrameInv
<1>2. CASE UNCHANGED mapped
  BY <1>1, <1>2, PoolUntouched
<1>3. CASE frame[t].op = "hmmap" /\ mapped' = mapped \cup new
  <2>1. PICK b \in Addr \cup {Null, MapFailed} : b = frame[t].ret
    BY <1>1 DEF Frames, Ptrs
  <2>2. b \in Addr => HmmapOf(frame[t], b) /\ BoundOf(frame[t], b)
    BY <1>1, <1>3, <2>1 DEF HmmapOf, BoundOf
  <2>3. new = {b} \ {Null, MapFailed}
    BY <1>1, <1>3, <2>1 DEF FrameOK
  <2> HIDE DEF new
  <2>4. CASE b \notin Addr
    BY <1>1, <1>2, <1>3, <2>3, <2>4
  <2>5. CASE b \in Addr
    <3>1. /\ heap[b] = "none" /\ b \notin mapped /\ vma[b] = PoolPolicy(lib)
          /\ mapped' = mapped \cup {b}
      BY <1>3, <2>2, <2>3, <2>5, UnseenRegion, NullIsNoRegion DEF IInv, BoundInv
    <3>2. /\ ~InPool(b) /\ InPool(b)' /\ vma'[b] = PoolPolicy(lib)
          /\ \A a \in Addr \ {b} : InPool(a)' <=> InPool(a)
      BY <1>1, <3>1 DEF InPool, Hooked
    <3>3. lib.loaded
      BY <1>1, BusyIsLoaded
    <3>4. Pool!Publish(b)
      BY <1>1, <2>5, <3>2, <3>3, PoolPublishes
    <3>5. QED
      BY <2>5, <3>4 DEF PoolStep, Pool!PoolNext
  <2>6. QED
    BY <2>4, <2>5
<1>4. QED
  BY <1>2, <1>3 DEF Return

LEMMA NextPool == TypeOK /\ IInv /\ [Next]_vars => PoolStep
<1> SUFFICES ASSUME TypeOK, IInv, [Next]_vars PROVE PoolStep
  OBVIOUS
<1>1. CASE hmalloc_init
  <2> DEFINE pool == [a \in Addr |-> IF InPool(a) THEN vma[a] ELSE Unmapped]
  <2>1. ~lib.loaded /\ UNCHANGED <<vma, heap, mapped>>
    BY <1>1 DEF hmalloc_init
  <2>2. lib'.loaded /\ PoolPolicy(lib)' \in Policies
    <3>1. TypeOK'
      BY <1>1, LoadTypeOK
    <3>2. \A l \in Libs : PoolPolicy(l) \in Policies
      BY PoolPolicyType
    <3>3. lib' \in Libs
      BY <3>1 DEF TypeOK
    <3>4. PoolPolicy(lib)' = PoolPolicy(lib')
      BY DEF PoolPolicy, Bound, Usable, Named
    <3>5. lib'.loaded
      BY <1>1, LoadsLib
    <3>6. QED
      BY <3>2, <3>3, <3>4, <3>5
  <2>3. \A a \in Addr : ~InPool(a) /\ ~InPool(a)'
    BY <2>1 DEF IInv, LoadInv, InPool
  <2>4. UNCHANGED pool
    BY <2>3
  <2>5. Pool!Load(PoolPolicy(lib)')
    BY <2>1, <2>2, <2>4 DEF Pool!Load
  <2>6. QED
    BY <2>2, <2>5 DEF PoolStep, Pool!PoolNext
<1>2. CASE extent_dalloc
  <2>1. PICK b \in Addr : /\ heap[b] = "cached"
                          /\ vma' = [vma EXCEPT ![b] = Unmapped]
                          /\ heap' = [heap EXCEPT ![b] = "none"]
    BY <1>2 DEF extent_dalloc
  <2>2. b \notin mapped /\ vma[b] # Unmapped /\ UNCHANGED <<lib, mapped>>
    BY <1>2, <2>1 DEF extent_dalloc, IInv, OwnerInv
  <2>3. \A a \in Addr \ {b} : vma'[a] = vma[a] /\ heap'[a] = heap[a]
    BY <2>1 DEF TypeOK
  <2>4. heap'[b] = "none"
    BY <2>1 DEF TypeOK
  <2>5. CASE Hooked
    <3>1. /\ InPool(b) /\ ~InPool(b)'
          /\ \A a \in Addr \ {b} : InPool(a)' <=> InPool(a)
      BY <2>1, <2>2, <2>3, <2>4, <2>5 DEF InPool, Hooked
    <3>2. Pool!Withdraw(b)
      BY <2>2, <2>3, <3>1, PoolWithdraws
    <3>3. QED
      BY <3>2 DEF PoolStep, Pool!PoolNext
  <2>6. CASE ~Hooked
    <3>1. \A a \in Addr : /\ InPool(a)' <=> InPool(a)
                          /\ InPool(a) => vma'[a] = vma[a]
      BY <2>2, <2>3, <2>6 DEF InPool, Hooked
    <3>2. QED
      BY <2>2, <3>1, PoolStutters DEF PoolStep
  <2>7. QED
    BY <2>5, <2>6
<1>3. ASSUME NEW t \in Threads, Call(t) PROVE PoolStep
  BY <1>3, CallPool
<1>4. ASSUME NEW t \in Threads, Progress(t) PROVE PoolStep
  <2>1. CASE Allocator(t) \/ Hmmap(t) \/ Return(t)
    BY <2>1, AllocatorPool, HmmapPool, ReturnPool
  <2>2. CASE HmallocTail(t) \/ PlainTail(t) \/ MemalignTail(t)
    BY <2>2, PoolUntouched DEF HmallocTail, PlainTail, MemalignTail
  <2>3. QED
    BY <1>4, <2>1, <2>2 DEF Progress
<1>5. CASE UNCHANGED vars
  BY <1>5, PoolUntouched DEF vars
<1>6. ASSUME NEW t \in Threads, extent_dalloc_fails(t) PROVE PoolStep
  BY <1>6, PoolUntouched, UnmapFailsQuiet
<1>7. QED
  BY <1>1, <1>2, <1>3, <1>4, <1>5, <1>6 DEF Next

\* libhmalloc implements the abstract pool: between its mmap(), its mbind() and the
\* munmap() that undoes them nothing of hmmap() can be seen, for any number of threads
\* and whichever system calls fail.
THEOREM PoolIsImplemented == Spec => ImplementsPool
<1>1. Init => Pool!PoolInit
  BY DEF Init, Pool!PoolInit, InPool
<1>2. TypeOK /\ IInv /\ [Next]_vars => [Pool!PoolNext]_(Pool!poolVars)
  BY NextPool DEF PoolStep
<1>3. QED
  BY <1>1, <1>2, Inductive, PTL DEF Spec, ImplementsPool, Pool!PoolSpec

-----------------------------------------------------------------------------
(* Nothing is lost.  OwnerInv and BlockInv say that an owner is the only   *)
(* one; the two invariants below that there is one.                        *)
MappedInv ==
    \A a \in Addr : vma[a] # Unmapped => \/ heap[a] # "none"
                                         \/ a \in mapped
                                         \/ \E t \in Threads : HmmapOf(frame[t], a)

LiveInv ==
    \A a \in Addr : heap[a] = "live" => \/ a \in held
                                        \/ \E t \in Threads : CallOf(frame[t], a)

\* Thread t moves, and passes on whatever it does not keep.
LEMMA MappedStep ==
    ASSUME TypeOK, MappedInv, NEW t \in Threads, NEW f, Goto(t, f),
           \A a \in Addr : vma'[a] # Unmapped =>
               /\ heap[a] # "none" => heap'[a] # "none"
               /\ a \in mapped => a \in mapped'
               /\ vma[a] = Unmapped \/ HmmapOf(frame[t], a) =>
                     HmmapOf(f, a) \/ heap'[a] # "none" \/ a \in mapped'
    PROVE  MappedInv'
<1>1. frame'[t] = f /\ \A u \in Threads \ {t} : frame'[u] = frame[u]
  BY OtherFrames
<1>2. \A a \in Addr : \A u \in Threads : HmmapOf(frame[u], a) /\ u # t => HmmapOf(frame'[u], a)
  BY <1>1
<1>3. \A a \in Addr : HmmapOf(f, a) => HmmapOf(frame'[t], a)
  BY <1>1
<1>4. ASSUME NEW a \in Addr, vma'[a] # Unmapped
      PROVE  heap'[a] # "none" \/ a \in mapped' \/ \E u \in Threads : HmmapOf(frame'[u], a)
  <2>1. CASE vma[a] = Unmapped
    BY <1>3, <1>4, <2>1
  <2>2. CASE vma[a] # Unmapped
    BY <1>2, <1>3, <1>4, <2>2 DEF MappedInv
  <2>3. QED
    BY <2>1, <2>2
<1>5. QED
  BY <1>4 DEF MappedInv

LEMMA LiveStep ==
    ASSUME TypeOK, LiveInv, NEW t \in Threads, NEW f, Goto(t, f),
           \A a \in Addr : /\ heap'[a] = "live"
                           /\ a \in held \/ CallOf(frame[t], a) \/ heap[a] # "live"
                           => a \in held' \/ CallOf(f, a)
    PROVE  LiveInv'
<1>1. frame'[t] = f /\ \A u \in Threads \ {t} : frame'[u] = frame[u]
  BY OtherFrames
<1>2. \A a \in Addr : \A u \in Threads : CallOf(frame[u], a) /\ u # t => CallOf(frame'[u], a)
  BY <1>1
<1>3. \A a \in Addr : CallOf(f, a) => CallOf(frame'[t], a)
  BY <1>1
<1>4. ASSUME NEW a \in Addr, heap'[a] = "live"
      PROVE  a \in held' \/ \E u \in Threads : CallOf(frame'[u], a)
  <2>1. CASE heap[a] # "live"
    BY <1>3, <1>4, <2>1
  <2>2. CASE heap[a] = "live"
    BY <1>2, <1>3, <1>4, <2>2 DEF LiveInv
  <2>3. QED
    BY <2>1, <2>2
<1>5. QED
  BY <1>4 DEF LiveInv

\* A thread outside the library has nothing.
IdleInv == \A t \in Threads : frame[t].pc = "idle" => frame[t] = Idle

LEMMA IdleStep ==
    ASSUME TypeOK, IdleInv, NEW t \in Threads, NEW f, Goto(t, f), f.pc = "idle" => f = Idle
    PROVE  IdleInv'
<1>1. frame'[t] = f /\ \A u \in Threads \ {t} : frame'[u] = frame[u]
  BY OtherFrames
<1>2. QED
  BY <1>1 DEF IdleInv

LEMMA NextIdle == TypeOK /\ IdleInv /\ [Next]_vars => IdleInv'
<1> SUFFICES ASSUME TypeOK, IdleInv, [Next]_vars PROVE IdleInv'
  OBVIOUS
<1>1. CASE UNCHANGED frame
  BY <1>1 DEF IdleInv
<1>2. CASE hmalloc_init \/ extent_dalloc \/ UNCHANGED vars
  BY <1>1, <1>2 DEF hmalloc_init, extent_dalloc, vars
<1>3. ASSUME NEW t \in Threads, Call(t) PROVE IdleInv'
  <2>1. ASSUME NEW r, NEW size, NEW old, Enter(t, r, size, old) PROVE IdleInv'
    BY <2>1, IdleStep DEF Enter, Idle
  <2>2. ASSUME NEW r, NEW status, Leave(t, r, status) PROVE IdleInv'
    BY <2>2, IdleStep DEF Leave, Idle
  <2>3. ASSUME NEW r \in Requests, hposix_memalign(t, r) PROVE IdleInv'
    BY <2>2, <2>3, IdleStep DEF hposix_memalign, Idle
  <2>4. CASE hmmap(t)
    BY <2>4, IdleStep DEF hmmap, Idle
  <2>5. CASE hfree(t) \/ hmunmap(t) \/ hmunmap_fails(t) \/ AppErrno(t)
    BY <1>1, <2>5, UnmapFailsQuiet DEF hfree, hmunmap, AppErrno
  <2>6. QED
    BY <1>3, <2>1, <2>2, <2>3, <2>4, <2>5 DEF Call, hmalloc, hcalloc, hrealloc, haligned_alloc
<1>4. ASSUME NEW t \in Threads, Progress(t) PROVE IdleInv'
  <2>1. frame[t] \in Frames
    BY DEF TypeOK
  <2>2. CASE Allocator(t)
    BY <2>1, <2>2, IdleStep DEF Allocator, Reuse, ResizeInPlace, Refuse, extent_alloc, PlainMap,
       PlainMapFails, Deliver, Frames
  <2>3. CASE Mmap(t)
    BY <2>1, <2>3, IdleStep DEF Mmap, Frames
  <2>4. CASE Hmmap(t) /\ ~Mmap(t) /\ ~HookReturns(t)
    BY <2>1, <2>4, IdleStep DEF Hmmap, MmapFails, Mbind, MbindFails, Munmap, MunmapFails,
       RestoreErrno, HmmapReturns, Frames
  <2>5. CASE HookReturns(t)
    BY <2>1, <2>5, IdleStep DEF HookReturns, Deliver, Frames
  <2>6. CASE HmallocTail(t) \/ PlainTail(t) \/ MemalignTail(t)
    BY <2>1, <2>6, IdleStep DEF HmallocTail, PlainTail, MemalignTail, Answer, Frames
  <2>7. CASE Return(t)
    BY <2>7, IdleStep DEF Return
  <2>8. QED
    BY <1>4, <2>2, <2>3, <2>4, <2>5, <2>6, <2>7 DEF Progress
<1>5. ASSUME NEW t \in Threads, extent_dalloc_fails(t) PROVE IdleInv'
  BY <1>1, <1>5, UnmapFailsQuiet
<1>6. QED
  BY <1>2, <1>3, <1>4, <1>5 DEF Next

-----------------------------------------------------------------------------
(* Mappings: one is lost only where munmap() fails under hmmap().          *)
LEMMA StaysPut ==
    ASSUME TypeOK, NEW t \in Threads, UNCHANGED frame
    PROVE  Goto(t, frame[t])
  BY DEF TypeOK, Goto

LEMMA EnterMapped ==
    ASSUME TypeOK, MappedInv, NEW t \in Threads, Running(t), NEW f, Goto(t, f),
           \A a \in Addr : heap[a] # "none" => heap'[a] # "none", UNCHANGED <<vma, mapped>>
    PROVE  MappedInv'
<1>1. \A a \in Addr : ~HmmapOf(frame[t], a)
  BY DEF Running, HmmapOf
<1>2. QED
  BY <1>1, MappedStep

LEMMA CallMapped ==
    ASSUME TypeOK, IInv, MappedInv, NEW t \in Threads, Call(t)
    PROVE  MappedInv'
<1>1. Running(t)
  BY DEF Call, hmalloc, hcalloc, hrealloc, haligned_alloc, hposix_memalign, hfree, hmmap,
         hmunmap, hmunmap_fails, AppErrno
<1>2. CASE hfree(t) \/ \E r \in Requests : hrealloc(t, r)
  <2>1. UNCHANGED heap \/ \E p \in held \cap Addr : Free(p)
    BY <1>2 DEF hfree, hrealloc
  <2>2. \A a \in Addr : heap[a] # "none" => heap'[a] # "none"
    BY <2>1 DEF Free, TypeOK
  <2>3. (\E f : Goto(t, f)) /\ UNCHANGED <<vma, mapped>>
    BY <1>2, StaysPut DEF hfree, hrealloc, Enter, Leave
  <2>4. QED
    BY <1>1, <2>2, <2>3, EnterMapped
<1>3. CASE hmmap(t) \/ \E r \in Requests : \/ hmalloc(t, r) \/ hcalloc(t, r)
                                           \/ haligned_alloc(t, r) \/ hposix_memalign(t, r)
  <2>1. (\E f : Goto(t, f)) /\ UNCHANGED <<vma, heap, mapped>>
    BY <1>3 DEF hmmap, hmalloc, hcalloc, haligned_alloc, hposix_memalign, Enter, Leave
  <2>2. QED
    BY <1>1, <2>1, EnterMapped
<1>4. CASE hmunmap(t)
  <2>1. PICK b \in mapped : mapped' = mapped \ {b} /\ vma' = [vma EXCEPT ![b] = Unmapped]
    BY <1>4 DEF hmunmap
  <2>2. \A a \in Addr : vma'[a] # Unmapped => a # b /\ vma[a] # Unmapped
    BY <2>1 DEF TypeOK
  <2>3. UNCHANGED <<heap, frame>>
    BY <1>4 DEF hmunmap
  <2>4. QED
    BY <2>1, <2>2, <2>3 DEF MappedInv
<1>5. CASE hmunmap_fails(t) \/ AppErrno(t)
  BY <1>5, UnmapFailsQuiet DEF AppErrno, MappedInv
<1>6. QED
  BY <1>2, <1>3, <1>4, <1>5 DEF Call

\* The allocator keeps what it has.
LEMMA AllocatorMapped ==
    ASSUME TypeOK, IInv, MappedInv, NEW t \in Threads, Allocator(t)
    PROVE  MappedInv'
<1>1. frame[t].pc = "alloc" /\ UNCHANGED mapped
  BY DEF Allocator, Reuse, ResizeInPlace, Refuse, extent_alloc, PlainMap, PlainMapFails, At
<1>2. \A a \in Addr : ~HmmapOf(frame[t], a)
  BY <1>1 DEF HmmapOf
<1>3. CASE Reuse(t) \/ PlainMap(t)
  <2>1. PICK b \in Addr : Deliver(t, b) /\ (vma' = vma \/ vma' = [vma EXCEPT ![b] = DefaultPolicy])
    BY <1>3 DEF Reuse, PlainMap
  <2>2. heap'[b] = "live" /\ \A a \in Addr \ {b} : heap'[a] = "none" <=> heap[a] = "none"
    BY <2>1, DeliverEffect, DeliverExtents
  <2>3. \A a \in Addr \ {b} : vma'[a] = vma[a]
    BY <2>1 DEF TypeOK
  <2>4. \E f : Goto(t, f)
    BY <2>1 DEF Deliver
  <2>5. QED
    BY <1>1, <1>2, <2>2, <2>3, <2>4, MappedStep
<1>4. CASE ResizeInPlace(t) \/ Refuse(t) \/ extent_alloc(t) \/ PlainMapFails(t)
  <2>1. (\E f : Goto(t, f)) /\ UNCHANGED <<vma, heap>>
    BY <1>4 DEF ResizeInPlace, Refuse, extent_alloc, PlainMapFails
  <2>2. QED
    BY <1>1, <1>2, <2>1, MappedStep
<1>5. QED
  BY <1>3, <1>4 DEF Allocator

\* hmmap() has the region until it has returned or unmapped it.
LEMMA HmmapMapped ==
    ASSUME "munmap" \notin Failing, TypeOK, IInv, MappedInv, NEW t \in Threads, Hmmap(t)
    PROVE  MappedInv'
<1>1. frame[t] \in Frames /\ FrameOK(frame[t])
  BY DEF TypeOK, IInv, FrameInv
<1>2. CASE MmapFails(t) \/ RestoreErrno(t)
  <2>1. \A a \in Addr : ~HmmapOf(frame[t], a)
    BY <1>2 DEF MmapFails, RestoreErrno, At, HmmapOf
  <2>2. (\E f : Goto(t, f)) /\ UNCHANGED <<vma, heap, mapped>>
    BY <1>2 DEF MmapFails, RestoreErrno
  <2>3. QED
    BY <2>1, <2>2, MappedStep
<1>3. CASE Mmap(t)
  <2> DEFINE pc == IF lib.nodemask # {} THEN "mbind" ELSE "mapped"
  <2>1. PICK b \in Addr : /\ vma' = [vma EXCEPT ![b] = DefaultPolicy]
                          /\ Goto(t, [frame[t] EXCEPT !.ret = b, !.pc = pc])
    BY <1>3 DEF Mmap
  <2> DEFINE f == [frame[t] EXCEPT !.ret = b, !.pc = pc]
  <2>2. HmmapOf(f, b)
    BY <1>1 DEF HmmapOf, Frames
  <2>3. Goto(t, f)
    BY <2>1
  <2> HIDE DEF f
  <2>4. \A a \in Addr : ~HmmapOf(frame[t], a)
    BY <1>3 DEF Mmap, At, HmmapOf
  <2>5. \A a \in Addr \ {b} : vma'[a] = vma[a]
    BY <2>1 DEF TypeOK
  <2>6. UNCHANGED <<heap, mapped>>
    BY <1>3 DEF Mmap
  <2>7. QED
    BY <2>2, <2>3, <2>4, <2>5, <2>6, MappedStep
<1>4. ASSUME NEW f, Goto(t, f), \A a \in Addr : HmmapOf(frame[t], a) => HmmapOf(f, a),
             \A a \in Addr : vma'[a] = Unmapped <=> vma[a] = Unmapped,
             UNCHANGED <<heap, mapped>>
      PROVE  MappedInv'
  BY <1>4, MappedStep
<1>5. CASE Mbind(t)
  <2> DEFINE f == [frame[t] EXCEPT !.pc = "mapped"]
  <2>1. Goto(t, f) /\ UNCHANGED <<heap, mapped>> /\ frame[t].pc = "mbind"
    BY <1>5 DEF Mbind, At
  <2>2. \A a \in Addr : HmmapOf(frame[t], a) => HmmapOf(f, a)
    BY <1>1 DEF HmmapOf, Frames
  <2> HIDE DEF f
  <2>3. frame[t].ret \in Addr /\ vma[frame[t].ret] # Unmapped
    BY <1>1, <2>1 DEF FrameOK, IInv, OwnerInv, HmmapOf
  <2>4. Bound(lib) # Unmapped
    BY PoolPolicyType, NullIsNoRegion DEF TypeOK
  <2>5. \A a \in Addr : vma'[a] = Unmapped <=> vma[a] = Unmapped
    BY <1>5, <2>3, <2>4 DEF Mbind, TypeOK
  <2>6. QED
    BY <1>4, <2>1, <2>2, <2>5
<1>6. CASE MbindFails(t)
  <2>1. PICK e \in MbindErrors(lib) :
            Goto(t, [frame[t] EXCEPT !.pc = "munmap", !.mbind_errno = e, !.cause = e])
    BY <1>6 DEF MbindFails
  <2> DEFINE f == [frame[t] EXCEPT !.pc = "munmap", !.mbind_errno = e, !.cause = e]
  <2>2. \A a \in Addr : HmmapOf(frame[t], a) => HmmapOf(f, a)
    BY <1>1 DEF HmmapOf, Frames
  <2>3. Goto(t, f) /\ UNCHANGED <<vma, heap, mapped>>
    BY <1>6, <2>1 DEF MbindFails
  <2> HIDE DEF f
  <2>4. QED
    BY <1>4, <2>2, <2>3
<1>7. CASE Munmap(t)
  <2>1. \A a \in Addr : vma'[a] # Unmapped => a # frame[t].ret /\ vma'[a] = vma[a]
    BY <1>7 DEF Munmap, TypeOK
  <2>2. \A a \in Addr : HmmapOf(frame[t], a) => a = frame[t].ret
    BY DEF HmmapOf
  <2>3. (\E f : Goto(t, f)) /\ UNCHANGED <<heap, mapped>>
    BY <1>7 DEF Munmap
  <2>4. QED
    BY <2>1, <2>2, <2>3, MappedStep
<1>8. CASE HmmapReturns(t)
  <2> DEFINE f == [frame[t] EXCEPT !.pc = "done"]
  <2>1. Goto(t, f) /\ UNCHANGED <<vma, heap, mapped>> /\ frame[t].op = "hmmap"
    BY <1>8 DEF HmmapReturns
  <2>2. \A a \in Addr : HmmapOf(frame[t], a) => HmmapOf(f, a)
    BY <1>1, <2>1 DEF HmmapOf, Frames
  <2> HIDE DEF f
  <2>3. QED
    BY <1>4, <2>1, <2>2
<1>9. CASE HookReturns(t)
  <2>1. frame[t].pc = "mapped" /\ UNCHANGED <<vma, mapped>>
    BY <1>9 DEF HookReturns, At
  <2>2. CASE frame[t].ret \in {Null, MapFailed} /\ UNCHANGED heap
    <3>1. \A a \in Addr : ~HmmapOf(frame[t], a)
      BY <2>2, NullIsNoRegion DEF HmmapOf
    <3>2. \E f : Goto(t, f)
      BY <1>9 DEF HookReturns, Deliver
    <3>3. QED
      BY <2>1, <2>2, <3>1, <3>2, MappedStep
  <2>3. CASE frame[t].ret # Null /\ Deliver(t, frame[t].ret)
    <3>1. PICK b \in Addr \cup {MapFailed} : b = frame[t].ret /\ Deliver(t, b)
      BY <1>1, <2>3 DEF Frames, Ptrs
    <3>2. heap'[b] = "live" /\ \A a \in Addr \ {b} : heap'[a] = "none" <=> heap[a] = "none"
      BY <3>1, DeliverEffect, DeliverExtents
    <3>3. \A a \in Addr : HmmapOf(frame[t], a) => a = b
      BY <3>1 DEF HmmapOf
    <3>4. \E f : Goto(t, f)
      BY <3>1 DEF Deliver
    <3>5. QED
      BY <2>1, <3>2, <3>3, <3>4, MappedStep
  <2>4. QED
    BY <1>9, <2>2, <2>3 DEF HookReturns
<1>10. QED
  BY <1>2, <1>3, <1>5, <1>6, <1>7, <1>8, <1>9 DEF Hmmap, MunmapFails, MunmapErrno

LEMMA TailMapped ==
    ASSUME TypeOK, IInv, MappedInv, NEW t \in Threads,
           HmallocTail(t) \/ PlainTail(t) \/ MemalignTail(t) \/ Return(t)
    PROVE  MappedInv'
<1>1. CASE HmallocTail(t) \/ PlainTail(t) \/ MemalignTail(t)
  <2>1. \A a \in Addr : ~HmmapOf(frame[t], a)
    BY <1>1 DEF HmallocTail, PlainTail, MemalignTail, At, HmmapOf
  <2>2. (\E f : Goto(t, f)) /\ UNCHANGED <<vma, heap, mapped>>
    BY <1>1 DEF HmallocTail, PlainTail, MemalignTail, Answer
  <2>3. QED
    BY <2>1, <2>2, MappedStep
<1>2. CASE Return(t)
  <2>1. Goto(t, Idle) /\ UNCHANGED <<vma, heap>> /\ frame[t].pc = "done"
    BY <1>2 DEF Return, At
  <2>2. \A a \in Addr : a \in mapped => a \in mapped'
    BY <1>2 DEF Return
  <2>3. \A a \in Addr : HmmapOf(frame[t], a) => a \in mapped'
    BY <1>2, <2>1, NullIsNoRegion DEF Return, HmmapOf
  <2>4. \A a \in Addr : vma'[a] # Unmapped => vma[a] # Unmapped
    BY <2>1
  <2>5. QED
    BY <2>1, <2>2, <2>3, <2>4, MappedStep
<1>3. QED
  BY <1>1, <1>2

LEMMA NextMapped ==
    ASSUME "munmap" \notin Failing
    PROVE  TypeOK /\ IInv /\ MappedInv /\ [Next]_vars => MappedInv'
<1> SUFFICES ASSUME TypeOK, IInv, MappedInv, [Next]_vars PROVE MappedInv'
  OBVIOUS
<1>1. CASE hmalloc_init \/ UNCHANGED vars
  BY <1>1 DEF hmalloc_init, vars, MappedInv
<1>2. CASE extent_dalloc
  <2>1. PICK b \in Addr : /\ vma' = [vma EXCEPT ![b] = Unmapped]
                          /\ heap' = [heap EXCEPT ![b] = "none"]
    BY <1>2 DEF extent_dalloc
  <2>2. \A a \in Addr : vma'[a] # Unmapped => /\ a # b /\ vma[a] # Unmapped
                                              /\ heap'[a] = heap[a]
    BY <2>1 DEF TypeOK
  <2>3. UNCHANGED <<mapped, frame>>
    BY <1>2 DEF extent_dalloc
  <2>4. QED
    BY <2>2, <2>3 DEF MappedInv
<1>3. ASSUME NEW t \in Threads, Call(t) PROVE MappedInv'
  BY <1>3, CallMapped
<1>4. ASSUME NEW t \in Threads, Progress(t) PROVE MappedInv'
  BY <1>4, AllocatorMapped, HmmapMapped, TailMapped DEF Progress
<1>5. ASSUME NEW t \in Threads, extent_dalloc_fails(t) PROVE MappedInv'
  BY <1>5, UnmapFailsQuiet DEF MappedInv
<1>6. QED
  BY <1>1, <1>2, <1>3, <1>4, <1>5 DEF Next

\* Every mapping has exactly one owner at any moment, however the threads interleave
\* and whichever mmap() and mbind() fail: only a munmap() that fails under hmmap(), whose
\* result the code does not look at, loses one.
THEOREM MappingsAreAccounted ==
    ASSUME "munmap" \notin Failing
    PROVE  Spec => []MappingsAccounted
<1>1. Init => MappedInv
  BY DEF Init, MappedInv
<1>2. TypeOK /\ IInv /\ MappedInv /\ [Next]_vars => MappedInv'
  BY NextMapped
<1>3. TypeOK /\ IInv /\ MappedInv => MappingsAccounted
  <2> SUFFICES ASSUME IInv, MappedInv, NEW a \in Addr
               PROVE  /\ vma[a] = Unmapped <=> MappingOwners(a) = {}
                      /\ \A o, p \in MappingOwners(a) : o = p
    BY DEF MappingsAccounted
  <2>1. \A t \in Threads : InHmmap(t, a) <=> HmmapOf(frame[t], a)
    BY DEF InHmmap, HmmapOf
  <2>2. vma[a] = Unmapped <=> MappingOwners(a) = {}
    BY <2>1 DEF MappingOwners, MappedInv, IInv, OwnerInv
  <2>3. \A o, p \in MappingOwners(a) : o = p
    BY <2>1 DEF MappingOwners, IInv, OwnerInv
  <2>4. QED
    BY <2>2, <2>3
<1>4. QED
  BY <1>1, <1>2, <1>3, Inductive, PTL DEF Spec

-----------------------------------------------------------------------------
(* Blocks: one is lost where hmalloc() finds ENOMEM in errno though the    *)
(* allocator has delivered.  Without failures, and with an application     *)
(* that does not leave ENOMEM there itself, errno never holds it.          *)
NoFailures == Failing = {} /\ "ENOMEM" \notin AppErrnos

SaneOf(f, e) == e # "ENOMEM" /\ f.mbind_errno # "ENOMEM" /\ f.old_errno # "ENOMEM"

SaneInv == ~lib.loaded \/ lib.use_jemalloc => \A t \in Threads : SaneOf(frame[t], errno[t])

LEMMA SaneStep ==
    ASSUME TypeOK, SaneInv, UNCHANGED lib, NEW t \in Threads, NEW f, Goto(t, f),
           ~lib.loaded \/ lib.use_jemalloc => SaneOf(f, errno'[t]),
           \A u \in Threads \ {t} : errno'[u] = errno[u]
    PROVE  SaneInv'
<1>1. frame'[t] = f /\ \A u \in Threads \ {t} : frame'[u] = frame[u]
  BY OtherFrames
<1>2. QED
  BY <1>1 DEF SaneInv, SaneOf

LEMMA CallSane ==
    ASSUME NoFailures, TypeOK, SaneInv, NEW t \in Threads, Call(t)
    PROVE  SaneInv'
<1>1. ASSUME UNCHANGED <<lib, errno>>, NEW f, Goto(t, f), f.mbind_errno = "ok",
             f.old_errno \in {"ok", errno[t]}
      PROVE  SaneInv'
  BY <1>1, SaneStep DEF SaneInv, SaneOf
<1>2. ASSUME NEW r, NEW size, NEW old, Enter(t, r, size, old), UNCHANGED <<lib, errno>>
      PROVE  SaneInv'
  BY <1>1, <1>2 DEF Enter, Idle
<1>3. ASSUME NEW r, NEW status, Leave(t, r, status), UNCHANGED <<lib, errno>>
      PROVE  SaneInv'
  BY <1>1, <1>3 DEF Leave, Idle
<1>4. ASSUME NEW r \in Requests, hmalloc(t, r) \/ hcalloc(t, r) \/ hrealloc(t, r)
      PROVE  SaneInv'
  BY <1>2, <1>3, <1>4 DEF hmalloc, hcalloc, hrealloc
<1>5. ASSUME NEW e \in Errnos \ {"ENOMEM"}, SetErrno(t, e), NEW f, Goto(t, f), UNCHANGED lib,
             f.mbind_errno = "ok", f.old_errno = "ok"
      PROVE  SaneInv'
  <2>1. errno'[t] = e /\ \A u \in Threads \ {t} : errno'[u] = errno[u]
    BY <1>5 DEF TypeOK, SetErrno
  <2>2. QED
    BY <1>5, <2>1, SaneStep DEF SaneInv, SaneOf
<1>6. ASSUME NEW r \in Requests, haligned_alloc(t, r) PROVE SaneInv'
  <2>1. CASE Leave(t, r, "ok") /\ SetErrno(t, "EINVAL")
    <3> DEFINE f == [Idle EXCEPT !.pc = "done", !.op = r.op,
                                 !.status = "ok", !.entry = errno[t]]
    <3>1. Goto(t, f) /\ UNCHANGED lib
      BY <1>6, <2>1 DEF haligned_alloc, Leave
    <3>2. f.mbind_errno = "ok" /\ f.old_errno = "ok" /\ "EINVAL" \in Errnos \ {"ENOMEM"}
      BY DEF Idle, Errnos
    <3> HIDE DEF f
    <3>3. QED
      BY <1>5, <2>1, <3>1, <3>2
  <2>2. QED
    BY <1>2, <1>6, <2>1 DEF haligned_alloc
<1>7. ASSUME NEW r \in Requests, hposix_memalign(t, r) PROVE SaneInv'
  BY <1>1, <1>3, <1>7 DEF hposix_memalign, Idle
<1>8. CASE hmmap(t)
  BY <1>1, <1>8 DEF hmmap, Idle
<1>9. CASE hfree(t) \/ hmunmap(t)
  BY <1>9 DEF hfree, hmunmap, SaneInv, SaneOf
<1>10. CASE AppErrno(t)
  <2>1. PICK e \in AppErrnos : SetErrno(t, e)
    BY <1>10 DEF AppErrno
  <2>2. e \in Errnos \ {"ENOMEM"}
    BY HmallocAssumption DEF NoFailures
  <2>3. errno'[t] = e /\ \A u \in Threads \ {t} : errno'[u] = errno[u]
    BY <2>1 DEF TypeOK, SetErrno
  <2>4. UNCHANGED <<lib, frame>>
    BY <1>10 DEF AppErrno
  <2>5. QED
    BY <2>2, <2>3, <2>4 DEF SaneInv, SaneOf
<1>11. CASE hmunmap_fails(t)
  BY <1>11 DEF hmunmap_fails, MunmapErrno, NoFailures
<1>12. QED
  BY <1>4, <1>6, <1>7, <1>8, <1>9, <1>10, <1>11 DEF Call

LEMMA ProgressSane ==
    ASSUME NoFailures, TypeOK, IInv, SaneInv, NEW t \in Threads, Progress(t)
    PROVE  SaneInv'
<1>1. frame[t] \in Frames /\ errno[t] \in Errnos
  BY DEF TypeOK
<1>2. ASSUME UNCHANGED <<lib, errno>>, NEW f, Goto(t, f),
             f.mbind_errno \in {"ok", frame[t].mbind_errno},
             f.old_errno \in {"ok", frame[t].old_errno}
      PROVE  SaneInv'
  BY <1>2, SaneStep DEF SaneInv, SaneOf
<1>3. ASSUME UNCHANGED lib, NEW f, Goto(t, f), NEW e, SetErrno(t, e),
             ~lib.loaded \/ lib.use_jemalloc => SaneOf(f, e)
      PROVE  SaneInv'
  <2>1. errno'[t] = e /\ \A u \in Threads \ {t} : errno'[u] = errno[u]
    BY <1>3 DEF TypeOK, SetErrno
  <2>2. QED
    BY <1>3, <2>1, SaneStep
<1>4. ASSUME NEW a, Deliver(t, a), UNCHANGED <<lib, errno>> PROVE SaneInv'
  BY <1>1, <1>2, <1>4 DEF Deliver, Frames
<1>5. CASE Reuse(t) \/ PlainMap(t)
  BY <1>4, <1>5 DEF Reuse, PlainMap
<1>6. CASE ResizeInPlace(t) \/ extent_alloc(t)
  BY <1>1, <1>2, <1>6 DEF ResizeInPlace, extent_alloc, Frames
<1>7. CASE Refuse(t)
  <2> DEFINE f == [frame[t] EXCEPT !.pc = "tail", !.ret = Null]
  <2>1. f.mbind_errno = frame[t].mbind_errno /\ f.old_errno = frame[t].old_errno
    BY <1>1 DEF Frames
  <2>2. Goto(t, f) /\ UNCHANGED lib
    BY <1>7 DEF Refuse
  <2>3. lib.loaded
    BY <1>7, BusyIsLoaded DEF Refuse, At
  <2> HIDE DEF f
  <2>4. CASE lib.use_jemalloc
    BY <1>2, <1>7, <2>1, <2>2, <2>4 DEF Refuse
  <2>5. CASE ~lib.use_jemalloc
    BY <1>3, <1>7, <2>2, <2>3, <2>5 DEF Refuse
  <2>6. QED
    BY <2>4, <2>5
<1>8. CASE Mmap(t)
  BY <1>1, <1>2, <1>8 DEF Mmap, Frames
<1>9. CASE Mbind(t) \/ Munmap(t) \/ HmmapReturns(t)
  BY <1>1, <1>2, <1>9 DEF Mbind, Munmap, HmmapReturns, Frames
<1>10. CASE MbindFails(t)
  <2>1. PICK e \in MbindErrors(lib) :
            /\ SetErrno(t, e)
            /\ Goto(t, [frame[t] EXCEPT !.pc = "munmap", !.mbind_errno = e, !.cause = e])
    BY <1>10 DEF MbindFails
  <2> DEFINE f == [frame[t] EXCEPT !.pc = "munmap", !.mbind_errno = e, !.cause = e]
  <2>2. e # "ENOMEM" /\ f.mbind_errno = e /\ f.old_errno = frame[t].old_errno
    BY <1>1 DEF Frames, MbindErrors, NoFailures
  <2>3. Goto(t, f) /\ UNCHANGED lib
    BY <1>10, <2>1 DEF MbindFails
  <2> HIDE DEF f
  <2>4. QED
    BY <1>3, <2>1, <2>2, <2>3 DEF SaneInv, SaneOf
<1>11. CASE RestoreErrno(t)
  <2> DEFINE f == [frame[t] EXCEPT !.pc = "mapped", !.mbind_errno = "ok"]
  <2>1. f.mbind_errno = "ok" /\ f.old_errno = frame[t].old_errno
    BY <1>1 DEF Frames
  <2>2. Goto(t, f) /\ SetErrno(t, frame[t].mbind_errno) /\ UNCHANGED lib
    BY <1>11 DEF RestoreErrno
  <2> HIDE DEF f
  <2>3. QED
    BY <1>3, <2>1, <2>2 DEF SaneInv, SaneOf
<1>12. CASE HookReturns(t)
  <2>1. UNCHANGED <<lib, errno>>
    BY <1>12 DEF HookReturns
  <2>2. CASE Goto(t, [frame[t] EXCEPT !.pc = "alloc", !.tries = @ + 1, !.cause = "ok"])
    <3> DEFINE n == frame[t].tries + 1
               f == [frame[t] EXCEPT !.pc = "alloc", !.tries = n, !.cause = "ok"]
    <3>1. Goto(t, f)
      BY <2>2
    <3> HIDE DEF n
    <3>2. f.mbind_errno = frame[t].mbind_errno /\ f.old_errno = frame[t].old_errno
      BY <1>1 DEF Frames
    <3> HIDE DEF f
    <3>3. QED
      BY <1>2, <2>1, <3>1, <3>2
  <2>3. CASE Goto(t, [frame[t] EXCEPT !.pc = "crashed"])
    BY <1>1, <1>2, <2>1, <2>3 DEF Frames
  <2>4. QED
    BY <1>4, <1>12, <2>1, <2>2, <2>3 DEF HookReturns
<1>13. CASE HmallocTail(t) \/ PlainTail(t)
  BY <1>1, <1>2, <1>13 DEF HmallocTail, PlainTail, Answer, Frames
<1>14. CASE MemalignTail(t)
  <2>1. UNCHANGED lib
    BY <1>14 DEF MemalignTail
  <2>2. ASSUME NEW ret, NEW status, Answer(t, ret, status)
        PROVE  \E f : Goto(t, f) /\ f.mbind_errno = frame[t].mbind_errno /\ f.old_errno = "ok"
    <3> DEFINE f == [frame[t] EXCEPT !.pc = "done", !.ret = ret, !.status = status,
                                     !.cause = "ok", !.old_errno = "ok"]
    <3>1. f.mbind_errno = frame[t].mbind_errno /\ f.old_errno = "ok"
      BY <1>1 DEF Frames
    <3>2. Goto(t, f)
      BY <2>2 DEF Answer
    <3> HIDE DEF f
    <3>3. QED
      BY <3>1, <3>2
  <2>3. CASE SetErrno(t, frame[t].old_errno)
    <3>1. PICK f : Goto(t, f) /\ f.mbind_errno = frame[t].mbind_errno /\ f.old_errno = "ok"
      BY <1>14, <2>2 DEF MemalignTail
    <3>2. ~lib.loaded \/ lib.use_jemalloc => SaneOf(f, frame[t].old_errno)
      BY <3>1 DEF SaneInv, SaneOf
    <3>3. QED
      BY <1>3, <2>1, <2>3, <3>1, <3>2
  <2>4. CASE UNCHANGED errno
    BY <1>2, <1>14, <2>1, <2>2, <2>4 DEF MemalignTail
  <2>5. QED
    BY <1>14, <2>3, <2>4 DEF MemalignTail
<1>15. CASE Return(t)
  BY <1>2, <1>15 DEF Return, Idle
<1>16. CASE PlainMapFails(t) \/ MmapFails(t) \/ MunmapFails(t)
  BY <1>16 DEF PlainMapFails, MmapFails, MunmapFails, MunmapErrno, NoFailures
<1>17. QED
  BY <1>5, <1>6, <1>7, <1>8, <1>9, <1>10, <1>11, <1>12, <1>13, <1>14, <1>15, <1>16
     DEF Progress, Allocator, Hmmap

LEMMA NextSane ==
    ASSUME NoFailures
    PROVE  TypeOK /\ IInv /\ SaneInv /\ [Next]_vars => SaneInv'
<1> SUFFICES ASSUME TypeOK, IInv, SaneInv, [Next]_vars PROVE SaneInv'
  OBVIOUS
<1>1. CASE hmalloc_init
  <2>1. \A t \in Threads : SaneOf(frame[t], errno[t])
    BY <1>1 DEF hmalloc_init, SaneInv
  <2>2. \A l : MbindErrors(l) \subseteq {"EINVAL"}
    BY DEF MbindErrors, NoFailures
  <2>3. UNCHANGED errno \/ \E t \in Threads : SetErrno(t, "EINVAL")
    BY <1>1, <2>2 DEF hmalloc_init, MbindErrno
  <2>4. \A t \in Threads : errno'[t] \in {errno[t], "EINVAL"}
    BY <2>3 DEF SetErrno, TypeOK
  <2>5. UNCHANGED frame
    BY <1>1 DEF hmalloc_init
  <2>6. QED
    BY <2>1, <2>4, <2>5 DEF SaneInv, SaneOf
<1>2. CASE extent_dalloc \/ UNCHANGED vars
  BY <1>2 DEF extent_dalloc, vars, SaneInv, SaneOf
<1>3. ASSUME NEW t \in Threads, Call(t) PROVE SaneInv'
  BY <1>3, CallSane
<1>4. ASSUME NEW t \in Threads, Progress(t) PROVE SaneInv'
  BY <1>4, ProgressSane
<1>5. ASSUME NEW t \in Threads, extent_dalloc_fails(t) PROVE SaneInv'
  BY <1>5 DEF extent_dalloc_fails, MunmapErrno, NoFailures
<1>6. QED
  BY <1>1, <1>2, <1>3, <1>4, <1>5 DEF Next

-----------------------------------------------------------------------------
LEMMA CallLive ==
    ASSUME TypeOK, IdleInv, LiveInv, NEW t \in Threads, Call(t)
    PROVE  LiveInv'
<1>1. \A a \in Addr : ~CallOf(frame[t], a)
  <2>1. frame[t].pc = "idle"
    BY DEF Call, hmalloc, hcalloc, hrealloc, haligned_alloc, hposix_memalign, hfree, hmmap,
           hmunmap, hmunmap_fails, AppErrno, Running
  <2>2. QED
    BY <2>1, NullIsNoRegion DEF IdleInv, Idle, CallOf
<1>2. ASSUME NEW f, Goto(t, f), UNCHANGED <<heap, held>> PROVE LiveInv'
  BY <1>1, <1>2, LiveStep
<1>3. ASSUME NEW p \in held \cap Addr, held' = held \ {p}, Free(p), NEW f, Goto(t, f)
      PROVE  LiveInv'
  <2>1. \A a \in Addr : heap'[a] = "live" => a # p /\ heap[a] = "live"
    BY <1>3 DEF Free, TypeOK
  <2>2. QED
    BY <1>1, <1>3, <2>1, LiveStep
<1>4. ASSUME NEW r \in Requests, hmalloc(t, r) \/ hcalloc(t, r) \/ haligned_alloc(t, r)
                                 \/ hposix_memalign(t, r)
      PROVE  LiveInv'
  BY <1>2, <1>4 DEF hmalloc, hcalloc, haligned_alloc, hposix_memalign, Enter, Leave
<1>5. ASSUME NEW r \in Requests, hrealloc(t, r) PROVE LiveInv'
  <2>1. CASE Enter(t, [r EXCEPT !.op = "hmalloc"], r.size, Null) /\ UNCHANGED <<heap, held>>
    BY <1>2, <2>1 DEF Enter
  <2>2. ASSUME NEW p \in held \cap Addr, held' = held \ {p}, Free(p), Leave(t, r, "ok")
        PROVE  LiveInv'
    BY <1>3, <2>2 DEF Leave
  <2>3. ASSUME NEW p \in held \cap Addr, held' = held \ {p},
               Enter(t, r, r.size, p), UNCHANGED heap
        PROVE  LiveInv'
    <3> DEFINE f == [Idle EXCEPT !.pc = "alloc", !.op = r.op, !.size = r.size,
                                 !.old = p, !.entry = errno[t]]
    <3>1. Goto(t, f)
      BY <2>3 DEF Enter
    <3>2. CallOf(f, p)
      BY DEF Idle, CallOf
    <3> HIDE DEF f
    <3>3. QED
      BY <1>1, <2>3, <3>1, <3>2, LiveStep
  <2>4. QED
    BY <1>5, <2>1, <2>2, <2>3 DEF hrealloc
<1>6. CASE hfree(t)
  <2>1. Goto(t, frame[t])
    BY <1>6, StaysPut DEF hfree
  <2>2. QED
    BY <1>3, <1>6, <2>1 DEF hfree
<1>7. CASE hmmap(t)
  BY <1>2, <1>7 DEF hmmap
<1>8. CASE hmunmap(t) \/ hmunmap_fails(t) \/ AppErrno(t)
  BY <1>8, UnmapFailsQuiet DEF hmunmap, AppErrno, LiveInv
<1>9. QED
  BY <1>4, <1>5, <1>6, <1>7, <1>8 DEF Call

LEMMA ProgressLive ==
    ASSUME TypeOK, IInv, SaneInv, LiveInv, NEW t \in Threads, Progress(t)
    PROVE  LiveInv'
<1>1. frame[t] \in Frames /\ FrameOK(frame[t])
  BY DEF TypeOK, IInv, FrameInv
<1>2. ASSUME NEW b \in Addr \cup {MapFailed}, Deliver(t, b), UNCHANGED held,
             frame[t].pc \notin {"tail", "done"}
      PROVE  LiveInv'
  <2> DEFINE f == [frame[t] EXCEPT !.pc = "tail", !.ret = b, !.old = Null]
  <2>1. Goto(t, f) /\ CallOf(f, b)
    BY <1>1, <1>2 DEF Deliver, CallOf, Frames
  <2>2. ASSUME NEW a \in Addr, heap'[a] = "live"
        PROVE  a = b \/ (heap[a] = "live" /\ a # frame[t].old)
    BY <1>2, <2>2, DeliverEffect
  <2>3. \A a \in Addr : CallOf(frame[t], a) => a = frame[t].old
    BY <1>2 DEF CallOf
  <2> HIDE DEF f
  <2>4. QED
    BY <1>2, <2>1, <2>2, <2>3, LiveStep
<1>3. ASSUME NEW f, Goto(t, f), \A a \in Addr : CallOf(frame[t], a) => CallOf(f, a),
             UNCHANGED <<heap, held>>
      PROVE  LiveInv'
  BY <1>3, LiveStep
<1>4. ASSUME frame[t].pc \notin {"tail", "done"}, NEW f, Goto(t, f), f.old = frame[t].old,
             UNCHANGED <<heap, held>>
      PROVE  LiveInv'
  <2>1. \A a \in Addr : CallOf(frame[t], a) => CallOf(f, a)
    BY <1>4 DEF CallOf
  <2>2. QED
    BY <1>3, <1>4, <2>1
<1>5. CASE Reuse(t) \/ PlainMap(t)
  BY <1>2, <1>5 DEF Reuse, PlainMap, At
<1>6. CASE ResizeInPlace(t)
  <2> DEFINE f == [frame[t] EXCEPT !.pc = "tail", !.ret = frame[t].old, !.old = Null]
  <2>1. Goto(t, f) /\ UNCHANGED <<heap, held>>
    BY <1>6 DEF ResizeInPlace
  <2>2. \A a \in Addr : CallOf(frame[t], a) => CallOf(f, a)
    BY <1>1, <1>6 DEF ResizeInPlace, At, CallOf, Frames
  <2> HIDE DEF f
  <2>3. QED
    BY <1>3, <2>1, <2>2
<1>7. CASE Refuse(t) \/ extent_alloc(t) \/ PlainMapFails(t)
  BY <1>1, <1>4, <1>7 DEF Refuse, extent_alloc, PlainMapFails, At, Frames
<1>8. CASE Mmap(t)
  BY <1>1, <1>4, <1>8 DEF Mmap, At, Frames
<1>9. CASE Hmmap(t) /\ ~Mmap(t) /\ ~HookReturns(t)
  BY <1>1, <1>4, <1>9 DEF Hmmap, MmapFails, Mbind, MbindFails, Munmap, MunmapFails,
     RestoreErrno, HmmapReturns, At, Frames
<1>10. CASE HookReturns(t)
  <2>1. frame[t].pc = "mapped" /\ UNCHANGED held
    BY <1>10 DEF HookReturns, At
  <2>2. CASE /\ Goto(t, [frame[t] EXCEPT !.pc = "alloc", !.tries = @ + 1, !.cause = "ok"])
             /\ UNCHANGED heap
    <3> DEFINE n == frame[t].tries + 1
               f == [frame[t] EXCEPT !.pc = "alloc", !.tries = n, !.cause = "ok"]
    <3>1. Goto(t, f)
      BY <2>2
    <3> HIDE DEF n
    <3>2. f.old = frame[t].old
      BY <1>1 DEF Frames
    <3> HIDE DEF f
    <3>3. QED
      BY <1>4, <2>1, <2>2, <3>1, <3>2
  <2>3. CASE Goto(t, [frame[t] EXCEPT !.pc = "crashed"]) /\ UNCHANGED heap
    BY <1>1, <1>4, <2>1, <2>3 DEF Frames
  <2>4. CASE frame[t].ret # Null /\ Deliver(t, frame[t].ret)
    BY <1>1, <1>2, <2>1, <2>4 DEF Frames, Ptrs
  <2>5. QED
    BY <1>10, <2>2, <2>3, <2>4 DEF HookReturns
<1>11. ASSUME frame[t].pc = "tail", NEW status, Answer(t, frame[t].ret, status),
              frame[t].op # "hmmap", UNCHANGED <<heap, held>>
       PROVE  LiveInv'
  <2> DEFINE f == [frame[t] EXCEPT !.pc = "done", !.ret = frame[t].ret, !.status = status,
                                   !.cause = "ok", !.old_errno = "ok"]
  <2>1. Goto(t, f)
    BY <1>11 DEF Answer
  <2>2. \A a \in Addr : CallOf(frame[t], a) => CallOf(f, a)
    BY <1>1, <1>11 DEF CallOf, Frames
  <2> HIDE DEF f
  <2>3. QED
    BY <1>3, <1>11, <2>1, <2>2
<1>12. CASE HmallocTail(t)
  <2>1. lib.use_jemalloc => errno[t] # "ENOMEM"
    BY DEF SaneInv, SaneOf
  <2>2. QED
    BY <1>11, <1>12, <2>1 DEF HmallocTail, At
<1>13. CASE PlainTail(t)
  BY <1>11, <1>13 DEF PlainTail, At
<1>14. CASE MemalignTail(t)
  <2>1. \E status : Answer(t, frame[t].ret, status)
    BY <1>14 DEF MemalignTail
  <2>2. QED
    BY <1>11, <1>14, <2>1 DEF MemalignTail, At
<1>15. CASE Return(t)
  <2>1. Goto(t, Idle) /\ UNCHANGED heap /\ \A a \in Addr : a \in held => a \in held'
    BY <1>15 DEF Return
  <2>2. \A a \in Addr : CallOf(frame[t], a) => a \in held'
    BY <1>1, <1>15, NullIsNoRegion DEF Return, At, CallOf, FrameOK
  <2>3. QED
    BY <2>1, <2>2, LiveStep
<1>16. QED
  BY <1>5, <1>6, <1>7, <1>8, <1>9, <1>10, <1>12, <1>13, <1>14, <1>15 DEF Progress, Allocator, Hmmap

LEMMA NextLive == TypeOK /\ IInv /\ IdleInv /\ SaneInv /\ LiveInv /\ [Next]_vars => LiveInv'
<1> SUFFICES ASSUME TypeOK, IInv, IdleInv, SaneInv, LiveInv, [Next]_vars PROVE LiveInv'
  OBVIOUS
<1>1. CASE hmalloc_init \/ UNCHANGED vars
  BY <1>1 DEF hmalloc_init, vars, LiveInv
<1>2. CASE extent_dalloc
  <2>1. UNCHANGED <<held, frame>> /\ \A a \in Addr : heap'[a] = "live" => heap[a] = "live"
    BY <1>2 DEF extent_dalloc, TypeOK
  <2>2. QED
    BY <2>1 DEF LiveInv
<1>3. ASSUME NEW t \in Threads, Call(t) PROVE LiveInv'
  BY <1>3, CallLive
<1>4. ASSUME NEW t \in Threads, Progress(t) PROVE LiveInv'
  BY <1>4, ProgressLive
<1>5. ASSUME NEW t \in Threads, extent_dalloc_fails(t) PROVE LiveInv'
  BY <1>5, UnmapFailsQuiet DEF LiveInv
<1>6. QED
  BY <1>1, <1>2, <1>3, <1>4, <1>5 DEF Next

\* Whatever fails, no block has two owners and no owner has a block that was freed: no
\* API call frees a block twice, hands one to two callers, or returns one that is gone.
BlocksNotShared ==
    \A a \in Addr : /\ BlockOwners(a) # {} => heap[a] = "live"
                    /\ \A o, p \in BlockOwners(a) : o = p

LEMMA NotShared == TypeOK /\ IInv => BlocksNotShared
<1> SUFFICES ASSUME IInv, NEW a \in Addr
             PROVE  /\ BlockOwners(a) # {} => heap[a] = "live"
                    /\ \A o, p \in BlockOwners(a) : o = p
  BY DEF BlocksNotShared
<1>1. \A t \in Threads : InCall(t, a) <=> CallOf(frame[t], a)
  BY DEF InCall, CallOf
<1>2. QED
  BY <1>1 DEF BlockOwners, IInv, BlockInv

\* No block of libhmalloc is shared or owned after it was freed, for any number of
\* threads and whichever system calls fail (hmalloc.c:68-190).
THEOREM BlocksAreNotShared == Spec => []BlocksNotShared
<1>1. QED
  BY Inductive, NotShared, PTL

\* Without failures, and with an application that does not leave ENOMEM in errno, no
\* block is lost either.  Where errno is ENOMEM for another reason hmalloc() drops the
\* block the allocator has delivered, so the hypothesis cannot be left out.
THEOREM BlocksAreAccounted ==
    ASSUME NoFailures
    PROVE  Spec => []BlocksAccounted
<1>1. Init => IdleInv /\ SaneInv /\ LiveInv
  BY DEF Init, IdleInv, SaneInv, SaneOf, LiveInv, Idle
<1>2. TypeOK /\ IInv /\ IdleInv /\ SaneInv /\ LiveInv /\ [Next]_vars
         => IdleInv' /\ SaneInv' /\ LiveInv'
  BY NextIdle, NextSane, NextLive
<1>3. TypeOK /\ IInv /\ LiveInv => BlocksAccounted
  <2> SUFFICES ASSUME TypeOK, IInv, LiveInv, NEW a \in Addr
               PROVE  heap[a] = "live" => BlockOwners(a) # {}
    BY NotShared DEF BlocksAccounted, BlocksNotShared
  <2>1. \A t \in Threads : InCall(t, a) <=> CallOf(frame[t], a)
    BY DEF InCall, CallOf
  <2>2. QED
    BY <2>1 DEF BlockOwners, LiveInv
<1>4. QED
  BY <1>1, <1>2, <1>3, Inductive, PTL DEF Spec
=============================================================================
