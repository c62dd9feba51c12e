---------------------------- MODULE HmctlProofs ----------------------------
(***************************************************************************)
(* Proofs about hmctl, for any number of options and of nested hmctl       *)
(* commands and for any width of int and long.                             *)
(***************************************************************************)
EXTENDS HmctlPool, TLAPS

-----------------------------------------------------------------------------
\* The mask of -p, of any node at all, consists of bits of a long.
LEMMA ShiftOneIsMask ==
    ASSUME NEW n \in Nat
    PROVE  ShiftOne(n) \in Masks
<1>1. n % IntBits \in 0 .. IntBits - 1
  BY WidthAssumption
<1>2. n % IntBits \in Bits
  BY <1>1, WidthAssumption DEF Bits
<1>3. QED
  BY <1>1, <1>2, WidthAssumption DEF ShiftOne, Masks, Bits

\* What setup_child_environ() prints is a text of the environment.
LEMMA MaskOfIsText ==
    ASSUME NEW o \in Opts, NEW inherited \in Texts \cup {Unset},
           NEW key \in ListKeys \cup {"preferred"}, Given(o, key)
    PROVE  MaskOf(o, key, inherited) \in Texts \cup {Unset}
<1>1. CASE key = "preferred"
  <2>1. o.preferred \in Nat
    <3>1. o.preferred \in PreferredArgs \cup {-1}
      BY DEF Opts
    <3>2. PreferredArgs \subseteq Int
      BY HmctlAssumption
    <3>3. o.preferred \in Int
      <4> DEFINE n == o.preferred
      <4>1. n \in PreferredArgs \cup {-1}
        BY <3>1
      <4> HIDE DEF n
      <4>2. n \in Int
        BY <3>2, <4>1
      <4>3. QED
        BY <4>2 DEF n
    <3>4. o.preferred >= 0
      BY <1>1 DEF Given
    <3>5. QED
      BY <3>3, <3>4
  <2>2. ShiftOne(o.preferred) \in Masks
    BY <2>1, ShiftOneIsMask
  <2>3. QED
    BY <1>1, <2>2 DEF MaskOf, Texts, Conversions
<1>2. CASE key # "preferred"
  <2>1. FirstWord(o.list[key]) \in Masks
    BY DEF FirstWord, Masks
  <2>2. QED
    BY <1>2, <2>1 DEF MaskOf, Texts, Conversions
<1>3. QED
  BY <1>1, <1>2

LEMMA WinnerIsGiven ==
    ASSUME NEW o \in Opts
    PROVE  \/ Winner(o) = "none"
           \/ Winner(o) \in ListKeys \cup {"preferred"} /\ Given(o, Winner(o))
  BY DEF Winner, ListKeys

\* The environment of the command is well formed again.
LEMMA ChildEnvironType ==
    ASSUME NEW e \in Environs, NEW o \in Opts
    PROVE  ChildEnviron(e, o) \in Environs
<1>1. CASE Winner(o) = "none"
  BY <1>1 DEF ChildEnviron, Environs
<1>2. CASE Winner(o) # "none"
  <2> DEFINE key == Winner(o)
  <2>1. key \in ListKeys \cup {"preferred"} /\ Given(o, key)
    BY <1>2, WinnerIsGiven
  <2>2. ModeOf(key) \in Modes
    BY <2>1 DEF ModeOf, ListKeys, Modes
  <2>3. e.mask \in Texts \cup {Unset}
    BY DEF Environs
  <2>4. MaskOf(o, key, e.mask) \in Texts \cup {Unset}
    BY <2>1, <2>3, MaskOfIsText
  <2>5. QED
    BY <1>2, <2>2, <2>4 DEF ChildEnviron, Environs
<1>3. QED
  BY <1>1, <1>2

LEMMA StoreType ==
    ASSUME NEW o \in Opts, NEW option \in Options
    PROVE  Store(o, option) \in Opts
<1>1. CASE option.key = "preferred"
  <2>1. option.arg \in PreferredArgs
    BY <1>1 DEF Options, ListKeys
  <2>2. QED
    BY <1>1, <2>1 DEF Store, Opts
<1>2. CASE option.key # "preferred"
  <2>1. option.key \in ListKeys /\ option.arg \in Lists
    BY <1>2 DEF Options, ListKeys
  <2>2. QED
    BY <1>2, <2>1 DEF Store, Opts
<1>3. QED
  BY <1>1, <1>2

LEMMA NoOptsType == NoOpts \in Opts
  BY DEF NoOpts, Opts

\* What a command line asks for is a policy, or nothing definite.
LEMMA WishType ==
    ASSUME NEW options \in SUBSET Options, NEW inForce \in Policies \cup {NoWish}
    PROVE  Wish(options, inForce) \in Policies \cup {NoWish}
<1>1. ASSUME NEW o \in Options, Valid(o)
      PROVE  Asked(o) \in Policies
  <2>1. CASE o.key = "preferred"
    BY <1>1, <2>1 DEF Valid, Asked, ModeOf, Policies, Modes
  <2>2. CASE o.key # "preferred"
    <3>1. o.key \in ListKeys /\ o.arg \in SUBSET Online
      BY <1>1, <2>2 DEF Valid, Options, Lists
    <3>2. QED
      BY <2>2, <3>1 DEF Asked, ModeOf, Policies, Modes, ListKeys
  <2>3. QED
    BY <2>1, <2>2
<1>2. CASE \E o \in options : options = {o} /\ Valid(o)
  <2>1. PICK o \in options : options = {o} /\ Valid(o)
    BY <1>2
  <2>2. (CHOOSE x \in options : TRUE) = o
    BY <2>1
  <2>3. Wish(options, inForce) = Asked(o)
    BY <2>1, <2>2 DEF Wish
  <2>4. QED
    BY <1>1, <2>1, <2>3
<1>3. CASE ~ \E o \in options : options = {o} /\ Valid(o)
  BY <1>3 DEF Wish
<1>4. QED
  BY <1>2, <1>3

LEMMA NothingLoaded == Loaded(NoEnviron) = [mode |-> "default", nodes |-> {}]
  BY DEF Loaded, NoEnviron, getenv_mpol_mode, getenv_nodemask

-----------------------------------------------------------------------------
LEMMA InitTypeOK == Init => TypeOK
<1> SUFFICES ASSUME Init PROVE TypeOK
  OBVIOUS
<1>1. NoEnviron \in Environs
  BY DEF NoEnviron, Environs
<1>2. Loaded(NoEnviron) \in Policies
  BY NothingLoaded DEF Policies, Modes
<1>3. QED
  BY <1>1, <1>2, NoOptsType DEF Init, TypeOK

LEMMA NextTypeOK == TypeOK /\ [Next]_vars => TypeOK'
<1> SUFFICES ASSUME TypeOK, [Next]_vars PROVE TypeOK'
  OBVIOUS
<1> USE DEF TypeOK
<1>1. ASSUME NEW option \in Options, ParseOption(option)
      PROVE  TypeOK'
  <2>1. Store(opts, option) \in Opts
    BY StoreType
  <2>2. QED
    BY <1>1, <2>1 DEF ParseOption
<1>2. CASE ParseCommand
  BY <1>2 DEF ParseCommand
<1>3. CASE NoCommand
  BY <1>3 DEF NoCommand
<1>4. CASE SetupChildEnviron
  <2>1. ChildEnviron(env, opts) \in Environs
    BY ChildEnvironType
  <2>2. Wish(given, wanted) \in Policies \cup {NoWish}
    BY WishType
  <2>3. QED
    BY <1>4, <2>1, <2>2 DEF SetupChildEnviron
<1>5. CASE ExecProgram
  BY <1>5 DEF ExecProgram
<1>6. CASE ExecFails
  BY <1>6 DEF ExecFails
<1>7. CASE ExecHmctl
  BY <1>7, NoOptsType DEF ExecHmctl
<1>8. CASE UNCHANGED vars
  BY <1>8 DEF vars
<1>9. QED
  BY <1>1, <1>2, <1>3, <1>4, <1>5, <1>6, <1>7, <1>8 DEF Next

\* Type correctness of hmctl: whatever options are given in whatever order, the
\* environment that reaches execv() holds the number of a mode and the text of a
\* mask of bits of a long.
THEOREM TypeCorrect == Spec => []TypeOK
<1>1. QED
  BY InitTypeOK, NextTypeOK, PTL DEF Spec

-----------------------------------------------------------------------------
(* The conflict of -m and -p. *)
NoConflict(o) == ~(o.preferred > 0 /\ Given(o, "membind"))

\* parse_option() keeps the options free of the conflict from the first one on, or
\* else ends the process.
ConflictInv == phase # "help" => NoConflict(opts)

LEMMA StoreNoConflict ==
    ASSUME NEW o \in Opts, NEW option \in Options,
           NoConflict(o), ~Conflict(o, option)
    PROVE  NoConflict(Store(o, option))
<1>1. CASE option.key = "preferred"
  <2>1. ~Given(o, "membind")
    BY <1>1 DEF Conflict
  <2>2. Store(o, option).list = o.list
    BY <1>1 DEF Store, Opts
  <2>3. QED
    BY <2>1, <2>2 DEF NoConflict, Given
<1>2. CASE option.key = "membind"
  <2>1. ~(o.preferred > 0)
    BY <1>2 DEF Conflict
  <2>2. Store(o, option).preferred = o.preferred
    BY <1>2 DEF Store, Opts
  <2>3. QED
    BY <2>1, <2>2 DEF NoConflict
<1>3. CASE option.key \notin {"preferred", "membind"}
  <2>1. Store(o, option).preferred = o.preferred
    BY <1>3 DEF Store, Opts
  <2>2. Store(o, option).list["membind"] = o.list["membind"]
    BY <1>3 DEF Store, Opts, ListKeys
  <2>3. QED
    BY <2>1, <2>2 DEF NoConflict, Given
<1>4. QED
  BY <1>1, <1>2, <1>3

LEMMA NoOptsNoConflict == NoConflict(NoOpts)
  BY DEF NoConflict, NoOpts

LEMMA InitConflictInv == Init => ConflictInv
  BY NoOptsNoConflict DEF Init, ConflictInv

LEMMA NextConflictInv == TypeOK /\ ConflictInv /\ [Next]_vars => ConflictInv'
<1> SUFFICES ASSUME TypeOK, ConflictInv, [Next]_vars PROVE ConflictInv'
  OBVIOUS
<1> USE DEF ConflictInv
<1>1. ASSUME NEW option \in Options, ParseOption(option)
      PROVE  ConflictInv'
  <2>1. phase = "parse" /\ opts' = Store(opts, option)
    BY <1>1 DEF ParseOption
  <2>2. CASE Conflict(opts, option)
    BY <1>1, <2>2 DEF ParseOption
  <2>3. CASE ~Conflict(opts, option)
    <3>1. NoConflict(opts) /\ opts \in Opts
      BY <2>1 DEF TypeOK
    <3>2. NoConflict(Store(opts, option))
      BY <2>3, <3>1, StoreNoConflict
    <3>3. QED
      BY <2>1, <3>2
  <2>4. QED
    BY <2>2, <2>3
<1>2. CASE \/ ParseCommand \/ NoCommand \/ SetupChildEnviron
           \/ ExecProgram \/ ExecFails \/ UNCHANGED vars
  BY <1>2 DEF ParseCommand, NoCommand, SetupChildEnviron, ExecProgram, ExecFails, vars
<1>3. CASE ExecHmctl
  BY <1>3, NoOptsNoConflict DEF ExecHmctl
<1>4. QED
  BY <1>1, <1>2, <1>3 DEF Next

\* In whatever order and however often they are given, -m and a -p with a node above
\* 0 never reach the environment together.
THEOREM ConflictsStop == Spec => []ConflictStops
<1>1. ConflictInv => ConflictStops
  BY DEF ConflictInv, ConflictStops, NoConflict
<1>2. QED
  BY <1>1, InitTypeOK, NextTypeOK, InitConflictInv, NextConflictInv, PTL DEF Spec

-----------------------------------------------------------------------------
(* The policy arrives, on a machine whose nodes fit the integers.          *)
\* No node is numbered by the top bit of a long, and none that -p can name by the
\* sign bit of an int.
NodesFit == /\ Online \subseteq 0 .. LongBits - 2
            /\ PreferredArgs \cap Online \subseteq 0 .. IntBits - 2

\* struct opts holds nothing but the one option of the command line, and the
\* environment what all command lines up to now ask for.
OptsHoldGiven == /\ given = {} => opts = NoOpts
                 /\ \A o \in Options : given = {o} => opts = Store(NoOpts, o)

Delivered == wanted # NoWish => Loaded(env) = wanted

DeliveryInv == OptsHoldGiven /\ Delivered

\* What hmctl prints for a valid option is read back as the nodes of the option.
LEMMA MaskArrives ==
    ASSUME NodesFit, NEW option \in Options, Valid(option),
           NEW inherited, NEW o \in Opts, o = Store(NoOpts, option)
    PROVE  /\ MaskOf(o, option.key, inherited) \in Texts
           /\ Atol(MaskOf(o, option.key, inherited)) = Asked(option).nodes
<1>1. CASE option.key = "preferred"
  <2> DEFINE n == option.arg
  <2>1. n \in 0 .. IntBits - 2
    <3>1. n \in PreferredArgs \cap Online
      BY <1>1 DEF Options, ListKeys, Valid
    <3>2. QED
      BY <3>1 DEF NodesFit
  <2>2. o.preferred = n
    BY <1>1 DEF Store, NoOpts
  <2>3. n % IntBits = n /\ n # IntBits - 1
    BY <2>1, WidthAssumption
  <2>4. ShiftOne(n) = {n}
    BY <2>3 DEF ShiftOne
  <2>5. {n} \in Masks
    BY <2>1, WidthAssumption DEF Masks, Bits
  <2>6. MaskOf(o, option.key, inherited) = [conv |-> "%ld", mask |-> {n}]
    BY <1>1, <2>2, <2>4 DEF MaskOf
  <2>7. Asked(option).nodes = {n}
    BY <1>1 DEF Asked
  <2>8. [conv |-> "%ld", mask |-> {n}] \in Texts
    BY <2>5 DEF Texts, Conversions
  <2>9. Atol([conv |-> "%ld", mask |-> {n}]) = {n}
    BY DEF Atol
  <2>10. QED
    BY <2>6, <2>7, <2>8, <2>9
<1>2. CASE option.key # "preferred"
  <2> DEFINE nodes == option.arg
  <2>1. option.key \in ListKeys
    BY <1>2 DEF Options, ListKeys
  <2>2. nodes # BadNodes /\ nodes \in SUBSET Online
    BY <1>2 DEF Options, Valid, Lists
  <2>3. nodes \subseteq 0 .. LongBits - 2
    BY <2>2 DEF NodesFit
  <2>4. FirstWord(nodes) = nodes /\ nodes \in Masks /\ LongBits - 1 \notin nodes
    BY <2>3, WidthAssumption DEF FirstWord, Masks, Bits
  <2>5. o.list[option.key] = nodes
    BY <1>2, <2>1 DEF Store, NoOpts
  <2>6. MaskOf(o, option.key, inherited) = [conv |-> "%lu", mask |-> nodes]
    BY <1>2, <2>2, <2>4, <2>5 DEF MaskOf
  <2>7. QED
    BY <1>2, <2>4, <2>6 DEF Atol, Asked, Texts, Conversions
<1>3. QED
  BY <1>1, <1>2

\* The one option that is given is the branch that is taken.
LEMMA OnlyOptionWins ==
    ASSUME NEW option \in Options, Valid(option)
    PROVE  Winner(Store(NoOpts, option)) = option.key
<1> DEFINE o == Store(NoOpts, option)
<1>1. \A k \in ListKeys : NoOpts.list[k] = NoArg
  BY DEF NoOpts
<1>2. CASE option.key = "preferred"
  <2>1. option.arg >= 0
    <3>1. option.arg \in Online
      BY <1>2 DEF Valid
    <3>2. Online \subseteq Nat
      BY HmctlAssumption
    <3>3. option.arg \in Nat
      BY <3>1, <3>2
    <3>4. QED
      BY <3>3
  <2>2. o.preferred >= 0
    BY <1>2, <2>1 DEF Store, NoOpts
  <2>3. \A k \in ListKeys : o.list[k] = NoArg
    BY <1>1, <1>2 DEF Store, NoOpts
  <2>4. QED
    BY <1>2, <2>2, <2>3 DEF Winner, Given, ListKeys
<1>3. CASE option.key # "preferred"
  <2>1. option.key \in ListKeys /\ option.arg \in SUBSET Online
    BY <1>3 DEF Options, Valid, Lists
  <2>2. option.arg # NoArg
    BY <2>1, HmctlAssumption
  <2>3. o.list[option.key] # NoArg
    BY <1>3, <2>1, <2>2 DEF Store, NoOpts
  <2>4. \A k \in ListKeys \ {option.key} : o.list[k] = NoArg
    BY <1>1, <1>3, <2>1 DEF Store, NoOpts
  <2>5. ~(o.preferred >= 0)
    BY <1>3 DEF Store, NoOpts
  <2>6. QED
    BY <2>1, <2>3, <2>4, <2>5 DEF Winner, Given, ListKeys
<1>4. QED
  BY <1>2, <1>3

\* setup_child_environ() on one side, update_env() of the library on the other.
LEMMA PolicyArrives ==
    ASSUME NodesFit, NEW option \in Options, Valid(option), NEW e \in Environs
    PROVE  Loaded(ChildEnviron(e, Store(NoOpts, option))) = Asked(option)
<1> DEFINE o == Store(NoOpts, option)
           text == MaskOf(o, option.key, e.mask)
           child == ChildEnviron(e, o)
<1>1. o \in Opts
  BY StoreType, NoOptsType
<1>2. Winner(o) = option.key
  BY OnlyOptionWins
<1>3. option.key \in ListKeys \cup {"preferred"}
  BY DEF Options
<1>4. child = [jemalloc |-> TRUE, mode |-> ModeOf(option.key), mask |-> text]
  BY <1>2, <1>3 DEF ChildEnviron, ListKeys
<1>5. text \in Texts /\ Atol(text) = Asked(option).nodes
  BY <1>1, MaskArrives
<1>6. getenv_nodemask(child) = Asked(option).nodes
  BY <1>4, <1>5, UnsetAssumption DEF getenv_nodemask
<1>7. ModeOf(option.key) \in Modes
  BY <1>3 DEF ModeOf, ListKeys, Modes
<1>8. getenv_mpol_mode(child) = ModeOf(option.key)
  BY <1>4, <1>7, UnsetAssumption DEF getenv_mpol_mode
<1>9. QED
  BY <1>6, <1>8 DEF Loaded, Asked

LEMMA InitDeliveryInv == Init => DeliveryInv
<1> SUFFICES ASSUME Init PROVE DeliveryInv
  OBVIOUS
<1>1. OptsHoldGiven
  BY DEF Init, OptsHoldGiven
<1>2. Delivered
  BY DEF Init, Delivered
<1>3. QED
  BY <1>1, <1>2 DEF DeliveryInv

LEMMA StoreTwice ==
    ASSUME NEW option \in Options
    PROVE  Store(Store(NoOpts, option), option) = Store(NoOpts, option)
<1>1. CASE option.key = "preferred"
  BY <1>1 DEF Store, NoOpts
<1>2. CASE option.key # "preferred"
  <2>1. option.key \in ListKeys
    BY <1>2 DEF Options
  <2>2. QED
    BY <1>2, <2>1 DEF Store, NoOpts
<1>3. QED
  BY <1>1, <1>2

LEMMA NextDeliveryInv ==
    ASSUME NodesFit
    PROVE  TypeOK /\ DeliveryInv /\ [Next]_vars => DeliveryInv'
<1> SUFFICES ASSUME TypeOK, DeliveryInv, [Next]_vars PROVE DeliveryInv'
  OBVIOUS
<1>1. ASSUME NEW option \in Options, ParseOption(option)
      PROVE  DeliveryInv'
  <2>1. /\ opts' = Store(opts, option)
        /\ given' = given \cup {option}
        /\ UNCHANGED <<env, wanted>>
    BY <1>1 DEF ParseOption
  <2>2. Delivered'
    BY <2>1 DEF DeliveryInv, Delivered
  <2>3. ASSUME NEW o \in Options, given' = {o}
        PROVE  opts' = Store(NoOpts, o)
    <3>1. option = o
      BY <2>1, <2>3
    <3>2. given = {} \/ given = {o}
      BY <2>1, <2>3
    <3>3. CASE given = {}
      <4>1. opts = NoOpts
        BY <3>3 DEF DeliveryInv, OptsHoldGiven
      <4>2. QED
        BY <2>1, <3>1, <4>1
    <3>4. CASE given = {o}
      <4>1. opts = Store(NoOpts, o)
        BY <3>4 DEF DeliveryInv, OptsHoldGiven
      <4>2. QED
        BY <2>1, <3>1, <4>1, StoreTwice
    <3>5. QED
      BY <3>2, <3>3, <3>4
  <2>4. OptsHoldGiven'
    BY <2>1, <2>3 DEF OptsHoldGiven
  <2>5. QED
    BY <2>2, <2>4 DEF DeliveryInv
<1>2. CASE ParseCommand \/ NoCommand \/ ExecProgram \/ ExecFails \/ UNCHANGED vars
  <2>1. UNCHANGED <<opts, env, given, wanted>>
    BY <1>2 DEF ParseCommand, NoCommand, ExecProgram, ExecFails, vars
  <2>2. QED
    BY <2>1 DEF DeliveryInv, OptsHoldGiven, Delivered
<1>3. CASE SetupChildEnviron
  <2>1. /\ env' = ChildEnviron(env, opts)
        /\ wanted' = Wish(given, wanted)
        /\ UNCHANGED <<opts, given>>
    BY <1>3 DEF SetupChildEnviron
  <2>2. OptsHoldGiven'
    BY <2>1 DEF DeliveryInv, OptsHoldGiven
  <2>3. CASE given = {}
    <3>1. wanted' = wanted
      BY <2>1, <2>3 DEF Wish
    <3>2. opts = NoOpts
      BY <2>3 DEF DeliveryInv, OptsHoldGiven
    <3>3. Winner(NoOpts) = "none"
      BY DEF Winner, Given, NoOpts, ListKeys
    <3>4. env' = [env EXCEPT !.jemalloc = TRUE]
      BY <2>1, <3>2, <3>3 DEF ChildEnviron
    <3>5. env'.mode = env.mode /\ env'.mask = env.mask
      BY <3>4 DEF TypeOK, Environs
    <3>6. Loaded(env') = Loaded(env)
      BY <3>5 DEF Loaded, getenv_mpol_mode, getenv_nodemask
    <3>7. QED
      BY <2>2, <3>1, <3>6 DEF DeliveryInv, Delivered
  <2>4. CASE \E o \in given : given = {o} /\ Valid(o)
    <3>1. PICK o \in given : given = {o} /\ Valid(o)
      BY <2>4
    <3>2. o \in Options
      BY <3>1 DEF TypeOK
    <3>3. opts = Store(NoOpts, o)
      BY <3>1, <3>2 DEF DeliveryInv, OptsHoldGiven
    <3>4. (CHOOSE x \in given : TRUE) = o
      BY <3>1
    <3>5. wanted' = Asked(o)
      BY <2>1, <3>1, <3>4 DEF Wish
    <3>6. env \in Environs
      BY DEF TypeOK
    <3>7. Loaded(env') = Asked(o)
      BY <2>1, <3>1, <3>2, <3>3, <3>6, PolicyArrives
    <3>8. QED
      BY <2>2, <3>5, <3>7 DEF DeliveryInv, Delivered
  <2>5. CASE given # {} /\ ~ \E o \in given : given = {o} /\ Valid(o)
    <3>1. wanted' = NoWish
      BY <2>1, <2>5 DEF Wish
    <3>2. QED
      BY <2>2, <3>1 DEF DeliveryInv, Delivered
  <2>6. QED
    BY <2>3, <2>4, <2>5
<1>4. CASE ExecHmctl
  <2>1. opts' = NoOpts /\ given' = {} /\ UNCHANGED <<env, wanted>>
    BY <1>4 DEF ExecHmctl
  <2>2. QED
    BY <2>1 DEF DeliveryInv, OptsHoldGiven, Delivered
<1>5. QED
  BY <1>1, <1>2, <1>3, <1>4 DEF Next

\* On a machine whose nodes fit the integers they are converted through, the program
\* is loaded with the policy the command lines ask for, through any number of hmctl
\* commands: setup_child_environ() and update_env() agree on every mask.
THEOREM PolicyIsDelivered ==
    ASSUME NodesFit
    PROVE  Spec => []PolicyDelivered
<1>1. TypeOK /\ DeliveryInv /\ [Next]_vars => DeliveryInv'
  BY NextDeliveryInv
<1>2. DeliveryInv => PolicyDelivered
  BY DEF DeliveryInv, Delivered, PolicyDelivered
<1>3. QED
  BY <1>1, <1>2, InitTypeOK, NextTypeOK, InitDeliveryInv, PTL DEF Spec

-----------------------------------------------------------------------------
(* End to end: hmctl and the program, with what is proved of libhmalloc.   *)
LP == INSTANCE HmallocProofs WITH MemNodes <- Online, Environments <- {NoEnviron}

\* The library of the composition is the one the proofs of HmallocProofs are about.
LEMMA SameInit == Library!Init => LP!Init
  BY DEF LP!Idle, Library!Idle, LP!Init, Library!Init

LEMMA SameNext == Library!Next => LP!Next
  BY DEF LP!Allocator, Library!Allocator, LP!Answer, Library!Answer, LP!AppErrno,
         Library!AppErrno, LP!At, Library!At, LP!Atol, Library!Atol, LP!BadAlign,
         Library!BadAlign, LP!Bound, Library!Bound, LP!Call, Library!Call, LP!Created,
         Library!Created, LP!DefaultPolicy, Library!DefaultPolicy, LP!Deliver,
         Library!Deliver, LP!Enter, Library!Enter, LP!Fits, Library!Fits, LP!Free,
         Library!Free, LP!Goto, Library!Goto, LP!HmallocTail, Library!HmallocTail, LP!Hmmap,
         Library!Hmmap, LP!HmmapReturns, Library!HmmapReturns, LP!HookReturns,
         Library!HookReturns, LP!Hooked, Library!Hooked, LP!Idle, Library!Idle, LP!IsPow2,
         Library!IsPow2, LP!KernelNodes, Library!KernelNodes, LP!Leave, Library!Leave,
         LP!Mbind, Library!Mbind, LP!MbindErrors, Library!MbindErrors, LP!MbindFails,
         Library!MbindFails, LP!MemalignTail, Library!MemalignTail, LP!Mmap, Library!Mmap,
         LP!MmapFails, Library!MmapFails, LP!Munmap, Library!Munmap, LP!MunmapFails,
         Library!MunmapFails, LP!Named, Library!Named, LP!Next, Library!Next, LP!PlainMap,
         Library!PlainMap, LP!PlainMapFails, Library!PlainMapFails, LP!PlainTail,
         Library!PlainTail, LP!Progress, Library!Progress, LP!Refuse, Library!Refuse,
         LP!Rejected, Library!Rejected, LP!ResizeInPlace, Library!ResizeInPlace,
         LP!RestoreErrno, Library!RestoreErrno, LP!Return, Library!Return, LP!Reuse,
         Library!Reuse, LP!Running, Library!Running, LP!SetErrno, Library!SetErrno,
         LP!Usable, Library!Usable, LP!extent_alloc, Library!extent_alloc, LP!extent_dalloc,
         Library!extent_dalloc, LP!getenv_jemalloc, Library!getenv_jemalloc,
         LP!getenv_mpol_mode, Library!getenv_mpol_mode, LP!getenv_nodemask,
         Library!getenv_nodemask, LP!haligned_alloc, Library!haligned_alloc, LP!hcalloc,
         Library!hcalloc, LP!hfree, Library!hfree, LP!hmalloc, Library!hmalloc,
         LP!hmalloc_init, Library!hmalloc_init, LP!hmmap, Library!hmmap, LP!hmunmap,
         Library!hmunmap, LP!hposix_memalign, Library!hposix_memalign, LP!hrealloc,
         Library!hrealloc, LP!update_env, Library!update_env, LP!MbindErrno,
         Library!MbindErrno, LP!MunmapErrno, Library!MunmapErrno, LP!extent_dalloc_fails,
         Library!extent_dalloc_fails, LP!hmunmap_fails, Library!hmunmap_fails

\* What is proved of libhmalloc holds of the library of the composition.
LEMMA LibraryAssumptions ==
    LP!HmallocAssumption /\ LP!WidthAssumption /\ LP!UnsetAssumption
<1>1. LP!HmallocAssumption
  BY HmctlPoolAssumption
  DEF LP!HmallocAssumption, Library!HmallocAssumption, LP!Environs, Library!Environs,
      LP!Request, Library!Request, LP!Allocs, Library!Allocs, LP!Modes, Library!Modes,
      LP!Texts, Library!Texts, LP!Errnos, Library!Errnos, LP!Policies, Library!Policies,
      LP!Masks, Library!Masks, LP!Bits, Library!Bits, LP!Conversions, Library!Conversions
<1>2. LP!WidthAssumption
  BY WidthAssumption DEF LP!WidthAssumption
<1>3. LP!UnsetAssumption
  BY UnsetAssumption
  DEF LP!UnsetAssumption, LP!Modes, LP!Texts, LP!Conversions, LP!Masks, LP!Bits,
      Modes, Texts, Conversions, Masks, Bits
<1>4. QED
  BY <1>1, <1>2, <1>3

LEMMA LibraryInit == Library!Init => LP!TypeOK /\ LP!IInv /\ ~lib.loaded
<1>1. LP!Init => LP!TypeOK /\ LP!IInv
  BY LibraryAssumptions, LP!InitTypeOK, LP!InitIInv
<1>2. LP!Init => ~lib.loaded
  BY DEF LP!Init
<1>3. QED
  BY <1>1, <1>2, SameInit

LEMMA LibraryNext ==
    ASSUME LP!TypeOK, LP!IInv, LP!ReadsEnv, Library!Next
    PROVE  LP!TypeOK' /\ LP!IInv' /\ LP!ReadsEnv' /\ env' = env
<1>1. [LP!Next]_(LP!vars)
  BY SameNext
<1>2. QED
  BY <1>1, LibraryAssumptions, LP!NextTypeOK, LP!NextIInv, LP!NextReadsEnv

\* The kernel can place memory on the nodes hmctl accepts: it implements every policy,
\* reads the bits of these nodes from a mask of MaxPossible bits, and mbind() does not
\* run out of memory.
KernelFits == /\ Online \subseteq 0 .. MaxPossible - 2
              /\ KernelModes = Modes
              /\ "mbind" \notin Failing

Default == [mode |-> "default", nodes |-> {}]

\* The library is loaded into a program hmctl has started, and into nothing else; what
\* is asked for is the default policy or one that names nodes.
StartedInv ==
    /\ phase # "running" => ~lib.loaded
    /\ phase \in {"exec", "running"} => env.jemalloc
    /\ wanted # NoWish => \/ wanted = Default
                         \/ /\ wanted.mode \in Modes \ {"default"}
                            /\ wanted.nodes # {} /\ wanted.nodes \subseteq Online

LibraryInv == LP!TypeOK /\ LP!IInv /\ LP!ReadsEnv

LEMMA AskedNamesNodes ==
    ASSUME NEW option \in Options, Valid(option)
    PROVE  /\ Asked(option).mode \in Modes \ {"default"}
           /\ Asked(option).nodes # {} /\ Asked(option).nodes \subseteq Online
<1>1. CASE option.key = "preferred"
  BY <1>1 DEF Valid, Asked, ModeOf, Modes
<1>2. CASE option.key # "preferred"
  <2>1. option.key \in ListKeys /\ option.arg \in (SUBSET Online) \ {{}}
    BY <1>2 DEF Options, Valid, Lists
  <2>2. QED
    BY <1>2, <2>1 DEF Asked, ModeOf, Modes, ListKeys
<1>3. QED
  BY <1>1, <1>2

LEMMA HmctlKeepsStarted ==
    ASSUME TypeOK, StartedInv, HmctlStep
    PROVE  StartedInv'
<1>1. lib' = lib
  BY DEF HmctlStep, libraryVars
<1>2. CASE SetupChildEnviron
  <2>1. /\ env' = ChildEnviron(env, opts) /\ wanted' = Wish(given, wanted)
        /\ phase = "environ" /\ phase' = "exec"
    BY <1>2 DEF SetupChildEnviron
  <2>2. env'.jemalloc
    <3>1. env \in Environs
      BY DEF TypeOK
    <3>2. CASE Winner(opts) = "none"
      BY <2>1, <3>1, <3>2 DEF ChildEnviron, Environs
    <3>3. CASE Winner(opts) # "none"
      BY <2>1, <3>3 DEF ChildEnviron
    <3>4. QED
      BY <3>2, <3>3
  <2>3. ASSUME wanted' # NoWish
        PROVE  \/ wanted' = Default
               \/ /\ wanted'.mode \in Modes \ {"default"}
                  /\ wanted'.nodes # {} /\ wanted'.nodes \subseteq Online
    <3>1. CASE given = {}
      BY <2>1, <2>3, <3>1 DEF Wish, StartedInv
    <3>2. CASE given # {}
      <4>1. PICK o \in given : given = {o} /\ Valid(o)
        BY <2>1, <2>3, <3>2 DEF Wish
      <4>2. (CHOOSE x \in given : TRUE) = o /\ o \in Options
        BY <4>1 DEF TypeOK
      <4>3. wanted' = Asked(o)
        BY <2>1, <3>2, <4>1, <4>2 DEF Wish
      <4>4. QED
        BY <4>1, <4>2, <4>3, AskedNamesNodes
    <3>3. QED
      BY <3>1, <3>2
  <2>4. ~lib.loaded
    BY <2>1 DEF StartedInv
  <2>5. QED
    BY <1>1, <2>1, <2>2, <2>3, <2>4 DEF StartedInv
<1>3. ASSUME env' = env, wanted' = wanted, phase # "running",
             phase' \in {"exec", "running"} => phase = "exec"
      PROVE  StartedInv'
  BY <1>1, <1>3 DEF StartedInv
<1>4. ASSUME NEW option \in Options, ParseOption(option)
      PROVE  StartedInv'
  <2>1. /\ env' = env /\ wanted' = wanted /\ phase = "parse"
        /\ phase' \notin {"exec", "running"}
    BY <1>4 DEF ParseOption
  <2>2. QED
    BY <1>3, <2>1
<1>5. CASE ParseCommand \/ NoCommand
  BY <1>3, <1>5 DEF ParseCommand, NoCommand
<1>6. CASE ExecProgram \/ ExecFails \/ ExecHmctl
  BY <1>3, <1>6 DEF ExecProgram, ExecFails, ExecHmctl
<1>7. QED
  BY <1>2, <1>4, <1>5, <1>6 DEF HmctlStep, Next

LEMMA ProgramKeepsStarted ==
    ASSUME StartedInv, LibraryInv, ProgramStep
    PROVE  StartedInv'
<1>1. env' = env
  BY LibraryNext DEF ProgramStep, LibraryInv
<1>2. QED
  BY <1>1 DEF StartedInv, ProgramStep, hmctlVars

LEMMA HmctlKeepsLibrary ==
    ASSUME TypeOK', StartedInv, LibraryInv, HmctlStep
    PROVE  LibraryInv'
<1>1. /\ UNCHANGED <<lib, vma, heap, held, mapped, errno, frame>>
      /\ phase # "running"
  BY DEF HmctlStep, libraryVars, Next, ParseOption, ParseCommand, NoCommand,
         SetupChildEnviron, ExecProgram, ExecFails, ExecHmctl
<1>2. LP!TypeOK'
  BY <1>1 DEF LibraryInv, LP!TypeOK, TypeOK, LP!Environs, Environs, LP!Modes, Modes,
              LP!Texts, Texts, LP!Conversions, Conversions, LP!Masks, Masks, LP!Bits, Bits
<1>3. LP!IInv'
  BY <1>1 DEF LibraryInv, LP!IInv, LP!LoadInv, LP!FrameInv, LP!FrameOK, LP!OwnerInv,
              LP!BlockInv, LP!BoundInv, LP!PoolIsBound, LP!InPool, LP!Hooked
<1>4. LP!ReadsEnv'
  BY <1>1 DEF StartedInv, LP!ReadsEnv
<1>5. QED
  BY <1>2, <1>3, <1>4 DEF LibraryInv

\* The library gives its pool the policy that was asked for, and mbind() takes it.
LEMMA PoolIsAsWanted ==
    ASSUME KernelFits, StartedInv, Delivered, LP!TypeOK, LP!ReadsEnv,
           lib.loaded, wanted # NoWish
    PROVE  LP!PoolPolicy(lib) = wanted /\ LP!Hooked
<1>1. /\ env.jemalloc /\ lib.use_jemalloc = env.jemalloc
      /\ lib.maxnode = MaxPossible
      /\ lib.arena_index = 1 \/ (lib.nodemask # {} /\ LP!MbindErrors(lib) # {})
  BY DEF StartedInv, LP!ReadsEnv
<1>2. lib.nodemask = wanted.nodes /\ lib.mpol_mode = wanted.mode
  <2>1. Loaded(env) = wanted
    BY DEF Delivered
  <2>2. /\ lib.mpol_mode = LP!getenv_mpol_mode(env)
        /\ lib.nodemask = LP!getenv_nodemask(env)
    BY DEF LP!ReadsEnv
  <2>3. /\ LP!getenv_mpol_mode(env) = getenv_mpol_mode(env)
        /\ LP!getenv_nodemask(env) = getenv_nodemask(env)
    BY DEF LP!getenv_mpol_mode, LP!getenv_nodemask, LP!Atol,
           getenv_mpol_mode, getenv_nodemask, Atol
  <2>4. QED
    BY <2>1, <2>2, <2>3 DEF Loaded
<1>3. CASE wanted = Default
  <2>1. lib.nodemask = {}
    BY <1>2, <1>3 DEF Default
  <2>2. QED
    BY <1>1, <1>3, <2>1 DEF LP!PoolPolicy, LP!DefaultPolicy, LP!Hooked, Default
<1>4. CASE /\ wanted.mode \in Modes \ {"default"}
           /\ wanted.nodes # {} /\ wanted.nodes \subseteq Online
  <2>1. Online \subseteq Nat /\ MaxPossible \in Nat
    BY HmctlAssumption, LibraryAssumptions DEF LP!HmallocAssumption
  <2>0. \A n \in wanted.nodes : n \in Nat /\ n < MaxPossible - 1 /\ MaxPossible # 0
    <3>1. \A n \in wanted.nodes : n \in 0 .. MaxPossible - 2
      BY <1>4 DEF KernelFits
    <3>2. QED
      BY <2>1, <3>1
  <2>2. LP!Named(lib) = wanted.nodes
    BY <1>1, <1>2, <2>0 DEF LP!Named, LP!KernelNodes
  <2>3. LP!Usable(lib) = wanted.nodes
    BY <1>4, <2>2 DEF LP!Usable
  <2>4. lib.maxnode # 0
    BY <1>1, <1>4, <2>0
  <2>5. LP!MbindErrors(lib) = {}
    BY <1>2, <1>4, <2>3, <2>4 DEF KernelFits, LP!MbindErrors, LP!Rejected
  <2>6. wanted = [mode |-> wanted.mode, nodes |-> wanted.nodes]
    <3>1. wanted = Loaded(env)
      BY DEF Delivered
    <3>2. QED
      BY <3>1 DEF Loaded
  <2>7. QED
    BY <1>1, <1>2, <1>4, <2>3, <2>5, <2>6 DEF LP!PoolPolicy, LP!Bound, LP!Hooked
<1>5. QED
  BY <1>3, <1>4 DEF StartedInv

\* hmctl(8), from the command line to the page tables: whatever hmctl commands exec'd one
\* another, every block and every mapping the program has from libhmalloc is under
\* exactly the policy that was asked for, on a machine whose nodes fit the integers and
\* whose kernel can place memory on them.
THEOREM TargetNodesAreMet ==
    ASSUME NodesFit, KernelFits
    PROVE  EndToEndSpec => []TargetNodes
<1> DEFINE Inv == TypeOK /\ DeliveryInv /\ StartedInv /\ LibraryInv
<1>1. EndToEndInit => Inv
  <2> SUFFICES ASSUME EndToEndInit PROVE Inv
    OBVIOUS
  <2>1. TypeOK /\ DeliveryInv
    BY InitTypeOK, InitDeliveryInv DEF EndToEndInit
  <2>2. LP!TypeOK /\ LP!IInv /\ ~lib.loaded
    BY LibraryInit DEF EndToEndInit
  <2>3. StartedInv
    BY <2>2, NothingLoaded DEF EndToEndInit, Init, StartedInv, Default
  <2>4. QED
    BY <2>1, <2>2, <2>3 DEF LibraryInv, LP!ReadsEnv
<1>2. Inv /\ [HmctlStep \/ ProgramStep]_<<vars, libraryVars>> => Inv'
  <2> SUFFICES ASSUME Inv, [HmctlStep \/ ProgramStep]_<<vars, libraryVars>> PROVE Inv'
    OBVIOUS
  <2>1. CASE HmctlStep
    <3>1. TypeOK' /\ DeliveryInv'
      BY <2>1, NextTypeOK, NextDeliveryInv DEF HmctlStep
    <3>2. QED
      BY <2>1, <3>1, HmctlKeepsStarted, HmctlKeepsLibrary
  <2>2. CASE ProgramStep
    <3>1. LibraryInv' /\ env' = env /\ UNCHANGED vars
      BY <2>2, LibraryNext DEF ProgramStep, LibraryInv, vars, hmctlVars
    <3>2. TypeOK' /\ DeliveryInv'
      BY <3>1, NextTypeOK, NextDeliveryInv
    <3>3. QED
      BY <2>2, <3>1, <3>2, ProgramKeepsStarted
  <2>3. CASE UNCHANGED <<vars, libraryVars>>
    <3>1. UNCHANGED vars /\ UNCHANGED <<lib, vma, heap, held, mapped, errno, frame>>
      BY <2>3 DEF libraryVars
    <3>2. TypeOK' /\ DeliveryInv'
      BY <3>1, NextTypeOK, NextDeliveryInv
    <3>3. StartedInv'
      BY <3>1 DEF vars, StartedInv
    <3>4. [LP!Next]_(LP!vars)
      BY <3>1 DEF vars, LP!vars
    <3>5. LibraryInv'
      BY <3>4, LibraryAssumptions, LP!NextTypeOK, LP!NextIInv, LP!NextReadsEnv DEF LibraryInv
    <3>6. QED
      BY <3>2, <3>3, <3>5
  <2>4. QED
    BY <2>1, <2>2, <2>3
<1>3. Inv => TargetNodes
  <2> SUFFICES ASSUME Inv, wanted # NoWish, NEW a \in held \cup mapped
               PROVE  vma[a] = wanted
    BY DEF TargetNodes
  <2>1. /\ held \subseteq Addr /\ mapped \subseteq Addr /\ LP!LoadInv /\ LP!BlockInv
        /\ LP!PoolIsBound
    BY DEF LibraryInv, LP!TypeOK, LP!IInv
  <2>2. a \in Addr /\ (a \in mapped \/ heap[a] # "none")
    BY <2>1 DEF LP!BlockInv
  <2>3. lib.loaded
    BY <2>1, <2>2 DEF LP!LoadInv
  <2>4. LP!PoolPolicy(lib) = wanted /\ LP!Hooked
    BY <2>3, PoolIsAsWanted DEF DeliveryInv, LibraryInv
  <2>5. QED
    BY <2>1, <2>2, <2>4 DEF LP!PoolIsBound, LP!InPool
<1>4. QED
  BY <1>1, <1>2, <1>3, PTL DEF EndToEndSpec
=============================================================================
