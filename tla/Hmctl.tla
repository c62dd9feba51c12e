-------------------------------- MODULE Hmctl --------------------------------
(***************************************************************************)
(* hmctl: parse the policy options, write the HMALLOC_* variables into the *)
(* environment and exec the command.  The command may be hmctl again, and  *)
(* what the outer hmctl wrote is then what the inner one inherits.         *)
(***************************************************************************)
EXTENDS HmallocEnv, FiniteSets

CONSTANTS Online,         \* the nodes numa_parse_nodestring() accepts
          PreferredArgs,  \* what atoi() makes of the arguments of -p
          MaxOptions,     \* bound: options on one command line
          MaxNesting,     \* bound: hmctl commands that exec one another
          NoArg,          \* an option that is not given: NULL
          BadNodes,       \* a node list numa_parse_nodestring() rejects
          NoWish          \* history: no single valid policy was asked for

ASSUME HmctlAssumption ==
    /\ Online \subseteq Nat
    /\ PreferredArgs \subseteq Int
    /\ MaxOptions \in Nat
    /\ MaxNesting \in Nat
    /\ NoArg # BadNodes
    /\ \A nodes \in SUBSET Online : NoArg # nodes /\ BadNodes # nodes

VARIABLES phase,    \* where the process is
          opts,     \* struct opts
          env,      \* the HMALLOC_* environment variables
          given,    \* history: the policy options of this command line
          wanted,   \* history: the policy the command lines ask for
          nesting   \* how many hmctl have exec'd already

vars == <<phase, opts, env, given, wanted, nesting>>

-----------------------------------------------------------------------------
\* What numa_parse_nodestring() makes of a list; the empty list is accepted.
Lists     == (SUBSET Online) \cup {BadNodes}
ListKeys  == {"membind", "preferred_many", "interleave", "weighted_interleave"}

Policies == [mode : Modes, nodes : SUBSET (Online \cup Bits)]
Options  == [key : ListKeys, arg : Lists] \cup [key : {"preferred"}, arg : PreferredArgs]
Opts     == [list : [ListKeys -> Lists \cup {NoArg}], preferred : PreferredArgs \cup {-1}]

NoOpts == [list |-> [k \in ListKeys |-> NoArg], preferred |-> -1]

-----------------------------------------------------------------------------
\* The tests of setup_child_environ() on struct opts.
Given(o, key) == IF key = "preferred" THEN o.preferred >= 0 ELSE o.list[key] # NoArg

\* parse_option() for one policy option: the field it stores ...
Store(o, option) ==
    IF option.key = "preferred"
    THEN [o EXCEPT !.preferred = option.arg]
    ELSE [o EXCEPT !.list[option.key] = option.arg]

\* Mutant: -p does not look for a -m before it.
ConflictOnMembindOnly(o, option) ==
    \/ option.key = "membind" /\ o.preferred > 0
    \/ option.key = "preferred_many" /\ Given(o, "membind")

\* ... and whether it then finds a conflict.  -i and -w check nothing.
Conflict(o, option) ==
    \/ option.key = "membind" /\ o.preferred > 0
    \/ option.key \in {"preferred", "preferred_many"} /\ Given(o, "membind")

\* The branch setup_child_environ() takes: the first policy of its else-ifs.
Winner(o) ==
    IF Given(o, "membind") THEN "membind"
    ELSE IF Given(o, "preferred_many") THEN "preferred_many"
    ELSE IF Given(o, "preferred") THEN "preferred"
    ELSE IF Given(o, "weighted_interleave") THEN "weighted_interleave"
    ELSE IF Given(o, "interleave") THEN "interleave"
    ELSE "none"

ModeOf(key) == IF key = "membind" THEN "bind" ELSE key

\* Mutant: the node itself is written where its mask belongs.
MaskOfNodeNumber(o, key, inherited) ==
    IF key = "preferred"
    THEN [conv |-> "%ld", mask |-> {b \in Bits : (o.preferred \div 2^b) % 2 = 1}]
    ELSE IF o.list[key] = BadNodes
    THEN inherited
    ELSE [conv |-> "%lu", mask |-> FirstWord(o.list[key])]

\* Mutant: the first word is printed as an int.
MaskOfInt(o, key, inherited) ==
    IF key = "preferred"
    THEN [conv |-> "%ld", mask |-> ShiftOne(o.preferred)]
    ELSE IF o.list[key] = BadNodes
    THEN inherited
    ELSE [conv |-> "%d", mask |-> FirstWord(o.list[key])]

\* A node list that does not parse leaves the mask as it was inherited.
MaskOf(o, key, inherited) ==
    IF key = "preferred"
    THEN [conv |-> "%ld", mask |-> ShiftOne(o.preferred)]
    ELSE IF o.list[key] = BadNodes
    THEN inherited
    ELSE [conv |-> "%lu", mask |-> FirstWord(o.list[key])]

\* setup_child_environ(): the environment the command is started with.
ChildEnviron(e, o) ==
    LET key == Winner(o)
    IN  IF key = "none"
        THEN [e EXCEPT !.jemalloc = TRUE]
        ELSE [jemalloc |-> TRUE, mode |-> ModeOf(key), mask |-> MaskOf(o, key, e.mask)]

-----------------------------------------------------------------------------
\* The policy one command line asks for, as hmctl(8) describes its options: the
\* one policy option given with a valid argument, or, with no policy option, the
\* policy already in force.  Anything else asks for nothing definite.
Valid(option) == IF option.key = "preferred"
                 THEN option.arg \in Online
                 ELSE option.arg \notin {BadNodes, {}}

Asked(option) == [mode  |-> ModeOf(option.key),
                  nodes |-> IF option.key = "preferred" THEN {option.arg} ELSE option.arg]

Wish(options, inForce) ==
    IF options = {} THEN inForce
    ELSE IF \E o \in options : options = {o} /\ Valid(o)
    THEN Asked(CHOOSE o \in options : TRUE)
    ELSE NoWish
-----------------------------------------------------------------------------
TypeOK ==
    /\ phase \in {"parse", "environ", "exec", "running", "help", "usage", "failed"}
    /\ opts \in Opts
    /\ env \in Environs
    /\ given \subseteq Options
    /\ wanted \in Policies \cup {NoWish}
    /\ nesting \in Nat

Init ==
    /\ phase = "parse"
    /\ opts = NoOpts
    /\ env = NoEnviron
    /\ given = {}
    /\ wanted = Loaded(NoEnviron)
    /\ nesting = 0

\* One policy option of the command line.  A conflict prints the help and exits.
ParseOption(option) ==
    /\ phase = "parse"
    /\ Cardinality(given) < MaxOptions
    /\ opts' = Store(opts, option)
    /\ given' = given \cup {option}
    /\ phase' = IF Conflict(opts, option) THEN "help" ELSE "parse"
    /\ UNCHANGED <<env, wanted, nesting>>

\* The first argument that is no option is the command: ARGP_KEY_ARGS.
ParseCommand ==
    /\ phase = "parse"
    /\ phase' = "environ"
    /\ UNCHANGED <<opts, env, given, wanted, nesting>>

\* No command: ARGP_KEY_NO_ARGS prints the usage and exits.
NoCommand ==
    /\ phase = "parse"
    /\ phase' = "usage"
    /\ UNCHANGED <<opts, env, given, wanted, nesting>>

SetupChildEnviron ==
    /\ phase = "environ"
    /\ phase' = "exec"
    /\ env' = ChildEnviron(env, opts)
    /\ wanted' = Wish(given, wanted)
    /\ UNCHANGED <<opts, given, nesting>>

\* execv() of a program that uses libhmalloc, or of nothing it can find.
ExecProgram ==
    /\ phase = "exec"
    /\ phase' = "running"
    /\ UNCHANGED <<opts, env, given, wanted, nesting>>

ExecFails ==
    /\ phase = "exec"
    /\ phase' = "failed"
    /\ UNCHANGED <<opts, env, given, wanted, nesting>>

\* execv() of hmctl again: main() starts over with the environment just written.
ExecHmctl ==
    /\ phase = "exec"
    /\ nesting < MaxNesting
    /\ phase' = "parse"
    /\ opts' = NoOpts
    /\ given' = {}
    /\ nesting' = nesting + 1
    /\ UNCHANGED <<env, wanted>>

Next ==
    \/ \E option \in Options : ParseOption(option)
    \/ ParseCommand
    \/ NoCommand
    \/ SetupChildEnviron
    \/ ExecProgram
    \/ ExecFails
    \/ ExecHmctl

Spec == Init /\ [][Next]_vars

-----------------------------------------------------------------------------
\* The program runs under the policy the command lines ask for, whatever hmctl
\* commands exec'd one another before it: setup_child_environ() on one side and
\* the getenv_*() readers of libhmalloc on the other.
PolicyDelivered ==
    phase = "running" /\ wanted # NoWish => Loaded(env) = wanted

\* A command line that gives -m and a -p with a node above 0 never gets as far as
\* the environment: parse_option() sees the conflict in either order.
ConflictStops ==
    phase \in {"environ", "exec", "running"} =>
        ~(opts.preferred > 0 /\ Given(opts, "membind"))
=============================================================================
