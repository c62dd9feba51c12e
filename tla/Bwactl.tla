------------------------------- MODULE Bwactl -------------------------------
(***************************************************************************)
(* bwactl.py with mlc.py and iw_ratio.py: MLC is installed, the bandwidths *)
(* are measured, halved into small weights one turn of the loop at a time, *)
(* and written to sysfs one file at a time.  bwactl.py can be interrupted  *)
(* at any step, and is then run again until it gets to measuring.          *)
(***************************************************************************)
EXTENDS Integers, FiniteSetsExt, SequencesExt

CONSTANTS
    NumNodes,    \* the nodes of the system
    possible,    \* those that have a CPU, in the order of has_cpu; Python runs on one
    Topologies,  \* the package of each node
    Matrices,    \* what MLC measures: a row of bandwidths for each node that has a CPU
    Unit,        \* bandwidths and weights are counted in 1/Unit while they are halved
    MaxRuns      \* bound: how often bwactl.py is started

NumaNodes == 0 .. NumNodes - 1
Nobody    == -1
SOFT_MAX_RATIO_VAL == 10
MaxWeight == 255   \* external: the largest number the kernel takes

ASSUME BwactlAssumption ==
    /\ NumNodes \in Nat /\ possible \in Seq(NumaNodes) /\ possible # << >>
    /\ Unit \in Nat \ {0}
    /\ \A c, q \in 1 .. Unit : c * q = Unit => c = 1 \/ c % 2 = 0   \* a power of two
    /\ MaxRuns \in Nat
    /\ \A t \in Topologies : DOMAIN t = NumaNodes
    /\ Matrices \subseteq [ToSet(possible) -> [NumaNodes -> 0 .. SOFT_MAX_RATIO_VAL * Unit]]

VARIABLES
    pc,
    runs,
    mlc_dir,      \* external: none, empty, cut or whole archive; part of mlc, mlc
    nodes,        \* generate_topology()
    matrix,       \* bandwidth_matrix
    ratio_matrix,
    k,            \* the node of possible that is looked at
    data,         \* get_iw_ratio(): what is left of its row
    left,         \* display_multi_ratio(): the nodes whose files are still to be written
    sysfs,        \* external: the weights of the kernel, 0 for its default
    writer        \* history: the node with whose row each weight was written

install == <<runs, mlc_dir>>
input   == <<nodes, matrix>>
loop    == <<ratio_matrix, k, data, left>>
kernel  == <<sysfs, writer>>
bwactl  == <<pc, install, input, loop, kernel>>

Goto(label) == pc' = label

-----------------------------------------------------------------------------
(* MLC.__init__(). *)
Installed == mlc_dir \in {"part", "mlc"}
Ended     == {"done", "error", "killed"}

Begin ==
    /\ pc \in {"idle", "error", "killed"} /\ k = 0 /\ runs < MaxRuns
    /\ runs' = runs + 1
    /\ Goto(IF Installed THEN "measure" ELSE IF mlc_dir = "none" THEN "mkdir" ELSE "rmtree")
    /\ UNCHANGED <<mlc_dir, input, loop, kernel>>

\* Mutant: what an earlier run left is used.
KeepTree ==
    /\ pc = "rmtree"
    /\ Goto("wget")
    /\ UNCHANGED <<install, input, loop, kernel>>

RemoveTree ==
    /\ pc = "rmtree"
    /\ mlc_dir' = "none"
    /\ Goto("mkdir")
    /\ UNCHANGED <<runs, input, loop, kernel>>

MakeDirectory ==
    /\ pc = "mkdir"
    /\ mlc_dir' = "empty"
    /\ Goto("wget")
    /\ UNCHANGED <<runs, input, loop, kernel>>

\* wget leaves a file of that name alone and downloads to another one.
Download ==
    /\ pc = "wget"
    /\ mlc_dir' = IF mlc_dir = "empty" THEN "archive" ELSE mlc_dir
    /\ Goto("tar")
    /\ UNCHANGED <<runs, input, loop, kernel>>

DownloadFails ==
    /\ pc = "wget"
    /\ mlc_dir' \in {mlc_dir, "cut"}
    /\ Goto("error")
    /\ UNCHANGED <<runs, input, loop, kernel>>

\* Whether tar has succeeded is not looked at.
Unpack ==
    /\ pc = "tar"
    /\ mlc_dir' \in {mlc_dir, "part", "mlc"}
    /\ Goto("measure")
    /\ UNCHANGED <<runs, input, loop, kernel>>

\* SIGINT reaches wget and tar as well.
Interrupted ==
    /\ pc \notin Ended \cup {"idle"}
    /\ mlc_dir' \in CASE pc = "wget" -> {mlc_dir, "cut"}
                      [] pc = "tar"  -> {mlc_dir, "part", "mlc"}
                      [] OTHER       -> {mlc_dir}
    /\ Goto("killed")
    /\ UNCHANGED <<runs, input, loop, kernel>>

-----------------------------------------------------------------------------
\* Without a working mlc there is no output, and parse_bandwidth_matrix() runs off its
\* end.
NoOutput ==
    /\ pc = "measure" /\ mlc_dir # "mlc"
    /\ Goto("error")
    /\ UNCHANGED <<install, input, loop, kernel>>

Row(m, n) == [i \in NumaNodes |-> m[possible[n]][i] * Unit]

\* The output is that of mlc, or that of --mlc-file.
Measure ==
    /\ pc = "measure"
    /\ matrix' \in Matrices /\ nodes' \in Topologies
    /\ k' = 1
    /\ data' = Row(matrix', 1)
    /\ Goto("halve")
    /\ UNCHANGED <<install, ratio_matrix, left, kernel>>

-----------------------------------------------------------------------------
(* get_iw_ratio(). *)
Package(n) == {i \in NumaNodes : nodes[i] = nodes[n]}
Here       == Package(possible[k])

\* Mutant: each row is written for all nodes.
FilesOfAll(n) == NumaNodes

\* The nodes whose files the row of node n is written to.
Files(n) == Package(n)

\* External: math.gcd(), the greatest number that divides both, or 0 for two zeros.
gcd[p \in Nat \X Nat] ==
    IF p[1] + p[2] = 0 THEN 0
    ELSE Max({d \in 1 .. p[1] + p[2] : p[1] % d = 0 /\ p[2] % d = 0})

list_gcd(row) == FoldFunction(LAMBDA a, b : gcd[<<a, b>>], 0, row)

\* round() to the even neighbour in the middle.
Round(v) ==
    LET q == v \div Unit  twice == 2 * (v % Unit)
    IN  IF twice > Unit \/ (twice = Unit /\ q % 2 = 1) THEN q + 1 ELSE q

Reduced(row) ==
    LET g == list_gcd(row) IN [i \in DOMAIN row |-> IF g = 0 THEN 0 ELSE row[i] \div g]

\* Mutant: new_data starts as a copy of data.
HalvedInPlace == [i \in NumaNodes |-> IF i \in Here THEN data[i] \div 2 ELSE data[i]]

\* new_data: a node of another package is zero from the first turn on.
Halved == [i \in NumaNodes |-> IF i \in Here THEN data[i] \div 2 ELSE 0]

\* Mutant: the loop goes on until the largest value is small.
NeverTooSmall == FALSE

TooSmall == \E i \in Here : Halved[i] # 0 /\ Halved[i] <= Unit

SmallEnough == Max(Range(data)) <= SOFT_MAX_RATIO_VAL * Unit

Halve ==
    /\ pc = "halve" /\ ~SmallEnough /\ ~TooSmall
    /\ data' = Halved
    /\ UNCHANGED <<pc, install, input, ratio_matrix, k, left, kernel>>

\* Mutant: the row has only the nodes of the package.
RoundedHere == [i \in Here |-> Round(data[i])]

Rounded == [i \in NumaNodes |-> Round(data[i])]

\* The row is done; after the last one the files are written.
Ratio ==
    /\ pc = "halve" /\ (SmallEnough \/ TooSmall)
    /\ ratio_matrix' = Append(ratio_matrix, Reduced(Rounded))
    /\ IF k < Len(possible)
       THEN k' = k + 1 /\ data' = Row(matrix, k + 1) /\ UNCHANGED <<pc, left>>
       ELSE k' = 1 /\ left' = Files(possible[1]) /\ Goto("write") /\ UNCHANGED data
    /\ UNCHANGED <<install, input, kernel>>

-----------------------------------------------------------------------------
(* display_multi_ratio(). *)
Weights == Reduced([i \in Files(possible[k]) |-> ratio_matrix[k][i]])

File == Min(left)

Accepted == Weights[File] \in 1 .. MaxWeight

WriteWeight ==
    /\ pc = "write" /\ left # {} /\ Accepted
    /\ sysfs' = [sysfs EXCEPT ![File] = Weights[File]]
    /\ writer' = [writer EXCEPT ![File] = possible[k]]
    /\ left' = left \ {File}
    /\ UNCHANGED <<pc, install, input, ratio_matrix, k, data>>

\* A zero ends bwactl.py, and so does a number the kernel does not take.
WriteFails ==
    /\ pc = "write" /\ left # {} /\ ~Accepted
    /\ Goto("error")
    /\ UNCHANGED <<install, input, loop, kernel>>

NextRow ==
    /\ pc = "write" /\ left = {}
    /\ IF k < Len(possible)
       THEN k' = k + 1 /\ left' = Files(possible[k + 1]) /\ UNCHANGED pc
       ELSE Goto("done") /\ UNCHANGED <<k, left>>
    /\ UNCHANGED <<install, input, ratio_matrix, data, kernel>>

-----------------------------------------------------------------------------
BwactlInit ==
    /\ pc = "idle" /\ runs = 0 /\ mlc_dir = "none"
    /\ nodes = << >> /\ matrix = << >>
    /\ ratio_matrix = << >> /\ k = 0 /\ data = << >> /\ left = {}
    /\ sysfs = [i \in NumaNodes |-> 0]
    /\ writer = [i \in NumaNodes |-> Nobody]

Install == RemoveTree \/ MakeDirectory \/ Download \/ DownloadFails \/ Unpack
Tune    == NoOutput \/ Measure \/ Halve \/ Ratio \/ WriteWeight \/ WriteFails \/ NextRow

BwactlNext == Begin \/ Install \/ Tune \/ Interrupted

BwactlSpec == BwactlInit /\ [][BwactlNext]_bwactl

-----------------------------------------------------------------------------
BwactlTypeOK ==
    /\ pc \in Ended \cup {"idle", "rmtree", "mkdir", "wget", "tar", "measure", "halve", "write"}
    /\ runs \in 0 .. MaxRuns
    /\ mlc_dir \in {"none", "empty", "cut", "archive", "part", "mlc"}
    /\ k \in 0 .. Len(possible)
    /\ ratio_matrix \in Seq([NumaNodes -> Nat])
    /\ left \subseteq NumaNodes
    /\ sysfs \in [NumaNodes -> 0 .. MaxWeight]
    /\ writer \in [NumaNodes -> ToSet(possible) \cup {Nobody}]

\* Whatever earlier runs have left behind, tar is given an archive that has been
\* downloaded to its end.
UnpacksWholeArchive == pc = "tar" => mlc_dir = "archive"

\* The weights of a package come from one and the same row, that of a CPU node of the
\* package, except while they are being written or when writing has stopped half way;
\* and in the end no package that has a CPU is left out.
PackageOfOneRow ==
    /\ pc = "done" => \A c \in ToSet(possible) : writer[c] # Nobody
    /\ k # 0 => \A c \in ToSet(possible) :
          \/ nodes[c] = nodes[possible[k]] /\ pc # "done"
          \/ \E w \in ToSet(possible) \cup {Nobody} :
                /\ w = Nobody \/ nodes[w] = nodes[c]
                /\ \A i \in NumaNodes : nodes[i] = nodes[c] => writer[i] = w

\* The weight of a node is zero only if its bandwidth is; the weights of a package are
\* in the order of the bandwidths and no two of them more than twice out of proportion,
\* although each of them has been halved, rounded and reduced twice.
WeightsKeepProportion ==
    pc = "write" =>
        LET bw == matrix[possible[k]]
        IN  \A i, j \in Here :
               /\ bw[i] > 0 <=> Weights[i] > 0
               /\ bw[i] <= bw[j] => Weights[i] <= Weights[j]
               /\ Weights[i] * bw[j] <= 2 * Weights[j] * bw[i]

\* A run of bwactl.py comes to an end, also for rows of zeros and when only another
\* package has large bandwidths.
BwactlEnds == pc \notin Ended \cup {"idle"} ~> pc \in Ended
=============================================================================
