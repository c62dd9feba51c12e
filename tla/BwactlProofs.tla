---------------------------- MODULE BwactlProofs ----------------------------
(***************************************************************************)
(* Proofs about bwactl.py and mlc.py, for any nodes, packages and          *)
(* bandwidths, and any number of interrupted runs.                         *)
(***************************************************************************)
EXTENDS Bwactl, FiniteSetTheorems, WellFoundedInduction, TLAPS

-----------------------------------------------------------------------------
(* What wget and tar find. *)

\* mlc.py gets to wget only from the directory it has just made.
InstallInv ==
    /\ pc = "wget" => mlc_dir = "empty"
    /\ pc = "tar" => mlc_dir = "archive"

LEMMA InstallInit == BwactlInit => InstallInv
  BY DEF BwactlInit, InstallInv

LEMMA InstallNext == InstallInv /\ [BwactlNext]_bwactl => InstallInv'
<1> SUFFICES ASSUME InstallInv, [BwactlNext]_bwactl
             PROVE  InstallInv'
  OBVIOUS
<1> USE DEF InstallInv
<1>1. CASE Begin
  BY <1>1 DEF Begin, Goto
<1>2. CASE RemoveTree \/ MakeDirectory \/ DownloadFails \/ Unpack
  BY <1>2 DEF RemoveTree, MakeDirectory, DownloadFails, Unpack, Goto
<1>3. CASE Download
  BY <1>3 DEF Download, Goto
<1>4. CASE Interrupted
  BY <1>4 DEF Interrupted, Goto
<1>5. CASE NoOutput \/ Measure \/ WriteFails
  BY <1>5 DEF NoOutput, Measure, WriteFails, Goto, install
<1>6. CASE Halve \/ Ratio \/ WriteWeight \/ NextRow
  BY <1>6 DEF Halve, Ratio, WriteWeight, NextRow, Goto, install
<1>7. CASE UNCHANGED bwactl
  BY <1>7 DEF bwactl, install
<1>8. QED
  BY <1>1, <1>2, <1>3, <1>4, <1>5, <1>6, <1>7 DEF BwactlNext, Install, Tune

\* Whatever earlier runs of bwactl.py were interrupted in, tar is given an archive that
\* wget has finished.
THEOREM UnpacksAnArchive == BwactlSpec => []UnpacksWholeArchive
<1>1. InstallInv => UnpacksWholeArchive
  BY DEF InstallInv, UnpacksWholeArchive
<1>2. QED
  BY <1>1, InstallInit, InstallNext, PTL DEF BwactlSpec

-----------------------------------------------------------------------------
(* The weights of a package. *)

\* The package of c has weights of one row, that of a CPU node of the package, or none.
Uniform(c) ==
    \E w \in ToSet(possible) \cup {Nobody} :
        /\ w = Nobody \/ nodes[w] = nodes[c]
        /\ \A i \in NumaNodes : nodes[i] = nodes[c] => writer[i] = w

Untouched == \A i \in NumaNodes : writer[i] = Nobody

\* Before the first row there is nothing to be interrupted.
EarlyInv ==
    k = 0 =>
        /\ pc \in {"idle", "error", "killed", "rmtree", "mkdir", "wget", "tar", "measure"}
        /\ Untouched

LateInv ==
    k # 0 =>
        /\ pc \in {"halve", "write", "done", "error", "killed"}
        /\ k \in 1 .. Len(possible)
        /\ DOMAIN nodes = NumaNodes

HalveInv == pc = "halve" => Untouched

\* While row k is written, the files that have been taken from left have the weights of
\* row k, and every row before it has been written.
WriteInv ==
    pc = "write" =>
        /\ left \subseteq Package(possible[k])
        /\ \A i \in Package(possible[k]) \ left : writer[i] = possible[k]
        /\ \A j \in 1 .. k - 1 : writer[possible[j]] # Nobody

DoneInv == pc = "done" => \A c \in ToSet(possible) : writer[c] # Nobody

\* No package but that of row k is ever found with weights of several rows.
OthersInv ==
    k # 0 => \A c \in ToSet(possible) :
                 (nodes[c] = nodes[possible[k]] /\ pc # "done") \/ Uniform(c)

RowInv ==
    /\ writer \in [NumaNodes -> ToSet(possible) \cup {Nobody}]
    /\ EarlyInv /\ LateInv /\ HalveInv /\ WriteInv /\ DoneInv /\ OthersInv

LEMMA PossibleFacts ==
    /\ Len(possible) \in Nat /\ Len(possible) > 0
    /\ \A n \in 1 .. Len(possible) :
          possible[n] \in NumaNodes /\ possible[n] \in ToSet(possible)
    /\ \A c \in ToSet(possible) : \E n \in 1 .. Len(possible) : c = possible[n]
    /\ ToSet(possible) \subseteq NumaNodes
    /\ NumaNodes \subseteq Nat /\ Nobody \notin NumaNodes
<1>1. possible \in Seq(NumaNodes) /\ possible # << >> /\ NumNodes \in Nat
  BY BwactlAssumption
<1>2. Len(possible) \in Nat /\ Len(possible) > 0
  BY <1>1
<1>3. \A n \in 1 .. Len(possible) : possible[n] \in NumaNodes
  BY <1>1
<1>4. DOMAIN possible = 1 .. Len(possible)
  BY <1>1
<1>5. QED
  BY <1>1, <1>2, <1>3, <1>4 DEF ToSet, NumaNodes, Nobody

LEMMA LeastExists ==
    ASSUME NEW T \in SUBSET Nat, T # {}
    PROVE  \E x \in T : \A y \in T : x <= y
<1>1. \E x \in T : \A y \in T : ~(<<y, x>> \in OpToRel(<, Nat))
  BY NatLessThanWellFounded, WFMin
<1>2. PICK x \in T : \A y \in T : ~(<<y, x>> \in OpToRel(<, Nat))
  BY <1>1
<1>3. \A y \in T : ~(y < x)
  BY <1>2, Zenon DEF OpToRel
<1>4. \A y \in T : x <= y
  BY <1>3
<1>5. QED
  BY <1>4

\* The file that is written next is one of those that are left.
LEMMA FileIsLeft ==
    ASSUME left \subseteq NumaNodes, left # {}
    PROVE  File \in left
<1>1. left \in SUBSET Nat
  BY PossibleFacts
<1>2. PICK x \in left : \A y \in left : x <= y
  BY <1>1, LeastExists
<1>3. QED
  BY <1>2 DEF File, Min

\* Without a weight written, every package is uniform.
LEMMA UntouchedIsUniform ==
    ASSUME Untouched
    PROVE  \A c \in ToSet(possible) : Uniform(c)
  BY DEF Untouched, Uniform

LEMMA RowInit == BwactlInit => RowInv
  BY DEF BwactlInit, RowInv, EarlyInv, LateInv, HalveInv, WriteInv, DoneInv, OthersInv,
         Untouched

\* A step that leaves the nodes, the row and the weights alone and goes to the same place
\* or stops keeps RowInv.
LEMMA StopsOrStays ==
    ASSUME RowInv, UNCHANGED <<k, nodes, writer, left>>,
           \/ pc' = pc
           \/ pc' \in {"error", "killed"} /\ pc # "done"
    PROVE  RowInv'
<1>1. \A c \in ToSet(possible) : Uniform(c) => Uniform(c)'
  BY DEF Uniform
<1>2. OthersInv'
  BY <1>1 DEF RowInv, OthersInv
<1>3. WriteInv'
  BY DEF RowInv, WriteInv, Package
<1>4. QED
  BY <1>2, <1>3 DEF RowInv, EarlyInv, LateInv, HalveInv, DoneInv, Untouched

LEMMA RowNext == RowInv /\ [BwactlNext]_bwactl => RowInv'
<1> SUFFICES ASSUME RowInv, [BwactlNext]_bwactl
             PROVE  RowInv'
  OBVIOUS
<1>1. CASE Begin \/ Install
  <2>1. k = 0 /\ k' = 0 /\ writer' = writer
    BY <1>1 DEF Begin, Install, RemoveTree, MakeDirectory, Download, DownloadFails,
                Unpack, loop, kernel, RowInv, LateInv
  <2>2. pc' \in {"error", "rmtree", "mkdir", "wget", "tar", "measure"}
    BY <1>1 DEF Begin, Install, RemoveTree, MakeDirectory, Download, DownloadFails,
                Unpack, Goto
  <2>3. QED
    BY <2>1, <2>2 DEF RowInv, EarlyInv, LateInv, HalveInv, WriteInv, DoneInv, OthersInv,
                      Untouched
<1>2. CASE Interrupted \/ NoOutput \/ WriteFails
  <2>1. UNCHANGED <<k, nodes, writer, left>>
    BY <1>2 DEF Interrupted, NoOutput, WriteFails, loop, kernel, input
  <2>2. pc' \in {"error", "killed"} /\ pc # "done"
    BY <1>2 DEF Interrupted, NoOutput, WriteFails, Goto, Ended
  <2>3. QED
    BY <2>1, <2>2, StopsOrStays
<1>3. CASE Halve \/ UNCHANGED bwactl
  <2>1. UNCHANGED <<pc, k, nodes, writer, left>>
    BY <1>3 DEF Halve, bwactl, input, loop, kernel
  <2>2. QED
    BY <2>1, StopsOrStays
<1>4. CASE Measure
  <2>1. k = 0 /\ k' = 1 /\ writer' = writer /\ pc' = "halve"
    BY <1>4 DEF Measure, Goto, kernel, RowInv, LateInv
  <2>2. DOMAIN nodes' = NumaNodes
    BY <1>4, BwactlAssumption DEF Measure
  <2>3. Untouched'
    BY <2>1 DEF RowInv, EarlyInv, Untouched
  <2>4. \A c \in ToSet(possible) : Uniform(c)'
    BY <2>3 DEF Untouched, Uniform
  <2>5. QED
    BY <2>1, <2>2, <2>3, <2>4, PossibleFacts
       DEF RowInv, EarlyInv, LateInv, HalveInv, WriteInv, DoneInv, OthersInv
<1>5. CASE Ratio
  <2>1. pc = "halve" /\ writer' = writer /\ nodes' = nodes
    BY <1>5 DEF Ratio, input, kernel
  <2>2. k \in 1 .. Len(possible) /\ k' \in 1 .. Len(possible)
    BY <1>5, PossibleFacts DEF Ratio, RowInv, LateInv, EarlyInv
  <2>3. Untouched /\ Untouched'
    BY <2>1 DEF RowInv, HalveInv, Untouched
  <2>4. \A c \in ToSet(possible) : Uniform(c)'
    BY <2>3 DEF Untouched, Uniform
  <2>5. \/ pc' = "halve"
        \/ pc' = "write" /\ k' = 1 /\ left' = Package(possible[1])'
    BY <1>5, <2>1 DEF Ratio, Goto, Files, Package
  <2>6. QED
    BY <2>1, <2>2, <2>3, <2>4, <2>5
       DEF RowInv, EarlyInv, LateInv, HalveInv, WriteInv, DoneInv, OthersInv
<1>6. CASE WriteWeight
  <2>1. /\ pc = "write" /\ pc' = pc /\ k' = k /\ nodes' = nodes
        /\ left # {} /\ left' = left \ {File}
        /\ writer' = [writer EXCEPT ![File] = possible[k]]
    BY <1>6 DEF WriteWeight, input
  <2>2. k \in 1 .. Len(possible) /\ DOMAIN nodes = NumaNodes
    BY <2>1, PossibleFacts DEF RowInv, LateInv, EarlyInv
  <2>3. left \subseteq Package(possible[k])
    BY <2>1 DEF RowInv, WriteInv
  <2>4. File \in left /\ File \in NumaNodes /\ nodes[File] = nodes[possible[k]]
    BY <2>1, <2>3, FileIsLeft DEF Package
  <2>5. PICK here : here = possible[k] /\ here \in ToSet(possible)
    BY <2>2, PossibleFacts
  <2>6. PICK file : file = File
    OBVIOUS
  <2>7. /\ writer' \in [NumaNodes -> ToSet(possible) \cup {Nobody}]
        /\ writer'[file] = here
        /\ \A i \in NumaNodes \ {file} : writer'[i] = writer[i]
    BY <2>1, <2>4, <2>5, <2>6 DEF RowInv
  <2>8. here # Nobody
    BY <2>5, PossibleFacts
  <2>9. ASSUME NEW c \in ToSet(possible), nodes[c] # nodes[here], Uniform(c)
        PROVE  Uniform(c)'
    <3>1. PICK w \in ToSet(possible) \cup {Nobody} :
              /\ w = Nobody \/ nodes[w] = nodes[c]
              /\ \A i \in NumaNodes : nodes[i] = nodes[c] => writer[i] = w
      BY <2>9 DEF Uniform
    <3>2. \A i \in NumaNodes : nodes[i] = nodes[c] => i # file
      BY <2>4, <2>5, <2>6, <2>9
    <3>3. \A i \in NumaNodes : nodes[i] = nodes[c] => writer'[i] = w
      BY <3>1, <3>2, <2>7
    <3>4. QED
      BY <3>1, <3>3, <2>1 DEF Uniform
  <2>10. OthersInv'
    BY <2>1, <2>2, <2>5, <2>9 DEF RowInv, OthersInv
  <2>11. \A j \in 1 .. k - 1 : writer'[possible[j]] # Nobody
    <3>1. \A j \in 1 .. k - 1 : possible[j] \in NumaNodes /\ writer[possible[j]] # Nobody
      BY <2>1, <2>2, PossibleFacts DEF RowInv, WriteInv
    <3>2. QED
      BY <3>1, <2>7, <2>8
  <2>12. /\ left' \subseteq Package(possible[k])'
         /\ \A i \in Package(possible[k])' \ left' : writer'[i] = here
    <3>1. Package(possible[k])' = Package(possible[k])
      BY <2>1 DEF Package
    <3>2. \A i \in Package(possible[k]) \ left : writer[i] = here
      BY <2>1, <2>5 DEF RowInv, WriteInv
    <3>3. Package(possible[k]) \subseteq NumaNodes
      BY DEF Package
    <3>4. QED
      BY <3>1, <3>2, <3>3, <2>1, <2>3, <2>6, <2>7
  <2>13. WriteInv'
    BY <2>1, <2>5, <2>11, <2>12 DEF WriteInv
  <2>14. QED
    BY <2>1, <2>2, <2>7, <2>10, <2>13, PossibleFacts
       DEF RowInv, EarlyInv, LateInv, HalveInv, DoneInv
<1>7. CASE NextRow
  <2>1. pc = "write" /\ left = {} /\ writer' = writer /\ nodes' = nodes
    BY <1>7 DEF NextRow, input, kernel
  <2>2. k \in 1 .. Len(possible) /\ DOMAIN nodes = NumaNodes
    BY <2>1, PossibleFacts DEF RowInv, LateInv, EarlyInv
  <2>3. PICK here : here = possible[k] /\ here \in ToSet(possible) /\ here \in NumaNodes
    BY <2>2, PossibleFacts
  <2>4. \A i \in NumaNodes : nodes[i] = nodes[here] => writer[i] = here
    BY <2>1, <2>3 DEF RowInv, WriteInv, Package
  <2>5. \A c \in ToSet(possible) : Uniform(c)
    BY <2>2, <2>3, <2>4 DEF RowInv, OthersInv, Uniform
  <2>6. \A c \in ToSet(possible) : Uniform(c)'
    BY <2>1, <2>5 DEF Uniform
  <2>7. \A j \in 1 .. k : writer[possible[j]] # Nobody
    <3>1. \A j \in 1 .. k - 1 : writer[possible[j]] # Nobody
      BY <2>1 DEF RowInv, WriteInv
    <3>2. writer[possible[k]] # Nobody
      BY <2>3, <2>4, PossibleFacts
    <3>3. \A j \in 1 .. k : j = k \/ j \in 1 .. k - 1
      BY <2>2
    <3>4. QED
      BY <3>1, <3>2, <3>3
  <2>8. CASE k < Len(possible)
    <3>1. /\ k' = k + 1 /\ pc' = "write"
          /\ left' = {i \in NumaNodes : nodes[i] = nodes[possible[k + 1]]}
      BY <1>7, <2>1, <2>8 DEF NextRow, Files, Package
    <3>2. k' \in 1 .. Len(possible) /\ k' # 0 /\ k' - 1 = k
      BY <3>1, <2>2, <2>8, PossibleFacts
    <3>3. WriteInv'
      BY <3>1, <3>2, <2>1, <2>7 DEF WriteInv, Package
    <3>4. QED
      BY <3>1, <3>2, <3>3, <2>1, <2>2, <2>6
         DEF RowInv, EarlyInv, LateInv, HalveInv, DoneInv, OthersInv
  <2>9. CASE ~(k < Len(possible))
    <3>1. k' = k /\ pc' = "done" /\ k = Len(possible)
      BY <1>7, <2>2, <2>9, PossibleFacts DEF NextRow, Goto
    <3>2. \A c \in ToSet(possible) : writer[c] # Nobody
      BY <3>1, <2>7, PossibleFacts
    <3>3. QED
      BY <3>1, <3>2, <2>1, <2>2, <2>6
         DEF RowInv, EarlyInv, LateInv, HalveInv, WriteInv, DoneInv, OthersInv
  <2>10. QED
    BY <2>8, <2>9
<1>8. QED
  BY <1>1, <1>2, <1>3, <1>4, <1>5, <1>6, <1>7 DEF BwactlNext, Tune

\* Wherever bwactl.py is interrupted or stops, only the package it is at may be half
\* written; all others have the weights of one row, that of a CPU node of theirs, and in
\* the end every package that has a CPU has its weights.
THEOREM PackagesAreOfOneRow == BwactlSpec => []PackageOfOneRow
<1>1. RowInv => PackageOfOneRow
  BY DEF RowInv, DoneInv, OthersInv, PackageOfOneRow, Uniform
<1>2. QED
  BY <1>1, RowInit, RowNext, PTL DEF BwactlSpec

-----------------------------------------------------------------------------
(* list_gcd() and what is left of a row when it is divided by it. *)
Divides(d, a) == \E q \in Nat : a = d * q

LEMMA MaxIsLargest ==
    ASSUME NEW n \in Nat, NEW s \in SUBSET (0 .. n), s # {}
    PROVE  Max(s) \in s /\ \A x \in s : x <= Max(s)
<1> DEFINE T == {n - x : x \in s}
<1>1. \A x \in s : n - x \in Nat
  OBVIOUS
<1>2. PICK t \in T : \A y \in T : t <= y
  <2>1. T \in SUBSET Nat
    BY <1>1
  <2>2. T # {}
    OBVIOUS
  <2> HIDE DEF T
  <2>3. QED
    BY <2>1, <2>2, LeastExists
<1>3. PICK m \in s : t = n - m
  BY <1>2
<1>4. \A x \in s : x <= m
  BY <1>2, <1>3
<1>5. QED
  BY <1>4 DEF Max

\* Whatever holds of 0 and goes on from each number to the next holds up to n.
LEMMA UpTo ==
    ASSUME NEW n \in Nat, NEW Good \in SUBSET (0 .. n), 0 \in Good,
           \A m \in 0 .. n - 1 : m \in Good => m + 1 \in Good
    PROVE  n \in Good
<1> SUFFICES ASSUME n \notin Good PROVE FALSE
  OBVIOUS
<1> DEFINE Bad == (0 .. n) \ Good
<1>1. Bad \in SUBSET Nat /\ Bad # {}
  <2>1. n \in 0 .. n
    OBVIOUS
  <2>2. \A x \in 0 .. n : x \in Nat
    OBVIOUS
  <2>3. QED
    BY <2>1, <2>2, Zenon
<1>2. PICK m \in Bad : \A y \in Bad : m <= y
  BY <1>1, LeastExists
<1>3. m # 0 /\ m \in 0 .. n
  OBVIOUS
<1>4. m - 1 \in 0 .. n - 1 /\ m - 1 \notin Bad
  BY <1>2, <1>3
<1>5. (m - 1) + 1 \in Good
  BY <1>4
<1>6. QED
  BY <1>3, <1>5

LEMMA DivMod ==
    ASSUME NEW a \in Nat, NEW d \in Nat \ {0}
    PROVE  /\ a \div d \in Nat /\ a % d \in 0 .. d - 1
           /\ a = d * (a \div d) + (a % d)
  OBVIOUS

LEMMA DivExact ==
    ASSUME NEW q \in Nat, NEW d \in Nat \ {0}
    PROVE  (d * q) \div d = q
<1>1. PICK a \in Nat, p \in Nat, r \in 0 .. d - 1 :
         a = d * q /\ p = a \div d /\ a = d * p + r
  <2>1. PICK a \in Nat : a = d * q
    <3>1. d * q \in Nat
      OBVIOUS
    <3>2. QED
      BY <3>1
  <2>2. a \div d \in Nat /\ a % d \in 0 .. d - 1 /\ a = d * (a \div d) + (a % d)
    BY DivMod
  <2>3. QED
    BY <2>1, <2>2, Zenon
<1>2. d * (q - p) = r
  BY <1>1
<1>3. ~(q - p >= 1) /\ ~(q - p <= -1)
  <2>1. ASSUME q - p >= 1 PROVE FALSE
    <3>1. d * (q - p) >= d
      BY <1>1, <2>1
    <3>2. QED
      BY <1>1, <1>2, <3>1
  <2>2. ASSUME q - p <= -1 PROVE FALSE
    <3>1. d * (q - p) <= -d
      BY <1>1, <2>2
    <3>2. QED
      BY <1>1, <1>2, <3>1
  <2>3. QED
    BY <2>1, <2>2
<1>4. QED
  BY <1>1, <1>3

LEMMA DividesTransitive ==
    ASSUME NEW d \in Nat, NEW e \in Nat, NEW a \in Nat, Divides(d, e), Divides(e, a)
    PROVE  Divides(d, a)
<1>1. PICK p \in Nat, q \in Nat : e = d * p /\ a = e * q
  BY DEF Divides
<1>2. a = d * (p * q) /\ p * q \in Nat
  BY <1>1
<1>3. QED
  BY <1>2 DEF Divides

LEMMA GcdDivides ==
    ASSUME NEW a \in Nat, NEW b \in Nat
    PROVE  gcd[<<a, b>>] \in Nat /\ Divides(gcd[<<a, b>>], a) /\ Divides(gcd[<<a, b>>], b)
<1> DEFINE D == {d \in 1 .. a + b : a % d = 0 /\ b % d = 0}
<1>1. gcd[<<a, b>>] = IF a + b = 0 THEN 0 ELSE Max(D)
  BY DEF gcd
<1>2. CASE a + b = 0
  <2>1. gcd[<<a, b>>] = 0 /\ a = 0 * 0 /\ b = 0 * 0
    BY <1>1, <1>2
  <2>2. QED
    BY <2>1 DEF Divides
<1>3. CASE a + b # 0
  <2>1. D \in SUBSET (0 .. a + b) /\ 1 \in D /\ a + b \in Nat
    BY <1>3
  <2>2. PICK m : m = Max(D)
    OBVIOUS
  <2>3. m \in D
    <3> HIDE DEF D
    <3>1. QED
      BY <2>1, <2>2, MaxIsLargest
  <2>4. m \in Nat \ {0} /\ a % m = 0 /\ b % m = 0
    BY <2>3
  <2>5. /\ a \div m \in Nat /\ a = m * (a \div m)
        /\ b \div m \in Nat /\ b = m * (b \div m)
    <3>1. /\ a \div m \in Nat /\ a = m * (a \div m) + (a % m)
          /\ b \div m \in Nat /\ b = m * (b \div m) + (b % m)
      BY <2>4, DivMod
    <3>2. \A x \in Int : x + 0 = x
      OBVIOUS
    <3>3. m * (a \div m) \in Int /\ m * (b \div m) \in Int
      BY <2>4, <3>1
    <3>4. QED
      BY <2>4, <3>1, <3>2, <3>3
  <2>6. Divides(m, a) /\ Divides(m, b)
    BY <2>5 DEF Divides
  <2>7. QED
    BY <1>1, <1>3, <2>2, <2>4, <2>6
<1>4. QED
  BY <1>2, <1>3

\* The fold of list_gcd(), on the sets of at most m positions.
First(s)    == CHOOSE x \in s : TRUE
Small(S, m) == {s \in SUBSET S : Cardinality(s) <= m}

IsFold(g, Sets, row) ==
    \A s \in Sets : g[s] = IF s = {} THEN 0 ELSE gcd[<<row[First(s)], g[s \ {First(s)}]>>]

LEMMA SmallFacts ==
    ASSUME NEW S, IsFiniteSet(S), NEW m \in Nat, NEW s \in Small(S, m + 1), s # {}
    PROVE  First(s) \in s /\ First(s) \in S /\ s \ {First(s)} \in Small(S, m)
<1>1. First(s) \in s
  BY DEF First
<1>2. s \in SUBSET S /\ Cardinality(s) <= m + 1
  BY DEF Small
<1>3. IsFiniteSet(s) /\ Cardinality(s) \in Nat
  BY <1>2, FS_Subset, FS_CardinalityType
<1>4. Cardinality(s \ {First(s)}) = Cardinality(s) - 1
  BY <1>1, <1>3, FS_RemoveElement
<1>5. Cardinality(s \ {First(s)}) <= m
  BY <1>2, <1>3, <1>4
<1>6. QED
  BY <1>1, <1>2, <1>5 DEF Small

LEMMA SmallestSet ==
    ASSUME NEW S, IsFiniteSet(S), NEW s \in Small(S, 0)
    PROVE  s = {}
<1>1. s \in SUBSET S /\ Cardinality(s) <= 0
  BY DEF Small
<1>2. IsFiniteSet(s) /\ Cardinality(s) \in Nat
  BY <1>1, FS_Subset, FS_CardinalityType
<1>3. QED
  BY <1>1, <1>2, FS_EmptySet

LEMMA AllSmall ==
    ASSUME NEW S, IsFiniteSet(S)
    PROVE  Cardinality(S) \in Nat /\ Small(S, Cardinality(S)) = SUBSET S
<1>1. \A s \in SUBSET S : Cardinality(s) <= Cardinality(S)
  BY FS_Subset
<1>2. QED
  BY <1>1, FS_CardinalityType DEF Small

LEMMA FoldExists ==
    ASSUME NEW S, IsFiniteSet(S), NEW row \in [S -> Nat]
    PROVE  \E g \in [SUBSET S -> Nat] : IsFold(g, SUBSET S, row)
<1> DEFINE Good == {m \in 0 .. Cardinality(S) :
                       \E g \in [Small(S, m) -> Nat] : IsFold(g, Small(S, m), row)}
<1>1. 0 \in Good
  <2> DEFINE g == [s \in Small(S, 0) |-> 0]
  <2>1. g \in [Small(S, 0) -> Nat] /\ IsFold(g, Small(S, 0), row)
    BY SmallestSet DEF IsFold
  <2>2. 0 \in 0 .. Cardinality(S)
    BY AllSmall
  <2>3. QED
    BY <2>1, <2>2
<1>2. ASSUME NEW m \in 0 .. Cardinality(S) - 1, m \in Good
      PROVE  m + 1 \in Good
  <2>1. PICK g \in [Small(S, m) -> Nat] : IsFold(g, Small(S, m), row)
    BY <1>2
  <2> DEFINE h == [s \in Small(S, m + 1) |->
                     IF s = {} THEN 0 ELSE gcd[<<row[First(s)], g[s \ {First(s)}]>>]]
  <2>2. m \in Nat /\ m + 1 \in 0 .. Cardinality(S)
    BY AllSmall
  <2>3. \A s \in Small(S, m + 1) : s # {} =>
           First(s) \in S /\ s \ {First(s)} \in Small(S, m)
    BY <2>2, SmallFacts
  <2>4. \A s \in Small(S, m) : s \in Small(S, m + 1)
    <3>1. ASSUME NEW s \in Small(S, m) PROVE s \in Small(S, m + 1)
      <4>1. s \in SUBSET S /\ Cardinality(s) <= m
        BY DEF Small
      <4>2. Cardinality(s) \in Nat
        BY <4>1, FS_Subset, FS_CardinalityType
      <4>3. Cardinality(s) <= m + 1
        BY <2>2, <4>1, <4>2
      <4>4. QED
        BY <4>1, <4>3 DEF Small
    <3>2. QED
      BY <3>1
  <2>5. h \in [Small(S, m + 1) -> Nat]
    <3>1. ASSUME NEW s \in Small(S, m + 1), s # {}
          PROVE  gcd[<<row[First(s)], g[s \ {First(s)}]>>] \in Nat
      <4>1. row[First(s)] \in Nat /\ g[s \ {First(s)}] \in Nat
        BY <2>1, <2>3, <3>1
      <4>2. QED
        BY <4>1, GcdDivides
    <3>2. QED
      BY <3>1
  <2>6. \A s \in Small(S, m + 1) :
           h[s] = IF s = {} THEN 0 ELSE gcd[<<row[First(s)], g[s \ {First(s)}]>>]
    OBVIOUS
  <2> HIDE DEF h
  <2>7. \A s \in Small(S, m) : h[s] = g[s]
    BY <2>1, <2>4, <2>6 DEF IsFold
  <2>8. IsFold(h, Small(S, m + 1), row)
    BY <2>3, <2>6, <2>7 DEF IsFold
  <2>9. QED
    BY <2>2, <2>5, <2>8
<1> HIDE DEF Good
<1>3. Cardinality(S) \in Good
  <2>1. Good \in SUBSET (0 .. Cardinality(S))
    BY DEF Good
  <2>2. Cardinality(S) \in Nat
    BY AllSmall
  <2>3. QED
    BY <1>1, <1>2, <2>1, <2>2, UpTo
<1>4. QED
  BY <1>3, AllSmall DEF Good

LEMMA FoldDivides ==
    ASSUME NEW S, IsFiniteSet(S), NEW row \in [S -> Nat],
           NEW g, IsFold(g, SUBSET S, row)
    PROVE  g[S] \in Nat /\ \A x \in S : Divides(g[S], row[x])
<1> DEFINE Right(s) == g[s] \in Nat /\ \A x \in s : Divides(g[s], row[x])
           Good == {m \in 0 .. Cardinality(S) : \A s \in Small(S, m) : Right(s)}
<1>0. \A s : s = {} => Right(s)
  <2>1. {} \in SUBSET S
    OBVIOUS
  <2>2. g[{}] = 0
    BY <2>1 DEF IsFold
  <2>3. QED
    BY <2>2
<1> HIDE DEF Right
<1>1. 0 \in Good
  <2>1. 0 \in 0 .. Cardinality(S)
    BY AllSmall
  <2>2. QED
    BY <1>0, <2>1, SmallestSet
<1>2. ASSUME NEW m \in 0 .. Cardinality(S) - 1, m \in Good
      PROVE  m + 1 \in Good
  <2>1. m \in Nat /\ m + 1 \in 0 .. Cardinality(S)
    BY AllSmall
  <2>2. ASSUME NEW s \in Small(S, m + 1), s # {}
        PROVE  Right(s)
    <3>1. PICK f, t : f = First(s) /\ t = s \ {f}
      OBVIOUS
    <3>2. f \in s /\ f \in S /\ t \in Small(S, m)
      BY <2>1, <2>2, <3>1, SmallFacts
    <3>3. s \in SUBSET S /\ t \in SUBSET S
      BY <3>2 DEF Small
    <3>4. row[f] \in Nat /\ g[t] \in Nat /\ \A x \in t : Divides(g[t], row[x])
      BY <1>2, <3>2 DEF Right
    <3>5. g[s] = gcd[<<row[f], g[t]>>]
      BY <2>2, <3>1, <3>3 DEF IsFold
    <3>6. g[s] \in Nat /\ Divides(g[s], row[f]) /\ Divides(g[s], g[t])
      BY <3>4, <3>5, GcdDivides
    <3>7. ASSUME NEW x \in s PROVE Divides(g[s], row[x])
      <4>1. CASE x = f
        BY <3>6, <4>1
      <4>2. CASE x # f
        <5>1. x \in t /\ row[x] \in Nat
          BY <3>1, <3>3, <4>2
        <5>2. Divides(g[t], row[x])
          BY <3>4, <5>1
        <5>3. QED
          BY <3>4, <3>6, <5>1, <5>2, DividesTransitive
      <4>3. QED
        BY <4>1, <4>2
    <3>8. QED
      BY <3>6, <3>7 DEF Right
  <2>3. QED
    BY <1>0, <2>1, <2>2
<1> HIDE DEF Good
<1>3. Cardinality(S) \in Good
  <2>1. Good \in SUBSET (0 .. Cardinality(S))
    BY DEF Good
  <2>2. Cardinality(S) \in Nat
    BY AllSmall
  <2>3. QED
    BY <1>1, <1>2, <2>1, <2>2, UpTo
<1>4. S \in Small(S, Cardinality(S))
  BY AllSmall
<1>5. QED
  BY <1>3, <1>4 DEF Good, Right

\* list_gcd() divides every number of its list, in whatever order it takes them.
LEMMA ListGcdDivides ==
    ASSUME NEW S, IsFiniteSet(S), NEW row \in [S -> Nat]
    PROVE  list_gcd(row) \in Nat /\ \A x \in S : Divides(list_gcd(row), row[x])
<1> DEFINE iter[s \in SUBSET DOMAIN row] ==
               IF s = {} THEN 0
               ELSE gcd[<<row[CHOOSE x \in s : TRUE], iter[s \ {CHOOSE x \in s : TRUE}]>>]
<1>1. list_gcd(row) = iter[DOMAIN row]
  BY DEF list_gcd, FoldFunction, FoldFunctionOnSet, MapThenFoldSet
<1>2. PICK g \in [SUBSET S -> Nat] : IsFold(g, SUBSET S, row)
  BY FoldExists
<1>3. g = [s \in SUBSET DOMAIN row |->
             IF s = {} THEN 0
             ELSE gcd[<<row[CHOOSE x \in s : TRUE], g[s \ {CHOOSE x \in s : TRUE}]>>]]
  BY <1>2 DEF IsFold, First
<1>4. iter = [s \in SUBSET DOMAIN row |->
                IF s = {} THEN 0
                ELSE gcd[<<row[CHOOSE x \in s : TRUE], iter[s \ {CHOOSE x \in s : TRUE}]>>]]
  BY <1>3, ZenonT(40) DEF iter
<1> HIDE DEF iter
<1>5. IsFold(iter, SUBSET S, row)
  BY <1>4 DEF IsFold, First
<1>6. QED
  BY <1>1, <1>5, FoldDivides

LEMMA ReducedRow ==
    ASSUME NEW S, IsFiniteSet(S), NEW row \in [S -> Nat]
    PROVE  /\ Reduced(row) \in [S -> Nat]
           /\ \E g \in Nat \ {0} : \A i \in S : row[i] = Reduced(row)[i] * g
<1>1. PICK d : d = list_gcd(row)
  OBVIOUS
<1>2. d \in Nat /\ \A i \in S : Divides(d, row[i])
  BY <1>1, ListGcdDivides
<1>3. Reduced(row) = [i \in S |-> IF d = 0 THEN 0 ELSE row[i] \div d]
  BY <1>1 DEF Reduced
<1>4. CASE d = 0
  <2>1. ASSUME NEW i \in S PROVE row[i] = 0
    <3>1. PICK q \in Nat : row[i] = 0 * q
      BY <1>2, <1>4 DEF Divides
    <3>2. QED
      BY <3>1
  <2>2. Reduced(row) = [i \in S |-> 0]
    BY <1>3, <1>4
  <2>3. Reduced(row) \in [S -> Nat] /\ \A i \in S : row[i] = Reduced(row)[i] * 1
    BY <2>1, <2>2
  <2>4. QED
    BY <2>3
<1>5. CASE d # 0
  <2>1. d \in Nat \ {0}
    BY <1>2, <1>5
  <2>2. ASSUME NEW i \in S
        PROVE  row[i] \div d \in Nat /\ row[i] = (row[i] \div d) * d
    <3>1. PICK q \in Nat : row[i] = d * q
      BY <1>2 DEF Divides
    <3>2. row[i] \div d = q
      BY <2>1, <3>1, DivExact
    <3>3. d * q = q * d
      BY <2>1
    <3>4. QED
      BY <3>1, <3>2, <3>3
  <2>3. Reduced(row) = [i \in S |-> row[i] \div d]
    BY <1>3, <1>5
  <2>4. Reduced(row) \in [S -> Nat] /\ \A i \in S : row[i] = Reduced(row)[i] * d
    BY <2>2, <2>3
  <2>5. QED
    BY <2>1, <2>4
<1>6. QED
  BY <1>4, <1>5

-----------------------------------------------------------------------------
(* The weights of a package and its bandwidths. *)

\* What WeightsKeepProportion says of the weights w and the bandwidths bw.
Proportional(w, bw, S) ==
    \A i, j \in S : /\ bw[i] > 0 <=> w[i] > 0
                    /\ bw[i] <= bw[j] => w[i] <= w[j]
                    /\ w[i] * bw[j] <= 2 * w[j] * bw[i]

LEMMA Cancel ==
    ASSUME NEW a \in Nat, NEW b \in Nat, NEW g \in Nat \ {0}
    PROVE  a * g <= b * g <=> a <= b
<1>1. a <= b => a * g <= b * g
  OBVIOUS
<1>2. ASSUME a > b PROVE a * g > b * g
  <2>1. PICK e \in Nat : a = b + 1 + e
    <3>1. a - b - 1 \in Nat /\ a = b + 1 + (a - b - 1)
      BY <1>2
    <3>2. QED
      BY <3>1
  <2>2. a * g = b * g + g + e * g /\ e * g \in Nat /\ b * g \in Nat
    BY <2>1
  <2>3. QED
    BY <2>2
<1>3. QED
  BY <1>1, <1>2

\* Taking a common factor out of the weights, as list_gcd() does twice.
LEMMA FactorTaken ==
    ASSUME NEW S, NEW w \in [S -> Nat], NEW u \in [S -> Nat], NEW bw \in [S -> Nat],
           NEW g \in Nat \ {0}, \A i \in S : w[i] = u[i] * g, Proportional(w, bw, S)
    PROVE  Proportional(u, bw, S)
<1> SUFFICES ASSUME NEW i \in S, NEW j \in S
             PROVE  /\ bw[i] > 0 <=> u[i] > 0
                    /\ bw[i] <= bw[j] => u[i] <= u[j]
                    /\ u[i] * bw[j] <= 2 * u[j] * bw[i]
  BY DEF Proportional
<1>1. PICK x \in Nat, y \in Nat, b \in Nat, e \in Nat :
         x = u[i] /\ y = u[j] /\ b = bw[i] /\ e = bw[j]
  OBVIOUS
<1>2. /\ b > 0 <=> x * g > 0
      /\ b <= e => x * g <= y * g
      /\ (x * g) * e <= 2 * (y * g) * b
  BY <1>1 DEF Proportional
<1>3. x * g > 0 <=> x > 0
  OBVIOUS
<1>4. x * g <= y * g <=> x <= y
  BY Cancel
<1>5. x * e <= 2 * y * b
  <2>1. (x * g) * e = (x * e) * g /\ 2 * (y * g) * b = (2 * y * b) * g
    OBVIOUS
  <2>2. x * e \in Nat /\ 2 * y * b \in Nat
    OBVIOUS
  <2>3. QED
    BY <1>2, <2>1, <2>2, Cancel
<1>6. QED
  BY <1>1, <1>2, <1>3, <1>4, <1>5

LEMMA UnitType == Unit \in Nat \ {0}
  BY BwactlAssumption

\* round() is at most half a unit off.
LEMMA RoundBounds ==
    ASSUME NEW v \in Nat
    PROVE  /\ Round(v) \in Nat
           /\ v = 0 => Round(v) = 0
           /\ v >= Unit => /\ Round(v) > 0
                           /\ 2 * v <= 3 * (Round(v) * Unit)
                           /\ 3 * (Round(v) * Unit) <= 4 * v
<1>1. PICK q \in Nat, m \in 0 .. Unit - 1 :
         q = v \div Unit /\ m = v % Unit /\ v = Unit * q + m
  BY UnitType, DivMod
<1>2. PICK r : r = Round(v)
  OBVIOUS
<1>3. \/ r = q /\ 2 * m <= Unit
      \/ r = q + 1 /\ 2 * m >= Unit
  BY <1>1, <1>2, UnitType DEF Round
<1>4. v = 0 => r = 0
  <2>1. v = 0 => q = 0 /\ m = 0
    BY <1>1, UnitType
  <2>2. QED
    BY <1>1, <1>2, <2>1, UnitType DEF Round
<1>5. ASSUME v >= Unit
      PROVE  r > 0 /\ 2 * v <= 3 * (r * Unit) /\ 3 * (r * Unit) <= 4 * v
  <2>1. q > 0
    <3>1. q = 0 => v = m
      BY <1>1, UnitType
    <3>2. QED
      BY <1>1, <1>5, <3>1, UnitType
  <2>2. PICK p \in Nat : p = Unit * q
    BY UnitType
  <2>3. p >= Unit
    BY <2>1, <2>2, UnitType
  <2>4. \/ r * Unit = p /\ 2 * m <= Unit
        \/ r * Unit = p + Unit /\ 2 * m >= Unit
    BY <1>3, <2>2, UnitType
  <2>5. v = p + m
    BY <1>1, <2>2
  <2>6. PICK s : s = r * Unit
    OBVIOUS
  <2>7. 2 * v <= 3 * s /\ 3 * s <= 4 * v
    BY <2>3, <2>4, <2>5, <2>6, UnitType
  <2>8. QED
    BY <1>3, <2>1, <2>6, <2>7
<1>6. QED
  BY <1>2, <1>3, <1>4, <1>5

LEMMA RoundMonotone ==
    ASSUME NEW v \in Nat, NEW w \in Nat, v <= w
    PROVE  Round(v) <= Round(w)
<1>1. PICK q \in Nat, m \in 0 .. Unit - 1 :
         q = v \div Unit /\ m = v % Unit /\ v = Unit * q + m
  BY UnitType, DivMod
<1>2. PICK p \in Nat, n \in 0 .. Unit - 1 :
         p = w \div Unit /\ n = w % Unit /\ w = Unit * p + n
  BY UnitType, DivMod
<1>3. q <= p
  <2> SUFFICES ASSUME q >= p + 1 PROVE FALSE
    OBVIOUS
  <2>1. Unit * q >= Unit * (p + 1)
    BY UnitType
  <2>2. Unit * (p + 1) = Unit * p + Unit
    BY UnitType
  <2>3. QED
    BY <1>1, <1>2, <2>1, <2>2, UnitType
<1>4. q = p => m <= n
  BY <1>1, <1>2, UnitType
<1>5. Round(v) = IF 2 * m > Unit \/ (2 * m = Unit /\ q % 2 = 1) THEN q + 1 ELSE q
  BY <1>1 DEF Round
<1>6. Round(w) = IF 2 * n > Unit \/ (2 * n = Unit /\ p % 2 = 1) THEN p + 1 ELSE p
  BY <1>2 DEF Round
<1>7. CASE q = p
  BY <1>4, <1>5, <1>6, <1>7, UnitType
<1>8. CASE q < p
  BY <1>5, <1>6, <1>8
<1>9. QED
  BY <1>3, <1>7, <1>8

\* A row that has been halved without going below 1 is rounded to weights that are at
\* most a third too large or too small.
LEMMA RoundedRow ==
    ASSUME NEW S, NEW bw \in [S -> Nat], NEW v \in [S -> Nat], NEW c \in Nat \ {0},
           \A i \in S : v[i] = bw[i] * c, \A i \in S : v[i] = 0 \/ v[i] >= Unit
    PROVE  Proportional([i \in S |-> Round(v[i])], bw, S)
<1> SUFFICES ASSUME NEW i \in S, NEW j \in S
             PROVE  /\ bw[i] > 0 <=> Round(v[i]) > 0
                    /\ bw[i] <= bw[j] => Round(v[i]) <= Round(v[j])
                    /\ Round(v[i]) * bw[j] <= 2 * Round(v[j]) * bw[i]
  BY DEF Proportional
<1>1. PICK a \in Nat, b \in Nat, x \in Nat, y \in Nat :
         a = bw[i] /\ b = bw[j] /\ x = v[i] /\ y = v[j]
  OBVIOUS
<1>2. x = a * c /\ y = b * c /\ (x = 0 \/ x >= Unit) /\ (y = 0 \/ y >= Unit)
  BY <1>1
<1>3. PICK r \in Nat, s \in Nat : r = Round(x) /\ s = Round(y)
  BY RoundBounds
<1>4. a > 0 <=> x > 0
  BY <1>2
<1>5. b > 0 <=> y > 0
  BY <1>2
<1>6. (x > 0 <=> r > 0) /\ (y > 0 <=> s > 0)
  BY <1>2, <1>3, RoundBounds, UnitType
<1>7. a <= b => r <= s
  <2>1. a <= b => x <= y
    BY <1>2, Cancel
  <2>2. QED
    BY <1>3, <2>1, RoundMonotone
<1>8. r * b <= 2 * s * a
  <2>1. CASE x = 0
    <3>1. a = 0 /\ r = 0
      BY <1>3, <1>4, <1>6, <2>1
    <3>2. QED
      BY <3>1
  <2>2. CASE y = 0
    <3>1. b = 0 /\ s = 0
      BY <1>3, <1>5, <1>6, <2>2
    <3>2. QED
      BY <3>1
  <2>3. CASE x # 0 /\ y # 0
    <3>1. 3 * (r * Unit) <= 4 * x /\ 2 * y <= 3 * (s * Unit)
      BY <1>2, <1>3, <2>3, RoundBounds
    <3>2. PICK f \in Nat, g \in Nat : f = r * Unit /\ g = s * Unit
      BY UnitType
    <3>3. 3 * (f * y) <= 4 * (x * y)
      <4>1. (3 * f) * y <= (4 * x) * y
        BY <2>3, <3>1, <3>2, Cancel
      <4>2. QED
        BY <4>1
    <3>4. 4 * (x * y) <= 6 * (g * x)
      <4>1. (2 * y) * x <= (3 * g) * x
        BY <2>3, <3>1, <3>2, Cancel
      <4>2. (2 * y) * x = 2 * (x * y) /\ (3 * g) * x = 3 * (g * x)
        OBVIOUS
      <4>3. x * y \in Nat /\ g * x \in Nat
        OBVIOUS
      <4>4. QED
        BY <4>1, <4>2, <4>3
    <3>5. f * y <= 2 * (g * x)
      <4>1. f * y \in Nat /\ x * y \in Nat /\ g * x \in Nat
        OBVIOUS
      <4>2. QED
        BY <3>3, <3>4, <4>1
    <3>6. f * y = (r * b) * (Unit * c) /\ 2 * (g * x) = (2 * s * a) * (Unit * c)
      BY <1>2, <3>2, UnitType
    <3>7. Unit * c \in Nat \ {0} /\ r * b \in Nat /\ 2 * s * a \in Nat
      BY UnitType
    <3>8. QED
      BY <3>5, <3>6, <3>7, Cancel
  <2>4. QED
    BY <2>1, <2>2, <2>3
<1>9. QED
  BY <1>1, <1>3, <1>4, <1>5, <1>6, <1>7, <1>8

-----------------------------------------------------------------------------
(* BwactlTypeOK and WeightsKeepProportion. *)
Bandwidths == matrix[possible[k]]

\* The row has been halved until 1/Unit-th of it stood for c of them: exactly, in the
\* package; the others are what they were, or zero.
Halves(c) ==
    /\ \A i \in Here : data[i] = Bandwidths[i] * c
    /\ \A i \in NumaNodes : data[i] <= Bandwidths[i] * c

DataInv ==
    pc = "halve" =>
        /\ data \in [NumaNodes -> Nat]
        /\ \E c \in 1 .. Unit : (\E q \in 1 .. Unit : c * q = Unit) /\ Halves(c)
        /\ \A i \in Here : data[i] = 0 \/ data[i] >= Unit

RatioInv ==
    /\ k = 0 => ratio_matrix = << >>
    /\ k # 0 => matrix \in Matrices
    /\ pc = "halve" => Len(ratio_matrix) = k - 1
    /\ pc = "write" => Len(ratio_matrix) = Len(possible)
    /\ \A n \in 1 .. Len(ratio_matrix) :
          Proportional(ratio_matrix[n], matrix[possible[n]], Package(possible[n]))

WeightInv == BwactlTypeOK /\ RowInv /\ RatioInv /\ DataInv

LEMMA NodesFinite ==
    /\ IsFiniteSet(NumaNodes)
    /\ \A n : Package(n) \subseteq NumaNodes /\ IsFiniteSet(Package(n))
<1>1. IsFiniteSet(NumaNodes)
  BY BwactlAssumption, FS_Interval DEF NumaNodes
<1>2. \A n : Package(n) \subseteq NumaNodes
  BY DEF Package
<1>3. QED
  BY <1>1, <1>2, FS_Subset

\* The rows that are measured.
LEMMA MatrixType ==
    ASSUME NEW mat \in Matrices, NEW n \in 1 .. Len(possible)
    PROVE  mat[possible[n]] \in [NumaNodes -> 0 .. 10 * Unit]
  BY BwactlAssumption, PossibleFacts DEF SOFT_MAX_RATIO_VAL

\* Before it is halved, a row is exact.
LEMMA FreshRow ==
    ASSUME pc' = "halve", k' \in 1 .. Len(possible), matrix' \in Matrices,
           data' = Row(matrix', k')
    PROVE  DataInv'
<1>1. PICK bw : bw = matrix'[possible[k']] /\ bw \in [NumaNodes -> 0 .. 10 * Unit]
  BY MatrixType
<1>2. data' = [i \in NumaNodes |-> bw[i] * Unit]
  BY <1>1 DEF Row
<1>3. \A i \in NumaNodes :
         /\ data'[i] \in Nat /\ data'[i] = bw[i] * Unit /\ data'[i] <= bw[i] * Unit
         /\ data'[i] = 0 \/ data'[i] >= Unit
  <2>1. ASSUME NEW i \in NumaNodes
        PROVE  /\ data'[i] \in Nat /\ data'[i] = bw[i] * Unit
               /\ data'[i] = 0 \/ data'[i] >= Unit
    <3>1. PICK b \in Nat : b = bw[i]
      BY <1>1, UnitType
    <3>2. data'[i] = b * Unit
      BY <1>2, <3>1
    <3>3. b * Unit \in Nat /\ (b * Unit = 0 \/ b * Unit >= Unit)
      BY UnitType
    <3>4. QED
      BY <3>1, <3>2, <3>3
  <2>2. \A i \in NumaNodes : data'[i] <= data'[i]
    BY <2>1
  <2>3. QED
    BY <2>1, <2>2
<1>4. Here' \subseteq NumaNodes
  BY DEF Here, Package
<1>5. Halves(Unit)'
  BY <1>1, <1>3, <1>4 DEF Halves, Bandwidths
<1>6. Unit \in 1 .. Unit /\ 1 \in 1 .. Unit /\ Unit * 1 = Unit
  BY UnitType
<1>7. data' \in [NumaNodes -> Nat]
  BY <1>2, <1>3
<1>8. \A i \in Here' : data'[i] = 0 \/ data'[i] >= Unit
  BY <1>3, <1>4
<1>9. QED
  BY <1>5, <1>6, <1>7, <1>8 DEF DataInv

\* What is not small enough has a value above the limit.
LEMMA LargeValue ==
    ASSUME NEW c \in 1 .. Unit, data \in [NumaNodes -> Nat], k \in 1 .. Len(possible),
           matrix \in Matrices, Halves(c), ~SmallEnough
    PROVE  c > 1
<1> SUFFICES ASSUME c = 1 PROVE FALSE
  BY UnitType
<1>1. PICK bw : bw = matrix[possible[k]] /\ bw \in [NumaNodes -> 0 .. 10 * Unit]
  BY MatrixType
<1>2. \A i \in NumaNodes : data[i] \in 0 .. 10 * Unit
  <2>1. ASSUME NEW i \in NumaNodes PROVE data[i] \in 0 .. 10 * Unit
    <3>1. data[i] <= bw[i] * c /\ bw[i] \in 0 .. 10 * Unit /\ data[i] \in Nat
      BY <1>1 DEF Halves, Bandwidths
    <3>2. QED
      BY <3>1, UnitType
  <2>2. QED
    BY <2>1
<1>3. Range(data) \in SUBSET (0 .. 10 * Unit) /\ Range(data) # {}
  BY <1>2, PossibleFacts DEF Range
<1>4. Max(Range(data)) \in Range(data)
  <2>1. 10 * Unit \in Nat
    BY UnitType
  <2>2. QED
    BY <1>3, <2>1, MaxIsLargest
<1>5. Max(Range(data)) <= SOFT_MAX_RATIO_VAL * Unit
  <2>1. \A x \in 0 .. 10 * Unit : x <= 10 * Unit
    BY UnitType
  <2>2. QED
    BY <1>3, <1>4, <2>1 DEF SOFT_MAX_RATIO_VAL
<1>6. QED
  BY <1>5 DEF SmallEnough

LEMMA HalveData ==
    ASSUME WeightInv, Halve
    PROVE  DataInv'
<1>1. /\ pc = "halve" /\ ~SmallEnough /\ ~TooSmall /\ data' = Halved
      /\ k' = k /\ nodes' = nodes /\ matrix' = matrix
  BY DEF Halve, input
<1>2. k \in 1 .. Len(possible) /\ matrix \in Matrices /\ data \in [NumaNodes -> Nat]
  BY <1>1, PossibleFacts DEF WeightInv, RowInv, EarlyInv, LateInv, RatioInv, DataInv
<1>3. PICK bw : bw = matrix[possible[k]] /\ bw \in [NumaNodes -> 0 .. 10 * Unit]
  BY <1>2, MatrixType
<1>4. PICK c \in 1 .. Unit : (\E q \in 1 .. Unit : c * q = Unit) /\ Halves(c)
  BY <1>1 DEF WeightInv, DataInv
<1>5. PICK q \in 1 .. Unit : c * q = Unit
  BY <1>4
<1>6. c % 2 = 0
  <2>1. c > 1
    BY <1>1, <1>2, <1>4, LargeValue
  <2>2. \A a, b \in 1 .. Unit : a * b = Unit => a = 1 \/ a % 2 = 0
    BY BwactlAssumption
  <2>3. c = 1 \/ c % 2 = 0
    BY <1>5, <2>2
  <2>4. QED
    BY <2>1, <2>3
<1>7. PICK e \in 1 .. Unit : c = 2 * e
  BY <1>6, UnitType
<1>8. e * (2 * q) = Unit /\ 2 * q \in 1 .. Unit
  <2>1. e * (2 * q) = Unit
    BY <1>5, <1>7
  <2>2. e * (2 * q) >= 2 * q
    OBVIOUS
  <2>3. QED
    BY <2>1, <2>2, UnitType
<1>9. Here \subseteq NumaNodes /\ Here' = Here
  BY <1>1 DEF Here, Package
<1>10. ASSUME NEW i \in Here PROVE data'[i] = bw[i] * e
  <2>1. PICK b \in Nat, p \in Nat : b = bw[i] /\ p = b * e
    BY <1>3, <1>9, UnitType
  <2>2. data[i] = 2 * p
    <3>1. data[i] = b * c
      BY <1>3, <1>4, <2>1 DEF Halves, Bandwidths
    <3>2. QED
      BY <1>7, <2>1, <3>1
  <2>3. data'[i] = (2 * p) \div 2
    BY <1>1, <1>9, <2>2 DEF Halved
  <2>4. QED
    BY <2>1, <2>3
<1>11. ASSUME NEW i \in NumaNodes PROVE data'[i] \in Nat /\ data'[i] <= bw[i] * e
  <2>1. bw[i] * e \in Nat
    BY <1>3, UnitType
  <2>2. CASE i \in Here
    BY <1>10, <2>1, <2>2
  <2>3. CASE i \notin Here
    <3>1. data'[i] = 0
      BY <1>1, <2>3 DEF Halved
    <3>2. QED
      BY <2>1, <3>1
  <2>4. QED
    BY <2>2, <2>3
<1>12. Halves(e)'
  BY <1>1, <1>3, <1>9, <1>10, <1>11 DEF Halves, Bandwidths
<1>13. data' \in [NumaNodes -> Nat]
  BY <1>1, <1>11 DEF Halved
<1>14. \A i \in Here' : data'[i] = 0 \/ data'[i] >= Unit
  <2>1. \A i \in Here : Halved[i] = 0 \/ ~(Halved[i] <= Unit)
    BY <1>1 DEF TooSmall
  <2>2. QED
    BY <1>1, <1>9, <1>13, <2>1, UnitType
<1>15. QED
  BY <1>8, <1>12, <1>13, <1>14 DEF DataInv

\* The row that is done.
LEMMA RatioRow ==
    ASSUME WeightInv, Ratio
    PROVE  /\ Reduced(Rounded) \in [NumaNodes -> Nat]
           /\ Proportional(Reduced(Rounded), Bandwidths, Here)
<1>1. pc = "halve"
  BY DEF Ratio
<1>2. k \in 1 .. Len(possible) /\ matrix \in Matrices /\ data \in [NumaNodes -> Nat]
  BY <1>1, PossibleFacts DEF WeightInv, RowInv, EarlyInv, LateInv, RatioInv, DataInv
<1>3. PICK bw : bw = Bandwidths /\ bw \in [NumaNodes -> 0 .. 10 * Unit]
  BY <1>2, MatrixType DEF Bandwidths
<1>4. PICK c \in 1 .. Unit : Halves(c)
  BY <1>1 DEF WeightInv, DataInv
<1>5. PICK S : S = Here /\ S \subseteq NumaNodes
  BY DEF Here, Package
<1>6. Rounded \in [NumaNodes -> Nat]
  BY <1>2, RoundBounds DEF Rounded
<1>7. PICK row : row = Reduced(Rounded)
  OBVIOUS
<1>8. row \in [NumaNodes -> Nat]
  BY <1>6, <1>7, NodesFinite, ReducedRow
<1>9. PICK g \in Nat \ {0} : \A i \in NumaNodes : Rounded[i] = row[i] * g
  BY <1>6, <1>7, NodesFinite, ReducedRow
<1> DEFINE b == [i \in S |-> bw[i]]
           v == [i \in S |-> data[i]]
           w == [i \in S |-> Round(v[i])]
           u == [i \in S |-> row[i]]
<1>10. b \in [S -> Nat] /\ v \in [S -> Nat]
  BY <1>2, <1>3, <1>5, UnitType
<1>11. w \in [S -> Nat] /\ u \in [S -> Nat]
  BY <1>5, <1>8, <1>10, RoundBounds
<1>12. Proportional(w, b, S)
  <2>1. \A i \in S : v[i] = b[i] * c /\ (v[i] = 0 \/ v[i] >= Unit)
    BY <1>1, <1>3, <1>4, <1>5 DEF WeightInv, DataInv, Halves
  <2>2. c \in Nat \ {0}
    OBVIOUS
  <2> HIDE DEF b, v
  <2>3. QED
    BY <1>10, <2>1, <2>2, RoundedRow
<1>13. \A i \in S : w[i] = u[i] * g
  BY <1>5, <1>9 DEF Rounded
<1>14. Proportional(u, b, S)
  <2> HIDE DEF b, w, u
  <2>1. QED
    BY <1>10, <1>11, <1>12, <1>13, FactorTaken
<1>15. \A i \in S : u[i] = row[i] /\ b[i] = bw[i]
  OBVIOUS
<1> HIDE DEF b, u
<1>16. Proportional(row, bw, S)
  BY <1>14, <1>15 DEF Proportional
<1>17. QED
  BY <1>3, <1>5, <1>7, <1>8, <1>16

LEMMA RatioNext == WeightInv /\ [BwactlNext]_bwactl => RatioInv' /\ DataInv'
<1> SUFFICES ASSUME WeightInv, [BwactlNext]_bwactl PROVE RatioInv' /\ DataInv'
  OBVIOUS
<1>1. ASSUME UNCHANGED <<ratio_matrix, matrix, nodes>>, k' = k, pc' # "halve",
             pc' = "write" => pc = "write"
      PROVE  RatioInv' /\ DataInv'
  BY <1>1 DEF WeightInv, RatioInv, DataInv, Package
<1>2. CASE Begin \/ Install \/ Interrupted \/ NoOutput \/ WriteFails
  <2>1. UNCHANGED <<ratio_matrix, matrix, nodes>> /\ k' = k
    BY <1>2 DEF Begin, Install, RemoveTree, MakeDirectory, Download, DownloadFails, Unpack,
                Interrupted, NoOutput, WriteFails, loop, input
  <2>2. pc' \in {"error", "killed", "rmtree", "mkdir", "wget", "tar", "measure"}
    BY <1>2 DEF Begin, Install, RemoveTree, MakeDirectory, Download, DownloadFails, Unpack,
                Interrupted, NoOutput, WriteFails, Goto
  <2>3. QED
    BY <1>1, <2>1, <2>2
<1>3. CASE UNCHANGED bwactl
  BY <1>3 DEF bwactl, loop, input, WeightInv, RatioInv, DataInv, Halves, Bandwidths, Here,
              Package
<1>4. CASE WriteWeight
  <2>1. UNCHANGED <<ratio_matrix, matrix, nodes>> /\ k' = k /\ pc = "write" /\ pc' = pc
    BY <1>4 DEF WriteWeight, input
  <2>2. QED
    BY <1>1, <2>1
<1>5. CASE NextRow
  <2>1. /\ UNCHANGED <<ratio_matrix, matrix, nodes>> /\ pc = "write" /\ pc' \in {"write", "done"}
        /\ k' \in {k, k + 1}
    BY <1>5 DEF NextRow, Goto, input
  <2>2. k # 0 /\ k' # 0
    <3>1. k \in 1 .. Len(possible)
      BY <2>1, PossibleFacts DEF WeightInv, RowInv, EarlyInv, LateInv
    <3>2. QED
      BY <2>1, <3>1
  <2>3. \A n : Package(n)' = Package(n)
    BY <2>1 DEF Package
  <2>4. RatioInv'
    BY <2>1, <2>2, <2>3 DEF WeightInv, RatioInv
  <2>5. QED
    BY <2>1, <2>4 DEF DataInv
<1>6. CASE Measure
  <2>1. /\ pc = "measure" /\ pc' = "halve" /\ k' = 1 /\ ratio_matrix' = ratio_matrix
        /\ matrix' \in Matrices /\ data' = Row(matrix', 1)
    BY <1>6 DEF Measure, Goto
  <2>2. k = 0 /\ ratio_matrix = << >>
    BY <2>1 DEF WeightInv, RowInv, LateInv, RatioInv
  <2>3. RatioInv'
    BY <2>1, <2>2 DEF RatioInv
  <2>4. 1 \in 1 .. Len(possible)
    BY PossibleFacts
  <2>5. QED
    BY <2>1, <2>3, <2>4, FreshRow
<1>7. CASE Halve
  <2>1. UNCHANGED <<pc, ratio_matrix, matrix, nodes, k>>
    BY <1>7 DEF Halve, input
  <2>2. RatioInv'
    BY <2>1 DEF WeightInv, RatioInv, Package
  <2>3. QED
    BY <1>7, <2>2, HalveData
<1>8. CASE Ratio
  <2>1. PICK row : row = Reduced(Rounded)
    OBVIOUS
  <2>2. /\ pc = "halve" /\ UNCHANGED <<matrix, nodes>>
        /\ ratio_matrix' = Append(ratio_matrix, row)
    BY <1>8, <2>1 DEF Ratio, input
  <2>3. /\ k \in 1 .. Len(possible) /\ matrix \in Matrices
        /\ Len(ratio_matrix) = k - 1 /\ ratio_matrix \in Seq([NumaNodes -> Nat])
    BY <2>2, PossibleFacts
       DEF WeightInv, BwactlTypeOK, RowInv, EarlyInv, LateInv, RatioInv
  <2>4. Proportional(row, matrix[possible[k]], Package(possible[k]))
    BY <1>8, <2>1, RatioRow DEF Bandwidths, Here
  <2>5. /\ Len(ratio_matrix') = k /\ ratio_matrix'[k] = row
        /\ \A n \in 1 .. k - 1 : ratio_matrix'[n] = ratio_matrix[n]
    <3>1. row \in [NumaNodes -> Nat] /\ k \in Nat
      BY <1>8, <2>1, <2>3, RatioRow
    <3>2. QED
      BY <2>2, <2>3, <3>1
  <2>6. \A n \in 1 .. k : n = k \/ n \in 1 .. k - 1
    BY <2>3
  <2>7. \A n \in 1 .. k :
           Proportional(ratio_matrix'[n], matrix[possible[n]], Package(possible[n]))
    BY <2>3, <2>4, <2>5, <2>6 DEF WeightInv, RatioInv
  <2>8. \A n \in 1 .. Len(ratio_matrix') :
           Proportional(ratio_matrix'[n], matrix'[possible[n]], Package(possible[n])')
    BY <2>2, <2>5, <2>7 DEF Package
  <2>9. CASE k < Len(possible)
    <3>1. pc' = pc /\ k' = k + 1 /\ data' = Row(matrix', k')
      BY <1>8, <2>2, <2>9 DEF Ratio
    <3>2. k' \in 1 .. Len(possible) /\ k' - 1 = k /\ k' # 0
      BY <2>3, <2>9, <3>1, PossibleFacts
    <3>3. RatioInv'
      BY <2>2, <2>3, <2>5, <2>8, <3>1, <3>2 DEF RatioInv
    <3>4. QED
      BY <2>2, <2>3, <3>1, <3>2, <3>3, FreshRow
  <2>10. CASE ~(k < Len(possible))
    <3>1. pc' = "write" /\ k' = 1 /\ k = Len(possible)
      BY <1>8, <2>3, <2>10, PossibleFacts DEF Ratio, Goto
    <3>2. RatioInv'
      BY <2>2, <2>3, <2>5, <2>8, <3>1 DEF RatioInv
    <3>3. QED
      BY <3>1, <3>2 DEF DataInv
  <2>11. QED
    BY <2>9, <2>10
<1>9. QED
  BY <1>2, <1>3, <1>4, <1>5, <1>6, <1>7, <1>8 DEF BwactlNext, Tune

LEMMA TypeNext == WeightInv /\ [BwactlNext]_bwactl => BwactlTypeOK'
<1> SUFFICES ASSUME WeightInv, [BwactlNext]_bwactl PROVE BwactlTypeOK'
  OBVIOUS
<1>1. BwactlTypeOK /\ MaxRuns \in Nat
  BY BwactlAssumption DEF WeightInv
<1>2. CASE Begin
  BY <1>1, <1>2 DEF Begin, BwactlTypeOK, Goto, input, loop, kernel
<1>3. CASE Install \/ Interrupted
  BY <1>1, <1>3 DEF Install, RemoveTree, MakeDirectory, Download, DownloadFails, Unpack,
                    Interrupted, BwactlTypeOK, Goto, Ended, loop, kernel
<1>4. CASE NoOutput \/ WriteFails \/ Halve \/ UNCHANGED bwactl
  BY <1>1, <1>4 DEF NoOutput, WriteFails, Halve, BwactlTypeOK, Goto, Ended, bwactl, install,
                    loop, kernel
<1>5. CASE Measure
  BY <1>1, <1>5, PossibleFacts DEF Measure, BwactlTypeOK, Goto, install, kernel
<1>6. CASE Ratio
  <2>1. ratio_matrix' \in Seq([NumaNodes -> Nat])
    <3>1. PICK row \in [NumaNodes -> Nat] : row = Reduced(Rounded)
      BY <1>6, RatioRow
    <3>2. ratio_matrix' = Append(ratio_matrix, row)
      BY <1>6, <3>1 DEF Ratio
    <3>3. QED
      BY <1>1, <3>2 DEF BwactlTypeOK
  <2>2. k' \in 0 .. Len(possible)
    BY <1>1, <1>6, PossibleFacts DEF Ratio, BwactlTypeOK
  <2>3. left' \subseteq NumaNodes
    BY <1>1, <1>6 DEF Ratio, BwactlTypeOK, Files, Package
  <2>4. QED
    BY <1>1, <1>6, <2>1, <2>2, <2>3 DEF Ratio, BwactlTypeOK, Goto, install, kernel
<1>7. CASE WriteWeight
  <2>1. pc = "write" /\ left # {} /\ left \subseteq NumaNodes
    BY <1>1, <1>7 DEF WriteWeight, BwactlTypeOK
  <2>2. File \in NumaNodes
    BY <2>1, FileIsLeft
  <2>3. sysfs' \in [NumaNodes -> 0 .. MaxWeight]
    BY <1>1, <1>7, <2>2 DEF WriteWeight, Accepted, BwactlTypeOK, MaxWeight
  <2>4. possible[k] \in ToSet(possible)
    BY <2>1, PossibleFacts DEF WeightInv, RowInv, EarlyInv, LateInv
  <2>5. writer' \in [NumaNodes -> ToSet(possible) \cup {Nobody}]
    BY <1>1, <1>7, <2>2, <2>4 DEF WriteWeight, BwactlTypeOK
  <2>6. QED
    BY <1>1, <1>7, <2>3, <2>5 DEF WriteWeight, BwactlTypeOK, install
<1>8. CASE NextRow
  BY <1>1, <1>8, PossibleFacts DEF NextRow, BwactlTypeOK, Goto, Files, Package, Ended, install,
                                   kernel
<1>9. QED
  BY <1>2, <1>3, <1>4, <1>5, <1>6, <1>7, <1>8 DEF BwactlNext, Tune

LEMMA WeightInit == BwactlInit => WeightInv
<1> SUFFICES ASSUME BwactlInit PROVE WeightInv
  OBVIOUS
<1>1. BwactlTypeOK
  BY BwactlAssumption, PossibleFacts DEF BwactlInit, BwactlTypeOK, MaxWeight
<1>2. RatioInv
  BY DEF BwactlInit, RatioInv
<1>3. DataInv
  BY DEF BwactlInit, DataInv
<1>4. QED
  BY <1>1, <1>2, <1>3, RowInit DEF WeightInv

LEMMA WeightNext == WeightInv /\ [BwactlNext]_bwactl => WeightInv'
  BY RatioNext, TypeNext, RowNext DEF WeightInv

LEMMA WeightsAreKept == BwactlSpec => []WeightInv
  BY WeightInit, WeightNext, PTL DEF BwactlSpec

\* Type correctness: the rows are natural numbers, and what is written to sysfs is a
\* number the kernel takes.
THEOREM TypeCorrect == BwactlSpec => []BwactlTypeOK
<1>1. WeightInv => BwactlTypeOK
  BY DEF WeightInv
<1>2. QED
  BY <1>1, WeightsAreKept, PTL

\* However a row is halved, rounded and reduced, a node has a weight if it has a
\* bandwidth, and the weights of a package are in the order of the bandwidths and no two
\* of them more than twice out of proportion; for any bandwidths up to the bound of the
\* model and any number of nodes.
THEOREM ProportionIsKept == BwactlSpec => []WeightsKeepProportion
<1>1. WeightInv => WeightsKeepProportion
  <2> SUFFICES ASSUME WeightInv, pc = "write"
               PROVE  Proportional(Weights, matrix[possible[k]], Here)
    BY DEF WeightsKeepProportion, Proportional
  <2>1. /\ k \in 1 .. Len(possible) /\ matrix \in Matrices
        /\ Len(ratio_matrix) = Len(possible)
    BY PossibleFacts DEF WeightInv, RowInv, EarlyInv, LateInv, RatioInv
  <2>2. PICK bw, row, S :
           /\ bw = matrix[possible[k]] /\ row = ratio_matrix[k] /\ S = Package(possible[k])
    OBVIOUS
  <2>3. /\ bw \in [NumaNodes -> 0 .. 10 * Unit] /\ row \in [NumaNodes -> Nat]
        /\ S \subseteq NumaNodes /\ IsFiniteSet(S)
    <3>1. row \in [NumaNodes -> Nat]
      BY <2>1, <2>2 DEF WeightInv, BwactlTypeOK
    <3>2. QED
      BY <2>1, <2>2, <3>1, MatrixType, NodesFinite
  <2>4. Proportional(row, bw, S)
    BY <2>1, <2>2 DEF WeightInv, RatioInv
  <2> DEFINE b == [i \in S |-> bw[i]]
             w == [i \in S |-> row[i]]
  <2>5. b \in [S -> Nat] /\ w \in [S -> Nat]
    BY <2>3, UnitType
  <2>6. Proportional(w, b, S)
    <3>1. \A i \in S : w[i] = row[i] /\ b[i] = bw[i]
      OBVIOUS
    <3> HIDE DEF b, w
    <3>2. QED
      BY <2>4, <3>1 DEF Proportional
  <2>7. Weights = Reduced(w)
    BY <2>2 DEF Weights, Files
  <2>8. PICK u : u = Reduced(w)
    OBVIOUS
  <2> HIDE DEF w
  <2>9. u \in [S -> Nat] /\ \E g \in Nat \ {0} : \A i \in S : w[i] = u[i] * g
    BY <2>3, <2>5, <2>8, ReducedRow
  <2>10. Proportional(u, b, S)
    <3> HIDE DEF b
    <3>1. QED
      BY <2>5, <2>6, <2>9, FactorTaken
  <2>11. \A i \in S : b[i] = bw[i]
    OBVIOUS
  <2> HIDE DEF b
  <2>12. Proportional(u, bw, S)
    BY <2>10, <2>11 DEF Proportional
  <2>13. QED
    BY <2>2, <2>7, <2>8, <2>12 DEF Here
<1>2. QED
  BY <1>1, WeightsAreKept, PTL
=============================================================================
