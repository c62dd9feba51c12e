--------------------------- MODULE GenMigpolProofs ---------------------------
(***************************************************************************)
(* Proofs about gen_migpol.py, for any nodes with any regions of physical  *)
(* memory and any command lines.                                           *)
(***************************************************************************)
EXTENDS GenMigpol, TLAPS

-----------------------------------------------------------------------------
(* Type correctness. *)
Busy == stage \in {"region", "chunk"}

\* A region is split only under a limit, and it is the first one of the first kdamond.
StageInv ==
    /\ Busy => args.region_max_size \in Int
    /\ stage = "chunk" => kdamonds # << >> /\ Kd.regions # << >>
    /\ stage \in {"idle", "check", "error"} => new_kdamonds = << >>
    /\ ~Busy => kdamonds = << >>
    /\ kdamonds = << >> => unsplit_regions = << >>

LEMMA ReverseType ==
    ASSUME NEW pair \in Pair
    PROVE  Reverse(pair) \in Pair /\ Reverse(pair)[1] = pair[2] /\ Reverse(pair)[2] = pair[1]
<1>1. PICK a \in Nodes, b \in Nodes : pair = <<a, b>>
  BY DEF Pair
<1>2. Len(pair) = 2 /\ pair[1] = a /\ pair[2] = b
  BY <1>1
<1>3. Reverse(pair) = [i \in 1 .. 2 |-> pair[(2 - i) + 1]]
  BY <1>2 DEF Reverse
<1>4. Reverse(pair) = <<b, a>>
  BY <1>2, <1>3
<1>5. QED
  BY <1>2, <1>4 DEF Pair

LEMMA SchemesType ==
    ASSUME NEW pairs \in Seq(Pair), NEW action \in {"migrate_cold", "migrate_hot"}
    PROVE  /\ Schemes(action, pairs) \in Seq(Kdamond)
           /\ Len(Schemes(action, pairs)) = Len(pairs)
           /\ \A i \in 1 .. Len(pairs) : Schemes(action, pairs)[i] = Scheme(action, pairs[i])
<1>1. \A i \in 1 .. Len(pairs) : Scheme(action, pairs[i]) \in Kdamond
  BY GenMigpolAssumption DEF Pair, Scheme, Kdamond
<1>2. Schemes(action, pairs) \in [1 .. Len(pairs) -> Kdamond]
  BY <1>1 DEF Schemes
<1>3. Len(pairs) \in Nat
  OBVIOUS
<1>4. Schemes(action, pairs) \in Seq(Kdamond)
  BY <1>2, <1>3
<1>5. QED
  BY <1>2, <1>3, <1>4 DEF Schemes

Turned == [i \in 1 .. Len(args.migrate) |-> Reverse(args.migrate[i])]

LEMMA TurnedType ==
    ASSUME args \in Args
    PROVE  /\ Turned \in Seq(Pair) /\ Len(Turned) = Len(args.migrate)
           /\ \A i \in 1 .. Len(args.migrate) : Turned[i] = Reverse(args.migrate[i])
<1>1. args.migrate \in Seq(Pair) /\ Len(args.migrate) \in Nat
  BY DEF Args
<1>2. \A i \in 1 .. Len(args.migrate) : Reverse(args.migrate[i]) \in Pair
  BY <1>1, ReverseType
<1>3. Turned \in [1 .. Len(args.migrate) -> Pair]
  BY <1>2 DEF Turned
<1>4. Turned \in Seq(Pair)
  BY <1>1, <1>3
<1>5. QED
  BY <1>1, <1>3, <1>4 DEF Turned

Cold == args.demote \o args.migrate
Hot  == args.promote \o Turned

LEMMA MigrationsType ==
    ASSUME args \in Args
    PROVE  /\ Cold \in Seq(Pair) /\ Hot \in Seq(Pair)
           /\ Migrations \in Seq(Kdamond)
           /\ Migrations = Schemes("migrate_cold", Cold) \o Schemes("migrate_hot", Hot)
<1>1. Cold \in Seq(Pair) /\ Hot \in Seq(Pair)
  BY TurnedType DEF Args, Cold, Hot
<1>2. Migrations = Schemes("migrate_cold", Cold) \o Schemes("migrate_hot", Hot)
  BY DEF Migrations, Cold, Hot, Turned
<1>3. QED
  BY <1>1, <1>2, SchemesType

LEMMA MinOfTwo ==
    ASSUME NEW a \in Int, NEW b \in Int
    PROVE  Min({a, b}) = IF a <= b THEN a ELSE b
<1> DEFINE m == IF a <= b THEN a ELSE b
<1>1. m \in {a, b} /\ \A y \in {a, b} : m =< y
  OBVIOUS
<1>2. \A x \in {a, b} : (\A y \in {a, b} : x =< y) => x = m
  OBVIOUS
<1>3. QED
  BY <1>1, <1>2 DEF Min

\* The first element of a sequence is replaced, or taken away.
LEMMA ReplaceHead ==
    ASSUME NEW S, NEW s \in Seq(S), s # << >>, NEW x \in S
    PROVE  /\ << x >> \o Tail(s) \in Seq(S)
           /\ Len(<< x >> \o Tail(s)) = Len(s)
           /\ (<< x >> \o Tail(s))[1] = x
           /\ \A i \in 2 .. Len(s) : (<< x >> \o Tail(s))[i] = s[i]
  OBVIOUS

LEMMA DropHead ==
    ASSUME NEW S, NEW s \in Seq(S), s # << >>
    PROVE  /\ Tail(s) \in Seq(S)
           /\ Len(Tail(s)) = Len(s) - 1
           /\ \A i \in 1 .. Len(s) - 1 : Tail(s)[i] = s[i + 1]
           /\ s[1] \in S /\ Len(s) \in Nat \ {0}
  OBVIOUS

LEMMA AppendLast ==
    ASSUME NEW S, NEW s \in Seq(S), NEW x \in S
    PROVE  /\ Append(s, x) \in Seq(S)
           /\ Len(Append(s, x)) = Len(s) + 1
           /\ \A i \in 1 .. Len(s) : Append(s, x)[i] = s[i]
           /\ Append(s, x)[Len(s) + 1] = x
  OBVIOUS

LEMMA AppendMember ==
    ASSUME NEW S, NEW s \in Seq(S), NEW x \in S
    PROVE  \A n \in 1 .. Len(Append(s, x)) :
               \/ n \in 1 .. Len(s) /\ Append(s, x)[n] = s[n]
               \/ n = Len(s) + 1 /\ Append(s, x)[n] = x
  OBVIOUS

\* The elements of a sequence that is put together.
LEMMA SetOfConcat ==
    ASSUME NEW S, NEW s \in Seq(S), NEW t \in Seq(S)
    PROVE  ToSet(s \o t) = ToSet(s) \cup ToSet(t)
<1>1. /\ \A i \in 1 .. Len(s) : i \in 1 .. Len(s \o t) /\ (s \o t)[i] = s[i]
      /\ \A i \in 1 .. Len(t) : Len(s) + i \in 1 .. Len(s \o t) /\ (s \o t)[Len(s) + i] = t[i]
  OBVIOUS
<1>2. \A i \in 1 .. Len(s \o t) :
         \/ i \in 1 .. Len(s) /\ (s \o t)[i] = s[i]
         \/ i - Len(s) \in 1 .. Len(t) /\ (s \o t)[i] = t[i - Len(s)]
  OBVIOUS
<1>3. /\ ToSet(s) = {s[i] : i \in 1 .. Len(s)} /\ ToSet(t) = {t[i] : i \in 1 .. Len(t)}
      /\ ToSet(s \o t) = {(s \o t)[i] : i \in 1 .. Len(s \o t)}
  BY DEF ToSet
<1>4. QED
  BY <1>1, <1>2, <1>3

LEMMA SetOfAppend ==
    ASSUME NEW S, NEW s \in Seq(S), NEW x \in S
    PROVE  ToSet(Append(s, x)) = ToSet(s) \cup {x}
<1>1. /\ ToSet(s) = {s[i] : i \in 1 .. Len(s)}
      /\ ToSet(Append(s, x)) = {Append(s, x)[i] : i \in 1 .. Len(Append(s, x))}
  BY DEF ToSet
<1>2. \A i \in 1 .. Len(s) : i \in 1 .. Len(Append(s, x)) /\ Append(s, x)[i] = s[i]
  BY AppendLast
<1>3. Len(s) + 1 \in 1 .. Len(Append(s, x)) /\ Append(s, x)[Len(s) + 1] = x
  BY AppendLast
<1>4. QED
  BY <1>1, <1>2, <1>3, AppendMember

LEMMA SetOfTail ==
    ASSUME NEW S, NEW s \in Seq(S), s # << >>
    PROVE  ToSet(s) = {s[1]} \cup ToSet(Tail(s))
<1> DEFINE t == Tail(s)
           n == Len(s) - 1
<1>1. /\ t \in Seq(S) /\ Len(t) = n /\ Len(s) \in Nat \ {0}
      /\ \A i \in 1 .. n : t[i] = s[i + 1]
  BY DropHead
<1> HIDE DEF t
<1>2. ToSet(s) = {s[i] : i \in 1 .. n + 1} /\ ToSet(t) = {t[i] : i \in 1 .. n}
  BY <1>1 DEF ToSet
<1> HIDE DEF n
<1>3. n \in Nat
  BY <1>1 DEF n
<1>4. ASSUME NEW i \in 1 .. n + 1
      PROVE  s[i] \in {s[1]} \cup ToSet(t)
  <2>1. CASE i = 1
    BY <2>1
  <2>2. CASE i # 1
    <3>1. i - 1 \in 1 .. n /\ t[i - 1] = s[i]
      BY <1>1, <1>3, <2>2
    <3>2. QED
      BY <1>2, <3>1
  <2>3. QED
    BY <2>1, <2>2
<1>5. \A i \in 1 .. n : i + 1 \in 1 .. n + 1
  BY <1>3
<1>6. s[1] \in ToSet(s)
  BY <1>2, <1>3
<1>7. QED
  BY <1>1, <1>2, <1>4, <1>5, <1>6 DEF t

LEMMA SetOfEmpty == ToSet(<< >>) = {}
  BY DEF ToSet

\* The kdamond and the region at the head.
LEMMA HeadType ==
    ASSUME MigpolTypeOK, kdamonds # << >>
    PROVE  /\ Kd \in Kdamond
           /\ Kd.regions # << >> => /\ R \in Region /\ Tail(Kd.regions) \in Seq(Region)
                                    /\ R.start \in Int /\ R.end \in Int
<1>1. kdamonds \in Seq(Kdamond)
  BY DEF MigpolTypeOK
<1>2. Kd \in Kdamond
  BY <1>1, DropHead DEF Kd
<1>3. Kd.regions \in Seq(Region)
  BY <1>2 DEF Kdamond
<1>4. Kd.regions # << >> => R \in Region /\ Tail(Kd.regions) \in Seq(Region)
  BY <1>3, DropHead DEF R
<1>5. \A r \in Region : r.start \in Int /\ r.end \in Int
  BY DEF Region
<1>6. QED
  BY <1>2, <1>4, <1>5

LEMMA WithRegionsType ==
    ASSUME MigpolTypeOK, kdamonds # << >>, NEW regions \in Seq(Region)
    PROVE  /\ WithRegions(regions) \in Kdamond
           /\ WithRegions(regions).regions = regions
           /\ WithRegions(regions).action = Kd.action
           /\ WithRegions(regions).src = Kd.src
           /\ WithRegions(regions).dest = Kd.dest
  BY HeadType DEF WithRegions, Kdamond

\* What the first kdamond becomes when its first region is done, or cut off.
LEMMA NewHead ==
    ASSUME MigpolTypeOK, kdamonds # << >>, NEW regions \in Seq(Region),
           kdamonds' = << WithRegions(regions) >> \o Tail(kdamonds)
    PROVE  /\ kdamonds' \in Seq(Kdamond) /\ Len(kdamonds') = Len(kdamonds)
           /\ kdamonds' # << >>
           /\ Kd' = WithRegions(regions)
           /\ \A i \in 2 .. Len(kdamonds) : kdamonds'[i] = kdamonds[i]
<1>1. kdamonds \in Seq(Kdamond) /\ WithRegions(regions) \in Kdamond
  BY WithRegionsType DEF MigpolTypeOK
<1>2. /\ kdamonds' \in Seq(Kdamond) /\ Len(kdamonds') = Len(kdamonds)
      /\ kdamonds'[1] = WithRegions(regions)
      /\ \A i \in 2 .. Len(kdamonds) : kdamonds'[i] = kdamonds[i]
  BY <1>1, ReplaceHead
<1>3. Len(kdamonds) # 0
  BY <1>1, DropHead
<1>4. QED
  BY <1>2, <1>3 DEF Kd

\* The last chunk ends where the region does.
LEMMA SubEndBounds ==
    ASSUME MigpolTypeOK, kdamonds # << >>, Kd.regions # << >>, args.region_max_size \in Int
    PROVE  /\ SubEnd \in Int /\ SubEnd <= R.end
           /\ SubEnd - R.start <= args.region_max_size
           /\ SubEnd = R.end \/ SubEnd = R.start + args.region_max_size
  BY HeadType, MinOfTwo DEF SubEnd

LEMMA UpToType ==
    ASSUME MigpolTypeOK, kdamonds # << >>, Kd.regions # << >>, NEW sub_end \in Int
    PROVE  /\ UpTo(sub_end) \in Region /\ UpTo(sub_end).start = R.start
           /\ UpTo(sub_end).end = sub_end
           /\ << UpTo(sub_end) >> \in Seq(Region)
<1>1. UpTo(sub_end) \in Region
  BY HeadType DEF UpTo, Region
<1>2. QED
  BY <1>1 DEF UpTo

\* What is left of the region behind a chunk, in front of the other regions.
Rest == << [R EXCEPT !.start = SubEnd] >> \o Tail(Kd.regions)

LEMMA RestType ==
    ASSUME MigpolTypeOK, kdamonds # << >>, Kd.regions # << >>, args.region_max_size \in Int
    PROVE  /\ Rest \in Seq(Region) /\ Rest # << >> /\ Len(Rest) = Len(Kd.regions)
           /\ Rest[1].start = SubEnd /\ Rest[1].end = R.end
           /\ \A j \in 2 .. Len(Kd.regions) : Rest[j] = Kd.regions[j]
<1> DEFINE f == [R EXCEPT !.start = SubEnd]
<1>1. f \in Region /\ f.start = SubEnd /\ f.end = R.end
  BY HeadType, SubEndBounds DEF Region
<1>2. Kd.regions \in Seq(Region)
  BY HeadType DEF Kdamond
<1>3. Rest = << f >> \o Tail(Kd.regions)
  BY DEF Rest
<1> HIDE DEF f
<1>4. /\ Rest \in Seq(Region) /\ Len(Rest) = Len(Kd.regions) /\ Rest[1] = f
      /\ \A j \in 2 .. Len(Kd.regions) : Rest[j] = Kd.regions[j]
  BY <1>1, <1>2, <1>3, ReplaceHead
<1>5. Len(Kd.regions) # 0
  BY <1>2, DropHead
<1>6. QED
  BY <1>1, <1>4, <1>5

\* What the steps of split_region() do to the sequences.
LEMMA ChunkStep ==
    ASSUME MigpolTypeOK, StageInv, Chunk
    PROVE  /\ kdamonds # << >> /\ Kd.regions # << >> /\ args.region_max_size \in Int
           /\ stage = "chunk" /\ R.start < R.end
           /\ stage' = stage /\ args' = args /\ unsplit_regions' = unsplit_regions
           /\ kdamonds' \in Seq(Kdamond) /\ Len(kdamonds') = Len(kdamonds)
           /\ kdamonds' # << >> /\ Kd' = WithRegions(Rest)
           /\ \A i \in 2 .. Len(kdamonds) : kdamonds'[i] = kdamonds[i]
           /\ WithRegions(<< UpTo(SubEnd) >>) \in Kdamond
           /\ new_kdamonds' = Append(new_kdamonds, WithRegions(<< UpTo(SubEnd) >>))
           /\ new_kdamonds' \in Seq(Kdamond)
<1>1. kdamonds # << >> /\ Kd.regions # << >> /\ args.region_max_size \in Int /\ stage = "chunk"
  BY DEF Chunk, ChunkAs, Splitting, StageInv, Busy
<1>2. kdamonds' = << WithRegions(Rest) >> \o Tail(kdamonds)
  BY DEF Chunk, ChunkAs, Rest
<1>3. /\ kdamonds' \in Seq(Kdamond) /\ Len(kdamonds') = Len(kdamonds)
      /\ kdamonds' # << >> /\ Kd' = WithRegions(Rest)
      /\ \A i \in 2 .. Len(kdamonds) : kdamonds'[i] = kdamonds[i]
  BY <1>1, <1>2, RestType, NewHead
<1>4. WithRegions(<< UpTo(SubEnd) >>) \in Kdamond
  BY <1>1, SubEndBounds, UpToType, WithRegionsType
<1>5. new_kdamonds' = Append(new_kdamonds, WithRegions(<< UpTo(SubEnd) >>))
  BY DEF Chunk, ChunkAs
<1>6. new_kdamonds' \in Seq(Kdamond)
  BY <1>4, <1>5, AppendLast DEF MigpolTypeOK
<1>7. /\ R.start < R.end /\ stage' = stage /\ args' = args
      /\ unsplit_regions' = unsplit_regions
  BY DEF Chunk, ChunkAs
<1>8. QED
  BY <1>1, <1>3, <1>4, <1>5, <1>6, <1>7

LEMMA DropStep ==
    ASSUME MigpolTypeOK, kdamonds # << >>, Kd.regions # << >>, DropRegion
    PROVE  /\ R \in Region /\ Tail(Kd.regions) \in Seq(Region)
           /\ kdamonds' \in Seq(Kdamond) /\ Len(kdamonds') = Len(kdamonds)
           /\ kdamonds' # << >> /\ Kd' = WithRegions(Tail(Kd.regions))
           /\ \A i \in 2 .. Len(kdamonds) : kdamonds'[i] = kdamonds[i]
  BY HeadType, NewHead DEF DropRegion

LEMMA KeepStep ==
    ASSUME MigpolTypeOK, KeepRegion
    PROVE  /\ stage = "region" /\ kdamonds # << >> /\ Kd.regions # << >> /\ DropRegion
           /\ R.end - R.start <= args.region_max_size \/ args.region_max_size \notin Int
           /\ unsplit_regions' = Append(unsplit_regions, R)
           /\ unsplit_regions' \in Seq(Region)
           /\ stage' = stage /\ args' = args /\ new_kdamonds' = new_kdamonds
<1>1. /\ stage = "region" /\ kdamonds # << >> /\ Kd.regions # << >> /\ DropRegion
      /\ unsplit_regions' = Append(unsplit_regions, R)
      /\ stage' = stage /\ args' = args /\ new_kdamonds' = new_kdamonds
  BY DEF KeepRegion, Splitting
<1>2. R \in Region /\ R.start \in Int /\ R.end \in Int
  BY <1>1, HeadType
<1>3. unsplit_regions' \in Seq(Region)
  BY <1>1, <1>2, AppendLast DEF MigpolTypeOK
<1>4. R.end - R.start <= args.region_max_size \/ args.region_max_size \notin Int
  BY <1>2 DEF KeepRegion, TooBig
<1>5. QED
  BY <1>1, <1>3, <1>4

LEMMA KdamondStep ==
    ASSUME MigpolTypeOK, KdamondSplit
    PROVE  /\ stage = "region" /\ kdamonds # << >> /\ Kd.regions = << >>
           /\ stage' = stage /\ args' = args /\ unsplit_regions' = << >>
           /\ kdamonds' = Tail(kdamonds) /\ kdamonds' \in Seq(Kdamond)
           /\ WithRegions(unsplit_regions) \in Kdamond
           /\ IF unsplit_regions = << >> THEN new_kdamonds' = new_kdamonds
              ELSE new_kdamonds' = Append(new_kdamonds, WithRegions(unsplit_regions))
           /\ new_kdamonds' \in Seq(Kdamond)
<1>1. /\ stage = "region" /\ kdamonds # << >> /\ Kd.regions = << >>
      /\ stage' = stage /\ args' = args /\ unsplit_regions' = << >>
      /\ kdamonds' = Tail(kdamonds)
      /\ IF unsplit_regions = << >> THEN new_kdamonds' = new_kdamonds
         ELSE new_kdamonds' = Append(new_kdamonds, WithRegions(unsplit_regions))
  BY DEF KdamondSplit, Splitting
<1>2. WithRegions(unsplit_regions) \in Kdamond
  BY <1>1, WithRegionsType DEF MigpolTypeOK
<1>3. kdamonds' \in Seq(Kdamond)
  BY <1>1, DropHead DEF MigpolTypeOK
<1>4. new_kdamonds' \in Seq(Kdamond)
  BY <1>1, <1>2, AppendLast DEF MigpolTypeOK
<1>5. QED
  BY <1>1, <1>2, <1>3, <1>4

LEMMA InitType == MigpolInit => MigpolTypeOK /\ StageInv
<1>1. MigpolInit => args \in Args
  BY DEF MigpolInit, Args
<1>2. QED
  BY <1>1 DEF MigpolInit, MigpolTypeOK, StageInv, Busy

LEMMA NextType ==
    ASSUME MigpolTypeOK, StageInv, [MigpolNext]_migpol
    PROVE  MigpolTypeOK' /\ StageInv'
<1>1. CASE ParseArguments
  BY <1>1, GenMigpolAssumption DEF ParseArguments, MigpolTypeOK, StageInv, Busy
<1>2. CASE Check
  <2>1. Migrations \in Seq(Kdamond)
    BY MigrationsType DEF MigpolTypeOK
  <2>2. args \in Args /\ args' = args
    BY <1>2 DEF Check, MigpolTypeOK
  <2>3. args.region_max_size # NoLimit => args.region_max_size \in Int
    BY <2>2 DEF Args
  <2>4. QED
    BY <1>2, <2>1, <2>2, <2>3 DEF Check, MigpolTypeOK, StageInv, Busy
<1>3. CASE KeepRegion
  BY <1>3, KeepStep, DropStep DEF MigpolTypeOK, StageInv, Busy
<1>4. CASE SplitRegion
  BY <1>4 DEF SplitRegion, Splitting, MigpolTypeOK, StageInv, Busy, Kd
<1>5. CASE Chunk
  BY <1>5, ChunkStep, RestType, WithRegionsType DEF MigpolTypeOK, StageInv, Busy
<1>6. CASE RegionSplit
  <2>1. kdamonds # << >> /\ Kd.regions # << >> /\ DropRegion
    BY <1>6 DEF RegionSplit, Splitting, StageInv
  <2>2. QED
    BY <1>6, <2>1, DropStep DEF RegionSplit, Splitting, MigpolTypeOK, StageInv, Busy
<1>7. CASE KdamondSplit
  <2>1. /\ stage = "region" /\ stage' = stage /\ args' = args /\ unsplit_regions' = << >>
        /\ kdamonds' \in Seq(Kdamond) /\ new_kdamonds' \in Seq(Kdamond)
    BY <1>7, KdamondStep
  <2>2. QED
    BY <2>1 DEF MigpolTypeOK, StageInv, Busy
<1>8. CASE Output
  BY <1>8 DEF Output, MigpolTypeOK, StageInv, Busy
<1>9. CASE UNCHANGED migpol
  <2>1. /\ stage' = stage /\ args' = args /\ kdamonds' = kdamonds
        /\ unsplit_regions' = unsplit_regions /\ new_kdamonds' = new_kdamonds
    BY <1>9 DEF migpol
  <2>2. MigpolTypeOK'
    BY <2>1 DEF MigpolTypeOK
  <2>3. Kd' = Kd
    BY <2>1 DEF Kd
  <2>4. QED
    BY <2>1, <2>2, <2>3 DEF StageInv, Busy
<1>10. QED
  BY <1>1, <1>2, <1>3, <1>4, <1>5, <1>6, <1>7, <1>8, <1>9 DEF MigpolNext

\* gen_migpol.py has kdamonds of the kind damo makes, with regions that are ranges, at
\* every point of its run: a chunk too is a whole kdamond (gen_migpol.py:100-113).
THEOREM TypeCorrect == MigpolSpec => []MigpolTypeOK
<1>1. MigpolTypeOK /\ StageInv /\ [MigpolNext]_migpol => MigpolTypeOK' /\ StageInv'
  BY NextType
<1>2. QED
  BY InitType, <1>1, PTL DEF MigpolSpec

-----------------------------------------------------------------------------
(* The regions that come out are bounded. *)
Bounded(regions) ==
    \A i \in 1 .. Len(regions) : regions[i].end - regions[i].start <= args.region_max_size

BoundInv ==
    args.region_max_size # NoLimit =>
        /\ \A n \in 1 .. Len(new_kdamonds) : Bounded(new_kdamonds[n].regions)
        /\ Bounded(unsplit_regions)

LEMMA NextBound ==
    ASSUME MigpolTypeOK, StageInv, BoundInv, [MigpolNext]_migpol
    PROVE  BoundInv'
<1>1. CASE ParseArguments
  BY <1>1 DEF ParseArguments, StageInv, Busy, BoundInv, Bounded
<1>2. CASE Check
  BY <1>2 DEF Check, StageInv, Busy, BoundInv, Bounded
<1>3. CASE KeepRegion
  <2>1. R \in Region /\ args.region_max_size \in Int /\ unsplit_regions \in Seq(Region)
    BY <1>3, KeepStep, HeadType DEF StageInv, Busy, MigpolTypeOK
  <2>2. Bounded(unsplit_regions) => Bounded(unsplit_regions)'
    BY <1>3, <2>1, KeepStep, AppendLast DEF Bounded
  <2>3. QED
    BY <1>3, <2>2, KeepStep DEF BoundInv, Bounded
<1>4. CASE SplitRegion
  BY <1>4 DEF SplitRegion, BoundInv, Bounded
<1>5. CASE Chunk
  <2> DEFINE made == WithRegions(<< UpTo(SubEnd) >>)
  <2>1. /\ made \in Kdamond /\ made.regions = << UpTo(SubEnd) >>
        /\ UpTo(SubEnd).end - UpTo(SubEnd).start <= args.region_max_size
    BY <1>5, ChunkStep, SubEndBounds, UpToType, WithRegionsType
  <2>2. Bounded(made.regions)
    BY <2>1 DEF Bounded
  <2>3. new_kdamonds \in Seq(Kdamond) /\ new_kdamonds' = Append(new_kdamonds, made)
    BY <1>5, ChunkStep DEF MigpolTypeOK
  <2> HIDE DEF made
  <2>4. \A n \in 1 .. Len(new_kdamonds') :
           \/ n \in 1 .. Len(new_kdamonds) /\ new_kdamonds'[n] = new_kdamonds[n]
           \/ n = Len(new_kdamonds) + 1 /\ new_kdamonds'[n] = made
    BY <2>1, <2>3, AppendMember
  <2>5. QED
    BY <1>5, <2>2, <2>4, ChunkStep DEF BoundInv, Bounded
<1>6. CASE RegionSplit
  BY <1>6 DEF RegionSplit, BoundInv, Bounded
<1>7. CASE KdamondSplit
  <2> DEFINE made == WithRegions(unsplit_regions)
  <2>1. made \in Kdamond /\ made.regions = unsplit_regions
    BY <1>7, KdamondStep, WithRegionsType DEF MigpolTypeOK
  <2>2. new_kdamonds \in Seq(Kdamond)
        /\ (new_kdamonds' = new_kdamonds \/ new_kdamonds' = Append(new_kdamonds, made))
    BY <1>7, KdamondStep DEF MigpolTypeOK
  <2> HIDE DEF made
  <2>3. \A n \in 1 .. Len(new_kdamonds') :
           \/ n \in 1 .. Len(new_kdamonds) /\ new_kdamonds'[n] = new_kdamonds[n]
           \/ new_kdamonds'[n] = made
    BY <2>1, <2>2, AppendMember
  <2>4. args' = args /\ unsplit_regions' = << >>
    BY <1>7, KdamondStep
  <2>5. QED
    BY <2>1, <2>3, <2>4 DEF BoundInv, Bounded
<1>8. CASE Output
  BY <1>8 DEF Output, BoundInv, Bounded
<1>9. CASE UNCHANGED migpol
  BY <1>9 DEF migpol, BoundInv, Bounded
<1>10. QED
  BY <1>1, <1>2, <1>3, <1>4, <1>5, <1>6, <1>7, <1>8, <1>9 DEF MigpolNext

\* "Regions larger than this will be split" (gen_migpol.py:67), whatever regions a
\* node has and whatever the maximum is.
THEOREM RegionsAreBounded == MigpolSpec => []RegionsBounded
<1>1. MigpolInit => BoundInv
  BY DEF MigpolInit, BoundInv, Bounded
<1>2. MigpolTypeOK /\ StageInv /\ BoundInv /\ [MigpolNext]_migpol
      => MigpolTypeOK' /\ StageInv' /\ BoundInv'
  BY NextType, NextBound
<1>3. MigpolTypeOK /\ BoundInv => RegionsBounded
  <2> SUFFICES ASSUME MigpolTypeOK, BoundInv, args.region_max_size # NoLimit,
                      NEW n \in 1 .. Len(new_kdamonds),
                      NEW r \in ToSet(new_kdamonds[n].regions)
               PROVE  r.end - r.start <= args.region_max_size
    BY DEF RegionsBounded
  <2>1. new_kdamonds[n] \in Kdamond
    BY DEF MigpolTypeOK
  <2> DEFINE regions == new_kdamonds[n].regions
  <2>2. regions \in Seq(Region)
    BY <2>1 DEF Kdamond
  <2>3. PICK i \in 1 .. Len(regions) : r = regions[i]
    BY <2>2 DEF ToSet
  <2>4. QED
    BY <2>3 DEF BoundInv, Bounded
<1>4. QED
  BY InitType, <1>1, <1>2, <1>3, PTL DEF MigpolSpec

-----------------------------------------------------------------------------
(* The migrations that were asked for, and those that come out. *)
Triple(kd)   == <<kd.action, kd.src, kd.dest>>
Triples(kds) == {Triple(kd) : kd \in ToSet(kds)}

LEMMA SchemesTriples ==
    ASSUME NEW pairs \in Seq(Pair), NEW action \in {"migrate_cold", "migrate_hot"}
    PROVE  /\ Triples(Schemes(action, pairs)) = {<<action, p[1], p[2]>> : p \in ToSet(pairs)}
           /\ \A kd \in ToSet(Schemes(action, pairs)) :
                 kd.src \in Nodes /\ kd.regions = Regions[kd.src]
<1> DEFINE kds == Schemes(action, pairs)
<1>1. /\ kds \in Seq(Kdamond) /\ Len(kds) = Len(pairs)
      /\ \A i \in 1 .. Len(pairs) : kds[i] = Scheme(action, pairs[i])
  BY SchemesType
<1> HIDE DEF kds
<1>2. \A i \in 1 .. Len(pairs) :
         /\ Triple(kds[i]) = <<action, pairs[i][1], pairs[i][2]>>
         /\ kds[i].src \in Nodes /\ kds[i].regions = Regions[kds[i].src]
  <2> SUFFICES ASSUME NEW i \in 1 .. Len(pairs)
               PROVE  /\ Triple(kds[i]) = <<action, pairs[i][1], pairs[i][2]>>
                      /\ kds[i].src \in Nodes /\ kds[i].regions = Regions[kds[i].src]
    OBVIOUS
  <2>1. PICK a \in Nodes, b \in Nodes : pairs[i] = <<a, b>>
    BY DEF Pair
  <2>2. kds[i] = [action |-> action, src |-> a, dest |-> b, regions |-> Regions[a]]
    BY <1>1, <2>1 DEF Scheme
  <2>3. QED
    BY <2>1, <2>2 DEF Triple
<1>3. ToSet(kds) = {kds[i] : i \in 1 .. Len(pairs)}
  BY <1>1 DEF ToSet
<1>4. ToSet(pairs) = {pairs[i] : i \in 1 .. Len(pairs)}
  BY DEF ToSet
<1>5. Triples(kds) = {<<action, p[1], p[2]>> : p \in ToSet(pairs)}
  <2>1. Triples(kds) = {Triple(kds[i]) : i \in 1 .. Len(pairs)}
    BY <1>3 DEF Triples
  <2>2. {Triple(kds[i]) : i \in 1 .. Len(pairs)}
        = {<<action, pairs[i][1], pairs[i][2]>> : i \in 1 .. Len(pairs)}
    BY <1>2
  <2>3. {<<action, pairs[i][1], pairs[i][2]>> : i \in 1 .. Len(pairs)}
        = {<<action, p[1], p[2]>> : p \in ToSet(pairs)}
    BY <1>4
  <2>4. QED
    BY <2>1, <2>2, <2>3
<1>6. \A kd \in ToSet(kds) : kd.src \in Nodes /\ kd.regions = Regions[kd.src]
  BY <1>2, <1>3
<1>7. QED
  BY <1>5, <1>6 DEF kds

LEMMA TurnedSet ==
    ASSUME args \in Args
    PROVE  {<<"migrate_hot", p[1], p[2]>> : p \in ToSet(Turned)}
           = {<<"migrate_hot", p[2], p[1]>> : p \in ToSet(args.migrate)}
<1>1. args.migrate \in Seq(Pair)
  BY DEF Args
<1>2. /\ ToSet(Turned) = {Turned[i] : i \in 1 .. Len(args.migrate)}
      /\ ToSet(args.migrate) = {args.migrate[i] : i \in 1 .. Len(args.migrate)}
  BY <1>1, TurnedType DEF ToSet
<1>3. \A i \in 1 .. Len(args.migrate) :
         Turned[i][1] = args.migrate[i][2] /\ Turned[i][2] = args.migrate[i][1]
  BY <1>1, TurnedType, ReverseType
<1>4. \A p \in ToSet(Turned) : \E q \in ToSet(args.migrate) : p[1] = q[2] /\ p[2] = q[1]
  BY <1>2, <1>3
<1>5. \A q \in ToSet(args.migrate) : \E p \in ToSet(Turned) : p[1] = q[2] /\ p[2] = q[1]
  BY <1>2, <1>3
<1>6. QED
  BY <1>4, <1>5

\* damo makes a kdamond for every migration and for no other, with the regions of its
\* source node.
LEMMA MigrationsAre ==
    ASSUME args \in Args
    PROVE  /\ Triples(Migrations) = Asked
           /\ \A i \in 1 .. Len(Migrations) :
                 /\ Migrations[i].src \in Nodes
                 /\ Migrations[i].regions = Regions[Migrations[i].src]
<1> DEFINE cold == Schemes("migrate_cold", Cold)
           hot  == Schemes("migrate_hot", Hot)
<1>1. /\ Cold \in Seq(Pair) /\ Hot \in Seq(Pair) /\ Migrations = cold \o hot
      /\ cold \in Seq(Kdamond) /\ hot \in Seq(Kdamond) /\ Migrations \in Seq(Kdamond)
  BY MigrationsType, SchemesType
<1>2. /\ args.demote \in Seq(Pair) /\ args.promote \in Seq(Pair)
      /\ args.migrate \in Seq(Pair) /\ Turned \in Seq(Pair)
  BY TurnedType DEF Args
<1>3. /\ ToSet(Cold) = ToSet(args.demote) \cup ToSet(args.migrate)
      /\ ToSet(Hot) = ToSet(args.promote) \cup ToSet(Turned)
  BY <1>2, SetOfConcat DEF Cold, Hot
<1>4. /\ Triples(cold) = {<<"migrate_cold", p[1], p[2]>> : p \in ToSet(Cold)}
      /\ Triples(hot) = {<<"migrate_hot", p[1], p[2]>> : p \in ToSet(Hot)}
      /\ \A kd \in ToSet(cold) \cup ToSet(hot) :
            kd.src \in Nodes /\ kd.regions = Regions[kd.src]
  BY <1>1, SchemesTriples
<1>5. ToSet(Migrations) = ToSet(cold) \cup ToSet(hot)
  BY <1>1, SetOfConcat
<1> HIDE DEF cold, hot
<1>6. Triples(Migrations) = Triples(cold) \cup Triples(hot)
  BY <1>5 DEF Triples
<1>7. Triples(Migrations) = Asked
  BY <1>3, <1>4, <1>6, TurnedSet DEF Asked
<1>8. \A i \in 1 .. Len(Migrations) : Migrations[i] \in ToSet(Migrations)
  <2>1. \A kds \in Seq(Kdamond) : \A i \in 1 .. Len(kds) : kds[i] \in ToSet(kds)
    BY DEF ToSet
  <2>2. QED
    BY <1>1, <2>1
<1>9. QED
  BY <1>4, <1>5, <1>7, <1>8

LEMMA Accepted ==
    ASSUME args \in Args, ~Rejected(Migrations)
    PROVE  /\ \A i \in 1 .. Len(Migrations) :
                 /\ Migrations[i].regions # << >>
                 /\ \A j \in 1 .. Len(Migrations[i].regions) :
                       Migrations[i].regions[j].start < Migrations[i].regions[j].end
           /\ \A i, j \in 1 .. Len(Migrations) :
                 Migrations[i].src = Migrations[j].src => i = j
<1>1. \A i \in 1 .. Len(Migrations) :
         /\ Migrations[i].src \in Nodes
         /\ Migrations[i].regions = Regions[Migrations[i].src]
  BY MigrationsAre
<1>2. \A a \in Nodes : \A i \in 1 .. Len(Regions[a]) : Regions[a][i].start < Regions[a][i].end
  BY RegionsAssumption
<1>3. \A i \in 1 .. Len(Migrations) :
         /\ Migrations[i].regions # << >>
         /\ \A j \in 1 .. i - 1 : Migrations[j].src # Migrations[i].src
  BY DEF Rejected
<1>4. Len(Migrations) \in Nat
  BY MigrationsType
<1>5. ASSUME NEW i \in 1 .. Len(Migrations), NEW j \in 1 .. Len(Migrations), i # j
      PROVE  Migrations[i].src # Migrations[j].src
  <2>1. i \in 1 .. j - 1 \/ j \in 1 .. i - 1
    BY <1>4, <1>5
  <2>2. QED
    BY <1>3, <2>1
<1>6. QED
  BY <1>1, <1>2, <1>3, <1>5

\* A migration is made, or its kdamond is still to be split; what is left of the one that
\* is being split is more than nothing, unless a part of it is made or held back.
HeadDone == Kd.regions = << >> \/ (stage = "chunk" /\ R.start >= R.end)

RangeInv ==
    Busy =>
        /\ \A i \in 1 .. Len(kdamonds) : \A j \in 1 .. Len(kdamonds[i].regions) :
              i # 1 \/ j # 1 \/ stage = "region" =>
                  kdamonds[i].regions[j].start < kdamonds[i].regions[j].end
        /\ \A i \in 2 .. Len(kdamonds) : kdamonds[i].regions # << >>

PolicyInv ==
    Busy \/ stage = "done" =>
        /\ ~Rejected(Migrations)
        /\ Triples(new_kdamonds) \cup Triples(kdamonds) = Triples(Migrations)
        /\ kdamonds # << >> /\ HeadDone =>
              unsplit_regions # << >> \/ Triple(Kd) \in Triples(new_kdamonds)

\* The first kdamond keeps its action and its nodes, the others do not change.
LEMMA HeadTriples ==
    ASSUME MigpolTypeOK, kdamonds # << >>, NEW regions \in Seq(Region),
           kdamonds' \in Seq(Kdamond), Len(kdamonds') = Len(kdamonds), kdamonds' # << >>,
           Kd' = WithRegions(regions),
           \A i \in 2 .. Len(kdamonds) : kdamonds'[i] = kdamonds[i]
    PROVE  Triples(kdamonds') = Triples(kdamonds) /\ Triple(Kd') = Triple(Kd)
<1>1. Triple(Kd') = Triple(Kd)
  BY WithRegionsType DEF Triple
<1>2. kdamonds \in Seq(Kdamond) /\ kdamonds[1] = Kd /\ kdamonds'[1] = Kd'
  BY DEF MigpolTypeOK, Kd
<1>3. \A i \in 1 .. Len(kdamonds) : Triple(kdamonds'[i]) = Triple(kdamonds[i])
  BY <1>1, <1>2 DEF Triple
<1>4. /\ ToSet(kdamonds) = {kdamonds[i] : i \in 1 .. Len(kdamonds)}
      /\ ToSet(kdamonds') = {kdamonds'[i] : i \in 1 .. Len(kdamonds)}
  BY <1>2 DEF ToSet
<1>5. QED
  BY <1>1, <1>3, <1>4 DEF Triples

LEMMA AppendTriples ==
    ASSUME NEW kds \in Seq(Kdamond), NEW kd \in Kdamond
    PROVE  Triples(Append(kds, kd)) = Triples(kds) \cup {Triple(kd)}
  BY SetOfAppend DEF Triples

LEMMA TailTriples ==
    ASSUME NEW kds \in Seq(Kdamond), kds # << >>
    PROVE  Triples(kds) = {Triple(kds[1])} \cup Triples(Tail(kds))
  BY SetOfTail DEF Triples

LEMMA NextRange ==
    ASSUME MigpolTypeOK, StageInv, RangeInv, [MigpolNext]_migpol
    PROVE  RangeInv'
<1>1. CASE ParseArguments
  BY <1>1 DEF ParseArguments, RangeInv, Busy
<1>2. CASE Check
  <2>1. \/ Rejected(Migrations)
        \/ ~Busy'
        \/ ~Rejected(Migrations) /\ kdamonds' = Migrations
    BY <1>2 DEF Check, Busy
  <2>2. CASE Rejected(Migrations) \/ ~Busy'
    BY <1>2, <2>2 DEF Check, RangeInv, Busy
  <2>3. CASE ~Rejected(Migrations) /\ kdamonds' = Migrations
    BY <2>3, Accepted, MigrationsType DEF RangeInv, MigpolTypeOK
  <2>4. QED
    BY <2>1, <2>2, <2>3
<1>3. ASSUME kdamonds # << >>, Kd.regions # << >>, DropRegion, Busy
      PROVE  RangeInv'
  <2>1. /\ Len(kdamonds') = Len(kdamonds) /\ kdamonds'[1].regions = Tail(Kd.regions)
        /\ \A i \in 2 .. Len(kdamonds) : kdamonds'[i] = kdamonds[i]
    BY <1>3, DropStep, WithRegionsType DEF Kd
  <2>2. Kd.regions \in Seq(Region) /\ Kd = kdamonds[1] /\ kdamonds \in Seq(Kdamond)
    BY <1>3, HeadType DEF Kdamond, Kd, MigpolTypeOK
  <2>3. 1 \in 1 .. Len(kdamonds)
    BY <1>3, <2>2, DropHead
  <2>4. /\ Len(Tail(Kd.regions)) = Len(Kd.regions) - 1 /\ Len(Kd.regions) \in Nat
        /\ \A j \in 1 .. Len(Kd.regions) - 1 : Tail(Kd.regions)[j] = Kd.regions[j + 1]
    BY <1>3, <2>2, DropHead
  <2>5. ASSUME NEW j \in 1 .. Len(kdamonds'[1].regions)
        PROVE  kdamonds'[1].regions[j].start < kdamonds'[1].regions[j].end
    <3>1. j \in 1 .. Len(Kd.regions) - 1 /\ j + 1 \in 1 .. Len(Kd.regions) /\ j + 1 # 1
      BY <2>1, <2>4
    <3>2. Kd.regions[j + 1].start < Kd.regions[j + 1].end
      BY <1>3, <2>2, <2>3, <3>1 DEF RangeInv
    <3>3. QED
      BY <2>1, <2>4, <3>1, <3>2
  <2>6. Len(kdamonds) \in Nat
    BY <2>2
  <2>7. ASSUME NEW i \in 2 .. Len(kdamonds')
        PROVE  /\ kdamonds'[i].regions # << >>
               /\ \A j \in 1 .. Len(kdamonds'[i].regions) :
                     kdamonds'[i].regions[j].start < kdamonds'[i].regions[j].end
    <3>1. i \in 2 .. Len(kdamonds) /\ i \in 1 .. Len(kdamonds) /\ i # 1
      BY <2>1, <2>6
    <3>2. QED
      BY <1>3, <2>1, <3>1 DEF RangeInv
  <2>8. \A i \in 1 .. Len(kdamonds') : i = 1 \/ i \in 2 .. Len(kdamonds')
    BY <2>1, <2>6
  <2>9. \A i \in 1 .. Len(kdamonds') : \A j \in 1 .. Len(kdamonds'[i].regions) :
           kdamonds'[i].regions[j].start < kdamonds'[i].regions[j].end
    BY <2>5, <2>7, <2>8
  <2>10. QED
    BY <2>7, <2>9 DEF RangeInv
<1>4. CASE KeepRegion
  BY <1>3, <1>4, KeepStep DEF Busy
<1>5. CASE SplitRegion
  BY <1>5 DEF SplitRegion, Splitting, RangeInv, Busy
<1>6. CASE Chunk
  <2>1. /\ Len(kdamonds') = Len(kdamonds) /\ kdamonds'[1].regions = Rest
        /\ \A i \in 2 .. Len(kdamonds) : kdamonds'[i] = kdamonds[i]
        /\ Busy /\ stage = "chunk" /\ stage' = stage
        /\ Kd.regions \in Seq(Region) /\ kdamonds # << >>
    BY <1>6, ChunkStep, RestType, WithRegionsType, HeadType DEF Busy, Kd, Kdamond
  <2>2. Len(Rest) = Len(Kd.regions) /\ \A j \in 2 .. Len(Kd.regions) : Rest[j] = Kd.regions[j]
    BY <1>6, ChunkStep, RestType
  <2>3. Len(kdamonds) \in Nat \ {0} /\ Len(Kd.regions) \in Nat /\ Kd = kdamonds[1]
    BY <2>1, DropHead DEF MigpolTypeOK, Kd
  <2>4. ASSUME NEW j \in 2 .. Len(Rest)
        PROVE  Rest[j].start < Rest[j].end
    BY <2>1, <2>2, <2>3 DEF RangeInv
  <2>5. ASSUME NEW i \in 2 .. Len(kdamonds')
        PROVE  /\ kdamonds'[i].regions # << >>
               /\ \A j \in 1 .. Len(kdamonds'[i].regions) :
                     kdamonds'[i].regions[j].start < kdamonds'[i].regions[j].end
    <3>1. i \in 2 .. Len(kdamonds) /\ i \in 1 .. Len(kdamonds) /\ i # 1
      BY <2>1, <2>3
    <3>2. QED
      BY <2>1, <3>1 DEF RangeInv
  <2>6. QED
    BY <2>1, <2>2, <2>3, <2>4, <2>5 DEF RangeInv
<1>7. CASE RegionSplit
  <2>1. kdamonds # << >> /\ Kd.regions # << >> /\ DropRegion /\ Busy
    BY <1>7 DEF RegionSplit, Splitting, StageInv, Busy
  <2>2. QED
    BY <1>3, <2>1
<1>8. CASE KdamondSplit
  <2>1. /\ kdamonds \in Seq(Kdamond) /\ kdamonds # << >> /\ kdamonds' = Tail(kdamonds)
        /\ Busy
    BY <1>8, KdamondStep DEF MigpolTypeOK, Busy
  <2>2. /\ Len(kdamonds') = Len(kdamonds) - 1 /\ Len(kdamonds) \in Nat \ {0}
        /\ \A i \in 1 .. Len(kdamonds) - 1 : kdamonds'[i] = kdamonds[i + 1]
    BY <2>1, DropHead
  <2>3. ASSUME NEW i \in 1 .. Len(kdamonds')
        PROVE  /\ kdamonds'[i].regions # << >>
               /\ \A j \in 1 .. Len(kdamonds'[i].regions) :
                     kdamonds'[i].regions[j].start < kdamonds'[i].regions[j].end
    <3>1. /\ i + 1 \in 2 .. Len(kdamonds) /\ i + 1 \in 1 .. Len(kdamonds) /\ i + 1 # 1
          /\ kdamonds'[i] = kdamonds[i + 1]
      BY <2>2
    <3>2. QED
      BY <2>1, <3>1 DEF RangeInv
  <2>4. QED
    BY <2>2, <2>3 DEF RangeInv
<1>9. CASE Output
  BY <1>9 DEF Output, RangeInv, Busy
<1>10. CASE UNCHANGED migpol
  BY <1>10 DEF migpol, RangeInv, Busy
<1>11. QED
  BY <1>1, <1>2, <1>4, <1>5, <1>6, <1>7, <1>8, <1>9, <1>10 DEF MigpolNext

LEMMA NextPolicy ==
    ASSUME MigpolTypeOK, StageInv, RangeInv, PolicyInv, [MigpolNext]_migpol
    PROVE  PolicyInv'
<1>1. CASE ParseArguments
  BY <1>1 DEF ParseArguments, PolicyInv, Busy
<1>2. ASSUME args' = args
      PROVE  Migrations' = Migrations /\ Rejected(Migrations)' = Rejected(Migrations)
  BY <1>2 DEF Migrations, Rejected
<1>3. CASE Check
  <2>1. args \in Args /\ args' = args /\ kdamonds = << >> /\ new_kdamonds = << >>
    BY <1>3 DEF Check, MigpolTypeOK, StageInv, Busy
  <2>2. CASE Rejected(Migrations)
    BY <1>3, <2>2 DEF Check, PolicyInv, Busy
  <2>3. CASE ~Rejected(Migrations) /\ args.region_max_size = NoLimit
    <3>1. new_kdamonds' = Migrations /\ kdamonds' = << >>
      BY <1>3, <2>1, <2>3 DEF Check
    <3>2. Triples(new_kdamonds') \cup Triples(kdamonds') = Triples(Migrations)
      BY <3>1, SetOfEmpty DEF Triples
    <3>3. QED
      BY <1>2, <2>1, <2>3, <3>1, <3>2 DEF PolicyInv, Triples
  <2>4. CASE ~Rejected(Migrations) /\ args.region_max_size # NoLimit
    <3>1. new_kdamonds' = << >> /\ kdamonds' = Migrations /\ stage' = "region"
      BY <1>3, <2>1, <2>4 DEF Check
    <3>2. Triples(new_kdamonds') \cup Triples(kdamonds') = Triples(Migrations)
      BY <3>1, SetOfEmpty DEF Triples
    <3>3. kdamonds' # << >> => Kd'.regions # << >>
      BY <2>1, <2>4, <3>1, Accepted, MigrationsType, DropHead DEF Kd
    <3>4. QED
      BY <1>2, <2>1, <2>4, <3>1, <3>2, <3>3 DEF PolicyInv, Triples, HeadDone
  <2>5. QED
    BY <2>2, <2>3, <2>4
<1>4. CASE KeepRegion
  <2>1. /\ Busy /\ kdamonds # << >> /\ Kd.regions # << >> /\ DropRegion /\ args' = args
        /\ new_kdamonds' = new_kdamonds /\ unsplit_regions' = Append(unsplit_regions, R)
    BY <1>4, KeepStep DEF Busy
  <2>2. Triples(kdamonds') = Triples(kdamonds)
    BY <2>1, DropStep, HeadTriples
  <2>3. unsplit_regions' # << >>
    <3>1. unsplit_regions \in Seq(Region) /\ R \in Region
      BY <2>1, DropStep DEF MigpolTypeOK
    <3>2. Len(unsplit_regions') = Len(unsplit_regions) + 1 /\ Len(unsplit_regions) \in Nat
      BY <2>1, <3>1, AppendLast
    <3>3. Len(unsplit_regions') # 0
      BY <3>2
    <3>4. QED
      BY <3>3
  <2>4. QED
    BY <1>2, <2>1, <2>2, <2>3 DEF PolicyInv, Triples
<1>5. CASE SplitRegion
  <2>1. /\ Busy /\ args' = args /\ kdamonds' = kdamonds /\ new_kdamonds' = new_kdamonds
        /\ kdamonds # << >> /\ Kd.regions # << >> /\ stage = "region"
    BY <1>5 DEF SplitRegion, Splitting, Busy
  <2>2. Kd' = Kd /\ R' = R
    BY <2>1 DEF Kd, R
  <2>3. /\ kdamonds \in Seq(Kdamond) /\ Kd = kdamonds[1] /\ Kd.regions \in Seq(Region)
    BY <2>1, HeadType DEF MigpolTypeOK, Kd, Kdamond
  <2>4. 1 \in 1 .. Len(kdamonds) /\ 1 \in 1 .. Len(Kd.regions)
    BY <2>1, <2>3, DropHead
  <2>5. R.start < R.end
    BY <2>1, <2>3, <2>4 DEF RangeInv, R
  <2>6. ~HeadDone'
    BY <2>1, <2>2, <2>5, HeadType DEF HeadDone
  <2>7. QED
    BY <1>2, <2>1, <2>6 DEF PolicyInv, Triples
<1>6. CASE Chunk
  <2> DEFINE made == WithRegions(<< UpTo(SubEnd) >>)
  <2>1. Busy /\ kdamonds # << >> /\ args' = args /\ kdamonds \in Seq(Kdamond)
    BY <1>6, ChunkStep DEF Busy, MigpolTypeOK
  <2>2. Triples(kdamonds') = Triples(kdamonds) /\ Triple(Kd') = Triple(Kd)
    BY <1>6, ChunkStep, RestType, HeadTriples
  <2>3. /\ made \in Kdamond /\ new_kdamonds' = Append(new_kdamonds, made)
        /\ new_kdamonds \in Seq(Kdamond)
    BY <1>6, ChunkStep DEF MigpolTypeOK
  <2>4. Triple(made) = Triple(Kd)
    BY <1>6, <2>1, ChunkStep, SubEndBounds, UpToType, WithRegionsType DEF Triple
  <2> HIDE DEF made
  <2>5. Triples(new_kdamonds') = Triples(new_kdamonds) \cup {Triple(Kd)}
    BY <2>3, <2>4, AppendTriples
  <2>6. Triple(Kd) \in Triples(kdamonds)
    BY <2>1, TailTriples DEF Kd
  <2>7. QED
    BY <1>2, <2>1, <2>2, <2>5, <2>6 DEF PolicyInv, Triples, Triple
<1>7. CASE RegionSplit
  <2>1. /\ Busy /\ kdamonds # << >> /\ Kd.regions # << >> /\ DropRegion /\ args' = args
        /\ new_kdamonds' = new_kdamonds /\ unsplit_regions' = unsplit_regions /\ HeadDone
    BY <1>7 DEF RegionSplit, Splitting, StageInv, Busy, HeadDone
  <2>2. Triples(kdamonds') = Triples(kdamonds) /\ Triple(Kd') = Triple(Kd)
    BY <2>1, DropStep, HeadTriples
  <2>3. QED
    BY <1>2, <2>1, <2>2 DEF PolicyInv, Triples, Triple
<1>8. CASE KdamondSplit
  <2>1. /\ Busy /\ kdamonds # << >> /\ kdamonds \in Seq(Kdamond) /\ args' = args
        /\ kdamonds' = Tail(kdamonds) /\ HeadDone /\ stage' = "region"
        /\ new_kdamonds \in Seq(Kdamond)
    BY <1>8, KdamondStep DEF Busy, MigpolTypeOK, HeadDone
  <2>2. Triples(kdamonds) = {Triple(Kd)} \cup Triples(kdamonds')
    BY <2>1, TailTriples DEF Kd
  <2>3. Triple(WithRegions(unsplit_regions)) = Triple(Kd)
    BY <2>1, WithRegionsType DEF MigpolTypeOK, Triple
  <2>4. Triples(new_kdamonds') \cup {Triple(Kd)} = Triples(new_kdamonds) \cup {Triple(Kd)}
        /\ Triple(Kd) \in Triples(new_kdamonds')
    <3>1. CASE unsplit_regions = << >>
      BY <1>8, <2>1, <3>1, KdamondStep DEF PolicyInv
    <3>2. CASE unsplit_regions # << >>
      <4>1. /\ new_kdamonds' = Append(new_kdamonds, WithRegions(unsplit_regions))
            /\ WithRegions(unsplit_regions) \in Kdamond
        BY <1>8, <3>2, KdamondStep
      <4>2. QED
        BY <2>1, <2>3, <4>1, AppendTriples
    <3>3. QED
      BY <3>1, <3>2
  <2>5. kdamonds' # << >> => Kd'.regions # << >>
    <3>1. ASSUME kdamonds' # << >>
          PROVE  2 \in 2 .. Len(kdamonds) /\ kdamonds'[1] = kdamonds[2]
      BY <2>1, <3>1
    <3>2. QED
      BY <2>1, <3>1 DEF RangeInv, Kd
  <2>6. QED
    BY <1>2, <2>1, <2>2, <2>4, <2>5 DEF PolicyInv, Triples, HeadDone
<1>9. CASE Output
  BY <1>2, <1>9 DEF Output, PolicyInv, Busy, Triples
<1>10. CASE UNCHANGED migpol
  BY <1>2, <1>10 DEF migpol, PolicyInv, Busy, Triples, HeadDone, Kd, R, Triple
<1>11. QED
  BY <1>1, <1>3, <1>4, <1>5, <1>6, <1>7, <1>8, <1>9, <1>10 DEF MigpolNext

LEMMA InitPolicy == MigpolInit => RangeInv /\ PolicyInv
  BY DEF MigpolInit, RangeInv, PolicyInv, Busy

\* The configuration has the migrations that were asked for and no others, and no node
\* is the source of two of them (gen_migpol.py:141-161, 205-236), however the kdamonds
\* were split.
THEOREM PolicyIsAsAsked == MigpolSpec => []PolicyAsAsked
<1>1. /\ MigpolTypeOK /\ StageInv /\ RangeInv /\ PolicyInv /\ [MigpolNext]_migpol
      => MigpolTypeOK' /\ StageInv' /\ RangeInv' /\ PolicyInv'
  BY NextType, NextRange, NextPolicy
<1>2. MigpolTypeOK /\ StageInv /\ PolicyInv => PolicyAsAsked
  <2> SUFFICES ASSUME MigpolTypeOK, StageInv, PolicyInv, stage = "done"
               PROVE  PolicyAsAsked
    BY DEF PolicyAsAsked
  <2>1. args \in Args /\ kdamonds = << >> /\ ~Rejected(Migrations)
    BY DEF MigpolTypeOK, StageInv, Busy, PolicyInv
  <2>2. Triples(new_kdamonds) = Triples(Migrations)
    BY <2>1, SetOfEmpty DEF PolicyInv, Triples
  <2>3. {<<kd.action, kd.src, kd.dest>> : kd \in ToSet(new_kdamonds)} = Triples(Migrations)
    BY <2>2 DEF Triples, Triple
  <2>4. Triples(Migrations) = Asked
    BY <2>1, MigrationsAre
  <2>5. ASSUME NEW a \in Triples(Migrations), NEW b \in Triples(Migrations), a[2] = b[2]
        PROVE  a = b
    <3>1. Migrations \in Seq(Kdamond)
      BY <2>1, MigrationsType
    <3>2. PICK i \in 1 .. Len(Migrations) : a = Triple(Migrations[i])
      BY <3>1 DEF Triples, ToSet
    <3>3. PICK j \in 1 .. Len(Migrations) : b = Triple(Migrations[j])
      BY <3>1 DEF Triples, ToSet
    <3>4. Migrations[i].src = Migrations[j].src
      BY <2>5, <3>2, <3>3 DEF Triple
    <3>5. i = j
      BY <2>1, <3>4, Accepted
    <3>6. QED
      BY <3>2, <3>3, <3>5
  <2>6. QED
    BY <2>3, <2>4, <2>5 DEF PolicyAsAsked
<1>3. QED
  BY InitType, InitPolicy, <1>1, <1>2, PTL DEF MigpolSpec

-----------------------------------------------------------------------------
(* Every address of a node comes out, and once.                            *)
(* An address is in region p of kdamond i, or in a region of kdamond m.    *)
Covers(r, x) == r.start <= x /\ x < r.end

In(x, regions) == \E i \in 1 .. Len(regions) : Covers(regions[i], x)

At(kds, i, p, x) ==
    i \in 1 .. Len(kds) /\ p \in 1 .. Len(kds[i].regions) /\ Covers(kds[i].regions[p], x)

MadeAt(kds, m, x) == m \in 1 .. Len(kds) /\ In(x, kds[m].regions)

Left(kds, s, x) == \E i, p \in Int : At(kds, i, p, x) /\ kds[i].src = s
Made(kds, s, x) == \E m \in Int : MadeAt(kds, m, x) /\ kds[m].src = s

LEMMA MadeAppend ==
    ASSUME NEW kds \in Seq(Kdamond), NEW kd \in Kdamond
    PROVE  /\ \A m, x \in Int : MadeAt(Append(kds, kd), m, x) <=>
                 \/ MadeAt(kds, m, x)
                 \/ m = Len(kds) + 1 /\ In(x, kd.regions)
           /\ \A s \in Nodes, x \in Int : Made(Append(kds, kd), s, x) <=>
                 \/ Made(kds, s, x)
                 \/ kd.src = s /\ In(x, kd.regions)
<1> DEFINE new == Append(kds, kd)
<1>1. /\ Len(kds) \in Nat /\ Len(new) = Len(kds) + 1 /\ new[Len(kds) + 1] = kd
      /\ \A i \in 1 .. Len(kds) : new[i] = kds[i]
  BY AppendLast
<1> HIDE DEF new
<1>2. ASSUME NEW m \in Int, NEW x \in Int
      PROVE  MadeAt(new, m, x) <=>
                 \/ MadeAt(kds, m, x)
                 \/ m = Len(kds) + 1 /\ In(x, kd.regions)
  <2>1. m \in 1 .. Len(new) <=> m \in 1 .. Len(kds) \/ m = Len(kds) + 1
    BY <1>1
  <2>2. m = Len(kds) + 1 => m \notin 1 .. Len(kds)
    BY <1>1
  <2>3. QED
    BY <1>1, <2>1, <2>2 DEF MadeAt, In
<1>3. ASSUME NEW s \in Nodes, NEW x \in Int
      PROVE  Made(new, s, x) <=>
                 \/ Made(kds, s, x)
                 \/ kd.src = s /\ In(x, kd.regions)
  <2>1. \A m \in Int : MadeAt(kds, m, x) => new[m] = kds[m]
    BY <1>1 DEF MadeAt
  <2>2. Len(kds) + 1 \in Int
    BY <1>1
  <2>3. QED
    BY <1>1, <1>2, <2>1, <2>2 DEF Made
<1>4. QED
  BY <1>2, <1>3 DEF new

LEMMA DropAt ==
    ASSUME MigpolTypeOK, kdamonds # << >>, Kd.regions # << >>, DropRegion
    PROVE  /\ \A i, p, x \in Int : At(kdamonds', i, p, x) <=>
                 IF i = 1 THEN p # 0 /\ At(kdamonds, 1, p + 1, x) ELSE At(kdamonds, i, p, x)
           /\ \A i \in 1 .. Len(kdamonds) : kdamonds'[i].src = kdamonds[i].src
           /\ Kd'.src = Kd.src
           /\ \A x \in Int : At(kdamonds, 1, 1, x) <=> Covers(R, x)
<1>1. /\ Len(kdamonds') = Len(kdamonds) /\ Kd'.src = Kd.src /\ Kd'.regions = Tail(Kd.regions)
      /\ \A i \in 2 .. Len(kdamonds) : kdamonds'[i] = kdamonds[i]
  BY DropStep, WithRegionsType
<1>2. /\ kdamonds[1] = Kd /\ kdamonds'[1] = Kd' /\ kdamonds \in Seq(Kdamond)
      /\ Kd.regions \in Seq(Region) /\ R = Kd.regions[1]
  BY HeadType DEF Kd, MigpolTypeOK, Kdamond, R
<1>3. Len(kdamonds) \in Nat \ {0} /\ Len(Kd.regions) \in Nat \ {0}
  BY <1>2, DropHead
<1>4. /\ Len(Tail(Kd.regions)) = Len(Kd.regions) - 1
      /\ \A q \in 1 .. Len(Kd.regions) - 1 : Tail(Kd.regions)[q] = Kd.regions[q + 1]
  BY <1>2, DropHead
<1>5. ASSUME NEW p \in Int, NEW x \in Int
      PROVE  At(kdamonds', 1, p, x) <=> p # 0 /\ At(kdamonds, 1, p + 1, x)
  <2>1. p \in 1 .. Len(Kd.regions) - 1 <=> p # 0 /\ p + 1 \in 1 .. Len(Kd.regions)
    BY <1>3
  <2>2. 1 \in 1 .. Len(kdamonds)
    BY <1>3
  <2>3. At(kdamonds', 1, p, x) <=>
           p \in 1 .. Len(Kd.regions) - 1 /\ Covers(Tail(Kd.regions)[p], x)
    BY <1>1, <1>2, <1>4, <2>2 DEF At
  <2>4. At(kdamonds, 1, p + 1, x) <=>
           p + 1 \in 1 .. Len(Kd.regions) /\ Covers(Kd.regions[p + 1], x)
    BY <1>2, <2>2 DEF At
  <2>5. QED
    BY <1>4, <2>1, <2>3, <2>4
<1>6. ASSUME NEW i \in Int, NEW p \in Int, NEW x \in Int, i # 1
      PROVE  At(kdamonds', i, p, x) <=> At(kdamonds, i, p, x)
  <2>1. i \in 1 .. Len(kdamonds) => i \in 2 .. Len(kdamonds)
    BY <1>3, <1>6
  <2>2. QED
    BY <1>1, <2>1 DEF At
<1>7. \A i \in 1 .. Len(kdamonds) : i = 1 \/ i \in 2 .. Len(kdamonds)
  BY <1>3
<1>8. \A x \in Int : At(kdamonds, 1, 1, x) <=> Covers(R, x)
  BY <1>2, <1>3 DEF At
<1>9. QED
  BY <1>1, <1>2, <1>5, <1>6, <1>7, <1>8

LEMMA DropLeft ==
    ASSUME MigpolTypeOK, kdamonds # << >>, Kd.regions # << >>, DropRegion,
           NEW s \in Nodes, NEW x \in Int
    PROVE  Left(kdamonds, s, x) <=> Left(kdamonds', s, x) \/ (Kd.src = s /\ Covers(R, x))
<1>1. \A i, p \in Int : At(kdamonds, i, p, x) => i \in 1 .. Len(kdamonds)
  BY DEF At
<1>2. \A i, p \in Int : At(kdamonds', i, p, x) => i \in 1 .. Len(kdamonds)
  BY DropStep DEF At
<1>3. ASSUME NEW i \in Int, NEW p \in Int, At(kdamonds, i, p, x), kdamonds[i].src = s
      PROVE  Left(kdamonds', s, x) \/ (Kd.src = s /\ Covers(R, x))
  <2>1. CASE i = 1 /\ p = 1
    BY <1>3, <2>1, DropAt DEF Kd
  <2>2. CASE i = 1 /\ p # 1
    <3>1. p - 1 \in Int /\ p - 1 # 0 /\ (p - 1) + 1 = p
      BY <2>2
    <3>2. At(kdamonds', 1, p - 1, x)
      BY <1>3, <2>2, <3>1, DropAt
    <3>3. QED
      BY <1>1, <1>3, <2>2, <3>1, <3>2, DropAt DEF Left
  <2>3. CASE i # 1
    BY <1>1, <1>3, <2>3, DropAt DEF Left
  <2>4. QED
    BY <2>1, <2>2, <2>3
<1>4. ASSUME NEW i \in Int, NEW p \in Int, At(kdamonds', i, p, x), kdamonds'[i].src = s
      PROVE  Left(kdamonds, s, x)
  <2>1. kdamonds[i].src = s
    BY <1>2, <1>4, DropAt
  <2>2. i = 1 => At(kdamonds, 1, p + 1, x) /\ p + 1 \in Int
    BY <1>4, DropAt
  <2>3. i # 1 => At(kdamonds, i, p, x)
    BY <1>4, DropAt
  <2>4. QED
    BY <2>1, <2>2, <2>3 DEF Left
<1>5. Kd.src = s /\ Covers(R, x) => Left(kdamonds, s, x)
  BY DropAt DEF Left, Kd
<1>6. QED
  BY <1>3, <1>4, <1>5 DEF Left

\* A chunk cuts the region at SubEnd.
LEMMA ChunkAt ==
    ASSUME MigpolTypeOK, StageInv, Chunk
    PROVE  /\ \A i, p, x \in Int : At(kdamonds', i, p, x) <=>
                 IF i = 1 /\ p = 1 THEN SubEnd <= x /\ x < R.end ELSE At(kdamonds, i, p, x)
           /\ \A i \in 1 .. Len(kdamonds) : kdamonds'[i].src = kdamonds[i].src
           /\ Len(kdamonds') = Len(kdamonds) /\ Kd'.src = Kd.src
           /\ \A x \in Int : At(kdamonds, 1, 1, x) <=> R.start <= x /\ x < R.end
           /\ \A x \in Int : In(x, << UpTo(SubEnd) >>) <=> R.start <= x /\ x < SubEnd
<1>1. /\ kdamonds # << >> /\ Kd.regions # << >> /\ args.region_max_size \in Int
      /\ Len(kdamonds') = Len(kdamonds) /\ Kd'.src = Kd.src /\ Kd'.regions = Rest
      /\ \A i \in 2 .. Len(kdamonds) : kdamonds'[i] = kdamonds[i]
  BY ChunkStep, RestType, WithRegionsType
<1>2. /\ kdamonds[1] = Kd /\ kdamonds'[1] = Kd' /\ kdamonds \in Seq(Kdamond)
      /\ Kd.regions \in Seq(Region) /\ R = Kd.regions[1]
  BY <1>1, HeadType DEF Kd, MigpolTypeOK, Kdamond, R
<1>3. Len(kdamonds) \in Nat \ {0} /\ Len(Kd.regions) \in Nat \ {0}
  BY <1>1, <1>2, DropHead
<1>4. /\ Len(Rest) = Len(Kd.regions) /\ Rest[1].start = SubEnd /\ Rest[1].end = R.end
      /\ \A q \in 2 .. Len(Kd.regions) : Rest[q] = Kd.regions[q]
  BY <1>1, RestType
<1>5. ASSUME NEW p \in Int, NEW x \in Int
      PROVE  At(kdamonds', 1, p, x) <=>
                 IF p = 1 THEN SubEnd <= x /\ x < R.end ELSE At(kdamonds, 1, p, x)
  <2>1. 1 \in 1 .. Len(kdamonds)
    BY <1>3
  <2>2. At(kdamonds', 1, p, x) <=> p \in 1 .. Len(Kd.regions) /\ Covers(Rest[p], x)
    BY <1>1, <1>2, <1>4, <2>1 DEF At
  <2>3. At(kdamonds, 1, p, x) <=> p \in 1 .. Len(Kd.regions) /\ Covers(Kd.regions[p], x)
    BY <1>2, <2>1 DEF At
  <2>4. p \in 1 .. Len(Kd.regions) => p = 1 \/ p \in 2 .. Len(Kd.regions)
    BY <1>3
  <2>5. 1 \in 1 .. Len(Kd.regions)
    BY <1>3
  <2>6. Covers(Rest[1], x) <=> SubEnd <= x /\ x < R.end
    BY <1>4 DEF Covers
  <2>7. QED
    BY <1>4, <2>2, <2>3, <2>4, <2>5, <2>6
<1>6. ASSUME NEW i \in Int, NEW p \in Int, NEW x \in Int, i # 1
      PROVE  At(kdamonds', i, p, x) <=> At(kdamonds, i, p, x)
  <2>1. i \in 1 .. Len(kdamonds) => i \in 2 .. Len(kdamonds)
    BY <1>3, <1>6
  <2>2. QED
    BY <1>1, <2>1 DEF At
<1>7. \A i \in 1 .. Len(kdamonds) : i = 1 \/ i \in 2 .. Len(kdamonds)
  BY <1>3
<1>8. \A x \in Int : At(kdamonds, 1, 1, x) <=> R.start <= x /\ x < R.end
  BY <1>2, <1>3 DEF At, Covers
<1>9. \A x \in Int : In(x, << UpTo(SubEnd) >>) <=> R.start <= x /\ x < SubEnd
  <2>1. UpTo(SubEnd).start = R.start /\ UpTo(SubEnd).end = SubEnd
    BY <1>1, SubEndBounds, UpToType
  <2> DEFINE made == << UpTo(SubEnd) >>
  <2>2. Len(made) = 1 /\ made[1] = UpTo(SubEnd)
    OBVIOUS
  <2> HIDE DEF made
  <2>3. \A x \in Int : In(x, made) <=> R.start <= x /\ x < SubEnd
    BY <2>1, <2>2 DEF In, Covers
  <2>4. QED
    BY <2>3 DEF made
<1>10. QED
  BY <1>1, <1>2, <1>5, <1>6, <1>7, <1>8, <1>9

LEMMA ChunkLeft ==
    ASSUME MigpolTypeOK, StageInv, Chunk, args.region_max_size > 0,
           NEW s \in Nodes, NEW x \in Int
    PROVE  /\ Left(kdamonds, s, x) <=>
                  \/ Left(kdamonds', s, x)
                  \/ Kd.src = s /\ R.start <= x /\ x < SubEnd
           /\ R.start < SubEnd /\ SubEnd <= R.end
<1>1. R.start \in Int /\ R.end \in Int /\ R.start < SubEnd /\ SubEnd <= R.end /\ SubEnd \in Int
  BY ChunkStep, HeadType, SubEndBounds
<1>2. \A i, p \in Int : At(kdamonds, i, p, x) \/ At(kdamonds', i, p, x) =>
                            i \in 1 .. Len(kdamonds)
  BY ChunkAt DEF At
<1>3. ASSUME NEW i \in Int, NEW p \in Int, At(kdamonds, i, p, x), kdamonds[i].src = s
      PROVE  Left(kdamonds', s, x) \/ (Kd.src = s /\ R.start <= x /\ x < SubEnd)
  <2>1. CASE i = 1 /\ p = 1 /\ x < SubEnd
    BY <1>3, <2>1, ChunkAt DEF Kd
  <2>2. CASE ~(i = 1 /\ p = 1 /\ x < SubEnd)
    <3>1. At(kdamonds', i, p, x)
      <4>1. CASE i = 1 /\ p = 1
        <5>1. x < R.end /\ SubEnd <= x
          BY <1>1, <1>3, <2>2, <4>1, ChunkAt
        <5>2. QED
          BY <4>1, <5>1, ChunkAt
      <4>2. CASE ~(i = 1 /\ p = 1)
        BY <1>3, <4>2, ChunkAt
      <4>3. QED
        BY <4>1, <4>2
    <3>2. QED
      BY <1>2, <1>3, <3>1, ChunkAt DEF Left
  <2>3. QED
    BY <2>1, <2>2
<1>4. ASSUME NEW i \in Int, NEW p \in Int, At(kdamonds', i, p, x), kdamonds'[i].src = s
      PROVE  Left(kdamonds, s, x)
  <2>1. kdamonds[i].src = s
    BY <1>2, <1>4, ChunkAt
  <2>2. At(kdamonds, i, p, x)
    <3>1. CASE i = 1 /\ p = 1
      <4>1. SubEnd <= x /\ x < R.end
        BY <1>4, <3>1, ChunkAt
      <4>2. R.start <= x
        BY <1>1, <4>1
      <4>3. QED
        BY <3>1, <4>1, <4>2, ChunkAt
    <3>2. CASE ~(i = 1 /\ p = 1)
      BY <1>4, <3>2, ChunkAt
    <3>3. QED
      BY <3>1, <3>2
  <2>3. QED
    BY <2>1, <2>2 DEF Left
<1>5. Kd.src = s /\ R.start <= x /\ x < SubEnd => Left(kdamonds, s, x)
  <2>1. R.start <= x /\ x < SubEnd => At(kdamonds, 1, 1, x)
    BY <1>1, ChunkAt
  <2>2. QED
    BY <2>1 DEF Left, Kd
<1>6. QED
  BY <1>1, <1>3, <1>4, <1>5 DEF Left

LEMMA TailAt ==
    ASSUME MigpolTypeOK, kdamonds # << >>, Kd.regions = << >>, kdamonds' = Tail(kdamonds)
    PROVE  /\ \A i, p, x \in Int : At(kdamonds', i, p, x) <=> i # 0 /\ At(kdamonds, i + 1, p, x)
           /\ \A p, x \in Int : ~At(kdamonds, 1, p, x)
           /\ \A s \in Nodes, x \in Int : Left(kdamonds', s, x) <=> Left(kdamonds, s, x)
<1>1. /\ Len(kdamonds') = Len(kdamonds) - 1 /\ Len(kdamonds) \in Nat \ {0}
      /\ \A i \in 1 .. Len(kdamonds) - 1 : kdamonds'[i] = kdamonds[i + 1]
  BY DropHead DEF MigpolTypeOK
<1>2. ASSUME NEW i \in Int, NEW p \in Int, NEW x \in Int
      PROVE  At(kdamonds', i, p, x) <=> i # 0 /\ At(kdamonds, i + 1, p, x)
  <2>1. i \in 1 .. Len(kdamonds) - 1 <=> i # 0 /\ i + 1 \in 1 .. Len(kdamonds)
    BY <1>1
  <2>2. QED
    BY <1>1, <2>1 DEF At
<1>3. \A p, x \in Int : ~At(kdamonds, 1, p, x)
  BY DEF At, Kd
<1>4. ASSUME NEW s \in Nodes, NEW x \in Int
      PROVE  Left(kdamonds', s, x) <=> Left(kdamonds, s, x)
  <2>1. ASSUME NEW i \in Int, NEW p \in Int, At(kdamonds, i, p, x), kdamonds[i].src = s
        PROVE  Left(kdamonds', s, x)
    <3>1. i \in 1 .. Len(kdamonds) /\ i # 1
      BY <1>3, <2>1 DEF At
    <3>2. i - 1 \in 1 .. Len(kdamonds) - 1 /\ (i - 1) + 1 = i
      BY <1>1, <3>1
    <3>3. At(kdamonds', i - 1, p, x) /\ kdamonds'[i - 1].src = s
      BY <1>1, <1>2, <2>1, <3>2
    <3>4. QED
      BY <3>2, <3>3 DEF Left
  <2>2. ASSUME NEW i \in Int, NEW p \in Int, At(kdamonds', i, p, x), kdamonds'[i].src = s
        PROVE  Left(kdamonds, s, x)
    <3>1. i \in 1 .. Len(kdamonds) - 1
      BY <1>1, <2>2 DEF At
    <3>2. QED
      BY <1>1, <1>2, <2>2, <3>1 DEF Left
  <2>3. QED
    BY <2>1, <2>2 DEF Left
<1>5. QED
  BY <1>2, <1>3, <1>4

LEMMA InAppend ==
    ASSUME NEW regions \in Seq(Region), NEW r \in Region, NEW x \in Int
    PROVE  In(x, Append(regions, r)) <=> In(x, regions) \/ Covers(r, x)
<1> DEFINE new == Append(regions, r)
<1>1. /\ \A i \in 1 .. Len(regions) : i \in 1 .. Len(new) /\ new[i] = regions[i]
      /\ Len(regions) + 1 \in 1 .. Len(new) /\ new[Len(regions) + 1] = r
      /\ \A i \in 1 .. Len(new) : \/ i \in 1 .. Len(regions) /\ new[i] = regions[i]
                                  \/ i = Len(regions) + 1 /\ new[i] = r
  BY AppendLast, AppendMember
<1> HIDE DEF new
<1>2. In(x, new) <=> In(x, regions) \/ Covers(r, x)
  BY <1>1 DEF In
<1>3. QED
  BY <1>2 DEF new

LEMMA NothingIn ==
    /\ \A x : ~In(x, << >>)
    /\ \A i, p, x : ~At(<< >>, i, p, x)
    /\ \A m, x : ~MadeAt(<< >>, m, x)
    /\ \A s, x : ~Left(<< >>, s, x) /\ ~Made(<< >>, s, x)
  BY DEF In, At, MadeAt, Left, Made

LEMMA MadeAsLeft ==
    ASSUME NEW kds \in Seq(Kdamond)
    PROVE  /\ \A m, x \in Int : MadeAt(kds, m, x) <=> \E p \in Int : At(kds, m, p, x)
           /\ \A s \in Nodes, x \in Int : Made(kds, s, x) <=> Left(kds, s, x)
<1>1. ASSUME NEW m \in Int, NEW x \in Int
      PROVE  MadeAt(kds, m, x) <=> \E p \in Int : At(kds, m, p, x)
  BY DEF MadeAt, In, At
<1>2. QED
  BY <1>1 DEF Made, Left

\* The maximum leaves room for a chunk.
Positive == args.region_max_size = NoLimit \/ args.region_max_size > 0

Held(s, x) == kdamonds # << >> /\ Kd.src = s /\ In(x, unsplit_regions)

\* An address of a source node is made, held back with small regions, or still to be split.
CoverInv ==
    Positive /\ (Busy \/ stage = "done") =>
        \A s \in Nodes, x \in Int :
            Left(Migrations, s, x) <=> \/ Made(new_kdamonds, s, x)
                                      \/ Held(s, x)
                                      \/ Left(kdamonds, s, x)

LEMMA NextCover ==
    ASSUME MigpolTypeOK, StageInv, CoverInv, [MigpolNext]_migpol
    PROVE  CoverInv'
<1> SUFFICES ASSUME Positive', Busy' \/ stage' = "done", NEW s \in Nodes, NEW x \in Int
             PROVE  Left(Migrations', s, x) <=> \/ Made(new_kdamonds', s, x)
                                               \/ Held(s, x)'
                                               \/ Left(kdamonds', s, x)
  BY DEF CoverInv, Left, Made, Held, At, MadeAt
<1>1. CASE ParseArguments
  BY <1>1 DEF ParseArguments, Busy
<1>2. ASSUME args' = args
      PROVE  Migrations' = Migrations /\ Positive
  BY <1>2 DEF Migrations, Positive
<1>3. ASSUME args' = args, Busy \/ stage = "done"
      PROVE  Left(Migrations', s, x) <=> \/ Made(new_kdamonds, s, x)
                                        \/ Held(s, x)
                                        \/ Left(kdamonds, s, x)
  BY <1>2, <1>3 DEF CoverInv
<1>4. CASE Check
  <2>1. /\ args' = args /\ args \in Args /\ kdamonds = << >> /\ new_kdamonds = << >>
        /\ unsplit_regions' = << >>
    BY <1>4 DEF Check, MigpolTypeOK, StageInv, Busy
  <2>2. \/ new_kdamonds' = Migrations /\ kdamonds' = << >>
        \/ new_kdamonds' = << >> /\ kdamonds' = Migrations
    BY <1>4, <2>1 DEF Check, Busy
  <2>3. ~Held(s, x)'
    BY <2>1, NothingIn DEF Held
  <2>4. Made(Migrations, s, x) <=> Left(Migrations, s, x)
    BY <2>1, MigrationsType, MadeAsLeft
  <2>5. QED
    BY <1>2, <2>1, <2>2, <2>3, <2>4, NothingIn
<1>5. CASE KeepRegion
  <2>1. /\ Busy /\ kdamonds # << >> /\ Kd.regions # << >> /\ DropRegion /\ args' = args
        /\ new_kdamonds' = new_kdamonds /\ unsplit_regions' = Append(unsplit_regions, R)
    BY <1>5, KeepStep DEF Busy
  <2>2. kdamonds' # << >> /\ Kd'.src = Kd.src /\ R \in Region
    BY <2>1, DropStep, WithRegionsType
  <2>3. Left(kdamonds, s, x) <=> Left(kdamonds', s, x) \/ (Kd.src = s /\ Covers(R, x))
    BY <2>1, DropLeft
  <2>4. In(x, unsplit_regions') <=> In(x, unsplit_regions) \/ Covers(R, x)
    BY <2>1, <2>2, InAppend DEF MigpolTypeOK
  <2>5. Held(s, x)' <=> Held(s, x) \/ (Kd.src = s /\ Covers(R, x))
    BY <2>1, <2>2, <2>4 DEF Held
  <2>6. QED
    BY <1>3, <2>1, <2>3, <2>5
<1>6. CASE SplitRegion
  <2>1. /\ Busy /\ args' = args /\ new_kdamonds' = new_kdamonds /\ kdamonds' = kdamonds
        /\ unsplit_regions' = unsplit_regions
    BY <1>6 DEF SplitRegion, Splitting, Busy
  <2>2. Held(s, x)' <=> Held(s, x)
    BY <2>1 DEF Held, Kd
  <2>3. QED
    BY <1>3, <2>1, <2>2
<1>7. CASE Chunk
  <2> DEFINE made == WithRegions(<< UpTo(SubEnd) >>)
  <2>1. /\ Busy /\ kdamonds # << >> /\ kdamonds' # << >> /\ args' = args
        /\ Kd.regions # << >> /\ args.region_max_size \in Int
        /\ unsplit_regions' = unsplit_regions
    BY <1>7, ChunkStep DEF Busy
  <2>2. args.region_max_size > 0
    BY <1>2, <2>1, GenMigpolAssumption DEF Positive
  <2>3. /\ made \in Kdamond /\ new_kdamonds' = Append(new_kdamonds, made)
        /\ new_kdamonds \in Seq(Kdamond)
    BY <1>7, ChunkStep DEF MigpolTypeOK
  <2>4. made.src = Kd.src /\ made.regions = << UpTo(SubEnd) >>
    BY <2>1, SubEndBounds, UpToType, WithRegionsType
  <2> HIDE DEF made
  <2>5. Made(new_kdamonds', s, x) <=>
           Made(new_kdamonds, s, x) \/ (Kd.src = s /\ R.start <= x /\ x < SubEnd)
    <3>1. In(x, made.regions) <=> R.start <= x /\ x < SubEnd
      BY <1>7, <2>4, ChunkAt
    <3>2. Made(new_kdamonds', s, x) <=>
             Made(new_kdamonds, s, x) \/ (made.src = s /\ In(x, made.regions))
      <4>1. \A kds : kds = new_kdamonds' => (Made(kds, s, x) <=>
               Made(new_kdamonds, s, x) \/ (made.src = s /\ In(x, made.regions)))
        BY <2>3, MadeAppend
      <4>2. QED
        BY <4>1
    <3>3. QED
      BY <2>4, <3>1, <3>2
  <2>6. Left(kdamonds, s, x) <=>
           Left(kdamonds', s, x) \/ (Kd.src = s /\ R.start <= x /\ x < SubEnd)
    BY <1>7, <2>2, ChunkLeft
  <2>7. Held(s, x)' <=> Held(s, x)
    BY <1>7, <2>1, ChunkAt DEF Held
  <2>8. QED
    BY <1>3, <2>1, <2>5, <2>6, <2>7
<1>8. CASE RegionSplit
  <2>1. /\ Busy /\ kdamonds # << >> /\ Kd.regions # << >> /\ DropRegion /\ args' = args
        /\ new_kdamonds' = new_kdamonds /\ unsplit_regions' = unsplit_regions
        /\ R.start >= R.end
    BY <1>8 DEF RegionSplit, Splitting, StageInv, Busy
  <2>2. kdamonds' # << >> /\ Kd'.src = Kd.src /\ R.start \in Int /\ R.end \in Int
    BY <2>1, DropStep, WithRegionsType, HeadType
  <2>3. ~Covers(R, x)
    BY <2>1, <2>2 DEF Covers
  <2>4. Left(kdamonds, s, x) <=> Left(kdamonds', s, x)
    BY <2>1, <2>3, DropLeft
  <2>5. Held(s, x)' <=> Held(s, x)
    BY <2>1, <2>2 DEF Held
  <2>6. QED
    BY <1>3, <2>1, <2>4, <2>5
<1>9. CASE KdamondSplit
  <2> DEFINE made == WithRegions(unsplit_regions)
  <2>1. /\ Busy /\ kdamonds # << >> /\ Kd.regions = << >> /\ kdamonds' = Tail(kdamonds)
        /\ args' = args /\ unsplit_regions' = << >> /\ new_kdamonds \in Seq(Kdamond)
    BY <1>9, KdamondStep DEF Busy, MigpolTypeOK
  <2>2. made \in Kdamond /\ made.src = Kd.src /\ made.regions = unsplit_regions
    BY <2>1, WithRegionsType DEF MigpolTypeOK
  <2>3. Left(kdamonds', s, x) <=> Left(kdamonds, s, x)
    BY <2>1, TailAt
  <2>4. ~Held(s, x)'
    BY <2>1, NothingIn DEF Held
  <2>5. Made(new_kdamonds', s, x) <=> Made(new_kdamonds, s, x) \/ Held(s, x)
    <3>1. CASE unsplit_regions = << >>
      BY <1>9, <3>1, KdamondStep, NothingIn DEF Held
    <3>2. CASE unsplit_regions # << >>
      <4>1. new_kdamonds' = Append(new_kdamonds, made)
        BY <1>9, <3>2, KdamondStep
      <4> HIDE DEF made
      <4>2. QED
        BY <2>1, <2>2, <4>1, MadeAppend DEF Held
    <3>3. QED
      BY <3>1, <3>2
  <2>6. QED
    BY <1>3, <2>1, <2>3, <2>4, <2>5
<1>10. CASE Output
  <2>1. /\ Busy /\ args' = args /\ new_kdamonds' = new_kdamonds /\ kdamonds' = kdamonds
        /\ unsplit_regions' = unsplit_regions
    BY <1>10 DEF Output, Busy
  <2>2. Held(s, x)' <=> Held(s, x)
    BY <2>1 DEF Held, Kd
  <2>3. QED
    BY <1>3, <2>1, <2>2
<1>11. CASE UNCHANGED migpol
  <2>1. /\ (Busy \/ stage = "done") /\ args' = args /\ new_kdamonds' = new_kdamonds
        /\ kdamonds' = kdamonds /\ unsplit_regions' = unsplit_regions
    BY <1>11 DEF migpol, Busy
  <2>2. Held(s, x)' <=> Held(s, x)
    BY <2>1 DEF Held, Kd
  <2>3. QED
    BY <1>3, <2>1, <2>2
<1>12. QED
  BY <1>1, <1>4, <1>5, <1>6, <1>7, <1>8, <1>9, <1>10, <1>11 DEF MigpolNext

\* An address is in one place.
Once(x) ==
    /\ \A m, n \in Int : MadeAt(new_kdamonds, m, x) /\ MadeAt(new_kdamonds, n, x) => m = n
    /\ \A m \in Int : MadeAt(new_kdamonds, m, x) =>
          ~In(x, unsplit_regions) /\ \A i, p \in Int : ~At(kdamonds, i, p, x)
    /\ In(x, unsplit_regions) => \A i, p \in Int : ~At(kdamonds, i, p, x)
    /\ \A i, p, j, q \in Int :
          At(kdamonds, i, p, x) /\ At(kdamonds, j, q, x) => i = j /\ p = q

OnceInv == Positive /\ (Busy \/ stage = "done") => \A x \in Int : Once(x)

LEMMA MigrationsOnce ==
    ASSUME args \in Args, ~Rejected(Migrations), NEW x \in Int,
           NEW i \in Int, NEW p \in Int, NEW j \in Int, NEW q \in Int,
           At(Migrations, i, p, x), At(Migrations, j, q, x)
    PROVE  i = j /\ p = q
<1> DEFINE a == Migrations[i].src
           b == Migrations[j].src
<1>1. /\ i \in 1 .. Len(Migrations) /\ j \in 1 .. Len(Migrations)
      /\ p \in 1 .. Len(Migrations[i].regions) /\ q \in 1 .. Len(Migrations[j].regions)
      /\ Covers(Migrations[i].regions[p], x) /\ Covers(Migrations[j].regions[q], x)
  BY DEF At
<1>2. /\ a \in Nodes /\ b \in Nodes
      /\ Migrations[i].regions = Regions[a] /\ Migrations[j].regions = Regions[b]
  BY <1>1, MigrationsAre
<1> HIDE DEF a, b
<1>3. Regions[a] \in Seq(Region) /\ Regions[b] \in Seq(Region)
  BY <1>2, GenMigpolAssumption
<1>4. /\ p \in 1 .. Len(Regions[a]) /\ q \in 1 .. Len(Regions[b])
      /\ Covers(Regions[a][p], x) /\ Covers(Regions[b][q], x)
  BY <1>1, <1>2
<1>5. Regions[a][p] \in Region /\ Regions[b][q] \in Region
  BY <1>3, <1>4
<1>6. /\ Regions[a][p].start \in Int /\ Regions[a][p].end \in Int
      /\ Regions[b][q].start \in Int /\ Regions[b][q].end \in Int
  BY <1>5 DEF Region
<1>7. <<a, p>> # <<b, q>> => \/ Regions[a][p].end <= Regions[b][q].start
                            \/ Regions[b][q].end <= Regions[a][p].start
  BY <1>2, <1>4, RegionsAssumption
<1>8. /\ Regions[a][p].start <= x /\ x < Regions[a][p].end
      /\ Regions[b][q].start <= x /\ x < Regions[b][q].end
  BY <1>4 DEF Covers
<1>9. <<a, p>> = <<b, q>>
  BY <1>6, <1>7, <1>8
<1>10. a = b /\ p = q
  BY <1>9
<1>11. i = j
  BY <1>1, <1>10, Accepted DEF a, b
<1>12. QED
  BY <1>10, <1>11

LEMMA NextOnce ==
    ASSUME MigpolTypeOK, StageInv, OnceInv, [MigpolNext]_migpol
    PROVE  OnceInv'
<1> SUFFICES ASSUME Positive', Busy' \/ stage' = "done", NEW x \in Int
             PROVE  Once(x)'
  BY DEF OnceInv
<1>1. CASE ParseArguments
  BY <1>1 DEF ParseArguments, Busy
<1>2. ASSUME args' = args, Busy \/ stage = "done"
      PROVE  Once(x)
  BY <1>2 DEF OnceInv, Positive
<1>3. CASE Check
  <2>1. /\ args' = args /\ args \in Args /\ kdamonds = << >> /\ new_kdamonds = << >>
        /\ unsplit_regions' = << >> /\ ~Rejected(Migrations)
    BY <1>3 DEF Check, MigpolTypeOK, StageInv, Busy
  <2>2. \/ new_kdamonds' = Migrations /\ kdamonds' = << >>
        \/ new_kdamonds' = << >> /\ kdamonds' = Migrations
    BY <1>3, <2>1 DEF Check, Busy
  <2>3. \A i, p, j, q \in Int :
           At(Migrations, i, p, x) /\ At(Migrations, j, q, x) => i = j /\ p = q
    BY <2>1, MigrationsOnce
  <2>4. \A m \in Int : MadeAt(Migrations, m, x) <=> \E p \in Int : At(Migrations, m, p, x)
    BY <2>1, MigrationsType, MadeAsLeft
  <2>5. ~In(x, << >>)
    BY NothingIn
  <2>6. QED
    BY <2>1, <2>2, <2>3, <2>4, <2>5, NothingIn DEF Once
<1>4. CASE KeepRegion
  <2>1. /\ Busy /\ kdamonds # << >> /\ Kd.regions # << >> /\ DropRegion /\ args' = args
        /\ new_kdamonds' = new_kdamonds /\ unsplit_regions' = Append(unsplit_regions, R)
    BY <1>4, KeepStep DEF Busy
  <2>2. R \in Region
    BY <2>1, DropStep
  <2>3. In(x, unsplit_regions') <=> In(x, unsplit_regions) \/ At(kdamonds, 1, 1, x)
    BY <2>1, <2>2, InAppend, DropAt DEF MigpolTypeOK
  <2>4. \A i, p \in Int : At(kdamonds', i, p, x) <=>
           IF i = 1 THEN p # 0 /\ At(kdamonds, 1, p + 1, x) ELSE At(kdamonds, i, p, x)
    BY <2>1, DropAt
  <2>5. Once(x)
    BY <1>2, <2>1
  <2>6. \A p, q \in Int : p + 1 \in Int /\ (p + 1 = q + 1 => p = q) /\ (p # 0 => p + 1 # 1)
    OBVIOUS
  <2>7. \A i, p \in Int : At(kdamonds', i, p, x) =>
           \E r \in Int : /\ At(kdamonds, i, r, x)
                          /\ i = 1 => r = p + 1 /\ r # 1
                          /\ i # 1 => r = p
    BY <2>4, <2>6
  <2>8. In(x, unsplit_regions') => \A i, p \in Int : ~At(kdamonds', i, p, x)
    <3>1. CASE In(x, unsplit_regions)
      BY <2>5, <2>7, <3>1 DEF Once
    <3>2. CASE At(kdamonds, 1, 1, x)
      <4>1. \A i, r \in Int : At(kdamonds, i, r, x) => i = 1 /\ r = 1
        BY <2>5, <3>2 DEF Once
      <4>2. QED
        BY <2>7, <4>1
    <3>3. QED
      BY <2>3, <3>1, <3>2
  <2>9. \A m \in Int : MadeAt(new_kdamonds, m, x) =>
           ~In(x, unsplit_regions') /\ \A i, p \in Int : ~At(kdamonds', i, p, x)
    BY <2>3, <2>5, <2>7 DEF Once
  <2>10. \A i, p, j, q \in Int :
            At(kdamonds', i, p, x) /\ At(kdamonds', j, q, x) => i = j /\ p = q
    BY <2>5, <2>6, <2>7 DEF Once
  <2>11. QED
    BY <2>1, <2>5, <2>8, <2>9, <2>10 DEF Once
<1>5. CASE SplitRegion
  BY <1>2, <1>5 DEF SplitRegion, Splitting, Busy, Once
<1>6. CASE Chunk
  <2> DEFINE made == WithRegions(<< UpTo(SubEnd) >>)
             last == Len(new_kdamonds) + 1
  <2>1. /\ Busy /\ kdamonds # << >> /\ args' = args /\ unsplit_regions' = unsplit_regions
        /\ Kd.regions # << >> /\ args.region_max_size \in Int
    BY <1>6, ChunkStep DEF Busy
  <2>2. args.region_max_size > 0
    BY <2>1, GenMigpolAssumption DEF Positive
  <2>3. /\ made \in Kdamond /\ new_kdamonds' = Append(new_kdamonds, made)
        /\ new_kdamonds \in Seq(Kdamond) /\ made.regions = << UpTo(SubEnd) >>
    BY <1>6, <2>1, ChunkStep, SubEndBounds, UpToType, WithRegionsType DEF MigpolTypeOK
  <2>4. /\ R.start \in Int /\ R.end \in Int /\ SubEnd \in Int
        /\ R.start < SubEnd /\ SubEnd <= R.end
    BY <1>6, <2>1, <2>2, ChunkStep, HeadType, SubEndBounds
  <2> HIDE DEF made
  <2>5. \A m \in Int : MadeAt(new_kdamonds', m, x) <=>
           \/ MadeAt(new_kdamonds, m, x)
           \/ m = last /\ R.start <= x /\ x < SubEnd
    <3>1. In(x, made.regions) <=> R.start <= x /\ x < SubEnd
      BY <1>6, <2>3, ChunkAt
    <3>2. \A m \in Int : MadeAt(new_kdamonds', m, x) <=>
             MadeAt(new_kdamonds, m, x) \/ (m = last /\ In(x, made.regions))
      <4>1. \A m \in Int : MadeAt(Append(new_kdamonds, made), m, x) <=>
               \/ MadeAt(new_kdamonds, m, x)
               \/ m = Len(new_kdamonds) + 1 /\ In(x, made.regions)
        <5>1. new_kdamonds \in Seq(Kdamond) /\ made \in Kdamond
          BY <2>3
        <5>2. QED
          BY <5>1, MadeAppend
      <4>2. new_kdamonds' = Append(new_kdamonds, made)
        BY <2>3
      <4>3. QED
        BY <4>1, <4>2
    <3>3. QED
      BY <3>1, <3>2
  <2>6. \A i, p \in Int : At(kdamonds', i, p, x) =>
           /\ At(kdamonds, i, p, x)
           /\ i = 1 /\ p = 1 => SubEnd <= x
    BY <1>6, <2>4, ChunkAt
  <2>7. R.start <= x /\ x < SubEnd => At(kdamonds, 1, 1, x)
    BY <1>6, <2>4, ChunkAt
  <2>8. ~MadeAt(new_kdamonds, last, x)
    BY <2>3 DEF MadeAt
  <2>9. Once(x)
    BY <1>2, <2>1
  <2> HIDE DEF last
  <2>10. ~(x < SubEnd /\ SubEnd <= x)
    BY <2>4
  <2>11. QED
    BY <2>1, <2>5, <2>6, <2>7, <2>8, <2>9, <2>10 DEF Once
<1>7. CASE RegionSplit
  <2>1. /\ Busy /\ kdamonds # << >> /\ Kd.regions # << >> /\ DropRegion /\ args' = args
        /\ new_kdamonds' = new_kdamonds /\ unsplit_regions' = unsplit_regions
    BY <1>7 DEF RegionSplit, Splitting, StageInv, Busy
  <2>2. \A i, p \in Int : At(kdamonds', i, p, x) <=>
           IF i = 1 THEN p # 0 /\ At(kdamonds, 1, p + 1, x) ELSE At(kdamonds, i, p, x)
    BY <2>1, DropAt
  <2>3. Once(x)
    BY <1>2, <2>1
  <2>4. \A p, q \in Int : p + 1 \in Int /\ (p + 1 = q + 1 => p = q)
    OBVIOUS
  <2>5. \A i, p \in Int : At(kdamonds', i, p, x) =>
           \E r \in Int : At(kdamonds, i, r, x) /\ (i = 1 => r = p + 1) /\ (i # 1 => r = p)
    BY <2>2, <2>4
  <2>6. QED
    BY <2>1, <2>3, <2>4, <2>5 DEF Once
<1>8. CASE KdamondSplit
  <2> DEFINE made == WithRegions(unsplit_regions)
             last == Len(new_kdamonds) + 1
  <2>1. /\ Busy /\ kdamonds # << >> /\ Kd.regions = << >> /\ kdamonds' = Tail(kdamonds)
        /\ args' = args /\ unsplit_regions' = << >> /\ new_kdamonds \in Seq(Kdamond)
    BY <1>8, KdamondStep DEF Busy, MigpolTypeOK
  <2>2. made \in Kdamond /\ made.regions = unsplit_regions
    BY <2>1, WithRegionsType DEF MigpolTypeOK
  <2>3. \A i, p \in Int : At(kdamonds', i, p, x) <=> i # 0 /\ At(kdamonds, i + 1, p, x)
    BY <2>1, TailAt
  <2>4. \A m \in Int : MadeAt(new_kdamonds', m, x) <=>
           \/ MadeAt(new_kdamonds, m, x)
           \/ m = last /\ In(x, unsplit_regions)
    <3>1. CASE unsplit_regions = << >>
      BY <1>8, <3>1, KdamondStep, NothingIn
    <3>2. CASE unsplit_regions # << >>
      <4>1. new_kdamonds' = Append(new_kdamonds, made)
        BY <1>8, <3>2, KdamondStep
      <4> HIDE DEF made
      <4>2. \A m \in Int : MadeAt(Append(new_kdamonds, made), m, x) <=>
               \/ MadeAt(new_kdamonds, m, x)
               \/ m = Len(new_kdamonds) + 1 /\ In(x, made.regions)
        <5>1. new_kdamonds \in Seq(Kdamond) /\ made \in Kdamond
          BY <2>1, <2>2
        <5>2. QED
          BY <5>1, MadeAppend
      <4>3. QED
        BY <2>2, <4>1, <4>2
    <3>3. QED
      BY <3>1, <3>2
  <2>5. ~MadeAt(new_kdamonds, last, x)
    BY <2>1 DEF MadeAt
  <2>6. Once(x) /\ ~In(x, << >>)
    BY <1>2, <2>1, NothingIn
  <2>7. \A i, j \in Int : i + 1 \in Int /\ (i + 1 = j + 1 => i = j)
    OBVIOUS
  <2> HIDE DEF last
  <2>8. QED
    BY <2>1, <2>3, <2>4, <2>5, <2>6, <2>7 DEF Once
<1>9. CASE Output
  BY <1>2, <1>9 DEF Output, Busy, Once
<1>10. CASE UNCHANGED migpol
  BY <1>2, <1>10 DEF migpol, Busy, Once
<1>11. QED
  BY <1>1, <1>3, <1>4, <1>5, <1>6, <1>7, <1>8, <1>9, <1>10 DEF MigpolNext

\* With a maximum that is zero or less, split_region() leaves the first region no sooner
\* than never: a run that ends had nothing to split.
StuckInv ==
    ~Positive =>
        /\ stage = "chunk" => R.start < R.end
        /\ stage = "region" => /\ kdamonds = Migrations /\ new_kdamonds = << >>
                              /\ unsplit_regions = << >>
        /\ stage = "done" => Migrations = << >> /\ new_kdamonds = << >>

LEMMA NextStuck ==
    ASSUME MigpolTypeOK, StageInv, RangeInv, PolicyInv, StuckInv, [MigpolNext]_migpol
    PROVE  StuckInv'
<1> SUFFICES ASSUME ~Positive'
             PROVE  StuckInv'
  BY DEF StuckInv
<1>1. CASE ParseArguments
  BY <1>1 DEF ParseArguments, StuckInv
<1>2. ASSUME args' = args
      PROVE  ~Positive /\ Migrations' = Migrations
  BY <1>2 DEF Positive, Migrations
<1>3. ASSUME stage = "region", args' = args
      PROVE  /\ kdamonds = Migrations /\ new_kdamonds = << >> /\ unsplit_regions = << >>
             /\ args.region_max_size \in Int /\ args.region_max_size <= 0
             /\ kdamonds # << >> => /\ Kd.regions # << >> /\ R.start < R.end
                                   /\ R.start \in Int /\ R.end \in Int
  <2>1. /\ kdamonds = Migrations /\ new_kdamonds = << >> /\ unsplit_regions = << >>
        /\ args.region_max_size \in Int /\ args.region_max_size <= 0
        /\ ~Rejected(Migrations) /\ args \in Args
    BY <1>2, <1>3 DEF StuckInv, StageInv, Busy, Positive, PolicyInv, MigpolTypeOK
  <2>2. ASSUME kdamonds # << >>
        PROVE  /\ Kd.regions # << >> /\ R.start < R.end
               /\ R.start \in Int /\ R.end \in Int
    <3>1. /\ kdamonds \in Seq(Kdamond) /\ Kd = kdamonds[1] /\ Kd.regions \in Seq(Region)
      BY <2>2, HeadType DEF MigpolTypeOK, Kd, Kdamond
    <3>2. 1 \in 1 .. Len(Migrations)
      BY <2>1, <2>2, <3>1, DropHead
    <3>3. Kd.regions # << >>
      BY <2>1, <3>1, <3>2, Accepted
    <3>4. 1 \in 1 .. Len(Kd.regions)
      BY <3>1, <3>3, DropHead
    <3>5. R.start < R.end
      BY <2>1, <3>1, <3>2, <3>4, Accepted DEF R
    <3>6. QED
      BY <2>2, <3>3, <3>5, HeadType
  <2>3. QED
    BY <2>1, <2>2
<1>4. CASE Check
  <2>1. args' = args /\ new_kdamonds = << >> /\ unsplit_regions = << >>
    BY <1>4 DEF Check, StageInv, Busy
  <2>2. args.region_max_size # NoLimit
    BY <1>2, <2>1 DEF Positive
  <2>3. QED
    BY <1>2, <1>4, <2>1, <2>2 DEF Check, StuckInv
<1>5. CASE KeepRegion
  <2>1. /\ stage = "region" /\ args' = args /\ kdamonds # << >>
        /\ R.end - R.start <= args.region_max_size \/ args.region_max_size \notin Int
    BY <1>5, KeepStep
  <2>2. QED
    BY <1>3, <2>1
<1>6. CASE SplitRegion
  <2>1. /\ stage = "region" /\ args' = args /\ kdamonds # << >> /\ kdamonds' = kdamonds
        /\ stage' = "chunk"
    BY <1>6 DEF SplitRegion, Splitting
  <2>2. R' = R /\ R.start < R.end
    BY <1>3, <2>1 DEF R, Kd
  <2>3. QED
    BY <2>1, <2>2 DEF StuckInv
<1>7. CASE Chunk
  <2>1. /\ stage = "chunk" /\ stage' = stage /\ args' = args /\ kdamonds # << >>
        /\ Kd.regions # << >> /\ args.region_max_size \in Int /\ R.start < R.end
        /\ Kd' = WithRegions(Rest)
    BY <1>7, ChunkStep
  <2>2. args.region_max_size <= 0
    BY <1>2, <2>1 DEF Positive
  <2>3. /\ SubEnd \in Int /\ R.start \in Int /\ R.end \in Int
        /\ SubEnd - R.start <= args.region_max_size
    BY <2>1, SubEndBounds, HeadType
  <2>4. R' = Rest[1]
    BY <2>1, RestType, WithRegionsType DEF R
  <2>5. R'.start = SubEnd /\ R'.end = R.end
    BY <2>1, <2>4, RestType
  <2>6. R'.start < R'.end
    BY <2>1, <2>2, <2>3, <2>5
  <2>7. QED
    BY <2>1, <2>6 DEF StuckInv
<1>8. CASE RegionSplit
  <2>1. /\ stage = "chunk" /\ args' = args /\ kdamonds # << >> /\ Kd.regions # << >>
        /\ R.start >= R.end
    BY <1>8 DEF RegionSplit, Splitting, StageInv
  <2>2. R.start < R.end /\ R.start \in Int /\ R.end \in Int
    BY <1>2, <2>1, HeadType DEF StuckInv
  <2>3. QED
    BY <2>1, <2>2
<1>9. CASE KdamondSplit
  BY <1>3, <1>9, KdamondStep
<1>10. CASE Output
  BY <1>2, <1>3, <1>10 DEF Output, StuckInv
<1>11. CASE UNCHANGED migpol
  BY <1>2, <1>11 DEF migpol, StuckInv, R, Kd
<1>12. QED
  BY <1>1, <1>4, <1>5, <1>6, <1>7, <1>8, <1>9, <1>10, <1>11 DEF MigpolNext

LEMMA InitCover == MigpolInit => CoverInv /\ OnceInv /\ StuckInv
<1> SUFFICES ASSUME MigpolInit
             PROVE  CoverInv /\ OnceInv /\ StuckInv
  OBVIOUS
<1>1. stage = "idle" /\ ~Busy
  BY DEF MigpolInit, Busy
<1>2. Positive
  BY DEF MigpolInit, Positive
<1>3. QED
  BY <1>1, <1>2 DEF CoverInv, OnceInv, StuckInv

\* Every address of the source nodes comes out in exactly one kdamond, with its own node
\* as the source, whatever the regions, the migrations and the maximum are
\* (gen_migpol.py:90-117, 240-250).
THEOREM RegionsAreCovered == MigpolSpec => []RegionsCovered
<1> DEFINE Inv == /\ MigpolTypeOK /\ StageInv /\ RangeInv /\ PolicyInv
                  /\ CoverInv /\ OnceInv /\ StuckInv
<1>1. MigpolInit => Inv
  BY InitType, InitPolicy, InitCover
<1>2. Inv /\ [MigpolNext]_migpol => Inv'
  BY NextType, NextRange, NextPolicy, NextCover, NextOnce, NextStuck
<1>3. Inv => RegionsCovered
  <2> SUFFICES ASSUME Inv, stage = "done"
               PROVE  RegionsCovered
    BY DEF RegionsCovered
  <2>1. /\ args \in Args /\ kdamonds = << >> /\ ~Rejected(Migrations)
        /\ new_kdamonds \in Seq(Kdamond) /\ Migrations \in Seq(Kdamond)
    BY MigrationsType DEF MigpolTypeOK, StageInv, Busy, PolicyInv
  <2>2. ASSUME NEW kd \in Kdamond, NEW x
        PROVE  x \in Addresses(kd.regions) <=> x \in Int /\ In(x, kd.regions)
    <3>1. \A i \in 1 .. Len(kd.regions) :
             kd.regions[i].start \in Int /\ kd.regions[i].end \in Int
      <4>1. kd.regions \in Seq(Region)
        BY DEF Kdamond
      <4>2. \A i \in 1 .. Len(kd.regions) : kd.regions[i] \in Region
        BY <4>1
      <4>3. \A r \in Region : r.start \in Int /\ r.end \in Int
        BY DEF Region
      <4>4. QED
        BY <4>2, <4>3
    <3>2. \A i \in 1 .. Len(kd.regions) :
             x \in kd.regions[i].start .. kd.regions[i].end - 1 <=>
             x \in Int /\ Covers(kd.regions[i], x)
      BY <3>1 DEF Covers
    <3>3. QED
      BY <3>2 DEF Addresses, In
  <2>3. \A m \in 1 .. Len(new_kdamonds) : new_kdamonds[m] \in Kdamond
    BY <2>1
  <2>4. \A k \in 1 .. Len(Migrations) : Migrations[k] \in Kdamond
    BY <2>1
  <2>5. ASSUME NEW k \in 1 .. Len(Migrations), NEW x \in Int
        PROVE  In(x, Migrations[k].regions) <=>
                   \E n \in 1 .. Len(new_kdamonds) :
                       /\ new_kdamonds[n].src = Migrations[k].src
                       /\ In(x, new_kdamonds[n].regions)
    <3>1. CASE ~Positive
      BY <2>1, <3>1 DEF StuckInv
    <3>2. CASE Positive
      <4> DEFINE s == Migrations[k].src
      <4>1. s \in Nodes
        BY <2>1, MigrationsAre
      <4> HIDE DEF s
      <4>2. Left(Migrations, s, x) <=> Made(new_kdamonds, s, x)
        BY <2>1, <3>2, <4>1, NothingIn DEF CoverInv, Held
      <4>3. Left(Migrations, s, x) <=> Made(Migrations, s, x)
        BY <2>1, <4>1, MadeAsLeft
      <4>4. Made(Migrations, s, x) <=> In(x, Migrations[k].regions)
        BY <2>1, Accepted DEF Made, MadeAt, s
      <4>5. QED
        BY <4>2, <4>3, <4>4 DEF Made, MadeAt, s
    <3>3. QED
      BY <3>1, <3>2
  <2>6. ASSUME NEW k \in 1 .. Len(Migrations)
        PROVE  Addresses(Migrations[k].regions) =
               UNION {Addresses(new_kdamonds[n].regions) :
                         n \in {n \in 1 .. Len(new_kdamonds) :
                                   new_kdamonds[n].src = Migrations[k].src}}
    <3> DEFINE from == {n \in 1 .. Len(new_kdamonds) :
                           new_kdamonds[n].src = Migrations[k].src}
               parts == UNION {Addresses(new_kdamonds[n].regions) : n \in from}
    <3>1. \A x : x \in parts <=> \E n \in from : x \in Addresses(new_kdamonds[n].regions)
      OBVIOUS
    <3>2. \A x : x \in Addresses(Migrations[k].regions) <=>
                 x \in Int /\ In(x, Migrations[k].regions)
      BY <2>2, <2>4
    <3>3. \A n \in from : \A x : x \in Addresses(new_kdamonds[n].regions) <=>
                               x \in Int /\ In(x, new_kdamonds[n].regions)
      BY <2>2, <2>3
    <3>4. \A x \in Int : In(x, Migrations[k].regions) <=>
                     \E n \in from : In(x, new_kdamonds[n].regions)
      BY <2>5
    <3> HIDE DEF from, parts
    <3>5. \A x : x \in Addresses(Migrations[k].regions) <=> x \in parts
      BY <3>1, <3>2, <3>3, <3>4
    <3>6. Addresses(Migrations[k].regions) = parts
      BY <3>5
    <3>7. QED
      BY <3>6 DEF parts, from
  <2>7. ASSUME NEW m \in 1 .. Len(new_kdamonds), NEW n \in 1 .. Len(new_kdamonds), m # n
        PROVE  Addresses(new_kdamonds[m].regions) \cap Addresses(new_kdamonds[n].regions) = {}
    <3>1. ASSUME NEW x \in Int, In(x, new_kdamonds[m].regions), In(x, new_kdamonds[n].regions)
          PROVE  FALSE
      <4>1. CASE ~Positive
        BY <2>1, <4>1 DEF StuckInv
      <4>2. CASE Positive
        BY <2>7, <3>1, <4>2 DEF OnceInv, Once, MadeAt
      <4>3. QED
        BY <4>1, <4>2
    <3>2. QED
      BY <2>2, <2>3, <3>1
  <2>8. QED
    BY <2>6, <2>7 DEF RegionsCovered
<1>4. QED
  BY <1>1, <1>2, <1>3, PTL DEF MigpolSpec
=============================================================================
