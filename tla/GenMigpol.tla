----------------------------- MODULE GenMigpol -----------------------------
(***************************************************************************)
(* gen_migpol.py: from the migrations asked for to the kdamonds of the     *)
(* configuration, with split_region() a chunk at a time.                   *)
(***************************************************************************)
EXTENDS Integers, FiniteSetsExt, SequencesExt

CONSTANTS
    Nodes,      \* NUMA nodes
    Regions,    \* external: the physical regions damo finds on a node
    Arguments,  \* command lines: demote, promote, migrate, region_max_size
    NoLimit,    \* -s is not given
    MaxChunks   \* bound: kdamonds made by splitting

Pair    == Nodes \X Nodes
Region  == [start : Int, end : Int]
Kdamond == [action : {"migrate_cold", "migrate_hot"}, src : Nodes, dest : Nodes,
            regions : Seq(Region)]
Args    == [demote : Seq(Pair), promote : Seq(Pair), migrate : Seq(Pair),
            region_max_size : Int \cup {NoLimit}]

ASSUME GenMigpolAssumption ==
    /\ Regions \in [Nodes -> Seq(Region)]
    /\ Arguments \subseteq Args
    /\ NoLimit \notin Int
    /\ MaxChunks \in Nat

\* The regions are ranges of physical memory: none is empty, no two overlap.
ASSUME RegionsAssumption ==
    \A a, b \in Nodes : \A i \in 1 .. Len(Regions[a]), j \in 1 .. Len(Regions[b]) :
        /\ Regions[a][i].start < Regions[a][i].end
        /\ <<a, i>> # <<b, j>> => \/ Regions[a][i].end <= Regions[b][j].start
                                 \/ Regions[b][j].end <= Regions[a][i].start

VARIABLES
    stage,         \* where gen_migpol.py is
    args,
    kdamonds,      \* those of node_json that have not been split yet
    unsplit_regions,
    new_kdamonds

migpol == <<stage, args, kdamonds, unsplit_regions, new_kdamonds>>

-----------------------------------------------------------------------------
Scheme(action, pair) ==
    [action |-> action, src |-> pair[1], dest |-> pair[2], regions |-> Regions[pair[1]]]

Schemes(action, pairs) == [i \in 1 .. Len(pairs) |-> Scheme(action, pairs[i])]

\* main(): the migrations of -m come behind those of -d and -p, and all demotions
\* before all promotions; damo answers with a kdamond for each.
Migrations ==
    Schemes("migrate_cold", args.demote \o args.migrate)
    \o Schemes("migrate_hot", args.promote
                              \o [i \in 1 .. Len(args.migrate) |-> Reverse(args.migrate[i])])

\* Mutant: a source node may have a demotion and a promotion.
RejectedPerAction(m) ==
    \E i \in 1 .. Len(m) :
        \/ m[i].src = m[i].dest \/ m[i].regions = << >>
        \/ \E j \in 1 .. i - 1 : m[j].src = m[i].src /\ m[j].action = m[i].action

\* CheckNodes.
Rejected(m) ==
    \E i \in 1 .. Len(m) :
        \/ m[i].src = m[i].dest \/ m[i].regions = << >>
        \/ \E j \in 1 .. i - 1 : m[j].src = m[i].src

ParseArguments ==
    /\ stage = "idle"
    /\ stage' = "check"
    /\ args' \in Arguments
    /\ UNCHANGED <<kdamonds, unsplit_regions, new_kdamonds>>

Check ==
    /\ stage = "check"
    /\ IF Rejected(Migrations)
       THEN stage' = "error" /\ UNCHANGED <<kdamonds, new_kdamonds>>
       ELSE IF args.region_max_size = NoLimit
       THEN stage' = "done" /\ new_kdamonds' = Migrations /\ UNCHANGED kdamonds
       ELSE stage' = "region" /\ kdamonds' = Migrations /\ UNCHANGED new_kdamonds
    /\ UNCHANGED <<args, unsplit_regions>>

-----------------------------------------------------------------------------
(* split_region(): the region at the head of the kdamond at the head. *)
Kd == kdamonds[1]
R  == Kd.regions[1]

Splitting(s) == stage = s /\ kdamonds # << >>

TooBig == R.end - R.start > args.region_max_size

\* Mutant: the kdamond is not copied.
WithRegionsOnly(regions) == [regions |-> regions]

WithRegions(regions) == [Kd EXCEPT !.regions = regions]

DropRegion == kdamonds' = << WithRegions(Tail(Kd.regions)) >> \o Tail(kdamonds)

KeepRegion ==
    /\ Splitting("region") /\ Kd.regions # << >> /\ ~TooBig
    /\ unsplit_regions' = Append(unsplit_regions, R)
    /\ DropRegion
    /\ UNCHANGED <<stage, args, new_kdamonds>>

SplitRegion ==
    /\ Splitting("region") /\ Kd.regions # << >> /\ TooBig
    /\ stage' = "chunk"
    /\ UNCHANGED <<args, kdamonds, unsplit_regions, new_kdamonds>>

SubEnd == Min({R.start + args.region_max_size, R.end})

UpTo(sub_end) == [start |-> R.start, end |-> sub_end]

\* The chunk up to sub_end; the region goes on at next.
ChunkAs(sub_end, next) ==
    /\ Splitting("chunk") /\ R.start < R.end /\ Len(new_kdamonds) < MaxChunks
    /\ new_kdamonds' = Append(new_kdamonds, WithRegions(<< UpTo(sub_end) >>))
    /\ kdamonds' = << WithRegions(<< [R EXCEPT !.start = next] >> \o Tail(Kd.regions)) >>
                   \o Tail(kdamonds)
    /\ UNCHANGED <<stage, args, unsplit_regions>>

\* Mutant: ends are taken for the last address of a region.
ChunkWithGap == ChunkAs(SubEnd, SubEnd + 1)

\* Mutant: a rest of less than two chunks stays whole.
ChunkWithRest ==
    LET sub_end == IF R.end - R.start < 2 * args.region_max_size THEN R.end ELSE SubEnd
    IN  ChunkAs(sub_end, sub_end)

\* Mutant: start is not moved on.
ChunkForever == ChunkAs(SubEnd, R.start)

Chunk == ChunkAs(SubEnd, SubEnd)

RegionSplit ==
    /\ Splitting("chunk") /\ R.start >= R.end
    /\ stage' = "region"
    /\ DropRegion
    /\ UNCHANGED <<args, unsplit_regions, new_kdamonds>>

\* The regions that were small enough stay together.
KdamondSplit ==
    /\ Splitting("region") /\ Kd.regions = << >>
    /\ new_kdamonds' = IF unsplit_regions = << >> THEN new_kdamonds
                       ELSE Append(new_kdamonds, WithRegions(unsplit_regions))
    /\ unsplit_regions' = << >>
    /\ kdamonds' = Tail(kdamonds)
    /\ UNCHANGED <<stage, args>>

Output ==
    /\ stage = "region" /\ kdamonds = << >>
    /\ stage' = "done"
    /\ UNCHANGED <<args, kdamonds, unsplit_regions, new_kdamonds>>

-----------------------------------------------------------------------------
MigpolInit ==
    /\ stage = "idle"
    /\ args = [demote |-> << >>, promote |-> << >>, migrate |-> << >>,
               region_max_size |-> NoLimit]
    /\ kdamonds = << >> /\ unsplit_regions = << >> /\ new_kdamonds = << >>

MigpolNext == \/ ParseArguments \/ Check \/ KeepRegion \/ SplitRegion \/ Chunk
              \/ RegionSplit \/ KdamondSplit \/ Output

MigpolSpec == MigpolInit /\ [][MigpolNext]_migpol

-----------------------------------------------------------------------------
MigpolTypeOK ==
    /\ stage \in {"idle", "check", "region", "chunk", "done", "error"}
    /\ args \in Args
    /\ {kdamonds, new_kdamonds} \subseteq Seq(Kdamond)
    /\ unsplit_regions \in Seq(Region)

Addresses(regions) == UNION {regions[i].start .. regions[i].end - 1 : i \in 1 .. Len(regions)}

\* However the regions of a node are spread over kdamonds, every address of the node
\* is in exactly one of them: none is forgotten, monitored twice, or of another node.
RegionsCovered ==
    stage = "done" =>
        /\ \A k \in 1 .. Len(Migrations) :
              Addresses(Migrations[k].regions) =
              UNION {Addresses(new_kdamonds[n].regions) :
                        n \in {n \in 1 .. Len(new_kdamonds) :
                                  new_kdamonds[n].src = Migrations[k].src}}
        /\ \A m, n \in 1 .. Len(new_kdamonds) : m # n =>
              Addresses(new_kdamonds[m].regions) \cap Addresses(new_kdamonds[n].regions) = {}

\* "Regions larger than this will be split": none of the regions that come out is
\* larger than the maximum, whatever came in.
RegionsBounded ==
    stage = "done" /\ args.region_max_size # NoLimit =>
        \A n \in 1 .. Len(new_kdamonds) :
            \A r \in ToSet(new_kdamonds[n].regions) : r.end - r.start <= args.region_max_size

\* A configuration has the migrations that were asked for and no others, whatever
\* mixture of -d, -p and -m asks for them; -m fast slow demotes from fast and promotes
\* from slow.  No node is the source of two, which would move its pages to and fro.
Asked ==
    {<<"migrate_cold", p[1], p[2]>> : p \in ToSet(args.demote) \cup ToSet(args.migrate)}
    \cup {<<"migrate_hot", p[1], p[2]>> : p \in ToSet(args.promote)}
    \cup {<<"migrate_hot", p[2], p[1]>> : p \in ToSet(args.migrate)}

PolicyAsAsked ==
    stage = "done" =>
        LET made == {<<kd.action, kd.src, kd.dest>> : kd \in ToSet(new_kdamonds)}
        IN  made = Asked /\ \A a, b \in made : a[2] = b[2] => a = b

\* With a positive maximum gen_migpol.py comes to an end.
MigpolEnds ==
    stage = "check" /\ (args.region_max_size = NoLimit \/ args.region_max_size > 0)
        ~> stage \in {"done", "error"}
=============================================================================
