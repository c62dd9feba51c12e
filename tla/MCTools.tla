------------------------------ MODULE MCTools ------------------------------
(***************************************************************************)
(* The set-up tools, one of them in each behaviour: bwactl.py on a machine *)
(* with two CPU nodes and a node without one, gen_migpol.py on one with    *)
(* three tiers and a node without regions.                                 *)
(***************************************************************************)
EXTENDS Bwactl, GenMigpol

VARIABLE tool

Init == /\ tool \in {"bwactl", "gen_migpol"}
        /\ BwactlInit /\ MigpolInit

RunBwactl    == tool = "bwactl" /\ BwactlNext /\ UNCHANGED <<tool, migpol>>
RunGenMigpol == tool = "gen_migpol" /\ MigpolNext /\ UNCHANGED <<tool, bwactl>>

Next == RunBwactl \/ RunGenMigpol

\* A tool that runs gets on, and so do wget and tar; nobody has to start a tool or to
\* interrupt it.
Spec == /\ Init /\ [][Next]_<<tool, bwactl, migpol>>
        /\ WF_bwactl((Install \/ Tune) /\ RunBwactl)
        /\ WF_migpol(RunGenMigpol)

-----------------------------------------------------------------------------
CPUs == <<0, 1>>

\* The memory node is in the first package, in the only one, or in none.
ThreeTopologies == { (0 :> "P0" @@ 1 :> "P1" @@ 2 :> "P0"),
                     (0 :> "P0" @@ 1 :> "P0" @@ 2 :> "P0"),
                     (0 :> "P0" @@ 1 :> "P1" @@ 2 :> "machine") }

Rows == [0 .. 2 -> {0, 1, 30, 300}]

Turned(row) == [i \in 0 .. 2 |-> row[2 - i]]

SomeMatrices == {0 :> row @@ 1 :> Turned(row) : row \in Rows}
                \cup {0 :> row @@ 1 :> [i \in 0 .. 2 |-> 45] : row \in Rows}

-----------------------------------------------------------------------------
From(start, end) == [start |-> start, end |-> end]

FourNodes == ("dram" :> << From(0, 1), From(2, 7) >> @@ "cxl" :> << From(8, 11) >>
              @@ "far" :> << From(12, 13), From(14, 18) >> @@ "cpuless" :> << >>)

Lists(pairs) == { << >> } \cup { << p >> : p \in pairs }

Up   == {<<"cxl", "dram">>, <<"cpuless", "dram">>}
Down == {<<"dram", "cxl">>, <<"far", "cxl">>}
Both == {<<"dram", "cxl">>, <<"dram", "dram">>, <<"cxl", "far">>}

SomeArguments ==
    { a \in [demote : Lists(Down), promote : Lists(Up), migrate : Lists(Both),
             region_max_size : {NoLimit, -1, 0, 1, 2, 3, 5}] :
        a.demote \o a.promote \o a.migrate # << >> }
=============================================================================
