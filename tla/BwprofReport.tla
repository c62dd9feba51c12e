---------------------------- MODULE BwprofReport ----------------------------
(***************************************************************************)
(* bwprof report, dump and info: what they make of the files of a session, *)
(* at whatever moment of the session they are started.                     *)
(***************************************************************************)
EXTENDS Bwprof, SequencesExt

Recorded == IF csv = << >> THEN << >> ELSE Tail(csv)   \* without the header

-----------------------------------------------------------------------------
(* printReport(). *)
calculateRatio(numerator, denominator) ==
    IF denominator = 0 THEN 0 ELSE (100 * numerator) \div denominator

\* The ratios of a socket, from its six sizes.
Ratios(sz) == << calculateRatio(sz[1], sz[3]), calculateRatio(sz[2], sz[3]),
                 calculateRatio(sz[4], sz[6]), calculateRatio(sz[5], sz[6]),
                 calculateRatio(sz[3], sz[3] + sz[6]), calculateRatio(sz[6], sz[3] + sz[6]) >>

Added(values) == FoldLeft(LAMBDA sum, value : sum + value, 0, values)

\* Of a column of the file.
Sum(c) == Added([i \in 1 .. Len(Recorded) |-> Recorded[i][c]])

\* Mutant: the column of the timestamps is taken for one of the first socket.
SizesFromColumn0(skt) ==
    LET first == 1 + skt * 6
    IN  << Sum(first), Sum(first + 1), Sum(first) + Sum(first + 1),
           Sum(first + 3), Sum(first + 4), Sum(first + 3) + Sum(first + 4) >>

\* Mutant: the columns of CXL are where those of DRAM are.
SizesOfDRAM(skt) ==
    LET first == 2 + skt * 6
    IN  << Sum(first), Sum(first + 1), Sum(first) + Sum(first + 1),
           Sum(first), Sum(first + 1), Sum(first) + Sum(first + 1) >>

\* A bandwidth per row is added up as if a row stood for a second.
Sizes(skt) ==
    LET first == 2 + skt * 6
    IN  << Sum(first), Sum(first + 1), Sum(first) + Sum(first + 1),
           Sum(first + 3), Sum(first + 4), Sum(first + 3) + Sum(first + 4) >>

\* The sockets are counted by their columns and numbered from 0.
Reported == IF Recorded = << >> THEN {} ELSE 0 .. (Len(Recorded[1]) - 1) \div 6 - 1

Report == [skt \in Reported |->
              LET sz == Sizes(skt)
              IN  [bw    |-> [c \in 1 .. 6 |-> Nearest(Sum(1 + skt * 6 + c), Len(Recorded))],
                   sz    |-> sz,
                   ratio |-> Ratios(sz)]]

\* StatsCalculator::calculate(): what bwprof top shows of a socket in the end.
Shows(s) == LET sz == Columns(accumulated[s]) IN [sz |-> sz, ratio |-> Ratios(sz)]
-----------------------------------------------------------------------------
(* printDump(): the times are counted from the first row. *)

DumpFrom(first) ==
    [i \in 1 .. Len(Recorded) |-> [Recorded[i] EXCEPT ![1] = @ - Recorded[first[i]][1]]]

\* Mutant: the time of the row before is remembered.
DumpFromLastRow == DumpFrom([i \in 1 .. Len(Recorded) |-> IF i = 1 THEN 1 ELSE i - 1])

Dump == DumpFrom([i \in 1 .. Len(Recorded) |-> 1])

-----------------------------------------------------------------------------
(* printInfo(): a fold over the lines; "lines" of them belong to a group.  What it      *)
(* would display of a key is the value of its last line: "own" are the keys whose       *)
(* value is the recorder's.  A value of cpuinfo or osinfo itself is not displayed.      *)
TopKeys == {"data_version", "cmdline", "recorded_time", "meminfo"}

Stored(own, item) == IF item.own THEN own \cup {item.key} ELSE own \ {item.key}

ReadLine(state, item) ==
    IF state.lines > 0
    THEN [lines |-> state.lines - 1, own |-> Stored(state.own, item)]
    ELSE IF item.key \in {"cpuinfo", "osinfo"}
    THEN [state EXCEPT !.lines = item.lines]
    ELSE IF item.key \in TopKeys
    THEN [state EXCEPT !.own = Stored(@, item)]
    ELSE state

InfoMap == FoldLeft(ReadLine, [lines |-> 0, own |-> {}], info).own

Displayed == {"recorded_time", "cmdline", "desc", "nr_cpus", "meminfo", "kernel", "hostname",
              "distro"}

-----------------------------------------------------------------------------
Since(s) == [k \in Kinds |-> prev_states[s][k] - base[s][k]]

\* The file accounts for every access: whenever the session is cut off, the bandwidths of
\* each column, times what their rows cover, add up to the events its socket counted
\* since the session started, but for the rounding of the last digit.
FileAddsUp ==
    csv # << >> =>
        LET covered == Added([i \in 1 .. Len(rows) |-> rows[i].elapsed])
        IN  \A c \in 2 .. Len(csv[1]) :
                LET written == Added([i \in 1 .. Len(rows) |-> Recorded[i][c] * rows[i].elapsed])
                    events  == Columns(Since(csv[1][c][1]))[csv[1][c][2]]
                IN  2 * (written - events * Precision) \in -covered .. covered

\* writeCSVHeader() and printResults() choose the sockets each for itself: every value
\* of the file is of the socket and the column its header names.
ColumnsMatchHeader ==
    \A i \in 1 .. Len(Recorded) :
        /\ Len(Recorded[i]) = Len(csv[1])
        /\ \A c \in 2 .. Len(csv[1]) : Recorded[i][c] =
               Throughput(rows[i].events[csv[1][c][1]], rows[i].elapsed)[csv[1][c][2]]

\* A session of all sockets whose sleeps were never overrun, and whose bandwidths need
\* no rounding: the report has every socket under its own number, its sizes differ from
\* those of bwprof top by one and the same factor, and its ratios are those of bwprof top.
Exact(row) == \A s \in Sockets, k \in Kinds : (row.events[s][k] * Precision) % row.elapsed = 0

Regular ==
    /\ config.socket = AllSockets
    /\ \A i \in 1 .. Len(rows) : rows[i].elapsed = config.interval /\ Exact(rows[i])

ReportKeepsProportions ==
    Regular /\ Recorded # << >> =>
        /\ DOMAIN Report = Sockets
        /\ \A s \in Sockets :
              LET report == Report[s]  top == Shows(s)
              IN  /\ report.ratio = top.ratio
                  /\ \A c \in 1 .. 6 : report.sz[c] * config.interval = top.sz[c] * Precision

\* Sleeps are overrun and the session is cut off anywhere: the report may show less
\* traffic than there was, and for no socket and no kind of access more of it than the
\* rounding adds, half a unit of the last digit for each row and column summed.
ReportNeverOverstates ==
    config.socket = AllSockets =>
        \A s \in Reported :
            LET report == Report[s].sz  top == Shows(s).sz
            IN  \A c \in 1 .. 6 :
                    LET added == (IF c \in {3, 6} THEN 2 ELSE 1) * Len(Recorded)
                    IN  2 * report[c] * config.interval
                            <= 2 * top[c] * Precision + added * config.interval

\* bwprof dump shows times that begin at 0 and lie at least an interval apart, though
\* the clock of the rows is not the one the bandwidths are computed with.
DumpTimesApart ==
    \A i \in 1 .. Len(Dump) :
        IF i = 1 THEN Dump[i][1] = 0 ELSE Dump[i][1] >= Dump[i - 1][1] + config.interval

\* bwprof info displays what the recorder wrote, whatever lines the words of the command
\* add to the file, provided that every group of lines they announce ends among them:
\* only the command line itself can be given another value by one of them.
Words == {i \in 1 .. Len(info) : ~info[i].own}

InfoReadsBack ==
    info # << >> /\ (\A i \in Words : i + info[i].lines \in Words \/ info[i].lines = 0) =>
        Displayed \subseteq InfoMap \cup {key \in {"cmdline"} : \E i \in Words : info[i].key = key}

\* printReport(): "Sum values are in MB*seconds, convert to GB by dividing by 1000".
\* So the size the report shows of a socket is the size of what was accessed.
ReportShowsSizes ==
    config.socket = AllSockets =>
        \A s \in Reported, c \in 1 .. 6 : Report[s].sz[c] = Shows(s).sz[c] * Precision
=============================================================================
