------------------------------- MODULE Bwprof -------------------------------
(***************************************************************************)
(* One run of bwprof: its command line, the start-up steps of record and   *)
(* top, each of which may throw, the command it starts, and the monitoring *)
(* loop that reads the clock and the hardware counters while both keep     *)
(* moving.                                                                 *)
(*                                                                         *)
(* A bandwidth is a number of units of the last digit bwprof.csv has of    *)
(* it, hundredths of a MB/s.  Precision is the bandwidth of one event in   *)
(* one unit of time, and time is in a unit short enough for it to be       *)
(* whole: 32 in fifths of a millisecond, or 4 in seconds if events come in *)
(* lots of 625.  The interval is in the unit of time as well.              *)
(*                                                                         *)
(* A counter of CXL accesses stands for the sum over the ports the code    *)
(* looks at.  The option -d is the subject of BwprofDataDir.               *)
(***************************************************************************)
EXTENDS Integers, Sequences, FiniteSets

CONSTANTS
    NumSockets,   \* the sockets PCM finds
    CommandLines, \* the command lines to try, sequences of words
    Continued,    \* what commands with line breaks make of info.txt behind their line
    MayFail,      \* start-up steps that may throw
    Precision,    \* the bandwidth of one event in one unit of time
    Ahead,        \* what PCM's tick count is ahead of the steady clock
    MaxClock,     \* bound: the time a session is followed
    MaxEvents,    \* bound: events a counter counts
    Active        \* bound: the counters that move, <<socket, kind>>

Sockets    == 0 .. NumSockets - 1
AllSockets == -1   \* the default of -s
Kinds      == {"reads", "writes", "cxl_reads", "cxl_writes"}
SocketMemoryData == [Kinds -> Nat]
Startup    == {"prepare", "pcm", "csv", "fork", "info"}

\* A word of the command line: how argp reads it, its text, and its number.  A number
\* that std::stoi() does not accept is refused like a negative one.
Word == [key : {"arg", "--", "interval", "socket", "top", "help"}, text : STRING, value : Int]

Readers  == {"dump", "report", "info", "help"}
Commands == {"record", "top"} \cup Readers

Config == [command : Commands, interval : Nat \ {0}, socket : Nat \cup {AllSockets},
           command_args : Seq(STRING)]

\* A line of info.txt is known by its key; "lines" is what it says of the lines that
\* follow.  The key "other" stands for every one that is not the recorder's, and for a
\* line without a colon.  A word of the command may have any line behind a line break:
\* such a line is not the recorder's own.
InfoKeys == {"data_version", "cmdline", "recorded_time", "cpuinfo", "nr_cpus", "desc", "meminfo",
             "osinfo", "kernel", "hostname", "distro"}
InfoItem == [key : InfoKeys \cup {"other"}, lines : Nat, own : BOOLEAN]
Foreign  == {item \in InfoItem : ~item.own}

ASSUME BwprofAssumption ==
    /\ NumSockets \in Nat
    /\ CommandLines \subseteq Seq(Word)
    /\ \A words \in DOMAIN Continued : Continued[words] \in Seq(Foreign)
    /\ MayFail \subseteq Startup
    /\ Precision \in Nat \ {0}
    /\ Ahead \in Nat
    /\ MaxClock \in Nat /\ MaxEvents \in Nat
    /\ Active \subseteq Sockets \X Kinds

VARIABLES
    pc,          \* where bwprof is
    line,        \* its command line
    parser,      \* what argp has done with it
    config,
    clock,       \* external: the steady clock
    counter,     \* external: the event counters of each socket
    child,       \* external: the process of the command
    running_,    \* ProcessExecutor's idea of it
    status,      \* what waitForChild() returned last
    prev_time, current_time,
    prev_states, curr_states,
    accumulated, \* accumulated_socket_data_
    wakeAt,      \* when the sleep ends
    csv,         \* the lines of bwprof.csv
    info,        \* the lines of info.txt
    rows,        \* history: what printResults() was given
    base         \* history: the counters the session started from

command == <<line, parser, config>>
world   == <<clock, counter>>
process == <<child, running_, status>>
samples == <<prev_time, current_time, prev_states, curr_states, wakeAt>>
results == <<accumulated, csv, rows>>
session == <<world, process, samples, results, info, base>>
vars    == <<pc, command, session>>

NotReaped == -1   \* waitForChild() without a child to wait for
Exited    == 0

Goto(label) == pc' = label

-----------------------------------------------------------------------------
(* argp_parse() and parse_option(), a word at a time. *)
Current == parser.argv[1]
IsArg     == parser.dashed \/ Current.key = "arg"
Parsing   == pc = "parse" /\ parser.argv # << >>

Consume(p) == parser' = [p EXCEPT !.argv = Tail(@)]

\* Mutant: options are looked for behind -- as well.
DashesIgnored ==
    /\ Parsing /\ ~IsArg /\ Current.key = "--"
    /\ Consume(parser)
    /\ UNCHANGED <<pc, line, config, session>>

\* Behind -- every word is an argument.
Dashes ==
    /\ Parsing /\ ~IsArg /\ Current.key = "--"
    /\ Consume([parser EXCEPT !.dashed = TRUE])
    /\ UNCHANGED <<pc, line, config, session>>

TakesInterval == Current.key = "interval" /\ Current.value > 0
TakesSocket   == Current.key = "socket" /\ Current.value >= 0

Option ==
    /\ Parsing /\ ~IsArg
    /\ \/ TakesInterval /\ config' = [config EXCEPT !.interval = Current.value]
       \/ TakesSocket /\ config' = [config EXCEPT !.socket = Current.value]
    /\ Consume(parser)
    /\ UNCHANGED <<pc, line, session>>

\* ARGP_KEY_ARG: the first argument is bwprof's command, the others are the command
\* to execute.
Argument ==
    /\ Parsing /\ IsArg
    /\ \/ /\ parser.arg_num = 0 /\ Current.text \in Commands
          /\ config' = [config EXCEPT !.command = Current.text]
       \/ /\ parser.arg_num > 0
          /\ config' = [config EXCEPT !.command_args = Append(@, Current.text)]
    /\ Consume([parser EXCEPT !.arg_num = @ + 1])
    /\ UNCHANGED <<pc, line, session>>

\* The key of --top is 0, which is ARGP_KEY_ARG, with a null pointer for an argument:
\* making a string of it throws.  --help prints what there is to know and exits.
Refused ==
    IF parser.argv = << >>
    THEN config.command \in Readers /\ config.command_args # << >>
    ELSE IF IsArg
    THEN parser.arg_num = 0 /\ Current.text \notin Commands
    ELSE Current.key # "--" /\ ~TakesInterval /\ ~TakesSocket

\* argp_error() exits.
ArgpError ==
    /\ pc = "parse" /\ Refused
    /\ Goto("usage")
    /\ UNCHANGED <<command, session>>

\* main() once the line has been parsed.  The readers only look at the files.
Dispatch ==
    /\ pc = "parse" /\ parser.argv = << >> /\ ~Refused
    /\ Goto(CASE config.command = "record" -> "prepare"
              [] config.command = "top"    -> "pcm"
              [] OTHER                     -> "reader")
    /\ UNCHANGED <<command, session>>

-----------------------------------------------------------------------------
(* runRecordMode() and runTopMode() up to the loop. *)
Monitored(s) == config.socket \in {AllSockets, s}

\* The sockets that have columns, in their order: all of them, or that of -s if there is one.
Shown == IF config.socket = AllSockets THEN [i \in 1 .. NumSockets |-> i - 1]
         ELSE IF config.socket \in Sockets THEN << config.socket >> ELSE << >>

\* A line of bwprof.csv: six columns for each socket behind the first one.
Line(first, group) ==
    [c \in 1 .. 1 + 6 * Len(group) |->
        IF c = 1 THEN first ELSE group[1 + (c - 2) \div 6][1 + ((c - 2) % 6)]]

PrepareDataDirectory ==
    /\ pc = "prepare"
    /\ Goto("pcm")
    /\ UNCHANGED <<command, session>>

Initialize ==
    /\ pc = "pcm"
    /\ Goto(IF config.command = "record" THEN "csv" ELSE "fork")
    /\ UNCHANGED <<command, session>>

\* openCSVFile() and writeCSVHeader().
OpenCSVFile ==
    /\ pc = "csv"
    /\ csv' = << Line("Timestamp", [k \in 1 .. Len(Shown) |->
                     [c \in 1 .. 6 |-> <<Shown[k], c>>]]) >>
    /\ Goto("fork")
    /\ UNCHANGED <<command, world, process, samples, accumulated, rows, info, base>>

\* Without a command nothing is forked.
ExecuteCommand ==
    /\ pc = "fork"
    /\ Goto(IF config.command = "record" THEN "info" ELSE "time")
    /\ IF config.command_args # << >>
       THEN child' = "running" /\ running_' = TRUE
       ELSE UNCHANGED <<child, running_>>
    /\ UNCHANGED <<command, world, status, samples, results, info, base>>

Group(key, lines) == [key |-> key, lines |-> lines, own |-> TRUE]
Own(key)          == Group(key, 0)

\* Mutant: the line of the distribution is not counted.
InfoLinesMiscounted(continuation) ==
    << Own("data_version"), Own("cmdline") >> \o continuation
    \o << Own("recorded_time"), Group("cpuinfo", 2), Own("nr_cpus"), Own("desc"), Own("meminfo"),
          Group("osinfo", 2), Own("kernel"), Own("hostname"), Own("distro") >>

InfoLines(continuation) ==
    << Own("data_version"), Own("cmdline") >> \o continuation
    \o << Own("recorded_time"), Group("cpuinfo", 2), Own("nr_cpus"), Own("desc"), Own("meminfo"),
          Group("osinfo", 3), Own("kernel"), Own("hostname"), Own("distro") >>

\* The words are written as they are.
Continuation == IF config.command_args \in DOMAIN Continued THEN Continued[config.command_args]
                ELSE << >>

CollectAndSave ==
    /\ pc = "info"
    /\ info' = InfoLines(Continuation)
    /\ Goto("time")
    /\ UNCHANGED <<command, world, process, samples, results, base>>

\* An exception is caught in main(), which reports it and exits: a command that was
\* started is left to itself.
StartupFails ==
    /\ pc \in MayFail /\ (pc = "fork" => config.command_args # << >>)
    /\ Goto("error")
    /\ UNCHANGED <<command, session>>
-----------------------------------------------------------------------------
(* runMonitoringLoop(). *)
Sleep == Goto("sleep") /\ wakeAt' = clock + config.interval

\* Rows are timed with PCM's clock, sleeps and the lines of the file with the steady one.
getTickCount == clock + Ahead

ReadFirstTime ==
    /\ pc = "time"
    /\ Goto("states")
    /\ prev_time' = getTickCount
    /\ UNCHANGED <<command, world, process, current_time, prev_states, curr_states, wakeAt,
                   results, info, base>>

ReadFirstStates ==
    /\ pc = "states"
    /\ prev_states' = counter
    /\ base' = counter
    /\ Sleep
    /\ UNCHANGED <<command, world, process, prev_time, current_time, curr_states, results, info>>

\* A sleep may last longer than it was asked to.
Wake ==
    /\ pc = "sleep"
    /\ clock >= wakeAt
    /\ Goto("poll")
    /\ UNCHANGED <<command, session>>

ChildEnded == config.command_args # << >> /\ running_ /\ child = "zombie"

\* Mutant: running_ stays set when the child has been reaped.
PollForgetsChild ==
    /\ pc = "poll"
    /\ IF ChildEnded THEN child' = "reaped" /\ Goto("wait") ELSE UNCHANGED child /\ Goto("sample")
    /\ UNCHANGED <<command, world, running_, status, samples, results, info, base>>

\* Mutant: the exit of the child is not noticed.
PollIgnoresExit ==
    /\ pc = "poll"
    /\ Goto("sample")
    /\ UNCHANGED <<command, session>>

\* waitForChildNonBlocking(): the child that has exited is reaped here, and its
\* status is dropped with the loop.
PollChild ==
    /\ pc = "poll"
    /\ IF ChildEnded
       THEN child' = "reaped" /\ running_' = FALSE /\ Goto("wait")
       ELSE UNCHANGED <<child, running_>> /\ Goto("sample")
    /\ UNCHANGED <<command, world, status, samples, results, info, base>>

ReadTime ==
    /\ pc = "sample"
    /\ Goto("read")
    /\ current_time' = getTickCount
    /\ UNCHANGED <<command, world, process, prev_time, prev_states, curr_states, wakeAt,
                   results, info, base>>

ReadStates ==
    /\ pc = "read"
    /\ Goto("account")
    /\ curr_states' = counter
    /\ UNCHANGED <<command, world, process, prev_time, current_time, prev_states, wakeAt,
                   results, info, base>>

-----------------------------------------------------------------------------
(* calculateEvents(), StatsCalculator::calculate() and printResults(). *)
NoEvents   == [k \in Kinds |-> 0]
Plus(d, e) == [k \in Kinds |-> d[k] + e[k]]

\* calculateEvents() leaves zero for a socket that is not monitored.
Events(s) == IF Monitored(s) THEN [k \in Kinds |-> curr_states[s][k] - prev_states[s][k]]
             ELSE NoEvents

\* The quotient as the file has it, rounded in its last digit: half of a unit may go
\* either way, the quotient being a floating point number.
Nearest(n, d) == CHOOSE r \in {n \div d, 1 + n \div d} : 2 * (r * d - n) \in -d .. d

toBW(events, elapsed) == IF elapsed = 0 THEN 0 ELSE Nearest(events * Precision, elapsed)

\* Reads, writes and their total, for DRAM and then for CXL.
Columns(d) == << d["reads"], d["writes"], d["reads"] + d["writes"],
                 d["cxl_reads"], d["cxl_writes"], d["cxl_reads"] + d["cxl_writes"] >>

\* A total is rounded once, from the events of both kinds.
Throughput(d, elapsed) == [c \in 1 .. 6 |-> toBW(Columns(d)[c], elapsed)]

\* Mutant: the bandwidths of all sockets are written, whatever -s says.
CSVLineOfAll(time, elapsed) ==
    Line(time, [k \in 1 .. NumSockets |-> Throughput(Events(k - 1), elapsed)])

\* Mutant: what a row covers is taken for the interval that was asked for.
CSVLineOfInterval(time, elapsed) ==
    Line(time, [k \in 1 .. Len(Shown) |-> Throughput(Events(Shown[k]), config.interval)])

CSVLine(time, elapsed) ==
    Line(time, [k \in 1 .. Len(Shown) |-> Throughput(Events(Shown[k]), elapsed)])

\* One turn of the loop, up to the next sleep.  Only bwprof record writes a file.
AccountAs(total, prev, curr) ==
    /\ pc = "account"
    /\ accumulated' = total
    /\ LET elapsed == current_time - prev_time
       IN  /\ rows' = Append(rows, [elapsed |-> elapsed, events |-> [s \in Sockets |-> Events(s)]])
           /\ csv' = IF config.command = "record" THEN Append(csv, CSVLine(clock, elapsed)) ELSE csv
    /\ prev_time' = current_time
    /\ prev_states' = prev
    /\ curr_states' = curr
    /\ UNCHANGED <<command, world, process, current_time, info, base>>

Totals == [s \in Sockets |-> Plus(accumulated[s], Events(s))]

\* Mutant: the states are not swapped.
AccountWithoutSwap == AccountAs(Totals, prev_states, curr_states) /\ Sleep

\* Mutant: the next sample is taken without a sleep.
AccountWithoutSleep ==
    AccountAs(Totals, curr_states, prev_states) /\ Goto("poll") /\ UNCHANGED wakeAt

\* Mutant: curr_states_ is moved away instead of swapped.
AccountMovesStates == AccountAs(Totals, curr_states, << >>) /\ Sleep

Account == AccountAs(Totals, curr_states, prev_states) /\ Sleep

\* waitForChild() returns -1 at once unless the child is still running_; what it
\* returns is reported if it is the status of a process.
WaitForChild ==
    /\ pc = "wait"
    /\ running_ => child = "zombie"
    /\ child' = IF running_ THEN "reaped" ELSE child
    /\ status' = IF running_ THEN Exited ELSE NotReaped
    /\ running_' = FALSE
    /\ Goto("done")
    /\ UNCHANGED <<command, world, samples, results, info, base>>

\* Nothing handles SIGINT: the session ends wherever it is.
Ends == {"done", "reader", "usage", "error", "killed"}

Interrupt ==
    /\ pc \notin Ends
    /\ Goto("killed")
    /\ UNCHANGED <<command, session>>

-----------------------------------------------------------------------------
(* External: time passes, memory is accessed, the command ends. *)
\* Nobody looks at the clock or at the counters before the loop.
Watching == pc \in {"time", "states", "sleep", "poll", "sample", "read", "account"}

Tick ==
    /\ Watching /\ clock < MaxClock
    /\ clock' = clock + 1
    /\ UNCHANGED <<pc, command, counter, process, samples, results, info, base>>

Traffic ==
    /\ Watching
    /\ \E a \in Active : /\ counter[a[1]][a[2]] < MaxEvents
                         /\ counter' = [counter EXCEPT ![a[1]][a[2]] = @ + 1]
    /\ UNCHANGED <<pc, command, clock, process, samples, results, info, base>>

ChildExits ==
    /\ child = "running"
    /\ child' = "zombie"
    /\ UNCHANGED <<pc, command, world, running_, status, samples, results, info, base>>

-----------------------------------------------------------------------------
NoCounts == [s \in Sockets |-> NoEvents]

Init ==
    /\ line \in CommandLines
    /\ parser = [argv |-> line, dashed |-> FALSE, arg_num |-> 0]
    /\ config = [command |-> "help", interval |-> 2, socket |-> AllSockets,
                 command_args |-> << >>]
    /\ pc = "parse"
    /\ clock = 0
    /\ counter = NoCounts
    /\ child = "none"
    /\ running_ = FALSE
    /\ status = NotReaped
    /\ prev_time = 0 /\ current_time = 0
    /\ prev_states = NoCounts /\ curr_states = NoCounts
    /\ accumulated = NoCounts
    /\ wakeAt = 0
    /\ csv = << >> /\ info = << >> /\ rows = << >>
    /\ base = NoCounts

Parse == Dashes \/ Option \/ Argument \/ ArgpError \/ Dispatch
Start == \/ PrepareDataDirectory \/ Initialize \/ OpenCSVFile \/ ExecuteCommand
         \/ CollectAndSave
Loop  == \/ ReadFirstTime \/ ReadFirstStates \/ Wake \/ PollChild \/ ReadTime
         \/ ReadStates \/ Account \/ WaitForChild

Next == Parse \/ Start \/ StartupFails \/ Loop \/ Interrupt \/ Tick \/ Traffic \/ ChildExits

Spec == Init /\ [][Next]_vars

\* bwprof is scheduled and time passes; the command need not ever end.
FairSpec == Spec /\ WF_vars(Parse \/ Start \/ Loop) /\ WF_vars(Tick)
-----------------------------------------------------------------------------
InLoop == {"sleep", "poll", "sample", "read", "account", "wait", "done"}
Counts == [Sockets -> SocketMemoryData]

TypeOK ==
    /\ pc \in {"parse", "time", "states"} \cup Startup \cup Ends \cup InLoop
    /\ line \in CommandLines
    /\ parser \in [argv : Seq(Word), dashed : BOOLEAN, arg_num : Nat]
    /\ config \in Config
    /\ clock \in Nat /\ wakeAt \in Nat
    /\ counter \in Counts /\ base \in Counts
    /\ child \in {"none", "running", "zombie", "reaped"}
    /\ running_ \in BOOLEAN
    /\ status \in {NotReaped, Exited}
    /\ prev_time \in Nat /\ current_time \in Nat
    /\ prev_states \in Counts /\ curr_states \in Counts
    /\ accumulated \in [Sockets -> [Kinds -> Int]]
    /\ rows \in Seq([elapsed : Int, events : [Sockets -> [Kinds -> Int]]])
    /\ info \in Seq(InfoItem)

\* Whatever the counters do between two reads, the accumulated events of a
\* monitored socket are those between the first read and the last one: no event is
\* counted twice or lost between two iterations of the loop.
AccumulatesAllEvents ==
    pc \in InLoop =>
        \A s \in Sockets, k \in Kinds :
            accumulated[s][k] = IF Monitored(s) THEN prev_states[s][k] - base[s][k] ELSE 0

\* A row covers at least the interval that was asked for, so that its bandwidth is
\* never computed from a sliver of time, or from no time at all.
RowsCoverInterval == \A i \in 1 .. Len(rows) : rows[i].elapsed >= config.interval

\* running_ is true exactly while there is a child to wait for, on every path out
\* of the session: waitpid() is never called for a child that is gone, and a session
\* that ends normally leaves no zombie.
ChildAccounted ==
    /\ running_ <=> child \in {"running", "zombie"}
    /\ pc = "done" => child \in {"none", "reaped"}

\* What bwprof starts is every word behind -- and, before it, every word that is not
\* an option, in order and without the first one; an option of the command that is
\* spelt like one of bwprof's own is bwprof's before the -- and the command's behind.
Arguments == {i \in 1 .. Len(line) :
                  line[i].key = "arg" \/ \E m \in 1 .. i - 1 : line[m].key = "--"}
Before(i) == {j \in Arguments : j < i}

CommandKeepsItsWords ==
    child # "none" =>
        /\ Len(config.command_args) = Cardinality(Arguments) - 1
        /\ \A i \in Arguments :
              LET nth == Cardinality(Before(i))
              IN  nth > 0 => config.command_args[nth] = line[i].text

\* When the command has ended, the session ends at its next wake-up.
EndsWithCommand ==
    pc = "sleep" /\ child = "zombie" /\ wakeAt <= MaxClock ~> pc \in {"done", "killed"}

\* runRecordMode() prints how the command ended: "If command was executed, wait for
\* it to complete", then its exit status or its signal.
ExitReported == pc = "done" => status = Exited
=============================================================================
