# HMSDK in TLA+

TLA+ models of the programs in this repository that have logic of their own: `libhmalloc`,
`hmctl`, `bwprof` and the Python tools that set a system up. TLC checks them on small
instances; TLAPS proves nearly all of their safety properties, of every component, for every
instance.

## The system

| Component | State it keeps | Operations | Hard to get right |
|---|---|---|---|
| `hmctl` (`src/hmalloc/src/hmctl.c`) | `struct opts`, the `HMALLOC_*` environment | `parse_option()`, `setup_child_environ()`, `execv()` | order of options, conversions through `int` and `long`, nested `hmctl` |
| `libhmalloc`, environment (`env.c`) | none | the three `getenv_*()` | what `atol()` makes of what `printf` wrote |
| `libhmalloc`, allocator (`hmalloc.c`) | `use_jemalloc`, `nodemask`, `mpol_mode`, `maxnode`, `arena_index`, `errno` | `hmalloc_init()`, the `h*alloc()` family, `hfree()`, `hmmap()`, `hmunmap()`, the extent hooks | threads between `mmap()` and `mbind()`; failures half way; `errno` as a return channel |
| `bwprof record`, `bwprof top` (`bwprof.cc`) | the configuration, the previous and the current sample, totals, the child process, `bwprof.csv`, `info.txt` | `parse_option()`, start-up, `runMonitoringLoop()`, `ProcessExecutor`, the writers | clock, counters and child move while the loop reads them; a word of the command line is an option or part of the command |
| `bwprof` data directory | `bwprof.data`, `bwprof.data.old` | `prepareDataDirectory()`, `openCSVFile()`, `collectAndSave()` | being killed between two file system calls; two recorders at once |
| `bwprof report`, `dump`, `info` | none | `printReport()`, `printDump()`, `printInfo()` | columns are found by position, lines by count; the file says nothing of the interval |
| `mlc.py` | the directory `mlc` | download, unpack, run | being interrupted, and the remains the next run finds |
| `bwactl.py`, `iw_ratio.py` | sysfs weights | the halving loop, the writes | termination of the loop; writes that stop half way |
| `gen_migpol.py` | the kdamonds it prints | pairing nodes, `split_region()` | the ends of chunks; regions that do not shrink |
| `linux`, `damo`, `numactl`, `pcm` | | | git submodules, empty here |

They interact through narrow channels. `hmctl` passes a policy to `libhmalloc` through three
environment variables and nothing else; `libhmalloc` and jemalloc call each other (jemalloc
calls `extent_alloc()` and `extent_dalloc()`, which call `hmmap()` and `munmap()`);
`libhmalloc` and its callers share `errno`; `bwprof` shares a directory name with other
`bwprof` processes, a process with the command it starts, and two files with the `report`,
`dump` and `info` that are run at any later moment. `bwactl.py` calls `mlc.py` and
`iw_ratio.py` and shares the directory `mlc` with its own earlier runs.

What makes each of them correct:

- `hmctl` and `libhmalloc`: the memory of a program is under the policy that was asked for on
  the command line, not under part of it and not under another one.
- The pool: no one is given a region before its policy is set; a region has one owner at any
  moment, whatever fails; a block is never lost or handed out twice; `errno` tells the caller
  the truth; every call returns.
- `bwprof`: each event is counted once; a row stands for at least an interval; the child is
  waited for exactly once; the session notices that the child has ended.
- The files of `bwprof`: what is read back is what was measured, for the right socket, and
  `info` finds everything the recorder wrote.
- The data directory: a recording is not lost to a recorder that is killed half way.
- `bwactl.py`: the weights of a package are those of one of its own CPU nodes, and in
  proportion; an interrupted installation does not poison the next one.
- `gen_migpol.py`: the migrations asked for and no others, over every address of their nodes.

## Modules

| Module | Models | Used by |
|---|---|---|
| `NodeMask` | node masks on their way through `int`, `long`, text and `mbind(2)` | `HmallocEnv` |
| `HmallocEnv` | the `HMALLOC_*` variables and their readers | `Hmctl`, `Hmalloc` |
| `Hmctl` | option parsing, the environment, `execv()` of a program or of `hmctl` again | `HmctlPool`, `HmctlProofs` |
| `PolicyPool` | the abstract pool: what `libhmalloc` promises | `Hmalloc` (`ImplementsPool`) |
| `Hmalloc` | the library in one process, with threads | `HmctlPool`, `MCHmalloc`, `HmallocProofs` |
| `HmctlPool` | `hmctl` and then the program, end to end | `MCHmctlPool` |
| `Bwprof` | one run of `bwprof`: command line, `record` and `top`, the files they write | `BwprofReport` |
| `BwprofReport` | `report`, `dump` and `info` of these files | `MCBwprof` |
| `BwprofDataDir` | the data directory under several recorders | its own run |
| `Bwactl` | `bwactl.py` with `mlc.py` and `iw_ratio.py` | `MCTools` |
| `GenMigpol` | `gen_migpol.py` | `MCTools` |
| `HmctlProofs` | proofs about `Hmctl` and `HmctlPool` | |
| `HmallocProofs` | proofs about `Hmalloc`: policies and `errno` | `HmallocPoolProofs`, `HmctlProofs` |
| `HmallocPoolProofs` | proofs about `Hmalloc`: ownership, and that it implements `PolicyPool` | |
| `BwprofProofs` | proofs about a session of `Bwprof` | |
| `BwprofReportProofs` | proofs about the files of a session and what `BwprofReport` reads in them | |
| `BwprofDataDirProofs` | proofs about `BwprofDataDir` | |
| `GenMigpolProofs` | proofs about `GenMigpol` | |
| `BwactlProofs` | proofs about `Bwactl` | |

### Masks and the environment

A mask is the set of its bits. The widths `IntBits` and `LongBits` are constants, so that the
sign bit of `1 << node` (`ShiftOne`), the conversion it is printed with and the saturation of
`atol()` (`Atol`) are all there in a long of a few bits. A text of the environment is a record
of its conversion and its bits; no string is built. `KernelNodes` is what `mbind(2)` makes of
a mask and `maxnode`: one bit less than `maxnode` says.

### `Hmctl`

`opts` is `struct opts`, with `NoArg` for `NULL` and -1 for no `-p`. `ParseOption` is one call
of `parse_option()` with its conflict tests; `SetupChildEnviron` writes the environment in the
order of the `else if`s; `ExecHmctl` starts over with the environment just written. `given`
and `wanted` are history: the options seen and the policy that hmctl(8) says they ask for. A
command line with several policy options, with an invalid node or with the empty list (which
`numa_parse_nodestring()` accepts, and which becomes a mask of 0) asks for nothing definite
(`NoWish`), and the properties say nothing of it except that conflicts stop. So
`PolicyDelivered` does not see what becomes of a mask inherited past a list that does not
parse.

### `Hmalloc`

`lib` is the library's static variables, `errno` is per thread, and `frame[t]` is the call
thread `t` is in, with the locals of the code. `hmmap()` is one action per system call
(`Mmap`, `Mbind`, `Munmap`, and the save and restore of `errno`), because other threads run in
between. External, modelled from how the code uses them: jemalloc (whole extents, one per
region; a block is an extent that is `live`, a freed one is `cached` until the `extent_dalloc`
hook gives it back), libc's allocator, and the kernel's `mmap`, `mbind` and `munmap`, any of
which may fail as `Failing` says. `cause` and `entry` are history, for the properties about
`errno`.

`lib.arena_index` is 0 when `arenas.create` failed: the new arena needs memory from the hook,
and if the hook's `mbind()` fails the index stays at the default arena, which has no hooks,
and `main()` starts with the `errno` of that call. The `assert` after it is not in the default
build. When `munmap` is in `Failing`, it may fail in each of its three places: on the error
path of `hmmap()`, in `hmunmap()` and in `extent_dalloc()`; the mapping is then still there,
the application's or jemalloc's, and `errno` is set.

Left out of the action list: `hmalloc_usable_size()`, which changes nothing. Abstracted:
jemalloc's own metadata, the failure of `mmap()` inside the constructor, a size of 0 in
`mallocx()`, and what the kernel reads beyond the one word of the node mask when `maxnode` is
more than 64.

### `Bwprof` and `BwprofReport`

The command line is a sequence of words, and `Dashes`, `Option`, `Argument` and `ArgpError`
take one word at a time, as `parse_option()` is called. A word carries what argp makes of it
(an option with its number, `--`, or an argument) and its text, because behind `--` an option
is a word of the command. Then there is one action per step of `runRecordMode()` and
`runTopMode()` and of `runMonitoringLoop()`. The clock, the counters and the child move between
any two steps: reading the time and reading the counters are separate actions. A sleep may be
longer than asked for.

`csv` is the lines of `bwprof.csv`; a column of the header is a socket and a number from 1 to
6, so that `ColumnsMatchHeader` can say which value belongs under it. A bandwidth is a whole
number of hundredths of a MB/s, the last digit the file has: `toBW` rounds the quotient to the
nearest one (`Nearest`, either way on a tie, the quotient being a double), and a total is
rounded on its own. `Precision` is the bandwidth of one event in one unit of time: a unit of
time, or a lot of events, is chosen such that this is a whole number. The doubles themselves
are taken to be exact, which they are to far more digits than the file has.

Rows are timed with PCM's tick count (`getTickCount`), sleeps and the time stamps of the file
with the steady clock. The two differ by a constant, `Ahead`. That they run at the same rate is
an idealisation: the one counts cycles by their nominal frequency and the other is steered by
the system, so that over an interval they differ by millionths. `RowsCoverInterval`, and with
it the part of `ReportNeverOverstates` that does not come from rounding, holds up to that.

`info` is the lines of `info.txt`, known by their keys, each with the number of lines it
announces and whether it is the recorder's `own`. The words of the command are written as they
are (`Continuation`), and what follows a line break in one of them is read by `printInfo()` like
any other line. `Continued` says what the words of a command add in that way: any lines, with
the recorder's keys or others, and with groups of any size. `InfoReadsBack` says what is safe
about that: if each group they open ends among them, all that can be displayed wrongly is the
command line itself. Without that condition it is false: a group that runs on swallows the
recorder's own lines behind it, and if `cpuinfo:lines=2` is among these, `nr_cpus` and `desc` are
read at the top level, where they have no meaning.

`BwprofReport` has no state: `report`, `dump` and `info` read the files and change nothing, so
they are operators over `csv` and `info`, and the invariants about them hold at every moment of
the session at which they may be started, which includes a session that has been interrupted.
The header and the rows choose their sockets by the same test (`bwprof.cc:965` and `1010`),
which is one operator here, `Shown`: `ColumnsMatchHeader` is about the place of each value, not
about the two tests becoming different.

`BwprofDataDir` takes `prepareDataDirectory()` apart further, one test or file system call at a
time, with any number of recorders. The removal of the backup goes file by file: it may be cut
off half way (`RemoveSome`, then `Killed`) or refused (`RemoveFails`), and `damaged` are the
directories that have lost files. Of `-d` the model has what matters, a name that ends in a
slash (`slashed`).

Left out: the wrap of the counters, the console output of `bwprof top` beyond its numbers,
widths, and `terminateChild()`, which is never called.

### `Bwactl`

`mlc_dir` is the directory that `MLC.__init__()` fills, one action per step; `Interrupted` and
`DownloadFails` leave it in any state wget or tar can leave it in, and `Begin` starts another
run over that. `Measure` then takes any matrix and any topology. `Halve` is one turn of the
loop of `get_iw_ratio()`; values are counted in 1/`Unit`, a power of two large enough that
every half is exact, as it is for a double. `Ratio` is the rest of the function, with Python's
rounding to the even neighbour, and `WriteWeight` is one file of sysfs. The kernel takes
weights from 1 to 255. `writer` is history: whose row each weight is from.

### `GenMigpol`

`Migrations` is what `main()` asks damo for and damo's answer, one kdamond for each; the
physical regions of a node are a constant. `split_region()` is one action per chunk and per
region. `MaxChunks` bounds a run whose maximal size is 0, which never ends.

## Runs

| Run | Question | Bounds |
|---|---|---|
| `MCHmctlPool` | is the policy on the command line the policy of every block? | 2 nodes and the empty list, int of 3 bits, long of 5, 2 policy options per command line, 2 nested hmctl, 1 thread, 2 regions |
| `MCHmalloc` | is the pool bound, accounted for, and an implementation of `PolicyPool`? | 2 threads, 2 regions, 4 environments, every function, `mmap` and `mbind` may fail |
| `MCHmallocBlocks` | does every live block have one owner? | 2 threads, 3 regions, no stale `ENOMEM` |
| `MCHmallocCalls` | is `errno` right and does every call return when all three system calls may fail, in the constructor and the hooks as well? | 2 threads, 2 regions, bind |
| `MCHmallocStaleErrno` | the same as `MCHmallocBlocks` with a stale `ENOMEM`: violated | 1 thread |
| `MCHmallocUnbound` | are blocks under the policy even if the kernel rejects it? violated | 1 thread |
| `MCHmallocMapFailed` | do the functions fail with `NULL` when `mmap()` fails? violated | 1 thread |
| `MCBwprof` | is every event counted once and read back as it was, every child waited for once, every word of the command line where it belongs, does the file add up to what was counted, and does the session end? | 13 command lines, 2 sockets, intervals 1, 2 and 3, 4 seconds, 2 counters of different kinds and sockets with 2 events each |
| `MCBwprofReport` | does `bwprof report` show the sizes of what was accessed? violated | 1 socket, 1 command line |
| `MCBwprofStatus` | is the exit of the command reported? violated | 1 socket |
| `BwprofDataDir` | is a recording lost, or written into another one's directory? | 3 recorders, each with or without a slash at the end of its name, 2 earlier directories |
| `MCTools` | are weights and migrations what the bandwidths and the command line ask for, over the remains of earlier runs, and do the tools end? | `bwactl.py`: 2 runs, 2 CPU nodes and a memory node, 3 topologies, bandwidths 0, 1, 30, 45, 300; `gen_migpol.py`: 4 nodes, one without regions, up to one each of `-d`, `-p` and `-m`, maximal sizes from -1 to 5 |

Why the bounds are enough for what they are to show. Two threads and two regions give every
overlap of one `hmmap()` with another call, and every way a region can be taken from under its
owner; three regions in `MCHmallocBlocks` let both threads move a block at once. Two nested
`hmctl` are the fewest in which one inherits. Four seconds hold two rows of interval 2 or one
that a late wake-up has made longer, four of interval 1, and one of interval 3, in which an
event is a third of the bandwidth it has in a row of 1 and has to be rounded. The two counters
that move differ in socket and in kind, so that their values show it when they get into another
column; the command lines have `-s1` before and behind `--`, arguments on both sides of it, a
word with a line break that adds five lines to `info.txt` (one like the recorder's own, and a
group), and each way
to be refused. Three recorders are the fewest that can remove what the first one left under the
name of the backup. The bandwidths of `MCTools` give rows that halve to the end, rows that stop
at once because a node would reach 1, rows of zeros, ties in the rounding, and weights the
kernel refuses; the topologies put the memory node into the package of one CPU node, of both,
and of none. The regions split into one chunk, into whole chunks and into a shorter last one. A
behaviour of `MCTools` runs one of the two tools, which share nothing. The threads and regions
are symmetric in the runs that check no liveness. The runs do not check for deadlock: every one
of these programs may end (`hmctl` when it has exec'd, `bwprof` when it is done), and a program
that calls `libhmalloc` stops for good when it has crashed.

`MappingsAccounted` supposes that `munmap()` on the error path of `hmmap()` works, since the
code does not look at its result; `munmap` may fail in `MCHmallocCalls` only.

### Fairness

`CallsReturn` takes weak fairness of `Progress(t)` for each thread: a thread inside the library
is scheduled, and jemalloc, libc and the kernel answer. jemalloc asks the hook at most
`MaxTries` times in one call. Nothing is assumed of the application, which need never call
again. `EndsWithCommand` takes weak fairness of the steps of `bwprof` together and of `Tick`:
the process is scheduled and time passes. Nothing is assumed of the command: it need not end.
`BwactlEnds` and `MigpolEnds` take weak fairness of the steps of each tool, wget and tar
included, which end by themselves; nobody has to start a tool or interrupt it. `MigpolEnds`
supposes a positive maximal size, because with any other the loop does not end.

### Where the code and its documents disagree

Five runs show it, one property each; the findings in `PROJECT.json` quote the documents.
`hmalloc()` takes a stale `ENOMEM` for its own and loses a block; a hook that returns
`MAP_FAILED` is taken for an extent; a policy that the kernel rejects is dropped in silence;
`bwprof` reaps its command in the poll and then has no status left to report; `bwprof report`
adds bandwidths up as if each row stood for a second, so that with the default interval of two
its sizes are half of those `bwprof top` shows. What does hold of them is in `MCBwprof`: the
factor is the same for every socket and kind of access (`ReportKeepsProportions`), and overrun
sleeps only ever make the report smaller, so that it shows no more than there was and what the
rounding of the rows may add, half a hundredth of a MB for each row (`ReportNeverOverstates`).

Smaller ones were met on the way and have no run of their own. hmctl(8) lets `-P` before
`-m` pass though `-m` before `-P` is a conflict. `hposix_memalign()` returns 0 with a `NULL`
pointer for a size beyond the largest class, and does not test for a multiple of
`sizeof(void *)`. `bwprof report` numbers the sockets it shows from 0, whatever `-s` was.
The help text of `bwprof` (`bwprof.cc:1260`) has `bwprof record --top -- ls -la` as an example,
but the key of `--top` is 0, which is `ARGP_KEY_ARG`, and with a null argument it is always
refused; the model refuses it too (`Refused`). With `-d dir/` the backup would be `dir/.old`,
inside the directory that is to be renamed to it, so every recording after the first fails
(`slashed` in `BwprofDataDir`; `StartsOverAnything` excepts it).
`bwactl.py --mlc-file` "instead of running" MLC still downloads it. `bwactl.py` fails for good
when tar was interrupted while it wrote the binary, since part of it counts as installed.

## Proofs

`tlapm` proves every theorem and lemma from the assumptions on the constants alone.

**`HmctlProofs`**, for any set of nodes, any widths, any number of options and of nested
`hmctl`.

- `TypeCorrect`: only well-formed environments reach `execv()`.
- `ConflictsStop`: `-m` and a `-p` above 0 never get past the parser together. The invariant
  (`ConflictInv`) is about the phase `parse` as well: the two can meet in `opts` only in the
  step that stops.
- `PolicyIsDelivered`: under `NodesFit`, which says that the nodes do not touch the sign bit of
  the `int` that `-p` shifts or of the `long` that `atol()` reads, what is loaded is what was
  asked for. Without `NodesFit` it is false, and that is where the conversions go wrong. The
  invariant `DeliveryInv` adds that a single option leaves nothing in `opts` but itself,
  however often it is repeated.
- `TargetNodesAreMet`: hmctl(8)'s promise from the command line to the page tables. Besides
  `NodesFit` it needs `KernelFits`: the kernel implements the policies, reads the bits of these
  nodes (it takes one bit off `maxnode`, which the library sets to the greatest possible node
  number and not to a count, so the last two possible nodes are out) and does not run out of
  memory in `mbind()`. `MCHmallocUnbound` shows what becomes of a policy without it. The proof
  joins what is proved of the two programs: the environment that is delivered (`DeliveryInv`),
  that the library reads it once and that nothing of the process moves before (`StartedInv`,
  `LP!ReadsEnv`), and that the pool is bound (`LP!PoolIsBound`). `LP` is `HmallocProofs`
  instantiated with the library of `HmctlPool`.

**`HmallocProofs`**, for any number of threads and regions, any environments and requests, and
any failures of the system calls.

- `TypeCorrect`.
- `PoolIsAlwaysBound`: `Spec => []PoolIsBound`. `PoolIsBound` is not inductive: it says nothing
  of a region that is still inside `hmmap()`, and if two threads could be inside with the same
  region, the `munmap()` of one would unmap a region the other has published. The invariant
  `IInv` therefore says who can own what: nothing moves before the constructor has run
  (`LoadInv`), the steps of `hmmap()` follow one another with the region they are about
  (`FrameInv`), a mapped region has at most one owner among the `hmmap()` calls, the allocator
  and the application (`OwnerInv`), a block has at most one owner among the calls in progress
  and the application (`BlockInv`), and a region that `hmmap()` is about to return is under the
  policy (`BoundInv`). Owners are read off the frames of the threads, so the proof of a step is
  about one frame: `QuietStep` covers every step that takes nothing over, `OwnRegion` the
  system calls on a region the thread has for itself, `DeliverIInv` a region that becomes a
  block.
- `HmmapErrnoIsKept` and `MemalignErrnoIsKept`: a failing `hmmap()` reports the error of its
  `mbind()` and not that of the `munmap()` that undoes it, and a failing `hposix_memalign()`
  leaves `errno` alone. `ErrnoInv` says, for each place a thread can be at, where the value
  that will be restored is at that moment: in `errno`, in the local `mbind_errno` or in
  `old_errno`; the two are nested when a hook fails inside `hposix_memalign()`.

**`HmallocPoolProofs`**, for the same instances.

- `PoolIsImplemented`: the refinement, `Spec => ImplementsPool`. `PoolStep` maps every action
  of `Hmalloc` to `Load`, `Publish` or `Withdraw` of `PolicyPool` or to a stutter: what is
  between `mmap()` and the return of `hmmap()` cannot be seen from outside.
- `MappingsAreAccounted`: every mapping has an owner, and one only, if `munmap()` does not
  fail. The converse of `IInv`'s "at most one" is `MappedInv`. The hypothesis is needed: the
  code does not look at the result of the `munmap()` on its error path, and the region it
  leaves is nobody's.
- `BlocksAreNotShared`: no block has two owners or outlives its `hfree()`, whatever fails. No
  run has it as a property of its own: it is the part of `BlocksAccounted` that is left
  without the next hypothesis.
- `BlocksAreAccounted`: no block is lost either, under `NoFailures`: no system call fails and
  the application does not leave `ENOMEM` in `errno`. `MCHmallocStaleErrno` shows that it is
  false with a stale `ENOMEM`, and a failing `mmap()` or `mbind()` under one allocation leaves
  just that to the next one. `SaneInv` says that under `NoFailures` no thread that jemalloc
  has given a block ever sees `ENOMEM`, and `IdleInv` that a thread outside the library keeps
  nothing in its frame.

**`BwprofProofs`**, for any sockets, any command line, any traffic and any sleeps.

- `TypeCorrect` and `ChildIsAccounted`, which is inductive by itself.
- `RowsCoverTheInterval`: `TimeInv` carries the time from the sleep that was asked for
  (`wakeAt`) over the poll to the reading of the clock, which may be later.
- `EventsAreAccumulated`: the totals are the difference of the first and the latest sample;
  `EventInv` adds that nothing is counted before the loop.
- `CommandGetsItsWords`: `WordsInv` says what `parse_option()` has made of the words before the
  next one, and `StartedInv` that no command is started before the whole line has been read.
  The property counts and places the words by their positions in the line, since the prover can
  say nothing of the result of `SelectSeq`.

**`BwprofReportProofs`**, for the same instances; each theorem is about `report`, `dump` or
`info` run at any moment of the session.

- `ColumnsAreAsNamed`, `DumpedTimesAreApart`: by `CsvInv`, which says when the file is there
  (`FileInv`), that its lines are the rows in the order of the header (`LinesInv`) and that
  the next line will be an interval after the last one wherever the loop is (`StampInv`).
- `TheFileAddsUp`: every column of the file, each value times what its row covers, is the events
  its socket counted since the session started, up to half a unit of the last digit per unit of
  time. It joins `AccumulatesAllEvents`, the totals of the rows and the rounding of each value
  (`NearestIs`). The sums are the folds of the community modules, and these are recursive
  functions over sets: the lemmas before the theorem show, by induction over the prefixes
  `1 .. m` of the lines, that such a fold passes through a sequence of stages and what its value
  is (`AddedOrder`, `AddedPlus`). The induction is over a set of natural numbers, since the
  prover cannot use induction rules that have an operator as a parameter.
- `NothingIsOverstated` and `ProportionsAreKept`: from `ReportInv`, which joins the invariants
  above and adds that counts never go down (`CountInv`). Neither has a hypothesis of its own:
  the slack for rounding in the first, and that no sleep is overrun and no bandwidth needs
  rounding (`Regular`) in the second, are in the properties.
- `InfoIsReadBack`: `info.txt` is absent or what `collectAndSave()` has written around any lines
  of the words (`InfoInv`); lines of words that open no group past their end leave the reader
  at the top level, where the lines behind them are read as they are without them. `info` reads
  line by line with a count announced in the file; the lemmas follow the reader over the lines
  of the words, by induction, and then over one group of lines at a time.

**`BwprofDataDirProofs`**, for any number of recorders.

- `TypeCorrect`.
- `LastRecordingIsKept`, `RecordsInTheirOwn`, `AlwaysStarts` (an action property): by
  `AloneInv`, which says what each file system call of the only recorder at work has
  established about the two names, with `NamesInv`: what is called `bwprof.data` has lost no
  files. `AlwaysStarts` excepts names that end in a slash and a removal the file system
  refuses.
- `LiveRecordingIsKept`: by `OverlapInv`. With one overlap at most two recorders are at work,
  and one that runs is under the first name as long as the other may still remove the backup.

**`GenMigpolProofs`**, for any nodes with any regions that do not overlap, any command line and
any maximum.

- `TypeCorrect` and `RegionsAreBounded`, with `StageInv` and `BoundInv`.
- `PolicyIsAsAsked`: `PolicyInv` says that the kdamonds made and those still to be split are
  together the migrations asked for, and that a kdamond of which nothing is left has something
  in the output or held back; `RangeInv` that nothing empty is still to be split.
- `RegionsAreCovered`: for each address, `CoverInv` says that it is asked for exactly if it is
  made, held back with the small regions, or still to be split, and `OnceInv` that it is at one
  of these places only. With a maximum of 0 or less these are false on the way (the end of a
  chunk lies before its start), and what holds instead is that a run that ends had nothing to
  split (`StuckInv`), so the theorem has no hypothesis on the maximum.

**`BwactlProofs`**, for any topology, any matrix and any number of interrupted runs.

- `UnpacksAnArchive`: by `InstallInv`.
- `PackagesAreOfOneRow`: the loop over the CPU nodes is left at any write that fails. `RowInv`
  says of each place in it which packages are done (`EarlyInv`), which are not begun
  (`LateInv`), and that only the one at hand can be half written (`OthersInv`, `WriteInv`). It
  rests on the assumption of `Bwactl` that at least one node has a CPU.
- `ProportionIsKept` and `TypeCorrect`: while a row is halved it is the row of bandwidths times
  a divisor of `Unit`, and no value but 0 is below 1 (`DataInv`). A value of 1 or more is at
  most a third off when it is rounded (`RoundBounds`), which bounds the proportion of two of
  them by 2, and rounding keeps their order (`RoundMonotone`). `list_gcd()` then divides every
  number of its list (`ListGcdDivides`): it is a fold, so the lemma goes by induction over the
  sets of positions it has passed (`FoldExists`, `FoldDivides`). Dividing by a common factor
  changes neither order nor proportion (`FactorTaken`), and the rows already done stay as they
  are (`RatioInv`). It rests on `Unit` being a power of two, which `Bwactl` assumes in the form
  that a divisor other than 1 is even, and on bandwidths of at most `SOFT_MAX_RATIO_VAL * Unit`,
  so that no half is lost; doubles are far finer than any bandwidth needs. `gcd` is Python's
  `math.gcd`, modelled by what it promises: the greatest common divisor, and 0 for two zeros.

## Checked but not proved

- Liveness: `CallsReturn`, `EndsWithCommand`, `BwactlEnds`, `MigpolEnds`. The prover has no rule
  for fairness and `ENABLED`.

Everything else that the passing runs check is the statement of a theorem: the invariants, the
action properties and the refinement of `PolicyPool`.

## Not modelled

- How `bwactl.py` finds the topology: `has_cpu`, the output of lstopo and `--topology` are
  texts whose reading has no state; any topology may come of them in `Bwactl`. So is the text
  MLC prints.
- The fixed options `gen_migpol.py` passes to damo, and YAML.
- Widths and wording of everything that is printed, and the decimals of what is printed on the
  console (those of `bwprof.csv` are modelled, since `report` reads them back).
- The submodules (empty here), tests, documents and build files.

## Plan

In this order, the most important behaviour first:

1. Done: the pool (`Hmalloc`, `PolicyPool`), the way to it (`NodeMask`, `HmallocEnv`, `Hmctl`,
   `HmctlPool`), the proofs above.
2. Done: `bwprof` from its command line to its reports, the data directory with both files,
   `Bwactl` and `GenMigpol`.
3. Done: the proofs, component by component; what is left is named above.
4. Done: every invariant, action property and refinement of the passing runs is proved.
   Liveness stays with `TLC`.
