---------------------------- MODULE BwprofProofs ----------------------------
(***************************************************************************)
(* Proofs about a run of bwprof, for any command line, any number of       *)
(* sockets and any behaviour of the clock, the counters and the command.   *)
(***************************************************************************)
EXTENDS Bwprof, FiniteSetTheorems, SequenceTheorems, TLAPS

-----------------------------------------------------------------------------
(* Type correctness. *)
LEMMA InitType == Init => TypeOK
<1> SUFFICES ASSUME Init PROVE TypeOK
  OBVIOUS
<1>1. line \in Seq(Word)
  BY BwprofAssumption DEF Init
<1>2. parser \in [argv : Seq(Word), dashed : BOOLEAN, arg_num : Nat]
  BY <1>1 DEF Init
<1>3. NoCounts \in Counts
  BY DEF NoCounts, NoEvents, Counts, SocketMemoryData
<1>4. accumulated \in [Sockets -> [Kinds -> Int]]
  BY DEF Init, NoCounts, NoEvents
<1>5. config \in Config
  BY DEF Init, Config, Commands, Readers, AllSockets
<1>6. << >> \in Seq([elapsed : Int, events : [Sockets -> [Kinds -> Int]]])
  BY EmptySeq
<1>7. << >> \in Seq(InfoItem)
  BY EmptySeq
<1>8. status \in {NotReaped, Exited} /\ pc = "parse" /\ child = "none"
  BY DEF Init
<1>9. QED
  BY <1>2, <1>3, <1>4, <1>5, <1>6, <1>7, <1>8 DEF Init, TypeOK

\* The next word is a word, and taking it leaves words.
LEMMA CurrentType ==
    ASSUME TypeOK, Parsing
    PROVE  Current \in Word /\ Tail(parser.argv) \in Seq(Word)
<1>1. parser.argv \in Seq(Word) /\ parser.argv # << >>
  BY DEF TypeOK, Parsing
<1>2. Len(parser.argv) \in Nat \ {0}
  BY <1>1, EmptySeq
<1>3. parser.argv[1] \in Word
  BY <1>1, <1>2
<1>4. QED
  BY <1>1, <1>3, HeadTailProperties DEF Current

LEMMA DashesType == TypeOK /\ Dashes => TypeOK'
<1> SUFFICES ASSUME TypeOK, Dashes PROVE TypeOK'
  OBVIOUS
<1>1. Parsing
  BY DEF Dashes
<1>2. parser' \in [argv : Seq(Word), dashed : BOOLEAN, arg_num : Nat]
  BY <1>1, CurrentType DEF Dashes, Consume, TypeOK
<1>3. QED
  BY <1>2 DEF Dashes, TypeOK, session, world, process, samples, results

LEMMA OptionType == TypeOK /\ Option => TypeOK'
<1> SUFFICES ASSUME TypeOK, Option PROVE TypeOK'
  OBVIOUS
<1>1. Parsing
  BY DEF Option
<1>2. parser' \in [argv : Seq(Word), dashed : BOOLEAN, arg_num : Nat]
  BY <1>1, CurrentType DEF Option, Consume, TypeOK
<1>3. Current.value \in Int
  BY <1>1, CurrentType DEF Word
<1>4. config \in Config
  BY DEF TypeOK
<1>5. CASE TakesInterval /\ config' = [config EXCEPT !.interval = Current.value]
  <2>1. Current.value \in Nat \ {0}
    BY <1>3, <1>5 DEF TakesInterval
  <2>2. config' \in Config
    BY <1>4, <1>5, <2>1 DEF Config
  <2>3. QED
    BY <1>2, <2>2 DEF Option, TypeOK, session, world, process, samples, results
<1>6. CASE TakesSocket /\ config' = [config EXCEPT !.socket = Current.value]
  <2>1. Current.value \in Nat
    BY <1>3, <1>6 DEF TakesSocket
  <2>2. config' \in Config
    BY <1>4, <1>6, <2>1 DEF Config
  <2>3. QED
    BY <1>2, <2>2 DEF Option, TypeOK, session, world, process, samples, results
<1>7. QED
  BY <1>5, <1>6 DEF Option

LEMMA ArgumentType == TypeOK /\ Argument => TypeOK'
<1> SUFFICES ASSUME TypeOK, Argument PROVE TypeOK'
  OBVIOUS
<1>1. Parsing
  BY DEF Argument
<1>2. parser' \in [argv : Seq(Word), dashed : BOOLEAN, arg_num : Nat]
  <2> DEFINE p == [parser EXCEPT !.arg_num = @ + 1]
  <2>1. parser \in [argv : Seq(Word), dashed : BOOLEAN, arg_num : Nat]
    BY DEF TypeOK
  <2>2. p \in [argv : Seq(Word), dashed : BOOLEAN, arg_num : Nat] /\ p.argv = parser.argv
    BY <2>1
  <2>3. parser' = [p EXCEPT !.argv = Tail(p.argv)]
    BY DEF Argument, Consume
  <2>4. Tail(p.argv) \in Seq(Word)
    BY <1>1, <2>2, CurrentType
  <2>5. QED
    BY <2>2, <2>3, <2>4
<1>3. Current.text \in STRING
  BY <1>1, CurrentType DEF Word
<1>4. Append(config.command_args, Current.text) \in Seq(STRING)
  BY <1>3 DEF TypeOK, Config
<1>5. config' \in Config
  <2>1. config \in Config
    BY DEF TypeOK
  <2>2. CASE /\ Current.text \in Commands
             /\ config' = [config EXCEPT !.command = Current.text]
    BY <2>1, <2>2 DEF Config
  <2>3. CASE config' = [config EXCEPT !.command_args = Append(@, Current.text)]
    BY <2>1, <2>3, <1>4 DEF Config
  <2>4. QED
    BY <2>2, <2>3 DEF Argument
<1>6. QED
  BY <1>2, <1>5 DEF Argument, TypeOK, session, world, process, samples, results

\* Steps that only move on.
LEMMA GotoType ==
    ASSUME TypeOK, pc' \in {"parse", "time", "states"} \cup Startup \cup Ends \cup InLoop,
           UNCHANGED <<command, session>>
    PROVE  TypeOK'
  BY DEF TypeOK, command, session, world, process, samples, results

LEMMA ParseType == TypeOK /\ Parse => TypeOK'
<1>1. TypeOK /\ ArgpError => TypeOK'
  BY GotoType DEF ArgpError, Goto, Ends
<1>2. TypeOK /\ Dispatch => TypeOK'
  BY GotoType DEF Dispatch, Goto, Ends, Startup
<1>3. QED
  BY <1>1, <1>2, DashesType, OptionType, ArgumentType DEF Parse

LEMMA ForeignType ==
    ASSUME NEW words \in Seq(Foreign)
    PROVE  words \in Seq(InfoItem)
<1>1. words \in [1 .. Len(words) -> Foreign] /\ Len(words) \in Nat
  BY LenProperties
<1>2. words \in [1 .. Len(words) -> InfoItem]
  BY <1>1 DEF Foreign
<1>3. QED
  BY <1>1, <1>2, SeqDef

LEMMA ContinuationType == Continuation \in Seq(Foreign)
<1>1. << >> \in Seq(Foreign)
  OBVIOUS
<1>2. QED
  BY <1>1, BwprofAssumption DEF Continuation

\* The lines of info.txt, whatever lines the words of the command add.
LEMMA InfoType ==
    ASSUME NEW words \in Seq(Foreign)
    PROVE  InfoLines(words) \in Seq(InfoItem)
<1> DEFINE first == << Own("data_version"), Own("cmdline") >>
           last  == << Own("recorded_time"), Group("cpuinfo", 2), Own("nr_cpus"), Own("desc"),
                       Own("meminfo"), Group("osinfo", 3), Own("kernel"), Own("hostname"),
                       Own("distro") >>
<1>1. ASSUME NEW key \in InfoKeys, NEW n \in Nat PROVE Group(key, n) \in InfoItem
  BY DEF Group, InfoItem
<1>2. ASSUME NEW key \in InfoKeys PROVE Own(key) \in InfoItem
  BY <1>1 DEF Own
<1>3. first \in Seq(InfoItem)
  <2>1. Own("data_version") \in InfoItem /\ Own("cmdline") \in InfoItem
    BY <1>2 DEF InfoKeys
  <2>2. QED
    BY <2>1
<1>4. last \in Seq(InfoItem)
  <2>1. /\ Own("recorded_time") \in InfoItem /\ Own("nr_cpus") \in InfoItem
        /\ Own("desc") \in InfoItem /\ Own("meminfo") \in InfoItem
        /\ Own("kernel") \in InfoItem /\ Own("hostname") \in InfoItem
        /\ Own("distro") \in InfoItem
    BY <1>2 DEF InfoKeys
  <2>2. Group("cpuinfo", 2) \in InfoItem /\ Group("osinfo", 3) \in InfoItem
    BY <1>1 DEF InfoKeys
  <2>3. QED
    BY <2>1, <2>2
<1>5. first \o words \in Seq(InfoItem)
  BY <1>3, ForeignType, ConcatProperties
<1>6. (first \o words) \o last \in Seq(InfoItem)
  BY <1>4, <1>5, ConcatProperties
<1>7. QED
  BY <1>6 DEF InfoLines

LEMMA StartType == TypeOK /\ Start => TypeOK'
<1>1. TypeOK /\ PrepareDataDirectory => TypeOK'
  BY GotoType DEF PrepareDataDirectory, Goto, Startup
<1>2. TypeOK /\ Initialize => TypeOK'
  BY GotoType DEF Initialize, Goto, Startup
<1>3. TypeOK /\ OpenCSVFile => TypeOK'
  BY DEF OpenCSVFile, Goto, Startup, TypeOK, command, world, process, samples
<1>4. TypeOK /\ ExecuteCommand => TypeOK'
  BY DEF ExecuteCommand, Goto, Startup, TypeOK, command, world, samples, results
<1>5. TypeOK /\ CollectAndSave => TypeOK'
  <2> SUFFICES ASSUME TypeOK, CollectAndSave PROVE TypeOK'
    OBVIOUS
  <2>1. info' \in Seq(InfoItem)
    BY ContinuationType, InfoType DEF CollectAndSave
  <2>2. QED
    BY <2>1 DEF CollectAndSave, Goto, TypeOK, command, world, process, samples, results
<1>6. QED
  BY <1>1, <1>2, <1>3, <1>4, <1>5 DEF Start

LEMMA EventsType ==
    ASSUME TypeOK
    PROVE  [s \in Sockets |-> Events(s)] \in [Sockets -> [Kinds -> Int]]
<1>1. ASSUME NEW s \in Sockets PROVE Events(s) \in [Kinds -> Int]
  <2>1. curr_states[s] \in [Kinds -> Nat] /\ prev_states[s] \in [Kinds -> Nat]
    BY DEF TypeOK, Counts, SocketMemoryData
  <2>2. QED
    BY <2>1 DEF Events, NoEvents
<1>2. QED
  BY <1>1

LEMMA TotalsType == ASSUME TypeOK PROVE Totals \in [Sockets -> [Kinds -> Int]]
<1>1. ASSUME NEW s \in Sockets PROVE Plus(accumulated[s], Events(s)) \in [Kinds -> Int]
  <2>1. Events(s) \in [Kinds -> Int]
    BY EventsType
  <2>2. accumulated[s] \in [Kinds -> Int]
    BY DEF TypeOK
  <2>3. QED
    BY <2>1, <2>2 DEF Plus
<1>2. QED
  BY <1>1 DEF Totals

LEMMA AccountType == TypeOK /\ Account => TypeOK'
<1> SUFFICES ASSUME TypeOK, Account PROVE TypeOK'
  OBVIOUS
<1> DEFINE Row == [elapsed : Int, events : [Sockets -> [Kinds -> Int]]]
           row == [elapsed |-> current_time - prev_time, events |-> [s \in Sockets |-> Events(s)]]
<1> USE DEF Account, AccountAs
<1>1. accumulated' \in [Sockets -> [Kinds -> Int]]
  BY TotalsType
<1>2. row \in Row
  BY EventsType DEF TypeOK
<1>3. rows' \in Seq(Row)
  <2>1. rows \in Seq(Row) /\ rows' = Append(rows, row)
    BY DEF TypeOK
  <2>2. QED
    BY <1>2, <2>1, AppendProperties
<1>4. wakeAt' \in Nat /\ prev_time' \in Nat /\ pc' \in InLoop
  BY DEF TypeOK, Sleep, Goto, InLoop, Config
<1>5. QED
  BY <1>1, <1>3, <1>4 DEF TypeOK, command, world, process

LEMMA LoopType == TypeOK /\ Loop => TypeOK'
<1> USE DEF Goto, InLoop, Ends
<1>0. TypeOK => getTickCount \in Nat
  BY BwprofAssumption DEF getTickCount, TypeOK
<1>1. TypeOK /\ ReadFirstTime => TypeOK'
  BY <1>0 DEF ReadFirstTime, TypeOK, command, world, process, results
<1>2. TypeOK /\ ReadFirstStates => TypeOK'
  <2> SUFFICES ASSUME TypeOK, ReadFirstStates PROVE TypeOK'
    OBVIOUS
  <2>1. wakeAt' \in Nat
    BY DEF ReadFirstStates, Sleep, TypeOK, Config
  <2>2. QED
    BY <2>1 DEF ReadFirstStates, Sleep, TypeOK, command, world, process, results
<1>3. TypeOK /\ Wake => TypeOK'
  BY GotoType DEF Wake
<1>4. TypeOK /\ PollChild => TypeOK'
  BY DEF PollChild, TypeOK, command, world, samples, results
<1>5. TypeOK /\ ReadTime => TypeOK'
  BY <1>0 DEF ReadTime, TypeOK, command, world, process, results
<1>6. TypeOK /\ ReadStates => TypeOK'
  BY DEF ReadStates, TypeOK, command, world, process, results
<1>7. TypeOK /\ WaitForChild => TypeOK'
  BY DEF WaitForChild, TypeOK, command, world, samples, results
<1>8. QED
  BY <1>1, <1>2, <1>3, <1>4, <1>5, <1>6, <1>7, AccountType DEF Loop

\* A counter is still a counter when it has counted one more.
LEMMA TrafficType == TypeOK /\ Traffic => TypeOK'
<1> SUFFICES ASSUME TypeOK, Traffic PROVE TypeOK'
  OBVIOUS
<1>1. PICK a \in Active : counter' = [counter EXCEPT ![a[1]][a[2]] = @ + 1]
  BY DEF Traffic
<1>2. a[1] \in Sockets /\ a[2] \in Kinds
  BY BwprofAssumption
<1>3. counter \in [Sockets -> [Kinds -> Nat]]
  BY DEF TypeOK, Counts, SocketMemoryData
<1>4. [counter[a[1]] EXCEPT ![a[2]] = @ + 1] \in [Kinds -> Nat]
  BY <1>2, <1>3
<1>5. counter' \in Counts
  BY <1>1, <1>2, <1>3, <1>4 DEF Counts, SocketMemoryData
<1>6. QED
  BY <1>5 DEF Traffic, TypeOK, command, process, samples, results

LEMMA NextType == TypeOK /\ [Next]_vars => TypeOK'
<1>1. TypeOK /\ StartupFails => TypeOK'
  BY GotoType DEF StartupFails, Goto, Ends
<1>2. TypeOK /\ Interrupt => TypeOK'
  BY GotoType DEF Interrupt, Goto, Ends
<1>3. TypeOK /\ Tick => TypeOK'
  BY DEF Tick, TypeOK, command, process, samples, results
<1>4. TypeOK /\ ChildExits => TypeOK'
  BY DEF ChildExits, TypeOK, command, world, samples, results
<1>5. TypeOK /\ UNCHANGED vars => TypeOK'
  BY DEF vars, TypeOK, command, session, world, process, samples, results
<1>6. QED
  BY <1>1, <1>2, <1>3, <1>4, <1>5, ParseType, StartType, LoopType, TrafficType DEF Next

\* Type correctness: every variable of a run of bwprof keeps its type.
THEOREM TypeCorrect == Spec => []TypeOK
  BY InitType, NextType, PTL DEF Spec

-----------------------------------------------------------------------------
(* The inductive invariant: what each place in the session has established. *)
BeforeLoop == {"parse", "time", "states"} \cup Startup

\* A sleep ends an interval after the last sample or later, and the next sample is
\* not taken before the sleep has ended.
TimeInv ==
    /\ pc \in BeforeLoop => rows = << >>
    /\ pc = "states" => prev_time <= getTickCount
    /\ pc = "sleep" => wakeAt + Ahead >= prev_time + config.interval
    /\ pc \in {"poll", "sample"} => getTickCount >= prev_time + config.interval
    /\ pc \in {"read", "account"} => /\ current_time >= prev_time + config.interval
                                     /\ current_time <= getTickCount
    /\ RowsCoverInterval

EventInv == /\ pc \in BeforeLoop => accumulated = NoCounts
            /\ AccumulatesAllEvents

-----------------------------------------------------------------------------
(* ChildAccounted. *)
LEMMA NextChild == TypeOK /\ ChildAccounted /\ [Next]_vars => ChildAccounted'
<1> SUFFICES ASSUME TypeOK, ChildAccounted, [Next]_vars PROVE ChildAccounted'
  OBVIOUS
<1> USE DEF ChildAccounted, Goto
<1>1. CASE Parse
  BY <1>1 DEF Parse, Parsing, Dashes, Option, Argument, ArgpError, Dispatch, session, process
<1>2. CASE Start
  BY <1>2 DEF Start, PrepareDataDirectory, Initialize, OpenCSVFile, ExecuteCommand,
              CollectAndSave, session, process
<1>3. CASE StartupFails \/ Interrupt
  BY <1>3 DEF StartupFails, Interrupt, session, process
<1>4. CASE PollChild
  BY <1>4 DEF PollChild, ChildEnded
<1>5. CASE WaitForChild
  BY <1>5 DEF WaitForChild, TypeOK
<1>6. CASE \/ ReadFirstTime \/ ReadFirstStates \/ Wake \/ ReadTime \/ ReadStates \/ Account
  BY <1>6 DEF ReadFirstTime, ReadFirstStates, Wake, ReadTime, ReadStates, Account, AccountAs,
              Sleep, session, process
<1>7. CASE Tick \/ Traffic
  BY <1>7 DEF Tick, Traffic, process
<1>8. CASE ChildExits
  BY <1>8 DEF ChildExits
<1>9. CASE UNCHANGED vars
  BY <1>9 DEF vars, session, process
<1>10. QED
  BY <1>1, <1>2, <1>3, <1>4, <1>5, <1>6, <1>7, <1>8, <1>9 DEF Next, Loop

\* running_ is true exactly while there is a child to wait for, and a session that
\* ends normally leaves no zombie, with or without a command, wherever the command
\* ends.
THEOREM ChildIsAccounted == Spec => []ChildAccounted
<1>1. Init => ChildAccounted
  BY DEF Init, ChildAccounted
<1>2. QED
  BY <1>1, TypeCorrect, NextChild, PTL DEF Spec

-----------------------------------------------------------------------------
(* RowsCoverInterval. *)
\* A step that appends no row and leaves the interval alone.
LEMMA SameRows ==
    ASSUME RowsCoverInterval, rows' = rows, config'.interval = config.interval
    PROVE  RowsCoverInterval'
  BY DEF RowsCoverInterval

LEMMA ParseTime == TypeOK /\ TimeInv /\ Parse => TimeInv'
<1> SUFFICES ASSUME TypeOK, TimeInv, Parse PROVE TimeInv'
  OBVIOUS
<1>1. pc = "parse" /\ rows = << >>
  BY DEF Parse, Parsing, Dashes, Option, Argument, ArgpError, Dispatch, TimeInv, BeforeLoop
<1>2. rows' = << >>
  BY <1>1 DEF Parse, Dashes, Option, Argument, ArgpError, Dispatch, session, results
<1>3. RowsCoverInterval'
  BY <1>2 DEF RowsCoverInterval
<1>4. pc' \in {"parse", "prepare", "pcm", "reader", "usage"}
  BY <1>1 DEF Parse, Dashes, Option, Argument, ArgpError, Dispatch, Goto
<1>5. QED
  BY <1>2, <1>3, <1>4 DEF TimeInv, Startup

LEMMA AccountTime == TypeOK /\ TimeInv /\ Account => TimeInv'
<1> SUFFICES ASSUME TypeOK, TimeInv, Account PROVE TimeInv'
  OBVIOUS
<1> USE DEF Account, AccountAs
<1> DEFINE Row == [elapsed : Int, events : [Sockets -> [Kinds -> Int]]]
           row == [elapsed |-> current_time - prev_time, events |-> [s \in Sockets |-> Events(s)]]
<1>1. row.elapsed >= config.interval
  BY DEF TimeInv, TypeOK, Config
<1>2. rows' = Append(rows, row) /\ rows \in Seq(Row) /\ row \in Row
  BY EventsType DEF TypeOK
<1>3. UNCHANGED config
  BY DEF command
<1>4. RowsCoverInterval'
  <2> HIDE DEF row, Row
  <2>1. Len(rows) \in Nat /\ Len(rows') = Len(rows) + 1
    BY <1>2
  <2>2. ASSUME NEW i \in 1 .. Len(rows') PROVE rows'[i].elapsed >= config.interval
    <3>1. CASE i \in 1 .. Len(rows)
      <4>1. rows'[i] = rows[i]
        BY <1>2, <3>1
      <4>2. QED
        BY <3>1, <4>1 DEF TimeInv, RowsCoverInterval
    <3>2. CASE i = Len(rows) + 1
      BY <1>1, <1>2, <3>2
    <3>3. QED
      BY <2>1, <3>1, <3>2
  <2>3. QED
    BY <1>3, <2>2 DEF RowsCoverInterval
<1>5. pc' = "sleep" /\ wakeAt' + Ahead >= prev_time' + config.interval
  <2>1. /\ pc' = "sleep" /\ wakeAt' = clock + config.interval
        /\ prev_time' = current_time /\ current_time <= clock + Ahead
    BY DEF Sleep, Goto, TimeInv, getTickCount
  <2>2. clock \in Nat /\ current_time \in Nat /\ config.interval \in Nat /\ Ahead \in Nat
    BY BwprofAssumption DEF TypeOK, Config
  <2> HIDE DEF Account, AccountAs
  <2>3. QED
    BY <2>1, <2>2
<1>6. QED
  BY <1>3, <1>4, <1>5 DEF TimeInv, BeforeLoop, Startup

LEMMA NextTime == TypeOK /\ TimeInv /\ [Next]_vars => TimeInv'
<1> SUFFICES ASSUME TypeOK, TimeInv, [Next]_vars PROVE TimeInv'
  OBVIOUS
<1> USE BwprofAssumption DEF Goto, BeforeLoop, Startup, getTickCount
<1>1. CASE Start
  BY <1>1, SameRows DEF Start, PrepareDataDirectory, Initialize, OpenCSVFile, ExecuteCommand,
         CollectAndSave, TimeInv, session, command, results
<1>2. CASE StartupFails \/ Interrupt
  BY <1>2, SameRows DEF StartupFails, Interrupt, TimeInv, session, command, results
<1>3. CASE ReadFirstTime
  BY <1>3, SameRows DEF ReadFirstTime, TimeInv, TypeOK, command, world, results
<1>4. CASE ReadFirstStates
  BY <1>4, SameRows DEF ReadFirstStates, Sleep, TimeInv, TypeOK, Config, command, results
<1>5. CASE Wake
  BY <1>5, SameRows DEF Wake, TimeInv, TypeOK, Config, command, session, world, samples, results
<1>6. CASE PollChild
  BY <1>6, SameRows DEF PollChild, TimeInv, command, world, samples, results
<1>7. CASE ReadTime
  BY <1>7, SameRows DEF ReadTime, TimeInv, TypeOK, command, world, results
<1>8. CASE ReadStates
  BY <1>8, SameRows DEF ReadStates, TimeInv, command, world, results
<1>9. CASE WaitForChild
  BY <1>9, SameRows DEF WaitForChild, TimeInv, command, results
<1>10. CASE Tick
  BY <1>10, SameRows DEF Tick, TimeInv, TypeOK, Config, command, samples, results
<1>11. CASE Traffic
  BY <1>11, SameRows DEF Traffic, TimeInv, command, samples, results
<1>12. CASE ChildExits
  BY <1>12, SameRows DEF ChildExits, TimeInv, command, world, samples, results
<1>13. CASE UNCHANGED vars
  BY <1>13, SameRows DEF vars, TimeInv, command, session, world, samples, results
<1>14. QED
  BY <1>1, <1>2, <1>3, <1>4, <1>5, <1>6, <1>7, <1>8, <1>9, <1>10, <1>11, <1>12, <1>13,
     ParseTime, AccountTime DEF Next, Loop

LEMMA TimeIsKept == Spec => []TimeInv
<1>1. Init => TimeInv
  BY DEF Init, TimeInv, RowsCoverInterval
<1>2. QED
  BY <1>1, TypeCorrect, NextTime, PTL DEF Spec

\* No row covers less than the interval that was asked for, however long a sleep
\* lasts and however the clock moves between the readings.
THEOREM RowsCoverTheInterval == Spec => []RowsCoverInterval
<1>1. TimeInv => RowsCoverInterval
  BY DEF TimeInv
<1>2. QED
  BY <1>1, TimeIsKept, PTL

-----------------------------------------------------------------------------
(* AccumulatesAllEvents. *)
\* A step that reads and adds up nothing, and does not enter the loop.
LEMMA SameEvents ==
    ASSUME EventInv, UNCHANGED <<config, accumulated, prev_states, base>>,
           pc' \in BeforeLoop => pc \in BeforeLoop,
           pc' \in InLoop => pc \in InLoop
    PROVE  EventInv'
  BY DEF EventInv, AccumulatesAllEvents, Monitored, NoCounts, NoEvents

LEMMA ParseEvents == TypeOK /\ EventInv /\ Parse => EventInv'
<1> SUFFICES ASSUME TypeOK, EventInv, Parse PROVE EventInv'
  OBVIOUS
<1>1. pc = "parse" /\ pc' \in {"parse", "prepare", "pcm", "reader", "usage"}
  BY DEF Parse, Parsing, Dashes, Option, Argument, ArgpError, Dispatch, Goto
<1>2. accumulated' = accumulated
  BY DEF Parse, Dashes, Option, Argument, ArgpError, Dispatch, session, results
<1>3. pc' \notin InLoop
  BY <1>1 DEF InLoop
<1>4. QED
  BY <1>1, <1>2, <1>3 DEF EventInv, AccumulatesAllEvents, BeforeLoop, NoCounts, NoEvents

\* The loop begins with nothing accumulated, and the counters it read are the base.
LEMMA FirstEvents == TypeOK /\ EventInv /\ ReadFirstStates => EventInv'
<1> SUFFICES ASSUME TypeOK, EventInv, ReadFirstStates PROVE EventInv'
  OBVIOUS
<1> USE DEF ReadFirstStates
<1>1. accumulated' = NoCounts /\ prev_states' = counter /\ base' = counter /\ pc' = "sleep"
  BY DEF EventInv, BeforeLoop, results, Sleep, Goto
<1>2. ASSUME NEW s \in Sockets, NEW k \in Kinds
      PROVE  accumulated'[s][k] = 0 /\ prev_states'[s][k] - base'[s][k] = 0
  BY <1>1 DEF NoCounts, NoEvents, TypeOK, Counts, SocketMemoryData
<1>3. AccumulatesAllEvents'
  BY <1>2 DEF AccumulatesAllEvents
<1>4. QED
  BY <1>1, <1>3 DEF EventInv, BeforeLoop, Startup

\* A turn of the loop adds what lies between the last two readings, and the second
\* of them is the first one of the next turn.
LEMMA AccountEvents == TypeOK /\ EventInv /\ Account => EventInv'
<1> SUFFICES ASSUME TypeOK, EventInv, Account PROVE EventInv'
  OBVIOUS
<1> USE DEF Account, AccountAs
<1>1. /\ accumulated' = Totals /\ prev_states' = curr_states
      /\ UNCHANGED <<config, base>> /\ pc = "account" /\ pc' = "sleep"
  BY DEF command, Sleep, Goto
<1>2. ASSUME NEW s \in Sockets, NEW k \in Kinds
      PROVE  accumulated'[s][k] = IF Monitored(s) THEN prev_states'[s][k] - base'[s][k] ELSE 0
  <2>1. accumulated'[s][k] = accumulated[s][k] + Events(s)[k]
    BY <1>1 DEF Totals, Plus
  <2>2. Events(s)[k] = IF Monitored(s) THEN curr_states[s][k] - prev_states[s][k] ELSE 0
    BY DEF Events, NoEvents
  <2>3. accumulated[s][k] = IF Monitored(s) THEN prev_states[s][k] - base[s][k] ELSE 0
    BY <1>1 DEF EventInv, AccumulatesAllEvents, InLoop
  <2>4. prev_states[s][k] \in Nat /\ curr_states[s][k] \in Nat /\ base[s][k] \in Nat
    BY DEF TypeOK, Counts, SocketMemoryData
  <2>5. QED
    BY <1>1, <2>1, <2>2, <2>3, <2>4
<1>3. AccumulatesAllEvents'
  BY <1>1, <1>2 DEF AccumulatesAllEvents, Monitored
<1>4. QED
  BY <1>1, <1>3 DEF EventInv, BeforeLoop, Startup

LEMMA NextEvents == TypeOK /\ EventInv /\ [Next]_vars => EventInv'
<1> SUFFICES ASSUME TypeOK, EventInv, [Next]_vars PROVE EventInv'
  OBVIOUS
<1> USE DEF Goto, BeforeLoop, InLoop, Startup, Ends
<1>1. CASE Start
  BY <1>1, SameEvents DEF Start, PrepareDataDirectory, Initialize, OpenCSVFile,
         ExecuteCommand, CollectAndSave, session, command, samples, results
<1>2. CASE StartupFails \/ Interrupt
  BY <1>2, SameEvents DEF StartupFails, Interrupt, session, command, samples, results
<1>3. CASE ReadFirstTime
  BY <1>3, SameEvents DEF ReadFirstTime, command, results
<1>4. CASE Wake
  BY <1>4, SameEvents DEF Wake, command, session, samples, results
<1>5. CASE PollChild
  BY <1>5, SameEvents DEF PollChild, command, samples, results
<1>6. CASE ReadTime \/ ReadStates
  BY <1>6, SameEvents DEF ReadTime, ReadStates, command, results
<1>7. CASE WaitForChild
  BY <1>7, SameEvents DEF WaitForChild, command, samples, results
<1>8. CASE Tick \/ Traffic \/ ChildExits
  BY <1>8, SameEvents DEF Tick, Traffic, ChildExits, command, samples, results
<1>9. CASE UNCHANGED vars
  BY <1>9, SameEvents DEF vars, command, session, samples, results
<1>10. QED
  BY <1>1, <1>2, <1>3, <1>4, <1>5, <1>6, <1>7, <1>8, <1>9,
     ParseEvents, FirstEvents, AccountEvents DEF Next, Loop

\* The accumulated events are those between the first and the last reading of the
\* counters: none is lost or counted twice between two turns of the loop, for any
\* number of turns and any traffic.
THEOREM EventsAreAccumulated == Spec => []AccumulatesAllEvents
<1>1. Init => EventInv
  BY DEF Init, EventInv, AccumulatesAllEvents, InLoop, NoCounts, NoEvents
<1>2. EventInv => AccumulatesAllEvents
  BY DEF EventInv
<1>3. QED
  BY <1>1, <1>2, TypeCorrect, NextEvents, PTL DEF Spec

-----------------------------------------------------------------------------
(* CommandKeepsItsWords: what parse_option() has done with the words before the *)
(* next one.                                                                    *)
Taken    == Len(line) - Len(parser.argv)
Among(n) == {j \in Arguments : j <= n}

WordsInv ==
    /\ Taken \in Nat
    /\ \A i \in 1 .. Len(parser.argv) : parser.argv[i] = line[Taken + i]
    /\ parser.dashed <=> \E m \in 1 .. Taken : line[m].key = "--"
    /\ parser.arg_num = Cardinality(Among(Taken))
    /\ Len(config.command_args) = IF parser.arg_num = 0 THEN 0 ELSE parser.arg_num - 1
    /\ \A i \in Among(Taken) :
          Cardinality(Before(i)) > 0 => config.command_args[Cardinality(Before(i))] = line[i].text

\* A command is started only when the whole line has been read.
StartedInv ==
    /\ pc = "parse" => child = "none"
    /\ pc \in Startup => parser.argv = << >>
    /\ child # "none" => parser.argv = << >> /\ config.command_args # << >>

\* The next word of the line is an argument exactly if argp takes it for one, and the
\* arguments before it are those that have been read.
LEMMA NextWord ==
    ASSUME TypeOK, WordsInv, Parsing
    PROVE  /\ Taken + 1 \in 1 .. Len(line) /\ Current = line[Taken + 1]
           /\ IsArg <=> Taken + 1 \in Arguments
           /\ Before(Taken + 1) = Among(Taken)
           /\ Among(Taken + 1) = IF IsArg THEN Among(Taken) \cup {Taken + 1} ELSE Among(Taken)
           /\ Taken + 1 \notin Among(Taken)
           /\ IsFiniteSet(Among(Taken))
<1>1. /\ line \in Seq(Word) /\ parser.argv \in Seq(Word) /\ parser.argv # << >>
      /\ Len(line) \in Nat /\ Len(parser.argv) \in Nat \ {0}
  BY BwprofAssumption, EmptySeq DEF TypeOK, Parsing
<1> DEFINE n == Taken
<1>2. n \in Nat /\ n + 1 \in 1 .. Len(line)
  BY <1>1 DEF WordsInv, Taken
<1>3. Current = line[n + 1]
  BY <1>1 DEF WordsInv, Current
<1>4. parser.dashed <=> \E m \in 1 .. n : line[m].key = "--"
  BY DEF WordsInv
<1> HIDE DEF n
<1>5. IsArg <=> n + 1 \in Arguments
  <2>1. 1 .. (n + 1) - 1 = 1 .. n
    BY <1>2
  <2>2. QED
    BY <1>2, <1>3, <1>4, <2>1 DEF IsArg, Arguments
<1>6. Arguments \subseteq 1 .. Len(line)
  BY DEF Arguments
<1> DEFINE next == n + 1
<1>7. \A j \in Arguments : (j < next <=> j <= n) /\ (j <= next <=> j <= n \/ j = next)
  <2>1. Arguments \subseteq Int
    BY <1>1, <1>6
  <2>2. \A j \in Int : (j < next <=> j <= n) /\ (j <= next <=> j <= n \/ j = next)
    BY <1>2
  <2>3. QED
    BY <2>1, <2>2
<1> HIDE DEF next
<1>8. /\ Before(next) = Among(n)
      /\ Among(next) = IF IsArg THEN Among(n) \cup {next} ELSE Among(n)
  BY <1>5, <1>7 DEF Before, Among, next
<1>9. n + 1 \notin Among(n)
  BY <1>2 DEF Among
<1>10. IsFiniteSet(Among(n))
  <2>1. IsFiniteSet(1 .. Len(line))
    BY <1>1, FS_Interval
  <2>2. QED
    BY <1>6, <2>1, FS_Subset DEF Among
<1>11. QED
  BY <1>2, <1>3, <1>5, <1>8, <1>9, <1>10 DEF n, next

\* One word is taken, and becomes a word of the command if it is an argument and not
\* the first one.
LEMMA TakeWord ==
    ASSUME TypeOK, WordsInv, Parsing, line' = line, parser'.argv = Tail(parser.argv),
           parser'.dashed = (parser.dashed \/ (~IsArg /\ Current.key = "--")),
           parser'.arg_num = IF IsArg THEN parser.arg_num + 1 ELSE parser.arg_num,
           config'.command_args = IF IsArg /\ parser.arg_num > 0
                                  THEN Append(config.command_args, Current.text)
                                  ELSE config.command_args
    PROVE  WordsInv'
<1> DEFINE n == Taken
           args == config.command_args
<1>1. /\ line \in Seq(Word) /\ parser.argv \in Seq(Word) /\ parser.argv # << >>
      /\ Len(line) \in Nat /\ Len(parser.argv) \in Nat \ {0}
      /\ parser.arg_num \in Nat /\ args \in Seq(STRING)
  BY BwprofAssumption, EmptySeq DEF TypeOK, Parsing, Config
<1>2. /\ n \in Nat /\ n + 1 \in 1 .. Len(line) /\ Current = line[n + 1]
      /\ IsArg <=> n + 1 \in Arguments
      /\ Before(n + 1) = Among(n)
      /\ Among(n + 1) = IF IsArg THEN Among(n) \cup {n + 1} ELSE Among(n)
      /\ n + 1 \notin Among(n) /\ IsFiniteSet(Among(n))
  BY NextWord DEF WordsInv
<1>3. /\ parser.dashed <=> \E m \in 1 .. n : line[m].key = "--"
      /\ parser.arg_num = Cardinality(Among(n))
      /\ Len(args) = IF parser.arg_num = 0 THEN 0 ELSE parser.arg_num - 1
      /\ \A i \in Among(n) :
            Cardinality(Before(i)) > 0 => args[Cardinality(Before(i))] = line[i].text
      /\ \A i \in 1 .. Len(parser.argv) : parser.argv[i] = line[n + i]
  BY DEF WordsInv
<1>4. /\ Len(Tail(parser.argv)) = Len(parser.argv) - 1
      /\ \A i \in 1 .. Len(parser.argv) - 1 : Tail(parser.argv)[i] = parser.argv[i + 1]
  BY <1>1
<1>5. Taken' = n + 1
  <2>1. Len(parser'.argv) = Len(parser.argv) - 1
    BY <1>4
  <2>2. Taken' = Len(line) - (Len(parser.argv) - 1)
    BY <2>1 DEF Taken
  <2>3. n = Len(line) - Len(parser.argv)
    BY DEF Taken
  <2> HIDE DEF n
  <2>4. \A a, b \in Int : a - (b - 1) = a - b + 1
    OBVIOUS
  <2>5. Len(line) \in Int /\ Len(parser.argv) \in Int
    BY <1>1
  <2>6. QED
    BY <2>2, <2>3, <2>4, <2>5
<1>6. /\ Arguments' = Arguments
      /\ \A i : Before(i)' = Before(i) /\ Among(i)' = Among(i)
  BY DEF Arguments, Before, Among
<1>7. Among(Taken)' = Among(n + 1)
  BY <1>5, <1>6 DEF Among
<1> HIDE DEF n, args
<1>8. \A i \in 1 .. Len(parser'.argv) : parser'.argv[i] = line'[Taken' + i]
  <2>1. ASSUME NEW i \in 1 .. Len(parser.argv) - 1
        PROVE  Tail(parser.argv)[i] = line[n + 1 + i]
    <3>1. i + 1 \in 1 .. Len(parser.argv) /\ n + (i + 1) = n + 1 + i
      <4>1. Len(parser.argv) \in Nat \ {0} /\ n \in Nat
        BY <1>1, <1>2
      <4>2. QED
        BY <4>1
    <3>2. QED
      BY <1>3, <1>4, <3>1
  <2>2. QED
    BY <1>4, <1>5, <2>1
<1>9. parser'.dashed <=> \E m \in 1 .. Taken' : line'[m].key = "--"
  <2>1. \A m : m \in 1 .. n + 1 <=> m \in 1 .. n \/ m = n + 1
    BY <1>2
  <2>2. Current.key = "--" => parser'.dashed
    BY DEF IsArg
  <2>3. parser'.dashed => parser.dashed \/ Current.key = "--"
    OBVIOUS
  <2>4. parser.dashed => parser'.dashed
    OBVIOUS
  <2>5. QED
    BY <1>2, <1>3, <1>5, <2>1, <2>2, <2>3, <2>4
<1>10. parser'.arg_num = Cardinality(Among(n + 1))
  <2>1. /\ Cardinality(Among(n) \cup {n + 1}) = Cardinality(Among(n)) + 1
        /\ Cardinality(Among(n)) \in Nat
    BY <1>2, FS_AddElement, FS_CardinalityType
  <2>2. CASE IsArg
    BY <1>2, <1>3, <2>1, <2>2
  <2>3. CASE ~IsArg
    BY <1>2, <1>3, <2>3
  <2>4. QED
    BY <2>2, <2>3
<1>11. Len(config'.command_args) = IF parser'.arg_num = 0 THEN 0 ELSE parser'.arg_num - 1
  BY <1>1, <1>3 DEF args
<1>12. ASSUME NEW i \in Among(n + 1), Cardinality(Before(i)) > 0
       PROVE  config'.command_args[Cardinality(Before(i))] = line[i].text
  <2>1. CASE i \in Among(n)
    <3>1. args[Cardinality(Before(i))] = line[i].text
      BY <1>3, <1>12, <2>1
    <3>2. Cardinality(Before(i)) \in 1 .. Len(args)
      <4>1. Before(i) \subseteq Among(n) \ {i} /\ IsFiniteSet(Among(n) \ {i})
        <5>1. i \in Int /\ i <= n /\ n \in Int /\ Arguments \subseteq Int
          BY <1>1, <1>2, <2>1 DEF Among, Arguments
        <5>2. Before(i) \subseteq Among(n) \ {i}
          <6>1. ASSUME NEW j \in Arguments, j < i PROVE j <= n /\ j # i
            BY <5>1, <6>1
          <6>2. QED
            BY <6>1 DEF Among, Before
        <5>3. QED
          BY <1>2, <5>2, FS_RemoveElement
      <4>2. Cardinality(Before(i)) <= Cardinality(Among(n) \ {i}) /\ Cardinality(Before(i)) \in Nat
        BY <4>1, FS_Subset, FS_CardinalityType
      <4>3. Cardinality(Among(n) \ {i}) = Cardinality(Among(n)) - 1
        BY <1>2, <2>1, FS_RemoveElement
      <4>4. QED
        BY <1>1, <1>3, <1>12, <4>2, <4>3
    <3>3. \A k \in 1 .. Len(args) : config'.command_args[k] = args[k]
      BY <1>1 DEF args
    <3>4. QED
      BY <3>1, <3>2, <3>3
  <2>2. CASE IsArg /\ i = n + 1
    <3>1. Cardinality(Before(i)) = parser.arg_num /\ parser.arg_num > 0
      BY <1>2, <1>3, <1>12, <2>2
    <3>2. config'.command_args = Append(args, Current.text) /\ Len(args) + 1 = parser.arg_num
      BY <1>1, <1>3, <2>2, <3>1 DEF args
    <3>3. Append(args, Current.text)[Len(args) + 1] = Current.text
      <4>1. args \in Seq(STRING)
        BY <1>1
      <4>2. QED
        BY <4>1
    <3>4. QED
      BY <1>2, <2>2, <3>1, <3>2, <3>3
  <2>3. QED
    BY <1>2, <2>1, <2>2
<1>13. Taken' \in Nat
  BY <1>2, <1>5
<1>14. parser'.arg_num = Cardinality(Among(Taken)')
  BY <1>7, <1>10
<1>15. \A i \in Among(Taken)' : Cardinality(Before(i)') > 0 =>
           config'.command_args[Cardinality(Before(i)')] = line'[i].text
  BY <1>6, <1>7, <1>12
<1>16. QED
  BY <1>8, <1>9, <1>11, <1>13, <1>14, <1>15 DEF WordsInv

\* A step that takes no word.
LEMMA SameWords ==
    ASSUME WordsInv, line' = line, parser' = parser, config' = config
    PROVE  WordsInv'
  BY DEF WordsInv, Taken, Among, Before, Arguments

LEMMA NextWords == TypeOK /\ WordsInv /\ [Next]_vars => WordsInv'
<1> SUFFICES ASSUME TypeOK, WordsInv, [Next]_vars PROVE WordsInv'
  OBVIOUS
<1>1. CASE Dashes
  BY <1>1, TakeWord DEF Dashes, Consume, TypeOK
<1>2. CASE Option
  <2>1. Current.key # "--"
    BY <1>2 DEF Option, TakesInterval, TakesSocket
  <2>2. config'.command_args = config.command_args
    BY <1>2 DEF Option, TypeOK, Config
  <2>3. parser'.argv = Tail(parser.argv) /\ parser'.dashed = parser.dashed
        /\ parser'.arg_num = parser.arg_num /\ parser.dashed \in BOOLEAN
    BY <1>2 DEF Option, Consume, TypeOK
  <2>4. Parsing /\ ~IsArg /\ line' = line
    BY <1>2 DEF Option
  <2>5. parser'.dashed = (parser.dashed \/ (~IsArg /\ Current.key = "--"))
    BY <2>1, <2>3
  <2>6. QED
    BY <2>2, <2>3, <2>4, <2>5, TakeWord
<1>3. CASE Argument
  <2>1. /\ parser'.argv = Tail(parser.argv) /\ parser'.dashed = parser.dashed
        /\ parser'.arg_num = parser.arg_num + 1
    BY <1>3 DEF Argument, Consume, TypeOK
  <2>2. config'.command_args = IF parser.arg_num > 0
                               THEN Append(config.command_args, Current.text)
                               ELSE config.command_args
    <3>1. config \in Config /\ parser.arg_num \in Nat
      BY DEF TypeOK
    <3>2. \/ /\ parser.arg_num = 0
             /\ config' = [config EXCEPT !.command = Current.text]
          \/ /\ parser.arg_num > 0
             /\ config' = [config EXCEPT !.command_args = Append(@, Current.text)]
      BY <1>3 DEF Argument
    <3>3. CASE parser.arg_num = 0
      BY <3>1, <3>2, <3>3 DEF Config
    <3>4. CASE parser.arg_num > 0
      <4>1. config' = [config EXCEPT !.command_args = Append(config.command_args, Current.text)]
        BY <3>2, <3>4
      <4>2. \A new : [config EXCEPT !.command_args = new].command_args = new
        BY <3>1 DEF Config
      <4>3. QED
        BY <3>4, <4>1, <4>2
    <3>5. QED
      BY <3>1, <3>3, <3>4
  <2>3. Parsing /\ IsArg /\ line' = line
    BY <1>3 DEF Argument
  <2>4. parser'.dashed = (parser.dashed \/ (~IsArg /\ Current.key = "--"))
    BY <2>1, <2>3 DEF TypeOK
  <2>5. QED
    BY <2>1, <2>2, <2>3, <2>4, TakeWord
<1>4. CASE ArgpError \/ Dispatch \/ Start \/ StartupFails \/ Interrupt
  BY <1>4, SameWords DEF ArgpError, Dispatch, Start, PrepareDataDirectory, Initialize,
                         OpenCSVFile, ExecuteCommand, CollectAndSave, StartupFails, Interrupt,
                         command
<1>5. CASE Loop
  BY <1>5, SameWords DEF Loop, ReadFirstTime, ReadFirstStates, Wake, PollChild, ReadTime,
                         ReadStates, Account, AccountAs, WaitForChild, command
<1>6. CASE Tick \/ Traffic \/ ChildExits \/ UNCHANGED vars
  BY <1>6, SameWords DEF Tick, Traffic, ChildExits, vars, command
<1>7. QED
  BY <1>1, <1>2, <1>3, <1>4, <1>5, <1>6 DEF Next, Parse

LEMMA NextStarted == TypeOK /\ StartedInv /\ [Next]_vars => StartedInv'
<1> SUFFICES ASSUME TypeOK, StartedInv, [Next]_vars PROVE StartedInv'
  OBVIOUS
<1> USE DEF StartedInv, Goto, Startup
<1>1. CASE Parse
  <2>1. pc = "parse" /\ child = "none" /\ child' = "none"
    BY <1>1 DEF Parse, Parsing, Dashes, Option, Argument, ArgpError, Dispatch, session, process
  <2>2. pc' \in Startup => parser'.argv = << >>
    BY <1>1, <2>1 DEF Parse, Parsing, Dashes, Option, Argument, ArgpError, Dispatch, command
  <2>3. QED
    BY <2>1, <2>2
<1>2. CASE Start
  BY <1>2 DEF Start, PrepareDataDirectory, Initialize, OpenCSVFile, ExecuteCommand,
              CollectAndSave, session, process, command
<1>3. CASE StartupFails \/ Interrupt
  BY <1>3 DEF StartupFails, Interrupt, session, process, command
<1>4. CASE Loop
  <2>1. pc' \notin Startup \cup {"parse"} /\ parser' = parser /\ config' = config
    BY <1>4 DEF Loop, ReadFirstTime, ReadFirstStates, Wake, PollChild, ReadTime, ReadStates,
                Account, AccountAs, WaitForChild, Sleep, command
  <2>2. child' # "none" => child # "none"
    BY <1>4 DEF Loop, ReadFirstTime, ReadFirstStates, Wake, PollChild, ChildEnded, ReadTime,
                ReadStates, Account, AccountAs, WaitForChild, session, process, TypeOK
  <2>3. QED
    BY <2>1, <2>2
<1>5. CASE Tick \/ Traffic \/ ChildExits \/ UNCHANGED vars
  BY <1>5 DEF Tick, Traffic, ChildExits, vars, session, process, command
<1>6. QED
  BY <1>1, <1>2, <1>3, <1>4, <1>5 DEF Next

LEMMA InitWords == Init => WordsInv /\ StartedInv
<1> SUFFICES ASSUME Init PROVE WordsInv /\ StartedInv
  OBVIOUS
<1>1. /\ line \in Seq(Word) /\ Len(line) \in Nat /\ parser.argv = line
      /\ parser.dashed = FALSE /\ parser.arg_num = 0 /\ config.command_args = << >>
  BY BwprofAssumption DEF Init
<1>2. Taken = 0
  BY <1>1 DEF Taken
<1>3. Among(0) = {}
  BY DEF Among, Arguments
<1>4. WordsInv
  <2>1. \A i \in 1 .. Len(parser.argv) : parser.argv[i] = line[0 + i]
    BY <1>1
  <2>2. ~\E m \in 1 .. 0 : line[m].key = "--"
    OBVIOUS
  <2>3. Among(Taken) = {} /\ Cardinality({}) = 0
    BY <1>2, <1>3, FS_EmptySet
  <2>4. Len(config.command_args) = 0
    BY <1>1
  <2>5. QED
    BY <1>1, <1>2, <2>1, <2>2, <2>3, <2>4 DEF WordsInv
<1>5. StartedInv
  BY DEF Init, StartedInv, Startup
<1>6. QED
  BY <1>4, <1>5

\* The command gets exactly the words of the line that are not bwprof's, in order,
\* however options and words are mixed and wherever the -- stands.
THEOREM CommandGetsItsWords == Spec => []CommandKeepsItsWords
<1>1. TypeOK /\ WordsInv /\ StartedInv => CommandKeepsItsWords
  <2> SUFFICES ASSUME TypeOK, WordsInv, StartedInv, child # "none"
               PROVE  /\ Len(config.command_args) = Cardinality(Arguments) - 1
                      /\ \A i \in Arguments : Cardinality(Before(i)) > 0 =>
                            config.command_args[Cardinality(Before(i))] = line[i].text
    BY DEF CommandKeepsItsWords
  <2>1. line \in Seq(Word) /\ config.command_args \in Seq(STRING)
    BY BwprofAssumption DEF TypeOK, Config
  <2>2. Taken = Len(line)
    BY <2>1 DEF Taken, StartedInv
  <2>3. Among(Taken) = Arguments
    BY <2>1, <2>2 DEF Among, Arguments
  <2>4. Len(config.command_args) # 0
    BY <2>1, EmptySeq DEF StartedInv
  <2>5. QED
    BY <2>3, <2>4 DEF WordsInv
<1>2. QED
  BY <1>1, InitWords, TypeCorrect, NextWords, NextStarted, PTL DEF Spec
=============================================================================
