------------------------- MODULE BwprofReportProofs -------------------------
(***************************************************************************)
(* Proofs about what bwprof report, dump and info make of the files of a   *)
(* session, for any command line, any number of sockets and any number of  *)
(* rows, at whatever moment the session is cut off.                        *)
(***************************************************************************)
EXTENDS BwprofReport, BwprofProofs, WellFoundedInduction

-----------------------------------------------------------------------------
(* The lines of bwprof.csv. *)
LEMMA ShownType ==
    ASSUME TypeOK
    PROVE  /\ Len(Shown) \in Nat
           /\ \A k \in 1 .. Len(Shown) : Shown[k] \in Sockets
<1>1. NumSockets \in Nat
  BY BwprofAssumption
<1>2. CASE config.socket = AllSockets
  BY <1>1, <1>2 DEF Shown, Sockets
<1>3. CASE config.socket # AllSockets
  BY <1>1, <1>3 DEF Shown, Sockets
<1>4. QED
  BY <1>2, <1>3

\* A column behind the first one belongs to a group, and has one of six places in it.
LEMMA ColumnIndex ==
    ASSUME NEW n \in Nat, NEW c \in 2 .. 1 + 6 * n
    PROVE  1 + ((c - 2) \div 6) \in 1 .. n /\ 1 + ((c - 2) % 6) \in 1 .. 6
<1> DEFINE d == c - 2
<1>1. d \in Nat /\ d < 6 * n
  OBVIOUS
<1>2. d % 6 \in 0 .. 5 /\ d \div 6 \in Int /\ d = 6 * (d \div 6) + (d % 6)
  BY <1>1
<1>3. d \div 6 >= 0 /\ d \div 6 < n
  BY <1>1, <1>2
<1>4. QED
  BY <1>2, <1>3

Header ==
    Line("Timestamp", [k \in 1 .. Len(Shown) |-> [c \in 1 .. 6 |-> <<Shown[k], c>>]])

LineOf(first, row) ==
    Line(first, [k \in 1 .. Len(Shown) |-> Throughput(row.events[Shown[k]], row.elapsed)])

\* Column c of the header says of which socket and which of its columns it is, and so
\* it is in the line of a row.
LEMMA LineMatchesHeader ==
    ASSUME TypeOK, NEW first, NEW row
    PROVE  /\ Len(LineOf(first, row)) = Len(Header) /\ Len(Header) \in Nat \ {0}
           /\ 1 \in DOMAIN LineOf(first, row) /\ LineOf(first, row)[1] = first
           /\ \A c \in 2 .. Len(Header) :
                 LineOf(first, row)[c]
                     = Throughput(row.events[Header[c][1]], row.elapsed)[Header[c][2]]
<1> DEFINE n == Len(Shown)
           names  == [k \in 1 .. n |-> [c \in 1 .. 6 |-> <<Shown[k], c>>]]
           values == [k \in 1 .. n |-> Throughput(row.events[Shown[k]], row.elapsed)]
<1>1. n \in Nat
  BY ShownType
<1>2. Len(names) = n /\ Len(values) = n
  BY <1>1
<1>3. Header = Line("Timestamp", names) /\ LineOf(first, row) = Line(first, values)
  BY DEF Header, LineOf
<1>4. ASSUME NEW c \in 2 .. 1 + 6 * n
      PROVE  values[1 + ((c - 2) \div 6)][1 + ((c - 2) % 6)]
                 = Throughput(row.events[names[1 + ((c - 2) \div 6)][1 + ((c - 2) % 6)][1]],
                              row.elapsed)[names[1 + ((c - 2) \div 6)][1 + ((c - 2) % 6)][2]]
  <2>1. PICK k \in 1 .. n : k = 1 + ((c - 2) \div 6)
    BY <1>1, ColumnIndex
  <2>2. PICK d \in 1 .. 6 : d = 1 + ((c - 2) % 6)
    BY <1>1, ColumnIndex
  <2>3. names[k][d] = <<Shown[k], d>> /\ values[k] = Throughput(row.events[Shown[k]], row.elapsed)
    OBVIOUS
  <2>4. QED
    BY <2>1, <2>2, <2>3
<1> HIDE DEF n, names, values
<1>5. /\ Len(Header) = 1 + 6 * n
      /\ \A c \in 2 .. 1 + 6 * n :
            Header[c] = names[1 + ((c - 2) \div 6)][1 + ((c - 2) % 6)]
  BY <1>1, <1>2, <1>3 DEF Line
<1>6. /\ Len(LineOf(first, row)) = 1 + 6 * n
      /\ DOMAIN LineOf(first, row) = 1 .. 1 + 6 * n
      /\ LineOf(first, row)[1] = first
      /\ \A c \in 2 .. 1 + 6 * n :
            LineOf(first, row)[c] = values[1 + ((c - 2) \div 6)][1 + ((c - 2) % 6)]
  BY <1>1, <1>2, <1>3 DEF Line
<1>7. QED
  BY <1>1, <1>4, <1>5, <1>6

-----------------------------------------------------------------------------
(* The inductive invariant about the file and the rows that were printed. *)
IsSequence(s) == \E S : s \in Seq(S)

\* The header is there before the loop begins, and only bwprof record writes it.
FileInv ==
    /\ pc \in {"parse", "prepare", "pcm", "csv"} => csv = << >>
    /\ config.command = "record" /\ pc \in {"fork", "info", "time", "states"} \cup InLoop
           => csv # << >>
    /\ csv # << >> => config.command = "record"
    /\ pc \in {"prepare", "csv", "info"} => config.command = "record"

\* Every line of the file is that of a row, in the order of the header.
LinesInv ==
    /\ IsSequence(csv)
    /\ csv # << >> =>
          /\ Len(csv) = Len(rows) + 1
          /\ csv[1] = Header
          /\ \A i \in 1 .. Len(rows) :
                csv[i + 1][1] \in Nat /\ csv[i + 1] = LineOf(csv[i + 1][1], rows[i])

\* The next line will not be written before an interval has passed since the last one.
LastStamp == csv[Len(csv)][1]

StampInv ==
    Len(csv) > 1 =>
        /\ pc = "sleep" => wakeAt >= LastStamp + config.interval
        /\ pc \in {"poll", "sample", "read", "account"} => clock >= LastStamp + config.interval
        /\ \A i \in 3 .. Len(csv) : csv[i][1] >= csv[i - 1][1] + config.interval

CsvInv == FileInv /\ LinesInv /\ StampInv

LEMMA AppendLast ==
    ASSUME NEW s, IsSequence(s), NEW x
    PROVE  /\ IsSequence(Append(s, x))
           /\ Len(s) \in Nat /\ Len(Append(s, x)) = Len(s) + 1 /\ Append(s, x) # << >>
           /\ Append(s, x)[Len(s) + 1] = x
           /\ \A i \in 1 .. Len(s) : Append(s, x)[i] = s[i]
<1>1. PICK S : s \in Seq(S)
  BY DEF IsSequence
<1>2. s \in Seq(S \cup {x})
  BY <1>1, SeqDef
<1>3. Append(s, x) \in Seq(S \cup {x})
  BY <1>2
<1>4. QED
  BY <1>2, <1>3 DEF IsSequence

\* A step that leaves the file, the rows and the configuration alone.
LEMMA SameFile ==
    ASSUME TypeOK, CsvInv, UNCHANGED <<csv, rows, config>>, FileInv', StampInv'
    PROVE  CsvInv'
<1>1. Shown' = Shown
  BY DEF Shown
<1>2. Header' = Header
  BY <1>1 DEF Header, Line
<1>3. \A i \in 1 .. Len(rows) : LineOf(csv[i + 1][1], rows[i])' = LineOf(csv[i + 1][1], rows[i])
  BY <1>1 DEF LineOf, Line, Throughput, Columns, toBW
<1>4. LinesInv'
  BY <1>2, <1>3 DEF CsvInv, LinesInv, IsSequence
<1>5. QED
  BY <1>4 DEF CsvInv

LEMMA CsvInit == Init => CsvInv
<1> SUFFICES ASSUME Init PROVE CsvInv
  OBVIOUS
<1>1. csv = << >> /\ pc = "parse"
  BY DEF Init
<1>2. csv \in Seq({}) /\ Len(csv) = 0
  BY <1>1
<1>3. QED
  BY <1>1, <1>2 DEF CsvInv, FileInv, LinesInv, StampInv, IsSequence, InLoop

LEMMA ParseCsv == TypeOK /\ CsvInv /\ Parse => CsvInv'
<1> SUFFICES ASSUME TypeOK, CsvInv, Parse PROVE CsvInv'
  OBVIOUS
<1>1. pc = "parse" /\ csv = << >> /\ csv' = << >>
  BY DEF Parse, Parsing, Dashes, Option, Argument, ArgpError, Dispatch, session, results,
         CsvInv, FileInv
<1>2. \/ pc' = "parse"
      \/ pc' \in {"usage", "reader", "prepare", "pcm"}
         /\ (pc' = "prepare" => config'.command = "record")
  BY <1>1 DEF Parse, Dashes, Option, Argument, ArgpError, Dispatch, Goto, command
<1>3. csv' \in Seq({}) /\ Len(csv') = 0
  BY <1>1
<1>4. QED
  BY <1>1, <1>2, <1>3 DEF CsvInv, FileInv, LinesInv, StampInv, IsSequence, InLoop

\* The header is written before any row.
LEMMA HeaderCsv == TypeOK /\ TimeInv /\ CsvInv /\ OpenCSVFile => CsvInv'
<1> SUFFICES ASSUME TypeOK, TimeInv, CsvInv, OpenCSVFile PROVE CsvInv'
  OBVIOUS
<1>1. pc = "csv" /\ pc' = "fork" /\ UNCHANGED <<config, rows>>
  BY DEF OpenCSVFile, Goto, command
<1>2. config.command = "record" /\ rows = << >>
  BY <1>1 DEF CsvInv, FileInv, TimeInv, BeforeLoop, Startup
<1>3. csv' = << Header' >>
  <2>1. csv' = << Header >>
    BY DEF OpenCSVFile, Header
  <2>2. Header' = Header
    BY <1>1 DEF Header, Shown, Line
  <2>3. QED
    BY <2>1, <2>2
<1>4. csv' \in Seq({Header'}) /\ Len(csv') = 1 /\ csv'[1] = Header' /\ csv' # << >>
  BY <1>3
<1>5. QED
  BY <1>1, <1>2, <1>4 DEF CsvInv, FileInv, LinesInv, StampInv, IsSequence, InLoop

LEMMA StartCsv == TypeOK /\ TimeInv /\ CsvInv /\ Start => CsvInv'
<1> SUFFICES ASSUME TypeOK, TimeInv, CsvInv, Start PROVE CsvInv'
  OBVIOUS
<1> USE DEF Goto
<1>1. CASE PrepareDataDirectory \/ Initialize
  <2>1. UNCHANGED <<csv, rows, config>> /\ csv = << >>
    BY <1>1 DEF PrepareDataDirectory, Initialize, session, results, command, CsvInv, FileInv
  <2>2. FileInv'
    BY <1>1, <2>1 DEF PrepareDataDirectory, Initialize, CsvInv, FileInv, InLoop
  <2>3. StampInv'
    BY <2>1 DEF StampInv
  <2>4. QED
    BY <2>1, <2>2, <2>3, SameFile
<1>2. CASE ExecuteCommand \/ CollectAndSave
  <2>1. UNCHANGED <<csv, rows, config>>
    BY <1>2 DEF ExecuteCommand, CollectAndSave, results, command
  <2>2. FileInv'
    BY <1>2, <2>1 DEF ExecuteCommand, CollectAndSave, CsvInv, FileInv, InLoop
  <2>3. StampInv'
    BY <1>2, <2>1 DEF ExecuteCommand, CollectAndSave, CsvInv, StampInv, LastStamp
  <2>4. QED
    BY <2>1, <2>2, <2>3, SameFile
<1>3. QED
  BY <1>1, <1>2, HeaderCsv DEF Start

\* The line of a turn of the loop.
LEMMA CSVLineIsLineOf ==
    ASSUME TypeOK, NEW time, NEW elapsed
    PROVE  CSVLine(time, elapsed)
               = LineOf(time, [elapsed |-> elapsed, events |-> [s \in Sockets |-> Events(s)]])
<1> DEFINE row == [elapsed |-> elapsed, events |-> [s \in Sockets |-> Events(s)]]
<1>1. \A k \in 1 .. Len(Shown) : row.events[Shown[k]] = Events(Shown[k])
  BY ShownType
<1>2. row.elapsed = elapsed
  OBVIOUS
<1> HIDE DEF row
<1>3. [k \in 1 .. Len(Shown) |-> Throughput(Events(Shown[k]), elapsed)]
          = [k \in 1 .. Len(Shown) |-> Throughput(row.events[Shown[k]], row.elapsed)]
  BY <1>1, <1>2
<1>4. QED
  BY <1>3 DEF CSVLine, LineOf, row

LEMMA AccountCsv == TypeOK /\ TimeInv /\ CsvInv /\ Account => CsvInv'
<1> SUFFICES ASSUME TypeOK, TimeInv, CsvInv, Account PROVE CsvInv'
  OBVIOUS
<1> DEFINE elapsed == current_time - prev_time
           Row == [elapsed : Int, events : [Sockets -> [Kinds -> Int]]]
           row == [elapsed |-> elapsed, events |-> [s \in Sockets |-> Events(s)]]
<1>1. /\ pc = "account" /\ pc' = "sleep" /\ wakeAt' = clock + config.interval
      /\ UNCHANGED <<config, clock>>
  BY DEF Account, AccountAs, Sleep, Goto, command, world
<1>2. rows' = Append(rows, row) /\ rows \in Seq(Row) /\ row \in Row
  BY EventsType DEF Account, AccountAs, TypeOK
<1>3. Shown' = Shown
  BY <1>1 DEF Shown
<1>4. Header' = Header
  BY <1>3 DEF Header, Line
<1>5. clock \in Nat /\ config.interval \in Nat
  BY DEF TypeOK, Config
<1>6. CASE config.command # "record"
  <2>1. csv = << >> /\ csv' = << >>
    BY <1>6 DEF Account, AccountAs, CsvInv, FileInv
  <2>2. csv' \in Seq({}) /\ Len(csv') = 0
    BY <2>1
  <2>3. QED
    BY <1>1, <1>6, <2>1, <2>2 DEF CsvInv, FileInv, LinesInv, StampInv, IsSequence
<1>7. CASE config.command = "record"
  <2> DEFINE new == LineOf(clock, row)
  <2>1. csv' = Append(csv, new) /\ csv # << >>
    <3>1. csv' = Append(csv, CSVLine(clock, elapsed))
      BY <1>7 DEF Account, AccountAs
    <3>2. csv # << >>
      BY <1>1, <1>7 DEF CsvInv, FileInv, InLoop
    <3>3. QED
      BY <3>1, <3>2, CSVLineIsLineOf
  <2>2. new[1] = clock
    BY LineMatchesHeader
  <2>3. /\ Len(csv) = Len(rows) + 1 /\ csv[1] = Header
        /\ \A i \in 1 .. Len(rows) :
              csv[i + 1][1] \in Nat /\ csv[i + 1] = LineOf(csv[i + 1][1], rows[i])
    BY <2>1 DEF CsvInv, LinesInv
  <2> HIDE DEF new, row
  <2>4. /\ IsSequence(csv') /\ Len(csv') = Len(csv) + 1 /\ csv' # << >>
        /\ csv'[Len(csv) + 1] = new /\ Len(csv) \in Nat
        /\ \A i \in 1 .. Len(csv) : csv'[i] = csv[i]
    BY <2>1, AppendLast DEF CsvInv, LinesInv
  <2>5. /\ Len(rows) \in Nat /\ Len(rows') = Len(rows) + 1
        /\ rows'[Len(rows) + 1] = row
        /\ \A i \in 1 .. Len(rows) : rows'[i] = rows[i]
    BY <1>2
  <2>6. LinesInv'
    <3>1. ASSUME NEW i \in 1 .. Len(rows')
          PROVE  csv'[i + 1][1] \in Nat /\ csv'[i + 1] = LineOf(csv'[i + 1][1], rows'[i])
      <4>1. CASE i \in 1 .. Len(rows)
        <5>1. i + 1 \in 1 .. Len(csv)
          BY <2>3, <2>5, <4>1
        <5>2. csv'[i + 1] = csv[i + 1] /\ rows'[i] = rows[i]
          BY <2>4, <2>5, <4>1, <5>1
        <5>3. QED
          BY <2>3, <4>1, <5>2
      <4>2. CASE i = Len(rows) + 1
        <5>1. csv'[i + 1] = new /\ rows'[i] = row
          BY <2>3, <2>4, <2>5, <4>2
        <5>2. QED
          BY <2>2, <5>1, <1>5 DEF new
      <4>3. QED
        BY <2>5, <4>1, <4>2
    <3>2. \A i \in 1 .. Len(rows') :
              LineOf(csv[i + 1][1], rows[i])' = LineOf(csv'[i + 1][1], rows'[i])
      BY <1>3 DEF LineOf, Line, Throughput, Columns, toBW
    <3>3. Len(csv') = Len(rows') + 1 /\ csv'[1] = Header'
      BY <1>4, <2>3, <2>4, <2>5
    <3>4. QED
      BY <2>4, <3>1, <3>2, <3>3 DEF LinesInv
  <2>7. LastStamp' = clock /\ Len(csv') = Len(csv) + 1
    BY <2>2, <2>4 DEF LastStamp
  <2>8. \A i \in 3 .. Len(csv') : csv'[i][1] >= csv'[i - 1][1] + config.interval
    <3>1. ASSUME NEW i \in 3 .. Len(csv')
          PROVE  csv'[i][1] >= csv'[i - 1][1] + config.interval
      <4>1. CASE i \in 3 .. Len(csv)
        <5>1. csv'[i] = csv[i] /\ csv'[i - 1] = csv[i - 1]
          BY <2>4, <4>1
        <5>2. QED
          BY <2>4, <4>1, <5>1 DEF CsvInv, StampInv
      <4>2. CASE i = Len(csv) + 1
        <5>1. csv'[i][1] = clock /\ csv'[i - 1] = csv[Len(csv)] /\ Len(csv) > 1
          BY <2>2, <2>4, <4>2
        <5>2. clock >= csv[Len(csv)][1] + config.interval
          BY <1>1, <5>1 DEF CsvInv, StampInv, LastStamp
        <5>3. QED
          BY <5>1, <5>2
      <4>3. QED
        BY <2>4, <4>1, <4>2
    <3>2. QED
      BY <3>1
  <2>9. StampInv'
    BY <1>1, <1>5, <2>7, <2>8 DEF StampInv
  <2>10. FileInv'
    BY <1>1, <1>7, <2>4 DEF FileInv
  <2>11. QED
    BY <2>6, <2>9, <2>10 DEF CsvInv
<1>8. QED
  BY <1>6, <1>7

LEMMA NextCsv == TypeOK /\ TimeInv /\ CsvInv /\ [Next]_vars => CsvInv'
<1> SUFFICES ASSUME TypeOK, TimeInv, CsvInv, [Next]_vars PROVE CsvInv'
  OBVIOUS
<1> USE DEF Goto
\* None of these writes anything; what they do to the place, the clock and the sleep.
<1> DEFINE Quiet == UNCHANGED <<csv, rows, config>>
<1>1. CASE StartupFails \/ Interrupt
  <2>1. Quiet
    BY <1>1 DEF StartupFails, Interrupt, session, results, command
  <2>2. FileInv' /\ StampInv'
    BY <1>1, <2>1 DEF StartupFails, Interrupt, CsvInv, FileInv, StampInv, LastStamp, InLoop
  <2>3. QED
    BY <2>1, <2>2, SameFile
<1>2. CASE ReadFirstTime \/ ReadFirstStates
  <2>1. Quiet /\ rows = << >>
    BY <1>2 DEF ReadFirstTime, ReadFirstStates, results, command, TimeInv, BeforeLoop
  <2>2. Len(csv) <= 1
    <3>1. Len(rows) = 0
      BY <2>1
    <3>2. CASE csv = << >>
      BY <3>2
    <3>3. CASE csv # << >>
      BY <3>1, <3>3 DEF CsvInv, LinesInv
    <3>4. QED
      BY <3>2, <3>3
  <2>3. FileInv'
    BY <1>2, <2>1 DEF ReadFirstTime, ReadFirstStates, Sleep, CsvInv, FileInv, InLoop
  <2>4. StampInv'
    <3>1. Len(csv') <= 1 /\ Len(csv) \in Nat
      BY <2>1, <2>2, AppendLast DEF CsvInv, LinesInv
    <3>2. QED
      BY <2>1, <3>1 DEF StampInv
  <2>5. QED
    BY <2>1, <2>3, <2>4, SameFile
<1>3. CASE Wake
  <2>1. Quiet
    BY <1>3 DEF Wake, session, results, command
  <2>2. FileInv'
    BY <1>3, <2>1 DEF Wake, CsvInv, FileInv, InLoop
  <2>3. StampInv'
    <3>1. UNCHANGED clock /\ clock >= wakeAt /\ pc = "sleep" /\ pc' = "poll"
      BY <1>3 DEF Wake, session, world
    <3>2. ASSUME Len(csv) > 1 PROVE clock >= LastStamp + config.interval /\ LastStamp \in Int
      <4>1. wakeAt >= LastStamp + config.interval
        BY <3>1, <3>2 DEF CsvInv, StampInv
      <4>2. LastStamp \in Nat
        <5>1. csv # << >> /\ Len(csv) \in Nat
          BY <3>2, AppendLast DEF CsvInv, LinesInv
        <5>2. Len(csv) - 1 \in 1 .. Len(rows)
          BY <3>2, <5>1 DEF CsvInv, LinesInv
        <5>3. csv[(Len(csv) - 1) + 1][1] \in Nat
          BY <5>1, <5>2 DEF CsvInv, LinesInv
        <5>4. QED
          BY <5>1, <5>3 DEF LastStamp
      <4>3. QED
        BY <3>1, <4>1, <4>2 DEF TypeOK, Config
    <3>3. QED
      BY <2>1, <3>1, <3>2 DEF CsvInv, StampInv, LastStamp
  <2>4. QED
    BY <2>1, <2>2, <2>3, SameFile
<1>4. CASE PollChild \/ ReadTime \/ ReadStates \/ WaitForChild
  <2>1. Quiet /\ clock' = clock
    BY <1>4 DEF PollChild, ReadTime, ReadStates, WaitForChild, results, command, world
  <2>2. FileInv'
    BY <1>4, <2>1 DEF PollChild, ReadTime, ReadStates, WaitForChild, CsvInv, FileInv, InLoop
  <2>3. /\ pc' \in {"sample", "wait", "read", "account", "done"}
        /\ pc' \in {"sample", "read", "account"} => pc \in {"poll", "sample", "read"}
    BY <1>4 DEF PollChild, ReadTime, ReadStates, WaitForChild
  <2>4. StampInv'
    BY <2>1, <2>3 DEF CsvInv, StampInv, LastStamp
  <2>5. QED
    BY <2>1, <2>2, <2>4, SameFile
<1>5. CASE Tick
  <2>1. Quiet /\ pc' = pc /\ wakeAt' = wakeAt /\ clock' = clock + 1
    BY <1>5 DEF Tick, results, command, samples
  <2>2. FileInv'
    BY <2>1 DEF CsvInv, FileInv
  <2>3. StampInv'
    <3>1. ASSUME Len(csv) > 1 PROVE LastStamp \in Nat
      <4>1. csv # << >> /\ Len(csv) \in Nat
        BY <3>1, AppendLast DEF CsvInv, LinesInv
      <4>2. Len(csv) - 1 \in 1 .. Len(rows)
        BY <3>1, <4>1 DEF CsvInv, LinesInv
      <4>3. csv[(Len(csv) - 1) + 1][1] \in Nat
        BY <4>1, <4>2 DEF CsvInv, LinesInv
      <4>4. QED
        BY <4>1, <4>3 DEF LastStamp
    <3>2. clock \in Nat /\ config.interval \in Nat
      BY DEF TypeOK, Config
    <3>3. ASSUME Len(csv) > 1, pc \in {"poll", "sample", "read", "account"}
          PROVE  clock + 1 >= LastStamp + config.interval
      BY <3>1, <3>2, <3>3 DEF CsvInv, StampInv
    <3>4. QED
      BY <2>1, <3>3 DEF CsvInv, StampInv, LastStamp
  <2>4. QED
    BY <2>1, <2>2, <2>3, SameFile
<1>6. CASE Traffic \/ ChildExits \/ UNCHANGED vars
  <2>1. Quiet /\ UNCHANGED <<pc, clock, wakeAt>>
    BY <1>6 DEF Traffic, ChildExits, vars, session, results, command, samples, world
  <2>2. FileInv' /\ StampInv'
    BY <2>1 DEF CsvInv, FileInv, StampInv, LastStamp
  <2>3. QED
    BY <2>1, <2>2, SameFile
<1>7. QED
  BY <1>1, <1>2, <1>3, <1>4, <1>5, <1>6, ParseCsv, StartCsv, AccountCsv DEF Next, Loop

-----------------------------------------------------------------------------
(* What the readers find. *)

\* The lines behind the header are those of the rows, one each.
LEMMA RecordedLines ==
    ASSUME TypeOK, CsvInv
    PROVE  \/ csv = << >> /\ Recorded = << >> /\ Len(Recorded) = 0
           \/ /\ csv # << >> /\ Len(Recorded) = Len(rows) /\ Len(rows) \in Nat
              /\ \A i \in 1 .. Len(rows) : Recorded[i] = csv[i + 1]
<1>1. CASE csv = << >>
  BY <1>1 DEF Recorded
<1>2. CASE csv # << >>
  <2>1. PICK S : csv \in Seq(S)
    BY DEF CsvInv, LinesInv, IsSequence
  <2>2. Recorded = Tail(csv)
    BY <1>2 DEF Recorded
  <2>3. /\ Len(Tail(csv)) = Len(csv) - 1
        /\ \A i \in 1 .. Len(csv) - 1 : Tail(csv)[i] = csv[i + 1]
    BY <1>2, <2>1
  <2>4. Len(csv) = Len(rows) + 1 /\ Len(rows) \in Nat
    BY <1>2 DEF CsvInv, LinesInv, TypeOK
  <2>5. QED
    BY <1>2, <2>2, <2>3, <2>4
<1>3. QED
  BY <1>1, <1>2

\* Every value of bwprof.csv is of the socket and the column its header names, for
\* any number of sockets and any -s.
THEOREM ColumnsAreAsNamed == Spec => []ColumnsMatchHeader
<1>1. ASSUME TypeOK, CsvInv PROVE ColumnsMatchHeader
  <2> SUFFICES ASSUME NEW i \in 1 .. Len(Recorded)
               PROVE  /\ Len(Recorded[i]) = Len(csv[1])
                      /\ \A c \in 2 .. Len(csv[1]) : Recorded[i][c] =
                            Throughput(rows[i].events[csv[1][c][1]],
                                       rows[i].elapsed)[csv[1][c][2]]
    BY DEF ColumnsMatchHeader
  <2>1. i \in 1 .. Len(rows) /\ csv # << >> /\ Recorded[i] = csv[i + 1]
    BY <1>1, RecordedLines
  <2>2. csv[i + 1] = LineOf(csv[i + 1][1], rows[i]) /\ csv[1] = Header
    BY <1>1, <2>1 DEF CsvInv, LinesInv
  <2>3. PICK first, row : first = csv[i + 1][1] /\ row = rows[i]
    OBVIOUS
  <2>4. /\ Len(LineOf(first, row)) = Len(Header)
        /\ \A c \in 2 .. Len(Header) :
              LineOf(first, row)[c]
                  = Throughput(row.events[Header[c][1]], row.elapsed)[Header[c][2]]
    BY <1>1, LineMatchesHeader
  <2>5. QED
    BY <2>1, <2>2, <2>3, <2>4
<1>2. QED
  BY <1>1, CsvInit, NextCsv, TypeCorrect, TimeIsKept, PTL DEF Spec

\* bwprof dump shows times that begin at 0 and lie an interval apart, although they
\* are not the times the bandwidths are computed with.
THEOREM DumpedTimesAreApart == Spec => []DumpTimesApart
<1>1. ASSUME TypeOK, CsvInv PROVE DumpTimesApart
  <2> DEFINE n == Len(Recorded)
  <2>1. /\ n \in Nat
        /\ \A i \in 1 .. n : Recorded[i] = csv[i + 1] /\ csv # << >> /\ n = Len(rows)
    BY <1>1, RecordedLines
  <2>2. ASSUME NEW i \in 1 .. n
        PROVE  1 \in DOMAIN Recorded[i] /\ Recorded[i][1] \in Nat
    <3>1. i \in 1 .. Len(rows) /\ csv # << >> /\ Recorded[i] = csv[i + 1]
      BY <2>1
    <3>2. csv[i + 1] = LineOf(csv[i + 1][1], rows[i]) /\ csv[i + 1][1] \in Nat
      BY <1>1, <3>1 DEF CsvInv, LinesInv
    <3>3. PICK first, row : first = csv[i + 1][1] /\ row = rows[i]
      OBVIOUS
    <3>4. 1 \in DOMAIN LineOf(first, row)
      BY <1>1, LineMatchesHeader
    <3>5. QED
      BY <3>1, <3>2, <3>3, <3>4
  <2>3. \A i \in 2 .. n : Recorded[i][1] >= Recorded[i - 1][1] + config.interval
    <3> SUFFICES ASSUME NEW i \in 2 .. n
                 PROVE  Recorded[i][1] >= Recorded[i - 1][1] + config.interval
      OBVIOUS
    <3>1. Recorded[i] = csv[i + 1] /\ Recorded[i - 1] = csv[(i - 1) + 1]
      BY <2>1
    <3>2. csv # << >> /\ n = Len(rows)
      BY <2>1
    <3>3. Len(csv) = n + 1
      BY <1>1, <3>2 DEF CsvInv, LinesInv
    <3>4. i + 1 \in 3 .. Len(csv) /\ (i + 1) - 1 = (i - 1) + 1 /\ Len(csv) > 1
      BY <2>1, <3>3
    <3>5. csv[i + 1][1] >= csv[(i + 1) - 1][1] + config.interval
      BY <1>1, <3>4 DEF CsvInv, StampInv
    <3>6. QED
      BY <3>1, <3>4, <3>5
  <2>4. Dump = [i \in 1 .. n |-> [Recorded[i] EXCEPT ![1] = @ - Recorded[1][1]]]
    BY DEF Dump, DumpFrom
  <2> HIDE DEF n
  <2>5. Len(Dump) = n
    BY <2>1, <2>4
  <2>6. \A i \in 1 .. n : Dump[i][1] = Recorded[i][1] - Recorded[1][1]
    BY <2>2, <2>4
  <2>7. config.interval \in Nat
    BY <1>1 DEF TypeOK, Config
  <2>8. ASSUME NEW i \in 1 .. n
        PROVE  IF i = 1 THEN Dump[i][1] = 0
               ELSE Dump[i][1] >= Dump[i - 1][1] + config.interval
    <3>1. Recorded[1][1] \in Nat /\ Recorded[i][1] \in Nat
      BY <2>1, <2>2
    <3>2. CASE i = 1
      BY <2>6, <3>1, <3>2
    <3>3. CASE i # 1
      <4>1. i - 1 \in 1 .. n /\ i \in 2 .. n
        BY <2>1, <3>3
      <4>2. Recorded[i - 1][1] \in Nat
        BY <2>2, <4>1
      <4>3. Recorded[i][1] >= Recorded[i - 1][1] + config.interval
        BY <2>3, <4>1
      <4>4. /\ Dump[i][1] = Recorded[i][1] - Recorded[1][1]
            /\ Dump[i - 1][1] = Recorded[i - 1][1] - Recorded[1][1]
        BY <2>6, <4>1
      <4>5. QED
        BY <2>7, <3>1, <3>3, <4>2, <4>3, <4>4
    <3>4. QED
      BY <3>2, <3>3
  <2>9. QED
    BY <2>5, <2>8 DEF DumpTimesApart
<1>2. QED
  BY <1>1, CsvInit, NextCsv, TypeCorrect, TimeIsKept, PTL DEF Spec

-----------------------------------------------------------------------------
(* Folds over a sequence: what MapThenFoldSet computes, stage by stage. *)
\* The steps of a fold over 1 .. n: first is turned into p[n] by one step for each number.
Step(St, n) == [St \X (1 .. n) -> St]

Stages(p, n, first, step) ==
    p[0] = first /\ \A i \in 1 .. n : p[i] = step[<<p[i - 1], i>>]

\* What MapThenFoldSet makes of it: g takes the largest number first.
IsFold(g, n, first, step) ==
    g = [s \in SUBSET (1 .. n) |->
            IF s = {} THEN first ELSE step[<<g[s \ {Max(s)}], Max(s)>>]]

LEMMA LeastExists ==
    ASSUME NEW T \in SUBSET Nat, T # {}
    PROVE  \E x \in T : \A y \in T : x <= y
<1>1. \E x \in T : \A y \in T : ~(<<y, x>> \in OpToRel(<, Nat))
  BY NatLessThanWellFounded, WFMin
<1>2. PICK x \in T : \A y \in T : ~(<<y, x>> \in OpToRel(<, Nat))
  BY <1>1
<1>3. \A y \in T : ~(y < x)
  BY <1>2, Zenon DEF OpToRel
<1>4. \A y \in T : x <= y
  BY <1>3
<1>5. QED
  BY <1>4

LEMMA MaxIsLargest ==
    ASSUME NEW n \in Nat, NEW s \in SUBSET (1 .. n), s # {}
    PROVE  Max(s) \in s /\ \A x \in s : x <= Max(s)
<1> DEFINE T == {n - x : x \in s}
<1>1. \A x \in s : n - x \in Nat
  OBVIOUS
<1>2. PICK t \in T : \A y \in T : t <= y
  <2>1. T \in SUBSET Nat
    BY <1>1
  <2>2. T # {}
    OBVIOUS
  <2> HIDE DEF T
  <2>3. QED
    BY <2>1, <2>2, LeastExists
<1>3. PICK m \in s : t = n - m
  BY <1>2
<1>4. \A x \in s : x <= m
  BY <1>2, <1>3
<1>5. QED
  BY <1>4 DEF Max

LEMMA LastIsMax ==
    ASSUME NEW n \in Nat, NEW s \in SUBSET (1 .. n), n \in s
    PROVE  Max(s) = n
<1>1. \A x \in s : x \in Nat /\ x <= n
  OBVIOUS
<1>2. \E x \in s : \A y \in s : x >= y
  BY <1>1
<1>3. Max(s) \in s /\ \A y \in s : Max(s) >= y
  BY <1>2 DEF Max
<1>4. Max(s) \in Nat /\ Max(s) <= n /\ Max(s) >= n
  BY <1>1, <1>3
<1>5. QED
  BY <1>4

\* Whatever holds of 0 and goes on from each number to the next holds up to n.
LEMMA UpTo ==
    ASSUME NEW n \in Nat, NEW Good \in SUBSET (0 .. n), 0 \in Good,
           \A m \in 0 .. n - 1 : m \in Good => m + 1 \in Good
    PROVE  Good = 0 .. n
<1> SUFFICES ASSUME Good # 0 .. n PROVE FALSE
  OBVIOUS
<1> DEFINE Bad == (0 .. n) \ Good
<1>1. Bad \in SUBSET Nat /\ Bad # {}
  <2>1. \A x \in 0 .. n : x \in Nat
    OBVIOUS
  <2>2. QED
    BY <2>1, Zenon
<1>2. PICK m \in Bad : \A y \in Bad : m <= y
  BY <1>1, LeastExists
<1>3. m # 0 /\ m \in 0 .. n
  OBVIOUS
<1>4. m - 1 \in 0 .. n - 1 /\ m - 1 \notin Bad
  BY <1>2, <1>3
<1>5. (m - 1) + 1 \in Good
  BY <1>4
<1>6. QED
  BY <1>3, <1>5

LEMMA FoldExists ==
    ASSUME NEW n \in Nat, NEW St, NEW first \in St, NEW step \in Step(St, n)
    PROVE  \E g \in [SUBSET (1 .. n) -> St] : IsFold(g, n, first, step)
<1> DEFINE Good == {m \in 0 .. n : \E g \in [SUBSET (1 .. m) -> St] : IsFold(g, m, first, step)}
<1>1. 0 \in Good
  <2> DEFINE g == [s \in SUBSET (1 .. 0) |-> first]
  <2>1. \A s \in SUBSET (1 .. 0) : s = {}
    OBVIOUS
  <2>2. g \in [SUBSET (1 .. 0) -> St] /\ IsFold(g, 0, first, step)
    BY <2>1 DEF IsFold
  <2>3. QED
    BY <2>2
<1>2. ASSUME NEW m \in 0 .. n - 1, m \in Good
      PROVE  m + 1 \in Good
  <2>1. PICK g \in [SUBSET (1 .. m) -> St] : IsFold(g, m, first, step)
    BY <1>2
  <2> DEFINE h == [s \in SUBSET (1 .. m + 1) |->
                     IF m + 1 \in s THEN step[<<g[s \ {m + 1}], m + 1>>] ELSE g[s]]
  <2>2. \A s \in SUBSET (1 .. m + 1) : m + 1 \notin s => s \in SUBSET (1 .. m)
    OBVIOUS
  <2>3. \A s \in SUBSET (1 .. m + 1) : s \ {m + 1} \in SUBSET (1 .. m)
    OBVIOUS
  <2>4. h \in [SUBSET (1 .. m + 1) -> St]
    BY <2>1, <2>2, <2>3 DEF Step
  <2>5. \A s \in SUBSET (1 .. m) : h[s] = g[s]
    OBVIOUS
  <2> HIDE DEF h
  <2>6. ASSUME NEW s \in SUBSET (1 .. m + 1)
        PROVE  h[s] = IF s = {} THEN first ELSE step[<<h[s \ {Max(s)}], Max(s)>>]
    <3>1. CASE m + 1 \in s
      <4>1. Max(s) = m + 1
        <5>1. m + 1 \in Nat
          OBVIOUS
        <5>2. QED
          BY <3>1, <5>1, LastIsMax
      <4>2. h[s] = step[<<g[s \ {m + 1}], m + 1>>]
        BY <3>1 DEF h
      <4>3. QED
        BY <2>3, <2>5, <3>1, <4>1, <4>2
    <3>2. CASE m + 1 \notin s
      <4>1. s \in SUBSET (1 .. m)
        BY <2>2, <3>2
      <4>2. g[s] = IF s = {} THEN first ELSE step[<<g[s \ {Max(s)}], Max(s)>>]
        BY <2>1, <4>1 DEF IsFold
      <4>3. h[s] = g[s] /\ h[s \ {Max(s)}] = g[s \ {Max(s)}]
        BY <2>5, <4>1
      <4>4. QED
        BY <4>2, <4>3
    <3>3. QED
      BY <3>1, <3>2
  <2>7. IsFold(h, m + 1, first, step)
    BY <2>4, <2>6 DEF IsFold
  <2>8. QED
    BY <2>4, <2>7
<1> HIDE DEF Good
<1>3. Good = 0 .. n
  <2>1. Good \in SUBSET (0 .. n)
    BY DEF Good
  <2>2. QED
    BY <1>1, <1>2, <2>1, UpTo
<1>4. n \in Good
  BY <1>3
<1>5. QED
  BY <1>4 DEF Good

LEMMA PrefixFacts ==
    ASSUME NEW n \in Nat, NEW m \in 1 .. n
    PROVE  /\ 1 .. m \in SUBSET (1 .. n) /\ 1 .. m # {}
           /\ Max(1 .. m) = m /\ (1 .. m) \ {Max(1 .. m)} = 1 .. m - 1
<1>1. m \in Nat /\ m \in 1 .. m /\ 1 .. m \in SUBSET (1 .. m)
  OBVIOUS
<1>2. Max(1 .. m) = m
  BY <1>1, LastIsMax
<1>3. 1 .. m \in SUBSET (1 .. n) /\ 1 .. m # {} /\ (1 .. m) \ {m} = 1 .. m - 1
  OBVIOUS
<1>4. QED
  BY <1>2, <1>3

LEMMA StagesExist ==
    ASSUME NEW n \in Nat, NEW St, NEW first \in St, NEW step \in Step(St, n)
    PROVE  \E p \in [0 .. n -> St] : Stages(p, n, first, step)
<1>1. PICK g \in [SUBSET (1 .. n) -> St] : IsFold(g, n, first, step)
  BY FoldExists
<1> DEFINE p == [m \in 0 .. n |-> g[1 .. m]]
<1>2. \A m \in 0 .. n : 1 .. m \in SUBSET (1 .. n)
  OBVIOUS
<1>3. p \in [0 .. n -> St]
  BY <1>2
<1>4. p[0] = first
  <2>1. 1 .. 0 = {} /\ 0 \in 0 .. n /\ {} \in SUBSET (1 .. n)
    OBVIOUS
  <2>2. QED
    BY <1>1, <2>1 DEF IsFold
<1>5. ASSUME NEW m \in 1 .. n
      PROVE  p[m] = step[<<p[m - 1], m>>]
  <2>1. g[1 .. m] = step[<<g[(1 .. m) \ {Max(1 .. m)}], Max(1 .. m)>>]
    BY <1>1, PrefixFacts DEF IsFold
  <2>2. g[1 .. m] = step[<<g[1 .. m - 1], m>>]
    BY <2>1, PrefixFacts
  <2>3. m \in 0 .. n /\ m - 1 \in 0 .. n
    OBVIOUS
  <2>4. QED
    BY <2>2, <2>3
<1> HIDE DEF p
<1>6. QED
  BY <1>3, <1>4, <1>5 DEF Stages

\* A fold that has its values is at each prefix where its stages are.
PrefixStages(h, n, St, first, step) ==
    /\ n \in Nat /\ first \in St /\ step \in Step(St, n)
    /\ h[{}] = first
    /\ \A m \in 1 .. n : h[1 .. m - 1] \in St => h[1 .. m] = step[<<h[1 .. m - 1], m>>]

LEMMA FoldValue ==
    ASSUME NEW n, NEW St, NEW first, NEW step, NEW h, PrefixStages(h, n, St, first, step),
           NEW p, Stages(p, n, first, step)
    PROVE  h[1 .. n] = p[n]
<1> USE DEF PrefixStages
<1> DEFINE Good == {m \in 0 .. n : h[1 .. m] = p[m] /\ p[m] \in St}
<1>1. 0 \in Good
  <2>1. 1 .. 0 = {}
    OBVIOUS
  <2>2. QED
    BY <2>1 DEF Stages
<1>2. ASSUME NEW m \in 0 .. n - 1, m \in Good
      PROVE  m + 1 \in Good
  <2>1. (m + 1) - 1 = m /\ m + 1 \in 1 .. n
    OBVIOUS
  <2>2. h[1 .. (m + 1) - 1] \in St
    BY <1>2, <2>1
  <2>3. h[1 .. m + 1] = step[<<h[1 .. m], m + 1>>]
    BY <2>1, <2>2
  <2>4. p[m + 1] = step[<<p[m], m + 1>>]
    BY <2>1 DEF Stages
  <2>5. step[<<p[m], m + 1>>] \in St
    BY <1>2, <2>1 DEF Step
  <2>6. QED
    BY <1>2, <2>1, <2>3, <2>4, <2>5
<1> HIDE DEF Good
<1>3. Good = 0 .. n
  <2>1. Good \in SUBSET (0 .. n)
    BY DEF Good
  <2>2. QED
    BY <1>1, <1>2, <2>1, UpTo
<1>4. n \in Good
  BY <1>3
<1>5. QED
  BY <1>4 DEF Good

-----------------------------------------------------------------------------
(* Sums: the stages of a fold that adds. *)
Sums(p, n, f) == p[0] = 0 /\ \A i \in 1 .. n : p[i] = p[i - 1] + f[i]

Adding(n, f) == [x \in Int \X (1 .. n) |-> x[1] + f[x[2]]]

LEMMA AddingType ==
    ASSUME NEW n \in Nat, NEW f \in [1 .. n -> Int]
    PROVE  Adding(n, f) \in Step(Int, n)
  BY DEF Adding, Step

LEMMA SumsAreStages ==
    ASSUME NEW n \in Nat, NEW f \in [1 .. n -> Int], NEW p \in [0 .. n -> Int]
    PROVE  Sums(p, n, f) <=> Stages(p, n, 0, Adding(n, f))
<1>1. \A i \in 1 .. n : p[i - 1] \in Int
  OBVIOUS
<1>2. \A i \in 1 .. n : Adding(n, f)[<<p[i - 1], i>>] = p[i - 1] + f[i]
  BY <1>1 DEF Adding
<1>3. QED
  BY <1>2 DEF Sums, Stages

LEMMA SumsExist ==
    ASSUME NEW n \in Nat, NEW f \in [1 .. n -> Int]
    PROVE  \E p \in [0 .. n -> Int] : Sums(p, n, f)
<1>1. PICK p \in [0 .. n -> Int] : Stages(p, n, 0, Adding(n, f))
  <2>1. 0 \in Int /\ Adding(n, f) \in Step(Int, n)
    BY AddingType
  <2>2. QED
    BY <2>1, StagesExist
<1>2. QED
  BY <1>1, SumsAreStages

LEMMA AddedIs ==
    ASSUME NEW n \in Nat, NEW f \in [1 .. n -> Int], NEW p \in [0 .. n -> Int], Sums(p, n, f)
    PROVE  Added(f) = p[n]
<1>0. DOMAIN f = 1 .. n
  OBVIOUS
<1>1. PICK g \in [SUBSET (1 .. n) -> Int] : IsFold(g, n, 0, Adding(n, f))
  <2>1. 0 \in Int /\ Adding(n, f) \in Step(Int, n)
    BY AddingType
  <2>2. QED
    BY <2>1, FoldExists
<1>2. g = [s \in SUBSET DOMAIN f |-> IF s = {} THEN 0 ELSE g[s \ {Max(s)}] + f[Max(s)]]
  <2>1. ASSUME NEW s \in SUBSET (1 .. n), s # {}
        PROVE  Adding(n, f)[<<g[s \ {Max(s)}], Max(s)>>] = g[s \ {Max(s)}] + f[Max(s)]
    <3>1. Max(s) \in 1 .. n /\ g[s \ {Max(s)}] \in Int
      BY <2>1, MaxIsLargest
    <3>2. QED
      BY <3>1 DEF Adding
  <2>2. QED
    BY <1>0, <1>1, <2>1 DEF IsFold
<1> DEFINE iter[s \in SUBSET DOMAIN f] == IF s = {} THEN 0 ELSE iter[s \ {Max(s)}] + f[Max(s)]
<1>3. Added(f) = iter[DOMAIN f]
  BY DEF Added, FoldLeft, MapThenFoldSet
<1>4. iter = [s \in SUBSET DOMAIN f |-> IF s = {} THEN 0 ELSE iter[s \ {Max(s)}] + f[Max(s)]]
  BY <1>2 DEF iter
<1> HIDE DEF iter
<1>5. iter[{}] = 0
  BY <1>0, <1>4
<1>6. ASSUME NEW m \in 1 .. n, iter[1 .. m - 1] \in Int
      PROVE  iter[1 .. m] = Adding(n, f)[<<iter[1 .. m - 1], m>>]
  <2>1. iter[1 .. m] = iter[(1 .. m) \ {Max(1 .. m)}] + f[Max(1 .. m)]
    BY <1>0, <1>4, PrefixFacts
  <2>2. iter[1 .. m] = iter[1 .. m - 1] + f[m]
    BY <2>1, PrefixFacts
  <2>3. QED
    BY <1>6, <2>2 DEF Adding
<1>7. Adding(n, f) \in Step(Int, n) /\ Stages(p, n, 0, Adding(n, f))
  BY AddingType, SumsAreStages
<1>8. PrefixStages(iter, n, Int, 0, Adding(n, f))
  BY <1>5, <1>6, <1>7 DEF PrefixStages
<1>9. iter[1 .. n] = p[n]
  BY <1>7, <1>8, FoldValue
<1>10. QED
  BY <1>0, <1>3, <1>9

LEMMA AddedSums ==
    ASSUME NEW n \in Nat, NEW f \in [1 .. n -> Int]
    PROVE  \E p \in [0 .. n -> Int] : Sums(p, n, f) /\ Added(f) = p[n]
  BY SumsExist, AddedIs

LEMMA AddedType ==
    ASSUME NEW n \in Nat, NEW f \in [1 .. n -> Int]
    PROVE  Added(f) \in Int
<1>1. PICK p \in [0 .. n -> Int] : Sums(p, n, f) /\ Added(f) = p[n]
  BY AddedSums
<1>2. QED
  BY <1>1

\* What holds of every term holds of the sums.
LEMMA AddedOrder ==
    ASSUME NEW n \in Nat, NEW f \in [1 .. n -> Int], NEW h \in [1 .. n -> Int],
           NEW g \in [1 .. n -> Int], NEW a \in Int, NEW b \in Int, NEW e \in Int,
           \A i \in 1 .. n : f[i] * a <= h[i] * b + g[i] * e
    PROVE  Added(f) * a <= Added(h) * b + Added(g) * e
<1>1. PICK p \in [0 .. n -> Int] : Sums(p, n, f) /\ Added(f) = p[n]
  BY AddedSums
<1>2. PICK q \in [0 .. n -> Int] : Sums(q, n, h) /\ Added(h) = q[n]
  BY AddedSums
<1>3. PICK r \in [0 .. n -> Int] : Sums(r, n, g) /\ Added(g) = r[n]
  BY AddedSums
<1> DEFINE Good == {m \in 0 .. n : p[m] * a <= q[m] * b + r[m] * e}
<1>4. 0 \in Good
  BY <1>1, <1>2, <1>3 DEF Sums
<1>5. ASSUME NEW m \in 0 .. n - 1, m \in Good
      PROVE  m + 1 \in Good
  <2>1. m + 1 \in 1 .. n /\ (m + 1) - 1 = m /\ m \in 0 .. n
    OBVIOUS
  <2>2. /\ p[m + 1] = p[m] + f[m + 1] /\ q[m + 1] = q[m] + h[m + 1]
        /\ r[m + 1] = r[m] + g[m + 1]
    BY <1>1, <1>2, <1>3, <2>1 DEF Sums
  <2>3. /\ p[m] \in Int /\ q[m] \in Int /\ r[m] \in Int
        /\ f[m + 1] \in Int /\ h[m + 1] \in Int /\ g[m + 1] \in Int
    BY <2>1
  <2>4. p[m] * a <= q[m] * b + r[m] * e /\ f[m + 1] * a <= h[m + 1] * b + g[m + 1] * e
    BY <1>5, <2>1
  <2>5. (p[m] + f[m + 1]) * a <= (q[m] + h[m + 1]) * b + (r[m] + g[m + 1]) * e
    <3>1. \A x, y, z, u, v, w \in Int :
              x * a <= y * b + z * e /\ u * a <= v * b + w * e
                  => (x + u) * a <= (y + v) * b + (z + w) * e
      OBVIOUS
    <3>2. QED
      BY <2>3, <2>4, <3>1
  <2>6. QED
    BY <2>1, <2>2, <2>5
<1> HIDE DEF Good
<1>6. Good = 0 .. n
  <2>1. Good \in SUBSET (0 .. n)
    BY DEF Good
  <2>2. QED
    BY <1>4, <1>5, <2>1, UpTo
<1>7. n \in Good
  BY <1>6
<1>8. QED
  BY <1>1, <1>2, <1>3, <1>7 DEF Good

LEMMA AddedPlus ==
    ASSUME NEW n \in Nat, NEW f \in [1 .. n -> Int], NEW h \in [1 .. n -> Int],
           NEW k \in [1 .. n -> Int], \A i \in 1 .. n : k[i] = f[i] + h[i]
    PROVE  Added(k) = Added(f) + Added(h)
<1>1. Added(k) * 1 <= Added(f) * 1 + Added(h) * 1
  <2>1. 1 \in Int /\ \A i \in 1 .. n : k[i] * 1 <= f[i] * 1 + h[i] * 1
    OBVIOUS
  <2>2. QED
    BY <2>1, AddedOrder
<1>2. Added(f) * 1 <= Added(k) * 1 + Added(h) * (-1)
  <2>1. 1 \in Int /\ -1 \in Int /\ \A i \in 1 .. n : f[i] * 1 <= k[i] * 1 + h[i] * (-1)
    OBVIOUS
  <2>2. QED
    BY <2>1, AddedOrder
<1>3. Added(f) \in Int /\ Added(h) \in Int /\ Added(k) \in Int
  BY AddedType
<1>4. QED
  BY <1>1, <1>2, <1>3

LEMMA AddedOnes ==
    ASSUME NEW n \in Nat
    PROVE  Added([i \in 1 .. n |-> 1]) = n
<1> DEFINE f == [i \in 1 .. n |-> 1]
           p == [i \in 0 .. n |-> i]
<1>1. f \in [1 .. n -> Int] /\ p \in [0 .. n -> Int] /\ p[n] = n /\ Sums(p, n, f)
  BY DEF Sums
<1> HIDE DEF f, p
<1>2. Added(f) = n
  BY <1>1, AddedIs
<1>3. QED
  BY <1>2 DEF f

LEMMA AddedNothing ==
    ASSUME NEW f \in [1 .. 0 -> Int]
    PROVE  Added(f) = 0
<1>1. PICK p \in [0 .. 0 -> Int] : Sums(p, 0, f) /\ Added(f) = p[0]
  <2>1. 0 \in Nat
    OBVIOUS
  <2>2. QED
    BY <2>1, AddedSums
<1>2. QED
  BY <1>1 DEF Sums

LEMMA AddedLast ==
    ASSUME NEW n \in Nat, NEW f \in [1 .. n -> Int], NEW h \in [1 .. n + 1 -> Int],
           \A i \in 1 .. n : h[i] = f[i]
    PROVE  Added(h) = Added(f) + h[n + 1]
<1>1. PICK p \in [0 .. n -> Int] : Sums(p, n, f) /\ Added(f) = p[n]
  BY AddedSums
<1> DEFINE q == [i \in 0 .. n + 1 |-> IF i <= n THEN p[i] ELSE p[n] + h[n + 1]]
<1>2. q \in [0 .. n + 1 -> Int] /\ q[n + 1] = p[n] + h[n + 1]
  OBVIOUS
<1>3. Sums(q, n + 1, h)
  <2>1. q[0] = 0
    BY <1>1 DEF Sums
  <2>2. ASSUME NEW i \in 1 .. n + 1 PROVE q[i] = q[i - 1] + h[i]
    <3>1. CASE i \in 1 .. n
      <4>1. q[i] = p[i] /\ q[i - 1] = p[i - 1] /\ h[i] = f[i]
        BY <3>1
      <4>2. QED
        BY <1>1, <3>1, <4>1 DEF Sums
    <3>2. CASE i = n + 1
      BY <3>2
    <3>3. QED
      BY <3>1, <3>2
  <2>3. QED
    BY <2>1, <2>2 DEF Sums
<1> HIDE DEF q
<1>4. Added(h) = q[n + 1]
  <2>1. n + 1 \in Nat
    OBVIOUS
  <2>2. QED
    BY <1>2, <1>3, <2>1, AddedIs
<1>5. QED
  BY <1>1, <1>2, <1>4

-----------------------------------------------------------------------------
(* The totals of a session are the sums of its rows. *)
Counted(rs, s, k) == [i \in 1 .. Len(rs) |-> rs[i].events[s][k]]

RowsAddUp == \A s \in Sockets, k \in Kinds : Added(Counted(rows, s, k)) = accumulated[s][k]

Row == [elapsed : Int, events : [Sockets -> [Kinds -> Int]]]

LEMMA CountedType ==
    ASSUME NEW rs \in Seq(Row), NEW s \in Sockets, NEW k \in Kinds
    PROVE  Len(rs) \in Nat /\ Counted(rs, s, k) \in [1 .. Len(rs) -> Int]
<1>1. Len(rs) \in Nat
  OBVIOUS
<1>2. ASSUME NEW i \in 1 .. Len(rs) PROVE rs[i].events[s][k] \in Int
  <2>1. rs[i] \in Row
    BY <1>2
  <2>2. QED
    BY <2>1 DEF Row
<1>3. QED
  BY <1>1, <1>2 DEF Counted

LEMMA NextTotal == TypeOK /\ RowsAddUp /\ [Next]_vars => RowsAddUp'
<1> SUFFICES ASSUME TypeOK, RowsAddUp, [Next]_vars PROVE RowsAddUp'
  OBVIOUS
<1>1. CASE UNCHANGED <<rows, accumulated>>
  <2>1. \A s, k : Added(Counted(rows, s, k))' = Added(Counted(rows, s, k))
    BY <1>1 DEF Counted, Added, FoldLeft, MapThenFoldSet
  <2>2. QED
    BY <1>1, <2>1 DEF RowsAddUp
<1>2. CASE Account
  <2> SUFFICES ASSUME NEW s \in Sockets, NEW k \in Kinds
               PROVE  Added(Counted(rows, s, k))' = accumulated'[s][k]
    BY DEF RowsAddUp
  <2> DEFINE row == [elapsed |-> current_time - prev_time,
                     events  |-> [t \in Sockets |-> Events(t)]]
  <2>1. rows' = Append(rows, row) /\ rows \in Seq(Row) /\ row \in Row
    BY <1>2, EventsType DEF Account, AccountAs, TypeOK, Row
  <2>2. row.events[s][k] = Events(s)[k]
    OBVIOUS
  <2> HIDE DEF row
  <2>3. PICK new : new = rows'
    OBVIOUS
  <2>4. /\ new \in Seq(Row) /\ Len(new) = Len(rows) + 1 /\ new[Len(rows) + 1] = row
        /\ \A i \in 1 .. Len(rows) : new[i] = rows[i]
    BY <2>1, <2>3, AppendProperties
  <2>5. PICK n, f, h : n = Len(rows) /\ f = Counted(rows, s, k) /\ h = Counted(new, s, k)
    OBVIOUS
  <2>6. n \in Nat /\ f \in [1 .. n -> Int] /\ h \in [1 .. n + 1 -> Int]
    BY <2>1, <2>4, <2>5, CountedType
  <2>7. (\A i \in 1 .. n : h[i] = f[i]) /\ h[n + 1] = Events(s)[k]
    BY <2>2, <2>4, <2>5, <2>6 DEF Counted
  <2>8. Added(h) = Added(f) + Events(s)[k]
    BY <2>6, <2>7, AddedLast
  <2>9. Added(Counted(rows, s, k))' = Added(h)
    BY <2>3, <2>5 DEF Counted, Added, FoldLeft, MapThenFoldSet
  <2>10. Added(f) = accumulated[s][k]
    BY <2>5 DEF RowsAddUp
  <2>11. accumulated'[s][k] = accumulated[s][k] + Events(s)[k]
    BY <1>2 DEF Account, AccountAs, Totals, Plus
  <2>12. QED
    BY <2>8, <2>9, <2>10, <2>11
<1>3. CASE ~Account
  <2>1. UNCHANGED <<rows, accumulated>>
    BY <1>3 DEF Next, Loop, Parse, Dashes, Option, Argument, ArgpError, Dispatch, Start,
         PrepareDataDirectory, Initialize, OpenCSVFile, ExecuteCommand, CollectAndSave,
         StartupFails, Interrupt, ReadFirstTime, ReadFirstStates, Wake, PollChild, ReadTime,
         ReadStates, WaitForChild, Tick, Traffic, ChildExits, vars, session, results
  <2>2. QED
    BY <1>1, <2>1
<1>4. QED
  BY <1>2, <1>3

LEMMA InitTotal == Init => RowsAddUp
<1> SUFFICES ASSUME Init, NEW s \in Sockets, NEW k \in Kinds
             PROVE  Added(Counted(rows, s, k)) = accumulated[s][k]
  BY DEF RowsAddUp
<1>1. rows = << >> /\ accumulated[s][k] = 0
  BY DEF Init, NoCounts, NoEvents
<1>2. Counted(rows, s, k) \in [1 .. 0 -> Int]
  BY <1>1 DEF Counted
<1>3. QED
  BY <1>1, <1>2, AddedNothing

\* The totals stay those since the session began, also when it is cut off.
SinceInv ==
    /\ pc \in BeforeLoop => accumulated = NoCounts /\ prev_states = base
    /\ \A s \in Sockets, k \in Kinds :
          Monitored(s) => accumulated[s][k] = prev_states[s][k] - base[s][k]

LEMMA NextSince == TypeOK /\ SinceInv /\ [Next]_vars => SinceInv'
<1> SUFFICES ASSUME TypeOK, SinceInv, [Next]_vars PROVE SinceInv'
  OBVIOUS
<1> USE DEF Goto, BeforeLoop, Startup
<1>0. /\ prev_states \in [Sockets -> [Kinds -> Nat]] /\ counter \in [Sockets -> [Kinds -> Nat]]
      /\ curr_states \in [Sockets -> [Kinds -> Nat]] /\ base \in [Sockets -> [Kinds -> Nat]]
  BY DEF TypeOK, Counts, SocketMemoryData
<1>1. CASE Parse
  <2>1. UNCHANGED <<accumulated, prev_states, base>> /\ pc = "parse"
    BY <1>1 DEF Parse, Parsing, Dashes, Option, Argument, ArgpError, Dispatch, session, samples,
           results
  <2>2. accumulated = NoCounts /\ prev_states = base
    BY <2>1 DEF SinceInv
  <2>3. \A s \in Sockets, k \in Kinds : accumulated[s][k] = prev_states[s][k] - base[s][k]
    BY <1>0, <2>2 DEF NoCounts, NoEvents
  <2>4. QED
    BY <2>1, <2>2, <2>3 DEF SinceInv
<1>2. CASE ReadFirstStates
  <2>1. /\ accumulated' = NoCounts /\ prev_states' = counter /\ base' = counter
        /\ pc' = "sleep"
    BY <1>2 DEF ReadFirstStates, Sleep, SinceInv, results
  <2>2. \A s \in Sockets, k \in Kinds : accumulated'[s][k] = prev_states'[s][k] - base'[s][k]
    BY <1>0, <2>1 DEF NoCounts, NoEvents
  <2>3. QED
    BY <2>1, <2>2 DEF SinceInv
<1>3. CASE Account
  <2>1. /\ accumulated' = Totals /\ prev_states' = curr_states
        /\ UNCHANGED <<config, base>> /\ pc' = "sleep"
    BY <1>3 DEF Account, AccountAs, command, Sleep
  <2>2. ASSUME NEW s \in Sockets, NEW k \in Kinds, Monitored(s)
        PROVE  accumulated'[s][k] = prev_states'[s][k] - base'[s][k]
    <3>1. accumulated'[s][k] = accumulated[s][k] + Events(s)[k]
      BY <2>1 DEF Totals, Plus
    <3>2. Events(s)[k] = curr_states[s][k] - prev_states[s][k]
      BY <2>2 DEF Events
    <3>3. accumulated[s][k] = prev_states[s][k] - base[s][k]
      BY <2>2 DEF SinceInv
    <3>4. QED
      BY <1>0, <2>1, <3>1, <3>2, <3>3
  <2>3. QED
    BY <2>1, <2>2 DEF SinceInv, Monitored
<1>4. CASE ~Parse /\ ~ReadFirstStates /\ ~Account
  <2>1. /\ UNCHANGED <<accumulated, prev_states, base, config>>
        /\ pc' \in BeforeLoop => pc \in BeforeLoop
    BY <1>4 DEF Next, Loop, Start, PrepareDataDirectory, Initialize, OpenCSVFile, ExecuteCommand,
         CollectAndSave, StartupFails, Interrupt, ReadFirstTime, Wake, PollChild, ReadTime,
         ReadStates, WaitForChild, Tick, Traffic, ChildExits, vars, command, session, samples,
         results
  <2>2. QED
    BY <2>1 DEF SinceInv, Monitored
<1>5. QED
  BY <1>1, <1>2, <1>3, <1>4

LEMMA InitSince == Init => SinceInv
  BY DEF Init, SinceInv, NoCounts, NoEvents

-----------------------------------------------------------------------------
(* The events of a row are never negative: the counters only count up, and *)
(* a sample is read after the one before it.                               *)
UpFrom(lo, hi) == \A s \in Sockets, k \in Kinds : lo[s][k] <= hi[s][k]

CountInv ==
    /\ pc \in {"sleep", "poll", "sample", "read", "account"} => UpFrom(prev_states, counter)
    /\ pc = "account" => UpFrom(prev_states, curr_states) /\ UpFrom(curr_states, counter)
    /\ \A i \in 1 .. Len(rows), s \in Sockets, k \in Kinds : rows[i].events[s][k] >= 0

LEMMA AccountCount == TypeOK /\ CountInv /\ Account => CountInv'
<1> SUFFICES ASSUME TypeOK, CountInv, Account PROVE CountInv'
  OBVIOUS
<1> DEFINE row == [elapsed |-> current_time - prev_time, events |-> [s \in Sockets |-> Events(s)]]
<1>1. /\ pc = "account" /\ pc' = "sleep" /\ prev_states' = curr_states /\ counter' = counter
      /\ rows' = Append(rows, row)
  BY DEF Account, AccountAs, Sleep, Goto, world
<1>2. rows \in Seq(Row) /\ row \in Row
  BY EventsType DEF TypeOK, Row
<1>3. \A s \in Sockets, k \in Kinds : row.events[s][k] >= 0
  BY <1>1 DEF CountInv, UpFrom, Events, NoEvents, TypeOK, Counts, SocketMemoryData
<1> HIDE DEF row
<1>4. Len(rows) \in Nat /\ Len(rows') = Len(rows) + 1
  BY <1>1, <1>2
<1>5. ASSUME NEW i \in 1 .. Len(rows'), NEW s \in Sockets, NEW k \in Kinds
      PROVE  rows'[i].events[s][k] >= 0
  <2>1. CASE i \in 1 .. Len(rows)
    <3>1. rows'[i] = rows[i]
      BY <1>1, <1>2, <2>1
    <3>2. QED
      BY <2>1, <3>1 DEF CountInv
  <2>2. CASE i = Len(rows) + 1
    <3>1. rows'[i] = row
      BY <1>1, <1>2, <2>2
    <3>2. QED
      BY <1>3, <3>1
  <2>3. QED
    BY <1>4, <2>1, <2>2
<1>6. UpFrom(prev_states', counter')
  BY <1>1 DEF CountInv, UpFrom
<1>7. QED
  BY <1>1, <1>5, <1>6 DEF CountInv

\* A step that prints no row and leaves the loop where it is, or leaves it.
LEMMA SameCount ==
    ASSUME CountInv, UNCHANGED <<rows, counter, prev_states, curr_states>>,
           pc' \in {"sleep", "poll", "sample", "read", "account"}
               => pc \in {"sleep", "poll", "sample", "read", "account"},
           pc' = "account" => pc = "account"
    PROVE  CountInv'
  BY DEF CountInv, UpFrom

LEMMA NextCount == TypeOK /\ CountInv /\ [Next]_vars => CountInv'
<1> SUFFICES ASSUME TypeOK, CountInv, [Next]_vars PROVE CountInv'
  OBVIOUS
<1> USE DEF Goto
<1>1. CASE Parse
  <2>1. UNCHANGED session
    BY <1>1 DEF Parse, Dashes, Option, Argument, ArgpError, Dispatch
  <2>2. pc' \in {"parse", "prepare", "pcm", "reader", "usage"}
    BY <1>1 DEF Parse, Parsing, Dashes, Option, Argument, ArgpError, Dispatch
  <2>3. QED
    BY <2>1, <2>2, SameCount DEF session, world, samples, results
<1>2. CASE Start
  BY <1>2, SameCount DEF Start, PrepareDataDirectory, Initialize, OpenCSVFile, ExecuteCommand,
         CollectAndSave, session, world, samples, results
<1>3. CASE StartupFails \/ Interrupt
  BY <1>3, SameCount DEF StartupFails, Interrupt, session, world, samples, results
<1>4. CASE ReadFirstTime \/ ReadTime
  BY <1>4, SameCount DEF ReadFirstTime, ReadTime, world, results
<1>5. CASE ReadFirstStates
  BY <1>5 DEF ReadFirstStates, Sleep, CountInv, UpFrom, world, results, TypeOK, Counts,
         SocketMemoryData
<1>6. CASE Wake \/ PollChild \/ WaitForChild
  BY <1>6, SameCount DEF Wake, PollChild, WaitForChild, session, world, samples, results
<1>7. CASE ReadStates
  BY <1>7 DEF ReadStates, CountInv, UpFrom, world, results, TypeOK, Counts, SocketMemoryData
<1>8. CASE Tick \/ ChildExits
  BY <1>8, SameCount DEF Tick, ChildExits, world, samples, results
<1>9. CASE Traffic
  <2>1. UNCHANGED <<pc, rows, prev_states, curr_states>>
    BY <1>9 DEF Traffic, samples, results
  <2>2. PICK a \in Active : counter' = [counter EXCEPT ![a[1]][a[2]] = @ + 1]
    BY <1>9 DEF Traffic
  <2>3. a[1] \in Sockets /\ a[2] \in Kinds
    BY BwprofAssumption
  <2>4. \A s \in Sockets, k \in Kinds : counter[s][k] \in Nat
    BY DEF TypeOK, Counts, SocketMemoryData
  <2>5. counter \in [Sockets -> [Kinds -> Nat]]
    BY DEF TypeOK, Counts, SocketMemoryData
  <2>6. ASSUME NEW s \in Sockets, NEW k \in Kinds
        PROVE  counter'[s][k] >= counter[s][k] /\ counter'[s][k] \in Nat
    <3>1. counter'[s] = IF s = a[1] THEN [counter[s] EXCEPT ![a[2]] = @ + 1] ELSE counter[s]
      BY <2>2, <2>5
    <3>2. counter[s] \in [Kinds -> Nat]
      BY <2>5
    <3>3. counter'[s][k] = counter[s][k] \/ counter'[s][k] = counter[s][k] + 1
      BY <3>1, <3>2
    <3>4. QED
      BY <2>4, <3>3
  <2>7. \A s \in Sockets, k \in Kinds : prev_states[s][k] \in Nat /\ curr_states[s][k] \in Nat
    BY DEF TypeOK, Counts, SocketMemoryData
  <2>8. \A x, y, z \in Nat : x <= y /\ z >= y => x <= z
    OBVIOUS
  <2>9. /\ UpFrom(prev_states, counter) => UpFrom(prev_states, counter')
        /\ UpFrom(curr_states, counter) => UpFrom(curr_states, counter')
    BY <2>4, <2>6, <2>7, <2>8 DEF UpFrom
  <2>10. UpFrom(prev_states, curr_states) => UpFrom(prev_states', curr_states')
    BY <2>1 DEF UpFrom
  <2>11. QED
    BY <2>1, <2>9, <2>10 DEF CountInv
<1>10. CASE UNCHANGED vars
  BY <1>10, SameCount DEF vars, session, world, samples, results
<1>11. QED
  BY <1>1, <1>2, <1>3, <1>4, <1>5, <1>6, <1>7, <1>8, <1>9, <1>10, AccountCount DEF Next, Loop

LEMMA InitCount == Init => CountInv
  BY DEF Init, CountInv

-----------------------------------------------------------------------------
(* Bandwidths. *)
LEMMA NearestIs ==
    ASSUME NEW n \in Nat, NEW d \in Nat \ {0}
    PROVE  Nearest(n, d) \in Nat /\ 2 * (Nearest(n, d) * d - n) \in -d .. d
<1> DEFINE q == n \div d
           Good(r) == 2 * (r * d - n) \in -d .. d
<1>1. q \in Nat /\ q * d <= n /\ n < q * d + d
  OBVIOUS
<1> HIDE DEF q
<1>2. PICK x \in Nat : x = q * d
  BY <1>1
<1>3. (1 + q) * d = x + d
  BY <1>1, <1>2
<1>4. \E r \in {q, 1 + q} : Good(r)
  <2>1. CASE 2 * (n - x) <= d
    <3>1. 2 * (x - n) \in -d .. d
      BY <1>1, <1>2, <2>1
    <3>2. QED
      BY <1>2, <3>1
  <2>2. CASE 2 * (n - x) > d
    <3>1. 2 * ((x + d) - n) \in -d .. d
      BY <1>1, <1>2, <2>2
    <3>2. QED
      BY <1>3, <3>1
  <2>3. QED
    BY <1>2, <2>1, <2>2
<1>5. Nearest(n, d) = CHOOSE r \in {q, 1 + q} : Good(r)
  BY DEF Nearest, q
<1> HIDE DEF Good
<1>6. Nearest(n, d) \in {q, 1 + q} /\ Good(Nearest(n, d))
  BY <1>4, <1>5
<1>7. QED
  BY <1>1, <1>6 DEF Good

\* A bandwidth is off by half of its last digit at most, over what its row covers.
Rounded(r, el, x) == r \in Nat /\ 2 * (r * el) <= 2 * x + el /\ 2 * x <= 2 * (r * el) + el

LEMMA BandwidthIs ==
    ASSUME NEW e \in Nat, NEW el \in Nat \ {0}
    PROVE  Rounded(toBW(e, el), el, e * Precision)
<1>1. PICK x \in Nat : x = e * Precision
  BY BwprofAssumption
<1>2. PICK r : r = toBW(e, el)
  OBVIOUS
<1>3. r = Nearest(x, el)
  BY <1>1, <1>2 DEF toBW
<1>4. r \in Nat /\ 2 * (r * el - x) \in -el .. el
  BY <1>3, NearestIs
<1>5. PICK y \in Nat : y = r * el
  BY <1>4
<1>6. 2 * y <= 2 * x + el /\ 2 * x <= 2 * y + el
  BY <1>4, <1>5
<1>7. QED
  BY <1>1, <1>2, <1>4, <1>5, <1>6 DEF Rounded

\* A row covers no less than the interval.
LEMMA BandwidthBound ==
    ASSUME NEW e \in Nat, NEW el \in Nat \ {0}, NEW i \in Nat \ {0}, el >= i
    PROVE  toBW(e, el) * (2 * i) <= e * (2 * Precision) + i
<1>1. PICK r, x : r = toBW(e, el) /\ x = e * Precision
  OBVIOUS
<1>2. r \in Nat /\ 2 * (r * el) <= 2 * x + el /\ x \in Nat
  BY <1>1, BandwidthIs, BwprofAssumption DEF Rounded
<1>3. r * (2 * i) <= 2 * x + i
  <2>1. CASE r = 0
    BY <1>2, <2>1
  <2>2. CASE r # 0
    <3>1. PICK k \in Nat : k = 2 * r - 1
      BY <1>2, <2>2
    <3>2. k * el = 2 * (r * el) - el /\ k * i = r * (2 * i) - i
      BY <1>2, <3>1
    <3>3. k * i <= k * el
      BY <3>1
    <3>4. k * el \in Int /\ k * i \in Int /\ r * el \in Int /\ r * (2 * i) \in Int
      BY <1>2, <3>1
    <3>5. QED
      BY <1>2, <3>2, <3>3, <3>4
  <2>3. QED
    BY <2>1, <2>2
<1>4. e * (2 * Precision) = 2 * x
  BY <1>1, BwprofAssumption
<1>5. QED
  BY <1>1, <1>3, <1>4

\* A bandwidth that needs no rounding is written as it is.
LEMMA BandwidthExact ==
    ASSUME NEW e \in Nat, NEW el \in Nat \ {0}, (e * Precision) % el = 0
    PROVE  toBW(e, el) * el = e * Precision
<1>1. PICK r, x : r = toBW(e, el) /\ x = e * Precision
  OBVIOUS
<1>2. r \in Nat /\ 2 * (r * el) <= 2 * x + el /\ 2 * x <= 2 * (r * el) + el /\ x \in Nat
  BY <1>1, BandwidthIs, BwprofAssumption DEF Rounded
<1>3. PICK m \in Nat : x = m * el
  <2>1. PICK q, z : q = x \div el /\ z = x % el
    OBVIOUS
  <2>2. q \in Nat /\ x = el * q + z
    BY <1>2, <2>1
  <2>3. z = 0
    BY <1>1, <2>1
  <2>4. PICK y \in Int : y = el * q
    BY <2>2
  <2>5. x = y
    BY <1>2, <2>2, <2>3, <2>4
  <2>6. y = q * el
    BY <2>2, <2>4
  <2>7. QED
    BY <2>2, <2>5, <2>6
<1>4. ~(r >= m + 1)
  <2> SUFFICES ASSUME r >= m + 1 PROVE FALSE
    OBVIOUS
  <2>1. r * el >= (m + 1) * el /\ (m + 1) * el = m * el + el
    BY <1>2
  <2>2. r * el \in Int /\ m * el \in Int
    BY <1>2
  <2>3. QED
    BY <1>2, <1>3, <2>1, <2>2
<1>5. ~(m >= r + 1)
  <2> SUFFICES ASSUME m >= r + 1 PROVE FALSE
    OBVIOUS
  <2>1. m * el >= (r + 1) * el /\ (r + 1) * el = r * el + el
    BY <1>2
  <2>2. r * el \in Int /\ m * el \in Int
    BY <1>2
  <2>3. QED
    BY <1>2, <1>3, <2>1, <2>2
<1>6. r = m
  BY <1>2, <1>4, <1>5
<1>7. QED
  BY <1>1, <1>3, <1>6

-----------------------------------------------------------------------------
(* What a column of bwprof.csv adds up to. *)
ReportInv == TypeOK /\ TimeInv /\ CsvInv /\ CountInv /\ RowsAddUp /\ SinceInv

LEMMA ColumnsOf ==
    ASSUME NEW d
    PROVE  /\ Columns(d)[1] = d["reads"] /\ Columns(d)[2] = d["writes"]
           /\ Columns(d)[3] = d["reads"] + d["writes"]
           /\ Columns(d)[4] = d["cxl_reads"] /\ Columns(d)[5] = d["cxl_writes"]
           /\ Columns(d)[6] = d["cxl_reads"] + d["cxl_writes"]
  BY DEF Columns

LEMMA RowFacts ==
    ASSUME ReportInv, NEW i \in 1 .. Len(rows)
    PROVE  /\ rows[i].elapsed \in Nat \ {0} /\ rows[i].elapsed >= config.interval
           /\ \A s \in Sockets, c \in 1 .. 6 : Columns(rows[i].events[s])[c] \in Nat
<1>1. rows[i] \in Row
  <2>1. rows \in Seq(Row)
    BY DEF ReportInv, TypeOK, Row
  <2>2. QED
    BY <2>1
<1>2. rows[i].elapsed \in Int /\ rows[i].elapsed >= config.interval
  BY <1>1 DEF Row, ReportInv, TimeInv, RowsCoverInterval
<1>3. config.interval \in Nat \ {0}
  BY DEF ReportInv, TypeOK, Config
<1>4. ASSUME NEW s \in Sockets, NEW c \in 1 .. 6
      PROVE  Columns(rows[i].events[s])[c] \in Nat
  <2>1. \A k \in Kinds : rows[i].events[s][k] \in Nat
    BY <1>1 DEF Row, ReportInv, CountInv
  <2>2. PICK d : d = rows[i].events[s]
    OBVIOUS
  <2>3. /\ d["reads"] \in Nat /\ d["writes"] \in Nat
        /\ d["cxl_reads"] \in Nat /\ d["cxl_writes"] \in Nat
    BY <2>1, <2>2 DEF Kinds
  <2>4. PICK a, b, e, g \in Nat : /\ a = d["reads"] /\ b = d["writes"]
                                 /\ e = d["cxl_reads"] /\ g = d["cxl_writes"]
    BY <2>3
  <2>5. a + b \in Nat /\ e + g \in Nat
    OBVIOUS
  <2>6. Columns(d)[c] \in {a, b, a + b, e, g, e + g}
    <3>1. c \in {1, 2, 3, 4, 5, 6}
      OBVIOUS
    <3>2. /\ Columns(d)[1] = a /\ Columns(d)[2] = b /\ Columns(d)[3] = a + b
          /\ Columns(d)[4] = e /\ Columns(d)[5] = g /\ Columns(d)[6] = e + g
      BY <2>4, ColumnsOf
    <3>3. QED
      BY <3>1, <3>2
  <2>7. QED
    BY <2>2, <2>5, <2>6
<1>5. QED
  BY <1>2, <1>3, <1>4

EventsOf(s, c) == [i \in 1 .. Len(rows) |-> Columns(rows[i].events[s])[c]]

\* The events of the rows are those of the session, in the totals of two kinds as well.
LEMMA EventsOfColumn ==
    ASSUME ReportInv, NEW s \in Sockets, NEW c \in 1 .. 6
    PROVE  /\ Len(rows) \in Nat /\ EventsOf(s, c) \in [1 .. Len(rows) -> Nat]
           /\ Added(EventsOf(s, c)) = Columns(accumulated[s])[c]
<1>1. rows \in Seq(Row) /\ Len(rows) \in Nat
  BY DEF ReportInv, TypeOK, Row
<1>2. EventsOf(s, c) \in [1 .. Len(rows) -> Nat]
  BY RowFacts DEF EventsOf
<1>3. PICK n : n = Len(rows) /\ n \in Nat
  BY <1>1
<1>4. ASSUME NEW k \in Kinds
      PROVE  /\ Counted(rows, s, k) \in [1 .. n -> Int]
             /\ Added(Counted(rows, s, k)) = accumulated[s][k]
             /\ \A i \in 1 .. n : Counted(rows, s, k)[i] = rows[i].events[s][k]
  BY <1>1, <1>3, CountedType DEF ReportInv, RowsAddUp, Counted
<1>5. PICK h : h = EventsOf(s, c)
  OBVIOUS
<1>6. h \in [1 .. n -> Int] /\ \A i \in 1 .. n : h[i] = Columns(rows[i].events[s])[c]
  BY <1>2, <1>3, <1>5 DEF EventsOf
<1>7. ASSUME NEW k \in Kinds, \A d : Columns(d)[c] = d[k]
      PROVE  Added(h) = Columns(accumulated[s])[c]
  <2>1. PICK f : f = Counted(rows, s, k)
    OBVIOUS
  <2>2. f \in [1 .. n -> Int] /\ \A i \in 1 .. n : f[i] = h[i]
    BY <1>4, <1>6, <1>7, <2>1
  <2>3. f = h
    <3>1. f = [i \in 1 .. n |-> f[i]] /\ h = [i \in 1 .. n |-> h[i]]
      BY <1>6, <2>2
    <3>2. [i \in 1 .. n |-> f[i]] = [i \in 1 .. n |-> h[i]]
      BY <2>2
    <3>3. QED
      BY <3>1, <3>2
  <2>4. QED
    BY <1>4, <1>7, <2>1, <2>3
<1>8. ASSUME NEW k \in Kinds, NEW l \in Kinds, \A d : Columns(d)[c] = d[k] + d[l]
      PROVE  Added(h) = Columns(accumulated[s])[c]
  <2>1. PICK f, g : f = Counted(rows, s, k) /\ g = Counted(rows, s, l)
    OBVIOUS
  <2>2. /\ f \in [1 .. n -> Int] /\ g \in [1 .. n -> Int]
        /\ Added(f) = accumulated[s][k] /\ Added(g) = accumulated[s][l]
    BY <1>4, <2>1
  <2>3. ASSUME NEW i \in 1 .. n PROVE h[i] = f[i] + g[i]
    <3>1. h[i] = rows[i].events[s][k] + rows[i].events[s][l]
      BY <1>6, <1>8
    <3>2. f[i] = rows[i].events[s][k] /\ g[i] = rows[i].events[s][l]
      BY <1>4, <2>1
    <3>3. QED
      BY <3>1, <3>2
  <2>4. Added(h) = Added(f) + Added(g)
    BY <1>3, <1>6, <2>2, <2>3, AddedPlus
  <2>5. QED
    BY <1>8, <2>2, <2>4
<1>9. Added(h) = Columns(accumulated[s])[c]
  <2>1. \/ \E k \in Kinds : \A d : Columns(d)[c] = d[k]
        \/ \E k, l \in Kinds : \A d : Columns(d)[c] = d[k] + d[l]
    <3>1. /\ "reads" \in Kinds /\ "writes" \in Kinds
          /\ "cxl_reads" \in Kinds /\ "cxl_writes" \in Kinds
      BY DEF Kinds
    <3>2. CASE c = 1
      BY <3>1, <3>2, ColumnsOf
    <3>3. CASE c = 2
      BY <3>1, <3>3, ColumnsOf
    <3>4. CASE c = 3
      BY <3>1, <3>4, ColumnsOf
    <3>5. CASE c = 4
      BY <3>1, <3>5, ColumnsOf
    <3>6. CASE c = 5
      BY <3>1, <3>6, ColumnsOf
    <3>7. CASE c = 6
      BY <3>1, <3>7, ColumnsOf
    <3>8. QED
      BY <3>2, <3>3, <3>4, <3>5, <3>6, <3>7
  <2>2. QED
    BY <1>7, <1>8, <2>1
<1>10. QED
  BY <1>1, <1>2, <1>5, <1>9

LEMMA AddedNat ==
    ASSUME NEW n \in Nat, NEW f \in [1 .. n -> Nat]
    PROVE  Added(f) \in Nat
<1>1. f \in [1 .. n -> Int] /\ 0 \in Int /\ 1 \in Int
  OBVIOUS
<1>2. \A i \in 1 .. n : f[i] * 0 <= f[i] * 1 + f[i] * 0
  OBVIOUS
<1>3. Added(f) * 0 <= Added(f) * 1 + Added(f) * 0
  BY <1>1, <1>2, AddedOrder
<1>4. Added(f) \in Int
  BY <1>1, AddedType
<1>5. QED
  BY <1>3, <1>4

\* Column c of the header is one of a socket that is monitored.
LEMMA HeaderNames ==
    ASSUME TypeOK, NEW c \in 2 .. Len(Header)
    PROVE  Header[c][1] \in Sockets /\ Monitored(Header[c][1]) /\ Header[c][2] \in 1 .. 6
<1> DEFINE n == Len(Shown)
           names == [k \in 1 .. n |-> [d \in 1 .. 6 |-> <<Shown[k], d>>]]
<1>1. n \in Nat /\ \A k \in 1 .. n : Shown[k] \in Sockets
  BY ShownType
<1>2. ASSUME NEW k \in 1 .. n PROVE Monitored(Shown[k])
  <2>1. CASE config.socket = AllSockets
    BY <2>1 DEF Monitored
  <2>2. CASE config.socket # AllSockets
    <3>1. Shown = << >> \/ Shown = << config.socket >>
      BY <2>2 DEF Shown
    <3>2. Shown = << config.socket >> /\ k = 1
      <4>1. Shown # << >>
        BY <1>1
      <4>2. Len(Shown) = 1
        BY <3>1, <4>1
      <4>3. QED
        BY <3>1, <4>1, <4>2
    <3>3. QED
      BY <3>2 DEF Monitored
  <2>3. QED
    BY <2>1, <2>2
<1>3. Len(names) = n /\ Header = Line("Timestamp", names)
  BY <1>1 DEF Header
<1>4. \A k \in 1 .. n, d \in 1 .. 6 : names[k][d] = <<Shown[k], d>>
  OBVIOUS
<1> HIDE DEF n, names
<1>5. /\ Len(Header) = 1 + 6 * n
      /\ \A e \in 2 .. 1 + 6 * n : Header[e] = names[1 + ((e - 2) \div 6)][1 + ((e - 2) % 6)]
  BY <1>1, <1>3 DEF Line
<1>6. c \in 2 .. 1 + 6 * n
  BY <1>5
<1>7. PICK k \in 1 .. n : k = 1 + ((c - 2) \div 6)
  BY <1>1, <1>6, ColumnIndex
<1>8. PICK d \in 1 .. 6 : d = 1 + ((c - 2) % 6)
  BY <1>1, <1>6, ColumnIndex
<1>9. Header[c] = names[k][d]
  BY <1>5, <1>6, <1>7, <1>8
<1>10. Header[c] = <<Shown[k], d>>
  BY <1>4, <1>9
<1>11. Header[c][1] = Shown[k] /\ Header[c][2] = d
  BY <1>10
<1>12. Shown[k] \in Sockets /\ Monitored(Shown[k])
  <2>1. k \in 1 .. Len(Shown)
    BY DEF n
  <2>2. QED
    BY <1>1, <1>2, <2>1 DEF n
<1>13. QED
  BY <1>11, <1>12

LEMMA ReportInit == Init => ReportInv
<1> SUFFICES ASSUME Init PROVE ReportInv
  OBVIOUS
<1>1. TimeInv
  BY DEF Init, TimeInv, RowsCoverInterval
<1>2. QED
  BY <1>1, InitType, CsvInit, InitCount, InitTotal, InitSince DEF ReportInv

LEMMA ReportNext == ReportInv /\ [Next]_vars => ReportInv'
  BY NextType, NextTime, NextCsv, NextCount, NextTotal, NextSince DEF ReportInv

LEMMA ReportCorrect == Spec => []ReportInv
  BY ReportInit, ReportNext, PTL DEF Spec

\* Every access is in the file, under its socket and its kind, for any number of sockets
\* and rows, however the counters move and wherever the session is cut off.
THEOREM TheFileAddsUp == Spec => []FileAddsUp
<1>1. ASSUME ReportInv, csv # << >>, NEW c \in 2 .. Len(csv[1])
      PROVE  LET written == Added([i \in 1 .. Len(rows) |-> Recorded[i][c] * rows[i].elapsed])
                 events  == Columns(Since(csv[1][c][1]))[csv[1][c][2]]
                 covered == Added([i \in 1 .. Len(rows) |-> rows[i].elapsed])
             IN  2 * (written - events * Precision) \in -covered .. covered
  <2>1. PICK n, s, d : n = Len(rows) /\ s = csv[1][c][1] /\ d = csv[1][c][2]
    OBVIOUS
  <2>2. csv[1] = Header
    BY <1>1 DEF ReportInv, CsvInv, LinesInv
  <2>3. s \in Sockets /\ Monitored(s) /\ d \in 1 .. 6
    BY <1>1, <2>1, <2>2, HeaderNames DEF ReportInv
  <2>4. PICK h : h = EventsOf(s, d)
    OBVIOUS
  <2>5. /\ n \in Nat /\ h \in [1 .. n -> Nat]
        /\ Added(h) = Columns(accumulated[s])[d]
        /\ \A i \in 1 .. n : h[i] = Columns(rows[i].events[s])[d]
    BY <1>1, <2>1, <2>3, <2>4, EventsOfColumn DEF EventsOf
  <2>6. Columns(accumulated[s])[d] = Columns(Since(s))[d]
    <3>1. \A k \in Kinds : accumulated[s][k] = Since(s)[k]
      BY <1>1, <2>3 DEF ReportInv, SinceInv, Since
    <3>2. Columns(accumulated[s]) = Columns(Since(s))
      BY <3>1 DEF Columns, Kinds
    <3>3. QED
      BY <3>2
  <2>7. PICK f, g : /\ f = [i \in 1 .. Len(rows) |-> Recorded[i][c] * rows[i].elapsed]
                    /\ g = [i \in 1 .. Len(rows) |-> rows[i].elapsed]
    OBVIOUS
  <2>8. ASSUME NEW i \in 1 .. n
        PROVE  /\ f[i] \in Int /\ g[i] \in Int
               /\ f[i] * 2 <= h[i] * (2 * Precision) + g[i] * 1
               /\ h[i] * (2 * Precision) <= f[i] * 2 + g[i] * 1
    <3>1. PICK e, el : e = h[i] /\ el = rows[i].elapsed
      OBVIOUS
    <3>2. e \in Nat /\ el \in Nat \ {0}
      BY <1>1, <2>1, <2>5, <3>1, RowFacts
    <3>3. Recorded[i][c] = toBW(e, el)
      <4>1. Recorded[i] = csv[i + 1]
        BY <1>1, <2>1, RecordedLines DEF ReportInv
      <4>2. csv[i + 1] = LineOf(csv[i + 1][1], rows[i])
        BY <1>1, <2>1 DEF ReportInv, CsvInv, LinesInv
      <4>3. PICK first, row : first = csv[i + 1][1] /\ row = rows[i]
        OBVIOUS
      <4>4. LineOf(first, row)[c] = Throughput(row.events[s], row.elapsed)[d]
        BY <1>1, <2>1, <2>2, LineMatchesHeader DEF ReportInv
      <4>5. Throughput(row.events[s], row.elapsed)[d]
                = toBW(Columns(row.events[s])[d], row.elapsed)
        BY <2>3 DEF Throughput
      <4>6. QED
        BY <2>5, <3>1, <4>1, <4>2, <4>3, <4>4, <4>5
    <3>4. PICK r, x : r = toBW(e, el) /\ x = e * Precision
      OBVIOUS
    <3>5. r \in Nat /\ x \in Nat /\ 2 * (r * el) <= 2 * x + el /\ 2 * x <= 2 * (r * el) + el
      BY <3>2, <3>4, BandwidthIs, BwprofAssumption DEF Rounded
    <3>6. f[i] = r * el /\ g[i] = el
      BY <2>1, <2>7, <3>1, <3>3, <3>4
    <3>7. h[i] * (2 * Precision) = 2 * x
      BY <3>1, <3>2, <3>4, BwprofAssumption
    <3>8. PICK y \in Nat : y = r * el
      BY <3>2, <3>5
    <3>9. QED
      BY <3>2, <3>5, <3>6, <3>7, <3>8
  <2>9. f \in [1 .. n -> Int] /\ g \in [1 .. n -> Int] /\ h \in [1 .. n -> Int]
    BY <2>1, <2>5, <2>7, <2>8
  <2>10. 1 \in Int /\ 2 \in Int /\ 2 * Precision \in Int /\ Precision \in Int
    BY BwprofAssumption
  <2>11. Added(f) * 2 <= Added(h) * (2 * Precision) + Added(g) * 1
    BY <2>5, <2>8, <2>9, <2>10, AddedOrder
  <2>12. Added(h) * (2 * Precision) <= Added(f) * 2 + Added(g) * 1
    BY <2>5, <2>8, <2>9, <2>10, AddedOrder
  <2>13. PICK w, v, q : w = Added(f) /\ v = Added(g) /\ q = Added(h)
    OBVIOUS
  <2>14. w \in Int /\ v \in Int /\ q \in Int
    BY <2>5, <2>9, <2>13, AddedType
  <2>15. PICK x \in Int : x = q * Precision
    BY <2>10, <2>14
  <2>16. q * (2 * Precision) = 2 * x
    BY <2>10, <2>14, <2>15
  <2>17. 2 * (w - x) \in -v .. v
    <3>1. w * 2 <= 2 * x + v * 1 /\ 2 * x <= w * 2 + v * 1
      BY <2>11, <2>12, <2>13, <2>16
    <3>2. QED
      BY <2>14, <3>1
  <2>18. Columns(Since(csv[1][c][1]))[csv[1][c][2]] = q
    BY <2>1, <2>5, <2>6, <2>13
  <2>19. QED
    BY <2>7, <2>13, <2>15, <2>17, <2>18
<1>2. ReportInv => FileAddsUp
  BY <1>1 DEF FileAddsUp
<1>3. QED
  BY <1>2, ReportCorrect, PTL

-----------------------------------------------------------------------------
(* What bwprof report makes of a session of all sockets.                   *)
\* The columns it looks at for a socket are those of the socket.
AtItsPlace(first, row, skt) ==
    \A c \in 1 .. 6 :
        LineOf(first, row)[1 + skt * 6 + c] = Throughput(row.events[skt], row.elapsed)[c]

LEMMA ColumnsOfSocket ==
    ASSUME TypeOK, config.socket = AllSockets, NEW first, NEW row, NEW skt \in Sockets
    PROVE  Len(LineOf(first, row)) = 1 + 6 * NumSockets /\ AtItsPlace(first, row, skt)
<1> SUFFICES ASSUME NEW c \in 1 .. 6
             PROVE  /\ Len(LineOf(first, row)) = 1 + 6 * NumSockets
                    /\ LineOf(first, row)[1 + skt * 6 + c]
                           = Throughput(row.events[skt], row.elapsed)[c]
  BY DEF AtItsPlace
<1>1. NumSockets \in Nat /\ skt \in 0 .. NumSockets - 1
  BY BwprofAssumption DEF Sockets
<1>2. Shown = [i \in 1 .. NumSockets |-> i - 1]
  BY DEF Shown
<1>3. Len(Shown) = NumSockets
  BY <1>1, <1>2
<1> DEFINE values == [k \in 1 .. NumSockets |-> Throughput(row.events[Shown[k]], row.elapsed)]
           col == 1 + skt * 6 + c
<1>4. LineOf(first, row) = Line(first, values) /\ Len(values) = NumSockets
  BY <1>1, <1>3 DEF LineOf
<1>5. /\ col \in 1 .. 1 + 6 * NumSockets /\ col # 1
      /\ 1 + ((col - 2) \div 6) = skt + 1 /\ 1 + ((col - 2) % 6) = c
  <2>1. col - 2 = 6 * skt + (c - 1) /\ c - 1 \in 0 .. 5 /\ skt \in Nat
    BY <1>1
  <2>2. (col - 2) \div 6 = skt /\ (col - 2) % 6 = c - 1
    BY <2>1
  <2>3. QED
    BY <1>1, <2>1, <2>2
<1>6. values[skt + 1] = Throughput(row.events[skt], row.elapsed)
  <2>1. skt + 1 \in 1 .. NumSockets /\ Shown[skt + 1] = skt
    BY <1>1, <1>2
  <2>2. QED
    BY <2>1
<1> HIDE DEF values, col
<1>7. /\ Len(Line(first, values)) = 1 + 6 * NumSockets
      /\ Line(first, values)[col] = values[skt + 1][c]
  BY <1>1, <1>4, <1>5 DEF Line
<1>8. QED
  BY <1>4, <1>6, <1>7 DEF col

\* The sum of a column is that of the bandwidths of its events, row by row.
LEMMA SumOfColumn ==
    ASSUME ReportInv, config.socket = AllSockets, Recorded # << >>,
           NEW skt \in Sockets, NEW c \in 1 .. 6
    PROVE  \E n \in Nat : \E f, h \in [1 .. n -> Nat] :
              /\ n = Len(rows) /\ n = Len(Recorded) /\ h = EventsOf(skt, c)
              /\ \A i \in 1 .. n : f[i] = toBW(h[i], rows[i].elapsed)
              /\ Sum(1 + skt * 6 + c) = Added(f)
<1>1. PICK n, h : n = Len(rows) /\ h = EventsOf(skt, c)
  OBVIOUS
<1>2. n \in Nat /\ h \in [1 .. n -> Nat]
  BY <1>1, EventsOfColumn
<1>3. csv # << >> /\ Len(Recorded) = n /\ \A i \in 1 .. n : Recorded[i] = csv[i + 1]
  BY <1>1, RecordedLines DEF ReportInv
<1>4. PICK d : d = 1 + skt * 6 + c
  OBVIOUS
<1>5. ASSUME NEW i \in 1 .. n
      PROVE  Recorded[i][d] = toBW(h[i], rows[i].elapsed) /\ Recorded[i][d] \in Nat
  <2>1. Recorded[i] = LineOf(csv[i + 1][1], rows[i])
    BY <1>1, <1>3 DEF ReportInv, CsvInv, LinesInv
  <2>2. PICK first, row : first = csv[i + 1][1] /\ row = rows[i]
    OBVIOUS
  <2>3. AtItsPlace(first, row, skt)
    BY ColumnsOfSocket DEF ReportInv
  <2>4. LineOf(first, row)[1 + skt * 6 + c] = Throughput(row.events[skt], row.elapsed)[c]
    BY <2>3 DEF AtItsPlace
  <2>5. Throughput(row.events[skt], row.elapsed)[c]
            = toBW(Columns(row.events[skt])[c], row.elapsed)
    BY DEF Throughput
  <2>6. h[i] = Columns(row.events[skt])[c]
    BY <1>1, <2>2 DEF EventsOf
  <2>7. Recorded[i][d] = toBW(h[i], rows[i].elapsed)
    BY <1>4, <2>1, <2>2, <2>4, <2>5, <2>6, Zenon
  <2>8. h[i] \in Nat /\ rows[i].elapsed \in Nat \ {0}
    BY <1>1, <1>2, RowFacts
  <2>9. toBW(h[i], rows[i].elapsed) \in Nat
    BY <2>8, BandwidthIs DEF Rounded
  <2>10. QED
    BY <2>7, <2>9
<1>6. PICK f : f = [i \in 1 .. Len(Recorded) |-> Recorded[i][d]]
  OBVIOUS
<1>7. f \in [1 .. n -> Nat] /\ \A i \in 1 .. n : f[i] = toBW(h[i], rows[i].elapsed)
  BY <1>3, <1>5, <1>6
<1>8. Sum(1 + skt * 6 + c) = Added(f)
  BY <1>4, <1>6 DEF Sum
<1>9. QED
  BY <1>1, <1>2, <1>3, <1>7, <1>8

\* A column adds up to a number of units, and to no more than its events are worth if
\* every row covered one interval, apart from the rounding.
LEMMA ColumnIsBounded ==
    ASSUME ReportInv, config.socket = AllSockets, Recorded # << >>,
           NEW skt \in Sockets, NEW c \in 1 .. 6
    PROVE  /\ Len(Recorded) \in Nat
           /\ Sum(1 + skt * 6 + c) \in Nat /\ Columns(accumulated[skt])[c] \in Nat
           /\ Sum(1 + skt * 6 + c) * (2 * config.interval)
                  <= Columns(accumulated[skt])[c] * (2 * Precision)
                         + Len(Recorded) * config.interval
<1>1. PICK n \in Nat : \E f, h \in [1 .. n -> Nat] :
              /\ n = Len(rows) /\ n = Len(Recorded) /\ h = EventsOf(skt, c)
              /\ \A i \in 1 .. n : f[i] = toBW(h[i], rows[i].elapsed)
              /\ Sum(1 + skt * 6 + c) = Added(f)
  BY SumOfColumn
<1>2. PICK f, h \in [1 .. n -> Nat] :
              /\ n = Len(rows) /\ n = Len(Recorded) /\ h = EventsOf(skt, c)
              /\ \A i \in 1 .. n : f[i] = toBW(h[i], rows[i].elapsed)
              /\ Sum(1 + skt * 6 + c) = Added(f)
  BY <1>1
<1>3. PICK a, b, g : a = 2 * config.interval /\ b = 2 * Precision /\ g = [i \in 1 .. n |-> 1]
  OBVIOUS
<1>4. config.interval \in Nat \ {0} /\ Precision \in Nat
  BY BwprofAssumption DEF ReportInv, TypeOK, Config
<1>5. a \in Int /\ b \in Int /\ config.interval \in Int /\ g \in [1 .. n -> Int]
  BY <1>3, <1>4
<1>6. ASSUME NEW i \in 1 .. n PROVE f[i] * a <= h[i] * b + g[i] * config.interval
  <2>1. h[i] \in Nat /\ rows[i].elapsed \in Nat \ {0} /\ rows[i].elapsed >= config.interval
    BY <1>2, RowFacts
  <2>2. toBW(h[i], rows[i].elapsed) * (2 * config.interval)
            <= h[i] * (2 * Precision) + config.interval
    BY <1>4, <2>1, BandwidthBound
  <2>3. g[i] = 1
    BY <1>3
  <2>4. QED
    BY <1>2, <1>3, <1>4, <2>2, <2>3
<1>7. f \in [1 .. n -> Int] /\ h \in [1 .. n -> Int]
  OBVIOUS
<1>8. Added(f) * a <= Added(h) * b + Added(g) * config.interval
  BY <1>5, <1>6, <1>7, AddedOrder
<1>9. Added(g) = n
  BY <1>3, AddedOnes
<1>10. Added(h) = Columns(accumulated[skt])[c]
  BY <1>2, EventsOfColumn
<1>11. Added(f) \in Nat /\ Added(h) \in Nat
  BY <1>2, AddedNat
<1>12. QED
  BY <1>2, <1>3, <1>8, <1>9, <1>10, <1>11

\* A ratio does not change with the unit of its sizes.
LEMMA RatioOfMultiples ==
    ASSUME NEW a \in Nat, NEW b \in Nat, NEW m \in Nat \ {0}
    PROVE  calculateRatio(a * m, b * m) = calculateRatio(a, b)
<1>1. CASE b = 0
  BY <1>1 DEF calculateRatio
<1>2. CASE b # 0
  <2> DEFINE x == 100 * a
             d == x \div b
  <2>1. x \in Nat /\ b * m \in Nat \ {0}
    BY <1>2
  <2>2. 100 * (a * m) = x * m
    OBVIOUS
  <2> HIDE DEF x
  <2>3. d \in Nat /\ d * b <= x /\ x < (d + 1) * b
    BY <1>2, <2>1
  <2> HIDE DEF d
  <2>4. d * (b * m) <= x * m /\ x * m < (d + 1) * (b * m)
    BY <1>2, <2>1, <2>3
  <2>5. \A y \in Nat, z \in Nat \ {0} : d * z <= y /\ y < (d + 1) * z => y \div z = d
    BY <2>3
  <2>6. (x * m) \div (b * m) = d
    BY <2>1, <2>4, <2>5
  <2>7. QED
    BY <1>2, <2>1, <2>2, <2>6 DEF calculateRatio, x, d
<1>3. QED
  BY <1>1, <1>2

LEMMA ReportedSockets ==
    ASSUME ReportInv, config.socket = AllSockets, Recorded # << >>
    PROVE  Reported = Sockets
<1>1. PICK S : csv \in Seq(S)
  BY DEF ReportInv, CsvInv, LinesInv, IsSequence
<1>2. /\ csv # << >> /\ Len(Recorded) = Len(rows) /\ Len(rows) \in Nat
      /\ \A i \in 1 .. Len(rows) : Recorded[i] = csv[i + 1]
  BY RecordedLines DEF ReportInv
<1>3. Recorded \in Seq(S)
  BY <1>1, <1>2 DEF Recorded
<1>4. 1 \in 1 .. Len(rows)
  BY <1>2, <1>3
<1>5. Recorded[1] = LineOf(csv[1 + 1][1], rows[1])
  BY <1>2, <1>4 DEF ReportInv, CsvInv, LinesInv
<1>6. PICK first, row : first = csv[1 + 1][1] /\ row = rows[1]
  OBVIOUS
<1>7. NumSockets \in Nat
  BY BwprofAssumption
<1>8. CASE NumSockets = 0
  <2>1. Len(LineOf(first, row)) = 1
    <3>1. Len(Shown) = 0
      BY <1>8 DEF Shown
    <3>2. QED
      BY <3>1 DEF LineOf, Line
  <2>2. Reported = 0 .. (1 - 1) \div 6 - 1
    BY <1>5, <1>6, <2>1 DEF Reported
  <2>3. (1 - 1) \div 6 = 0
    OBVIOUS
  <2>4. QED
    BY <1>8, <2>2, <2>3 DEF Sockets
<1>9. CASE NumSockets # 0
  <2>1. 0 \in Sockets /\ TypeOK
    BY <1>7, <1>9 DEF Sockets, ReportInv
  <2>2. Len(LineOf(first, row)) = 1 + 6 * NumSockets
    BY <2>1, ColumnsOfSocket
  <2>3. ((1 + 6 * NumSockets) - 1) \div 6 = NumSockets
    BY <1>7
  <2>4. QED
    BY <1>5, <1>6, <2>2, <2>3 DEF Reported, Sockets
<1>10. QED
  BY <1>8, <1>9

LEMMA SizesAre ==
    ASSUME NEW skt \in Sockets
    PROVE  Sizes(skt) = << Sum(1 + skt * 6 + 1), Sum(1 + skt * 6 + 2),
                           Sum(1 + skt * 6 + 1) + Sum(1 + skt * 6 + 2),
                           Sum(1 + skt * 6 + 4), Sum(1 + skt * 6 + 5),
                           Sum(1 + skt * 6 + 4) + Sum(1 + skt * 6 + 5) >>
<1>1. skt \in Int
  BY BwprofAssumption DEF Sockets
<1>2. /\ 1 + skt * 6 + 1 = 2 + skt * 6 /\ 1 + skt * 6 + 2 = (2 + skt * 6) + 1
      /\ 1 + skt * 6 + 4 = (2 + skt * 6) + 3 /\ 1 + skt * 6 + 5 = (2 + skt * 6) + 4
  BY <1>1
<1>3. QED
  BY <1>2, Zenon DEF Sizes

\* Whatever the sleeps, and wherever the session is cut off, the report shows no more
\* than there was but for the rounding of each row, for any number of sockets and rows:
\* dividing by more than the interval only makes a bandwidth smaller.
THEOREM NothingIsOverstated == Spec => []ReportNeverOverstates
<1>1. ASSUME ReportInv PROVE ReportNeverOverstates
  <2> DEFINE more(c) == (IF c \in {3, 6} THEN 2 ELSE 1) * Len(Recorded)
  <2> SUFFICES ASSUME config.socket = AllSockets, NEW s \in Reported, NEW c \in 1 .. 6
               PROVE  2 * Report[s].sz[c] * config.interval
                          <= 2 * Shows(s).sz[c] * Precision + more(c) * config.interval
    BY DEF ReportNeverOverstates
  <2>1. Recorded # << >> /\ s \in Sockets
    <3>1. Recorded # << >>
      BY DEF Reported
    <3>2. QED
      BY <1>1, <3>1, ReportedSockets
  <2>2. Report[s].sz = Sizes(s) /\ Shows(s).sz = Columns(accumulated[s])
    BY DEF Report, Shows
  <2>3. PICK i, p, n : i = config.interval /\ p = Precision /\ n = Len(Recorded)
    OBVIOUS
  <2>4. i \in Nat /\ p \in Nat /\ n \in Nat
    <3>1. 1 \in 1 .. 6
      OBVIOUS
    <3>2. QED
      BY <1>1, <2>1, <2>3, <3>1, ColumnIsBounded, BwprofAssumption DEF ReportInv, TypeOK, Config
  <2>5. \A d \in 1 .. 6 :
            /\ Sum(1 + s * 6 + d) \in Nat /\ Columns(accumulated[s])[d] \in Nat
            /\ Sum(1 + s * 6 + d) * (2 * i) <= Columns(accumulated[s])[d] * (2 * p) + n * i
    BY <1>1, <2>1, <2>3, ColumnIsBounded
  <2>6. PICK x1, x2, x4, x5 : /\ x1 = Sum(1 + s * 6 + 1) /\ x2 = Sum(1 + s * 6 + 2)
                              /\ x4 = Sum(1 + s * 6 + 4) /\ x5 = Sum(1 + s * 6 + 5)
    OBVIOUS
  <2>7. PICK a1, a2, a4, a5 : /\ a1 = accumulated[s]["reads"] /\ a2 = accumulated[s]["writes"]
                              /\ a4 = accumulated[s]["cxl_reads"]
                              /\ a5 = accumulated[s]["cxl_writes"]
    OBVIOUS
  <2>8. /\ x1 \in Nat /\ a1 \in Nat /\ x1 * (2 * i) <= a1 * (2 * p) + n * i
        /\ x2 \in Nat /\ a2 \in Nat /\ x2 * (2 * i) <= a2 * (2 * p) + n * i
        /\ x4 \in Nat /\ a4 \in Nat /\ x4 * (2 * i) <= a4 * (2 * p) + n * i
        /\ x5 \in Nat /\ a5 \in Nat /\ x5 * (2 * i) <= a5 * (2 * p) + n * i
    <3>1. /\ a1 = Columns(accumulated[s])[1] /\ a2 = Columns(accumulated[s])[2]
          /\ a4 = Columns(accumulated[s])[4] /\ a5 = Columns(accumulated[s])[5]
      BY <2>7, ColumnsOf
    <3>2. 1 \in 1 .. 6 /\ 2 \in 1 .. 6 /\ 4 \in 1 .. 6 /\ 5 \in 1 .. 6
      OBVIOUS
    <3>3. QED
      BY <2>5, <2>6, <3>1, <3>2, Zenon
  <2>9. \A x, a \in Nat : x * (2 * i) <= a * (2 * p) + n * i
                             => 2 * x * i <= 2 * a * p + (1 * n) * i
    BY <2>4
  <2>10. \A x, y, a, b \in Nat :
             x * (2 * i) <= a * (2 * p) + n * i /\ y * (2 * i) <= b * (2 * p) + n * i
                 => 2 * (x + y) * i <= 2 * (a + b) * p + (2 * n) * i
    BY <2>4
  <2>11. /\ Report[s].sz = << x1, x2, x1 + x2, x4, x5, x4 + x5 >>
         /\ Shows(s).sz = << a1, a2, a1 + a2, a4, a5, a4 + a5 >>
    BY <2>1, <2>2, <2>6, <2>7, SizesAre DEF Columns
  <2>12. /\ 2 * x1 * i <= 2 * a1 * p + (1 * n) * i /\ 2 * x2 * i <= 2 * a2 * p + (1 * n) * i
         /\ 2 * x4 * i <= 2 * a4 * p + (1 * n) * i /\ 2 * x5 * i <= 2 * a5 * p + (1 * n) * i
    BY <2>8, <2>9
  <2>13. /\ 2 * (x1 + x2) * i <= 2 * (a1 + a2) * p + (2 * n) * i
         /\ 2 * (x4 + x5) * i <= 2 * (a4 + a5) * p + (2 * n) * i
    BY <2>8, <2>10
  <2>14. 2 * Report[s].sz[c] * i <= 2 * Shows(s).sz[c] * p + more(c) * i
    <3>1. c \in {1, 2, 3, 4, 5, 6}
      OBVIOUS
    <3>2. /\ Report[s].sz[1] = x1 /\ Report[s].sz[2] = x2 /\ Report[s].sz[3] = x1 + x2
          /\ Report[s].sz[4] = x4 /\ Report[s].sz[5] = x5 /\ Report[s].sz[6] = x4 + x5
          /\ Shows(s).sz[1] = a1 /\ Shows(s).sz[2] = a2 /\ Shows(s).sz[3] = a1 + a2
          /\ Shows(s).sz[4] = a4 /\ Shows(s).sz[5] = a5 /\ Shows(s).sz[6] = a4 + a5
      BY <2>11
    <3>3. /\ more(1) = 1 * n /\ more(2) = 1 * n /\ more(3) = 2 * n
          /\ more(4) = 1 * n /\ more(5) = 1 * n /\ more(6) = 2 * n
      BY <2>3
    <3> HIDE DEF more
    <3>4. QED
      BY <2>12, <2>13, <3>1, <3>2, <3>3
  <2>15. QED
    BY <2>3, <2>14
<1>2. QED
  BY <1>1, ReportCorrect, PTL

\* The bandwidths of a kind of access that need no rounding add up exactly.
LEMMA ColumnIsExact ==
    ASSUME ReportInv, Regular, Recorded # << >>, NEW skt \in Sockets, NEW c \in {1, 2, 4, 5}
    PROVE  Sum(1 + skt * 6 + c) * config.interval = Columns(accumulated[skt])[c] * Precision
<1>0. c \in 1 .. 6 /\ config.socket = AllSockets
  BY DEF Regular
<1>1. PICK n \in Nat : \E f, h \in [1 .. n -> Nat] :
              /\ n = Len(rows) /\ n = Len(Recorded) /\ h = EventsOf(skt, c)
              /\ \A i \in 1 .. n : f[i] = toBW(h[i], rows[i].elapsed)
              /\ Sum(1 + skt * 6 + c) = Added(f)
  BY <1>0, SumOfColumn
<1>2. PICK f, h \in [1 .. n -> Nat] :
              /\ n = Len(rows) /\ n = Len(Recorded) /\ h = EventsOf(skt, c)
              /\ \A i \in 1 .. n : f[i] = toBW(h[i], rows[i].elapsed)
              /\ Sum(1 + skt * 6 + c) = Added(f)
  BY <1>1
<1>3. PICK k \in Kinds : \A d : Columns(d)[c] = d[k]
  <2>1. /\ "reads" \in Kinds /\ "writes" \in Kinds
        /\ "cxl_reads" \in Kinds /\ "cxl_writes" \in Kinds
    BY DEF Kinds
  <2>2. CASE c = 1
    BY <2>1, <2>2, ColumnsOf
  <2>3. CASE c = 2
    BY <2>1, <2>3, ColumnsOf
  <2>4. CASE c = 4
    BY <2>1, <2>4, ColumnsOf
  <2>5. CASE c = 5
    BY <2>1, <2>5, ColumnsOf
  <2>6. QED
    BY <2>2, <2>3, <2>4, <2>5
<1>4. PICK a, b : a = config.interval /\ b = Precision
  OBVIOUS
<1>5. a \in Nat \ {0} /\ b \in Nat
  BY <1>4, BwprofAssumption DEF ReportInv, TypeOK, Config
<1>6. ASSUME NEW i \in 1 .. n PROVE f[i] * a = h[i] * b
  <2>1. h[i] = rows[i].events[skt][k] /\ h[i] \in Nat
    BY <1>2, <1>3 DEF EventsOf
  <2>2. rows[i].elapsed = a /\ (rows[i].events[skt][k] * Precision) % rows[i].elapsed = 0
    BY <1>2, <1>3, <1>4 DEF Regular, Exact
  <2>3. (h[i] * Precision) % a = 0
    BY <2>1, <2>2
  <2>4. toBW(h[i], a) * a = h[i] * Precision
    BY <1>5, <2>1, <2>3, BandwidthExact
  <2>5. QED
    BY <1>2, <1>4, <2>2, <2>4
<1>7. /\ f \in [1 .. n -> Int] /\ h \in [1 .. n -> Int] /\ a \in Int /\ b \in Int
      /\ 0 \in Int
  BY <1>5
<1>8. Added(f) * a <= Added(h) * b + Added(h) * 0
  <2>1. \A i \in 1 .. n : f[i] * a <= h[i] * b + h[i] * 0
    <3> SUFFICES ASSUME NEW i \in 1 .. n PROVE f[i] * a <= h[i] * b + h[i] * 0
      OBVIOUS
    <3>1. PICK y \in Int : y = h[i] * b
      BY <1>7
    <3>2. f[i] * a = y /\ h[i] * 0 = 0
      BY <1>6, <3>1
    <3>3. QED
      BY <3>1, <3>2
  <2>2. QED
    BY <1>7, <2>1, AddedOrder
<1>9. Added(h) * b <= Added(f) * a + Added(f) * 0
  <2>1. \A i \in 1 .. n : h[i] * b <= f[i] * a + f[i] * 0
    <3> SUFFICES ASSUME NEW i \in 1 .. n PROVE h[i] * b <= f[i] * a + f[i] * 0
      OBVIOUS
    <3>1. PICK y \in Int : y = h[i] * b
      BY <1>7
    <3>2. f[i] * a = y /\ f[i] * 0 = 0
      BY <1>6, <3>1
    <3>3. QED
      BY <3>1, <3>2
  <2>2. QED
    BY <1>7, <2>1, AddedOrder
<1>10. PICK u, v : u = Added(f) /\ v = Added(h)
  OBVIOUS
<1>11. u \in Int /\ v \in Int
  BY <1>7, <1>10, AddedType
<1>12. PICK x, y \in Int : x = u * a /\ y = v * b
  BY <1>7, <1>11
<1>13. x = y
  BY <1>8, <1>9, <1>10, <1>11, <1>12
<1>14. v = Columns(accumulated[skt])[c]
  BY <1>0, <1>2, <1>10, EventsOfColumn
<1>15. QED
  BY <1>2, <1>4, <1>10, <1>12, <1>13, <1>14

\* Sizes that are all multiplied by the same number have the same ratios.
Multiples(x, y, m) ==
    \E a1, a2, a4, a5 \in Nat :
        /\ x = << a1 * m, a2 * m, (a1 + a2) * m, a4 * m, a5 * m, (a4 + a5) * m >>
        /\ y = << a1, a2, a1 + a2, a4, a5, a4 + a5 >>

LEMMA RatiosOfMultiples ==
    ASSUME NEW m \in Nat \ {0}, NEW x, NEW y, Multiples(x, y, m)
    PROVE  Ratios(x) = Ratios(y)
<1>0. PICK a1, a2, a4, a5 \in Nat :
        /\ x = << a1 * m, a2 * m, (a1 + a2) * m, a4 * m, a5 * m, (a4 + a5) * m >>
        /\ y = << a1, a2, a1 + a2, a4, a5, a4 + a5 >>
  BY DEF Multiples
<1>1. PICK a3, a6 \in Nat : a3 = a1 + a2 /\ a6 = a4 + a5
  OBVIOUS
<1>2. \A b, d \in Nat : calculateRatio(b * m, d * m) = calculateRatio(b, d)
  BY RatioOfMultiples
<1>3. a3 + a6 \in Nat /\ a3 * m + a6 * m = (a3 + a6) * m
  OBVIOUS
<1>4. Ratios(<< a1 * m, a2 * m, a3 * m, a4 * m, a5 * m, a6 * m >>)
          = << calculateRatio(a1 * m, a3 * m), calculateRatio(a2 * m, a3 * m),
               calculateRatio(a4 * m, a6 * m), calculateRatio(a5 * m, a6 * m),
               calculateRatio(a3 * m, a3 * m + a6 * m), calculateRatio(a6 * m, a3 * m + a6 * m) >>
  BY DEF Ratios
<1>5. Ratios(<< a1, a2, a3, a4, a5, a6 >>)
          = << calculateRatio(a1, a3), calculateRatio(a2, a3),
               calculateRatio(a4, a6), calculateRatio(a5, a6),
               calculateRatio(a3, a3 + a6), calculateRatio(a6, a3 + a6) >>
  BY DEF Ratios
<1>6. /\ calculateRatio(a1 * m, a3 * m) = calculateRatio(a1, a3)
      /\ calculateRatio(a2 * m, a3 * m) = calculateRatio(a2, a3)
      /\ calculateRatio(a4 * m, a6 * m) = calculateRatio(a4, a6)
      /\ calculateRatio(a5 * m, a6 * m) = calculateRatio(a5, a6)
      /\ calculateRatio(a3 * m, (a3 + a6) * m) = calculateRatio(a3, a3 + a6)
      /\ calculateRatio(a6 * m, (a3 + a6) * m) = calculateRatio(a6, a3 + a6)
  BY <1>2, <1>3
<1>7. QED
  BY <1>0, <1>1, <1>3, <1>4, <1>5, <1>6

\* A size in one unit and the same size in another.
Worth(x, a, y, b) == x \in Nat /\ y \in Nat /\ x * a = y * b

\* Sizes in two units have the same ratios.
LEMMA RatiosInUnits ==
    ASSUME NEW a \in Nat \ {0}, NEW b \in Nat \ {0},
           NEW x1, NEW x2, NEW x4, NEW x5, NEW y1, NEW y2, NEW y4, NEW y5,
           Worth(x1, a, y1, b), Worth(x2, a, y2, b), Worth(x4, a, y4, b), Worth(x5, a, y5, b)
    PROVE  /\ Worth(x1 + x2, a, y1 + y2, b) /\ Worth(x4 + x5, a, y4 + y5, b)
           /\ Ratios(<< x1, x2, x1 + x2, x4, x5, x4 + x5 >>)
                 = Ratios(<< y1, y2, y1 + y2, y4, y5, y4 + y5 >>)
<1>0. /\ x1 \in Nat /\ x2 \in Nat /\ x4 \in Nat /\ x5 \in Nat
      /\ y1 \in Nat /\ y2 \in Nat /\ y4 \in Nat /\ y5 \in Nat
  BY DEF Worth
<1>1. PICK z1, z2, z4, z5 \in Nat : z1 = x1 * a /\ z2 = x2 * a /\ z4 = x4 * a /\ z5 = x5 * a
  BY <1>0
<1>2. z1 = y1 * b /\ z2 = y2 * b /\ z4 = y4 * b /\ z5 = y5 * b
  BY <1>1 DEF Worth
<1>3. (x1 + x2) * a = z1 + z2 /\ (x4 + x5) * a = z4 + z5
  BY <1>0, <1>1
<1>4. (y1 + y2) * b = z1 + z2 /\ (y4 + y5) * b = z4 + z5
  BY <1>0, <1>2
<1>5. PICK z : z = << z1, z2, z1 + z2, z4, z5, z4 + z5 >>
  OBVIOUS
<1>6. PICK x, y : /\ x = << x1, x2, x1 + x2, x4, x5, x4 + x5 >>
                  /\ y = << y1, y2, y1 + y2, y4, y5, y4 + y5 >>
  OBVIOUS
<1>7. Multiples(z, x, a)
  BY <1>0, <1>1, <1>3, <1>5, <1>6 DEF Multiples
<1>8. Multiples(z, y, b)
  BY <1>0, <1>2, <1>4, <1>5, <1>6 DEF Multiples
<1>9. Ratios(z) = Ratios(x) /\ Ratios(z) = Ratios(y)
  BY <1>7, <1>8, RatiosOfMultiples
<1>10. Worth(x1 + x2, a, y1 + y2, b) /\ Worth(x4 + x5, a, y4 + y5, b)
  BY <1>0, <1>3, <1>4 DEF Worth
<1>11. QED
  BY <1>6, <1>9, <1>10

\* What does hold of the report of a session whose sleeps were never overrun and whose
\* bandwidths need no rounding: every socket is there under its own number, the sizes of
\* all sockets and kinds are wrong by one and the same factor, and so the ratios are
\* right, for any number of rows.
THEOREM ProportionsAreKept == Spec => []ReportKeepsProportions
<1>1. ASSUME ReportInv PROVE ReportKeepsProportions
  <2> SUFFICES ASSUME Regular, Recorded # << >>
               PROVE  /\ DOMAIN Report = Sockets
                      /\ \A s \in Sockets :
                            /\ Report[s].ratio = Shows(s).ratio
                            /\ \A c \in 1 .. 6 :
                                  Report[s].sz[c] * config.interval = Shows(s).sz[c] * Precision
    BY DEF ReportKeepsProportions
  <2>1. config.socket = AllSockets
    BY DEF Regular
  <2>2. Reported = Sockets
    BY <1>1, <2>1, ReportedSockets
  <2>3. PICK i, p : i = config.interval /\ p = Precision
    OBVIOUS
  <2>4. i \in Nat \ {0} /\ p \in Nat \ {0}
    BY <1>1, <2>3, BwprofAssumption DEF ReportInv, TypeOK, Config
  <2>5. ASSUME NEW s \in Sockets
        PROVE  /\ Report[s].ratio = Shows(s).ratio
               /\ \A c \in 1 .. 6 : Report[s].sz[c] * i = Shows(s).sz[c] * p
    <3>1. /\ Report[s].sz = Sizes(s) /\ Report[s].ratio = Ratios(Sizes(s))
          /\ Shows(s).sz = Columns(accumulated[s])
          /\ Shows(s).ratio = Ratios(Columns(accumulated[s]))
      BY <2>2 DEF Report, Shows
    <3>2. ASSUME NEW d \in {1, 2, 4, 5}
          PROVE  Worth(Sum(1 + s * 6 + d), i, Columns(accumulated[s])[d], p)
      <4>1. Sum(1 + s * 6 + d) \in Nat /\ Columns(accumulated[s])[d] \in Nat
        <5>1. d \in 1 .. 6
          OBVIOUS
        <5>2. QED
          BY <1>1, <2>1, <5>1, ColumnIsBounded
      <4>2. Sum(1 + s * 6 + d) * i = Columns(accumulated[s])[d] * p
        BY <1>1, <2>3, ColumnIsExact
      <4>3. QED
        BY <4>1, <4>2 DEF Worth
    <3>3. PICK a1, a2, a4, a5 : /\ a1 = accumulated[s]["reads"]
                                /\ a2 = accumulated[s]["writes"]
                                /\ a4 = accumulated[s]["cxl_reads"]
                                /\ a5 = accumulated[s]["cxl_writes"]
      OBVIOUS
    <3>4. PICK x1, x2, x4, x5 : /\ x1 = Sum(1 + s * 6 + 1) /\ x2 = Sum(1 + s * 6 + 2)
                                /\ x4 = Sum(1 + s * 6 + 4) /\ x5 = Sum(1 + s * 6 + 5)
      OBVIOUS
    <3>5. Worth(x1, i, a1, p) /\ Worth(x2, i, a2, p) /\ Worth(x4, i, a4, p) /\ Worth(x5, i, a5, p)
      BY <3>2, <3>3, <3>4, ColumnsOf
    <3>6. PICK x, y : /\ x = << x1, x2, x1 + x2, x4, x5, x4 + x5 >>
                      /\ y = << a1, a2, a1 + a2, a4, a5, a4 + a5 >>
      OBVIOUS
    <3>7. Sizes(s) = x /\ Columns(accumulated[s]) = y
      BY <3>3, <3>4, <3>6, SizesAre DEF Columns
    <3>8. /\ Worth(x1 + x2, i, a1 + a2, p) /\ Worth(x4 + x5, i, a4 + a5, p)
          /\ Ratios(x) = Ratios(y)
      BY <2>4, <3>5, <3>6, RatiosInUnits
    <3>9. ASSUME NEW c \in 1 .. 6 PROVE x[c] * i = y[c] * p
      <4>1. c \in {1, 2, 3, 4, 5, 6}
        OBVIOUS
      <4>2. /\ x[1] = x1 /\ x[2] = x2 /\ x[3] = x1 + x2
            /\ x[4] = x4 /\ x[5] = x5 /\ x[6] = x4 + x5
            /\ y[1] = a1 /\ y[2] = a2 /\ y[3] = a1 + a2
            /\ y[4] = a4 /\ y[5] = a5 /\ y[6] = a4 + a5
        BY <3>6
      <4>3. QED
        BY <3>5, <3>8, <4>1, <4>2 DEF Worth
    <3>10. QED
      BY <3>1, <3>7, <3>8, <3>9
  <2>6. DOMAIN Report = Sockets
    BY <2>2 DEF Report
  <2>7. QED
    BY <2>3, <2>5, <2>6
<1>2. QED
  BY <1>1, ReportCorrect, PTL

-----------------------------------------------------------------------------
(* What bwprof info reads of info.txt: printInfo() is a fold over its lines. *)
InfoStates == [lines : Nat, own : SUBSET (InfoKeys \cup {"other"})]

NoneRead == [lines |-> 0, own |-> {}]

Reading(its, n) == [x \in InfoStates \X (1 .. n) |-> ReadLine(x[1], its[x[2]])]

ReadAll(its) == FoldLeft(ReadLine, NoneRead, its)

\* its has a line for each number up to n.
ItemsIn(its, n) == n \in Nat /\ DOMAIN its = 1 .. n /\ \A i \in 1 .. n : its[i] \in InfoItem

\* What a line does: it is taken into the group that is open, it opens one, or it is
\* taken for itself if it is one of the keys that stand alone.
LEMMA ReadFacts ==
    ASSUME NEW st \in InfoStates, NEW item \in InfoItem
    PROVE  /\ ReadLine(st, item) \in InfoStates
           /\ \A key \in st.own : key = item.key \/ key \in ReadLine(st, item).own
           /\ item.own => st.own \subseteq ReadLine(st, item).own
           /\ st.lines > 0 => /\ ReadLine(st, item).lines = st.lines - 1
                              /\ item.own => item.key \in ReadLine(st, item).own
           /\ st.lines = 0 /\ item.key \in {"cpuinfo", "osinfo"} =>
                  ReadLine(st, item).lines = item.lines
           /\ st.lines = 0 /\ item.key \notin {"cpuinfo", "osinfo"} =>
                  /\ ReadLine(st, item).lines = 0
                  /\ item.own /\ item.key \in TopKeys => item.key \in ReadLine(st, item).own
<1>1. st.lines \in Nat /\ st.own \in SUBSET (InfoKeys \cup {"other"})
  BY DEF InfoStates
<1>2. item.key \in InfoKeys \cup {"other"} /\ item.lines \in Nat /\ item.own \in BOOLEAN
  BY DEF InfoItem
<1>3. /\ Stored(st.own, item) \in SUBSET (InfoKeys \cup {"other"})
      /\ \A key \in st.own : key = item.key \/ key \in Stored(st.own, item)
      /\ item.own => st.own \subseteq Stored(st.own, item) /\ item.key \in Stored(st.own, item)
  BY <1>1, <1>2 DEF Stored
<1>4. CASE st.lines > 0
  <2>1. ReadLine(st, item) = [lines |-> st.lines - 1, own |-> Stored(st.own, item)]
    BY <1>4 DEF ReadLine
  <2>2. st.lines - 1 \in Nat /\ st.lines # 0
    BY <1>1, <1>4
  <2>3. QED
    BY <1>3, <1>4, <2>1, <2>2 DEF InfoStates
<1>5. CASE st.lines = 0 /\ item.key \in {"cpuinfo", "osinfo"}
  <2>1. ReadLine(st, item) = [st EXCEPT !.lines = item.lines]
    BY <1>5 DEF ReadLine
  <2>2. /\ ReadLine(st, item) \in InfoStates /\ ReadLine(st, item).lines = item.lines
        /\ ReadLine(st, item).own = st.own
    BY <1>1, <1>2, <2>1 DEF InfoStates
  <2>3. QED
    BY <1>5, <2>2
<1>6. CASE st.lines = 0 /\ item.key \notin {"cpuinfo", "osinfo"} /\ item.key \in TopKeys
  <2>1. ReadLine(st, item) = [st EXCEPT !.own = Stored(st.own, item)]
    BY <1>6 DEF ReadLine
  <2>2. /\ ReadLine(st, item) \in InfoStates /\ ReadLine(st, item).lines = st.lines
        /\ ReadLine(st, item).own = Stored(st.own, item)
    BY <1>1, <1>3, <2>1 DEF InfoStates
  <2>3. QED
    BY <1>3, <1>6, <2>2
<1>7. CASE st.lines = 0 /\ item.key \notin {"cpuinfo", "osinfo"} /\ item.key \notin TopKeys
  <2>1. ReadLine(st, item) = st
    BY <1>7 DEF ReadLine
  <2>2. QED
    BY <1>7, <2>1
<1>8. st.lines > 0 \/ st.lines = 0
  BY <1>1
<1>9. QED
  BY <1>4, <1>5, <1>6, <1>7, <1>8

LEMMA ReadingType ==
    ASSUME NEW its, NEW n, ItemsIn(its, n)
    PROVE  NoneRead \in InfoStates /\ Reading(its, n) \in Step(InfoStates, n)
<1>1. NoneRead \in InfoStates
  BY DEF NoneRead, InfoStates
<1>2. ASSUME NEW x \in InfoStates \X (1 .. n)
      PROVE  ReadLine(x[1], its[x[2]]) \in InfoStates
  <2>1. x[1] \in InfoStates /\ its[x[2]] \in InfoItem
    BY <1>2 DEF ItemsIn
  <2>2. QED
    BY <2>1, ReadFacts
<1>3. QED
  BY <1>1, <1>2 DEF Reading, Step

\* bwprof info is where the stages of its reading end.
LEMMA ReadAllIs ==
    ASSUME NEW its, NEW n, ItemsIn(its, n),
           NEW p \in [0 .. n -> InfoStates], Stages(p, n, NoneRead, Reading(its, n))
    PROVE  ReadAll(its) = p[n]
<1>0. n \in Nat /\ DOMAIN its = 1 .. n
  BY DEF ItemsIn
<1>1. PICK g \in [SUBSET (1 .. n) -> InfoStates] : IsFold(g, n, NoneRead, Reading(its, n))
  BY <1>0, ReadingType, FoldExists
<1>2. g = [s \in SUBSET DOMAIN its |->
              IF s = {} THEN NoneRead ELSE ReadLine(g[s \ {Max(s)}], its[Max(s)])]
  <2>1. ASSUME NEW s \in SUBSET (1 .. n), s # {}
        PROVE  Reading(its, n)[<<g[s \ {Max(s)}], Max(s)>>]
                   = ReadLine(g[s \ {Max(s)}], its[Max(s)])
    <3>1. Max(s) \in 1 .. n /\ g[s \ {Max(s)}] \in InfoStates
      BY <1>0, <2>1, MaxIsLargest
    <3>2. QED
      BY <3>1 DEF Reading
  <2>2. QED
    BY <1>0, <1>1, <2>1 DEF IsFold
<1> DEFINE iter[s \in SUBSET DOMAIN its] ==
               IF s = {} THEN NoneRead ELSE ReadLine(iter[s \ {Max(s)}], its[Max(s)])
<1>3. ReadAll(its) = iter[DOMAIN its]
  BY DEF ReadAll, FoldLeft, MapThenFoldSet
<1>4. iter = [s \in SUBSET DOMAIN its |->
                 IF s = {} THEN NoneRead ELSE ReadLine(iter[s \ {Max(s)}], its[Max(s)])]
  BY <1>2 DEF iter
<1> HIDE DEF iter
<1>5. iter[{}] = NoneRead
  BY <1>0, <1>4
<1>6. ASSUME NEW m \in 1 .. n, iter[1 .. m - 1] \in InfoStates
      PROVE  iter[1 .. m] = Reading(its, n)[<<iter[1 .. m - 1], m>>]
  <2>1. iter[1 .. m] = ReadLine(iter[(1 .. m) \ {Max(1 .. m)}], its[Max(1 .. m)])
    BY <1>0, <1>4, PrefixFacts
  <2>2. iter[1 .. m] = ReadLine(iter[1 .. m - 1], its[m])
    BY <1>0, <2>1, PrefixFacts
  <2>3. QED
    BY <1>6, <2>2 DEF Reading
<1>7. PrefixStages(iter, n, InfoStates, NoneRead, Reading(its, n))
  BY <1>0, <1>5, <1>6, ReadingType DEF PrefixStages
<1>8. Stages(p, n, NoneRead, Reading(its, n))
  OBVIOUS
<1>9. PICK h, q, st, first, step :
          h = iter /\ q = p /\ st = InfoStates /\ first = NoneRead /\ step = Reading(its, n)
  OBVIOUS
<1>10. PrefixStages(h, n, st, first, step) /\ Stages(q, n, first, step)
  BY <1>7, <1>8, <1>9
<1>11. h[1 .. n] = q[n]
  BY <1>10, FoldValue
<1>12. QED
  BY <1>0, <1>3, <1>9, <1>11

\* The lines of info.txt, with b that the words of the command add.
FileItems(its, b) ==
    /\ b \in Nat /\ DOMAIN its = 1 .. b + 11
    /\ its[1] = Own("data_version") /\ its[2] = Own("cmdline")
    /\ \A i \in 1 .. b : its[i + 2] \in Foreign
    /\ its[b + 3] = Own("recorded_time") /\ its[b + 4] = Group("cpuinfo", 2)
    /\ its[b + 5] = Own("nr_cpus") /\ its[b + 6] = Own("desc")
    /\ its[b + 7] = Own("meminfo") /\ its[b + 8] = Group("osinfo", 3)
    /\ its[b + 9] = Own("kernel") /\ its[b + 10] = Own("hostname")
    /\ its[b + 11] = Own("distro")

LEMMA ItemsOfFile ==
    ASSUME NEW key \in InfoKeys, NEW n \in Nat
    PROVE  /\ Group(key, n) \in InfoItem /\ Group(key, n).key = key
           /\ Group(key, n).lines = n /\ Group(key, n).own
           /\ Own(key) \in InfoItem /\ Own(key).key = key /\ Own(key).own
<1>1. Group(key, n) \in InfoItem /\ Own(key) \in InfoItem
  BY DEF Group, Own, InfoItem
<1>2. QED
  BY <1>1 DEF Group, Own

\* The lines of the words are the ones that are not the recorder's.
LEMMA WordsAre ==
    ASSUME NEW b, FileItems(info, b), info \in Seq(InfoItem)
    PROVE  Words = 3 .. b + 2
<1>1. Len(info) = b + 11 /\ b \in Nat
  BY DEF FileItems
<1>2. ASSUME NEW i \in 3 .. b + 2 PROVE ~info[i].own
  <2>1. PICK j \in 1 .. b : i = j + 2
    <3>1. i - 2 \in 1 .. b /\ i = (i - 2) + 2
      BY <1>1
    <3>2. QED
      BY <3>1
  <2>2. QED
    BY <2>1 DEF FileItems, Foreign
<1>3. ASSUME NEW i \in {1, 2, b + 3, b + 4, b + 5, b + 6, b + 7, b + 8, b + 9, b + 10, b + 11}
      PROVE  info[i].own
  BY <1>3 DEF FileItems, Own, Group
<1>4. \A i \in 1 .. b + 11 :
          \/ i \in {1, 2, b + 3, b + 4, b + 5, b + 6, b + 7, b + 8, b + 9, b + 10, b + 11}
          \/ i \in 3 .. b + 2
  BY <1>1
<1>5. \A i \in 3 .. b + 2 : i \in 1 .. b + 11
  BY <1>1
<1>6. QED
  BY <1>1, <1>2, <1>3, <1>4, <1>5 DEF Words

\* s has the k elements of f and behind them those of w, n in all.
IsJoined(s, f, w, k, n) ==
    DOMAIN s = 1 .. n /\ \A i \in 1 .. n : s[i] = IF i <= k THEN f[i] ELSE w[i - k]

LEMMA Joined ==
    ASSUME NEW S, NEW f \in Seq(S), NEW w \in Seq(S),
           NEW k, k = Len(f), NEW n, n = Len(f) + Len(w)
    PROVE  f \o w \in Seq(S) /\ Len(f \o w) = n /\ IsJoined(f \o w, f, w, k, n)
<1>1. f \o w \in Seq(S) /\ Len(f \o w) = Len(f) + Len(w)
  OBVIOUS
<1>2. ASSUME NEW i \in 1 .. Len(f) + Len(w)
      PROVE  (f \o w)[i] = IF i <= Len(f) THEN f[i] ELSE w[i - Len(f)]
  OBVIOUS
<1>3. DOMAIN (f \o w) = 1 .. Len(f) + Len(w)
  OBVIOUS
<1>4. QED
  BY <1>1, <1>2, <1>3 DEF IsJoined

LEMMA InfoLinesAre ==
    ASSUME NEW words \in Seq(Foreign)
    PROVE  FileItems(InfoLines(words), Len(words))
<1> DEFINE first == << Own("data_version"), Own("cmdline") >>
           last  == << Own("recorded_time"), Group("cpuinfo", 2), Own("nr_cpus"), Own("desc"),
                       Own("meminfo"), Group("osinfo", 3), Own("kernel"), Own("hostname"),
                       Own("distro") >>
<1>0. PICK S, b : S = InfoItem /\ b = Len(words)
  OBVIOUS
<1>1. b \in Nat /\ \A i \in 1 .. b : words[i] \in Foreign
  BY <1>0
<1>2. first \in Seq(S) /\ Len(first) = 2
  <2>1. Own("data_version") \in S /\ Own("cmdline") \in S
    BY <1>0, ItemsOfFile DEF InfoKeys
  <2>2. QED
    BY <2>1
<1>3. words \in Seq(S) /\ Len(words) = b
  BY <1>0, ForeignType
<1>4. last \in Seq(S) /\ Len(last) = 9
  <2>1. 0 \in Nat /\ 2 \in Nat /\ 3 \in Nat
    OBVIOUS
  <2>2. /\ Own("recorded_time") \in S /\ Group("cpuinfo", 2) \in S /\ Own("nr_cpus") \in S
        /\ Own("desc") \in S /\ Own("meminfo") \in S /\ Group("osinfo", 3) \in S
        /\ Own("kernel") \in S /\ Own("hostname") \in S /\ Own("distro") \in S
    BY <1>0, <2>1, ItemsOfFile DEF InfoKeys
  <2>3. last \in Seq(S)
    BY <2>2
  <2>4. Len(last) = 9
    OBVIOUS
  <2>5. QED
    BY <2>3, <2>4
<1>5. PICK f, w, t : f = first /\ w = words /\ t = last
  OBVIOUS
<1>6. /\ f \in Seq(S) /\ w \in Seq(S) /\ t \in Seq(S)
      /\ Len(f) = 2 /\ Len(w) = b /\ Len(t) = 9
  BY <1>2, <1>3, <1>4, <1>5
<1>7. f \o w \in Seq(S) /\ Len(f \o w) = b + 2 /\ IsJoined(f \o w, f, w, 2, b + 2)
  <2>1. /\ f \in Seq(S) /\ w \in Seq(S)
        /\ 2 = Len(f) /\ b + 2 = Len(f) + Len(w)
    BY <1>6
  <2>2. \A k, n : k = Len(f) /\ n = Len(f) + Len(w) =>
           f \o w \in Seq(S) /\ Len(f \o w) = n /\ IsJoined(f \o w, f, w, k, n)
    BY <2>1, Joined
  <2>3. QED
    BY <2>1, <2>2
<1>8. PICK h : h = f \o w
  OBVIOUS
<1>9. IsJoined(h \o t, h, t, b + 2, b + 11)
  <2>1. h \in Seq(S) /\ b + 2 = Len(h) /\ b + 11 = Len(h) + Len(t)
    BY <1>6, <1>7, <1>8
  <2>2. QED
    BY <1>6, <2>1, Joined
<1>10. InfoLines(words) = h \o t
  BY <1>5, <1>8, Zenon DEF InfoLines
<1>11. PICK its : its = h \o t
  OBVIOUS
<1>12. DOMAIN its = 1 .. b + 11
  BY <1>9, <1>11 DEF IsJoined
<1>13. \A i \in 1 .. b + 2 : its[i] = IF i <= 2 THEN f[i] ELSE w[i - 2]
  BY <1>7, <1>8, <1>9, <1>11 DEF IsJoined
<1>14. \A j \in 1 .. 9 : its[b + 2 + j] = t[j]
  <2> SUFFICES ASSUME NEW j \in 1 .. 9 PROVE its[b + 2 + j] = t[j]
    OBVIOUS
  <2>1. /\ b + 2 + j \in 1 .. b + 11 /\ ~(b + 2 + j <= b + 2)
        /\ (b + 2 + j) - (b + 2) = j
    BY <1>1
  <2>2. QED
    BY <1>9, <1>11, <2>1 DEF IsJoined
<1>15. its[1] = f[1] /\ its[2] = f[2] /\ \A i \in 1 .. b : its[i + 2] = w[i]
  <2>1. 1 \in 1 .. b + 2 /\ 2 \in 1 .. b + 2
    BY <1>1
  <2>2. \A i \in 1 .. b : i + 2 \in 1 .. b + 2 /\ ~(i + 2 <= 2) /\ (i + 2) - 2 = i
    BY <1>1
  <2>3. QED
    BY <1>13, <2>1, <2>2
<1>16. /\ its[b + 3] = t[1] /\ its[b + 4] = t[2] /\ its[b + 5] = t[3] /\ its[b + 6] = t[4]
       /\ its[b + 7] = t[5] /\ its[b + 8] = t[6] /\ its[b + 9] = t[7] /\ its[b + 10] = t[8]
       /\ its[b + 11] = t[9]
  <2>1. /\ b + 2 + 1 = b + 3 /\ b + 2 + 2 = b + 4 /\ b + 2 + 3 = b + 5 /\ b + 2 + 4 = b + 6
        /\ b + 2 + 5 = b + 7 /\ b + 2 + 6 = b + 8 /\ b + 2 + 7 = b + 9
        /\ b + 2 + 8 = b + 10 /\ b + 2 + 9 = b + 11
    BY <1>1
  <2>2. QED
    BY <1>14, <2>1
<1>17. FileItems(its, b)
  BY <1>1, <1>5, <1>12, <1>15, <1>16 DEF FileItems
<1>18. QED
  BY <1>0, <1>10, <1>11, <1>17

\* The recorder's value of these keys is known, and the group that is open has that many
\* lines to come.
HasRead(st, keys, open) == st \in InfoStates /\ keys \subseteq st.own /\ st.lines = open

LEMMA ReadAlone ==
    ASSUME NEW st, NEW keys, HasRead(st, keys, 0), NEW key \in TopKeys
    PROVE  HasRead(ReadLine(st, Own(key)), keys \cup {key}, 0)
<1>1. key \in InfoKeys /\ key \notin {"cpuinfo", "osinfo"} /\ 0 \in Nat
  BY DEF TopKeys, InfoKeys
<1>2. Own(key) \in InfoItem /\ Own(key).key = key /\ Own(key).own
  BY <1>1, ItemsOfFile
<1>3. QED
  BY <1>1, <1>2, ReadFacts DEF HasRead

LEMMA ReadOpens ==
    ASSUME NEW st, NEW keys, HasRead(st, keys, 0), NEW key \in {"cpuinfo", "osinfo"},
           NEW open \in Nat
    PROVE  HasRead(ReadLine(st, Group(key, open)), keys, open)
<1>1. key \in InfoKeys
  BY DEF InfoKeys
<1>2. PICK item : item = Group(key, open)
  OBVIOUS
<1>3. item \in InfoItem /\ item.key = key /\ item.lines = open /\ item.own
  BY <1>1, <1>2, ItemsOfFile
<1>4. QED
  BY <1>2, <1>3, ReadFacts DEF HasRead

OneMore(open, rest) == open \in Nat /\ rest \in Nat /\ open = rest + 1

LEMMA ReadInGroup ==
    ASSUME NEW st, NEW keys, NEW open, HasRead(st, keys, open),
           NEW rest, OneMore(open, rest), NEW key \in InfoKeys
    PROVE  HasRead(ReadLine(st, Own(key)), keys \cup {key}, rest)
<1>1. Own(key) \in InfoItem /\ Own(key).key = key /\ Own(key).own
  <2>1. 0 \in Nat
    OBVIOUS
  <2>2. QED
    BY <2>1, ItemsOfFile
<1>2. open > 0 /\ open - 1 = rest
  BY DEF OneMore
<1>3. QED
  BY <1>1, <1>2, ReadFacts DEF HasRead

Closed(its, b) == \A i \in 3 .. b + 2 : i + its[i].lines \in 3 .. b + 2 \/ its[i].lines = 0

\* The command line is given another value by a line of its words.
Lost(its, b) == {key \in {"cmdline"} : \E i \in 3 .. b + 2 : its[i].key = key}

\* Behind m lines of the words: the groups they announced end among them.
AmongWords(st, its, b, m) ==
    st \in InfoStates /\ {"cmdline"} \ Lost(its, b) \subseteq st.own /\ st.lines <= b - m

LEMMA ReadWord ==
    ASSUME NEW its, NEW b, FileItems(its, b), Closed(its, b), NEW m \in 0 .. b - 1,
           NEW st, AmongWords(st, its, b, m)
    PROVE  AmongWords(ReadLine(st, its[m + 3]), its, b, m + 1)
<1>1. b \in Nat /\ m + 3 \in 3 .. b + 2 /\ m \in Nat
  BY DEF FileItems
<1>2. PICK item : item = its[m + 3]
  OBVIOUS
<1>3. item \in InfoItem /\ item.lines \in Nat
  <2>1. m + 1 \in 1 .. b /\ (m + 1) + 2 = m + 3
    BY <1>1
  <2>2. its[m + 3] \in Foreign
    BY <2>1 DEF FileItems
  <2>3. QED
    BY <1>2, <2>2 DEF Foreign, InfoItem
<1>4. st \in InfoStates /\ st.lines \in Nat /\ st.lines <= b - m
  BY DEF AmongWords, InfoStates
<1>5. ReadLine(st, item) \in InfoStates
  BY <1>3, <1>4, ReadFacts
<1>6. {"cmdline"} \ Lost(its, b) \subseteq ReadLine(st, item).own
  <2> SUFFICES ASSUME "cmdline" \notin Lost(its, b) PROVE "cmdline" \in ReadLine(st, item).own
    OBVIOUS
  <2>1. "cmdline" \in st.own
    BY DEF AmongWords
  <2>2. item.key # "cmdline"
    BY <1>1, <1>2 DEF Lost
  <2>3. QED
    BY <1>3, <1>4, <2>1, <2>2, ReadFacts
<1>7. ReadLine(st, item).lines <= b - (m + 1)
  <2>1. CASE st.lines > 0
    BY <1>1, <1>3, <1>4, <2>1, ReadFacts
  <2>2. CASE st.lines = 0 /\ item.key \in {"cpuinfo", "osinfo"}
    <3>1. ReadLine(st, item).lines = item.lines
      BY <1>3, <1>4, <2>2, ReadFacts
    <3>2. (m + 3) + item.lines \in 3 .. b + 2 \/ item.lines = 0
      BY <1>1, <1>2 DEF Closed
    <3>3. QED
      BY <1>1, <1>3, <3>1, <3>2
  <2>3. CASE st.lines = 0 /\ item.key \notin {"cpuinfo", "osinfo"}
    <3>1. ReadLine(st, item).lines = 0
      BY <1>3, <1>4, <2>3, ReadFacts
    <3>2. QED
      BY <1>1, <3>1
  <2>4. QED
    BY <1>4, <2>1, <2>2, <2>3
<1>8. QED
  BY <1>2, <1>5, <1>6, <1>7 DEF AmongWords

\* Whatever lines the words add, if the groups they announce end among them each group of
\* the recorder has the lines it announces, and everything that is displayed is found.
LEMMA EverythingIsRead ==
    ASSUME NEW its, NEW b, FileItems(its, b), Closed(its, b)
    PROVE  Displayed \subseteq ReadAll(its).own \cup Lost(its, b)
<1> DEFINE n == b + 11
           kept == {"cmdline"} \ Lost(its, b)
<1>0. b \in Nat /\ n \in Nat
  BY DEF FileItems
<1>1. ItemsIn(its, n)
  <2>1. \A i \in 1 .. n : \/ i \in {1, 2, b + 3, b + 4, b + 5, b + 6, b + 7, b + 8, b + 9,
                                    b + 10, b + 11}
                          \/ i - 2 \in 1 .. b /\ i = (i - 2) + 2
    BY <1>0
  <2>2. ASSUME NEW i \in 1 .. n PROVE its[i] \in InfoItem
    <3>1. CASE i - 2 \in 1 .. b /\ i = (i - 2) + 2
      <4>1. PICK j \in 1 .. b : i = j + 2
        BY <3>1
      <4>2. its[i] \in Foreign
        BY <4>1 DEF FileItems
      <4>3. QED
        BY <4>2 DEF Foreign
    <3>2. CASE i \in {1, 2, b + 3, b + 4, b + 5, b + 6, b + 7, b + 8, b + 9, b + 10, b + 11}
      <4>1. \/ \E key \in InfoKeys : its[i] = Own(key)
            \/ \E key \in InfoKeys : its[i] = Group(key, 2) \/ its[i] = Group(key, 3)
        BY <3>2 DEF FileItems, InfoKeys
      <4>2. 2 \in Nat /\ 3 \in Nat
        OBVIOUS
      <4>3. QED
        BY <4>1, <4>2, ItemsOfFile
    <3>3. QED
      BY <2>1, <3>1, <3>2
  <2>3. QED
    BY <1>0, <2>2 DEF ItemsIn, FileItems
<1>2. PICK p \in [0 .. n -> InfoStates] : Stages(p, n, NoneRead, Reading(its, n))
  BY <1>0, <1>1, ReadingType, StagesExist
<1>3. ASSUME NEW i \in 1 .. n PROVE p[i] = ReadLine(p[i - 1], its[i])
  <2>1. p[i - 1] \in InfoStates
    BY <1>0
  <2>2. QED
    BY <1>1, <1>2, <2>1 DEF Stages, Reading, ItemsIn
<1>4. HasRead(p[0], {}, 0)
  <2>1. p[0] = NoneRead
    BY <1>2 DEF Stages
  <2>2. NoneRead \in InfoStates
    BY <1>1, ReadingType
  <2>3. QED
    BY <2>1, <2>2 DEF NoneRead, HasRead
<1>5. HasRead(p[2], {"data_version", "cmdline"}, 0)
  <2>1. 1 \in 1 .. n /\ 2 \in 1 .. n /\ 1 - 1 = 0 /\ 2 - 1 = 1
    BY <1>0
  <2>2. p[1] = ReadLine(p[0], Own("data_version")) /\ p[2] = ReadLine(p[1], Own("cmdline"))
    BY <1>3, <2>1 DEF FileItems
  <2>3. "data_version" \in TopKeys /\ "cmdline" \in TopKeys
    BY DEF TopKeys
  <2>4. HasRead(p[1], {} \cup {"data_version"}, 0)
    BY <1>4, <2>2, <2>3, ReadAlone
  <2>5. HasRead(p[2], ({} \cup {"data_version"}) \cup {"cmdline"}, 0)
    BY <2>2, <2>3, <2>4, ReadAlone
  <2>6. ({} \cup {"data_version"}) \cup {"cmdline"} = {"data_version", "cmdline"}
    OBVIOUS
  <2>7. QED
    BY <2>5, <2>6
<1>6. HasRead(p[b + 2], kept, 0)
  <2> DEFINE Good == {m \in 0 .. b : AmongWords(p[m + 2], its, b, m)}
  <2>1. 0 \in Good
    <3>1. AmongWords(p[2], its, b, 0)
      BY <1>0, <1>5 DEF AmongWords, HasRead
    <3>2. QED
      BY <1>0, <3>1
  <2>2. ASSUME NEW m \in 0 .. b - 1, m \in Good
        PROVE  m + 1 \in Good
    <3>1. m + 3 \in 1 .. n /\ (m + 3) - 1 = m + 2 /\ (m + 1) + 2 = m + 3 /\ m + 1 \in 0 .. b
      BY <1>0
    <3>2. p[m + 3] = ReadLine(p[m + 2], its[m + 3])
      BY <1>3, <3>1
    <3>3. AmongWords(p[m + 3], its, b, m + 1)
      BY <2>2, <3>2, ReadWord
    <3>4. QED
      BY <3>1, <3>3
  <2> HIDE DEF Good
  <2>3. Good = 0 .. b
    <3>1. Good \in SUBSET (0 .. b)
      BY DEF Good
    <3>2. QED
      BY <1>0, <2>1, <2>2, <3>1, UpTo
  <2>4. AmongWords(p[b + 2], its, b, b)
    <3>1. b \in Good
      BY <1>0, <2>3
    <3>2. QED
      BY <3>1 DEF Good
  <2>5. p[b + 2].lines \in Nat /\ b - b = 0
    BY <1>0, <2>4 DEF AmongWords, InfoStates
  <2>6. QED
    BY <2>4, <2>5 DEF AmongWords, HasRead
<1>7. ASSUME NEW j \in 3 .. 11, NEW i, i = j - 1
      PROVE  p[b + j] = ReadLine(p[b + i], its[b + j])
  <2>1. b + j \in 1 .. n /\ (b + j) - 1 = b + i
    BY <1>0, <1>7
  <2>2. QED
    BY <1>3, <2>1
<1> HIDE DEF n, kept
<1>8. /\ p[b + 3] = ReadLine(p[b + 2], Own("recorded_time"))
      /\ p[b + 4] = ReadLine(p[b + 3], Group("cpuinfo", 2))
      /\ p[b + 5] = ReadLine(p[b + 4], Own("nr_cpus"))
      /\ p[b + 6] = ReadLine(p[b + 5], Own("desc"))
      /\ p[b + 7] = ReadLine(p[b + 6], Own("meminfo"))
      /\ p[b + 8] = ReadLine(p[b + 7], Group("osinfo", 3))
      /\ p[b + 9] = ReadLine(p[b + 8], Own("kernel"))
      /\ p[b + 10] = ReadLine(p[b + 9], Own("hostname"))
      /\ p[b + 11] = ReadLine(p[b + 10], Own("distro"))
  <2>1. /\ p[b + 3] = ReadLine(p[b + 2], its[b + 3])
        /\ p[b + 4] = ReadLine(p[b + 3], its[b + 4])
        /\ p[b + 5] = ReadLine(p[b + 4], its[b + 5])
        /\ p[b + 6] = ReadLine(p[b + 5], its[b + 6])
        /\ p[b + 7] = ReadLine(p[b + 6], its[b + 7])
        /\ p[b + 8] = ReadLine(p[b + 7], its[b + 8])
        /\ p[b + 9] = ReadLine(p[b + 8], its[b + 9])
        /\ p[b + 10] = ReadLine(p[b + 9], its[b + 10])
        /\ p[b + 11] = ReadLine(p[b + 10], its[b + 11])
    <3>1. \A j \in 3 .. 11 : p[b + j] = ReadLine(p[b + (j - 1)], its[b + j])
      BY <1>7
    <3>2. /\ 3 - 1 = 2 /\ 4 - 1 = 3 /\ 5 - 1 = 4 /\ 6 - 1 = 5 /\ 7 - 1 = 6 /\ 8 - 1 = 7
          /\ 9 - 1 = 8 /\ 10 - 1 = 9 /\ 11 - 1 = 10
          /\ 3 \in 3 .. 11 /\ 4 \in 3 .. 11 /\ 5 \in 3 .. 11 /\ 6 \in 3 .. 11 /\ 7 \in 3 .. 11
          /\ 8 \in 3 .. 11 /\ 9 \in 3 .. 11 /\ 10 \in 3 .. 11 /\ 11 \in 3 .. 11
      OBVIOUS
    <3>3. QED
      BY <3>1, <3>2, Zenon
  <2>2. QED
    BY <2>1, Zenon DEF FileItems
<1>9. OneMore(3, 2) /\ OneMore(2, 1) /\ OneMore(1, 0) /\ 2 \in Nat /\ 3 \in Nat
  BY DEF OneMore
<1>10. /\ "recorded_time" \in TopKeys /\ "meminfo" \in TopKeys
       /\ "cpuinfo" \in {"cpuinfo", "osinfo"} /\ "osinfo" \in {"cpuinfo", "osinfo"}
       /\ "nr_cpus" \in InfoKeys /\ "desc" \in InfoKeys /\ "kernel" \in InfoKeys
       /\ "hostname" \in InfoKeys /\ "distro" \in InfoKeys
  BY DEF TopKeys, InfoKeys
<1>11. HasRead(p[b + 3], kept \cup {"recorded_time"}, 0)
  BY <1>6, <1>8, <1>10, ReadAlone
<1>12. HasRead(p[b + 4], kept \cup {"recorded_time"}, 2)
  BY <1>8, <1>9, <1>10, <1>11, ReadOpens
<1>13. HasRead(p[b + 5], (kept \cup {"recorded_time"}) \cup {"nr_cpus"}, 1)
  BY <1>8, <1>9, <1>10, <1>12, ReadInGroup
<1> DEFINE cpus == kept \cup {"recorded_time", "nr_cpus", "desc"}
<1>14. HasRead(p[b + 6], cpus, 0)
  <2>1. HasRead(p[b + 6], ((kept \cup {"recorded_time"}) \cup {"nr_cpus"}) \cup {"desc"}, 0)
    BY <1>8, <1>9, <1>10, <1>13, ReadInGroup
  <2>2. QED
    BY <2>1 DEF HasRead
<1> HIDE DEF cpus
<1>15. HasRead(p[b + 7], cpus \cup {"meminfo"}, 0)
  BY <1>8, <1>10, <1>14, ReadAlone
<1>16. HasRead(p[b + 8], cpus \cup {"meminfo"}, 3)
  BY <1>8, <1>9, <1>10, <1>15, ReadOpens
<1>17. HasRead(p[b + 9], (cpus \cup {"meminfo"}) \cup {"kernel"}, 2)
  BY <1>8, <1>9, <1>10, <1>16, ReadInGroup
<1>18. HasRead(p[b + 10], ((cpus \cup {"meminfo"}) \cup {"kernel"}) \cup {"hostname"}, 1)
  BY <1>8, <1>9, <1>10, <1>17, ReadInGroup
<1>19. HasRead(p[b + 11], (((cpus \cup {"meminfo"}) \cup {"kernel"}) \cup {"hostname"})
                             \cup {"distro"}, 0)
  BY <1>8, <1>9, <1>10, <1>18, ReadInGroup
<1>20. ReadAll(its) = p[b + 11]
  BY <1>1, <1>2, ReadAllIs DEF n
<1>21. QED
  BY <1>19, <1>20 DEF HasRead, cpus, kept, Displayed

\* info.txt is not there, or it is what CollectAndSave has written.
InfoInv == info = << >> \/ \E words \in Seq(Foreign) : info = InfoLines(words)

LEMMA NextInfo == TypeOK /\ InfoInv /\ [Next]_vars => InfoInv'
<1> SUFFICES ASSUME TypeOK, InfoInv, [Next]_vars PROVE InfoInv'
  OBVIOUS
<1>1. CASE CollectAndSave
  BY <1>1, ContinuationType DEF CollectAndSave, InfoInv
<1>2. CASE UNCHANGED info
  BY <1>2 DEF InfoInv
<1>3. CASE Parse
  <2>1. UNCHANGED session
    BY <1>3 DEF Parse, Dashes, Option, Argument, ArgpError, Dispatch
  <2>2. QED
    BY <1>2, <2>1 DEF session
<1>4. CASE Start \/ StartupFails \/ Interrupt
  <2>1. CollectAndSave \/ UNCHANGED info
    BY <1>4 DEF Start, PrepareDataDirectory, Initialize, OpenCSVFile, ExecuteCommand,
           StartupFails, Interrupt, session
  <2>2. QED
    BY <1>1, <1>2, <2>1
<1>5. CASE Loop
  <2>1. UNCHANGED info
    BY <1>5 DEF Loop, ReadFirstTime, ReadFirstStates, Wake, PollChild, ReadTime, ReadStates,
           Account, WaitForChild, results, session, AccountAs
  <2>2. QED
    BY <1>2, <2>1
<1>6. CASE Tick \/ Traffic \/ ChildExits \/ UNCHANGED vars
  BY <1>2, <1>6 DEF Tick, Traffic, ChildExits, vars, session
<1>7. QED
  BY <1>3, <1>4, <1>5, <1>6 DEF Next

\* bwprof info finds everything it displays in the file the recorder wrote, for any
\* command line and any lines it adds whose groups end among them, at whatever moment it
\* is run; only the command line can be given another value by one of those lines.
THEOREM InfoIsReadBack == Spec => []InfoReadsBack
<1>1. Init => InfoInv
  BY DEF Init, InfoInv
<1>2. ASSUME TypeOK, InfoInv PROVE InfoReadsBack
  <2> SUFFICES ASSUME info # << >>,
                      \A i \in Words : i + info[i].lines \in Words \/ info[i].lines = 0
               PROVE  Displayed \subseteq
                          InfoMap \cup {key \in {"cmdline"} : \E i \in Words : info[i].key = key}
    BY DEF InfoReadsBack
  <2>1. PICK b : FileItems(info, b)
    BY <1>2, InfoLinesAre DEF InfoInv
  <2>2. Words = 3 .. b + 2
    BY <1>2, <2>1, WordsAre DEF TypeOK
  <2>3. Closed(info, b)
    BY <2>2 DEF Closed
  <2>4. Displayed \subseteq ReadAll(info).own \cup Lost(info, b)
    BY <2>1, <2>3, EverythingIsRead
  <2>5. InfoMap = ReadAll(info).own
    BY DEF InfoMap, ReadAll, NoneRead
  <2>6. QED
    BY <2>2, <2>4, <2>5 DEF Lost
<1>3. QED
  BY <1>1, <1>2, TypeCorrect, NextInfo, PTL DEF Spec
=============================================================================
