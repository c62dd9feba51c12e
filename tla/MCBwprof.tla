------------------------------ MODULE MCBwprof ------------------------------
(***************************************************************************)
(* Sessions of a few seconds on a machine with two sockets, events being   *)
(* counted in lots of 625: one of them in a second is four hundredths of a *)
(* MB/s.                                                                   *)
(***************************************************************************)
EXTENDS BwprofReport

Arg(text)              == [key |-> "arg", text |-> text, value |-> 0]
Opt(key, text, value)  == [key |-> key, text |-> text, value |-> value]
DashDash == Opt("--", "--", 0)
Every1   == Opt("interval", "-i1", 1)
Socket1  == Opt("socket", "-s1", 1)

\* The command line goes on with a line of no meaning, one that looks like the recorder's,
\* and a group of two lines.
Behind(key, lines) == [key |-> key, lines |-> lines, own |-> FALSE]

LinesOfWords ==
    << "ls", "-s1", "a\nb" >> :>
        << Behind("other", 0), Behind("meminfo", 0), Behind("osinfo", 2), Behind("other", 0),
           Behind("kernel", 0) >>

RecordRuns == << Arg("record"), Arg("ls"), DashDash, Socket1, Arg("a\nb") >>

AllCommandLines ==
    { RecordRuns,
      << Arg("record"), Socket1 >>,
      << Arg("record"), Every1 >>,
      << Arg("record"), Opt("interval", "-i3", 3) >>,
      << Arg("top"), Socket1, DashDash, Arg("ls"), Every1 >>,
      << Every1, DashDash, Arg("top") >>,
      << Arg("record"), Opt("interval", "-i0", 0) >>,
      << Opt("socket", "-s-1", -1), Arg("record") >>,
      << Arg("record"), Opt("top", "--top", 0), DashDash, Arg("ls") >>,
      << Arg("ls") >>,
      << Arg("report"), Arg("ls") >>,
      << Arg("report") >>, << >> }

RecordCommand == { << Arg("record"), DashDash, Arg("ls") >> }
RecordAlone   == { << Arg("record") >> }

OneEach == { <<0, "reads">>, <<1, "cxl_writes">> }
OneCounter == { <<0, "reads">> }
=============================================================================
