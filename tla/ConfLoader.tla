----------------------------- MODULE ConfLoader -----------------------------
(***************************************************************************)
(* load_conf of gasgen and of gastask.  Both read the same file with the   *)
(* same sections; each parses the sections meant for it and skips those    *)
(* of the other.  A step is one fgets: parse_conf looks for a header, and  *)
(* the parser of a section takes lines until a blank one or the next       *)
(* header, which it hands back with fseek.                                 *)
(*                                                                         *)
(* A line is a comment, a blank line, a header or data.  Data has columns  *)
(* of numbers, behind a name or not; those read with %lf are in hundredths *)
(* and those read with %u are whole and not negative.                      *)
(***************************************************************************)
EXTENDS Integers, Sequences, SequencesExt, FiniteSetsExt

CONSTANTS MAX_MEMS,
          MAX_TABLE,  \* MAX_CPU_FREQS, MAX_CLOUDS and MAX_OFFLOADING_RATIOS
          MAX_ROWS    \* MAX_TASKS, MAX_NETWORKS and MAX_NETCOMMANDERS

ASSUME TableAssumption ==
    MAX_MEMS \in Nat \ {0} /\ MAX_TABLE \in Nat \ {0} /\ MAX_ROWS \in Nat \ {0}

GeneratorSections == {"gentask", "gennetwork", "gennetcommander"}
SchedulerSections ==
    {"genetic", "cpufreq", "task", "offloadingratio", "cloud", "network", "netcommander"}
Sections == GeneratorSections \cup SchedulerSections \cup {"mem"}
Programs == {"gasgen", "gastask"}

\* The sections a program parses; parse_mem is common to both.
Parses(p) == {"mem"} \cup (IF p = "gasgen" THEN GeneratorSections ELSE SchedulerSections)

Line(kind, s, cols) == [kind |-> kind, section |-> s, named |-> FALSE, cols |-> cols]
Header(s) == Line("header", s, <<>>)
Data(cols) == Line("data", "none", cols)
Named(cols) == [Data(cols) EXCEPT !.named = TRUE]
Blank == Line("blank", "none", <<>>)
Comment == Line("comment", "none", <<>>)

\* The lines a file may hold; "unknown" stands for any other word after the *.
Lines ==
    {l \in [kind : {"header", "data", "blank", "comment"},
             section : Sections \cup {"none", "unknown"},
             named : BOOLEAN, cols : Seq(Int)] :
        l.kind = "data" => l.section = "none"}

VARIABLES file,    \* the lines of the configuration
          prog,    \* the program that is loading it
          pos,     \* the line fgets will return next
          sect,    \* the section whose parser is running, "skip" or "none"
          status,  \* of each program: "waiting", "loading", "loaded", "fatal" or "overrun"
          loaded   \* of each program and section: the lines it has taken, by number

loader == <<prog, pos, sect, status, loaded>>

\* A program starts.
Start(p) ==
    /\ prog' = p
    /\ pos' = 1 /\ sect' = "none"
    /\ status' = [status EXCEPT ![p] = "loading"]

Ends(how) == status' = [status EXCEPT ![prog] = how]

-----------------------------------------------------------------------------
(* What sscanf and the checks behind it accept.                            *)

\* How many columns the format of a section has, its name apart.
Columns(s) ==
    CASE s = "genetic" -> 4 [] s = "cpufreq" -> 3 [] s = "task" -> 8
      [] s = "network" -> 2 [] s = "netcommander" -> 2 [] s = "cloud" -> 5
      [] s = "offloadingratio" -> 1 [] s = "mem" -> 4
      [] s = "gentask" -> 12 [] s = "gennetwork" -> 5 [] s = "gennetcommander" -> 5

\* The numbers of a line; %s also takes a number for a name.
Values(l, s) ==
    IF s \in {"mem", "cloud"} /\ ~ l.named /\ l.cols # <<>> THEN Tail(l.cols) ELSE l.cols

\* All conversions succeed; columns in excess are ignored.
Scans(l, s) ==
    /\ Len(Values(l, s)) >= Columns(s)
    /\ l.named => s \in {"mem", "cloud"}

\* The numbers of a line are in range, section by section.
MemOK(v) == v[1] > 0 /\ v[2] \in 0..100 /\ v[3] >= 0 /\ v[4] >= 0
CpufreqOK(v) == v[1] \in 0..100 /\ v[2] >= 0 /\ v[3] >= 0
TaskOK(v) == v[1] < v[2]
CloudOK(v) == v[4] > 0 /\ v[2] >= 0 /\ v[3] >= 0 /\ v[5] <= 100
RatioOK(v) == v[1] \in 0..100
GentaskOK(v) == v[4] <= v[5]

InRange(l, s) ==
    LET v == Values(l, s)
    IN  /\ s = "mem" => MemOK(v)
        /\ s = "cpufreq" => CpufreqOK(v)
        /\ s = "task" => TaskOK(v)
        /\ s = "cloud" => CloudOK(v)
        /\ s = "offloadingratio" => RatioOK(v)
        /\ s = "gentask" => GentaskOK(v)

\* add_cpufreq and add_offloadingratio want their tables in order.
FreqFollows(f, l, s, rows) ==
    (s = "cpufreq" /\ rows # <<>>) => f[Last(rows)].cols[1] >= l.cols[1]
RatioFollows(f, l, s, rows) ==
    (s = "offloadingratio" /\ rows # <<>>) => f[Last(rows)].cols[1] <= l.cols[1]
Follows(f, l, s, rows) == FreqFollows(f, l, s, rows) /\ RatioFollows(f, l, s, rows)

\* The sections whose arrays are large; nothing checks that a line fits in them.
LargeSections == {"task", "network", "netcommander"}

\* The small tables have a bound that is checked, the large ones one that is not.
MemHasRoom(s, rows) == s = "mem" => Len(rows) < MAX_MEMS
TableHasRoom(s, rows) ==
    s \in {"cpufreq", "cloud", "offloadingratio"} => Len(rows) < MAX_TABLE
Overruns(s, rows) ==
    s \in LargeSections /\ Len(rows) >= MAX_ROWS

\* Mutated form: a table that is full takes another line.
AcceptsUnbounded(f, l, s, rows) == Scans(l, s) /\ InRange(l, s) /\ Follows(f, l, s, rows)

\* Line l of section s is accepted behind the lines rows of the file f.
Accepts(f, l, s, rows) ==
    /\ Scans(l, s) /\ InRange(l, s)
    /\ MemHasRoom(s, rows) /\ TableHasRoom(s, rows)
    /\ Follows(f, l, s, rows)

-----------------------------------------------------------------------------
\* fgets returns NULL: the parser of a section returns to parse_conf, which returns.
EndOfFile ==
    /\ status[prog] = "loading" /\ pos > Len(file)
    /\ Ends("loaded")
    /\ UNCHANGED <<file, prog, pos, sect, loaded>>

\* Comments are passed over everywhere, blank lines between sections.
PassOver ==
    /\ status[prog] = "loading" /\ pos <= Len(file)
    /\ \/ file[pos].kind = "comment"
       \/ file[pos].kind = "blank" /\ sect = "none"
    /\ pos' = pos + 1
    /\ UNCHANGED <<file, prog, sect, status, loaded>>

\* Mutated form: the line that ends a section is not handed back.
LeaveSectionConsuming ==
    /\ status[prog] = "loading" /\ pos <= Len(file)
    /\ sect # "none" /\ file[pos].kind \in {"blank", "header"}
    /\ sect' = "none" /\ pos' = pos + 1
    /\ UNCHANGED <<file, prog, status, loaded>>

\* Mutated form: two lines are handed back.
LeaveSectionTwoBack ==
    /\ status[prog] = "loading" /\ pos <= Len(file)
    /\ sect # "none" /\ file[pos].kind \in {"blank", "header"}
    /\ sect' = "none" /\ pos' = pos - 1
    /\ UNCHANGED <<file, prog, status, loaded>>

\* The parser of a section, or skip_section, hands the line back and returns.
LeaveSection ==
    /\ status[prog] = "loading" /\ pos <= Len(file)
    /\ sect # "none" /\ file[pos].kind \in {"blank", "header"}
    /\ sect' = "none"
    /\ UNCHANGED <<file, prog, pos, status, loaded>>

\* Mutated form: a section of the other program is parsed, too.
EnterSectionOfBoth ==
    /\ status[prog] = "loading" /\ pos <= Len(file)
    /\ sect = "none" /\ file[pos].kind \in {"header", "data"}
    /\ IF file[pos].section \notin Sections
       THEN Ends("fatal") /\ UNCHANGED <<pos, sect>>
       ELSE sect' = file[pos].section /\ pos' = pos + 1 /\ UNCHANGED status
    /\ UNCHANGED <<file, prog, loaded>>

\* parse_conf: data where a header is expected, an unknown header, or tasks ahead
\* of the frequencies are fatal; a section of the other program is skipped.
EnterSection ==
    /\ status[prog] = "loading" /\ pos <= Len(file)
    /\ sect = "none" /\ file[pos].kind \in {"header", "data"}
    /\ LET s == file[pos].section
       IN  IF \/ s \notin Sections
              \/ prog = "gastask" /\ s = "task" /\ loaded[prog]["cpufreq"] = <<>>
           THEN Ends("fatal") /\ UNCHANGED <<pos, sect>>
           ELSE /\ sect' = IF s \in Parses(prog) THEN s ELSE "skip"
                /\ pos' = pos + 1
                /\ UNCHANGED status
    /\ UNCHANGED <<file, prog, loaded>>

SkipData ==
    /\ status[prog] = "loading" /\ pos <= Len(file)
    /\ sect = "skip" /\ file[pos].kind = "data"
    /\ pos' = pos + 1
    /\ UNCHANGED <<file, prog, sect, status, loaded>>

\* A line of data: FATAL when it cannot be read, is out of range or out of order, or
\* when a small table is full.  add_task, add_network and add_net_commander check no
\* bound: they store a row behind the end of the array, too, and go on, unless the
\* write brings the program down.  What that row overwrites is not modelled.
ParseData ==
    /\ status[prog] = "loading" /\ pos <= Len(file)
    /\ sect \in Sections /\ file[pos].kind = "data"
    /\ LET rows == loaded[prog][sect]
       IN  \/ /\ ~ Accepts(file, file[pos], sect, rows)
              /\ Ends("fatal") /\ UNCHANGED <<pos, loaded>>
           \/ /\ Accepts(file, file[pos], sect, rows) /\ Overruns(sect, rows)
              /\ Ends("overrun") /\ UNCHANGED <<pos, loaded>>
           \/ /\ Accepts(file, file[pos], sect, rows)
              /\ loaded' = [loaded EXCEPT ![prog][sect] = Append(rows, pos)]
              /\ pos' = pos + 1
              /\ UNCHANGED status
    /\ UNCHANGED <<file, prog, sect>>

LoadStep ==
    EndOfFile \/ PassOver \/ LeaveSection \/ EnterSection \/ SkipData \/ ParseData

-----------------------------------------------------------------------------
(* What loading means, stated without the parser, for any file f.          *)

\* The headers that line i may be under.
Heads(f, i) ==
    {h \in 1..(i - 1) :
        /\ f[h].kind = "header"
        /\ \A k \in (h + 1)..(i - 1) : f[k].kind \notin {"blank", "header"}}

\* The section that line i belongs to: that of the last header before it, unless a
\* blank line comes between.
Governor(f, i) == IF Heads(f, i) = {} THEN "none" ELSE f[Max(Heads(f, i))].section

\* Line k is data for section s, and p parses that section.
IsRow(f, p, s, k) == s \in Parses(p) /\ f[k].kind = "data" /\ Governor(f, k) = s

\* The data of section s for p before line i, in the order of the file.
Rows(f, p, s, i) ==
    LET rows[k \in 0..(i - 1)] ==
          IF k = 0 THEN <<>>
          ELSE IF IsRow(f, p, s, k) THEN Append(rows[k - 1], k) ELSE rows[k - 1]
    IN  rows[i - 1]

\* What program p must end with at line i, when it gets there.
Offence(f, p, i) ==
    LET l == f[i]
        s == Governor(f, i)
    IN  CASE l.kind = "header" ->
                IF \/ l.section \notin Sections
                   \/ p = "gastask" /\ l.section = "task" /\ Rows(f, p, "cpufreq", i) = <<>>
                THEN "fatal" ELSE "none"
          [] l.kind = "data" ->
                IF s = "none" THEN "fatal"
                ELSE IF s \notin Parses(p) THEN "none"
                ELSE IF ~ Accepts(f, l, s, Rows(f, p, s, i)) THEN "fatal" ELSE "none"
          [] OTHER -> "none"

\* Program p finds nothing wrong in the lines before line i.
Faultless(f, p, i) == \A k \in 1..(i - 1) : Offence(f, p, k) = "none"

\* Line i is a row for which the array of its section has no room.
OverrunAt(f, p, i) ==
    \E s \in LargeSections : IsRow(f, p, s, i) /\ Overruns(s, Rows(f, p, s, i))

\* No row of program p is behind the end of its array.
Intact(p) == \A s \in LargeSections : Len(loaded[p][s]) <= MAX_ROWS

\* The hand-written parsers keep the sections apart: as long as no array is outgrown,
\* a program takes exactly the data of its sections, in the order of the file, however
\* often a section is repeated or interrupted by comments, and ends at the first line
\* that the code's own format refuses; it can be brought down only by a row for which
\* there is no room.  Which lines are good is what the sscanf calls and the checks
\* behind them say (Scans, Accepts), not what the docs say: gastask.conf.tmpl:50-54,
\* which README.md:18 refers to, has *task lines of 4 columns and the comment of
\* run.sh:79 names 6, whereas conf_gastask.c:67 wants 8 and refuses both.
LoadedExactly ==
    Intact(prog) =>
        /\ status[prog] = "fatal" =>
              Offence(file, prog, pos) = "fatal" /\ Faultless(file, prog, pos)
        /\ status[prog] = "overrun" =>
              OverrunAt(file, prog, pos) /\ Faultless(file, prog, pos)
        /\ status[prog] = "loaded" =>
              /\ Faultless(file, prog, Len(file) + 1)
              /\ \A s \in Sections : loaded[prog][s] = Rows(file, prog, s, Len(file) + 1)

\* The column of a table, row by row.
Column(p, s, k) == [i \in 1..Len(loaded[p][s]) |-> Values(file[loaded[p][s][i]], s)[k]]

\* The tables whose adders check a bound (memories, frequencies, clouds and ratios)
\* never exceed their arrays, the frequencies never rise and the ratios never fall,
\* although a section may be continued anywhere in the file: what GA.c assumes when it
\* lowers a task's utilization by lowering an index.  The tables of tasks, networks
\* and commanders have no such check, and do exceed theirs: see ParseData.
TablesFit ==
    \A p \in Programs :
        /\ Len(loaded[p]["mem"]) <= MAX_MEMS
        /\ \A s \in {"cpufreq", "cloud", "offloadingratio"} : Len(loaded[p][s]) <= MAX_TABLE
        /\ LET f == Column(p, "cpufreq", 1)
               r == Column(p, "offloadingratio", 1)
           IN  /\ \A i, j \in 1..Len(f) : i <= j => f[i] >= f[j]
               /\ \A i, j \in 1..Len(r) : i <= j => r[i] <= r[j]

=============================================================================
