------------------------------ MODULE Pipeline ------------------------------
(***************************************************************************)
(* A workload on its way into the scheduler, as run.sh prepares it: gasgen *)
(* loads a configuration that ends in an empty *network section, writes    *)
(* three files, the script appends them to the configuration, and gastask  *)
(* loads the result.  The script looks at no exit status.  A configuration *)
(* may also be given to either program alone.                              *)
(***************************************************************************)
EXTENDS ConfLoader, Gasgen

CONSTANTS Files,      \* configurations that a program loads on its own
          Templates,  \* configurations that the script starts from
          Leftovers,  \* the tasks, networks and commanders that an earlier use left
          MAX_BOOL,   \* the entries that gen_task allocates for offloading_bool
          Sample(_)   \* bound: the draws, of all that are possible, that are tried

ASSUME AllocationAssumption == MAX_BOOL \in Nat \ {0}

\* What the script writes before it starts gasgen: the sections of gasgen, whose %u
\* columns are not negative, those of gastask, which gastask accepts, frequencies
\* among them, and last the header of the networks, with no data for the three
\* sections that the script fills later.
IsTemplate(t) ==
    /\ t # <<>> /\ Last(t) = Header("network")
    /\ \A i \in 1..(Len(t) - 1) :
          t[i].kind = "header" => t[i].section \notin {"task", "network", "netcommander"}
    /\ \A i \in 1..Len(t) :
          (t[i].kind = "data" /\ Governor(t, i) \in {"gennetwork", "gennetcommander"})
              => t[i].cols \in Seq(Nat)
    /\ Faultless(t, "gastask", Len(t) + 1)
    /\ Rows(t, "gastask", "cpufreq", Len(t) + 1) # <<>>

ASSUME FilesAssumption ==
    /\ \A f \in Files \cup Templates : f \in Seq(Lines)
    /\ \A t \in Templates : IsTemplate(t)

\* What gasgen writes: numbers, without a name.
PlainData == {l \in Lines : l.kind = "data" /\ l.named = FALSE}

ASSUME LeftoversAssumption ==
    \A x \in Leftovers : Len(x) = 3 /\ \A k \in 1..3 : x[k] \in Seq(PlainData)

VARIABLES stage,          \* what is being done
          task_txt,       \* task_generated.txt
          network_txt,    \* network_generated.txt
          commander_txt   \* network_commander_generated.txt

vars == <<file, prog, pos, sect, status, loaded, stage, task_txt, network_txt, commander_txt>>
generated == <<task_txt, network_txt, commander_txt>>

NothingLoaded == [p \in Programs |-> [s \in Sections |-> <<>>]]

\* The files may be there from an earlier use.  The script moves two of them away
\* (run.sh:86-87) and leaves the third; a script killed before that, and gasgen run by
\* hand (README.md:19-26), leave all three.
Init ==
    /\ prog \in Programs
    /\ pos = 1 /\ sect = "none"
    /\ status = [p \in Programs |-> IF p = prog THEN "loading" ELSE "waiting"]
    /\ loaded = NothingLoaded
    /\ \/ /\ file \in Files /\ stage = "alone"
          /\ task_txt = <<>> /\ network_txt = <<>> /\ commander_txt = <<>>
       \/ /\ file \in Templates /\ stage = "script" /\ prog = "gasgen"
          /\ \E x \in Leftovers : task_txt = x[1] /\ network_txt = x[2] /\ commander_txt = x[3]

-----------------------------------------------------------------------------
(* gasgen, once it has loaded the configuration                            *)

\* A parameter that parse_gen* has set; 0 when there was no such section.
Param(s, k) ==
    LET rows == loaded["gasgen"][s]
    IN  IF rows = <<>> THEN 0 ELSE file[Last(rows)].cols[k]

NTasksTarget == Param("gentask", 6)
Scales == Column("gasgen", "mem", 2)
MemreqsPerTask ==
    MemreqPerTask(Param("gentask", 3), Scales, Param("gentask", 5) - Param("gentask", 4), NTasksTarget)

\* gen_task: the file of the tasks is emptied, and one flag per task is set in an array
\* of MAX_BOOL; past its end that destroys the heap, and does harm or not.
GenOffloadingBool ==
    /\ stage = "script" /\ status["gasgen"] = "loaded"
    /\ \/ stage' = "gen_task" /\ UNCHANGED status
       \/ NTasksTarget > MAX_BOOL /\ Ends("crashed") /\ stage' = "append"
    /\ task_txt' = <<>>
    /\ UNCHANGED <<file, prog, pos, sect, loaded, network_txt, commander_txt>>

\* The draws from S that are tried.
Sampled(S) == S \cap Sample(S)

\* do_gen_task: mem_active_ratio, which nothing checks, is about a tenth
DoGenTask ==
    /\ stage = "gen_task" /\ Len(task_txt) < NTasksTarget
    /\ \E w \in Draw(Param("gentask", 1), Param("gentask", 2)),
         m \in Sampled(UNION {Spread(x) : x \in MemreqsPerTask}),
         size \in Draw(Param("gentask", 7), Param("gentask", 8)),
         input \in Draw(Param("gentask", 9), Param("gentask", 10)),
         output \in Draw(Param("gentask", 11), Param("gentask", 12)) :
          \E d \in Sampled(Durations(w, Param("gentask", 4), NTasksTarget)) :
             task_txt' = Append(task_txt, Data(<<w, d, m, 10, size, input, output, 0>>))
    /\ UNCHANGED <<file, loader, stage, network_txt, commander_txt>>

\* What is in a file after a crash: stdio has written as much as it has, and may have
\* cut a line.
Flushed(lines) ==
    {SubSeq(lines, 1, n) : n \in 0..Len(lines)}
    \cup {Append(SubSeq(lines, 1, n), Data(SubSeq(lines[n + 1].cols, 1, 3))) : n \in 0..(Len(lines) - 1)}

\* get_rand(0) divides by zero: for the period, the memory or a size of some task.
\* Which wcet is drawn may decide it.
TaskCrash ==
    /\ stage = "gen_task" /\ Len(task_txt) < NTasksTarget
    /\ \/ \E w \in Draw(Param("gentask", 1), Param("gentask", 2)) :
             \E d \in Truncations(w * 100 * NTasksTarget, Param("gentask", 4)) : Spread(d) = {}
       \/ \E m \in MemreqsPerTask : Spread(m) = {}
       \/ \E k \in {1, 7, 9, 11} : Draw(Param("gentask", k), Param("gentask", k + 1)) = {}
    /\ Ends("crashed")
    /\ stage' = "append"
    /\ task_txt' \in Flushed(task_txt)
    /\ UNCHANGED <<file, prog, pos, sect, loaded, network_txt, commander_txt>>

\* The file is closed; the summary of gen_task divides by n_mems.
GenTaskReturns ==
    /\ stage = "gen_task" /\ Len(task_txt) = NTasksTarget
    /\ IF Scales = <<>>
       THEN Ends("crashed") /\ stage' = "append"
       ELSE stage' = "gen_network" /\ UNCHANGED status
    /\ UNCHANGED <<file, prog, pos, sect, loaded, generated>>

\* The n lines of gen_network or gen_net_commander.
PairLines(s) ==
    [1..Param(s, 5) -> {Data(v) : v \in Draw(Param(s, 1), Param(s, 2)) \X Draw(Param(s, 3), Param(s, 4))}]

\* Either program part: the file is rewritten, or a draw divides by zero; what has
\* been written of it so far is lost with the buffer.
GenPairs(at, s, l) ==
    /\ stage = at
    /\ IF Param(s, 5) > 0 /\ PairLines(s) = {}
       THEN Ends("crashed") /\ stage' = "append"
       ELSE stage' = l /\ (IF l = "append" THEN Ends("done") ELSE UNCHANGED status)
    /\ UNCHANGED <<file, prog, pos, sect, loaded, task_txt>>

\* Mutated form: the file is only appended to.
GenNetworkKeeping ==
    /\ GenPairs("gen_network", "gennetwork", "gen_commander")
    /\ IF stage' = "append" THEN UNCHANGED network_txt
       ELSE \E lines \in PairLines("gennetwork") : network_txt' = network_txt \o lines
    /\ UNCHANGED commander_txt

GenNetwork ==
    /\ GenPairs("gen_network", "gennetwork", "gen_commander")
    /\ IF stage' = "append" THEN network_txt' = <<>>
       ELSE network_txt' \in PairLines("gennetwork")
    /\ UNCHANGED commander_txt

GenNetCommander ==
    /\ GenPairs("gen_commander", "gennetcommander", "append")
    /\ IF status'["gasgen"] = "crashed" THEN commander_txt' = <<>>
       ELSE commander_txt' \in PairLines("gennetcommander")
    /\ UNCHANGED network_txt

\* gasgen has failed to load the configuration: the script goes on.
GasgenFatal ==
    /\ stage = "script" /\ status["gasgen"] \in {"fatal", "overrun"}
    /\ stage' = "append"
    /\ UNCHANGED <<file, loader, generated>>

\* run.sh: the files behind their headers, and gastask
AppendAndRun ==
    /\ stage = "append"
    /\ file' = file \o network_txt
               \o <<Blank, Comment, Header("netcommander")>> \o commander_txt
               \o <<Blank, Comment, Header("task")>> \o task_txt
    /\ Start("gastask")
    /\ stage' = "gastask"
    /\ UNCHANGED <<loaded, generated>>

Load == LoadStep /\ UNCHANGED <<stage, generated>>

Next ==
    \/ Load \/ GenOffloadingBool \/ DoGenTask \/ TaskCrash \/ GenTaskReturns
    \/ GenNetwork \/ GenNetCommander \/ GasgenFatal \/ AppendAndRun

Spec == Init /\ [][Next]_vars /\ WF_vars(Next)

-----------------------------------------------------------------------------
\* Every variable has its type; the parser of a section runs only in a program that
\* parses it.
TypeOK ==
    /\ prog \in Programs
    /\ pos \in 1..(Len(file) + 1)
    /\ sect \in {"none", "skip"} \cup Parses(prog)
    /\ status \in [Programs -> {"waiting", "loading", "loaded", "fatal", "overrun", "crashed", "done"}]
    /\ stage \in {"alone", "script", "gen_task", "gen_network", "gen_commander", "append", "gastask"}
    /\ \A p \in Programs, s \in Sections : ToSet(loaded[p][s]) \subseteq 1..Len(file)

\* The parameters of gasgen are such that its draws are defined and a task's share of
\* the CPU is a third at most.
FeasibleParameters ==
    /\ Scales # <<>> /\ Param("gentask", 4) > 0
    /\ NTasksTarget \in 1..Min({MAX_BOOL, MAX_ROWS})
    /\ 3 * Param("gentask", 4) <= 100 * NTasksTarget
    /\ Param("gentask", 1) >= 1
    /\ \A k \in {1, 7, 9, 11} : Param("gentask", k) <= Param("gentask", k + 1)
    /\ MemreqsPerTask \subseteq Nat \ {0, 1}
    /\ \A s \in {"gennetwork", "gennetcommander"} :
          /\ Param(s, 1) <= Param(s, 2) /\ Param(s, 3) <= Param(s, 4)
          /\ Param(s, 5) <= MAX_ROWS

\* They are, and gasgen accepts the configuration.
Feasible == Faultless(file, "gasgen", Len(file) + 1) /\ FeasibleParameters

Complete ==
    /\ Len(loaded["gastask"]["task"]) = NTasksTarget
    /\ Len(loaded["gastask"]["network"]) = Param("gennetwork", 5)
    /\ Len(loaded["gastask"]["netcommander"]) = Param("gennetcommander", 5)

\* With such parameters gastask accepts whatever gasgen draws: every generated task
\* has a period above its wcet, and all tasks, networks and commanders arrive.
FeasibleArrives ==
    (stage = "gastask" /\ Feasible)
        => /\ status["gasgen"] = "done"
           /\ status["gastask"] \in {"loading", "loaded"}
           /\ status["gastask"] = "loaded" => Complete

\* With any parameters, whatever an earlier use left in the three files, and for every
\* place where gasgen may crash: when gasgen came to its end and gastask has loaded the
\* configuration, without a row behind the end of an array, it holds the workload of
\* this run and nothing of another, because each part of gasgen rewrites its file
\* (gen_task.c:105, gen_network.c:20, gen_netcommander.c:20).  When gasgen failed
\* nothing of the kind holds: the script goes on with whatever is in the files.
NothingLeftOver ==
    (/\ stage = "gastask" /\ status["gasgen"] = "done"
     /\ status["gastask"] = "loaded" /\ Intact("gastask")) => Complete

\* Loading ends: the lines that a parser hands back are always taken by the next one,
\* and the pipeline comes to the end of gastask's load.
LoadingEnds == <>[](status[prog] # "loading" /\ stage \in {"alone", "gastask"})

=============================================================================
