----------------------------- MODULE MCPipeline -----------------------------
(***************************************************************************)
(* The configurations of the run.  Alone: for each section, every file of  *)
(* its header and up to three more lines: data for it, good and bad, blank *)
(* lines, comments, the header again and another one.  From the script: a  *)
(* template with feasible and with infeasible parameters.  Of the draws    *)
(* the smallest and the largest are tried.                                 *)
(***************************************************************************)
EXTENDS Pipeline

Samples(s) ==
    CASE s = "mem" -> {Named(<<9, 100, 0, 0>>), Named(<<0, 80, 0, 0>>), Data(<<7, 9, 50, 0, 0>>), Data(<<9, 50, 0, 0>>)}
      [] s = "cpufreq" -> {Data(<<100, 1, 1>>), Data(<<50, 1, 1>>), Data(<<150, 1, 1>>), Data(<<50, 1>>)}
      [] s = "offloadingratio" -> {Data(<<0>>), Data(<<100>>), Data(<<101>>)}
      [] s = "cloud" -> {Named(<<200, 4, 1, 10, 100>>), Named(<<200, 4, 1, 0, 100>>), Named(<<200, 4, 1, 10, 150>>)}
      [] s = "task" -> {Data(<<1, 2, 3, 10, 5, 6, 7, 0>>), Data(<<2, 2, 3, 10, 5, 6, 7, 0>>), Data(<<10, 30, 200, 10>>)}
      [] s = "genetic" -> {Data(<<100, 10, 110, 150>>), Data(<<100, 10, 110>>)}
      [] s = "gentask" -> {Data(<<1, 2, 40, 80, 90, 2, 4, 4, 5, 5, 6, 6>>), Data(<<1, 2, 40, 95, 90, 2, 4, 4, 5, 5, 6, 6>>)}
      [] OTHER -> {Data(<<8, 9, 8, 9, 1>>), Data(<<8>>)}

\* What may precede: gastask refuses tasks ahead of frequencies.
Preludes(s) == IF s = "task" THEN {<<>>, <<Header("cpufreq"), Data(<<100, 1, 1>>)>>} ELSE {<<>>}

MCFiles ==
    UNION {{a \o <<Header(s)>> \o b :
               a \in Preludes(s),
               b \in BoundedSeq(Samples(s) \cup {Header(s), Header("network"), Blank, Comment}, 3)} :
           s \in Sections}
    \cup BoundedSeq({Header("unknown"), Header("mem"), Data(<<1, 2>>), Blank, Comment}, 3)

Memories == {<<>>, <<100>>, <<100, 80>>, <<100, 50, 25>>}

Template(mems, gentask, gennet, gencom) ==
    <<Comment, Header("gentask"), Data(gentask), Blank, Header("gennetwork"), Data(gennet),
      Header("gennetcommander"), Data(gencom), Blank, Header("cpufreq"), Data(<<100, 1, 1>>),
      Comment, Data(<<50, 1, 1>>), Blank, Header("mem")>>
    \o [i \in 1..Len(mems) |-> Named(<<20, mems[i], 1, 1>>)]
    \o <<Blank, Comment, Header("network")>>

\* wcet_min and wcet_max, mem_total, util_cpu and util_target, n_tasks
Gentask(r, total, u, n) == <<r[1], r[2], total, u[1], u[2], n, 4, 4, 5, 5, 6, 6>>

MCTemplates ==
    {Template(mems, Gentask(r, total, u, n), <<8, 8, 80, 80, 2>>, <<1, 1, 2, 2, 2>>) :
        mems \in Memories, r \in {<<0, 1>>, <<1, 2>>, <<2, 1>>}, total \in {2, 60},
        u \in {<<40, 60>>, <<80, 90>>, <<90, 80>>}, n \in {1, 2}}
    \cup {Template(<<100, 80>>, Gentask(<<1, 1>>, 12, <<60, 80>>, n), net, com) :
              n \in {0, 2, 3},
              net \in {<<9, 8, 80, 80, 1>>, <<8, 9, 80, 80, 2>>, <<8, 8, 80, 80, 3>>, <<8, 8, 80, 80, 0>>},
              com \in {<<1, 1, 3, 2, 1>>, <<1, 1, 2, 2, 3>>, <<1, 2, 2, 2, 2>>, <<1, 1, 2, 2, 0>>}}

\* Nothing is left, the networks of a run that ended, or all files of one that was
\* killed, the tasks among them with a line that is cut.
MCLeftovers ==
    LET networks == <<Data(<<80, 800>>)>>
    IN  {<< <<>>, <<>>, <<>> >>, << <<>>, networks, <<>> >>,
         << <<Data(<<1, 2, 3, 10, 5, 6, 7, 0>>), Data(<<1, 2, 3>>)>>, networks, <<Data(<<3, 4>>)>> >>}

\* get_util_overhead_bymem undoes get_mem_util: filling the memory that the one
\* computes costs exactly the utilization the other was given, when the first memory
\* costs nothing, the others can cost that much, and no division leaves a rest.
ASSUME OverheadRoundTrip ==
    \A scales \in Memories \ {<<>>}, extra \in {0, 10, 20, 50, 100, 130} :
        LET total == 300 * Len(scales)
            u == MemUtil(scales, extra)
            used == total * (u.full * u.over + u.part)
            share == Len(scales) * u.over
        IN  (/\ MapThenSumSet(LAMBDA i : Overhead(scales[i]), 1..Len(scales)) >= extra
             /\ used % share = 0)
            => OverheadByMem(total, scales, used \div share) = extra * (total \div Len(scales))

MCSample(S) == IF S = {} THEN {} ELSE {Min(S), Max(S)}

=============================================================================
