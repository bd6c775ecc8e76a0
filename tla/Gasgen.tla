------------------------------- MODULE Gasgen -------------------------------
(***************************************************************************)
(* The arithmetic of gen_task.c.  Utilizations and scales are in           *)
(* hundredths; a quotient of doubles that is exact may come out one ulp    *)
(* low and be truncated to the integer below.                              *)
(***************************************************************************)
EXTENDS Integers, Sequences, FiniteSetsExt

\* The values of lo + get_rand(hi - lo + 1) for lo <= hi + 1: none, a division by zero,
\* when hi + 1 = lo.
Draw(lo, hi) == lo..hi

\* The values of x + get_rand(x / 2) - get_rand(x / 2): none, a division by zero, when
\* x < 2.
Spread(x) == IF x \div 2 = 0 THEN {} ELSE (x - (x \div 2 - 1))..(x + (x \div 2 - 1))

\* The truncation of a / b, computed in doubles.
Truncations(a, b) == {a \div b} \cup (IF a % b = 0 /\ a > 0 THEN {a \div b - 1} ELSE {})

\* Mutated form: the period is drawn between the wcet and the nominal duration's double.
DurationsFromZero(wcet, util_cpu, n) ==
    UNION {0..(2 * d) : d \in Truncations(wcet * 100 * n, util_cpu)}

\* do_gen_task: the periods a task with this wcet may get, for a share of util_cpu / n
Durations(wcet, util_cpu, n) ==
    UNION {Spread(d) : d \in Truncations(wcet * 100 * n, util_cpu)}

\* What a memory adds to the utilization of a task that needs 1, for wcet_scale > 0.
Overhead(scale) == (100 * (100 - scale)) \div scale

\* get_mem_util: the memories are filled in the order of the configuration until the
\* extra utilization is used up.  The result stands for the share
\* (full + part / over) / n_mems of the total memory.
MemUtil(scales, extra) ==
    LET step[i \in 1..Len(scales)] ==
          IF i = 1 THEN [full |-> 1, left |-> extra, part |-> 0, over |-> 1]
          ELSE LET s == step[i - 1]
                   o == Overhead(scales[i])
               IN  IF s.left <= 0 \/ s.part > 0 THEN s
                   ELSE IF o < s.left THEN [s EXCEPT !.full = @ + 1, !.left = @ - o]
                   ELSE [s EXCEPT !.part = s.left, !.over = o]
    IN  step[Len(scales)]

\* gen_task: the memory of one of n tasks; without a memory type the double is
\* infinite, and its conversion undefined
MemreqPerTask(mem_total, scales, extra, n) ==
    IF scales = <<>> THEN {0, 2}
    ELSE LET u == MemUtil(scales, extra)
         IN  Truncations(mem_total * (u.full * u.over + u.part), Len(scales) * u.over * n)

\* get_util_overhead_bymem, times the memory per type: the overhead of mem_used when
\* the memories are filled one after the other
OverheadByMem(mem_total, scales, mem_used) ==
    LET per == mem_total \div Len(scales)
        step[i \in 0..Len(scales)] ==
          IF i = 0 THEN [sum |-> 0, used |-> mem_used]
          ELSE LET s == step[i - 1]
               IN  IF s.used < per
                   THEN [sum |-> s.sum + Overhead(scales[i]) * s.used, used |-> 0]
                   ELSE [sum |-> s.sum + Overhead(scales[i]) * per, used |-> s.used - per]
    IN  step[Len(scales)].sum

=============================================================================
