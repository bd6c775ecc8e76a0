-------------------------- MODULE GeneticScheduler --------------------------
(***************************************************************************)
(* run_GA of gastask: a population of genes, each a plan that gives every  *)
(* task a memory type, a cloud, a CPU frequency and an offloading ratio.   *)
(* init_populations builds random plans and repairs them until they are    *)
(* admissible; each generation then rebuilds the gene with the worst score *)
(* from two others; report.txt gets a row per report interval and task.txt *)
(* the best plan.                                                          *)
(*                                                                         *)
(* How a plan is evaluated (task.c and the cost functions of GA.c) is a    *)
(* parameter here; module TaskModel has the code's evaluation.  The three  *)
(* linked lists are sequences, as justified by module GeneList.            *)
(***************************************************************************)
EXTENDS TaskAttrsOps, GeneOrder

CONSTANTS NPops, MaxGen,             \* n_pops, max_gen
          NMems, NClouds, NCpufreqs, NRatios,
          Cutoff,                    \* cutoff, in the unit of Util
          UtilOne,                   \* utilization 1.0 in that unit
          MAX_TRY, N_REPORTS,        \* the #defines of GA.c and report.c
          MemFits(_),                \* check_memusage
          WcetExceeds(_),            \* the FATAL of get_task_utilpower
          Util(_), Power(_), Score(_)  \* what check_utilpower computes

\* Up to 16383 genes the unsigned product 8 * alpha * n_pops does not wrap.
ASSUME PopulationAssumption ==
    /\ NPops \in Nat /\ NPops >= 2 /\ NPops <= 16383
    /\ NTasks > 1
    /\ MaxGen \in Nat
    /\ MAX_TRY \in Nat \ {0}
    /\ N_REPORTS \in Nat \ {0}
ASSUME TypesAssumption ==
    /\ NMems \in 1..MAX_ATTRTYPES
    /\ NClouds \in 1..MAX_ATTRTYPES
    /\ NCpufreqs \in 1..MAX_ATTRTYPES
    /\ NRatios \in 1..MAX_ATTRTYPES
    /\ Cutoff \in Int
    /\ UtilOne \in Int

Genes == 1..NPops
VectorsOver(ntypes) == [Tasks -> 0..(ntypes - 1)]
Plans == [mem : VectorsOver(NMems), cloud : VectorsOver(NClouds),
          cpufreq : VectorsOver(NCpufreqs), ratio : VectorsOver(NRatios)]

ASSUME EvaluationAssumption ==
    \A p \in Plans : /\ MemFits(p) \in BOOLEAN /\ WcetExceeds(p) \in BOOLEAN
                     /\ Util(p) \in Int /\ Power(p) \in Int /\ Score(p) \in Int

GeneType == [mem : TaskAttrsType, cloud : TaskAttrsType, cpufreq : TaskAttrsType,
             ratio : TaskAttrsType, util : Int, power : Int, score : Int]

VARIABLES genes,                     \* the gene_t array
          by_util, by_power, by_score,   \* genes_by_util, _power, _score
          pc,                        \* where run_GA is
          cur,                       \* the gene init_gene or crossover works on
          tries,                     \* the loop counter up to MAX_TRY
          gen,                       \* the generation
          intervals,                 \* n_report_intervals
          report,                    \* the rows of report.txt
          task_txt                   \* whether task.txt has been opened, and the plan written

lists == <<by_util, by_power, by_score>>
output == <<gen, intervals, report, task_txt>>
vars == <<genes, by_util, by_power, by_score, pc, cur, tries, gen, intervals, report, task_txt>>

PlanOf(g) == [mem |-> g.mem.attrs, cloud |-> g.cloud.attrs,
              cpufreq |-> g.cpufreq.attrs, ratio |-> g.ratio.attrs]

\* A field of every gene, as the sort key of its list.
Utils(gs) == [g \in Genes |-> gs[g].util]
Powers(gs) == [g \in Genes |-> gs[g].power]
Scores(gs) == [g \in Genes |-> gs[g].score]

-----------------------------------------------------------------------------
(* Pieces of GA.c                                                          *)

\* Mutated form: the score is left as it was.
CheckUtilpowerNoScore(g) ==
    LET p == PlanOf(g)
    IN  IF Util(p) <= Cutoff THEN [g EXCEPT !.util = Util(p), !.power = Power(p)]
                             ELSE [g EXCEPT !.util = Util(p)]

\* check_utilpower: util is stored in any case, power and score only when the
\* utilization is within the cutoff (and then it returns TRUE).
CheckUtilpower(g) ==
    LET p == PlanOf(g)
    IN  IF Util(p) <= Cutoff
        THEN [g EXCEPT !.util = Util(p), !.power = Power(p), !.score = Score(p)]
        ELSE [g EXCEPT !.util = Util(p)]

\* Mutated form: sort_gene forgets the utilization list.
SortGeneTwoLists(gs, g) ==
    /\ by_power' = InsertSorted(by_power, Powers(gs), g)
    /\ by_score' = InsertSorted(by_score, Scores(gs), g)
    /\ UNCHANGED by_util

\* sort_gene, for a gene that is in none of the lists
SortGene(gs, g) ==
    /\ by_util' = InsertSorted(by_util, Utils(gs), g)
    /\ by_power' = InsertSorted(by_power, Powers(gs), g)
    /\ by_score' = InsertSorted(by_score, Scores(gs), g)

\* lower_utilization: first the CPU frequencies and then the ratios, or the
\* other way round; nothing changes when neither can be lowered.
LowerFirst(g, first, second) ==
    IF LowerUtilizationByAttr(g[first]) # {}
    THEN {[g EXCEPT ![first] = ta] : ta \in LowerUtilizationByAttr(g[first])}
    ELSE IF LowerUtilizationByAttr(g[second]) # {}
    THEN {[g EXCEPT ![second] = ta] : ta \in LowerUtilizationByAttr(g[second])}
    ELSE {g}

LowerUtilization(g) == LowerFirst(g, "cpufreq", "ratio") \cup LowerFirst(g, "ratio", "cpufreq")

\* Mutated form: alpha ranges one step too far.
AlphasTooWide == 0..(2 * (NPops + 2) - 1)

\* select_position draws alpha below M * (n_pops + 1) / 2, with M = 4 ...
Alphas == 0..(2 * (NPops + 1) - 1)

\* ... and truncates (sqrt(1 + 8 * alpha * n_pops / M) - 1) / 2 to kvalue: the
\* largest k with (2k + 1)^2 <= 1 + 2 * alpha * n_pops.
IsKvalue(k, alpha) ==
    /\ 2 * k * (k + 1) <= alpha * NPops
    /\ alpha * NPops < 2 * (k + 1) * (k + 2)

Kvalues == {k \in 0..(2 * NPops + 2) : \E alpha \in Alphas : IsKvalue(k, alpha)}

\* select_gene: the gene at position n_pops - kvalue - 1 of the score list, or the
\* last one if the list is shorter (a gene is out while crossover rebuilds it).
SelectGene ==
    {IF NPops - k <= Len(by_score) THEN by_score[NPops - k] ELSE Last(by_score) :
        k \in Kvalues \cap 0..(NPops - 1)}

-----------------------------------------------------------------------------
(* init_populations and init_gene                                          *)

ZeroAttrs == [attrs |-> [i \in Tasks |-> 0], n_tasks_per_type |-> [t \in AttrTypes |-> 0], max_type |-> 0]

\* calloc, and add_report's static interval
Init ==
    /\ genes = [g \in Genes |->
                  [mem |-> ZeroAttrs, cloud |-> ZeroAttrs, cpufreq |-> ZeroAttrs,
                   ratio |-> ZeroAttrs, util |-> 0, power |-> 0, score |-> 0]]
    /\ by_util = <<>> /\ by_power = <<>> /\ by_score = <<>>
    /\ pc = "assign" /\ cur = 1 /\ tries = 0
    /\ gen = 1 /\ intervals = 0 /\ report = <<>> /\ task_txt = [opened |-> FALSE, plans |-> {}]

\* Mutated form: the ratios are random too.
AssignGeneRandomRatio ==
    /\ pc = "assign"
    /\ \E m \in AssignTaskattrs(NMems), f \in AssignTaskattrs(NCpufreqs),
          c \in AssignTaskattrs(NClouds), r \in AssignTaskattrs(NRatios) :
          genes' = [genes EXCEPT ![cur].mem = m, ![cur].cpufreq = f, ![cur].cloud = c, ![cur].ratio = r]
    /\ tries' = 0
    /\ pc' = "try"
    /\ UNCHANGED <<lists, cur, output>>

\* init_gene: a random plan, with every ratio at index 0
AssignGene ==
    /\ pc = "assign"
    /\ \E m \in AssignTaskattrs(NMems), f \in AssignTaskattrs(NCpufreqs), c \in AssignTaskattrs(NClouds) :
          genes' = [genes EXCEPT ![cur].mem = m, ![cur].cpufreq = f, ![cur].cloud = c,
                                 ![cur].ratio = SetupTaskattrs([i \in Tasks |-> 0])]
    /\ tries' = 0
    /\ pc' = "try"
    /\ UNCHANGED <<lists, cur, output>>

\* The guard of another turn of init_gene's loop.
Trying == pc = "try" /\ tries < MAX_TRY

\* init_gene: the memory does not fit, balance_mem_types moves a task.  With one
\* memory type get_rand_except(1, 0) has nothing to return and loops for ever: no
\* step is possible.
Balance ==
    /\ Trying /\ ~ MemFits(PlanOf(genes[cur]))
    /\ \E m \in BalanceMemTypes(genes[cur].mem, NMems) : genes' = [genes EXCEPT ![cur].mem = m]
    /\ tries' = tries + 1
    /\ UNCHANGED <<lists, pc, cur, output>>

\* get_task_utilpower: a task cannot finish within its period at all, exit(3)
ScaledWcetFatal ==
    /\ Trying /\ MemFits(PlanOf(genes[cur]))
    /\ WcetExceeds(PlanOf(genes[cur]))
    /\ pc' = "fatal"
    /\ UNCHANGED <<genes, lists, cur, tries, output>>

\* What check_memusage and get_task_utilpower let through.
Evaluable(g) == MemFits(PlanOf(g)) /\ ~ WcetExceeds(PlanOf(g))

\* init_gene: check_utilpower accepts, and the gene is listed
Admit ==
    /\ Trying /\ Evaluable(genes[cur])
    /\ Util(PlanOf(genes[cur])) <= Cutoff
    /\ genes' = [genes EXCEPT ![cur] = CheckUtilpower(@)]
    /\ SortGene(genes', cur)
    /\ IF cur < NPops THEN cur' = cur + 1 /\ pc' = "assign"
                      ELSE cur' = cur /\ pc' = "report"
    /\ UNCHANGED <<tries, output>>

\* init_gene: check_utilpower refuses, lower_utilization lowers an attribute
Lower ==
    /\ Trying /\ Evaluable(genes[cur])
    /\ Util(PlanOf(genes[cur])) > Cutoff
    /\ \E g \in LowerUtilization(CheckUtilpower(genes[cur])) : genes' = [genes EXCEPT ![cur] = g]
    /\ tries' = tries + 1
    /\ UNCHANGED <<lists, pc, cur, output>>

\* init_gene: MAX_TRY turns were not enough, exit(3)
InitFatal ==
    /\ pc = "try" /\ tries = MAX_TRY
    /\ pc' = "fatal"
    /\ UNCHANGED <<genes, lists, cur, tries, output>>

-----------------------------------------------------------------------------
(* crossover                                                               *)

\* Mutated form: the newborn replaces the best gene.
NewbornBest == by_score[1]

\* get_newborn: the gene at the end of the score list ...
Newborn == Last(by_score)

\* ... leaves the three lists.
GetNewborn ==
    /\ pc = "loop" /\ gen <= MaxGen
    /\ cur' = Newborn
    /\ by_util' = Unlisted(by_util, Newborn)
    /\ by_power' = Unlisted(by_power, Newborn)
    /\ by_score' = Unlisted(by_score, Newborn)
    /\ tries' = 0
    /\ pc' = "cross"
    /\ UNCHANGED <<genes, output>>

\* do_crossover: the vectors the newborn inherits; its cloud vector stays its own
Inherited(g, g1, g2, crosspt_ratio, crosspt_cpufreq, crosspt_mem) ==
    [g EXCEPT !.mem = InheritValues(g1.mem, g2.mem, crosspt_mem),
              !.ratio = InheritValues(g1.ratio, g2.ratio, crosspt_ratio),
              !.cpufreq = InheritValues(g1.cpufreq, g2.cpufreq, crosspt_cpufreq)]

\* The children of two parents, one for each choice of the three points
Children(g1, g2) ==
    {Inherited(genes[cur], genes[g1], genes[g2], r, f, m) : r, f, m \in 1..(NTasks - 1)}

\* Mutated form: the child is not compared with its parents.
MatchesUnchecked(child, g1, g2) == g1 # g2

\* do_crossover: a child with a score above either parent's is refused
MatchesParents(child, g1, g2) ==
    child.score <= genes[g1].score /\ child.score <= genes[g2].score

\* do_crossover returns TRUE: the newborn is listed again, and the generation ends
Accept(g1, g2, child) ==
    /\ Evaluable(child)
    /\ Util(PlanOf(child)) <= Cutoff
    /\ MatchesParents(CheckUtilpower(child), g1, g2)
    /\ genes' = [genes EXCEPT ![cur] = CheckUtilpower(child)]
    /\ SortGene(genes', cur)
    /\ gen' = gen + 1
    /\ pc' = "report"
    /\ UNCHANGED <<cur, tries, intervals, report, task_txt>>

\* Mutated form: a refused child is not counted.
RejectUncounted(g1, g2, child) ==
    /\ \/ ~ MemFits(PlanOf(child))
       \/ Evaluable(child) /\ Util(PlanOf(child)) > Cutoff
       \/ Evaluable(child) /\ ~ MatchesParents(CheckUtilpower(child), g1, g2)
    /\ genes' = [genes EXCEPT ![cur] = child]
    /\ UNCHANGED <<lists, pc, cur, tries, output>>

\* do_crossover returns FALSE: the newborn keeps the vectors it was given, and what
\* check_utilpower stored before the refusal
Reject(g1, g2, child) ==
    /\ \/ /\ ~ MemFits(PlanOf(child))
          /\ genes' = [genes EXCEPT ![cur] = child]
       \/ /\ Evaluable(child)
          /\ \/ Util(PlanOf(child)) > Cutoff
             \/ ~ MatchesParents(CheckUtilpower(child), g1, g2)
          /\ genes' = [genes EXCEPT ![cur] = CheckUtilpower(child)]
    /\ tries' = tries + 1
    /\ UNCHANGED <<lists, pc, cur, output>>

\* do_crossover: the child has a slow frequency of one parent and a slow memory of
\* the other for the same task, and get_task_utilpower exits
CrossWcetFatal(child) ==
    /\ MemFits(PlanOf(child)) /\ WcetExceeds(PlanOf(child))
    /\ genes' = [genes EXCEPT ![cur] = child]
    /\ pc' = "fatal"
    /\ UNCHANGED <<lists, cur, tries, output>>

\* crossover: one turn of its loop, with two different parents.  With a single
\* gene listed, gene2 never differs from gene1 and the inner loop never ends: no step
\* is possible.
Crossover ==
    /\ pc = "cross" /\ tries < MAX_TRY
    /\ \E g1 \in SelectGene : \E g2 \in SelectGene \ {g1} : \E child \in Children(g1, g2) :
          Accept(g1, g2, child) \/ Reject(g1, g2, child) \/ CrossWcetFatal(child)

\* crossover: MAX_TRY children were refused, exit(3)
CrossFatal ==
    /\ pc = "cross" /\ tries = MAX_TRY
    /\ pc' = "fatal"
    /\ UNCHANGED <<genes, lists, cur, tries, output>>

-----------------------------------------------------------------------------
(* report.c                                                                *)

\* The row add_report prints; its cost_min comes from the head of the score list
\* unless that gene is above 3.0 or its score negative, its util_min and util_max from
\* the util list.
Row ==
    [gen |-> gen,
     cost_min |-> IF genes[by_score[1]].util <= 3 * UtilOne /\ genes[by_score[1]].score >= 0
                  THEN genes[by_score[1]].score ELSE genes[Last(by_score)].score,
     cost_max |-> genes[Last(by_score)].score,
     util_min |-> genes[by_util[1]].util,
     util_max |-> genes[Last(by_util)].util]

\* add_report: the first call fixes the interval and prints, the others print every
\* interval-th generation and generation max_gen
AddReport ==
    /\ pc = "report"
    /\ IF intervals = 0
       THEN /\ intervals' = IF MaxGen \div N_REPORTS = 0 THEN 1 ELSE MaxGen \div N_REPORTS
            /\ report' = Append(report, Row)
       ELSE /\ report' = IF gen % intervals # 0 /\ gen # MaxGen THEN report ELSE Append(report, Row)
            /\ UNCHANGED intervals
    /\ pc' = "loop"
    /\ UNCHANGED <<genes, lists, cur, tries, gen, task_txt>>

\* save_task_infos: task.txt is truncated and gets its header, and then the plan of
\* the best gene unless that gene is above 2.0, exit(2)
SaveTaskInfos ==
    /\ pc = "loop" /\ gen > MaxGen
    /\ IF genes[by_score[1]].util > 2 * UtilOne
       THEN task_txt' = [opened |-> TRUE, plans |-> {}] /\ pc' = "fatal"
       ELSE task_txt' = [opened |-> TRUE, plans |-> {PlanOf(genes[by_score[1]])}] /\ pc' = "done"
    /\ UNCHANGED <<genes, lists, cur, tries, gen, intervals, report>>

-----------------------------------------------------------------------------
Next ==
    \/ AssignGene \/ Balance \/ ScaledWcetFatal \/ Admit \/ Lower \/ InitFatal
    \/ GetNewborn \/ Crossover \/ CrossFatal
    \/ AddReport \/ SaveTaskInfos

Spec == Init /\ [][Next]_vars

\* gastask is one sequential process.
FairSpec == Spec /\ WF_vars(Next)

-----------------------------------------------------------------------------
(* Properties                                                              *)

Rows == [gen : Nat, cost_min : Int, cost_max : Int, util_min : Int, util_max : Int]

\* Every variable has the shape of its C counterpart.
TypeOK ==
    /\ genes \in [Genes -> GeneType]
    /\ by_util \in Seq(Genes) /\ by_power \in Seq(Genes) /\ by_score \in Seq(Genes)
    /\ pc \in {"assign", "try", "report", "loop", "cross", "done", "fatal"}
    /\ cur \in Genes
    /\ tries \in 0..MAX_TRY
    /\ gen \in 1..(MaxGen + 1)
    /\ intervals \in Nat
    /\ report \in Seq(Rows)
    /\ task_txt.opened \in BOOLEAN /\ task_txt.plans \subseteq Plans

\* The genes that must be listed at each point of run_GA.
ExpectedListed ==
    CASE pc \in {"assign", "try"} -> 1..(cur - 1)
      [] pc = "cross" -> Genes \ {cur}
      [] pc \in {"report", "loop", "done"} -> Genes
      [] OTHER -> ToSet(by_score)

\* genes_by_util, genes_by_power and genes_by_score list the same genes, each one
\* once: everyone between generations, everyone but the newborn during crossover.
\* add_report and save_task_infos take heads and tails of these lists unchecked.
ListsAgree ==
    \A l \in {by_util, by_power, by_score} :
        /\ ToSet(l) = ExpectedListed
        /\ Len(l) = Cardinality(ExpectedListed)

\* The three lists stay sorted by the genes' current util, power and score,
\* although a gene's values change while it is out of the lists.
ListsSorted ==
    /\ IsOrdered(by_util, Utils(genes))
    /\ IsOrdered(by_power, Powers(genes))
    /\ IsOrdered(by_score, Scores(genes))

\* The three intrusive lists are right at every point of run_GA: the same genes in all
\* of them, those expected, and in order.
ListsRight == ListsAgree /\ ListsSorted

\* A listed gene is admissible and its cached values are those of its current plan:
\* no repair step or refused child leaves a stale util, power or score behind in the
\* lists, although check_utilpower stores util even when it refuses.
ListedEvaluated ==
    \A g \in ToSet(by_score) :
        LET p == PlanOf(genes[g])
        IN  /\ Evaluable(genes[g])
            /\ Util(p) <= Cutoff
            /\ genes[g].util = Util(p) /\ genes[g].power = Power(p) /\ genes[g].score = Score(p)

\* Every attribute of an assigned gene indexes a configured table entry, and every
\* cached count is exact, through repairs and crossovers.
VectorCounted(ta, ntypes) ==
    /\ \A i \in Tasks : ta.attrs[i] < ntypes
    /\ \A t \in AttrTypes : ta.n_tasks_per_type[t] = CountOf(ta.attrs, t)

VectorsCounted ==
    \A g \in ToSet(by_score) \cup (IF pc \in {"try", "cross"} THEN {cur} ELSE {}) :
        /\ VectorCounted(genes[g].mem, NMems)
        /\ VectorCounted(genes[g].cloud, NClouds)
        /\ VectorCounted(genes[g].cpufreq, NCpufreqs)
        /\ VectorCounted(genes[g].ratio, NRatios)

\* With at most two memories, max_type of a listed or repaired gene's memory vector
\* is a most populated one, so balance_mem_types moves a task out of a fullest
\* memory.  (With three or more it is not: max_type is compared only with the type
\* that gained a task.)
MemPeakIsMax ==
    \A g \in ToSet(by_score) \cup (IF pc \in {"try", "cross"} THEN {cur} ELSE {}) :
        NMems <= 2 => genes[g].mem.max_type \in PeakTypes(genes[g].mem.attrs)

\* The caches of every vector in use describe it, in every step of a repair or a
\* crossover: exact counts, and the peak that rebalancing relies on.
VectorsRight == VectorsCounted /\ MemPeakIsMax

\* Every task of every gene keeps the first ratio of the table: init_gene starts all of
\* them at index 0, and whatever follows lowers an index or mixes two parents' vectors.
\* What that means depends on the table.  With the ratios 0 and 1 of run.sh and of
\* gastask.conf.tmpl:35-36 the search never tries the second, and reports an offloading
\* ratio of 0 (report.c:125); with the single 1 of the README's Public strategy every
\* task is offloaded.
FirstRatioOnly ==
    \A g \in Genes, i \in Tasks : genes[g].ratio.attrs[i] = 0

\* The ASSERT of select_position holds for every random draw.
SelectPositionAsserts == pc = "cross" => \A k \in Kvalues : NPops > k

\* A new generation is nowhere worse than the last: place by place in the score
\* list, the score does not rise, and the newborn is no worse than the gene that
\* was second to last before.
GenerationsImprove ==
    [][(pc = "cross" /\ pc' = "report") =>
          /\ \A k \in 1..(NPops - 1) :
                Scores(genes')[by_score'[k]] <= Scores(genes)[by_score[k]]
          /\ Scores(genes')[by_score'[NPops]] = Scores(genes)[by_score[NPops - 1]]]_vars

\* task.txt gets a plan that fits, that is within the cutoff and within 2.0, and
\* whose score no reported generation has beaten.
SavedIsBest ==
    \A p \in task_txt.plans :
        /\ MemFits(p) /\ ~ WcetExceeds(p)
        /\ Util(p) <= Cutoff /\ Util(p) <= 2 * UtilOne
        /\ \A g \in Genes : Score(p) <= genes[g].score
        /\ \A i \in 1..Len(report) : Score(p) <= report[i].cost_min

\* gastask terminates: it writes task.txt or exits with an error.
Termination == <>(pc \in {"done", "fatal"})

=============================================================================
