---------------------------- MODULE MCScheduler ----------------------------
(***************************************************************************)
(* Instances of GeneticScheduler with the evaluation of TaskModel.  Times  *)
(* and sizes are in half seconds and half megabytes (Thousand = 2): three  *)
(* tasks, a fast and a slow frequency, a fast and a slow memory.  On the   *)
(* slow frequency tasks 1 and 2 meet their period in the fast memory only. *)
(***************************************************************************)
EXTENDS GeneticScheduler

CONSTANTS MemCapacity,     \* max_capacity[] of the instance
          RealOffloading   \* 0, or 1 for the Public strategy

Wcets == [i \in Tasks |-> IF i = 3 THEN 3 ELSE 2]
Ratios == IF NRatios = 1 THEN 0 :> 100 * RealOffloading ELSE (0 :> 0 @@ 1 :> 100)

\* The configuration lists the frequencies from fast to slow (cpu.c:12), the tables
\* of GA.c from slow to fast.
RunSlow == (0 :> 1 @@ 1 :> 3)
BilledSlow == (0 :> 3 @@ 1 :> 1)

Model == INSTANCE TaskModel WITH
    wcet <- Wcets,
    period <- [i \in Tasks |-> IF i = 3 THEN 12 ELSE 7 ],
    memreq <- [i \in Tasks |-> IF i = 3 THEN 3 ELSE 2],
    mem_active_pct <- [i \in Tasks |-> 50],
    netcomtime <- [i \in Tasks |-> 1],
    transtime <- [i \in Tasks |-> 1],
    NetCost <- [i \in Tasks |-> 1],
    CpuSlow <- RunSlow,
    CpuIdle <- (0 :> 2 @@ 1 :> 1),
    CpuUnit <- (0 :> (0 :> 8 @@ 1 :> 7) @@ 1 :> (0 :> 3 @@ 1 :> 2)),
    MemSlow <- (0 :> 4 @@ 1 :> 5),
    MemActive <- (0 :> 2 @@ 1 :> 2),
    MemIdle <- (0 :> 1 @@ 1 :> 0),
    max_capacity <- MemCapacity,
    CloudSlow <- (0 :> 1),
    RatioPct <- Ratios,
    PowerAt <- (0 :> 1 @@ 1 :> 9), S <- BilledSlow,
    MemDyn <- 1, MemStat <- 1, NetPower <- 1,
    TotalMemory <- 4, FixedCost <- 1,
    real_offloading <- RealOffloading,
    Thousand <- 2, SlowDen <- 4, Hyper <- 84, CostDen <- 6,
    PenaltyNum <- 3, PenaltyDen <- 2

\* The units are fine enough for the tables above.
ASSUME UnitsAssumption == Model!UnitsConsistent

\* Each plan is evaluated once.
MemFitsTable == [p \in Plans |-> Model!PlanMemFits(p)]
WcetTable == [p \in Plans |-> Model!TaskWcetExceeds(p)]
UtilTable == [p \in Plans |-> Model!PlanUtil(p)]
PowerTable == [p \in Plans |-> Model!PlanPower(p)]
ScoreTable == [p \in Plans |-> Model!PlanScore(p)]

MCMemFits(p) == MemFitsTable[p]
MCWcetExceeds(p) == WcetTable[p]
MCUtil(p) == UtilTable[p]
MCPower(p) == PowerTable[p]
MCScore(p) == ScoreTable[p]

Utilization(percent) == (percent * Model!OneUtil) \div 100
MCUtilOne == Model!OneUtil
Cutoff230 == Utilization(230)
Cutoff150 == Utilization(150)
TwoSmallMemories == (0 :> 3 @@ 1 :> 4)
TwoMemories == (0 :> 5 @@ 1 :> 4)
OneMemory == (0 :> 6)
OneLargeMemory == (0 :> 7)

-----------------------------------------------------------------------------
(* What comments, messages and the README say of the program.              *)

\* init_gene tries to repair a gene at most MAX_TRY times and then gives up with an
\* error message (GA.c:389-406), so that it always ends.
InitGeneGivesUp == (pc = "try") ~> (pc # "try")

\* Under the Public strategy of the README (offloading ratio 1) a task that is
\* offloaded is billed for the network.
OffloadedPaysNetwork ==
    \A g \in ToSet(by_score), i \in Tasks :
        Ratios[genes[g].ratio.attrs[i]] = 100 => Model!Offloaded(i, PlanOf(genes[g]))

=============================================================================
