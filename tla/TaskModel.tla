----------------------------- MODULE TaskModel -----------------------------
(***************************************************************************)
(* How gastask evaluates a plan: get_task_utilpower of task.c, and         *)
(* check_memusage, check_utilpower and the cost functions of GA.c.         *)
(*                                                                         *)
(* The code computes in double.  Here every quantity is an integer over a  *)
(* common denominator, so that comparisons are exact: utilization in units *)
(* of 1/OneUtil, cost in units of 1/(CostDen * Thousand), score in units   *)
(* of 1/(CostDen * Thousand * OneUtil * PenaltyDen).  The divisions that   *)
(* the C code does on unsigned operands keep their truncation.             *)
(***************************************************************************)
EXTENDS TaskAttrsOps, FiniteSetsExt

CONSTANTS wcet, period, memreq,  \* per task
          mem_active_pct,        \* per task, in percent
          netcomtime, transtime, \* per task: in the net commander, on the network
          NetCost,               \* per task: the cost of one offloaded run
          CpuSlow, CpuIdle,      \* per frequency: 1 / wcet_scale, power_idle
          CpuUnit,               \* per frequency and memory type: cpu_power_unit
          MemSlow,               \* per memory type: 1 / wcet_scale, times SlowDen
          MemActive, MemIdle,    \* per memory type: power_active, power_idle
          max_capacity,          \* per memory type
          CloudSlow,             \* per cloud: 1 / computation_power
          RatioPct,              \* offloadingratios[], in percent
          PowerAt, S,            \* per frequency index: C * V * V * F, and S
          MemDyn, MemStat,       \* K_DYN (per percent) and K_STAT
          NetPower,              \* net_com_power_unit
          TotalMemory, FixedCost,  \* total_memory; base plus depreciation cost
          real_offloading,       \* the constant of task.c: 0, or 1 in Public mode
          Thousand,              \* ms per second and KB per MB, as the code divides
          SlowDen, Hyper, CostDen,
          PenaltyNum, PenaltyDen \* penalty

CONSTANTS NMems, NCpufreqs

\* Hyper is a multiple of every period, CostDen of every period in seconds; a
\* period of less than a second would make the code divide by zero.
UnitsConsistent ==
    \A i \in Tasks : /\ Hyper % period[i] = 0
                     /\ period[i] >= Thousand
                     /\ CostDen % (period[i] \div Thousand) = 0

TaskSum(f(_)) == MapThenSumSet(f, Tasks)

OneUtil == Hyper * SlowDen

-----------------------------------------------------------------------------
(* task.c                                                                  *)

\* task->wcet * wcet_scaled_cpu * wcet_scaled_mem, times SlowDen
WcetScaled(i, p) == wcet[i] * CpuSlow[p.cpufreq[i]] * MemSlow[p.mem[i]]

TaskWcetExceeds(p) == \E i \in Tasks : WcetScaled(i, p) >= period[i] * SlowDen

\* The part of its period, in units of 1/OneUtil, that t * SlowDen is for task i
Share(i, t) == t * (Hyper \div period[i])

\* putil and pdeadline
TaskUtil(i, p) ==
    Share(i, WcetScaled(i, p) * (1 - real_offloading)
             + CpuSlow[p.cpufreq[i]] * netcomtime[i] * SlowDen * real_offloading)
TaskDeadline(i, p) ==
    Share(i, SlowDen * (CloudSlow[p.cloud[i]] * wcet[i]
                        + CpuSlow[p.cpufreq[i]] * netcomtime[i] + transtime[i])) * real_offloading

\* ppower_cpu, ppower_net_com and ppower_mem, added up
TaskPower(i, p) ==
    LET m == p.mem[i]
        local == Share(i, WcetScaled(i, p))
        netcom == Share(i, netcomtime[i] * SlowDen)
    IN  100 * CpuUnit[p.cpufreq[i]][m] * (IF real_offloading = 1 THEN netcom ELSE local)
        + IF real_offloading = 1
          THEN 100 * NetPower * (netcom + Share(i, transtime[i] * SlowDen))
          ELSE memreq[i] * (100 * MemIdle[m] * OneUtil
                            + mem_active_pct[i] * (MemActive[m] - MemIdle[m]) * local)

-----------------------------------------------------------------------------
(* GA.c                                                                    *)

\* check_memusage: the part of each task that stays counts against its memory
MemUsed(m, p) ==
    TaskSum(LAMBDA i : IF p.mem[i] = m THEN memreq[i] * (100 - RatioPct[p.ratio[i]]) ELSE 0)

PlanMemFits(p) == \A m \in 0..(NMems - 1) : MemUsed(m, p) <= max_capacity[m] * 100

PlanUtil(p) == TaskSum(LAMBDA i : TaskUtil(i, p))

Violations(p) == Cardinality({i \in Tasks : TaskDeadline(i, p) > OneUtil})

\* The idle power of the slowest frequency counts when there is slack.
PlanPower(p) ==
    TaskSum(LAMBDA i : TaskPower(i, p))
    + IF PlanUtil(p) < OneUtil /\ Violations(p) = 0
      THEN CpuIdle[NCpufreqs - 1] * 100 * (OneUtil - PlanUtil(p)) ELSE 0

\* The seconds that compute_local_cost_per_sec bills.
BilledWcet(i) == wcet[i] \div Thousand
BilledPeriod(i) == period[i] \div Thousand

LocalCost(i, f) ==
    Thousand * (PowerAt[f] * BilledWcet(i) * S[f] * (CostDen \div BilledPeriod(i))
                + (memreq[i] \div Thousand) * (mem_active_pct[i] * MemDyn + 100 * MemStat) * CostDen)

OffloadingCost(i) == Thousand * NetCost[i] * (CostDen \div BilledPeriod(i))

\* check_utilpower takes a task for offloaded when its ratio's index is not 0.
Offloaded(i, p) == p.ratio[i] # 0

\* The tasks, the static power of the memory that no local task uses, and the rest.
PlanCost(p) ==
    LET unused == TotalMemory * Thousand
                  - TaskSum(LAMBDA i : IF Offloaded(i, p) THEN 0 ELSE memreq[i])
    IN  TaskSum(LAMBDA i : IF Offloaded(i, p) THEN OffloadingCost(i) ELSE LocalCost(i, p.cpufreq[i]))
        + (IF unused > 0 THEN unused * 100 * MemStat * CostDen ELSE 0)
        + FixedCost * CostDen * Thousand

\* The score is the cost, raised in proportion to the excess utilization.
PlanScore(p) ==
    PlanCost(p) * OneUtil * PenaltyDen
    + IF PlanUtil(p) >= OneUtil \/ Violations(p) > 0
      THEN PlanCost(p) * (PlanUtil(p) - OneUtil) * PenaltyNum ELSE 0

=============================================================================
