# Mutual Edge: a TLA+ verification project

The repository has two programs of its own that keep interesting state, with
the tools that feed them, and a small ledger beside them:

* **gastask**, a genetic scheduler. It reads tasks, memories, CPU frequencies,
  clouds and offloading ratios from a configuration, evolves a population of
  plans, and writes the best one to `task.txt`. It is one sequential process;
  what makes it hard is long sequences of incremental updates to cached state
  (counts, three intrusive linked lists, cached scores) and random choices.
* **secure_sgx**, an offloading prototype: an enclave, a gateway and IIoT
  devices that exchange untyped, length-prefixed messages over sockets. What
  makes it hard is concurrency, start-up order and failures: every error is an
  `exit`, and everyone else must notice.
* **gasgen and run.sh**, which generate a workload, append it to a configuration
  and hand it to gastask. Nobody looks at an exit status on the way.
* **mileage_cc.go**, a chaincode that reads, changes and writes balances on a
  Fabric ledger, where transactions run before they are ordered.

## 1. Inventory

| Part | State | Operations | Talks to | Hard because |
|---|---|---|---|---|
| Attribute vectors (`taskattrs_t`, GA.c) | `attrs[]`, `n_tasks_per_type[]`, `max_type` | setup, assign, balance, lower, inherit | gene | caches kept by hand |
| Gene lists (ecm_list.h, `sort_gene_*`) | `next`/`prev` of three lists in every gene | init, delete, insert before, walk | genetic algorithm | pointer surgery; keys change off-list |
| Genetic algorithm (GA.c) | genes, lists, generation, try counters | `init_gene`, `crossover`, `run_GA` | evaluation, reports | random retries, five fatal exits |
| Evaluation (task.c, GA.c) | none | `get_task_utilpower`, `check_memusage`, `check_utilpower`, costs | tables of the configuration | truncating divisions, table order |
| Reports (report.c) | interval, `report.txt`, `task.txt` | `add_report`, `save_task_infos` | lists | heads and tails taken unchecked |
| Configuration (conf*.c, add_*) | section tables | parse, add | all of gastask | bounds, order, duplicate sections |
| Generator (gen_*.c) | sums | generate task, network, commander lines | files | unsigned arithmetic |
| Gateway (gateway.c) | document, relay buffer, two sockets | accept, relay | enclave, device | one thread between two peers |
| Enclave (enclave.c, gateway_client.c) | key pair, device key, `n_response` | attest, serve | gateway | answers by order alone |
| Device (iiot_device.c, attsdoc.c) | key pair, enclave key, `n_offloads` | validate, request | gateway | unchecked NULL keys |
| Framing (transmit.c) | loop counters | send and receive a message | sockets | partial reads and writes, dead peers |
| Credentials (credentials.c) | context with mutex and condition | callback, wait | AWS library threads | unguarded wait; not built |
| MQTT device (iot_device.c) | none | publish | broker | not built |
| Mileage ledger (mileage_cc.go) | balance per enterprise | init, earn, consume, query | Fabric peers | read-modify-write |
| Usage log, telemetry | a file | produce, hash, upload, query | Rekor, collector | hash and upload are two steps |
| Scripts, data | files | run a sweep | gastask, gasgen | exit codes ignored |

What makes each correct, in a line: the cached counts equal a recount; each list
is one sorted ring of exactly the genes it should hold; a listed gene is
admissible and its cached values are those of its plan; scores never get worse
from one generation to the next; `task.txt` holds the best plan ever reported;
the three offloading programs stay in step, match responses with requests and
all exit when one does, however their messages are cut up on the way; a device
accepts exactly the documents that verify with the certificate in them; gastask
holds exactly the lines of its configuration, and a feasible workload arrives
whole; no earned or consumed credit is lost as long as the ledger can be read.

`PROJECT.json` lists the hazards, each at the line where it bites.

## 2. Modules

| Module | Models | Notes |
|---|---|---|
| `TaskAttrsOps` | operations on `taskattrs_t` | pure operators; a set of results where the code draws at random |
| `TaskAttrs` | the life of one vector | one action per operation |
| `GeneOrder` | a sorted list as a sequence | insertion behind equals, removal |
| `SortedGenes` | what a gene list promises | abstract specification |
| `GeneList` | ecm_list.h and `sort_gene_*` | one action per turn of `list_for_each`; the mapping to `SortedGenes` |
| `TaskModel` | task.c and the cost functions | exact integers over common denominators |
| `GeneticScheduler` | init, crossover, report, save | evaluation is a parameter |
| `SecureOffload` | gateway, enclave, devices | FIFO connections, exits, kills |
| `MessagePipe` | what a chain of connections promises | abstract specification |
| `Transmit` | transmit.c and the gateway's relay | one action per turn of a loop, bytes in bounded pipes |
| `Attsdoc` | attsdoc.c | one action per stage up to the next exit |
| `ConfLoader` | conf*.c and add_* | one action per `fgets`; a reference meaning of a file beside it |
| `Gasgen` | the arithmetic of gen_task.c | sets of results where the code draws |
| `Pipeline` | gasgen, run.sh, gastask's load | composes `ConfLoader` and `Gasgen` |
| `Accounts` | what the ledger promises | abstract specification |
| `MileageLedger` | mileage_cc.go | chaincode runs at endorsement; Fabric is external |
| `MCTaskAttrs`, `MCScheduler`, `MCTransmit`, `MCAttsdoc`, `MCPipeline` | instances for TLC | comparison with the loop, tables, documents, configurations |
| `TaskAttrsProofs`, `GeneListProofs`, `SchedulerProofs`, `OffloadProofs`, `TransmitProofs`, `AttsdocProofs`, `PipelineProofs`, `LedgerProofs` | theorems | section 5 |

How they fit together: `GeneticScheduler` uses the operators of `TaskAttrsOps`
and keeps each linked list as a sequence with the operations of `GeneOrder`.
That step is justified by `GeneList`, which implements `SortedGenes`, which is
written with the same `GeneOrder`. `MCScheduler` plugs the evaluation of
`TaskModel` into `GeneticScheduler`. `SecureOffload` has whole messages in its
queues, which `Transmit` shows to be sound by implementing `MessagePipe`, and
three kinds of documents, which are the `Verdict` of `Attsdoc`. `Pipeline` runs
the same loader twice, as gasgen and as gastask, with the generator between.

Definitions named "Mutated form" are faults that the properties are shown to
catch; nothing else uses them.

### What is abstracted

* **gastask.** Tasks are numbered from 1. Utilization, power, cost and score
  are integers in units fine enough that no comparison is rounded
  (`UnitsConsistent`); divisions that the C code does on unsigned operands keep
  their truncation. Rounding of `double` is not modelled. `fitness`,
  `constraint_penalty`, averages and the breakdown of costs feed only printed
  columns and are left out. A loop that can never end (`get_rand_except` with
  one type, the search for a second parent among one gene) is a state without a
  step. `fopen` failing is left out. `select_position` computes in 32 bits: up
  to 16383 genes nothing wraps, which is an assumption on `NPops`.
* **secure_sgx.** A connection is a pair of FIFO queues of whole messages with
  their lengths. A message to a process that has exited is lost, or ends the
  sender (a write error or SIGPIPE). A read ends the reader when nothing is left
  and the other end has exited. Encryption names the holder of the private key;
  with a NULL key it produces what the C code leaves in its buffers: an empty
  request on the device, the request itself on the enclave. `n_offloads` and
  `n_response` wrap at `NumberRange` (both are `int` in C), so that no run is cut
  short by a bound. A document has the fixed length 5000: what `InStep` excludes
  is that a message is read into a buffer meant for another, not that a larger
  document overruns the one meant for it, which nothing in transmit.c prevents.
  The attestation library and the killing of a process are
  external. `Kill` is the death of a process, whose connections the kernel
  closes; the last messages may be lost with them (`Reset`). The loss of a host
  without a word is not modelled: the code has no timeout, and its peers wait.
* **transmit.c.** A byte is one of `Bytes` and an `int` has `IntBytes` of them;
  `IntValue` is what they stand for, so that the machine's byte order is a
  parameter. Both ends run on the same kind of machine. A connection holds
  `SockBuf` bytes. Lengths are those of the messages, which fit an `int`. The size of the receiver's buffer is part of `InStep` in `SecureOffload`.
* **attsdoc.c.** What cbor_load makes of the bytes is given: the shape, the pairs
  of the header, the entries of the payload in their order, all lengths. A
  signature is who made it, over what, with which digest, in which form. The
  check of a signature is the equality of these. A certificate stands for its
  key. `validate_attsdoc` verifies a document with the key of the certificate
  that the document itself contains; it reads neither `ROOT_CA_CERT_PATH`
  (attsdoc.c:10, unused) nor a measurement of the enclave, so anybody can make a
  document that it accepts. The integrity of the enclave, which the repository's
  README (lines 5, 140 and 161) says is verified, has no counterpart in the code
  and none in the model. `int` has 2^8 values, to reach the wrap of `alg_id`.
* **Configuration and generator.** A line is a header, a comment, blank or data
  with numbers; those read with `%lf` are in hundredths, those read with `%u`
  are whole and not negative. Lines longer than the buffer are left out. A
  quotient of doubles that is exact may be truncated to the integer below it.
  Ranges whose end is more than one below their start wrap around in C and are
  not among the configurations. A process that crashes may have flushed any
  part of the file it was writing, a cut line included, and nothing of a later
  one. A row behind the end of the arrays of tasks, networks or commanders,
  which no code checks, is stored and parsing goes on, or the program crashes;
  what the row overwrites is not modelled, and `LoadedExactly` and
  `NothingLeftOver` say nothing of such a load (`Intact`). `Leftovers` are what
  an earlier use may have left in the three generated files. Which lines are
  good is what the code accepts: a line of `*task` has 8 columns
  (conf_gastask.c:67), so that the 4-column lines of gastask.conf.tmpl, to which
  the repository's README refers, are refused, and so would be the 6 columns
  that a comment of run.sh (line 79) names. `IsTemplate` says what the script starts from: any configuration that
  gastask would accept, with frequencies, without lines for the three sections
  that are filled later, and with the header `*network` at its end.
* **Ledger.** An `int` holds `-Half .. Half - 1`. A version is the place in the
  chain of the last writer. A block is one transaction: validation is in
  sequence within a block, too. A failed `GetState` leaves no entry in the read
  set; whether reads can fail is the constant `GetStateFails`.

## 3. Runs

| Run | Instance | Shows |
|---|---|---|
| `attrs` | 5 tasks, 3 of 5 types | `CountsExact`, `PeakPopulated`: caches never drift, the scan stays in bounds; `SetupIsLoop`, an assumption TLC evaluates: the closed form of `setup_taskattrs` is its loop |
| `gene_list` | 4 genes, 4 keys | `ListInv` (one consistent ring, in order, with exactly its genes), `ImplementsSortedGenes` (refinement), `SortGeneReturns` |
| `scheduler` | 3 tasks, 3 genes, 2 memories, 2 frequencies, 2 ratios | `ListsRight` (the three lists agree and are sorted), `ListedEvaluated`, `VectorsRight` (exact counts, true peak), `FirstRatioOnly`, `SelectPositionAsserts`, `GenerationsImprove` |
| `scheduler_generations` | 2 tasks, 4 genes, 4 generations, interval 2 | `SavedIsBest`, `Termination` |
| `offload` | 2 devices, backlog 0, everyone may be killed, every document, failing key generation | `InStep`, `AttestedFirst`, `OneInFlight`, `AnswersTheRequest`, `Answered`, `Cascade`, `SessionLasts` |
| `transmit` | 3 processes, messages of 0, 1 and 3 bytes, 3 of them, 2 bytes per connection | `Framing`, `ReadersExit`, `ImplementsMessagePipe` (refinement) |
| `attsdoc` | all headers of up to 2 pairs, all payloads of up to 3 entries, all signatures; library calls fail | `AcceptsExactlySigned`, of which `AcceptsOnlySigned` and `AcceptsEverySigned` are the halves |
| `pipeline` | all files of a header and 3 more lines, each section; some 200 templates; three states of the files before | `LoadedExactly`, `TablesFit`, `FeasibleArrives`, `NothingLeftOver`, `LoadingEnds`; `OverheadRoundTrip`, an assumption TLC evaluates: `get_util_overhead_bymem` undoes `get_mem_util` |
| `ledger` | 2 enterprises, 3 transactions, 3-bit balances, reads that succeed | `Serializable` (a balance is the replay of the chain, what a valid transaction saw was current), `ImplementsAccounts` (refinement) |

Runs that show a disagreement between the code and what is said of it:

| Run | Said | Done |
|---|---|---|
| `one_memory_spins` | repairs are bounded by `MAX_TRY` and end in an error message | with one memory type `get_rand_except` spins |
| `lost_credit` | credits increase when an enterprise earns and decrease when it consumes | after a failed `GetState` the balance restarts from zero, and the transaction is valid |
| `public_network` | the Public strategy uses the single ratio 1 | its tasks are billed as local ones |

Other disagreements that reading shows and no run is about: the slow-down table
`S` of GA.c:24 runs from slow to fast and is indexed with the place of a
frequency in a table that runs from fast to slow (cpu.c:13), so that a task is
billed for another frequency than the one it runs at; the columns of `*task` and
the check of the attestation document are described in section 2.

### Bounds, and why they are enough

* Vectors: five tasks and three types are the smallest instance in which a move
  can leave `max_type` behind; the theorems of section 5 hold for every size.
* Lists: three genes give every relative position of cursor, newborn and equal
  keys; four are checked, and the theorems hold for every population.
* Scheduler: three genes are the fewest with two different parents. On the slow
  frequency two of the tasks meet their period in the fast memory only, so a
  crossover can make an infeasible child of feasible parents; the memories are
  such that some random plans need rebalancing, and the cutoff such that some
  need lowering. `MAX_TRY = 3` makes both kinds of giving up reachable. Four
  generations and an interval of two reach reported and unreported generations,
  including the last one.
* Offloading: with two devices one can wait while the other is served or be
  refused; numbers modulo 3 tell a response from the one before and the one
  after.
* Framing: a connection that holds less than a length and data makes every write
  and read partial; a relay between the two ends shows that a dead sender takes
  down more than its neighbour. Three messages let one be in each process.
* Documents: header, payload and signature are varied against a rest that is good, so
  that each check is the one that decides.
* Configurations: three lines after a header let a table overflow, fall out of
  order, be interrupted by a comment, ended by a blank line and be continued
  under the same header. The files before a run of the script are empty, hold
  networks, or hold networks, commanders, a task and a task that is cut. The
  templates make every draw of the generator possible
  and impossible; of the draws the smallest and the largest are tried, where a
  period comes closest to its wcet.
* Ledger: three transactions are two that overlap and one that comes between;
  amounts 1 and 3 with balances from -4 to 3 wrap in both directions.

Deadlock is not checked where the system really stops: after `task.txt` is
written, after a fatal exit, in the endless loops named above, when everyone has
exited, or when the gateway waits for a peer that gave up connecting.

### Fairness

gastask is one process, so `WF(Next)`. Fairness is needed for `Termination` only
to say that the process keeps running; no fairness of the random choices is
assumed. `GeneList` assumes that a walk, once begun, is carried on. In
`SecureOffload` every process has weak fairness of its own steps, since each is
an operating-system process; kills have none. `RequestOffload` has strong
fairness because a device that never offloads would never notice anything:
`rand() % 2` keeps giving both values. In `Transmit` every process has weak
fairness of its loops and nobody is obliged to send. `Pipeline` is a script with
one program at a time: `WF(Next)`. The ledger states no fairness.

## 4. Reading the properties

`ListedEvaluated` is the key to the scheduler. `check_utilpower` stores `util`
even when it refuses, and keeps the power and score of an earlier plan; the
lists are right only because such a gene is never in them. `GenerationsImprove`
then follows from the acceptance test against both parents.

`OneInFlight` is the key to the offloading protocol. Nothing in a message says
which request it answers; the pairing is right because exactly one message
circulates while the device waits. `Cascade` is the price of "every error is an
exit": it needs each process to go back to reading or writing its dead peer.

`AttestedFirst` also records that the gateway serves one device: a second one
connects, because the port stays open, and waits until the gateway exits.

`AcceptsOnlySigned` is about the retries of `validate_attsdoc`. The last of
them, over the payload without its header, would accept too much; the function
prints "Direct verification successful!" and exits all the same, and the
property holds because of that exit. Its mutated form is the version without.

`FeasibleArrives` names the parameters for which the generator works: a share of
the CPU of at most a third per task (a draw may halve the period and truncation
takes one more), at least two units of memory per task, at most 100 tasks. Of
all other parameters `NothingLeftOver` says what can still be relied on: when
gasgen comes to its end, nothing of an earlier run is loaded. When it does not,
the script still appends what the files hold, and gastask may load the
commanders and networks of another run with half of this run's tasks.

`FirstRatioOnly` is about an index. The search never moves a task away from the
first entry of the ratio table: with the table 0, 1 of run.sh nothing is ever
offloaded, although the second entry is there to be tried, and with the single 1
of the Public strategy everything is.

`BalanceIsReplay`, part of `Serializable`, compares values computed at
endorsement with an execution in the order of the chain. It and the refinement
of `Accounts` are claims about reads that succeed; `CreditsMove` is what a user
of the ledger expects whatever happens, and `lost_credit` refutes it.

## 5. Proofs

All theorems are checked by TLAPS, for every value of the constants under the
named assumptions.

* `GeneListProofs`. `ListSafe`: `Spec => []ListInv`. `ListInv` is not inductive: it speaks of
  neighbours, and a second ring of two genes away from the list would satisfy
  it, until one of the two is taken out and the other is left pointing at
  itself. `IInv` adds `Ranked`: the genes can be numbered so that numbers rise
  along `next`. Deleting keeps the numbering; for an insertion the ranks are
  doubled, which leaves one free between any two. `ListRefinesSortedGenes`: every
  step is a step of `SortedGenes` or a stutter. The mapping is the sequence of
  genes along `next` from the head back to the head. There is at most one such
  sequence (`ChainUnique`), it visits no gene twice because `prev` leads back the
  same way (`EntriesDiffer`), so it is no longer than the population
  (`ChainIsVisited`); that there is always one is the invariant `ChainInv`, which
  also says that a walk is at some place of it with no larger key before.
  `InsertChain` and `RemoveChain` say what the pointer operations do to it, and
  `PositionUnique` that the place the walk stops at is the only one that
  `InsertSorted` can choose. Assumptions: head and NULL are not genes, the
  population is finite, keys are integers.
* `TaskAttrsProofs`. `VectorInv` (well-formed, exact counts,
  `max_type` populated) is inductive; `TypeCorrect`, `CountsAlwaysExact` and
  `BalanceInBounds` follow. The lemmas are about counting: changing one entry
  changes two counts by one, a positive count has an n-th occurrence within the
  vector, a type that first reaches the peak exists and is populated.
  `SetupComputesLoop`: the closed form of `setup_taskattrs`, which every model
  uses, is what its loop computes. The loop invariant (`Tallied`) is that the
  counts are those of the tasks so far, and that `max_type` was strictly ahead of
  all others when it came to its count (`Leads`); a type that draws level later
  is therefore seen later.
* `SchedulerProofs`. `SelectPositionSafe`: the ASSERT of `select_position` for
  every population size, by `KvalueInRange`. All other theorems rest on `GAInv`,
  for every population, every number of tasks and types, and every evaluation
  that gives integers: `SchedulerTypeCorrect`, `ListsAlwaysRight`,
  `ListedAlwaysEvaluated`, `VectorsAlwaysRight`, `AlwaysFirstRatio`,
  `SavedAlwaysBest` and the action property `GenerationsAlwaysImprove`. What the
  runs' invariants lack for an induction is what is known of the gene that is
  off the lists while it is repaired or bred (`CurrentOK`), that the plans of
  all genes are local (`Local`, from which a crossover cannot get away), and
  that for each row of the report some listed gene is as good (`ReportsKept`:
  the worst gene leaves the lists at every generation, the best one never does).
  The lemmas on lists say what inserting behind equals and removing do to a
  sorted list without repetitions; those of `TaskAttrsProofs` are used again for
  the vectors, which is why `SchedulerProofs` extends that module (its variable
  `vector` and constant `NTypes` play no part there).
* `OffloadProofs`. `OffInv` holds for any number of devices, any range of the
  counters, any backlog, with kills at every point. It has one part per state of
  affairs: no device is accepted (`Unaccepted`), or one is (`InSession`); the
  others are before their document (`Strangers`, `Waiting`). `InSession` says
  which messages the four queues may hold (`Shapes`, at most two in each), who
  may be where (`Points`, `Order`), that a single token goes round (`Token`),
  and how the two counters relate, by where the token is (`Counters`). From it:
  `OffloadTypeCorrect`, `AlwaysAttestedFirst`, `AlwaysInStep`,
  `AlwaysOneInFlight`, and the action properties `AlwaysAnswersTheRequest` and
  `SessionAlwaysLasts`. Assumptions: the processes are different, and NULL is
  none of them and no message.
* `TransmitProofs`. `TransInv` holds for any number of relays, any size of an
  `int`, of the connections and of the messages: what the reader has returned is
  a beginning of what the writer was given, a relay was given what it has
  returned, the counters of each loop fit its buffers, and the bytes taken, under
  way and unwritten are the stream. `TransmitTypeCorrect` and `AlwaysFraming`
  follow, and `TransmitRefinesPipe`: every step is a step of `MessagePipe`. The
  key is `Decode`: two continuations of the same bytes agree, so that the next
  `IntBytes` bytes are the length of the next message and the bytes after it are
  that message. Nothing is assumed of `IntValue` but that every message's length
  has some bytes.
* `AttsdocProofs`. `AttInv` says for each stage of `validate_attsdoc` what has
  been established about the document when it is reached, and for each exit why
  the document is not signed by its certificate or which call has failed.
  `AttestationTypeCorrect` and `DecidesBySignature` follow for all documents of
  `DocumentType`, whatever their lengths. The arithmetic part is that the buffer
  estimated for the signed structure is large enough.
* `PipelineProofs`. All five invariants of the run, for every file of any length,
  every template, all table sizes and all draws. The first half is about files
  alone: the section that governs a line, the rows of a section and the offence
  of a line depend only on the lines up to it (`GovernorPrefix`, `RowsPrefix`,
  `OffencePrefix`), so that appending to a file keeps what was loaded from it; a
  line adds itself to the rows of one section or of none (`RowsStep`); a table
  with a checked bound that was accepted line by line is within its array and in
  order (`FaultlessTables`). `LoadInv` then ties the parser to the file: the program
  has taken exactly the rows before its position and found no offence there,
  and its section is the one that governs the next line, except for a line that
  was handed back (`SectOK`). `AlwaysLoadedExactly` and `AlwaysTablesFit` follow.
  `PipelineInv` adds what the script knows at each stage: the shape of the three
  generated files, whoever wrote them (`TextsOK`), how gasgen ended and that the file is a template
  and the three files behind it (`StageOK`), and how many lines are in each
  once its part of gasgen has rewritten it (`LengthsOK`). `PipelineTypeCorrect` and
  `AlwaysNothingLeftOver` follow by counting the rows of the appended parts
  (`WholeArrives`). `AlwaysFeasibleArrives` needs the arithmetic of gen_task.c
  as well: with a share of a third at most, the nominal duration is three times
  the wcet less one, and no draw takes it to the wcet or divides by zero
  (`DurationAboveWcet`, `DrawsDefined`), and that the arrays have room for the
  lines (`WholeFits`), so that the unchecked bound is not reached. Assumptions:
  the tables have room for one line, files consist of lines, leftovers of data
  without names, templates are as `IsTemplate` says. Nothing
  is assumed of what `MemUtil` computes; that the memory per task is 2 at least
  is part of `FeasibleParameters`.
* `LedgerProofs`. `LedgerInv` adds to the types what version checking rests on:
  no version is ahead of the chain, so none is used twice, and whoever has read
  the current version has seen the current balance (`Fresh`); and what was
  written is computed from what was seen (`Computed`). `LedgerTypeCorrect`,
  `LedgerSerializable` and the refinement `LedgerRefinesAccounts` follow, the
  last two from the hypothesis `~ GetStateFails`: with failing reads they are
  false, as `lost_credit` shows.

Recursive functions (the replay of a chain, the concatenation of messages, the
rows of a section, the loop of `setup_taskattrs`) are reasoned about by a least
counterexample: the set of lengths at which the claim fails has a least element,
and the step from the one before contradicts it.

Only model-checked: what is about liveness, which is out of the prover's reach
(`SortGeneReturns`, `Termination`, `Answered`, `Cascade`, `ReadersExit`,
`LoadingEnds`, and the fairness that `ImplementsMessagePipe` includes), the
evaluation of `OverheadRoundTrip` on the sizes of the instance, and the three
runs that end in a counterexample. Every invariant, every action property and
every step of the three refinements is proved.

## 6. What could be added

* `OverheadRoundTrip` for all sizes. No proof was tried: it relates two folds
  through nested divisions by variables.
* Progress: `SortGeneReturns` would need a proof with well-founded measures over
  fairness (the number of entries in front of the cursor decreases), which this
  version of TLAPS has no rules for.
* The parts listed in section 7.

## 7. Not modelled

* `credentials.c` and `iot_device.c`: no target of CMakeLists.txt builds them and
  no built file calls them.
* The usage log and telemetry scripts: a few commands of other tools, without
  state of their own.
* Of the experiment scripts everything but how run.sh prepares its first
  configuration; the sed edits by line number between its later runs, docker and
  Fabric configuration, data.
* NaN and infinity in the scheduler (a period below a second, a task without a
  network): `TaskModel` computes in integers, and its units exclude them. These
  are hazards without a property in `PROJECT.json`.
