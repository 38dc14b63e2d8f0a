# BarrierPoint: a formal model

BarrierPoint picks, from a long OpenMP program, the few inter-barrier regions
that are worth simulating. A DynamoRIO client runs the program once and cuts
each thread's execution into *regions* at the synchronisation points (starts of
outlined functions, barriers, thread exit). For each region and thread it keeps
a basic block vector (BBV) and a histogram of reuse distances (LDV). Scripts
cluster the regions and choose representatives; a second preloaded library
measures the same regions with hardware counters. Everything rests on one thing:
**the k-th region of one thread, of another thread and of another run must be
the same part of the program.** That is what this project is mostly about.

## 1. Inventory

| Component | Source | State | Operations | Status |
|---|---|---|---|---|
| Client: events and regions | `dynamorio_client/main.cpp` | `in_roi`, `roi_*_detected`, `roi_has_ended`, registered events, `first_time_called`, `synch_count` | thread init/exit, the wrapper callbacks for outlined functions, `GOMP_barrier`, `GOMP_single_start` and the ROI markers, `clean_call`, process exit | `BarrierClient` |
| ThreadData, Region | `thread_data.cpp/.hpp`, `region.cpp` | per thread: `regions`, `cur_synch_id`, `cur_bbv`, `cur_lru_hist`, `in_single`, reference buffer | `save_barrier`, `add_bb`, `add_address`, `clean_buffer` | `BarrierClient` |
| BarrierPoint: output | `barrierpoint.cpp` | vector of threads, `synch_count` | `generate_fake_tid`, `align_synch_bb`, five `save_*`, `free` | `BarrierPointSave` |
| Reuse distance | `reuse_distance.cpp`, `reuse_distance_impl.h` | list of lines, skip list, gate, time stamps | `lookup_distance` (`add_to_front`, `move_to_front`) | `ReuseDistance`, `LRUStack` |
| ROI marker library | `barrierpoint-libs/bp_dr.cc` | `_inside_roi`, `_dr_flag` | replaces `GOMP_barrier` | `RoiMarker` |
| Performance counters | `bp_perfcntrs.cc`, `omp_counters.h` | `_BP_number`, `_measuring`, per-thread event sets and phases, the output file | replaces `GOMP_parallel`, `GOMP_barrier` | `PerfCounters` |
| Analysis driver | `DrAnalysis.py` | vectors, cluster labels, representatives, multipliers | create, combine, cluster, select | `Selection` |
| Benchmark driver, error estimate | `RunBenchmarks.py`, `errorEstimate.py` | scripts, `.papi` files, statistics per repetition, thread and region, tables | create and run the script, parse, tabulate, look up | `Statistics`, `Measurement`; the weights of the estimate in `Selection` |
| SimPoint patch, build files, sample | `simpoint.patch`, `Makefile`s, `sample/` | none of its own | | not modelled |

**How they interact.** DynamoRIO calls the client back, on the thread an event
happens on and in whatever order the threads produce the events. The callbacks
of different threads share the globals of `main.cpp` without a lock (the only
mutex protects the vector of finished threads). Threads find their own
`ThreadData` through a TLS slot. When the process ends, the exit event runs
`BarrierPoint::save` once, alone, over what the threads have left. The files
are the only interface to the scripts, and the marker library the only one from
the program to the client.

**What is hard**, component by component, and what makes it correct:

* *Client.* Each thread numbers its regions with its own counter; nothing keeps
  the counters equal except that all threads meet the same callbacks in the
  same order. Correct: one id, one interval, one name, in every thread; no
  handler meets a thread without data; at exit every thread in the output has
  each region, and the output is written.
* *Output.* The first block of an outlined function runs before the callback
  that starts its region, so it is counted one region early and moved
  afterwards, with a balance carried from turn to turn of a loop. Correct:
  exactly those instructions move, each by one region, never between threads;
  dimensions of the vectors never collide; each region is named once.
* *Reuse distance.* Two doubly linked lists and a gate pointer are relinked
  together, and depths are stored that must stay true. Correct: the distance is
  the LRU stack's.
* *Marker library.* Shared flags decide which thread calls a marker instead of
  the barrier the others wait at. Correct: one start, one end, by the master,
  and nobody left waiting.
* *Counters and drivers.* A second numbering of the same regions, files that
  many executions append to, lists indexed by repetition and region. Correct: it
  is the client's numbering; a finished table holds what its rows say, from one
  invocation, whatever has failed before; the phases add up to the whole.
* *Analysis.* Correct: every region has a representative, and the multipliers
  rebuild the total.

`PROJECT.json` lists the hazards one by one, each at its line.

## 2. Modules

| Module | What it is |
|---|---|
| `BarrierClient` | The client at run time, in the environment of an OpenMP program |
| `MCBarrierClient` | its instances for TLC |
| `BarrierClientProofs` | theorems about it, checked by TLAPS: types, the master, alignment; what its threads save; what it leaves at exit |
| `LRUStack` | abstract: what reuse distance analysis promises |
| `ReuseDistance`, `MCReuseDistance` | detailed: the list, the skip list, the gate; implements `LRUStack` |
| `ReuseDistanceProofs` | theorems: the two lists, the gate, the refinement |
| `BarrierPointSave`, `MCBarrierPointSave` | the post-processing of `BarrierPoint::save` |
| `BarrierPointSaveProofs` | theorems: the counts that are moved, the dimensions of the vectors |
| `RoiMarker` | `libbp_dr.so` in a process that forms teams and meets barriers |
| `PerfCounters` | `libbp_perfcntrs.so` in the same process |
| `Statistics` | pure operators: what the scripts make of the files |
| `StatisticsProofs` | lemmas about them: what the parser, the tables and the reader of the estimate make of any files |
| `Measurement`, `MCMeasurement` | the composition: identification, counting, tables, estimate |
| `MeasurementProofs` | theorems about it and about `RoiMarker`: the markers, the tables of one run, the types |
| `MeasurementRows` | theorems about it: the rows, the numbering, the averages, the phases, the estimate |
| `Selection`, `MCSelection` | the analysis of one execution: vectors, clusters, multipliers |
| `SelectionProofs` | theorems: the vectors, the alternatives, the files, the rebuilt total |
| `NumberFacts` | lemmas for all proofs: induction, loops, remainders, digits, sums, finite sets, flattened sequences |

### BarrierClient

The *program and libgomp* are the environment: `Fork`, `ReleaseTeam`,
`ReleaseBarrier`, `Finish`, `Join`, `LeavePool` and `EndProgram` move the
threads' `pc`. They change no state of the client. A team executes *stretches*
of code, each closed by a barrier or by the join; a stretch may meet an
`omp single`. `Habits` says what a program does beyond plain fork and join:
sub-teams, workers that leave the pool early or are created late,
`single nowait`, orphaned barriers, ROI markers called twice or not at all.

The *handlers* have an action each, named after the C++ function:
`ThreadInit` (`event_thread_init`), `EventOmpParallel`, `EventBarrier` and
`SerialBarrier` (`event_barrier`), `EventSingle`, `RoiStart`, `RoiEnd`,
`ThreadExit`, `EventExit`. A handler is one step: it touches its own thread's
data, and `in_roi`, `synch_count` and the registrations are changed by the
master only, so that a handler of another thread reads each at most once
between two changes. `EnterFunction`, `ResumeBlock` and `BodyBlock` are the
basic blocks; each runs `clean_call` (`ExecuteBlock`). `SaveData`,
`SaveBarrier`, `AddBb` and `AddAddress` are the methods the handlers call.

*Data.* A block is known by its kind (the first block of an outlined function,
or any other) and by the number of synchronisation points the program had
passed when it ran; a memory reference by that number alone. This is just what
is needed to ask whether a region holds what ran in it. Blocks are sets: how
often a block ran is not kept. `script` is a history variable: the names of
the points the program has passed.

*After the ROI* the basic block event is unregistered but translated code
remains; it may still carry a clean call (`cached`), or may have been
translated again without one, so both are possible.

### ReuseDistance

A node is named by its tag, pointers are functions on tags, and the three skip
fields are moved node after node by a fold of `MoveSkipFields`. The loops that
follow a link are `Walk`s. `LRUStack` is the abstraction: a stack of lines, and
the distance of a reference is the line's position. The refinement mapping
reads the stack off the list from `head`.

### BarrierPointSave

`pc` runs through the functions of `save()`. `align_synch_bb` is split into the
turns of its loops, since its balance is carried between them and the order in
which it visits the outlined functions is not determined. The iteration order
of `unordered_map` is a nondeterministic choice (`Numberings`). An entry is
read after it has been erased: it reads as its own value or as a member of
`Garbage`. The input is what `BarrierClient` leaves behind when regions line
up: the same ids and names in every thread, and the first block of `f` in the
region that the start of `f` closed. Threads exit in any order. The master's
tid is taken to be the smallest, as `generate_fake_tid`'s comment does.

### Selection

`pc` is the stage of `CreateBarrierPoints` that runs next, or how it ended:
`finished`, `error` (a stage logged it and returned False) or `raised` (an
exception that nothing catches). Every stage may fail, and a file may be left
unopened or torn. The files of the client may be there from an earlier run,
which a dry run uses. Each region has a profile: instructions, a histogram of
reuse distances, counts of blocks. The readers drop the first line of each file,
which is region 0; `sp + 1` undoes that in the rows of the selection, and
`EstMetric` (`errorEstimate.py`) uses a row's number as an index from 0, that is,
as the phase of the same region. `Rebuilt` is the property all of this is for.

SimPoint is external. The model asks of it only what the code relies on: every
cluster has a member, and a cluster's simpoint is one of them. If it is also the
member closest to the centre, the code chooses the simpoint itself as "closest"
alternative: `reduce` keeps the later of two equals. Multipliers are exact
fractions; the four digits they are written with are left out. `Sorted` is
`sorted(list)`: some permutation that puts the list in order. What SimPoint
and the client may answer are the assumptions `IdAssumption` (the ids of the
clusters are numbers, each once) and `ProfileAssumption` (finitely many
distances and blocks, with ids from 1).

### RoiMarker, PerfCounters

`RoiMarker` holds a process: `team`, the `pc` of each thread, `ROI_BP`. The
environment forks, joins and meets barriers. `GOMP_barrier` of `bp_dr.cc` takes a
step for each access to the shared flags (`ReadEnv`, `TestFlag`, `Mark`). A
marker replaces the barrier: its thread returns to the program (`"out"`), every
other goes to libgomp's barrier (`"real"`).

`PerfCounters` puts the second library into the same process. The counters of a
thread are the *set of stretches of the program* it has run since the last reset,
so that a phase can be asked what it measures. `StorePhase` is the read, the store
and the reset; the limit of 25800 phases is `MaxPhases`, and a phase past the
end of the array reads as `Garbage`. The library's own barrier and parallel
regions call the library again; `PerfStart` contains the effect (the number
becomes 1, not 0). A handler is one step here: threads write data of their own,
and all write the same `_inside_roi`. Nobody looks at what `fprintf` and `fclose`
return: with a full disk the lines of some threads are lost and the program
goes on (`PerfWriteFails`), while a thread that cannot stop its counters or
open the file ends it (`PerfStopFails`). In both cases, and when a program is
killed, the lines of a thread reach the file whole or not at all.

### Statistics and Measurement

`Statistics` translates the parsing, the getters, both tables and the readers of
`errorEstimate.py`. A value is where it comes from: invocation, repetition,
round, stretches. `StatsPerfCounters` is a fold of `ParseLine` over all lines.
Only events that some column uses are kept.

`Measurement` composes all of it for a program given as a text, the same in
every execution. A text has one region of interest (`OneRoi`), as the repository's
README asks for. `Identify` runs it with `RoiMarker` and what the client counts
on the master; `StartBenchmarks` ... `ParseAndWrite` are
`RunBenchmarks.py`: for each mode a script that removes old files, then runs the
program once for each repetition and round, then parses and writes. The driver
may be started several times, dry or not. A program, a write or the creation of
the script may fail, a program may lose what it has printed, and the user may
kill it all (`Interrupt`); `MaxFaults` bounds how often. `EstimateError` reads the tables that are there and may run
whenever the driver does not.

A `.papi` file outlives a program; nothing else does (`Gone`). The tables
outlive the driver. A missing file and an empty one are the same, as the parser
skips both. A row is written whole or not at all.

## 3. Runs

| Run | Instance | Result |
|---|---|---|
| `client_forkjoin` | 3 threads, plain fork and join, singles under `-ignore_single`, debug build, up to 2 points before the end of the ROI | holds: `Aligned`, `RegionNames`, `RefsLag`, `NoNullData`, `NoMissingRegion`, `OutputComplete`, `ExitSaves` |
| `client_any` | 2 threads, every habit but `nowait`, release build, up to 3 points | holds: `MasterComplete`, `WorkersNotAhead`, `SavesAppend` |
| `client_subteam` | 2 threads, `num_threads(1)` | `NoMissingRegion` violated |
| `client_late_thread` | 2 threads, a worker created after the ROI | `NoNullData` violated |
| `client_nowait` | 2 threads, `single nowait` under `-ignore_single` | `OutputComplete` violated |
| `reuse_distance` | 6 lines, skip distance 2, threshold 2, 9 moves | holds: list invariants, gate, refinement of `LRUStack` |
| `save` | 2 threads in either exit order, up to 3 regions, 2 functions, 3 profiles | holds: `InstMoved`, `BbvDecodes`, `LdvDecodes`, `BpIdKeys` |
| `selection` | up to 4 regions of 4 profiles, up to 2 clusters, 3 distances, any stage may fail | holds: `Rebuilt`, `Fingerprint`, `Alternatives`, `FilesAgree` |
| `measurement` | 2 threads, 6 programs, 3 platforms (one unknown), 2 repetitions, 2 phases, 2 invocations, 1 fault | holds: `MarksPaired`, `RowsTrue`, `SameNumbering`, `TuplesOfOneRun`, `AveragesComplete`, `TablesOfOneRun`, `PhasesCoverWhole`, `EstimateSound`, `ScriptEnds` |
| `instructions` | as `measurement`, 1 invocation, no fault | `InstructionsOfIteration` violated |
| `save_bbv_moved` | as `save` | `BbvMatchesInst` violated |
| `save_erased` | as `save`, erased memory may read 7 | `InstMoved` violated |

**What the violations show.**

* A thread outside a sub-team has fewer regions than `synch_count`.
  `align_synch_bb` dereferences `regions.find(id)` untested
  (`barrierpoint.cpp:69-71`), while the functions after it expect the case
  ("If the thread has not seen that synchronization point, its histogram is
  empty"). The files are never written.
* The thread-init event is unregistered at the end of the ROI and the
  thread-exit event is not: a thread created in between exits through a NULL
  `ThreadData` (`main.cpp:625-629`).
* `single nowait` has no barrier of its own, so `in_single` is still set at the
  next explicit barrier, which is dropped.
* `align_synch_bb` says that the first blocks "have to be taken into account in
  the next region". Their instruction counts are; the entries of the vectors
  vanish.
* The value it moves is read from an entry it has just erased.
* A repetition runs the program once for each set of events, and each set counts
  instructions. `getTotalInstructions` indexes the list of all of them by
  repetition, so the instructions of repetition 1 are those that repetition 0
  counted with the second set. The averages, which take all entries, are right.

**Bounds.** `MaxSynch` bounds the points passed in the ROI (the marker at its
end comes on top). Two are enough for a single and its barrier between two
points that are counted, for a block to be found one region early and the next
one on time, and for a thread to lag one point behind; three allow a worker to
be two ids ahead of the master. Three threads are a master and two workers that
can be at different points; the theorems cover the rest. Before and after the
ROI nothing is bounded: what the client keeps there is finite. In
`ReuseDistance` two skip nodes need five lines with skip distance 2, the sixth
pushes both back, and three more moves reorder them; the threshold of 2 puts the
gate in the middle. `MaxTime` bounds moves and insertions together. In
`BarrierPointSave` three regions are a first, one between and a last; two
functions are needed for the order within a vector to matter. In `Selection`
four regions leave three lines after the first is dropped: a cluster of two and
one of one, with the simpoint first or last, and the alternatives of one cluster
rewritten while the other's are still to come. With 20 as the longest
distance of a cluster, 1 is within the tolerance of 0; without it, it is not.

In `Measurement`, the programs have points in teams, outside of them and in a team
of one, none at all, and barriers before and after the region of interest; one
has three points, which is more than `MaxPhases` holds. Two repetitions of two or
three rounds tell rounds and repetitions apart. Two invocations with a fault in
the first leave every kind of leftover for the second; the invariants also hold
with two faults (621,013 states).

**What the tables show of odd programs.** In a text with a sub-team or a
barrier outside of every team the threads have different numbers of phases; the
getters then raise an `IndexError`, and the table stays unfinished. After the
region of interest a barrier ends the counted process with status 2; the driver
stops at the last of its programs. So the properties speak of *finished* tables,
and a partial one may still be found and read by the estimate: what it holds is
not claimed to be complete.

**Symmetry** is not used: `client_forkjoin` checks a liveness property, for
which it would be unsound, and the others are small without it.

**Fairness.** Only the exit handlers are fair (`FairSpec`: `ThreadExit` for
each thread and `EventExit`). Once `main` has returned, DynamoRIO itself runs
them, one by one, and nothing else in the process can hold them up. The program
is under no fairness: it may compute for ever, and `ExitSaves` promises
something only once the master is exiting. `Measurement` is fair to `Proceeds`:
the programs of its texts end, the system schedules their threads, and the driver
and the shell are sequential. Nobody has to start the driver.

**Deadlock** is checked in every run but those of `Measurement`. The end of the
process (`Stopped`), of `save` (`Done`) and of the analysis (`Ended`) are explicit
stutters. `Measurement` really stops, when no invocation is left; that nothing
stops before is `ScriptEnds`.

Each checked property is also seen to fail when the definition it depends on is
replaced by a faulty variant (a counter not reset, a guard dropped, a loop one
turn too long). The variants stand beside the originals, marked *faulty*, and
are listed under `mutants` in `PROJECT.json`.

## 4. Proofs

Every theorem is proved from the named assumptions of its module, which TLC
evaluates in each run of it, and holds for every value of the constants that
satisfies them: any threads, functions, lines, profiles, programs, and any
bound. All have one shape: an inductive invariant, a lemma for each action
or group of actions, and a temporal step. Where a theorem has a further
hypothesis, a run shows that it cannot be dropped, or it is said here why it is
there.

### The client

`BarrierClientProofs`, for every setting of the options, in three parts. The
first is about what is counted:

* `TypeCorrect`: `Spec => []TypeOK`. `TypeOK` is inductive.
* `MasterIsComplete`: `Spec => []MasterComplete`, for **all** habits. The
  inductive invariant `MasterInv` adds that the first thread to be initialised
  is the master and none after it, that it is initialised while it is
  "starting", and that its own counter equals `synch_count`. Without the last
  fact a save of the master could land on an id that is taken, and
  `unordered_map::insert` would drop it.
* `RegionsAligned`: if the program does none of `Misaligning` (sub-teams,
  orphaned barriers, `single nowait`; then it is `Plain`), then
  `Spec => []Aligned`. The inductive invariant is a conjunction:
  - `TeamInv`: the team is nobody or every thread that has not left, and where
    its threads are fits together;
  - `StartInv`: before the ROI nothing is counted, and no thread is initialised
    in the ROI after a point was passed;
  - `SingleInv`: `in_single` is set exactly between a single and its barrier;
  - `CountInv`: a thread's counter is the number of points passed, one less
    between the start of a function and its callback, one more when it waits at
    a counted barrier;
  - `BlockInv`: what a thread has counted belongs to the region it is in.

  `Aligned` itself only speaks of saved regions; a step that saves one needs
  `BlockInv`, a step that counts a block needs `CountInv`, and `CountInv` needs
  the other three. The hypothesis is the exact border of what TLC finds: a
  late thread, an early exit or a second ROI does not break alignment (the
  theorem covers them); each of the three others does with two threads.

The second is about what is saved:

* `NothingLost`: `Spec => SavesAppend`, for **all** habits. `IdsInv` says that
  the ids a thread has saved are below its counter, so that
  `unordered_map::insert` always finds the id free, and that a thread with data
  is past its initialisation, which would empty it.
* `DataIsThere`: `Spec => []NoNullData`, if `late_team` is not a habit.
  `event_roi_end` unregisters the callback that fills the TLS slot; `DataInv`
  says why that is too early for nobody: while a thread is starting, the master
  waits for it in the fork, and the end of the ROI needs the master outside. The
  run `client_late_thread` shows that the hypothesis cannot be dropped.
* `NamesAgree`: `Spec => []RegionNames`, if the program is `Plain` and
  `early_exit` is not a habit. A region may be ahead of the program: that of a
  thread that waits at a counted barrier already has the id of a point that is
  only passed when the whole team is there. `NamesInRoi` says that such a region
  is named `GOMP_barrier`, that a thread on its way to the callback will save
  the function under the point just passed, and that a thread that exits in the
  ROI is past all points; `NamesAfterRoi` says that only the last point is still
  to be saved then; `CourseInv` that nobody leaves before the master. `CountInv`
  turns each of these into a statement about ids.
* `WorkersStayClose`: `Spec => []WorkersNotAhead`, for every program but
  those that use `single nowait` under `-ignore_single` (`SinglesCounted`): there
  `in_single` outlives its stretch and nothing ties the counters together. The
  alignment invariants are of no use here, since teams may be of any threads.
  `AheadInv` bounds a worker by the master, case by case of where the two are:
  two ahead only when it has saved the start of a function and waits in the
  barrier, both of which the master has still to save. `RunsInv` says that the
  ids a worker has saved are an interval, `GroupInv` how a team moves together.

The third is about what is left at exit:

* `ReferencesLag`: `Spec => []RefsLag` for a `Plain` program. `BufInv` says
  what the buffer holds back, from where a thread is (the references of the block
  that has just run), `HistInv` what that makes of a histogram, and `PhaseInv`
  that until the end of the ROI every block gets its clean call.
* `NoneMissing`: `Spec => []NoMissingRegion` for a `Plain` program whose workers
  stay (`Stay`) and that ends its ROI once (`OneRoi`; a debug build stops at a
  second). `FullInv` gives a thread all ids below its counter; `ShortInv` bounds
  `synch_count` by the counters of the threads that have saved their last region.
* `OutputIsComplete`: `Spec => []OutputComplete`, if the program also ends its
  ROI (`EndsRoi`). `client_subteam` and `client_nowait` show why `Plain` is
  asked for. A region that a worker leaves out by going early is missing, and a
  second ROI saves a region of the master alone.

### Reuse distance

`ReuseDistanceProofs` rests on one invariant, `ListInv`: there is **one**
sequence of lines of which `next`/`prev` is the doubly linked list, the skip
fields are the skip list at the places `Skips(Len(s))`, the gate is at
`GatePlace(Len(s))`, and the time stamps fall from front to back. An insertion
turns `s` into `<<x>> \o s`, a move into `ToFront(s, p)`, in all of these at once;
no part of it is inductive alone, as the loops that repair one structure walk
along another. `ListTypes`, `ListsLinked`, `DepthsAreDistances`,
`SkipNodesSpaced` and `GateKeepsThreshold` follow from it, for every skip
distance from 2 and every threshold. So does `AnalysisIsLRUStack`: `Spec`
implements `LRUStack`, step by step, by the refinement mapping that the run
checks.

### BarrierPoint::save

`BarrierPointSaveProofs`, for any number of threads, regions and functions, any
profiles, and whatever order the containers are visited in:

* `SavedTypes`: `Spec => []TypeOK`. `TypeInv` also says which thread is which
  after `generate_fake_tid`, and `BlocksInv` what is left of each vector.
* `CountsMoved`: `Spec => []InstMoved`, **if** `Garbage = {}`, that is, if the
  entry that is read after `erase()` still has its value; `save_erased` shows the
  other case. `CountsInv` follows the balance through the three nested loops: the
  count of a region is the one given, less what was found in it, plus what the
  region before had handed on, and the balance is what is under way.
* `VectorsDecode` and `HistogramsDecode`: `Spec => []BbvDecodes` and
  `[]LdvDecodes`. `CodesInv` has what has been written so far; a dimension is
  taken apart again by quotient and remainder.
* `KeysUnique`: `Spec => []BpIdKeys`. The loop of `save_bp_id` has a row for each
  region but the last, after the one of the start (`RowsAre`, an induction over
  its turns): it skips `thread_exit`, which ends the last region and no other
  (`ExitsLast`). A name that comes again has been seen once more (`SeenMore`), and
  no function is called `ROI_Start`, which `NameAssumption` says. `KeysInv` has
  that one thread is the master, whatever order the threads exit in: were there
  two, the file would hold the rows of both.

### The analysis

`SelectionProofs`, for any execution, and whatever SimPoint answers and fails at:

* `SelectedTypes`, `AlternativesRight`: `VectorInv` and `ClusterInv`. The
  clusters are `c`, a number for each line; `Stands` says that a list of points
  has one of each cluster and that a map names it. The heart is `Remaps`: the
  map that is rewritten in place, cluster by cluster, while it is tested, comes
  out right, since a point that has been put in belongs to the cluster already
  done.
* `FingerprintKept`: the shift of the ids is at least every id of a reuse
  distance on any line (`BbmaxBounds`), and the weights add up (`WeightedSum`).
* `FilesOfOneRun`: `FileInv` has, for each stage, which files are not touched and
  which are whole.
* `RebuiltExactly`: `Spec => []Rebuilt`. From `FileInv` no row divides by zero
  and the rows are those of a permutation of the points (`SortedIs`). `RowsStand`
  turns rows into disjoint sets of lines that cover all (`Shares`), and
  `EstMetricSums` is the induction over the loop of the estimate: the
  denominators cancel row by row, and the sums over the sets join into one.
  `AllButFirst` moves that sum from lines to regions.

### The methodology

`MeasurementProofs`:

* `RoiMarksPaired`: `RoiSpec => []MarksPaired`, for any threads. A thread in a
  team would take the branch of a marker if the flags disagreed with the
  environment. `RoiInv` says when they do: never in a team (`Agreed`), and
  outside of one only while the master is between the `setenv` and the marker
  (`Requested`). `Idle` excludes any other thread then, and `FlagCounts` ties
  `_dr_flag` to the number of calls. It rests on the form of the region of
  interest that the repository's README gives: `setenv` and a barrier, outside of
  parallel regions.
* `MeasuredMarksPaired`: the same in `Measurement`, whose program under DynamoRIO
  only takes steps of `RoiMarker`.
* `MeasuredTablesOfOneRun`: `Spec => []TablesOfOneRun`. One has to know what the
  other table is while one is being made: none in mode 0, whose script has
  removed both (`FirstMode`), and that of the same invocation in mode 1, which
  `main()` comes to only with the first table written (`SecondMode`).
* `MeasuredTuplesOfOneRun`: `Spec => []TuplesOfOneRun`, for any programs made of
  the six operations. `ParseLine` pairs a value with what is in `t_inst` at that
  moment, so the argument is one about order. The lines of an event are led by
  those of the instructions of the same thread, region and execution (`Led`): so
  it is in the lines of one record, because each set of events starts with
  `TOT_INS`, and it stays so when lists of lines that have it are put together
  (`LedJoined`, `FileLed`, `ParsedLed`), in whatever order files and threads come.
  A reader that takes one line after the other then always has the right
  instructions (`Current`, `ReadSteps`). The invariant `PapiTypes` only has to say
  that files hold whole records of rounds there are, through failures, kills and
  repeated invocations. The lemmas about lines are in `StatisticsProofs`.
* `MeasuredTypes`: `Spec => []TypeOK`. `TypeOK` bounds what the client and the
  library count (`synch_count`, `_BP_number`, the phases and stretches of each
  thread) by the points of the program, so `PlanInv` has to know where everybody
  is. `PlacesInv`: all of a team are in one operation of the text, and what a
  thread waits in is an operation that makes it wait. `SetTo` is what `ROI_BP`
  says before an operation, a function of the text alone, and `Passed` how many
  points lie before it. Under DynamoRIO the client has counted the points that the
  master has passed (`DrCounts`), and with counters `_BP_number` is one more than
  that; no thread has closed more phases than it has passed points (`CountedInv`).
  What is on its way through `GOMP_barrier` (`Here`) is where the two differ: the
  library of the markers takes three steps, that of the counters one. `OneRoi` is
  needed: a second start is no point of the text, but `_BP_number` counts it like
  one. The markers' invariant `MarksInv` tells who can be in a marker, and
  `PapiTypes` that there are at most three rounds.

`MeasurementRows` goes on to what the tables *say*. Its invariant `MeasuredInv` has
all of the above and follows the data, from a counter to a row; TLC finds each
part of it to hold in the instance of `measurement`.

* *The counters* (`ExactInv`). Bounds are not enough here. `Does(x, t, i)` says
  whether thread `t` does what lies before operation `i` of the text, `Work` which
  stretches that makes. The phase that is open has the work since the last point,
  `event_values_pbarrier` that of each phase before, up to `MaxPhases`
  (`RegionCounted`). This is so if the thread has met every explicit barrier so
  far (`AllCounted`): a parallel region is counted by all threads, a barrier
  outside of every team of all threads by the master alone. A thread that has
  missed one has *fewer* phases than the program has points (`Counted`), and for
  such a thread nothing else is claimed. `Printed` says the same of the lines that
  a process leaves.
* *The files* (`FilesInv`). Those of a mode have lines of one invocation, in the
  order of the script's loops: nothing of a repetition that has not begun, nothing
  of a round that is not over (`Scripted`). Any line may be missing, since a
  program may fail, be killed or lose what it has printed.
* *The tables* (`RowsInv`). The files alone never say that they are complete. The
  getters do: lists ascend in repetition and round (`Ascending`), they take the
  entries at the places of the repetitions, so if each finds an entry, there is
  one for each repetition and no other (`StatsHold`, `TableComplete`); if one is
  missing they raise, and the table stays unfinished. A missing repetition is
  therefore never replaced by a later one that has moved up. `KeysAre` gives
  each row its place: row `n` is about the thread, repetition and region that are
  the digits of `n - 1` (`KeyOf`). A thread with fewer phases than the
  master cannot get this far (`RecordTrue` and the record of the last phase that
  `ThreadTrue` has for the master).
* *The client* (`NumberedInv`). When the master leaves the region of interest,
  `synch_count` is one more than the points of the text (`DrNumbered`).

From these follow:

* `MeasuredRowsTrue`: `Spec => []RowsTrue`.
* `MeasuredNumbering`: `Spec => []SameNumbering`. Both numberings are compared
  with that of the text, since the client and the counters are never in the same
  process.
* `MeasuredAverages`: `Spec => []AveragesComplete`.
* `MeasuredPhases`: `Spec => []PhasesCoverWhole`. The work of the two tables is
  the same function of the text, cut into phases in one of them.
* `MeasuredEstimate`: `Spec => []EstimateSound`, with `EstimateInv`.
  `errorEstimate.py` appends to nested lists as the numbers in the rows change and
  indexes them from 0. `TableRead` (in `StatisticsProofs`) is the induction over
  the rows: since their numbers are digits, every append lands where an index
  will look for it, and nothing is raised; `PointTaken` is what is then taken for a
  barrier point. A barrier point is a region of the client, hence below the
  number of regions, so that the test `bp > len(...)`, which lets one more
  through, never decides anything.

No further hypothesis is needed. `HasRoi` is not one: without a region of
interest nothing is printed, and no table is finished with rows in it.

### How induction is done

`NumberFacts` has no recursive operator and no theorem with an operator as
parameter. Induction over numbers is the smallest counterexample (`Smallest`,
from the well-foundedness of `<`), packed as `UpTo`: a set that has 0 and, with
each number, the next. `SetUp` is the same for the subsets of a finite set.
Recursive functions of the modules are CHOOSEn; that they exist is `Iterates`
(a loop that updates one value) and `SumExists`, and what they compute is `UpTo`
again. The same is done for `FlattenSeq` (`Flattens`, `FlattenIn`,
`FlattenFirst`). A row of a table is numbered by three digits, which are what `\div`
and `%` compute (`ThreeDigits`) and which the numbers of the table have, all of
them and no other (`DigitsBelow`, `DigitsInside`). `TotalMore` says that a sum
can be taken in any order, which `MapThenSumSet` leaves open; the lemmas after it
split, join, move and scale sums.

### What is only model-checked

* `ExitSaves` and `ScriptEnds`: liveness is out of reach of the prover.

Every other property of a run that holds is a theorem. The properties of the runs
that find a violation are false of the code, or need a hypothesis of the theorem
that the run does not meet.

## 5. Not modelled, and why

* An ROI marker that a program calls itself, on a worker or on several threads at
  once, and a `setenv` inside of a parallel region. With `libbp_dr.so`, and the
  form the README asks for, `MarksPaired` excludes both. More than one region of
  interest is excluded by the README.
* Parallel regions inside of parallel regions, where `_measuring` is shared
  (listed as a hazard).
* In `Measurement`: several programs, thread counts or suffixes; a number of
  repetitions that changes between invocations; a row or a line that is torn;
  PAPI errors other than at the stop. `RowsTrue` depends on this: the lines of a
  thread are a group that reaches the file whole or not at all. If a kill or a
  full disk lost only the `L2_DCM` line of a group, `getTotalL2DataMisses` would
  return 0 where the other getters raise, and a finished table would have it
  (listed as a hazard). A program that takes another path in
  another execution: nothing in the code could notice.
* The counts of blocks, the 32-bit entries of the vectors and the log2 buckets
  of the histogram (planned as pure operators).
* The code the client emits: scratch registers, raw TLS access, the 4096-entry
  buffer. It keeps no state that the properties can see, save the overflow of
  the buffer, which is listed as a hazard. Two of its calls are arguments of
  `DR_ASSERT` (`main.cpp:518` and `697`): a build that compiles assertions out
  loses them too, which the release build of `client_any` leaves aside.
* Symbol lookup and function wrapping (`module_load_event`): every callback is
  wrapped from the start.
* VALIDATE builds, logging, text layout, compression.
* Plots, means and deviations (floating point; with one repetition the deviation
  is not a number).
* SimPoint, DynamoRIO, libgomp and PAPI themselves, except as the environment.

## 6. Plan

What is left, in this order:

1. `Widths`: block counts at 32 bits and the log2 bucket against reference
   definitions.
2. An abstract specification of a thread's numbering that `BarrierClient`
   implements.
