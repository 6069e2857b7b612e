# Z-checker: TLA+ models and proofs

TLA+ specifications of Z-checker (`src/`), the library that assesses lossy
compressors: TLC runs on small instances, and proofs checked by TLAPS for all
values of the constants. `PROJECT.json` lists components, runs, mutants,
hazards, findings, theorems, and for every definition the source lines it
stands for.

## 1. Inventory

A client program links `libzc` and brackets its own compressor calls with
`ZC_startCmpr` / `ZC_endCmpr` / `ZC_startDec` / `ZC_endDec`. The library keeps
what it computes in two global hash tables, and report functions read them back.
A simulation can also link `libzserver`, which streams results to browsers.

```
 application --rounds--> session (zc.c) --ht_*--> hash table (ZC_Hashtable.c)
      |                     |  |                        ^
      |   online variants   |  +--> metric kernels      | ht_getAllKeys
      |   (MPI collectives) |                           |
      |                     +--> property and result files --> next program
      |                     +--> reports (zc.c, ZC_ReportGenerator.c) --> quicksort
      |
      +--zserver_commit--> queue --> message thread --wss.send--> viewers
                             ^
             asio thread ----+  (open, close, message handlers)
```

| Component | State | Operations | Hard behaviour | What makes it correct |
|---|---|---|---|---|
| Hash table, `ZC_Hashtable.c` | bins of linked entries, `count` | `ht_set`, `ht_get`, `ht_freePairEntry`, `ht_getAllKeys`, `ht_freeTable` | long mixes of insertion and removal in one chain; owned values; NULL values | it is a map; `count` is exact; one owner for each block |
| Session, `zc.c`, `ZC_DataProperty.c`, `ZC_CompareData.c`, `ZC_DataSetHandler.c` | `ecPropertyTable`, `ecCompareDataTable`, the application's pointers, `initStatus`, `zc_cfgFile` | rounds, `ZC_compareData`, `ZC_genProperties`, `ZC_registerVar`, `loadMultiVars`, the free functions, `ZC_compareData_overall`, `ZC_Init`, `ZC_Finalize` | pointers shared between tables, records and application; several rounds open at once; restart | no use after free, no block left at the end, results of two rounds are not mixed up |
| Quicksort, `ZC_quicksort.c` | the array, two indices | three copies of one algorithm | unsigned indices without lower bound, ties | stays in range, sorts, permutes, ends |
| Visualisation server, `zserver.cpp` | action queue, connection set, endpoint | start, commit, stop; open, close, message; process | three threads, condition variable, restart, connections that close meanwhile | results reach the registered viewers in order and once; no lost wake-up; stop returns |
| Rate-distortion and comparison reports, `zc.c` | tables of lines | `getCompResKeyList`, `extractRate*`, `plot*` | prefix matching, table sizes, empty lists | every result once, in the curve of its compressor |
| Error settings for a ratio, `ZC_CompareData.c` 906-1170, `ZC_conf.c` 496-640, `ZC_ReportGenerator.c` 923-1248 | `ecVisDecDataTables`, `checkingStatus` in `zc.config`, links in `dataProperties` | `loadProperty`, `computeErrorSetting`, `ZC_itentifyErrorSettingBasedOnCR`, `ZC_generateDecVisData` | interpolation at the ends, nested tables, two lists of compressors, a run that ends early | no lookup fails, result between the neighbours, the next run recovers |
| Online interface, `zc.c` 2458-2858, kernels | per-rank partial statistics | `_online` calls | collectives that every rank must enter | ranks agree, no rank waits for ever |
| Stored results, `ZC_DataProperty.c` 467-798, `ZC_CompareData.c` 309-757, `ZC_rw.c` | the files in `dataProperties` and `compressionResults` | write and load of a property and of a result, `ZC_moveDataProperty` | programs with different flags over the same files, a kill between two writes, two lists of keys kept by hand | no file mixes two sessions; a report loads one session's record |
| Metric kernels, `ZC_DataProperty_*.c`, `ZC_ssim.c`, `zc_derivativeMetrics.cpp` and `include/*.hpp` | the field, `property`, `compareResult` | Laplacian, gradient, Sobolev norms, autocorrelation, FFT, SSIM of images, derivative metrics | index arithmetic at edges, sizes at the limit of a stencil or window, copies for each type | each computes the difference it is named for, from its neighbourhood, once per cell |
| Configuration loader, `ZC_conf.c` | about sixty flags, lists of compressors and cases | `ZC_ReadConf`, `ZC_LoadConf` | order of loading, reload of stored results | lists match their counters |
| Reports, raw input, parsers, R, Fortran, HDF5, NetCDF, FFTW, the rest of websocketpp | none or external | formatting and wrappers | - | not modelled |

The `hazards` of `PROJECT.json` name, line by line, what in this code a test
hardly reaches, and the properties that would catch it going wrong. A note says
what a property leaves out.

## 2. Plan

Modules are ordered by how much of the program rests on them.

1. `QuickSort` (+ proofs), `KeyMap`, `HashTable` (+ proofs): the data
   structures. Done.
2. `Session` (+ proofs): who owns which block. It takes the tables as maps, which
   `HashTable` is proved to implement. Done.
3. `PubSub`, `ZServer` (+ proofs): the only concurrent part. Done.
4. `RateDistortion` (+ proofs): `getCompResKeyList`, the `extractRate*` functions and the
   overall curves, with prefix matching, the `totalCount + 1` lines that are
   allocated, the empty list and metrics that are NaN; uses the order `QuickSort`
   establishes. Done; the histogram report is left.
5. `MPIOnline` (+ proofs): ranks, barriers and reductions; the record
   `ZC_endCmpr_online` loses; agreement and absence of deadlock. Done.
6. `DecVis`: the nested tables of the slice images, from loading to freeing, the
   interpolation over sorted ratios, and what an aborted run leaves behind; its proofs
   are in `Images_proofs`. Done.
7. `Fields`, `DataProperty`, `DerivativeMetrics`, `ImageSSIM` (proofs in
   `Images_proofs`), composed by `Metrics`: what the kernels compute, as linear forms. Done.
8. `Store` (+ proofs): the files between the programs, with kills. Done.
9. `DynamicArray` and the flags of `ConfigLoader`: left, they carry little risk.
10. Proofs left: the invariants of `Metrics`, which are inductions over the axes of a field
    (section 6). All others are proved.

Abstract specifications: `KeyMap` for the hash table, `PubSub` for the server; for
`MPIOnline` the statistics of the undivided variable; the set of (result, compressor) pairs for
`RateDistortion`; for the kernels the exact differences on polynomials (`IsFirst`,
`IsSecond` in `Fields`).

## 3. What is modelled

### QuickSort (`zc/src/ZC_quicksort.c`)

One step is one loop test of `ZC_divide*`, or a call or return of
`ZC_quick_sort*`. `todo` is the stack of recursive calls, `cur` the arguments
of the partition that runs, `i` and `j` its indices. `fn` selects one of the
three live copies, which differ in the key and the direction of the comparison.
`size_t` wraps at `SIZE_MAX`. `Enter` is the test `start < end`; `ScanLeft`,
`ScanRight`, `Exchange` and `Split` are the lines of `ZC_divide*` in order.
The caller passes at least one element and no NaN; the two exceptions are
hazards in the list and are modelled where they arise, in `RateDistortion`.
`ZC_divide3` has no caller.

### HashTable (`zc/src/ZC_Hashtable.c`)

`table` maps each bin to its chain, `count` is the field, `live` the blocks
allocated, `held` the blocks `ht_freePairEntry` returned to `freeDataProperty`
or `freeCompareResult` and which those will free, `ret` the last pointer returned.
`hash` is a constant: any function from keys to bins, so that nothing depends
on the string hash. `AllKeys` is the array of `ht_getAllKeys`, with its limit
tested between bins only. `Destroy` is the loop of `ZC_Finalize` followed by
`ht_freeTable`, and the new `ht_create` of the next `ZC_Init`.
`malloc` does not fail.

### Session

`heap` holds the property and result blocks, which of them are allocated, the two
tables, the arrays each property owns (`parts`), parts to which no pointer leads any more
(`lost`), and the first illegal access (`fault`). `asked` is what the configuration asks an
analysis for. `freeDataProperty_internal` leaves `gradLen` and the slice images behind, and
`ZC_moveDataProperty` copies none of them (`Unfreed`, `Moved`): `NoLeak` says that nothing else
is lost. A job is one round of the application with the
pointers it got; several are open at once, as in a program that compresses its
variables alternately. The operators `startCmpr`, `endCmpr`, `genProperties`,
`registerVar`, `FreeDataProperty`, `FreeCompareResult` and `compareInto` are the
library functions on `heap`; the actions of the same names add the
application's side.

An address is handed out again only when nothing points to it, so that a dangling
pointer can be told from a valid one. Addresses are numbers and the lowest
free one is taken, because a choice would only multiply equal states.

`misuse` records uses the tables cannot support. They are part of the
specification of the interface, found by asking TLC when `Safe` fails:

* `dotted`: a name with an extension. Lookup uses the name as given, storage
  its stem (`zc.c` 2865-2891).
* `overlap`: two open rounds with one variable, or with one solution string.
* `stored_twice`: `ht_set` of the pointer already stored, which frees it.
  `ZC_registerVar` and `loadMultiVars` do this themselves, see finding 1.
* `Init_NULL_after_Init`: a session that began with `ZC_Init`, then one with
  `ZC_Init_NULL`: `zc_cfgFile` is freed twice.
* `orphaned`: the property of a stored result is freed, by the application or by a
  later `ZC_startCmpr` of the same variable. This harms only
  `ZC_compareData_overall`, so behaviour is followed beyond it.

After a fault or one of the first four the model stops: the program's behaviour is
undefined from there.

### ZServer (`zserver/zserver.cpp`)

Variables `app`, `srv` and `proc` are the program counters of the simulation's
thread, the asio thread and the message thread. A push under the lock and the
notification that follows are separate steps (`Commit`, `CommitNotify`), and so
are the test of the queue and the wait. A thread waits only in state `"wait"`;
`SpuriousWakeup` is what `condition_variable::wait` allows. `Broadcast` visits
the connections one at a time in any order, so that a viewer may close
in the middle; a send to a closed connection throws, nothing catches the
exception, and `crashed` stands for `std::terminate`. Queue, connections and
endpoint survive `zserver_stop`, as globals do. The endpoint is the websocketpp
code under `src/zserver/third_party`: `Closing` is the closing of a connection in its
`connection_impl.hpp`, seen from the server, and the rest is modelled from what `zserver.cpp`
relies on and from the comment in `endpoint.hpp`; `Listen` may fail because the port is taken.

JSON, PNG and database payloads are abstracted to the number of the commit, and
the HTTP handler, which changes no shared state, is left out.

### RateDistortion (`zc/src/zc.c` 841-2315)

The behaviour is one run of the two reports as `examples/generateGNUPlot.c` makes
them, from any configured list of compressors and any content of
`ecCompareDataTable`. `SelectVariable` is the head of the loop in
`ZC_plotRateDistortion` with `getCompResKeyList`; `Scan`, `Sort` and `Emit` are the
three inner loops of `extractRate*`; `Write` stores the file of the variable.
The twelve copies differ in the metric and in three ways that `kind` tells apart:
all but the correlation print a dash for a negative metric, and the four
`maxRelErr` copies give up when the first result of the variable is exact.
`Sort` is one step with the outcome `QuickSort_proofs` proves for a list of
comparable keys, and a fault where that does not apply: an empty list (`null_read`)
or a NaN in a list of two or more (`no_end`). `Emit` faults with `overflow` when it
would write past the allocation. `Overall` is one compressor's turn in
`ZC_plotOverallRateDistortion_all_compressors`; a point stands for the set of
results it averages.

The code does not check its inputs, so the properties name the tables it works
for. `NoClash`: no stored key starts with the names of two listed compressors.
`Benign`: in addition each listed compressor has a result for every variable that
has any, and no NaN in a curve of two points or more. Neither asks that a stored result's
compressor is listed: `CurvesExact` says where a result of `sz_t` goes when only `sz` is, into the
curve of `sz`, as `zc.c` 1373 compares prefixes. Both conditions were found
by TLC, and the model also follows the tables that do not meet them, up to the
fault. What is printed in a line besides the metric is left out.

### MPIOnline (`zc/src/zc.c` 2723-2858, the `_online` kernels)

All ranks run the same `program`, a sequence of library calls as `heatdis`,
`compareDataSets_online` and `analyzeDataProperty_online` make them, each on its
own part of `data`. `Stages` lists what a call can do, in the order of the code, most
of it a collective operation; `Plan` takes from it what the kind of call and the
flags select, and `Skipped` what a rank passes over because of its own copy of
`globalDataLength` or of the error range. `Enter` puts the rank's contribution in
`sent`; `Leave` is its return with what the others sent. `MPI_Allreduce` and
`MPI_Barrier` return when all ranks have entered, `MPI_Reduce` may let a rank other
than the root go on at once (`Complete`, external). Nothing in the model
keeps ranks in step: that their n-th collectives are the same operation is the
property `Matched`, and that they never wait for each other in a circle is `SomeGoesOn`.

Numbers are exact integers, with relative errors in units of 1/`Unit`, so rounding
is not seen. Of the reductions whose result no later step reads, only the communication
is modelled; the three reductions of the 3D ssim follow one another under one
condition and count as one. With `pwrErrPDF` set, `EndDec` ends in a
fault on the root: it reads a block that was freed or, for a constant relative error,
writes through a pointer that was never set. Flags are the same on all ranks,
which read one configuration file, and no rank's part is empty.

A rank whose part has fewer than `AUTOCORR_SIZE` elements reads outside it in the loop over the lags,
whose bound `numOfElem-delta` is unsigned, and one whose images are smaller than the windows of the
ssim does too (`Overruns`; `Fits` says which images are large enough, `ImageSSIM` why). The fault
`overrun` ends the program. `Completes` has both sides: with parts large enough (`LargeEnough`)
every rank comes to its end, else there is an overrun however the others are scheduled.

### DecVis (`ZC_conf.c` 356-640, `ZC_CompareData.c` 906-1170, `ZC_ReportGenerator.c` 923-1248)

Runs of `examples/generateReport.c` with `plotDecSliceImage = 1`, one after another.
`in` is the configuration and the files that are there before the first run;
`dataProperties` and `checkingStatus` are what the program changes on disk, and they
survive `Restart`. `LoadProperty` and `LoadOthers` fill
`ecVisDecDataTables`, `LoadResult` reads one `.cmp` file of one compressor's
directory (`readdir` gives them in any order) and hangs plotted ones in their element.
`StartReport`, `IdentifyErrorSetting` (one turn of the inner loop of
`ZC_generateDecVisData`), `EndSettings` and `SliceReport` are the last block of
`ZC_generateOverallReport`; `Finalize` is the first block of `ZC_Finalize`.
`fault` names the dereference of NULL, the overrun or the `exit` that ends a run.

Error settings are in hundredths, and arithmetic is exact up to the rounding of
`"%.2G"` (`Printed`). `Plottable` is what the code expects of its inputs, and does not
check: one listed name for each plotted compressor, and between 1 and
`MAX_NB_CMPR_CASES` results for each of them and each variable. `Prefix` is a
condition nothing in the documentation mentions (finding 2). The external commands
write to the directory of the report and not to the compressors', and succeed.
`load_ecVisDecDataTables` has no caller.

### Metrics (`Fields`, `DataProperty`, `DerivativeMetrics`, `ImageSSIM`, `Metrics`)

`Metrics` is one offline assessment of a compressor on one field. Each action is one
kernel under its flag, in the order `ZC_genProperties_*` and `ZC_compareData_*` call
them; `property` and `compareResult` hold what each stored. The copies for `float` and
`double` are one operator where their text is the same, and differ in one call
(finding 3). The four modules beside it have no state: they are the kernels.

A value is not a number but the *linear form* the code takes of the data, a sequence of
`<<weight, index>>` with weights in quarters: `(d[i+1]-d[i-1])/2` is
`<<2, i+1>>, <<-2, i-1>>`. A kernel of this kind can be wrong in its weights and in its
index arithmetic, and both show in the form. A form is judged by what it gives on
polynomials of the coordinates: `IsFirst(s, form, a)` holds when it gives the derivative
along `a` of every linear function, `IsSecond` the second derivative of every quadratic
one. Neither repeats the code. What comes after the linear part (squares, roots, means,
logarithms) is kept as the cells it goes over and the number it divides by. `Near` says that a form reads only
within a distance of its cell.

* `DataProperty`: `computeLap`, `computeGradientLength_*` (its sweeps over faces, edges and
  corners as `Sweeps`, in their order, because one overwrites another), the Sobolev norms of
  orders 0 to 2, the one-dimensional autocorrelation with its reuse of `delta`, and
  `fft`, which is computed in the integers modulo a prime, where a root of unity is a number.
* `DerivativeMetrics`: the `matrix` class, its derivatives, norms, PSNR, maximum, windows and
  the Sobolev norm of the difference. `MacroIndex` is what the unbracketed macros of
  `others.hpp` make of their arguments.
* `ImageSSIM`: the windows, borders and layers of `zc_calc_ssim_2d_*` and `_3d_*`. Which
  layers are constant is a choice.

A kernel that reads outside the data stops the run with fault `overrun`, an assertion with
`abort`; `Confined` says for which flags and sizes that happens and for no others.
What the properties except is what the code gets wrong, by name: `EdgeAlongZ` and `FrontEdge`
of the gradient, the divisor of the PSNR of order 1 above two dimensions, the pair
`<<1, 4>>` of second derivatives, images of fewer than two kernels.

### Store (`ZC_DataProperty.c`, `ZC_CompareData.c`, `ZC_rw.c`, `iniparser.c`)

Programs run one after another over one variable's files: `analyzeDataProperty`, a test
of a compressor with `ZC_startCmpr` or `ZC_startCmpr_offline_withDataAnalysis` and
`ZC_endDec`, and a report that loads what the others left. Each has flags of its own. A value is the
number of the session that computed it, 0 for none: that is what tells a whole record from
a mixture. Only `numOfElem` and `compressSize` are numbers, because loading narrows them to
`int` (`iniparser_getint`).

`ZC_writeDataProperty` and `ZC_writeCompressionResult` give the list of files a call writes,
`pending`; `OpenFile` empties a file, `FlushFile` is the buffer of the stream running full in the
middle of `ZC_writeStrings`, and `CloseFile` delivers what is left. The main files and
`.autocorr` are shorter than the buffer and reach the disk at `fclose`; the transforms, `.lap`,
`.gradLen` and the distributions (`Long`) need not, and a prefix of them, its last line possibly
cut (`CUT`), may reach it earlier. `Cuts` are the lines at which that may happen, since the
buffer's size and the lines' widths are not in the source. `Crash` may come at any
point of a write; a kill outside a write leaves what `ZC_Finalize` leaves. `ZC_loadDataProperty` and
`ZC_loadCompressionResult` are the loads, with the defaults of the parser for missing keys.

The model has what the code does: a file printed with more Fourier coefficients than
there are (`UNINIT`), the transform of a `double` difference read as `float` (`MISREAD`), `ssimDz`
stored as `ddimDz`, the `.autocorr` file two lines short, and two ways to die, of a property
without `filePath` and of the line copied to a pointer never set.

## 4. Runs

All bounds are constants of the `.cfg` files.

| Run | Bounds | Distinct states | What it shows |
|---|---|---|---|
| `quicksort` | 4 elements, 4 records over 3 keys, 3 copies | 23 076 | `InBounds`, `Sorted`, `Permuted`, `Terminates`, for every input with ties and repetitions |
| `hashtable` | 4 keys in 2 bins (3 collide), 3 blocks, symmetry | 1 932 | `WellFormed`, `Ownership`, `KeyArray` (with `WellFormed` it says that the count is exact); refines `KeyMap` |
| `session` | 2 rounds, 2 names (one reads like a case), 2 cases, 3 + 2 blocks, an analysis of 1 or 3 arrays, any number of sessions | 2 059 301 | `Safe`, `NoLeak`, `Association` |
| `session_loaded` | a third name, which has an extension, else the same | - | finding 1 |
| `zserver` | 2 viewers, 2 commits, 2 sessions, viewers write while the queue has less than 1 action | 215 034 | `InOrder`, `Drained`, refines `PubSub`, `CommitsHandled`, `StopReturns` |
| `ratedistortion` | 3 compressors (one name a prefix of another), lists of 1 or 2, 2 bounds, up to 3 results of one variable or 2 over two, metrics -1, 1, 2 and NaN | 953 105 | `Safe`, `CurvesExact`, `ReportsAgree` |
| `mpi` | 3 ranks, 4 programs of up to 3 calls, 2 variables, 7 contents, 4 sets of flags, 3 bins, 2 lags | 113 820 | `Matched`, `SomeGoesOn`, `StatisticsExact`, `ErrorsExact`, `Completes` |
| `decvis` | 4 compressors, 6 lists, 5 plotted lists, 2 variables, up to 4 results of one compressor, 4 ratios, 3 cases an element, 2 runs of the program | 39 769 | `Safe`, `HealedByRestart`, `ReportComplete`, `SettingsBracketed`, `ElementsFreed` |
| `decvis_specified` | one run, else the same | - | finding 2 |
| `metrics` | 80 shapes of 1 to 5 dimensions, sizes up to 11 (layers up to 41), each flag alone, the separate metrics in every combination, all flags together; windows of 7 (as in the code), 5 lags, transforms of length up to 16 | 53 548 | `Confined`, `StencilsExact`, `SobolevExact`, `TransformsExact`, `ImagesExact`, `SeparateExact`, `NormsExact` |
| `metrics_fields` | same | - | finding 3 |
| `store` | 3 sessions, 1 kill, cuts in line 3, 2 shapes, 2 sets of flags, `int` up to 7 | 2 049 877 | `LoadedWhole`, `SideFilesOwn`, `DeathsExplained`, `OnlyOwnLines` |

Why the bounds are enough. *Quicksort*: four elements give three nested partitions, and in each of them the
pivot can be smallest, largest or tied.
*Hash table*: chains of up to three entries have a head, a middle and a tail,
and the other bin shows that a chain is not confused with its neighbour; three
blocks let two be stored while a third is held by a client. *Session*: two rounds
are what an overlap needs, two names provide a variable and an unrelated one, and a third
property is one to replace while two rounds hold theirs. A name with an extension ends what the
properties claim at its first use (`dotted`), so `session` goes without; the theorems are for
every set of names and stems. *ZServer*: a second viewer joins or leaves while the
first is served, a second commit can overtake only if order is broken, and a
second session meets what the first left.
*RateDistortion*: three results are what it takes to overrun the lines with a
clash, to give one curve two points and the other one, and to leave one curve
empty; two variables show that a curve takes no result of the other.
*MPIOnline*: of three ranks one can run ahead, one lag and the root be between;
the contents make the error constant on every rank while it differs between
ranks, which is where local and global decisions part; of two lags, parts of two elements are
long enough and parts of one are not, on all ranks or on all but the root; the fourth program has
two variables of different lengths. Contents that differ by an exchange of two ranks
other than the root are taken once; ranks have all one content, or the root the
middle one and the others different ones.
*DecVis*: the lists give every relation of the plotted compressors to the listed ones
(prefix, permutation, not listed, same kind under two names, listed twice, same
bin), the results every position of a wanted ratio to those measured (below,
at, between, beyond, with ties, with one result, with none, with one too
many), and the second run meets what the first left.
*Metrics*: a kernel treats a cell by whether it is at the first, the second, the last but one or
the last place of an axis; sizes 1 to 5 have each of these alone and together, and the sizes
around 7, 9 and 11 are one window, one window of a first, and of a second derivative. The 3-D
cases with all sizes different would show an exchange of axes.
*Store*: three sessions are what it takes for a file of the first to be left beside files of
the second when the third reads them; one shape is shorter than `FFT_SIZE`, the other has counts
above the limit of `int` and every image; the two sets of flags make each flag be set and not set
by a later session. A cut in line 3 (counted from 0) leaves whole lines and a part of one, in
the transforms of both shapes and in `.lap` and `.gradLen` of the longer one.

There is no property of types in these runs. The invariants `Safe` of `Session`, `RateDistortion` and
`DecVis` and `Matched` of `MPIOnline` have `TypeOK` as a conjunct, because their other conjuncts are
meant for states of these types; for `QuickSort`, `HashTable` and `ZServer` `TypeOK` is a theorem, and
it is part of the invariant proved of `Session`, `RateDistortion`, `MPIOnline` and `Store`.

`CHECK_DEADLOCK FALSE` is set for the `Session` runs, where behaviour ends after a
fault, a misuse or when all addresses are in use, and for the `ZServer` runs,
where it ends after a crash or after the last session. It is set for the
`DecVis` runs, which stop after the last run of the program, and for the
`MPIOnline` runs, which end with the program or with a fault; a deadlock of the
ranks before that is what `SomeGoesOn` and `Completes` exclude. It is set for the `Metrics` runs, which end with the
last kernel or a fault, and for `Store`, which ends after the last session.

### Fairness

`QuickSort` has weak fairness of its one sequential step: a running program goes
on. `ZServer` has weak fairness of each thread's own steps (`AppStep`,
`SrvStep`, `ProcStep`), because the operating system schedules a thread that
can run. There is none for `Start`, `Commit`, `Stop`, for a viewer's events or for
spurious wake-ups: neither the simulation nor a viewer need do anything. The
lock is not an action that may starve: each step is a complete critical
section.
`MPIOnline` has weak fairness of each rank's steps: ranks are processes, and MPI
completes an operation that all have entered.
`HashTable`, `Session`, `RateDistortion`, `DecVis`, `Metrics` and `Store` have safety properties only and state no fairness.

### Liveness and the queue bound

`CommitsHandled` and `StopReturns` hold only because viewers write a bounded
number of messages ahead of the message thread (`MaxQueue`): the code has no such
bound. Every viewer opens and closes once; a viewer that comes back is a new
handle, as in websocketpp.

## 5. Findings

1. `session_loaded` (`ZC_DataSetHandler.c:106`): `loadMultiVars` stores each new
   property twice under the same name; the second `ht_set` frees the block it is
   about to store. `examples/analyzeDataProperty_multivars.c:35` goes on to use
   it.
2. `decvis_specified` (`ZC_ReportGenerator.c:947`): `examples/zc.config:145` has the
   compressors to be plotted specified, but the loop over them takes its names
   from the list of all compressors. With `compressors = sz zfp` and
   `plotDecCompressors = zfp` it looks up `sz`, which has no element, and
   dereferences NULL; `zc.config` is left at `PROBE_COMPRESSOR`, so that the next
   run ends too.
3. `metrics_fields` (`ZC_CompareData_double.cpp:340`): the comment on the parameters of
   `zc_analyze_der_order1_double` gives the order x, y, z, t, the call passes `psnrDt` before
   `psnrDz`. For a three-dimensional field of doubles `psnrDz` stays 0.

Behaviour the models follow and no run is spent on: `ZC_registerVar` stores no result record,
though `ZC_CompareData.c:765` sends users to it; `zserver_start` calls `init_asio` on the one global
endpoint each time, so that a second session has no server; `ZC_endCmpr_online` stores NULL
(`zc.c:2815`), so that the record is never found again; and what the properties of `Metrics` and
`Store` except by name.

## 6. Proofs

All proofs are in `*_proofs.tla` and hold for every value of the constants that meets the named
assumptions. Each rests on an inductive invariant, which TLC checked before it was proved. The
types of numbers and identities of blocks are all that is assumed of the constants; where an
assumption says more, it is named below.

Three of the models proved about define something by recursion: the scan of `ht_getAllKeys`, the
ways to carry out the server's queue, and the folds of `MPIOnline`. That a recursive function
has a value, and one only, is proved with the least element of the set of counterexamples: a
number in the first two, which the library's theorem on well-founded relations provides, and in
the third a finite set, least by its cardinality (`LeastSet`). The principle of induction itself
is out of reach.

**`QuickSort_proofs`**, for every `N`, key assignment and `SIZE_MAX > N`: `TypeCorrect`,
`BoundsCorrect`, `SortCorrect`, `PermutationCorrect`. `Sorted` is not inductive: the invariant
says that the list is final behind the end of the only call that still has work (`Settled`), and
that every other pending call returns at once (`CallInv`). The proof shows what the code does
not say: the right scan starts on the pivot and never moves, so `ZC_divide*` always returns
`end` with the largest element there, and the recursion is a selection sort of quadratic cost
and linear depth. This is also why `InBounds` holds although that scan has no lower bound.
`DivideInv` and `ScanInv` state what the left scan has established about the elements before
`i`.

**`HashTable_proofs`**, for every finite set of keys, set of addresses, number of bins and hash
function: `TypeCorrect`, `ChainsCorrect` (`WellFormed`), `CountCorrect` (`CountMatches`),
`Refinement` (`ImplementsKeyMap`), `KeyArrayCorrect` (`KeyArray`) and `OwnershipCorrect`
(`Ownership`). The invariant is `TypeOK`, `WellFormed` and `CountMatches`. Lemmas state what
appending, replacing and removing does to one chain without repetition (`AppendChain`,
`ReplaceChain`, `RemoveChain`); `OneChain` carries a change of one chain to the table; each call
then is one step of `KeyMap`. The refinement needs `WellFormed`: `ht_freePairEntry` scans all
bins while `ht_get` reads one, and the two agree only because an entry hangs in its own bin and
nowhere else.

`KeyArray` follows from the invariant. After bin `b` the array lists the keys of the bins up to
`b`, each once (`ScanStep`). The scan ends as soon as `count` keys are in, tested between bins
only: then, by `CountMatches` and the cardinality of a finite set, they are all keys, so what it
skips are empty bins. `Ownership` is inductive together with the invariant. Every call is stated
in terms of the values stored before and after (`PutOwned`, `RemoveOwned`); `Destroy` frees each
block once only because `KeyArray` holds where it starts.

**`Session_proofs`**, for any number of rounds, names, cases and addresses: `SafeCorrect`,
`NoLeakCorrect` and `AssociationCorrect`. Assumed is that taking the stem of a stem changes
nothing, that there is a name, and that no address and no case is 0; which arrays a configuration
asks for, and which variable is named like a case, is open. While the application keeps
the rules (`Clean`), the invariant says: a property is alive exactly if the table has it under
its own name, and a result that has a solution exactly if the table has it under that case
(`Tables`); open rounds hold live blocks, each its own (`Rounds`, `Apart`); a stored result
describes a live property unless a property was freed under one (`Described`), and only
`ZC_compareData_overall` suffers from that (`Faults`); the tables are empty between two sessions
(`Process`). None of the three properties is inductive: that freeing a property harms nobody
needs that no other round holds it (`Apart`), which needs in turn that the table finds each
block under one name only (`Tables`). One lemma for each library function says what it does to a
heap with these properties, and one step for each action uses it.

**`ZServer_proofs`**, for every set of connections and every number of commits and sessions:
`TypeCorrect`, `OrderCorrect` (`InOrder`), `DrainedCorrect` (`Drained`) and `Refinement`
(`ImplementsPubSub`). The invariant relates the program counters (`ThreadInv`), says that the
numbers in the queue increase and exceed what was sent (`QueueInv`, `CurInv`, `SentInv`), and,
for every connection, which of its subscription and removal are still in the queue and in which
order (`RegisteredInv`): `Drained` is the case of an empty queue.

The refinement maps a state of the server to what carrying out its queue would make of it
(`CarriedOut`), a prophecy of subscribers and logs. There is one such outcome (`CourseExists`,
`Together`); a handler or commit that appends an action makes it one step of `PubSub` later
(`EndsAppend`), and the message thread, which takes from the front, leaves it as it is
(`EndsTake`). `RefInv` adds that the subscribers so foreseen are the connections now open, and
that one that never opened was sent nothing. So each viewer is to be sent exactly the commits
between its open handler and its close handler, however late the message thread is, and
`zserver_stop` and a later start do not change that. What is sent is a prefix of it: whether it
is sent at all is the liveness property `CommitsHandled`.

**`RateDistortion_proofs`**, for every list of compressors without repetition, any finite table
and every relation "has as a prefix" that is reflexive: `SafeCorrect`, `CurvesCorrect`
(`CurvesExact`) and `AgreementCorrect` (`ReportsAgree`). The invariant follows the three inner
loops: `selected` names the keys of the variable, each once (`SelectedOK`); `rdList` those of
them seen so far that start with the compressor, and is in order after the sort (`CurveOK`); the
lines written are those of the curves before, one after the other (`LinesOK`). `NoClash` makes a
key belong to one curve, so the lines have different keys, and there are no more of them than
keys of the variable: that is why `Emit` stays within the `totalCount + 1` lines allocated. That
nothing faults needs `Benign`.

**`Images_proofs`** has two parts.

For `DecVis`, with every configuration that meets `InputOK`, any number of variables, compressors
and results of any ratio and error, any number of runs and every hash function: `SafeCorrect`,
`HealedCorrect`, `ReportCorrect`, `SettingsCorrect` and `FreedCorrect`. Only three of the nine
parts of the invariant are among these properties (`HealedByRestart`, `ReportComplete`,
`ElementsFreed`), and none of those is inductive alone. That no lookup fails needs to know, at
every place of the program, which properties and results are in the tables (`Progress`), that
the nested tables lead to elements of the right variable and name (`Reached`), which results an
element holds (`Filled`), and which compressors have had their turn (`Turns`). That the second run
is well needs to know why links may be missing: only before the first run has made them, or with
a plotted compressor that is not listed, and then every run stops before it needs one (`Linked`).
`ElementsFreed` needs of each element that the tables lead to it, or that a second name in its
bin replaced it. Two arguments are counts: an element never gets more results than its array has
places, as its results have different keys (`Room`), and with as many plotted as listed
compressors, none of them unknown, the two lists are the same up to order (`AllNamed`).
`SettingsBracketed` is arithmetic: `Printed` is "%.2G" with its two digits and ties to even, and
the lemmas show that it is monotone and depends on the quotient only (`PrintedMono`,
`PrintedScale`), also where rounding carries into a digit more. `SettingIs` says which of four
formulas a target gets, for every order in which a sort may leave equal ratios; the estimate
between two neighbours is then between their printed errors (`Bracketed`).

For `ImageSSIM`, for images of every size and stacks of every height: `WindowsInImage` (on an
image of at least a kernel each way no unsigned bound wraps; and wherever none does, the corner,
border and middle loops of `zc_calc_ssim_2d_*` sum the window of every pixel, clipped to the image,
and read nothing outside), `EveryWindowOnce` (where no bound wraps, every window is summed exactly
once if and only if the image has two kernels of rows and either two kernels of columns or rows
that the middle loop does not reach; on the other images the border loops overlap and windows
weigh double in the mean) and `EveryLayer` (fewer than forty layers
are all sampled). These are theorems about operators, with no assumption on the size;
`ImagesExact` and `Confined` check the same on small images inside an assessment.

**`Store_proofs`**, for every set of shapes and flags, every number of sessions and of deaths:
`OwnLinesCorrect` (`OnlyOwnLines`), `Invariance`, `LoadedCorrect`
(`LoadedWhole`), `SideFilesCorrect` (`SideFilesOwn`) and `DeathsCorrect` (`DeathsExplained`).
The action property does not follow from the step alone: `FlushFile` and `CloseFile` add lines
to what the file holds. The invariant `OpenOwn` says that the file being written holds a beginning
of the lines being written while it is open, nothing if it is a main file, and lemmas state what
opening, flushing and closing leaves on disk. The other parts of the invariant: the entry a test
works with is of the running session (`Memory`); the files a call has still to write are of one owner, the main file first and everything the flags ask for behind
it (`Queue`); a main file is empty, because its writer is at it or died, or it is the text of
exactly one session (`Mains`); no file beside it is of a later session (`Sides`); and, without a
death, what the main file's session asked for is there or still to come (`Required`).
`SideFilesOwn` speaks of the moments between two calls only; `Queue` and `Required` are what it
needs in the middle of one. The assumption that there is a largest power of two in each length
is one an induction would prove; TLC evaluates it.

**`MPIOnline_proofs`**, for every number of ranks, set of programs, data and flags that meets
the assumptions of the module: `CollectivesMatch` (`Matched`), `NoDeadlock` (`SomeGoesOn`),
`StatisticsCorrect` (`StatisticsExact`) and `ErrorsCorrect` (`ErrorsExact`).

`Matched` is not inductive, as ranks decide on their own which collectives to pass over. The
invariant speaks of what a rank has behind it: each planned collective there was entered, in the
order of the program (`Order`), or was passed over for a reason that the collectives before it
already show (`Tally`), and not both (`Unskipped`). A rank that went past a collective on which
the others' values matter shows that all have entered it (`AllIn`), so what it told does not
change any more; `LengthTold` and `ErrorsTold` tie a rank's `globalDataLength` and error range
to it. Hence ranks with the same collectives behind them have the same reasons, and the next one
is the same for all (`NextIsHere`, `NextNotBehind`). The absence of deadlock follows: the rank
with fewest collectives waits for nobody, or all wait in the same one.

The exactness of the statistics is about values, which a second invariant, `VInv`, follows
(`ValuesInvariance`). A rank sends what it computes from its own part and from what it holds
(`Told`): for the squared distances that is the range, for the distribution the extreme
differences, so both are wrong if the earlier result is not that of the whole variable.
`PropertyIs` and `ResultIs` say that it is, for each field behind the stage that sets it: a field
may hold the value of an earlier call until then. The answer to a collective
is the statistic of the whole only because the n-th collective of every rank is the same stage of
the same call; that is where `Matched` is used (`AnswerIs`). `LengthIs` says which variable
`globalDataLength` is the length of, and `Asked` that no rank asks again for a length it has: it
does not ask at `cmpLen`, and at `len` only in the first call or for `ZC_computeDataLength_online`.
This is why `numOfElem` is right only if the variable measured last was as long, which
`StatisticsExact` says.

Under these are lemmas about `Total`, `Min` and `Max`. `Total` takes any element of a domain first
and then the rest: there is such a function and its values are numbers (`SumRules`), it does not
matter which element is taken (`SumTake`) or how elements are named (`SumRenamed`), and the sum of
the sums of parts that do not overlap is the sum of their union (`SumOfParts`). So what the ranks
send, put together, is what one process would compute (`SumTogether`, `CountTogether`,
`LeastTogether`, `GreatestTogether`). `BinMeans` is the arithmetic of the distribution: the
division of the code puts a difference in the bin whose ends it lies between, and the greatest
difference in the last.

### Model-checked only

* Liveness (`Terminates`, `CommitsHandled`, `StopReturns`, `Completes`): outside the prover's
  reach.
* The invariants of `Metrics` (`Confined`, `StencilsExact`, `SobolevExact`, `TransformsExact`,
  `ImagesExact`, `SeparateExact`, `NormsExact`): the forms are built by functions recursive over
  the axes, and judged by recursive functions over polynomials, which is induction over data.
  `Metrics` also uses the transform `fft`, a RECURSIVE operator as the code has it, and a module
  that reaches one cannot hold theorems. So what concerns the windows and layers of the images is
  proved of the operators of `ImageSSIM` (`Images_proofs`), not of the state `ImagesExact` is about.

## 7. Not modelled

`components` in `PROJECT.json` gives a reason for each part. In short: formatted reports and
gnuplot scripts are layout; readers of raw data, the HDF5, NetCDF, R and Fortran bindings are pure
input or argument conversion; iniparser, json and websocketpp (but for the closing of a connection) are third-party code. Of the kernels
the basic statistics, both entropies, the error distributions offline and SSIM values are
rounding and real arithmetic over whole arrays; the online statistics are in `MPIOnline`, with exact
integers. The builds with R and with FFTW, whose code is compiled out by default, are left out, with their files
(`.ac3d`). Also left: the histogram report (`zc.c` 551-775), the dynamic arrays, the reading of
the sixty flags, the decompressed slice images and the digits lost by printing `%.10G`. No module
lets `malloc` fail, which no caller in the library looks at.
