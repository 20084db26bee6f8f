# A verification of cwapper's sparse operators

cwapper is a C library with cuSPARSE's interface. Its operators run Triton
kernels of the `flagsparse` package through a JIT, on CUDA-like devices behind an
adaptor. The host code is small and sequential. What is hard in it is state that
outlives a call: facts cached on a matrix descriptor, scratch memory that belongs
to the caller and that several calls read and write, work that a stream has yet
to run, and kernels whose programs wait for one another. This directory models
that state in TLA+, checks it with TLC on small instances and proves the main
results with TLAPS for every instance.

Paths below are those of the repository (`src/ops/spmv.cpp`, ...).

## 1. Inventory

### The parts and how they interact

| Part | State it keeps | Operations | What must hold |
|---|---|---|---|
| Matrix descriptors (`src/api/descriptors.cpp`, `src/core/internal.hpp`) | format, arrays, and three cached facts: `max_row_nnz`, `coo_offsets_buffer`, `sddmm_row_ids_buffer` | create, destroy, `CsrSetPointers`, attributes, getters | a cached fact is about the arrays the descriptor has now |
| Index metadata (`src/core/csr_meta.cpp`) | none of its own; reads arrays back, writes scratch | `ensure_max_row_nnz`, `build_coo_row_offsets`, `check_csr_columns_sorted` | the offsets delimit the rows; unsorted input is refused; the longest row is the longest |
| SpMV (`src/ops/spmv.cpp`) | on the descriptor, in externalBuffer | bufferSize, preprocess, product over CSR, CSC, BSR, COO | a kernel finds its own matrix's offsets and its segment loop reaches the longest row |
| SpMM (`src/ops/spmm.cpp`) | the same | bufferSize, preprocess, product over CSR, COO | the same; it shares the descriptor's facts with SpMV |
| SpSV (`src/ops/spsv.cpp`, `flagsparse_codegen/spsv.py`) | `SpSVDescr`: buffer, analysed matrix; ready flags, row counter and COO offsets in the buffer | createDescr, analysis, solve, destroyDescr | the kernel starts on cleared flags, is not disturbed, ends, and drops no term |
| SDDMM (`src/ops/sddmm.cpp`) | `sddmm_row_ids_buffer`; row ids in externalBuffer, written by a kernel | preprocess, product | a product finds the row ids of its own arrays |
| SpSM (`src/ops/spsm.cpp`, `flagsparse_codegen/spsm.py`) | `SpSMDescr`; work, done flags, diagonal, COO offsets in the buffer | createDescr, analysis, solve, destroyDescr | as SpSV; the diagonal is where the solve looks for it; nothing lies past the end of the buffer |
| SpGEMM (`src/ops/spgemm.cpp`) | `SpGEMMDescr`; C's size; two buffers | workEstimation, compute, copy | the five calls agree on A, B, C and on C's size |
| Handle (`src/api/context.cpp`) | stream, pointer mode, last error | create, destroy, set and get | the error string is the last failing call's |
| Adaptor and JIT (`src/adaptor`, `src/core/jit.cpp`) | one-time initialisation | copies, clears, launches | every launch runs in the handle's context |
| Gather, scatter, pending (`src/ops/gather_scatter.cpp`, `src/api/pending.cpp`) | none | one launch each, or NOT_SUPPORTED | every entry is visited once |
| Dense operands and launches (`src/core/prologue.cpp`, the operators' dispatch) | none | strides, scale and copy launches, launch sizes | a launch reaches each element it should, once, and none beside it |

The operators call the metadata functions, which read the arrays back with
synchronous copies on the device's default stream and cache what they find on the
descriptor (through a `const_cast`: the matrix is `const` in the interface). A
product then launches one or two kernels on the handle's stream and returns
before they run. The caller owns every device address and may hand the same one
to different calls. Nothing in the library waits for a stream, SpGEMM excepted.

### Hard behaviours

* *Stale caches.* A descriptor remembers the **address** of the buffer it filled,
  never its contents, and an SpSV descriptor the **address** of the matrix it
  analysed.
* *Deferred work.* What the host checks at a call and what the kernel finds when it
  runs may differ.
* *Two streams in one call.* Copies and clears go to the default stream and
  kernels to the handle's stream.
* *Half-done calls.* A call makes several copies and launches and stops at the
  first that fails.
* *Programs that wait for programs.* The chain-wave kernel spins on flags set by
  programs that may not be resident.
* *Boundaries.* Rounded-up divisions, empty matrices, partial slices, sections of a
  buffer behind one another.

`PROJECT.json` lists the hazards one by one at their lines, those not covered yet
with the reason.

## 2. The modules

    RowOffsets                        pure functions of csr_meta.cpp
    DenseLaunch                       strides, grids and launch sizes, as functions
     '- HostFunctions -- HostFunctionsProofs  the functions of both, applied
    SpMat                             descriptors, facts, scratch, streams
     |- SpMVSpMM   -- SpMVSpMMProofs  the products by a dense operand
     |- SpSV       -- SpSVProofs      the triangular solve's calls and buffer
     '- SDDMM      -- SDDMMProofs     the sampled product
    SpGEMM        -- SpGEMMProofs     the sparse product's five calls
    SpSM          -- SpSMProofs       the solve of several right-hand sides: calls
                                      and buffer, byte by byte
    TriangularSystems                 systems, acceptance, order of the rows
     |- TriangularSolve               what a solve promises (abstract)
     |- ChainWave  -- ChainWaveProofs one SpSV launch, program by program
     '- PollingSolve -- PollingSolveProofs  one SpSM launch, block by block

`MC*` modules only give constants values. `MCSpMVSpMM` and `MCSpSV` compute the
figures of their patterns with the loops of `RowOffsets`, so that the functions
checked there are the ones the protocol modules run on.

**HostFunctions.** A behaviour picks one input (the arrays of a COO matrix, the
operands of a product, a size and a device, ...), applies the functions of
`RowOffsets` and `DenseLaunch` that take it, and stops. `Build` is
`build_coo_row_offsets` with the scan for the longest row and the check of the
columns behind it (`Built`), `Validate` the creation of the dense operands and
`validate` (`Taken`), `Plan` the functions that refuse nothing. Its properties say
what the functions are for, against definitions that use none of their loops.

**SpMat.** `desc[m]` is a `SpMatDescr`; its arrays are one element of `Patterns`,
and what the library computes from them are constant functions of the pattern.
`mem[a]` says what was last written at a scratch address, `queue[s]` what stream
`s` has yet to run, `stream` is the handle's stream. `CreateMat`, `DestroyMat`,
`CsrSetPointers` and `SetStream` are the API calls of the same names (addresses of
destroyed descriptors are used again). `BuildCooRowOffsets` returns the set of
outcomes of `build_coo_row_offsets`: refused or failed before anything changed,
failed in the upload with the buffer torn or not, done. `LaunchInOrder` appends a
prefix of a call's launches: the first launch that fails ends the call.

**SpMVSpMM.** `PreprocessCoo` always rebuilds, `OverCooOffsets` rebuilds only if
`Remembers` (the comparison of addresses in `run_coo`) fails. `OffsetRoutes` are
the launches over CSR, CSC and BSR, with the separate scaling launch of the atomic
routes. `Segments` is the bound of the kernels' segment loops.

**SpSV.** `sp[d]` is an `SpSVDescr`. The buffer at `b` is two addresses: `b`, the
flags and the counter, and `Second[b]`, the COO offsets. `AnalyseSell`,
`AnalyseCsr`, `AnalyseCoo` are the three paths of the analysis in the order of the
code (offsets, then columns, then the descriptor). `Solve` clears and launches.
`BlockingIdle` is the default stream's rule: a clear or a copy on it runs once the
blocking streams have run what they were given. A running kernel owns its flags
(`InUse`) from `StartKernel` to `FinishKernel`, which leaves them set.

**ChainWave.** One launch. `A` is the system, `counter` and `ready` are the
cleared scratch, `pc[w]` and `unit[w]` the programs. `WorkerCount` is
`resolve_worker_count`; `LogicalIndex` is `REVERSE_ORDER`; `Consumed` is what a
scan that stops at the diagonal meets, from the front or (`SCAN_BACKWARD`) the
back; `Units` is the count of `solve_sell`, rows or slices. `Accepts` is what
`validate` and the analysis let through; `Candidates` also holds systems they
refuse. The device keeps at most `Resident` programs resident, starting the others
in any order. The kernels themselves are not in the repository: `Claim`, `Read`,
`Store`, `Publish`, `Finish` are modelled from the contract
`flagsparse_codegen/spsv.py` and `spsv.cpp` state for them and are marked external.

**TriangularSolve.** A row becomes solved, once, from all the rows of its triangle,
each solved before; `Given` is the set of systems the kernel is handed. `ChainWave`
implements it under the mapping of `Abs`: solved rows are the published ones.
`PollingSolve` implements it once for each tile of right-hand sides.

**SpSM.** `mat[m]` is the matrix, `sp[d]` the `SpSMDescr`, `room[d]` and `mem[d]` the
buffer the caller keeps for `d`: its size, and the regions written to it that
nothing has been written over since. `DoneOff`, `DiagOff` and `Total` are
`plan_scratch`, `BufferSize` is `bufferSize`; a write ends every region it touches,
so that a section in the wrong place destroys its neighbour as it would in memory.
`Analysis` has the three paths of the code (no rows; the extraction of the
diagonal is launched; COO offsets are uploaded before it), each failing after any of
its steps. A solve is `CopyIn`, which launches the copy of the right-hand sides, and
`ClearAndLaunch`, which waits on the default stream, clears and launches the kernel
and the copy back: other streams run between the two. `agreed[d]` is the caller's
side: the matrix and the width of the last analysis that succeeded, forgotten when
the matrix changes. Callers may solve with any width for which `plan_scratch` puts
the diagonal where it did for the analysed one (`MaySolve`): the code compares
nothing, and small widths share a layout. `Widening` lets callers solve with any
width at all, which loses the diagonal and the offsets but, as the proofs show,
neither the flags nor the work array nor the end of the buffer.

**PollingSolve.** One launch of SpSM's kernel: a block for each row and each tile, in
launch order (`Tile`, `RowOf`). `Kept` is what a block's scan of its row keeps,
`Read` the end of a spin on one flag, `Store` and `Publish` its last two writes.
`Start` is the device: at most `Resident` blocks are resident, and one starts at
most `Ahead` places before its turn. The kernel is external, as `ChainWave`'s are.

**DenseLaunch.** A launch is the set of the visits its programs pay to the columns of
its rows; `At` says which component a visit touches, from the strides (`StridesOf`,
`OpStrides`) of the operand. `CopyIn` and `CopyOut` are the copies around an SpSM
solve, `Prologue` and `InKernel` the two places where an SpMV applies beta,
`ResolveLaunch`, `ResolveCooLaunch` the size of SpMM's launches on a device `dev`,
`GatherVisits` and `ScatterVisits` the two ways to cover a sparse vector.

**SDDMM.** As COO products, but the row ids are written by a kernel: the descriptor
remembers a buffer from the launch on. `Product` remembers it after the first of
its two launches even when the second fails.

**SpGEMM.** `gd[d]` is an `SpGEMMDescr`, `cd[c]` the descriptor of C with the room
in its arrays and what they hold, `mem[a]` the product an estimate was uploaded
for, `operands[o]` what a pair (A, B) holds. `Estimate`, `Compute` and `Copy` are
the three calls made with a buffer; each may fail after any of its copies.
`flow[d]` is the caller's side: the pair of the last estimate and the result of the
last compute. `Orderly` callers keep A and B from the estimate to the copy, start
over with the estimate when it fails, and treat C as belonging to the last compute
into it; that a compute follows the estimate and a copy the compute is left to the
library's own flags. `AttachFirst` callers attach arrays between compute and copy.
`Use` is any product of C, which caches its longest row.

**Slips.** A definition whose comment begins "Slip" is a plausible mistake in the
definition after it (a dropped check, a rounding the other way, two steps in the
wrong order). Nothing uses it; `PROJECT.json` pairs each with the property that
catches it.

## 3. The runs

| Run | Checks | Instance | States |
|---|---|---|---|
| `host_functions` | offsets delimit rows, acceptance, longest row, early stop; reads of op(B), writes of C, SpSM's copies, beta, launch sizes, gather and scatter | arrays of <= 3 entries and rows, in and out of range; dense matrices of 0 to 3 rows and columns, leading dimension up to 4, either order, real and complex; sizes about every threshold, 60 devices | 3315034 |
| `spmv_private` | `TypeOK`, `ReadsOwnOffsets`, `SegmentsCoverLongestRow`, `UnsortedCooNeverLaunched` | 2 matrices, with 2 buffers and 1, 1 stream, 4 patterns, one empty, two that can be exchanged | 733208 |
| `spmv_shared` | `RebuiltWhenReused` **fails** | 2 matrices, 1 buffer | |
| `chain_wave` | `WaitsOnlyOnResident`, `HeldByOne`, `NoTermDropped`, `CompleteAtExit`, `Terminates`, `RefinesSolve` | every 3-row system with a diagonal, either triangle, CSR and SELL with slices of 1 and 2, 3 workers, 2 resident | 131936 |
| `spsv_careful` | `FlagsUndisturbed`, `SolvesOwnOffsets`, `ColumnsCheckedAtLaunch`, `StartsCleared` | 2 matrices, 2 SpSV descriptors, 2 blocking streams, 4 patterns | 870208 |
| `spsv_nonblocking` | `StartsCleared` **fails** | 1 matrix, 1 non-blocking stream | |
| `spsm_careful` | `DiagonalFound`, `FlagsOwned`, `OffsetsFound`, `WorkIsOwn`, `WithinRoom` | 2 matrices, 1 SpSM descriptor, 2 blocking streams, 3 patterns, one without rows, widths 2 and 1500 | 1812228 |
| `spsm_polling` | `NoTermDropped`, `NeverStuck`, `CompleteAtExit`, `Terminates`, `RefinesSolve` | every 3-row system with a diagonal, columns ascending or descending, either triangle, 2 tiles, 3 blocks resident | 144512 |
| `sddmm_synced` | `ReadsOwnRowIds`, `RememberedIdsArrive` | 2 matrices, 3 buffers, 2 streams, 3 patterns | 336000 |
| `spgemm_orderly` | `TypeOK`, `WithinRoom`, `CopyDelivers`, `RowFactFollows` | 2 SpGEMM descriptors, 1 result, 1 pair, 3 products | 1406415 |
| `spgemm_empty` | `OffsetsDelivered` **fails** | 1 of each, an empty product | |
| `spgemm_unattached` | `WithinRoom` **fails** | 1 of each, no arrays attached | |

What they show, in words:

* The caches of SpMV, SpMM and SDDMM are sound as long as no two matrices share a
  buffer, and over any alternation of buffers, streams, repointing and failure. If
  two matrices do share one, the comment in `internal.hpp` promises a rebuild that
  the code does not make (`spmv_shared`).
* A chain-wave launch computes a triangular solve for every system the analysis
  accepts and terminates however few programs are resident: the safety argument
  in the header of `spsv.cpp` is right, given that units are claimed in
  dependency order. The check of the columns is what makes the early stop of the
  scan harmless.
* Repeated SpSV solves are sound on blocking streams, for callers that analyse again
  after a change and give each matrix its own buffer. `spsv_nonblocking` shows
  what happens on a stream that does not wait for the default one. The other two
  conditions are the callers' (constant `Careful` and one buffer a matrix): the
  descriptor compares addresses only, and an analysis that fails late has already
  written over the offsets. Which property needs which condition is told by the
  proofs (section 4).
* SpSM's solves find what the analysis left, and nothing leaves the buffer, for
  callers that solve what they analysed with as many right-hand sides, or with a
  number that leaves the diagonal in its place. The run's two widths lie apart, so
  that in it the numbers are equal; the mixtures are the proofs'. The polling
  kernel solves every system, in any column order, and ends on a device that
  starts blocks less far ahead of their turn than it has places: the precise form
  of the remark in `spsm.py` that progress depends on the launch order.
* The dense side of the operators reaches every element once: transposition is a
  swap of strides for any order and leading dimension, beta is applied once on
  every route, also where the matrix is empty, and no launch is sized past the
  device.
* SDDMM needs, in addition, callers that wait for a stream before they move the
  handle to another one: the constant `Synced` of `SDDMM`, TRUE in the run.
* SpGEMM's calls keep C consistent for orderly callers, whatever fails half way
  and whoever else uses the same C, a product of C included. Two things the code
  says of itself do not hold: after an empty product C's offsets are never written
  (`spgemm_empty`), and a C without arrays is not recognised (`spgemm_unattached`).

**Bounds.** `MaxPending` bounds the launches a stream may have outstanding: two are
enough for a call to be overtaken by the next, and SDDMM has three because one
product is two launches. Two matrices, buffers, descriptors and streams are the
least with which each can be confused with another; a third adds no new pair.
`flagsparseCsrSetPointers` keeps the number of entries, so repointing is to patterns
of as many: `spmv_private` has two of three entries, with longest rows of 3 and of 1
on either side of the segment of 2, beside an empty and an unsorted one. The other
runs' patterns are chosen so that sorted and unsorted rows and columns all occur. SpGEMM's products are one of short rows, one of a long row and one whose A
has no rows, with tables for rows of 1 and 2; the empty product is in
`spgemm_empty`, and a product with more than `MaxTotal` (`INT32_MAX`) entries only in
the proofs. The systems of `chain_wave` are exhaustive for three rows:
a chain, a fan, an unsorted row and a partial slice are among them. `spsm_polling`
has those sets of columns too, in ascending and in descending order, and two tiles,
the least with which a flag can be taken for another tile's. `Resident = 3` and
`Ahead = 2` leave a block every freedom `Ahead < Resident` does.

In `spsm_careful` sections begin at multiples of 256 bytes, so that small widths all
give one layout; 1500 right-hand sides move every section and need a second tile of
1024. `MaxPending = 2` holds the longest sequence of launches without a wait in it
(an extraction and a copy in; a kernel and its copy back). Its matrices and streams
are interchangeable and it checks no liveness property, so that it uses symmetry; no
other run does. Interference between two SpSM descriptors is left to the proofs:
each has a buffer of its own, and the run has one. The shapes of `host_functions`
include empty and square operands, padded and packed ones, and more columns than a
program visits (`kBlockN = 2`); its sizes lie on both sides of every threshold in the
code. No run replaces a definition.

**Fairness.** `ChainWave` and `PollingSolve` have liveness properties. Their fairness
says that each resident program or block that can take a step eventually does, and
that a free place on the device is eventually filled: what a device guarantees to
thread blocks it has made resident. Nothing is promised to one that is not
resident, or that a spin ends. `ChainWave` lets programs start in any order;
`PollingSolve`, whose kernel has no counter, lets a block start at most `Ahead`
places early, with `Ahead < Resident`, and no particular block is promised a place
before another that may start. Deadlock is checked in every run; `Ended` and `Done`
are the only explicit stuttering steps, for a launch whose programs have all exited
and for a finished evaluation.

## 4. The proofs

All proofs are checked by TLAPS for every value of the constants, under the named
assumptions of the modules (types of the constants, non-empty systems, block sizes
of at least one).

* **HostFunctionsProofs**. All ten properties of `HostFunctions`, for arrays and
  operands of any size and devices of any width, under `HostAssumption` and
  `DenseLaunchAssumption` (types; a warp is a power of two lanes, without which a
  COO launch would ask Triton for a number of warps it does not take). The invariant
  says that an output is what the functions give for the input. The loops over an
  array are recursive functions of it; since induction is out of reach as a rule,
  `LeastNat` does its work: a set of naturals that is not empty has a least element,
  so a loop that went wrong would have a first index at which it did, and the step to
  that index rules it out. `Recursion` gives in the same way that the loops are
  functions at all. From there, `offsets[r]` is the number of entries of the rows
  before `r` (`OffsetsCount`), and since the scan has ordered the array, those are the
  first ones (`OffsetsSplit`). The dense side rests on quotients and remainders
  being unique (`OneDivision`): it makes the place of an element, the block of a
  column and the packed work array one to one.
* **SpMVSpMMProofs**. `TypeOK`, `SegmentsCoverLongestRow` and
  `UnsortedCooNeverLaunched` have no hypothesis: `CountedInv` says that a longest
  row a descriptor remembers, or a launch was sized from, is its arrays' own, and
  that a COO launch is over sorted rows, whoever shares buffers.
  `ReadsOwnOffsets` and `RebuiltWhenReused` are proved under `PrivateScratch`, and
  `spmv_shared` shows that the second fails without it. Neither is
  inductive. The strengthening `IInv` relates three places at once: what a
  descriptor remembers is true of its arrays and of memory (the
  buffer it remembers is one of its own and holds its offsets), and every launch
  still outstanding, not only the next, finds its offsets. `DestroyMat` waits for the
  launches of its matrix, so a later descriptor at the same address cannot rebuild
  under them.
* **ChainWaveProofs**. `TypeOK`, `HeldByOne`, `WaitsOnlyOnResident`,
  `NoTermDropped`, `CompleteAtExit`, and `ImplementsSolve`: every safety behaviour
  of `ChainWave` is one of `TriangularSolve`. The invariant says that units below the
  counter are held by a program or wholly published, that held units are below
  the counter and distinct, and that an exited program has seen the counter past the
  last unit. A lemma shows that on accepted systems `Consumed` equals `Triangle`,
  where the sorted columns and the scan direction are used.
* **SpSVProofs** separates what each property asks of the caller. `TypeOK` asks
  nothing (`BaseInv`). `StartsCleared` and `FlagsUndisturbed` ask for blocking
  streams only: `FlagsInv` says that at most one solve is outstanding on all of
  them, which is what the clear's wait gives, and what its buffer holds from the
  clear to the last step of the kernel; two matrices may share that buffer.
  `ColumnsCheckedAtLaunch` asks for `Careful` callers only, on any streams
  (`CarefulInv`: a matrix that a descriptor remembers is as its analysis found it).
  `SolvesOwnOffsets` asks for `Careful` and a buffer for each matrix, also on any
  streams (`OffsetsInv`): the offsets are written by the analysis and read by the
  kernel, and what a solve clears lies elsewhere.
* **SDDMMProofs**, assuming `PrivateScratch` and `Synced`. `ReadsOwnRowIds`,
  `RememberedIdsArrive`. The invariant says that outstanding launches are all on
  the handle's stream and that each product has its expansion before it in the
  queue or already in memory. Both properties need both conditions: without
  `Synced`, an expansion left on one stream runs after a newer one on another, for
  arrays that are no longer the matrix's.
* **SpGEMMProofs**. `TypeOK` for any order of calls and any buffers; `CopyDelivers`
  assuming `Orderly` and a first buffer for each SpGEMM descriptor; `WithinRoom` and
  `RowFactFollows` assuming `AttachFirst` as well, since without it a C keeps the
  room and the longest row of older arrays. (That a copy delivers into arrays
  attached earlier is worth what the room in them is: too little, and `WithinRoom`
  is what fails.) TLC finds a counterexample to each property when one of its
  conditions is dropped; even `WithinRoom` needs the private buffers, since a compute
  over an estimate for other matrices may fail after it has replaced the offsets a
  copy goes by. The invariant follows each caller: the estimate of
  its pair is still in its buffer, an SpGEMM descriptor not computed since is not
  flagged so, and a computed one agrees with C on the size, on the offsets and on the
  longest row C remembers, until another compute takes C over. It is also what makes
  a retry after a failed copy, or after a compute that failed behind a successful
  one, harmless.
* **SpSMProofs**, for any sizes, widths and number of descriptors. `TypeOK`,
  `FlagsOwned`, `WorkIsOwn` and `WithinRoom` have no hypothesis: a solve places its
  work and its flags itself, for the width it has, and lays them over whatever an
  analysis with another width left. `DiagonalFound` and `OffsetsFound` are proved
  under `~Widening`. Callers wait before they leave a stream, so that only the
  handle's stream has launches, and the clear's wait leaves a polling kernel nowhere
  but at the head of it (`LaunchOK`). For every agreement the diagonal it asks for
  is in its place or will be put there by a launch after which none disturbs it
  (`DiagFrom`), and the COO offsets are in place (`OffsetsIn`); both depend on the
  agreed width through the diagonal's place only (`Alike`). Lemmas about
  `plan_scratch` show that the sections are apart and end before `BufferSize`.
* **PollingSolveProofs**, assuming `Ahead < Resident`. `TypeOK`, `NoTermDropped`,
  `CompleteAtExit`, `NeverStuck`, and `ImplementsSolve` for the safety part. The
  invariant says that what a row has read is published, that exited blocks have
  published, and that blocks started in order up to `Ahead`. `NeverStuck` follows
  from the least block that has not exited: every block its row depends on comes
  before it, so it has all its flags if it is resident; if it waits, the resident
  blocks are among the `Ahead` after it and a place is free.

**Only proved.** The type invariants of `ChainWave`, `SpSV`, `SpSM` and
`PollingSolve`: each is part of its module's inductive invariant, and no run repeats
it. The weaker hypotheses above: the runs check the disciplines in which all of a
module's properties hold at once.

**Only model-checked.** `Terminates` and the liveness part of `RefinesSolve`:
liveness under fairness is out of the prover's reach. Every invariant and every
action property that a passing run checks is proved. What the violation runs refute
has no theorem, `RebuiltWhenReused` and `WithinRoom` excepted, whose theorems name
the condition that the run drops.

## 5. Not modelled

* Floating-point values and the scalars: the properties are about which entries are
  used, where and when, not about rounding. Tables of element types and the
  signature strings built from them, for the same reason.
* Argument checks that return before changing anything: stuttering steps.
* Getters, and the bufferSize calls other than SpSM's: no state depends on them.
* Which value a status has and what the error string says (`context.cpp`): a failing
  call is known by what it leaves behind.
* Host threads, and the adaptor's initialisation with them: a handle belongs to one
  thread, as in cuSPARSE, and the current context of a thread is the driver's.
* Memory at the level of bytes, SpSM's buffer excepted: elsewhere an address is a
  cell, and buffers do not overlap.
* SpGEMM's hash tables slot by slot, and its second buffer: compute writes row counts
  and overflow flags there and reads them back before it returns. The descriptor keeps
  the buffer, and copy hands the same places to the fill kernel, but nothing reads
  what they hold after that.
* One externalBuffer handed to operators of several kinds: each overwrites it and no
  descriptor of the others learns of it, which is why the disciplines of `SpMVSpMM`,
  `SpSV` and `SDDMM` keep a buffer to one use.
* Callers outside the disciplines: who solves with SpSV after exchanging a matrix's
  arrays without another analysis (`Careful`), copies an SpGEMM product into arrays
  already filled without attaching again (`AttachFirst`), or solves with SpSM after a
  failed analysis, with other arrays, another diagonal type or another layout
  (`MaySolve`) finds no refusal in the code; no property says what happens then.
* 64-bit sizes narrowed to 32 bits at a launch: no matrix small enough to enumerate
  gets there.
* The entry points of `pending.cpp`, which answer NOT_SUPPORTED; the numerical
  kernels; tests, benchmarks, tools and the build.

## 6. Plan

Done, in this order: RowOffsets; SpMat and SpMVSpMM; TriangularSystems,
TriangularSolve and ChainWave; SpSV; SDDMM; SpGEMM; SpSM and PollingSolve; their
proofs; DenseLaunch; HostFunctions and its proofs; weaker hypotheses for the
theorems about SpMVSpMM, SpSV, SpSM and SpGEMM. What is left:

1. **Workspace**: SpMV, SpSV and SDDMM calls over one externalBuffer, composed from
   the modules here, with the weakest discipline under which all are sound.
2. **Handle and adaptor**: last error, pointer mode, initialisation from threads.
3. **Weaker disciplines** where a condition stands for more than is needed:
   `Orderly` asks for the same pair of operands, where the same product might do, and
   `Synced` for an empty stream, where one without launches on the same buffer might.
