# Verification of rdna4-vllm

The repository builds and runs vLLM on AMD gfx1201 cards: HIP kernels, plugins and
patches for vLLM, quantisers, and the scripts that rent cloud GPUs, share the local ones
and serve models on them. This directory holds TLA+ models of what in it is a matter of
*control*: who may use what and what must be given back (the control plane), what is
remembered between calls (the serving side), and in which order the waves of a kernel
stage, wait, read and write (the kernels). TLC checks the models on small instances;
TLAPS proves theorems about them for every instance. Numbers - what a product, a softmax
or a quantiser computes - are out of scope everywhere.

    tlc -config CloudLeaseSafety.cfg MCCloudLease.tla    # a run
    tlapm CloudLeaseProofs.tla                           # the proofs of a module

`PROJECT.json` maps every definition to the lines it models, and lists components, runs,
mutants, findings, hazards and theorems.

## 1. Inventory

### Modelled

| Component | State | Operations | Interacts with |
|---|---|---|---|
| Launcher, `scripts/cloud_lease/lease.py` | instance id, record file, checkpoint thread, progress of `run()` and `_teardown()` | provision, record, boot, stage, run, sync, teardown with label sweep, retries; SIGINT/TERM/HUP/QUIT, SIGKILL | provider API, records, its own daemon thread |
| Reaper, `status.py`, `state.py` | records read, instances listed, rows | read, list, judge, remove stale records, `--reap` | records and pids of its host, provider API |
| Providers, `backend.py`, `runpod.py`, `vultr.py`, `http.py` | instances and their labels | create, list, destroy, preempt, and how each fails | |
| Remote run, `ssh.py` and the restart loop of `lease.py` | pid, log and rc files on the box; offset, outage clock, attempt | launch, poll, second look, restart | shell and trainer on the box, over ssh |
| GPU arbiter, `scripts/gpu-lease.sh`, `gpu-status.sh` | one flock per card, descriptors of script, command and holder, `.info` labels | acquire, release, foreground run, `--detach` hand-over, probe | dockerd, other jobs |
| RSA aggregator, `src/rsa` | population, calls in flight, usage | decide, expand, top up, aggregate, retry, select | the backend, over HTTP; the client |
| CCA state, `zaya/.../mamba/cca.py`, `cca_hip` | convolution window and previous hidden state per block | prefill, decode, speculative verification, padding | vLLM's block tables and batches |
| ZAYA tool parser, `zaya_tool_parser.py` | buffer, expat's stack, open call/function/parameter, deltas | feed a chunk, reset, one-shot parse | the model's text, the client's deltas |
| Het TP, `patches/het_tp.py`, `het_tp_vllm.patch` | none: functions of sizes and weights | proportional split, axis shards | vLLM's linear layers |
| Expert weight loading, `routed_experts.py` | parameters of a rank | load w1, w2, w3 and their scales | Het TP; the other ranks, through the all-reduce |
| Kernels: dense and MoE GEMM, attention, gated delta net, CCA, rotation (`*.hip`, `*.h`) | local memory of a workgroup, state caches, outputs | stage, `__syncthreads`, compute, store | the grid of the launch |

What is hard about them, and the properties that make them right:

* **Launcher.** An instance bills from the moment the provider handles the POST, before
  the launcher knows its id. An exception, a signal, SIGKILL, a lost answer may come
  between any two steps. Right means: when its teardown ends nothing of its own bills,
  or it said so; it destroys nothing of anybody else's.
* **Reaper.** It judges from two reads taken at different moments and acts later still.
  Right means: a leak is destroyed in the end; an attended lease is not; a record does
  not go before its instance.
* **Remote run.** An outage is not a crash; a missing code is not success; the pid may
  be somebody else's by now. Right means: codes are the trainer's, no second trainer is
  started beside one that runs, the log is shown once and whole.
* **GPU arbiter.** A lock belongs to an open file description that three processes share
  in turn; each may die first. Right means: a card is locked, by one
  job, as long as anybody waits for the work on it; a lock with no work behind it comes back; the probe, which takes every lock for
  an instant, removes nobody's label.
* **RSA.** A round is a gather of calls that fail and are retried on their own. Right
  means: every request is answered, with an answer the last population stands behind,
  and the reported usage is what was asked of the backend.
* **CCA state.** One pass reads and writes the caches of many sequences, in three code
  paths that must agree. Right means: each token meets exactly the tokens before it in
  its own sequence, however prompts are chunked and blocks reused.
* **Tool parser.** The text may be cut anywhere, inside of tags too. Right means: the
  deltas add up to the parse of the whole text, and none is wrong on the way.
* **Het TP and loading.** Each rank cuts alone, in units that differ by tensor, and
  pads. Right means: the cuts of gate, up, down and their scales agree on every rank and
  the ranks share out each channel once.
* **Kernels.** Waves meet only at barriers, tiles do not divide the launch. Right means:
  no race, no leftover is read, no wave is left at a barrier, each part of each output
  is contributed once.

### Not modelled

| Component | Why |
|---|---|
| W4A8 dispatch (`register.py`, `moe_experts.py`, `vllm_adapter.py`) | chooses by a measured table between kernels that compute the same layer; the choice has no other state. Ranks rewrite one table file in place (moe_experts.py:198): a reader may see half of it and measures again, so only time is at stake |
| Quantisers (`quantize_rxf.py`, `rxf.py`) | offline, sequential, numeric |
| RXF layers (`rxf_kernels.py`, twice) | tile bodies of pure arithmetic |
| ZAYA model definition (`zaya.py`) | the network; the state it keeps is that of the CCA layers |
| Attention routing (`vllm_route.py`) | host-side tests, no state |
| Parallel autotuning | best effort; what it misses is compiled when needed |
| Serving and measurement | compose files, images, benchmarks, dashboards |

Three components are modelled in part. Providers: request bodies and plan tables
(`gpu_map.py`) are left out, and `vastai.py` only raises. RSA: how tails are cut and
prompts worded, completion tokens, the relay of forwarded requests and the framing of
streams. Expert loading: GGUF, BitsAndBytes, ModelOpt and gpt-oss layouts, activation
order, per-channel and per-tensor scales, which copy without a shard or need layouts the
served checkpoints do not have.

Hazards that no property covers, since no state the models keep would show them:

* jobs poll for cards and there is no queue (gpu-lease.sh:115): a 2-card job may be
  passed over for ever, and a `--nowait` job may exit 75 because gpu-status had the lock
  for an instant (gpu-status.sh:19);
* two jobs with one `--name` share a compose project (gpu-lease.sh:128);
* a client that goes away leaves its aggregation running to the end (rsa/server.py:204);
* the tree reductions of the gated delta net need a power of two of threads
  (gdn_kernels.hip:48 says otherwise) and nothing checks that at launch;
* a bias of a proportional column layer (het_tp_vllm.patch:197), the served ones having
  none.

## 2. Modules

| Module | Contents |
|---|---|
| `CloudLease`, `CloudLeaseInv`, `CloudLeaseProofs`, `MCCloudLease` | launchers, reapers, provider; inductive invariants; theorems; TLC's constants |
| `DeviceArbiter` | abstract: jobs take turns on cards |
| `GpuLease`, `GpuLeaseInv`, `GpuLeaseProofs`, `MCGpuLease` | jobs, probes, locks, labels, with the refinement of `DeviceArbiter` |
| `RemoteRun`, `RemoteRunProofs`, `MCRemoteRun` | run_detached, its box and the restart loop |
| `RsaRound`, `RsaProofs`, `MCRsaRound` | one chat request through the proxy |
| `CausalConv` | abstract: each token meets the tokens before it |
| `CcaState`, `CcaProofs`, `MCCcaState` | the CCA layer over its caches, with the refinement of `CausalConv`; theorems |
| `ToolStream`, `MCToolStream` | the streaming parser as a record its methods transform |
| `HetTp` | the split, as operators |
| `ShardLoad`, `ShardProofs`, `MCShardLoad` | ranks that load a layer by it; theorems about both |
| `DataLemmas` | what the proofs need of data: induction and recursion on an interval, sums, concatenated texts, grids, outputs shared out |
| `Workgroup`, `WorkgroupProofs` | one workgroup: waves, barriers, local memory, its properties |
| `WaveCode` | the words kernels are written in |
| `GemmKernels`, `MoeKernels`, `AttnKernels`, `LinearKernels`, `MCKernels` | the kernels, their grids and what their launches should produce |

### CloudLease

`pc[p]` is where `Lease.run()` stands. `Body` is the `try` block (lease.py:120-184):
"provision" before the POST, "posted" while it is in flight, "record" between the
assignment of `instance_id` (128) and `state.write` (129), then "boot", "stage", "run".
"except" is the `KeyboardInterrupt` handler, "finally" the window from the `finally:`
(188) to `pthread_sigmask` (51), `Masked` the rest of `_teardown`. The three ways to end
are "exited" (teardown ran to its end), "escaped" (an exception left it) and "killed".

`posted[p]` belongs to the network: the request is out and unanswered. When the launcher
leaves "posted" early, `ProviderCreates` may still happen ("late_create"). `owner` is a
ghost of the label: the label is a function of name and pid, so `Labelled(i,
LabelOf(p))` is true of instances of *every* launcher with p's pid.

The reaper's `reconcile()` is four steps, because each is a system call or an HTTP
request: read the records, list the provider, judge (pids are looked at here), then
destroy row by row. `Judge` removes STALE records in the same step, as the loop does.

`Fail` may strike in any step of the body; `DestroyFails` may have had its effect. The
faults are a CONSTANT, so each run states what it assumes: listings that fail silently or
raise, a POST that takes effect after it was given up, preemption, and a box that stops
answering. The last one matters in `_teardown`: the final `rsync_down` (lease.py:59) has
no timeout, so `SyncHangs` leaves the launcher in "wedged", with its signals masked and
the destroy still ahead. The remote command is one step here and a module of its own,
`RemoteRun`.

### RemoteRun

A run on the box is "running", then "exited" (the trainer is through), "written" (the
shell has written `_run.rc`), "gone"; a killed shell leaves an "orphan", a reboot or the
orphan's end makes it "lost". `_run.rc` is one path for all attempts, so a shell that
was given up writes into the file of the next. One poll of `run_detached` is three
commands on the box in one connection - `kill -0`, `cat _run.rc`, `tail` from the offset
- and three actions, since the box does not stand still between them; a drop loses what
they read. `silent` counts failed polls since `last_ok`; beyond `MaxSilent` the attempt
is given up with 124. `Again` is the second look for a code, which counts a missing or
unreadable one as 0. `Relaunch` and `Stop` are the loop of lease.py:174.

### GpuLease

`script`, `cmd` and `holder` are the cards whose lock file each process of a job has
open; `Held` is their union, which is what flock sees. `CloseFd` and `RmInfo` are the
two loops of `release_held`, card by card, since another process can run between any
two. `RunCommand` gives the descriptors to the command (inherited on fork), `HandOver`
to the holder. `work` is the workload itself - a process, or containers that dockerd
starts and stops on its own - and is tied to the locks by nothing but the code.
`KillScript` is the sudden death of the script: the kernel closes its copies and its
children live on. `Terminated` is SIGTERM while the command runs, where bash runs the
EXIT trap at once and leaves the command alone.

A workload is "up" while somebody is left to wait for its end - the command, the script
between `up -d` and the fork of the holder, the holder - and "stray" once it was let go
while it ran (`LetGo`). That happens when `up -d` fails with a part of it started, when
thirty tries of `docker compose ps -q 2>/dev/null || true` name nothing although it runs
(`blind_ps`: docker fails, or the containers are another project's; gpu-lease.sh:149-159),
when `docker wait` answers for a container that is restarted, when a docker CLI is killed,
and when a script dies before the holder is there. The locks of a stray workload go as
those of one that has ended. `work` is no help to the code: only `LetGo` and the type of
end differ, and every guard on it stands for what docker answers.

### RsaRound

`Receive` is the server's decision: forward, refuse, or merge the overrides and start.
`calls` is the gather that `run_rsa` awaits; `Send` is the semaphore, and an answer, a
400, a transport or a status error are actions of the backend, each changing the call as
the `except` branches of `complete`/`complete_n` do. What `run_rsa` does with a finished
gather are the actions of `Proceed`: the round is lost (RSAError, 502), the adaptive
population is topped up, the round is closed, the next one is asked, or an answer is
selected. A candidate is its normalised boxed answer, whether it stopped by itself,
whether its code crashes, and the prompt tokens booked on it: `complete_n` books them on
the first candidate of an answer.

The sampling of which candidates a prompt shows is left open, and so is what comes back.
`core.py` counts a candidate as a request where `rsa/README.md` says "backend requests";
`SpendBounded` is about candidates. A top-up that fails entirely loses the first `n_min`
candidates with its round (core.py:540): the model does that too.

### CcaState and CausalConv

A token stands for its q|k vector and its hidden state, a window for what the two
convolutions make of it. A pass is one action that follows `forward_cuda`: the prefill
region first (eager, over segments of state and tokens laid end to end; or fused, token
by token from a copy of the states), then the decode region reading what the prefill has
written, each block's last writer winning. Blocks are reused without being cleared:
has_initial_states masks what is left in them.

`VerifyPass` is `_decode_verify_spec`. `ReadCol` and `WriteCol` are its three layouts of a
sequence's row of blocks, chosen by the pointers the engine delivers:

| `cfg.mode` | Branch | Reads | Candidate j goes to |
|---|---|---|---|
| "align" | no pointer (cca.py:904, 980) | column 0 | column j |
| "computed" | `blk_computed` only (:902, :975) | that column, at most `num_spec` | the columns after it, clamped to `num_spec` |
| "all" | `all_avail` (:887, :969) | the scheduled column of the last pass plus accepted - 1, clamped to the table | the scheduled columns, clamped to the table |

Clamped candidates collide in one block; which of the writes of an indexed store stays is
not defined, so `cwin` and `hwin` choose it, apart for the two caches. Padding rows of a
captured batch carry tokens of nobody (`Junk`), start from zeros, give block 0 back what
it has, and are answered: `decode_is_pad` stays None here (:819), so their rows of the
output are not zeroed.

Whether the next pass finds the accepted state is up to the engine as much as to the
layer, and the repository says it does not always: docs/zaya/cca-all-mode-spec-plan.md
reports that align and none modes get no pointer and read column 0 (:11-18), that "all"
mode gets only the computed and scheduled columns on the GPU (:143-148), and that a
prefill leaves its state in column 0 in every mode (:94-98). So `cfg.keeps` says whether
the engine does its part: in "align" mode the copy of the accepted block to column 0
(`AlignCopy`, vLLM's postprocess, external), in "all" mode prompts that end in the first
block. Both values are checked; "computed" never has it. Two ghosts follow what came of
it: `home` is the column the state after the last accepted token was left in (-1 where a
colliding write may have replaced it), and `lost` the sequences of which a pass has gone
on from another column. `CacheFollows` and `ExactAnswers` speak of sequences that are not
lost; `RollbackWorks` says where none is, and section 5 where one is. `ExactAnswers` is
the refinement of `CausalConv`, in which a pass answers the next tokens of some
sequences, each as if its sequence had been convolved alone, and may give up a sequence,
of which nothing is claimed then; nor is anything of what rejected drafts were answered.

External: the engine's block tables, batches and acceptance, which column it points to,
and the copy. A verify step that the engine hands over as a prefill (:145-148 of the plan)
is not a pass of the model. The profile run has no state and no answer.

### ToolStream

A text is a sequence of atoms and a tag is two of them, so that a chunk may end inside
of a tag; "<b" is a "<" that starts none. The parser is a record, and every method of
the Python is an operator on it, called in the same order: `ElementLen` cuts the buffer,
`ParsePre` is the preprocessing of complex values, the `Start...`/`End...` operators are
the handlers of expat, `ParseTag`/`ParseText` what of expat the parser depends on (one
root, balanced tags, dead after an error), `AfterFound`/`AfterNone` the fallbacks,
`MergeCalls` the merge of deltas by call id. `Feed` and `FeedNothing` are
`extract_tool_calls_streaming`, `OneShot` is `extract_tool_calls`, `Receive` is the
client, which appends by index.

Literals that may be cut (`tr`,`ue`), null and values with two leading newlines are not
among the texts: how numbers and booleans are spelled is not modelled by character. Text
after the last call is dropped by both entry points alike. Without `</zyphra_tool_call>`
the next call's start closes the function a second time.

### HetTp and ShardLoad

`PartitionSize` is largest remainders over whole tiles; `Splits`, `AxisShardable` and
`AxisPlaceable` say when the Python does not raise. Remainders that are equal in the
integers are compared as floats in the code and may go either way - also against the
docstring, as with weights (28, 28, 64) and 10 tiles - so ties are ordered by `lean`,
which TLC chooses and which is the same on all ranks. A parameter of a rank is a
function from its slots to the unit of the checkpoint it holds, and the ranks load the
tensors of the checkpoint in its order, each at its own pace. When a split raises, the
rank is "raised" and the properties speak of layers that every rank built.

Seen while modelling, each an exception at load time and no wrong layer: an intermediate
size that is an odd multiple of 64 passes the check of the merged gate_up (`2*inter %
align`) and raises in `partition_sizes`; MoE sizes fall back to the even split when
`inter % 128 # 0`, but the loader raises; whether `het_axis_shard` refuses depends on
the rank.

### Workgroup and the kernels

A kernel is a function from a launch, a block and a wave to code: a sequence of
statements, each a barrier or what the wave reads and writes in local memory between two
points of interest. Cells carry the *version* they are meant to hold (the K group of a
tile, the matrix in an overlaid region), so that reading a leftover shows; cells "out"
carry the parts an output is made of (K groups, keys, tokens, routed rows). `Workgroup`
runs the waves at any pace. `...Blocks` is the grid of a launch as the host computes it,
`...Wanted` what the launch should produce, from the operator's meaning and never from
its tiles. An actor is a wave, whose lanes run in lockstep; in the recurrent,
convolution, norm and rotation kernels it is a single thread, which is finer.

52 kernels in four modules: dense v0-v17, tiled, shuffled and quantising ones; the
grouped ones with scatter and gather; decode (plain, paged, fp8) and paged prefill
attention; gated delta net decode, its three prefills, convolutions and norm; the CCA
kernels and the rotation. Left out: arithmetic, bank layout, addresses inside page
tables. Launch parameters that only an environment override can produce are not
launched: `VLLM_W4A8_MOE_BN` other than 64 or 128 (the grid would be cut by it and the
tiles would not), and the 256x256 double buffer of v10 with groups of 128 (69632 bytes
of local memory). A fully masked first tile of a sliding window weighs its keys until
the first visible one rescales them away; the model has the end result. The pairs of a
rotation round must be a perfect matching.

## 3. Runs

| Run | Question | Instance |
|---|---|---|
| `lease_safety` | are records, verdicts and teardowns sound? | 2 launchers, 2 instances, a reaper, checkpoint threads, preemption, SIGKILL anywhere, 1 signal, 2 destroy attempts |
| `lease_live` | is every leak destroyed in the end? | 2 launchers with one pid in turn, 1 instance, checkpoint threads, every fault, fairness |
| `lease_teardown` | does every teardown end? | the same with 2 instances, so that a sweep may have two to destroy, and no reaper |
| `lease_stale` | *violation*: a failed listing removes the record of a live instance | 1 launcher, `list_silent` |
| `gpu_lease` | are cards in use locked, by one job each? does the script implement `DeviceArbiter`? do locks come back? | 2 cards; a detached 2-card job that waits and a 1-card job with a timeout, both with containers and with scripts that may be killed; a probe, every fault, fairness |
| `remote_run` | are codes, log and restarts right, is an end noticed? | 2 attempts, 2 failed polls in a row outlasted, 2 lines of log, codes 0 and 1, every fault, fairness |
| `rsa` | is what is returned, reported and spent what the rounds produced, and is everything answered? | 9 requests, populations of 2 and 3, 2 rounds, 1 retry, every failure of every call, fairness |
| `cca` | do the caches follow the sequences, in every layout and beside padding? is an accepted state read again where the engine does its part? does the layer implement `CausalConv`? | 2 sequences of 4 tokens, 3 blocks, `TP` 2, 1 draft, chunks of 2, a padding row; no speculation (eager and fused), "align", "computed", "all" with 3 columns; an engine that does its part, and one that does not |
| `tool_stream` | do deltas add up to the whole, and is none premature? | 7 texts, every cut into chunks of at most 3 atoms, empty deltas, 2 streams |
| `tool_batch` | *violation*: a chunk that ends one call and starts the next | 1 text of two calls, chunks of up to 4 atoms |
| `shard_load` | do the ranks' shards fit together? | 3 ranks, tiles of 4; mixtures, expert parallelism and dense layers, with and without weights, divisible and not, padded and not |
| `kernels` | races, leftovers, barriers, outputs | 52 kernels, all blocks of launches that tiles do not divide, all interleavings |

A violation run documents a disagreement between the code and what the repository says
of it; `findings` in PROJECT.json quotes both sides. Every run but `lease_teardown` checks
for deadlock (there launchers end and nobody reaps); where a system rests (`Over`, `Done`,
`Finished`) its rest is an action.

**Bounds.** Two launchers are the fewest with which one's teardown, record or pid can
meet the other's; two instances let one launcher's id differ from another's and a sweep
find more than one. `MaxAttempts = 2` has a retry and an exhaustion; one signal reaches
every branch but a second interruption, which section 5 has. One instance leaves the reaper
of `lease_live` one leak at a time; sweeps of two are `lease_teardown`. Two cards are the box;
a job that wants both and one that wants either hold, wait for and are refused each
other's cards; a `--nowait` job takes the refusal of a timeout that is over, and the
theorems have any number of jobs and every mode. One restart puts an attempt after
another, two failed polls let an outage end or outlast them, two lines of log let a poll
come between. RSA populations of three have a majority and a tie, two rounds have an
aggregation, one retry mixes with the clamped one; each mode of expansion, aggregation,
selection and verification is in some request. Four tokens with `TP` 2 have a chunk
shorter than the window, a window across two chunks, and one inside a chunk. Three blocks
are the reserved one and two to own: a sequence reuses another's, or speculates on two, and
two candidates collide in the last column, or do not; a second sequence beside one that
speculates is beyond the run and in the theorems, which have any number of blocks,
sequences and drafts. Three atoms are the longest chunk that cannot hold the
end of one call and the start of another, which is the case of `tool_batch`. Three ranks
have a first, a middle and a last one. With `Dim = 1` a fragment has one row: the
launches have a partial last tile in rows, columns, K groups, chunks and tokens, and
buffers that wrap. Everything that counts is bounded by these constants in the guards.

**Symmetry** is used on instance ids in `lease_safety` and `lease_stale` and on sequences
in `cca`; none of them has a liveness property.

**Fairness.** Launchers: weak fairness of `TeardownAct`, from the handler of the interrupt
on - http calls have timeouts, attempts are counted - and a request is answered or dropped.
None of the body, whose copies and command may take for ever, and none that ends a final
rsync that hangs: "wedged" has no step but `Kill`, and `TeardownEnds` excepts it by name.
Never of `Kill`, `Signal` or faults. Reaper: the
operator keeps running `cloud-status --reap`. Strong fairness of an answered listing, of
a judging run with `--reap` and of a successful destroy says that what is possible again
and again succeeds some time; without it an API that fails for ever refutes everything
and nothing the code does could help. GpuLease: weak fairness of scripts, holders and
commands; none of `WorkEnds` (a server may run for ever), of probes, deaths or faults.
RemoteRun: the launcher polls on and a poll ends by an answer or its timeout; a shell
whose trainer has ended writes the code and ends. A trainer need not end, an orphan
neither. RsaRound: the event loop runs what is ready, and a call ends by an answer, an
error or the client's timeout. Neither Receive nor any kind of answer is fair.

**Mutants.** Each property has a mutant of a mapped definition: a plausible bug (a sweep
by records and not labels, a holder that does not inherit, an initial state that is not
masked, an unpadded half, a barrier that opens for the first...) under which TLC finds
that property violated. They are the operators named `...Bug`.

## 4. Proofs

All theorems are proved for every value of the constants that satisfies the named
assumptions (`ConstantsAssumption`, `LeaseAssumption`, `ParamsAssumption`,
`CodeAssumption`, `CcaAssumption`, `FloorAssumption`, `ShardAssumption`), any number of
processes, requests, sequences or ranks.

| Theorem | Says | Needs |
|---|---|---|
| `CloudLeaseProofs!TypeCorrect` | `TypeOK` | |
| `RecordsCorrect` | a record or snapshot names the launcher that created the instance | |
| `NoAttendedVerdict` | `ReapSparesRecorded` | |
| `RecordOutlives` | `RecordOutlivesInstance` | listings do not fail |
| `TeardownOwn` | `LauncherDestroysOwn` | no two hosts share a pid |
| `CleanExit` | `CleanExitReleases` | no silently failed listing, no late creation |
| `GpuLeaseProofs!TypeCorrect` | `TypeOK` | |
| `LocksCorrect` | `LockInv`: locks are exclusive and cover whole leases | |
| `ProbeSpares` | `ProbeSparesHolder` | |
| `UsedCorrect` | `UsedIsBusy` | |
| `Arbitrates` | `GpuLease` implements `DeviceArbiter` (`OneJobPerCard`) | |
| `RemoteRunProofs!TypeCorrect` | `TypeOK` | |
| `ExitIsHonest`, `LogIsComplete`, `TrainersDoNotMeet` | `HonestExit`, `LogComplete`, `OneTrainer` | exit codes below 124 |
| `RsaProofs!TypeCorrect` | `TypeOK` | |
| `RetriesAreBounded` | `RetriesBounded` | |
| `SavedRoundsHaveConsensus` | an answer after fewer rounds comes from a population with consensus, early_stop on | |
| `UsageCountsEveryPrompt` | `UsageIsTrue` | |
| `SpendIsBounded` | `SpendBounded` | |
| `ErrorsMeanLostRounds` | `ErrorMeansRoundLost` | |
| `VotesAreWon` | `WinnerStands` | |
| `RepliesAreFinal` | a request that was answered does not change | |
| `CcaProofs!TypeCorrect` | `TypeOK` | |
| `Invariance` | the inductive invariant | |
| `CacheCorrect`, `PaddingCorrect` | `CacheFollows`, `PaddingIsInert` | |
| `RollbackCorrect` | `RollbackWorks` | |
| `Implements` | `CcaState` implements `CausalConv` (`ExactAnswers`) | |
| `ShardProofs!SplitIsExact` | the shards of a split follow one another and cover the dimension | |
| `TypeCorrect` | `TypeOK` | |
| `SlotsAgree`, `ChannelsCountedOnce` | `SlotsMeet`, `EachOnce` | |
| `MoreUnitsNoSmallerShard` | `BiggerNotLess` | |
| `WorkgroupProofs!TypeCorrect` | `TypeOK` | |
| `WavesShareThePhase` | all waves are between the same two barriers | |
| `PhasesDecideRaces` | `NoRace` | code whose waves do not conflict in any phase |
| `CountsDecideStranding` | `NobodyStranded` | code whose waves have equally many barriers |
| `PhasesDecideReads` | `ReadsMeant` | code whose reads follow the writes they mean, with no other write in between (`ReadsFollow`) |
| `DenseKernelsAreSafe` | `NoRace`, `ReadsMeant` and `NobodyStranded` for all 21 dense kernels | launches with natural M, N and K groups and any split, tiles in whole fragments (`TileAssumption`) |
| `OwnersDecideOutputs` | `OutputsOnce` | launches of which every contribution wanted is one wave's, and no other is made (`OwnedOnce`) |
| `DenseOutputsOnce` | `OutputsOnce` for all 21 dense kernels | launches all of whose blocks run, with the same launches and tiles |
| `MoeKernelsAreSafe` | `NoRace`, `ReadsMeant` and `NobodyStranded` for every kernel of `MoeKernels` | whole blocks of valid rows and a slot in one row at most (`IsMoeLaunch`), tiles that divide as the launcher lets them (`MoeAssumption`) |
| `AttnKernelsAreSafe` | the same for the decode and prefill kernels | natural lengths, heads and window, and queries that are the last positions of their sequence (`IsAttnLaunch`); a prefill tile in whole fragments (`AttnAssumption`) |
| `AttnOutputsOnce` | `OutputsOnce` for the decode and prefill kernels: a query weighs every key it may see once, and no other | launches all of whose blocks run, with the same launches and tiles |

The assumptions of the CloudLease theorems are necessary: section 5 has the behaviours
without them. The GpuLease and CcaState theorems have none; there the *properties* say how
far the code goes - to workloads somebody waits for, to sequences that are not lost - and
section 5 has what lies beyond. `TeardownOwn` needs one pid space because the label ends in a
pid (lease.py:124): two machines, or two containers, can give two launchers one label,
and the sweep of the one destroys the instance of the other.

**CloudLease.** None of the properties is inductive. `ReapSparesRecorded` speaks of the
reaper's snapshot, so one has to know that a snapshot is true (`SnapsTrue`), hence that
records are (`RecordsTrue`), hence that a launcher writes the id of its own instance
(`Ids`) and that an instance's owner has started (`Births`). Whether the launcher is
dead is judged from the pid on the reaper's own host and death is final, so the verdict
cannot go stale; a STRAY one can. For `RecordOutlives`: `SoundSeen` (what was recorded
when the reaper read and is missing from its listing is gone: the record was there
first, the instance before it) and `DestroyedFirst`. For `TeardownOwn`: `Exclusive` (a
live pid has one process) and `OwnVictims`. For `CleanExit`: `OneEach` (at most one
instance per POST) and `Accounted` (an instance alive past the start of its teardown is
still on the list, or was warned of). The invariants are
proved group by group in that order, each step lemma with a case per action; frame
lemmas say once which actions touch a variable at all.

**GpuLease.** `LockInv` says what each process has open in terms of where the script is
(`ScriptFds`, `Inherited`), that the count is -n exactly from the moment the lease is
granted (`FullLease`, with `FS_AddElement` for the counting), that the command runs
once, and `Exclusive`. `HeldStep` is the key lemma: the locks of a job grow by a
successful flock only, so exclusiveness can be lost nowhere else. `Backed` adds who
stands behind a workload that is "up": its command, or the script in "resolve", or the
holder, each with the lock files open. Every step that takes the last of these away lets
the workload go, so `UsedIsBusy` holds under every fault and death. The refinement maps
`using[j]` to the device list of such a workload; a start is a `Grab` of free cards because
what is up is locked and locks are exclusive, an end or a `LetGo` gives them back. `ProbeSpares` follows from `LockInv`: who
removes a label holds the card, and nobody else does. A script removes the labels of its
cards from the lowest up; that there is a lowest is `LowestIn`, by counting instead of
induction.

**RemoteRun.** `Order` (attempts come one after the other), `DeadSeen` (a shell that was
seen dead is dead, with or without its pid in other hands), `Shown` (what was printed is
a prefix of the log, the whole of it at the end), and, while no attempt was given up,
`Files`: what `_run.rc` holds for each state of the current shell, because every earlier
one can no longer write. `HonestExit` is then a matter of cases. The files are why
giving up an attempt spoils everything after it.

**RsaRound.** `CallsInv` bounds `sends` by one, plus the attempts, plus one for the
clamped limit; `RoundsInv` places `rounds` in each phase; `StopInv` keeps the reason for
which selection began; `BatchInv` says what the awaited gather was asked for, hence how
large the population may become when it ends. `BookInv` is the balance that makes
`UsageIsTrue` inductive: while a request is served, what is in usage plus the answered
calls of the gather is what the backend answered, so closing, topping up or losing a
round moves an amount from one side to the other. `complete_n` books its prompt tokens
on the first candidate of an answer; `PromptOfRound` is the lemma that the prompts of the
candidates of a gather are then as many as its answered calls, by a sum along the
concatenated answers. `WinnerStands` needs `filter_pool` and the vote to be about the
same candidates: `UnbrokenHas` says what is kept and how much, `VoteIsTop` that the vote
has a holder and nobody has more, `FirstIs` finds the holder that `select` returns.

**CcaState.** No cache invariant can be about one pass: a block is read by the next one,
and by whom depends on the row and on the column that `acc` and `sched` select. So `IInv`
is the layout of the rows (`LayoutOK`: rows of different sequences share no block), the
columns (`ProgressOK`: `home` is one of the row, or none, and 0 for a sequence that has not
been verified), what an engine that does its part keeps of them (`RollOK`), `CacheFollows`
with a block 0 of zeros and no token of a padding row anywhere (`CacheOK`), and typed
answers (`RowsOK`).
The proof goes along the code. `QStartIs` and `FlattenIs` find token j of chunk i in the
batch that `query_start_loc` describes. `EagerIs`, `HipIs` and `HidIs` say that the eager
convolution over state and chunk laid end to end, the fused walk over a copy of the
states, and the shifted hidden states all give the tokens before each token of the chunk,
also when the chunk is shorter than the window; so both code paths answer the same.
`DecodeIs` and `VerifyConvIs` say it of one token and of candidates behind a buffer.
`FirstStage`, `DecWrites`, `VerWrites` and `AlignIs` say which blocks a region writes,
which is where rows that share no block and the reserved block 0 are needed: the decode
region finds its states as they were although the prefill has written first.
`VerifyKeeps` is the rollback: whatever was rejected, the column `home` holds the last
accepted tokens, since the states of the accepted candidates hold no draft (`HeldIs`) and
no other candidate was written there. A pass that reads another column makes its sequence
lost, and nothing is claimed of it until it is released.
`PlainPassIs` and `VerifyPassIs` put the parts together and the theorems follow; a pass
maps to the step of `CausalConv` that answers the same rows, allocation and release to
stutters.

**HetTp and ShardLoad.** Three layers. First the split: the shares of largest remainders
add up because exactly `left` ranks are among the first `left` of the order of
remainders, which counting shows - the numbers of ranks ahead are all different
(`FirstOnes`) - so that offsets are running sums that end at the dimension
(`SplitIsExact`), and the rank of greater weight is never behind. It holds for every
order of equal remainders, so for every way floats may compare them. Then the cuts:
where no rank raises, units of weights and of scales divide shares and offsets, and the
intervals of the ranks follow one another. Then the loading: `Shaped` and `Filled` say
that what is not awaited any more is in place, in the half it belongs to and behind its
padding, and that storing another tensor does not touch it. `SlotsMeet` and `EachOnce`
are read off a parameter in which nothing is awaited.

**Workgroup.** `SamePhase` is the invariant: the number of barriers a wave has passed is
the same for all, since only `Barrier` passes one, for everybody. Two waves that run are
then in one phase, and a conflict between them is one that can be read off the code; a
wave that has ended has passed all its barriers, and one that waits has not. For the reads
`Remembers` is added: what a statement has written is in memory, unless one that does not
come before it has written the cell since. Where a wave stands tells which statements
those can be: what has run never lies in a later phase than what runs next.

What these three theorems ask of a kernel's code is then proved of the dense, the MoE and
the attention kernels, for every launch, block and tile. What a launch may be is a predicate
of the kernels' modules (`IsLaunch`, `IsMoeLaunch`, `IsAttnLaunch`), and TLC evaluates on
every run that the launches it checks are such (`LaunchesFormed` of MCKernels). A *part* is code that ends in a barrier, an *ending* the rest
of a kernel. Each has a contract (`Sound(c, K, L)`): its waves do not conflict in a phase,
what it reads it wrote before or finds in K, and it leaves L. Parts compose when the one
leaves what the next finds (`PartThenPart`, `PartThenEnding`), so a loop is a part by
induction over its rounds (`LoopIsPart`), however many K groups there are. One phase is a
part when its waves are a `Team`: each keeps off the cells the others write. What is left
is one lemma per staging discipline, about a single round: one buffer with two barriers
(`SerialRound`), two halves of which one is read while the other is staged (`PongRound`),
a buffer filled after the compute (`LateRound`), gtile groups side by side (`GroupRound`),
the strided chunks of v11, where waves beyond N still meet (`GemvRound`), the three phases of
v1 with its private sums (`OneRoundPart`), the prologue of the scales (`ScalesPart`) and the
two barriers of the quantisation (`QuantEnds`). The epilogue stores: two waves of a block
compute no output in common (`PlacesApart`), by division with remainder. A block whose share
of a split K is empty returns with all its waves (`SharedProper`).

The MoE kernels stage as the dense ones do, so their loops are the same parts. What is new is
that a block of rows beyond the valid ones returns with all its waves (`BusyProper`); that
waves side by side in N, a power of two of them, cut the tile of a block into patches
(`MoePatchesApart`); and that a row is stored where its slot says, so that two waves keep
apart only because a slot has one row (`PlaceIsOne`). The compaction of the GEMV is
written by wave 0 and read by all of them (`V7HeadPart`); gather and inverse map store one
cell per slot or row.

In a decode kernel each wave leaves its partial softmax and wave 0 merges after one barrier
(`FlashDecodeProper`); a wave without keys leaves one as well. A prefill tile has five phases,
and the cells change hands between them: by fragment in the products, by row in the
softmax, by thread in the rescaling. `State(kb)` says what is in local memory before tile kb,
`After1` to `After4` what is between its phases, and each phase is a team from the one to the
next (`Tile1Team` to `Tile5Team`): who writes a row of a buffer is a function of the row
(`RowsOwned`), so that no two waves do. The tiles are a loop of such rounds, any number of
them (`PrefillLoopPart`). A block past the queries of its sequence returns with all its
waves.

`OutputsOnce` counts over a whole grid, so it needs no invariant but what the code of every
wave contributes, once and for all. `Yields(t, X)`: text t adds exactly X to the output; the
loops over K add nothing themselves (`MuteLoop`), whatever their discipline, and the epilogue
adds its places from the groups of its share (`TiledYields`). Then who owns an output: a row
is in one block, one row of fragments and one fragment, a column likewise (`FragmentsApart`),
and a K group in one share of a split, also when the last share is short or empty
(`SharesAre`). So every contribution wanted is one wave's, and no wave makes another
(`TileOnce`); the kernels without a tile share out elements, rows or columns (`V0Once`,
`CvtOnce`, `QuantOnce`, `GemvOnce`). That owning is what the invariant counts is
`OwnedIsCounted`.

For attention the contributions are keys: a query is owed one contribution from every key it
may see, and which keys those are differs from query to query (`OnceByKeys`). In decode a
query is one block's (`DecodeOnce`); the strides of the waves make up the keys it may see,
whatever their number (`KeysOfWaves`), and wave 0 stores what it merged (`DecodeYields`). In
prefill a query is one row of one tile, of which each wave stores a share (`PrefillOnce`).
What a row has gathered when the loop ends is what its query may see (`GatheredIsSeen`): the
loop ends beyond the last position of the tile's queries, and its own position is visible to
every query, so no row ends on the weights of masked scores.

**Induction.** Sums, concatenations and filters are recursive functions or folds, and the
induction theorems of the library speak of a predicate, which no installed prover can
instantiate. `DataLemmas` says the same of a *set*: a subset of 0..n that has 0 and
each successor is all of it (`Reach`), since otherwise n |-> n + 1 would map a finite
set into itself without 0, against the pigeonhole principle of FiniteSetTheorems. The
least and the greatest element of a set, recursion along an interval (`Recursion`,
`RunUnique`) and partial sums (`SumsExist`) follow. What CHOOSE picks for a recursive
function or a fold is then known, and the models' own operators are what is proved
about, never a restatement of them.

**Only model-checked**: liveness (`LeakEventuallyReaped`, `TeardownEnds`,
`LocksComeBack`, `DeathNoticed`, `EventuallyReplied`), which needs ENABLED; `ToolStream`,
whose loop is a RECURSIVE operator, for which tlapm has no SMT backend; the
premises of the theorems about races, stranding and reads for the gated delta net, CCA and
rotation kernels; and those of `OwnersDecideOutputs` for these and the MoE kernels. There
`NoRace`, `NobodyStranded`, `ReadsMeant` and `OutputsOnce` are checked on the small launches.

## 5. Where code and text disagree

`lease_stale` and `tool_batch` are runs and findings. The others below are reproduced by
replacing the INVARIANTS and PROPERTIES lines of the given configuration by the property
named.

| Configuration | Property | The text | The behaviour |
|---|---|---|---|
| `CloudLeaseStale` | `RecordOutlivesInstance` (the run) | status.py:12 "record but no live instance" | a failed GET is an empty listing, and every record goes |
| `CloudLeaseStale` | `CleanExitReleases` | lease.py:63-65: the sweep finds what a crash in mid-provision left | a failed GET is an empty sweep, without a warning |
| `CloudLeaseLive` | `OnlySigkillSkipsTeardown` | lease.py:7-8: "only SIGKILL can skip it" | a second Ctrl-C lands between `finally:` and the mask (:48-51) |
| `CloudLeaseSafety` | `TeardownUninterrupted` | lease.py:48: "a second Ctrl-C / SIGTERM / SIGHUP can't unwind out of destroy()" | the mask is that of one thread: the checkpoint thread takes the signal, and Python runs its handler in the main thread |
| `CloudLeaseTeardown` | `DestroyGuaranteed` | lease.py:4 "GUARANTEED destroy on any exit path" | the final rsync before the destroy has no timeout (lease.py:59, ssh.py:130-133); ssh.py:30-31 says of commands without one that "a wedged remote" can hang them "indefinitely on a billing box", and the signals are blocked |
| `CloudLeaseSafety` | `ReapSparesAttended` | status.py:9: a live lease with its record and launcher is OK | a lease born between the two reads (:20) is a STRAY |
| `GpuLease` | `LabelStays` | GPU_LEASE.md:30: labels are "reconciled/cleaned automatically" | a job closes its lock, its successor labels the card, and the job removes that label (gpu-lease.sh:87) |
| `GpuLease` | `LockIsLifetime` | gpu-lease.sh:24 "Lock lifetime == container lifetime" | `docker compose ps` names nothing thirty times and the lease goes (:149-159), or `up -d` fails with a part of it started (:147), the script dies before the holder is there (:146), the holder's `docker wait` ends at a restart (:170) |
| `RemoteRun` | `RealExit` | ssh.py:66 "the command's real exit code" | no code counts as 0 (:92, :71), and a shell that was given up writes into the next attempt's file |
| `RsaRound` | `ConsensusIsSelected` | rsa/extract.py:94 "so consensus and final selection agree" | consensus is of the population, the vote is on what the verifier leaves (core.py:587) |
| `CcaState` | `NextStepReadsAccepted` | cca.py:887-890: "the next step reads the state ending at the last accepted token" | without pointers it reads column 0, the state after the first candidate, also when more were accepted: the plan's "root cause (proven)" (docs/zaya/cca-all-mode-spec-plan.md:11-18). With only the computed column, and in "all" mode after a prompt of several blocks (:94-98), it may be another column than the one written |
| `ToolStreamBatch` | `StreamedAsOneShot` (the run) | zaya_tool_parser.py:183 "prevent accidentally closing new calls" | the fallback closes the call that has just begun |

## 6. Limits of the models

* In CloudLease the remote command is one step with one outcome. `wait_ready` and
  `_wait_ssh` succeed only on a live instance, or fail. Hosts have one `STATE_DIR` each;
  writing and removing a record are atomic (`os.replace`, `unlink`). Pids are those of
  launchers.
* In RemoteRun codes are below 124, the code that stands for unreachable. An exception
  from a launch, also of a restart, ends the loop and leads to the teardown. rsync is
  not modelled.
* A job of GpuLease runs once. Its processes inherit descriptors as bash children do; a
  command that daemonises and closes them is out of scope.
* RsaRound is one request: the proxy keeps nothing between requests. Cancellation by the
  client is not modelled.
* CcaState has one layer, since layers share nothing but the block table. Of the engine
  it has the pointers, the acceptance and the copy, each with and without the engine doing
  its part; it does not model a verify step that arrives as a prefill.
* A statement of a kernel runs in one step. That is no restriction where `NoRace` holds.
  Local memory starts with leftovers nobody means to read. Blocks of a launch run apart:
  what they share is the output, by atomic addition where `OutputsOnce` allows two parts
  in a cell.

## 7. Plan

1. `CloudLease` and `RemoteRun` composed: `Finish` as the abstraction of a run, so that
   a lease whose trainer is unreachable meets the teardown.
2. Literals that are cut in `ToolStream`, and the parser inside of the server that
   reuses it.
3. The contracts of the gated delta net, CCA and rotation kernels, as those of the others, and
   who owns the outputs of the MoE kernels.
