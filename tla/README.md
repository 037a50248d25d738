# TLA+ verification of prima.cpp

prima.cpp is a fork of llama.cpp that evaluates one language model on several
home devices. The devices form a ring. The layers of the model are dealt to
them in *windows*, and a hidden state goes around the ring several times for
every token ("piped-ring"). This directory holds TLA+ models of the parts of
the program where several devices, several callers or a long history of calls
meet, the TLC configurations that check them, and proofs checked by TLAPS.

Paths below are relative to the repository, `llama.cpp` stands for
`src/llama.cpp` and `server.cpp` for `examples/server/server.cpp`.

## 1. The system

| component | state it keeps | operations | interacts with |
|---|---|---|---|
| layer arithmetic (`llama.cpp` 3931-3987, 17089) | none; windows in `cparams` | which rank owns a layer; local id; sub-graph id | KV cache, graph building, loading, compression |
| graph building (`build_llama` and its siblings) | list of sub-graphs | walk over the layers | decoding runs one sub-graph after the other |
| KV cache (`llama_kv_cache_*`) | cells (`pos`, `delta`, `seq_id`), `head`, `used`, `n`, `has_shift`, `do_defrag`, K/V tensors | clear, seq_rm, seq_cp, seq_keep, seq_add, seq_div, defrag, update, find_slot | called by the applications between decodes and by decoding itself |
| decoding (`llama_decode_internal`) | batch, ubatch, sub-graph | receive metadata or a cache operation, split, find slots, receive, compute, send | the neighbours in the ring, the cache |
| sockets (`llama_init_sockets`, ZeroMQ push/pull) | queued messages | send, receive, time out | all devices |
| start-up (`llama_init_from_gpt_params`, `llama_bcast_*`, `llama_rebuild_topo`) | device table, windows, ranks, the socket to the next device | send arguments, gather profiles, deal layers, rebuild the ring, renumber, warm-up | all devices |
| forwarders (`llama_forward_messages`) | none of their own | relay what arrives, until STOP | the neighbours in the ring |
| shutdown (`llama_free_sockets`) | `stop_signal` | relay STOP | signal thread and main thread of each worker |
| server slots (`server.cpp` `update_slots`, `process_single_task`) | per slot: state, `n_past`, `cache_tokens`; system prompt | launch, cancel, erase, context shift, prompt reuse, decode with retry | task queue, KV cache of the master, operations sent to the workers |
| server queue (`server_queue`, `server_response`) | tasks, deferred tasks, results, ids that are waited for | post, defer, take, send, receive, cancel, terminate | HTTP threads, the main loop, the signal handler |
| CPU thread pool (`ggml.c` 3205, 19550-20130) | a counter of graphs, the number of threads, a barrier, flags, a counter of chunks | kick off, poll, sleep, compute, meet, pause, resume, free | the caller of `ggml_graph_compute` and its threads |
| log (`common/log.cpp`) | ring buffer, `running` | add, pause, resume, print | all threads and the log's worker |
| main (`examples/main`) | `n_past`, session tokens | context shift, self-extend, decode | master and workers run the same loop |
| profiler, layer assignment, compression, sessions, speculative decoding, graph allocator | see `PROJECT.json` | | |

What is hard in it:

* **Replicated state without a check.** Every device keeps its own copy of the
  metadata of the KV cache and computes slots by itself. The copies agree only
  if every device does the same operations on it in the same order. Nothing in
  the program compares them.
* **One pipe for everything.** Commands (metadata of a batch, cache operations)
  and hidden states travel over the same socket. No number or type that the
  receiver checks tells them apart, only the point in its program at which the
  receiver reads.
* **Timeouts and threads.** A worker waits one second for a command, returns to
  the application and waits again. A second thread waits for STOP and hands it
  over through an unsynchronised `char *`.
* **Long histories.** Shifts are recorded in cells and applied to the keys much
  later, defragmentation is requested at one time, done partly at another, and
  counters (`used`, `head`) are kept by eight functions.
* **Retries and partial failure.** `llama_decode` may fail in the middle of a
  batch; the server halves its pieces and tries again.
* **A ring that rebuilds itself.** Devices without layers leave while their
  neighbours move their sockets; each one computes by itself who is left and
  which rank it has.
* **Sleeping threads.** The server's loop, its HTTP threads, the threads of a
  pool and the log's worker sleep on condition variables and flags that others
  set; a task, a graph or an end may come between a look and the sleep.
* **A cache of a cache.** A slot's `cache_tokens` claims what is in the KV
  cache while other code clears, erases or shifts that.

What makes each component correct: the index functions agree with the walk that
fills the tables; the cache is, to its callers, a set of tokens, and it only
reports "full" when it is; the ring acts as one device; all replicas agree; a
call returns and STOP ends every process; every device that starts either joins
the ring or exits, and all that join number it alike; each slot attends to each
of its tokens once; every request is answered and the loop ends without work; a
pool computes the nodes of a graph in order; the log loses nothing. `PROJECT.json` lists under `hazards` where each can go wrong.

## 2. Modules

| module | models | depends on |
|---|---|---|
| `LayerMap` | the index functions, as operators | |
| `GraphSplit` | one rank's walk over the layers: `k_l` and the sub-graphs | `LayerMap` |
| `GraphSplitProofs` | that the index functions agree with the walk, proved | `GraphSplit` |
| `KvOps` | cell metadata and every function that changes it, as operators from cache to cache | |
| `KvCache` | the cache between its callers, with the K/V rows | `KvOps`, refines `TokenStore` |
| `TokenStore` | abstract: a set of tokens | |
| `KvProofs` | what each operator of `KvOps` does, to one cache and to two that are alike, proved | `KvOps` |
| `KvCacheProofs` | the safety properties of `KvCache`, and that it implements `TokenStore`, proved | `KvCache`, `KvProofs` |
| `Ring` | the devices, their messages, warm-up and shutdown; the cache is a parameter | refines `OneDevice` |
| `OneDevice` | abstract: one device with all the layers | |
| `RingProofs` | types, shutdown, the agreement of the devices, and that `Ring` implements `OneDevice`, proved | `Ring` |
| `Batches` | the two lengths at which batches are cut | `KvOps` |
| `BatchRetry` | the server's loop that decodes a batch | `Batches` |
| `ServerSlots` | the server's slots over the caches of the master and of a worker | `Batches` |
| `ServerProofs` | that the loop gives up only on an error or when the cache is full and stores nothing twice, and all safety properties of the slots, proved | `BatchRetry`, `ServerSlots`, `KvProofs` |
| `RingStartup` | start-up, the rebuilt ring, forwarders, one token and the end | |
| `RingStartupProofs` | that nobody takes a message for another, all number the new ring alike and the first token visits every worker, proved | `RingStartup` |
| `ServerQueue` | the server's task queue, its results, and the loop between them | |
| `Threadpool` | the CPU thread pool and its barrier | |
| `ThreadpoolProofs` | that the barrier keeps the nodes in order and leaves no thread behind, proved | `Threadpool` |
| `LogQueue` | the log's ring buffer and worker | |
| `QueueProofs` | that the server's loop ends without work and forgets no deferred task, and that the log loses nothing and pauses quietly, proved | `ServerQueue`, `LogQueue` |
| `MCGraphSplit`, `MCKvCache`, `MCRing`, `MCRingStartup`, `MCServerQueue`, `MCThreadpool` | instances for TLC; `MCRing` puts the caches of `KvOps` into `Ring` | |

Operators named "Faulty variant" or "Variant" are slips a programmer could make
in the definition that follows them. No specification uses them; putting one in
the place of its original makes TLC find the property that guards against it
(`mutants` in `PROJECT.json`).

### LayerMap and GraphSplit

The operators are the static functions with `n_world`, the rank and the windows
as arguments. The `while (true)` loop of `this_layer_is_mine` is the recursive
function `Sums` of running sums, applied to the windows dealt one after another
(`Cumulative`). `GraphSplit` chooses a configuration in
`Init` and walks over the layers: `SkipLayer` and `TakeLayer` are the two
branches of the loop body of `build_llama`, and of `llama_kv_cache_init`, which
walks in the same order; `Finish` is what follows the loop. A sub-graph is
represented by the layers in it.

### KvOps, KvCache and TokenStore

A cache is a record of the fields of `llama_kv_cache`. Loops over cells are
written as sets of cells: what a loop collects in `new_head` is a minimum, what
it counts a cardinality. `p0 < 0` and `p1 < 0` mean what they do in the code.
`llama_kv_cache_defrag_internal` is given by where each hole's contents come
from (`Filler`), in which block move (`BlockStarts`), and where the limit on
moves ends it (`Filled`); `Moves` is the function from filled holes to the
cells that move there. `Place` is the cache side of one turn of the loop over
ubatches (update, restart of the search, find_slot, rounding of `n`, advance of
`head`), `FinishDecode` the decision to request a defragmentation.

`KvCache` adds the tensors: `row[i]` says whose keys and values cell `i` holds
and to which position the keys are rotated. `llama_decode` is `Decode` and one
`Ubatch` for each ubatch; `UpdatedRows` is the K-shift followed by the copies of
a defragmentation. `TokenStore` is what all of it means: `Stored` maps the cells
in use to a set of tokens, and every operation of the cache is the
corresponding one on that set. Requests, shifts and defragmentation change
nothing in it.

Left out: the recurrent branches (`llama_build_graph` aborts for recurrent
architectures); several K/V tensors (one per layer, all treated alike; where
defragmentation does not, see `DefragStaysInCache` below).

### Ring and OneDevice

Each node has a program counter for its main thread. The master's application
may call `llama_decode` (`AppDecode`), a cache operation with its send function
(`AppKv`), a cache operation without (`AppLocalKv`; the set `LocalCmds` is empty
in a correct application), or end (`Shutdown`). A worker in `idle` waits in
`llama_recv_meta`: it accepts an operation (`AcceptKv`) or a batch
(`AcceptBatch`), sends it on unless it is the last, times out (`Timeout`), or
takes a hidden state for metadata (`Misread`). `Slot` and `SubGraph` are the two
loops of `llama_decode_internal`; the socket a result goes to and whether an
input is awaited are the code's conditions. After each return a worker compares
`stop_signal` (`CheckStop`), which the signal thread receives, sends on and
stores in two steps (`RelayStop`, `StoreStop`); while it is being written the
comparison may give either answer. An assertion that fails ends the whole process
(`"dead"`), the signal thread with it.

Sub-graphs are numbered along the model: 0 is the embedding, `Windows + 1` the
output. `GraphSplit` justifies the numbering (`OutputGoesToNextRank`).
Channels are FIFO and lose nothing, as ZeroMQ pipes over TCP do while both ends
live; two channels into the master are read in any order, as its pull socket
does. Fields `k`, `j`, `g`, `seen` of messages and the variables `acc` and
`log` are history: properties read them, guards do not (`log` also bounds the
number of commands).

The cache is a parameter of `Ring` (`CachePlace`, `CacheOp`, `CacheCleared`,
`CacheEnd`, `CacheInit`), so that the proofs hold for any cache; `MCRing`
gives it the real one.

### BatchRetry

`Call` is one turn of `for (i; ...; i += n_batch)` up to `llama_decode`,
`Ubatch` one ubatch in it, `Fail` the code after a return other than 0: it gives up on
a negative one, and on 1 (no slot) when a piece is a single token. `Refuse` is a call
that returns a negative number, -1 for a token that is not in the vocabulary
(`llama.cpp` 18653-18660; the server takes the numbers a client sends,
`server.cpp` 893) or -2 when there is no memory for the outputs (18798-18800). On the
master both come before the first ubatch, and no other negative number is
returned. `ret` is what the last call returned. Before the loop
other tokens come and go in any order, so that it starts from fragmented caches
with any `head`.

### ServerSlots

One call of `update_slots` is one step; within it every slot is treated in turn:
system prompt, context shift, sampled tokens, prompts, decoding. The code's loops are
`Turns`, a recursive function of the number of turns, and `EachSlot`, the turns over
the slots in order, so that the order matters in the model wherever it does in the
code, and the proofs can go through a loop turn by turn.
`common` is the result of `common_part`, any value up to `cached`, the number of
tokens in `cache_tokens`. A slot puts as much of its prompt into the batch as
fits (`PromptPart`), and goes on in the next call where it stopped. `DecodeBatch`
is the loop over the batch with its retry (`BatchRetry` looks at the same loop
closely, over any cache); when it gives up, all slots are released. It gives up at
once at the piece with `bad`, the first token of the batch that is not in the
vocabulary: any token of a prompt may be, one that was sampled is not (`FromPrompts`). The system
prompt may fail to be decoded too. The master names a slot's sequence `s + 1` and what it
sends names it `s`; `DecodeBoth` subtracts one from the ids in the batch, as
`llama_send_meta` does. The worker does what it is sent in the same step, which
`Ring` justifies (`ActsAsOneDevice`, `ReplicasAgree`). A slot that is shifted by
more tokens than it has in `cache_tokens` ends the server by an exception
(`Throws`); nothing happens after that. `n_past` is shown as 0 in a slot that is
idle, since a launch resets it.

Two variables are history. `updates` makes each call of `update_slots` a step, also
one that leaves everything as it was: the model can then tell a loop that turns
for ever from one that has stopped. `lost` holds the slots that had tokens in a
batch that failed, until they reuse nothing.

Simplified: `ga_n = 1` and `cache_prompt` (the defaults), causal completions,
prompts shorter than the slot's context, no speculative decoding. `llama_decode` does
not return -2: it does so after the workers were sent the batch (`llama.cpp` 18798),
which they then compute without the master; no model has that.

### RingStartup

`pc` says in which function of the start-up each process is. A message has a
type and a value; the marks `is_forwarder` of all devices travel as the set of
marked ranks. `Rebuild` is `llama_rebuild_topo` after the marks are known: who
stays connects past its idle successors as far as it can (`Connection`; that a
port answers is the set `up`), marks the device it reached, and tells the next
device to exit over the old socket. `TakeView` is its second half. `Listener`
is the address `try_connect` computes: the machine of the rank, and the rank
added to the caller's own data port. `Members`, `UpdateRank`, `WorkerRank` and
the others are the loop over the windows in `llama_init_from_gpt_params`, on what
each process has. Then one token goes around (`FirstToken`, `TakeBatch`,
`TakeHidden`), forwarders relay, and STOP ends the processes. A window is only
compared with 0, so `works`, the ranks with layers, stands for the windows.

### ServerQueue

A step is a critical section under `mutex_tasks` or `mutex_results`. `loop` is
the place of `start_loop`; `Process` is `process_single_task` for the kinds of
tasks that differ in the queue: completions, metrics (posted in front), slot
actions (posted before they are registered), cancellations and the loop's own
`NEXT_RESPONSE`. A slot has a task and the rounds of the loop it still needs. A
client receives results until it has all, an error comes, or its stream is
closed; then it cancels. `cancel_tasks` sends a result and removes the id task
by task; here that is one step. What is in a request, and which of several
idle slots is the best, is left out (any idle one is taken).

### Threadpool

`pc` is the place of each thread, with one step for each access to a shared
variable or section under the mutex. `nth`, `node`, `chunk` and `seen` are the
threads' locals. `done` and `again` are history: which rows and chunks of which
node were computed, and whether one was computed twice. Steps are sequentially
consistent. The code orders the accesses to the barrier and to `n_graph` that
way; that relaxed reads in between may be older is not modelled.

### LogQueue

Adding, taking, pausing and resuming are sections under the mutex. `Store` is the
ring buffer with its growth: the loop that moves the entries is the function
from old to new places. `log_running` is the code's `running`; with `LogInit`,
`LogNext` and `LogSpec` the module shares no name with `ServerQueue`, so that
`QueueProofs` can extend both.

## 3. Runs

| run | bounds | shows |
|---|---|---|
| `MCGraphSplit` | up to 3 ranks, windows 1..3, up to 10 layers | id functions agree with the walk; output goes to the owner of the next layer. 10 layers are more than a full cycle (9) and leave every kind of incomplete last cycle for the smaller ones |
| `MCKvCache` | 3 cells, 2 sequences, positions 0..1, batches of one or two ubatches, 1 block move | all invariants and the refinement of `TokenStore`. Three cells hold a shared cell, a hole before it and one behind it; two positions suffice to shift up, down and below zero |
| `MCRing` | 3 devices, 4 windows, 4 commands including the warm-up; cache of 2 cells; fairness | message order, agreement of replicas, refinement of `OneDevice`, liveness. Three devices are the fewest with a worker that is neither first nor last; with 4 windows the last window is rank 1's, the first has one more turn and sends through its `master_socket` |
| `MCRingDiverged` | 4 devices, 5 windows, 3 commands, an erase that is not sent, and workers that may time out before the warm-up run | workers whose caches have come apart from the master's give up batches, take hidden states for commands, run empty batches or abort; the ring then stands still, but no device computes, and the master takes, anything but the hidden state of the present command, ubatch and sub-graph (`NoWrongResult`). With 4 devices two workers can abort and the last, which does not abort, follows others that do; what goes wrong is seen in `NoConfusion`, which TLC refutes here |
| `MCRingStartup` | 5 devices on 5 machines, four ways to give them data ports, one signal port | nobody reads a message meant for somebody else, the devices agree on the new ring, a token visits every worker, every process ends. With 5 devices two in a row can be idle next to a forwarder and a worker |
| `MCBatchRetry` | 4 cells, 4 tokens, one ubatch per piece, any call may return an error | the retry is right in this case, which is the only one in which it is; the defaults, `n_batch` 2048 and `n_ubatch` 512, are not this case |
| `MCServerSlots` | 2 slots of 4, 4 cells for both, prompts of 1 and 3 tokens, batches of 2; fairness of the loop | prompt reuse, prompts in two batches, context shift, cancellation, batches that find no room and then fit in pieces or not at all, prompts with a token that is not in the vocabulary, on master and worker; every prompt ends. With 4 cells two slots that are half full leave no room, and a batch of 2 can be halved once |
| `MCServerQueue` | 2 slots, 3 clients, completions of 2 rounds; scenarios with several deferred tasks, with a stream and a refused launch, and with a slot action and metrics | no lost wake-up, nothing deferred for ever, a clean end |
| `MCThreadpool` | 3 threads, up to 3 graphs with 1 to 3 threads, never more than the graph before; 2 multiplications with 8 chunks (shared out by the counter with 2 threads, by thread with 3) and a node split by thread | nodes in order, no thread left behind, kick-off and free are noticed. Three graphs let a thread be two graphs behind |
| `MCLogQueue` | 2 entries, 7 messages | the buffer grows to 4 and 8 with `head` at any place |
| `MCServerChanges` | 1 slot of 5, 6 cells, prompts of 1 and 3 tokens, system prompts of 0, 1 and 2 tokens and one of 7, which does not fit, erasing, an early task | whatever is cleared under a slot, and whatever fails, it attends to no position twice and to none from its end on. Whether the token at a position is the slot's own the property does not say |

`CHECK_DEADLOCK FALSE` is used for `GraphSplit`, whose walk ends, for
`MCRingDiverged`, where a ring that has lost a worker stands still, and for
`MCServerChanges`, where an exception may end the server.

`MCKvCache` also passes, with `HoleBatches`, `HoleRanges`, 5 cells, 5 ids, one
sequence, padding 2 and `MinDefrag = 2`: several runs of holes, and a
defragmentation that stops half-way. `MCRing` passes with 3 windows as well.

One run ends in a violation, a disagreement between the code and what it says of
itself (`findings` in `PROJECT.json`): `MCRingErase`. After an erase on the
master only (`server.cpp` 1970), a worker finds no slot and the master waits for
ever.

More disagreements of this kind, each refuted by TLC when the named
configuration is changed as stated and the property named here is the only
one it lists (TLC stops at the first violation, and the same counterexamples
break `ReplicasAgree` or `SlotsAgree` as well). They are why the passing runs have the
constants they have.

| change | refuted | what TLC shows |
|---|---|---|
| `MCGraphSplit`, that invariant | `NextNodeFirstLayer` | `get_next_node_first_layer_id` (`llama.cpp` 3948, "count next node first layer") forgets that rank 0 comes last in a cycle |
| `MCGraphSplit`, that invariant | `DefragStaysInCache` | `build_defrag` (`llama.cpp` 10885) indexes the K/V tensors of a device with the layers of the whole model; so do the functions that write and read state files (23364, 23682), which is why slots are not saved and restored in `ServerSlots` |
| `MCRing`, `WarmTimesOut = TRUE`, `MaxLog = 2`, that invariant | `WarmUpIsEmptyRun` | a worker whose receive times out before the "empty run" (`common/common.cpp` 1960) starts decodes it later and keeps its tokens |
| `MCRing`, `LocalCmds <- MCKvCmds`, `MaxLog = 3` | `SameCacheInAllLayers` | as self-extend in `examples/main` (630-632) sends none of its operations, the layers of one ubatch are computed on different positions |
| `MCServerSlots`, `EarlyTask = TRUE` | `SlotsAreWhole` | the initial clearing (`server.cpp` 2014) happens after a task that was queued before `start_loop`, and the next prompt reuses tokens that are gone |
| `MCServerSlots`, `Size = 10`, `NewSystems = {1}` | `SlotsAreWhole` | a new system prompt (`server.cpp` 1762-1770) clears the cache and leaves `cache_tokens` |
| `MCServerSlots`, `Size = 10`, `FirstSystem = 1`, `CanErase = TRUE` | `SlotsAreWhole` | erasing a slot (`server.cpp` 1970) takes the system prompt out of its sequence for good |
| `MCServerSlots`, `Size = 12`, `SlotCtx = 5`, `FirstSystem = 3` | `SlotsAreWhole` | a context shift (`server.cpp` 2052) moves cells of the system prompt that other slots share |
| `MCServerSlots`, `CanErase = TRUE` | `SlotsAgree` | a slot erase action (`server.cpp` 1970) is not sent to the workers, as in `MCRingErase` |
| `MCServerSlots`, `NBatch = 4` | `NoStrayTokens` | a piece that fails in its second ubatch leaves the first one in the cache, and the retry (`server.cpp` 2445-2447) stores it again |
| `MCServerSlots`, `Size = 12`, `SlotCtx = 5`, `FirstSystem = 3` | `NoStrayTokens` | the same shift leaves another slot with two tokens at one position |
| `MCServerSlots`, `Size = 10`, `FirstSystem = 1` | `SlotsAgree` | the system prompt is decoded in sequence 0, which a worker gets as -1 (`llama.cpp` 18042), so copying sequence 0 to the slots (`server.cpp` 1215-1219) copies nothing there |
| `MCServerSlots`, `SlotsAreWhole` without `\ lost` | `SlotsAreWhole` | after a batch that failed `cache_tokens` (`server.cpp` 2342, kept at 2438-2441) names tokens that never reached the cache, and the next prompt reuses them |
| `MCServerSlots`, `Slots = {0}`, `NBatch = 1`, `NUbatch = 1`, `FirstSystem = 1` | `PromptsEnd` | a prompt that fits in `n_ctx` without the system prompt but not with it is shifted in the middle (`server.cpp` 2034); `n_past` goes back, and the same tokens are put in again for ever |
| `MCServerSlots`, `PromptsEnd` without its antecedent | `PromptsEnd` | the loop over the slots starts at the first and ends when the batch is full (`server.cpp` 2367); new prompts in lower slots starve a later one |
| `MCServerChanges`, that invariant | `NeverThrows` | `n_discard` counts the system prompt, `cache_tokens` does not (`server.cpp` 2047, 2062): with a long system prompt the new size is below zero, and `resize` throws |
| `MCBatchRetry`, `NUbatch = 2` | `StoredOnce` | the retry (`server.cpp` 2445-2447) repeats the whole piece, whose first ubatch was stored before the second found no slot |
| `MCBatchRetry`, that invariant | `GivesUpOnlyWhenFull` | "if you get here, it means the KV cache is full" (`server.cpp` 2436, and the message 2437 prints) is not so when `llama_decode` returned a negative number (2435): a token that is not in the vocabulary gives up the batch of all slots with an empty cache, and the clients are told that their prompts are too big |
| `MCServerQueue`, `Rounds = 1`, `Scenarios <- StuckScenarios` | `NoSleepOverDeferred` | one task leaves `queue_tasks_deferred` for each slot that is released (`server.cpp` 472); if its launch is refused no slot is released any more, and the next deferred task waits for ever |
| `MCRingStartup`, `Host <- OneHost`, `DataPorts <- OwnPort`, without deadlock check | `EveryDeviceEnds` | the numbering of ports that the message in `try_connect` (`llama.cpp` 20928-20937) describes is not the one it computes: the rank is added to the caller's own port, and a device connects past one that stays |
| `MCRingStartup`, `SignalPort <- OwnSignalPort` | `EveryDeviceEnds` | after devices have left, STOP is sent to the machine of the new neighbour and the port of the old one (`llama.cpp` 21359) |
| `MCThreadpool`, `N = 2`, `MayGrow = TRUE` | `NoThreadLeftInGraph` | "no worker threads should be accessing" (`ggml.c` 20091) does not hold for a thread that slept through a graph with fewer threads and wakes while the next one is set up; see below |
| `MCThreadpool`, `N = 2`, `Nodes <- SplitNodes`, `Computes = 1`, `MayAbort = TRUE`, without deadlock check | `ComputeReturns` | aborting a graph (`ggml.h` 652, `llama.h` 390) may leave one thread in a barrier that the others never reach |
| `MCLogQueue`, `PauseReturns` without the conjunct `~Stuck` | `PauseReturns` | the entry for the end (`common/log.cpp` 288-293) is pushed without growing the buffer; with one entry left the buffer looks empty and `pause` waits for ever |

A graph that grows (`MayGrow`) is ordinary. On the master the first sub-graph of an ubatch holds
only `GET_ROWS` (`llama.cpp` 11170-11174), which is one task (`ggml.c` 19225), so
that it is computed with one thread (19791); the next graph, the first with layers, has
more threads, for every token. A master that runs an attached CPU pool in a build
without OpenMP is therefore outside of what `MCThreadpool` checks and
`ThreadpoolProofs` proves (`MayGrow = FALSE`, `Steady`); a worker, whose graphs all have
layers, is inside, as long as its number of threads stays the same between the
prompt and the tokens that follow it.

What the model of the server queue shows without a property: a result of a
slot action or a LoRA task that is sent before its id is registered
(`server.cpp` 3003-3004, 3465) is dropped, and the client waits for ever;
results of cancelled tasks that arrive too late stay in `queue_results`, so
that every later `recv` that looks finds the condition it waits for true and
turns without sleeping; a task for a slot that does not exist is deferred for
ever; cancelled tasks that are still queued or deferred run later; a signal
before `start_loop` is forgotten (`running` is set there), and a task posted
after its end is never answered. The scenarios of the passing run and
`EveryRequestAnswered` leave these out.

### Fairness

`Ring` assumes weak fairness of every thread on its own: a node in the loops of
`llama_decode_internal`, a worker's main loop, a worker's signal thread, and the
master in `llama_free_sockets`. Each is an operating-system thread whose next
step, once possible, stays possible until it is taken (a message in a pipe is
not taken away by anybody else), so weak fairness is what a fair scheduler gives.
The application is not assumed to call anything. Messages in a pipe arrive: a
queued message is at once readable. `BatchRetry` assumes that its single thread
goes on.

`RingStartup` assumes weak fairness of every process, for the same reason: the
sockets queue what is sent, and a blocking receive goes on once something is
there. A master whose solver fails returns without telling anybody
(`common/common.cpp` 1784); `EveryDeviceEnds` is about the starts at which it
does not. `ServerQueue` assumes it of the loop and of each client's thread; the
signal need not come, and no client needs to give up. `Threadpool` assumes it of
the thread that calls and of each thread of the pool: a waiting thread polls or
is woken through its condition variable, and a mutex is always given back.
`LogQueue` assumes it of the log's worker and of the thread that joins it; nobody
needs to log or to pause. `ServerSlots` assumes that `update_slots` is called again
while a slot is busy: each call posts a `NEXT_RESPONSE` task first (`server.cpp`
2022-2030), and `ServerQueue` shows that the loop takes it. `GraphSplit` and
`KvCache` have no liveness properties and no fairness.

## 4. Proofs

`RingProofs` proves, for every number of devices of at least two, every number
of windows, all batches and cache operations and any cache functions, assuming
only `RingAssumption`:

* `TypeTheorem`, `TypeCorrect`: `Spec => []TypeOK`. `TypeOK` is not inductive: a
  worker's `batch` comes out of a message, so `TypeInv` adds that a decode
  command in a channel carries one of `Batches` (`ChannelsOK`). Lemmas `PushOK`
  and `PopOK` say that sending and receiving keep this; there is one step for
  each action.
* `StopTheorem`: `Spec => []StopOnce`. `StopOnce` speaks of `sig` as a set of at
  most one element; its inductive form `StopInv` says where a STOP is and which
  workers have stored it (all before it, none behind), that it exists only once
  the master is closing, and that a worker is off only if it has seen it. Lemma
  `StopFrame` covers every action that touches neither `sig` nor `stop`;
  `StopRelayed` is the heart: the STOP moves from `n` to its successor, which is
  `n + 1` or, from the last rank, the master. `StopInv` relies on `TypeOK` for
  the domains, so the two are combined in the last step.

`TypeCorrect` is not a property of a run, since it says no more than the types.
`NoWrongResult` is not proved: it is about devices whose caches have come apart, and
whether a worker can be left with a slot where the master found none depends on
the cache and on what the application forgets to send.

The other safety properties of `Ring` and its refinement follow in the same
module. These theorems assume `InStep`: the application sends every cache operation it does
(`LocalCmds = {}`), and the warm-up run starts before a worker's receive times
out (`~WarmTimesOut`). Without either, TLC refutes them (section 3).

* `AgreeTheorem`: `InStep /\ Spec => []AgreeInv`. The idea is that all devices
  compute the same *history*: `After` is the state that follows a state of a
  device on the commands in `log`, a function of that state alone. `Agreement`
  says that there is a sequence `f` of states, each `After` the one before, and
  a place `pos[n]` of every device on it (`History`); that nobody passes the
  sub-graphs of an ubatch without the master, nor the master without the workers
  (`Placing`); that, while the master is in its loop, `base + o` is the sub-graph
  to be computed next and every device is at its first one from there on
  (`Graphs`); and that the channel into a device holds exactly the commands
  between what it and its predecessor have taken, followed by the hidden state
  if it is on its way there (`Contents`). A history may reach further than any
  device (`Reach`), so the step of a device is one place forward on it. There
  is one lemma for each kind of step (`AgreeAccept`, `AgreeSlot`,
  `AgreeGraphWorker`, `AgreeGraphMaster`, `AgreeApp`, `AgreeTimeout`,
  `AgreeElse`), over lemmas that say how each of the four parts survives it.
  `NeverMisreads` says that `Misread` cannot happen.
* `NoConfusionTheorem`, `OneHiddenStateTheorem`, `ReplicasAgreeTheorem`,
  `SameCacheTheorem`: the invariants of the run `ring` follow. For the replicas
  the reason is that a history has no state twice (`Before` is a strict order).
* `OneDeviceTheorem`: `InStep /\ Spec => ActsAsOneDevice`. Every step of the ring
  is a step of `OneDevice` or leaves its variables alone (`DeviceNext`). The
  refinement mapping's `NextToCompute` is `base + o` (`NumberLemma`), which the
  step lemmas move forward by one or not at all.

`QueueProofs` proves `EndsCleanTheorem`, `Spec => EndsClean`, for any
slots, clients and scenarios that meet the module's assumption, from the
invariant `QueueInv`: types, and that from the moment the loop has updated the
slots until it looks whether to go on, the queue holds a task if any slot is busy
(`BusyHasTask`; it is the `NEXT_RESPONSE` task that `update_slots` posts). The loop
ends when it sees an empty queue, and then no slot is busy.

`NobodyIsForgotten` proves `NoSleepOverDeferred` from `Slot # {}` and `[]Served`:
either no launch fails and no task is a slot action (`Launchable`), or no more
than one task is deferred at a time. This is what the code needs, not what the
proof needs: a release puts one deferred task back and expects it to take the
slot, and where it may not, TLC finds a second task that waits for ever (section 3).
`Served` holds in every state of the run `server_queue`, which has scenarios of
both kinds. `AwakeInv` says that where a task is deferred a slot is busy or, if
launches cannot fail, a completion is in the queue, which will find a slot free
or busy; with `BusyHasTask` neither is the case when the loop looks for the last
time. `ReleaseServes` is the step that matters.

Its second half is about the log: `NothingLostTheorem` and `PausedIsQuietTheorem`, for
a new log of any size from two and any number of messages. The invariant `LogInv` says
that messages are accepted and printed in the order 1, 2, 3, ... (`InSequence`),
that the k-th entry of the buffer, counted from `head` with the wrap-around, is
the k-th message the worker has not taken, with the entry for the end last while
`pause` waits (`BufferFollows`), and that a worker that is gone has left nothing
(`OffIsEmpty`). The buffer can look empty when the entry for the end has filled it
(`Stuck`, section 3): then `Length` is its whole size, and nothing is lost either,
the worker just never looks again. Growing is the longest step: every entry keeps
its distance from the head.

The KV cache is proved about in two modules, for any number of cells, any
padding and threshold, any limit on block moves, and any calls. They assume
`KvAssumption` and `CallsAssumption`: sizes are positive, tokens have natural
positions and at least one sequence, and no batch or ubatch is empty.

* `KvProofs` is about the operators. `GoodCache` collects what every one of them
  keeps: types, `Marks` (a cell has a position exactly when it has a sequence),
  `Counted` (`used` is the number of cells in use) and `Pending` (a cell with a
  delta, also a free one, implies `has_shift`). There is one lemma for each
  function of the code (`ClearGood`, `RmGood`, ..., `PlaceGood`), which also says
  what it does to the cells. Three of them need an argument:
  - `SearchFinds`: find_slot returns a run of free cells, or has tried every
    place. `Search` is a recursive function on `Tries`; that it is well defined
    follows from `Left`, which decreases with every turn, through a least
    counterexample (`Smallest`, from the well-foundedness of `<`).
  - `MovesAre`: a defragmentation moves each cell at most once, from behind the
    `used` first cells into a hole among them. `Filler` gives hole `i` the live
    cell whose rank is `Rank`; `PlacesDiffer` says that two holes have different
    ranks, `EnoughMovable` that there are as many cells to move as holes.
  - `UpdateGood`: after shift and defragmentation no delta is left, and the cells
    in use are those from before, rearranged.
  Its second half looks at a cache as sequences see it: `RmSeqs`, `AddSeqs`,
  `CpSeqs`, `UpdateSeqs` and `PlaceSeqs` say which positions each sequence has after an
  operation, that none is doubled, and which sequences share cells; the `...Alike`
  lemmas compare the caches of two devices.
* `KvCacheProofs` adds the K/V rows: `KvInv` is `GoodCache`, with `KeysAreAt` (a
  key is rotated to its position up to the pending delta) and `RowsAreDistinct`.
  From it: `UsedIsAccurateTheorem`, `KeysFollowPositionsTheorem`,
  `RowsAreDistinctTheorem`, and `FailsOnlyWithoutRoomTheorem` from `SearchFinds`.
* The refinement, `StoresTokensTheorem`, `Spec => StoresTokens`: each call
  changes `Stored` as its action of `TokenStore` says, and an update, being a
  rearrangement onto the same tokens with each token's position and sequences
  kept, changes nothing. `TodoComes` is the one addition to `KvInv`: the mapping
  needs to know that ubatches still to come are part of what the caller asked for.

`ServerProofs` first proves `GivesUpForAReasonTheorem` for a cache, a batch, pieces
and ubatches of any length, so also for pieces of several ubatches, where
`StoredOnce` fails: the loop gives up when `llama_decode` returned a negative number,
or when no cell is free. `RetryInv` says that a piece of one token is one ubatch of
one token (`SplitIs`, the arithmetic of the rounded-up division); when that finds
no slot, the search has tried every single cell (`PlaceGood`).

`NothingStoredTwice` proves `StoredOnce` when no piece is longer than an ubatch
(`OneUbatchPerPiece`; with `n_ubatch < n_batch`, which is the default, the property is
false, section 3).
`StoreInv` says that the cache holds the tokens of the prompt below `i`, each in
one cell (`OnceBelow`), and that the ubatch to be placed is the whole piece
(`SplitOne`). A defragmentation in between moves the cells one to one
(`UpdateKeepsStored`, from `UpdateGood`), a slot that is found takes the next
tokens and no others (`PlacePiece`), and one that is not found leaves the tokens
alone.

The rest of `ServerProofs` is about `ServerSlots`, for any number of slots, any cache,
context, prompts, system prompts and lengths of batches and ubatches. It proves one
invariant, `SlotsInv` (`SlotsInvHolds`), whose parts hold under conditions of their
own, since the properties do. Each condition is there because TLC refutes the
property without it (section 3):

| theorem | holds if | because otherwise |
|---|---|---|
| `ServerSlotsAgree` | there is no system prompt and no slot erase action (`AgreeCase`) | the worker gets the system prompt's sequence as -1; an erase is not sent |
| `ServerNoStrayTokens` | no piece is longer than an ubatch, and there is one slot or no system prompt (`StrayCase`) | a retry stores ubatches twice; a shift of one slot moves the system prompt for all |
| `ServerSlotsAreWhole` | no piece is longer than an ubatch, and there is neither a system prompt nor a task before the loop starts (`WholeCase`) | as above; a new system prompt or the first clearing leaves `cache_tokens` behind |
| `ServerNeverThrows` | there is no system prompt (`NoSystemPrompt`) | a shift may discard more tokens than `cache_tokens` has |

They hold for all sizes: a cache that is too small for one slot and batches longer
than the cache are included. The
runs `server_slots` and `server_changes` lie within the conditions; `NeverThrows` is
in no run of its own, because the run with system prompts refutes it.

The argument follows `update_slots`. `Turns` is a recursive function, and that
its values are what its definition says is shown once, by least counterexample
(`RunExists`); the lemmas `ShiftTurns` to `SystemTurns` give the turns of each
loop, and what a turn keeps, the loop keeps (`UpToAll`). What is kept is
`Good(w)`, of the record `w` that a pass works on, in the middle of a batch as
well:

* `Base`: the master's cache is a `GoodCache`, the batch has tokens of single
  slots, and a slot with a prompt in the cache has as many `cache_tokens` as
  `n_past` (`SlotForm`).
* `Alike`: the worker's cache is the master's with the sequences renamed
  from `s + 1` to `s`. `KvProofs` shows for every operation that it keeps two caches alike
  (`RmAlike`, `AddAlike`, `PlaceAlike`, `FinishAlike`, ...): the search for a
  slot and the defragmentation look only at which cells are in use, so both
  caches find the same slots, and fail alike.
* `Stray`: what a slot has in the cache and what waits for it in the batch
  (`Waiting`) are different positions, each there once, none from its end on, and no
  two slots share a cell.
* `Whole`: together the two are exactly the positions before `cached`. The batch
  has to be part of this: between `AddPrompt` and the last piece `cache_tokens`
  has tokens that are not in the cache.

A context shift keeps this because it moves the tail of a sequence down by
exactly what it removed (`ShiftKeeps`); a prompt, because what follows the
common part is removed first (`PromptKeeps`); a piece moves its tokens from the
waiting ones to the cache (`PieceStored`), or, refused, leaves everything
(`NothingStored`), which is where one ubatch per piece is needed; a piece with a
token that is not in the vocabulary changes nothing but `ok` (`GivenUpKeeps`). When the batch is given
up, the slots whose tokens were in it join `lost`, and `Whole` says nothing of
them until they reuse nothing (`FinishKeeps`). `DecodeBatchKeeps` shows
that the loop ends with the batch decoded or given up within the number of
turns the model allows it.

`ThreadpoolProofs` proves `NodesInOrder` and `NoThreadLeftInGraph` for any number of
threads, nodes and chunks and any sequence of graphs, pauses, resumes and frees,
under `Steady`: no graph uses more threads than the one before, none is aborted,
and a graph has at least one node. TLC refutes `NoThreadLeftInGraph` without any
one of the three. The invariant `PoolInv` says where every thread is: the pool is
`Resting` between two graphs, with all other threads out of the last one, or it
is `Running` at a *frontier*, a node and its half before or after the barrier in its
middle. Every thread that takes part (`Part`) has come to the frontier (`Here`), has
yet to leave the barrier before it, which is already open (`Behind`), has not begun
with the graph yet, which is only possible at the first barrier (`NotYet`), or has
left it, after the last one (`Gone`). The barrier has counted exactly those that
wait in it (`Counted`), or the last to arrive is about to open it (`LastOne`); in
either case it opens only when all have come, and nobody can be two barriers
behind, which is why a counter of barriers passed is enough for the threads to
notice. `WorkInv` says what is done: all of the nodes before the frontier; of the
node at it, the rows of the threads past their part (`MiddleWork`), the chunk of
each thread (`FewChunks`), or the chunks below the shared counter, but for those
some thread is working on (`ManyChunks`).

`GraphSplitProofs` proves the three invariants of the run `graph_split`, for any
number of ranks, any positive windows and any number of layers. That the running
sums exist and what they are (`SumsAre`) is shown by least counterexample, as for
the cache. From there `Dealt` says where the windows of one cycle begin and end,
`DealtCycles` that every cycle is like the first, and `OwnerIs`, `OwnerNext` and
`OwnerWithin` whose a layer is, without the search of `this_layer_is_mine`. The
invariant `WalkInv` gives the walk in closed form: after `il` layers this rank has
put `Before(il)` tensors into `k_l` and begun `Started(il)` sub-graphs (`KInv`), and
the sub-graph that is open holds the layers from its first one to `il - 1`
(`OpenInv`).

`RingStartupProofs` proves the three invariants of the run `startup`, for any
number of devices, any choice of layers the solver may make, and whatever ports
answer. They assume `Numbered`: at the address `try_connect` computes for a rank
that rank answers or nobody does. It holds whenever every device has a machine of
its own, as in the run, and fails for the ports the message in `try_connect`
describes on one machine, where section 3 shows what happens. The invariant
`StartInv` says that the devices are in one of three phases:

* `Before`: one message, of arguments, of profiles or of windows, is on its way
  around the initial ring; the ranks it has passed are a step further than those
  before it (`ArgsAt`, `InfoAt`, `SetupAt`), or the master has given up.
* `Rebuilding(M, t)`: the members `M` of the new ring have been found up to rank
  `t`, which gets the marks next. A member's socket leads to the next member
  (`NextIs`, `Sockets`). A device outside `M` still waits, or exited, in which
  case the one before it is past as well, and the marks that will tell it to exit
  agree with `M` up to the next member (`Told`, `Agrees`): so the news reaches every
  idle device although each hears it only from the one before it.
* `Running(M, v, b, h, q, src)`: marks, first batch and hidden state follow each
  other around the new ring, and `v`, `b` and `h` are the members that get them next.
  A worker passes the marks on before it reads the batch and the batch before the
  hidden state, so none overtakes another (`Tokens`); the channel into a
  member holds exactly those that are on their way to it, in that order (`Pile`),
  and where each device is follows from the three places (`MemberPc`). `q`, what
  the hidden state has visited, is the workers before `h` in increasing order
  (`Seen`). The devices that were told to exit do so independently (`OtherLeaves`).

`Reconnected` and `Grows` are the steps that find the next member; `Rebuilding`
takes over from `Before` in `SetupEnds`, and `Running` from `Rebuilding` where the
master has its marks back. `NoConfusionHolds` follows because in each phase the
head of a channel is what its reader expects; `ViewsAgreeHolds`, because all
members that are ready have the marks of the same `M`; `LapIsCompleteHolds`, from
`Seen` with `h = N`.

Each invariant was checked with TLC as an invariant of small instances before it
was proved (`AgreeInv` with `f`, `pos`, `base` and `o` found by enumeration, for 2
to 4 devices and several numbers of windows; `PoolInv` for 2 and 3 threads, with
the frontier found by enumeration; `WalkInv` for 3 ranks and 12 layers; `StartInv` for 3 and
4 devices, with its places found by enumeration; `KvInv`,
`RetryInv`, `LogInv` and `SlotsInv` with the configurations of section 3).

Only model-checked: liveness (`PromptsEnd`, `LoopEnds`, `EveryDeviceEnds`,
`ComputeReturns` and the others of that kind), which needs fairness and `ENABLED`
and is out of the prover's reach; and `NoWrongResult`. Every other invariant of the
passing runs is also a theorem.

## 5. Not modelled

See `components` in `PROJECT.json`, with the reasons. In short: batch splitting,
sessions, speculative decoding and the graph allocator are possible and not done;
in the components that are modelled, self-extend, truncated prompts and slot save
and restore in the server, a failing allocation or compression in the ring, pools built with OpenMP and the reordering of relaxed
memory accesses. Tokenisation, sampling, file formats, kernels, GPU backends, the
profiler and the solver that assigns layers are sequential data processing with
no protocol in it; they are most of the repository's lines.

## 6. Plan

Next modules, in this order:

1. `ServerSlots` with self-extend and with truncated prompts.
2. Failing allocation and compression in `Ring`, which the proofs would have to
   follow: a hidden state that is not sent breaks `Contents`.
3. `Sbatch`: `from_batch`, `split_simple` and the output ids against a reference.
4. Sessions: a prefix found in the master's file and not in the workers' caches.

Next proofs: the invariants of the slots with a system prompt and a single
slot, where TLC finds `SlotsAreWhole` as long as the prompt is never replaced; and
of the modules above.
