# TLA+ models of the PoseidonOS metadata I/O path and its neighbours

This directory holds TLA+ models of parts of the PoseidonOS sources under
`src/`, the TLC configurations that check them, and `PROJECT.json`. That file
lists:

- every component, with its modelling status;
- every run and its expected result;
- the mutant that each checked property must catch;
- the map from each definition to the source lines it models;
- the findings;
- the hazards of the code.

## The system

The repository is a slice of PoseidonOS, a storage array OS. It contains:

- **Meta filesystem (metafs) I/O path.** This is the concurrent core.
  - `MetaFsIoApi` (`src/src/metafs/mai/metafs_io_api.cpp`) takes sync `Read`/`Write` calls, for the whole file or a range, and async `SubmitIO` calls. It checks them in this order:
    1. `isNormal`, the mount status;
    2. `_AddFileInfo`, which fails with `FILE_NOT_FOUND`;
    3. `_AddExtraIoReqInfo`, where a whole-file call becomes `[0, fileSize)`;
    4. `_CheckReqSanity`, which runs `IsValid`, then `_CheckFileIoBoundary`, then `isActivated`, then the opcode.

    It then hands the request to the scheduler.
  - `MetaFsIoScheduler` (`metafs/mim/metafs_io_scheduler.cpp`) runs one thread. The thread dequeues requests from a strict-priority multilevel queue. For each request, `IssueRequest`:
    - sets the call's completion count to `endLpn - startLpn + 1`;
    - clones one sub-request per chunk-sized meta page;
    - sends the clone of page `idx` to worker `idx % totalMioHandlerCnt`.
  - `MioHandler` workers (`mio_handler.h`; the `.cpp` is not in the repository) own a per-worker range-overlap checker and a `pendingIoRetryQ`.
    - A sub-request whose page is locked or already pended is deferred.
    - Otherwise its page is locked and the sub-request is issued to storage (`mss.cpp`).
    - On completion the worker releases the page and re-issues the deferred sub-requests that are now free. It then decrements the shared count, and the worker that reaches zero completes the call: it wakes the sync caller or runs the async callback.
- **MetaFs service** (`metafs_service.cpp`): the array-name to file-system registry, and the thread set-up (`_PrepareThreads`), which creates the one scheduler and registers each handler with it (`RegisterMioHandler`); `AddArrayInfo` later walks that handler list.
- **MetaFs file interface** (`metafs_file_intf.cpp`): the file API of the journal and the mapper, over the metadata I/O API; `AsyncIO` allocates a callback context that the completion deletes.
- **Inode creator** (`inode_creator.cpp`): file creation, with a rollback when the inode table cannot be saved.
- **Back-end flush** (`flush_submission.cpp`): the `pendingFlush` counter around an async stripe write that is retried as an event.
- **Journal replay** (`flush_pending_stripes.cpp`): the replay task that closes each pending write-buffer stripe at its recorded tail and then bulk-flushes them, which starts one back-end flush event per stripe.
- **QoS monitoring** (`monitoring_manager.cpp`): each cycle gathers the active volumes from the reactors (with the stability counter that gates `ResetCorrection`), then drains the backend-event parameters the UDD workers enqueue into the context.
- **Array device list** (`array_device_list.cpp`): an array's NVM, data and spare devices, kept under one mutex.
- **Array service layer** (`array_service_layer.cpp`): registers an array index with the I/O translator, recover and device-checker registries, in that order, stopping at the first failure.
- **Volume QoS** (`volume_interface.cpp`): a sequential multi-step update that can fail halfway (not modelled, see below).
- Data declarations, CLI formatting, telemetry types, generated gRPC code and unit tests, which carry no modelled behaviour.

`PROJECT.json` "components" gives the status of each part.

## Modules

| Module | Models | State / actions |
|---|---|---|
| `MetaFsFragment` | `IssueRequest`'s arithmetic (metafs_io_scheduler.cpp 75-136) | Pure operators: `StartLpn`, `EndLpn`, `CallbackCount`, `CloneSize`, `Clone`, `ClonesFrom` (RECURSIVE), `Clones`, `WorkerOf`. The reference is `ChunkPartition`. `FileSizeType`/`MetaLpnType` are W-bit, and `U(x) = x % 2^W` keeps the code's wraparound. |
| `MetaFsIoMultilevelQ` | `MetaFsIoMultilevelQ<T, RequestPriority>` (header not in the repository; modelled from the spec) | One FIFO per priority; `Dequeue` serves the highest non-empty level. |
| `MetaFsIo` | API + scheduler + workers | Listed below. |
| `MetaFsIoAbstract` | What the API promises (spec 4) | A call is accepted or rejected atomically (`Accept`/`Reject`), owes one page I/O per page its range touches (`pend`), each page completes once (`PageDone`), and the call returns the aggregate status (`Return`). |
| `MetaFsArrayAttach` | `AddArrayInfo`/`RemoveArrayInfo` (metafs_io_scheduler.cpp 146-177), called by `MetaFsIoApi::AddArray/RemoveArray` | `Call`, one loop iteration `Step` (the worker call succeeds, or fails and breaks), `Finish`. The worker's own call is not in the repository and may fail. |
| `MetaFsService` | `Register`, `Deregister`, both `GetMetaFs`, `Initialize`/`_PrepareThreads`/`_InitiateMioHandler` | The `std::map` operations as they behave (`insert` keeps an existing key; `operator[]` inserts 0). `HandlerLoop` (RECURSIVE) is the handler loop; with no scheduler core the first `RegisterMioHandler` crashes. |
| `MetaFsSetup` | `MetaFsService` + `MetaFsArrayAttach` | The attach module's `workerList` is the service's `registered` handlers (`RegisterMioHandler`); arrays are attached once the service is initialized. |
| `MetaFsFileIntf` | `_Read`/`_Write`, `AsyncIO`, `CheckIoDoneStatus` | Composes `MetaFsIoAbstract` as `API`: the file interface's calls are the API's `Accept`/`Reject`, and its completions the API's `Return`. `live` holds the allocated `MetaFsAioCbCxt`s. |
| `InodeCreate` | `InodeCreator::Create`, `_AllocNewInodeEntry` | One action `Create(name, size, saved)`: fd, inode entry, extents, `fd2InodeMap`, header extents, then the save, whose failure gives the extents back. The fd, extent and entry allocators (not in the repository) give the lowest free item. |
| `FlushSubmission` | `FlushSubmission::Execute` | `Execute(s, o)` for the four outcomes of translate and submit; a false return leaves the event queued for a retry. `Callback(s)` is the stripe write's completion. |
| `FlushPendingStripes` | `FlushPendingStripes::Start` and its destructor | `LoopStep` per record, `ReportReconstructed`, `BulkFlush`, `ReportFlushed`, `Destroy`. The allocator's `FinishReconstructedStripe` (spec 4.7) closes the stripe at its tail or fails for that record. |
| `ReplayFlush` | `FlushPendingStripes` + `FlushSubmission` | `BulkFlush` creates a flush event for each stripe it pushes; the events then run, fail, retry and complete alongside the task's last steps. |
| `ArrayDeviceList` | `SetNvm`, `AddData`, `AddSpare`, `RemoveSpare`, `Clear`, `SpareToData`, `Exists`, `ExportNames` | Each operation holds the list mutex and is one step. `DeviceFault(d, detached)` is the device layer: a data device fails, keeping its ublock or losing it to a detach. |
| `QosMonitoring` | `QosMonitoringManager::Execute`, volume and event parts | `GatherBegin` (the resets), `ReactorProcessed`, `GatherCollect` (taken once `WaitOver`: all reactors processed or the exit flag set; the per-reactor drain, cut short by the exit flag (`Gatherable`), the map comparison and the context update), `CheckChangeInActiveVolumes` (the stability counter), `ComputeTotalActiveConnection`, `SetFeQos`. The environment: `SetExitQos` (the exit handler) and `ReactorStall` (a reactor that stops reporting, at most `MaxStalls`). The inactive reactors are left out, as no decision reads them. The event part: `EventsBegin` (Execute with front-end QoS off), `EventDrain` (one iteration of the do-while of `_GatherActiveEventParameters`: dequeue, `UpdateEventParameter` for a valid entry, then `DrainContinues` or `NextCursor`), and the workers' `Enqueue`, at most `MaxEvents` entries of bandwidth 1. `GatherBegin` also clears the context's event bandwidth (`qosParameter.Reset()`; `QosParameters` is not in the repository). |
| `ArrayServiceLayer` | `ArrayServiceLayer::Register/Unregister` (array_service_layer.cpp 39-91) | `held` is each registry's set of indexes. `Register(idx, ok)` chains the three registries' `RegistryRegister` with the code's early returns; `Unregister` drops the index from all three. `last` and `okSince` are history variables recording what the calls returned. |
| `MC_MetaFsIo`, `MC_MetaFsFileIntf` | Model values | `MC_MetaFsIo` also instantiates `MetaFsFragment` with W = 8 and enumerates every accepted `(base, chunk, off, size)` of a 12-byte file. `MC_MetaFsIo` and `MC_MetaFsFileIntf` define `FileOf` (an active 4-byte file, an fd with no file and, for `MetaFsIo`, an inactive file) and the requests. |

`MetaFsIo` has the following variables and actions.

- **Variables:**
  - per caller: `call`, `rc`, `calls`;
  - the API's `isNormal`;
  - the scheduler's `schedQ`, and `sched`, which holds the `IssueRequest` loop position;
  - per worker: `sq` (ioSQ), `retryQ` (pendingIoRetryQ), `locked` (overlap checker), `inflight` (issued to storage) and `fin` (a completion being finalised);
  - per call: `cnt` (completion count) and `ioErr` (error flag);
  - a history variable, `fired`, which only the properties read.
- **Actions:**
  - `SyncIo(r)` covers the four `Read`/`Write` overloads; `SubmitIO(r)` covers the async call. Both go through `Reject` or `Accept`, in the code's check order (`ReturnCode`).
  - `SetStatus(b)` mounts or unmounts.
  - `SchedFetch` dequeues a request and sets the count (lines 77-91).
  - `SchedClone` is one iteration of the clone loop (93-133).
  - `SQIssue(w)` and `SQDefer(w)` are `_HandleIoSQ`.
  - `MioDone(w, sub, ok)` is a storage completion: it releases the page, runs the `_HandleRetryQDeferred` pass (`RetryPass`, RECURSIVE) and records an error.
  - `Finalize(w)` decrements the count and completes the call at zero.

The counter decrement is a separate step from `MioDone`, so that completions on different workers interleave between a status update and the decrement. One array and one storage medium are modelled, so the overlap checker is a set of locked pages per worker. Storage completion is a nondeterministic success or failure.

### Refinement and composition

- **`MetaFsIo` implements `MetaFsIoAbstract`.** `Abs == INSTANCE MetaFsIoAbstract WITH ...` maps each caller's owed pages to the pages of its request still in the scheduler queue, in the clone loop, or queued, deferred or in flight at a worker (`PendingPages`), and the error flag to `ioErr`. The property `AbsSpec == Abs!Spec`, fairness included, is checked in the `metafs_io` run.
- **`MetaFsFileIntf` uses the abstract API.** It instantiates `MetaFsIoAbstract` on its own variables, so the file interface is checked against what the API promises, not against the pipeline.
- **`MetaFsSetup`** binds the attach loop's worker list to the handlers `MetaFsService` registered.
- **`ReplayFlush`** turns the replay task's bulk flush into the flush events of `FlushSubmission`.

## Runs

| Run | Module / config | Expect | What it shows |
|---|---|---|---|
| `metafs_io` | `MC_MetaFsIo` / `MC_MetaFsIo.cfg` | pass | `TypeOK`, `PageExclusive`, `CompletionExactlyOnce`, `FragmentationCorrect`, `CallReturns` and `AbsSpec`, over two callers, two workers, two priorities, a mount and an unmount (47,204 states, about 80 s). `FragmentationCorrect` is checked in the initial state: for every accepted range of positive size in a 12-byte file (chunk sizes 1, 2, 4, 8; base pages 0, 3; W = 8, where no arithmetic wraps), the clones equal the chunk partition and the count equals their number. Size 0 is left out, because the code does not partition it (see `zero_length` and finding 2). |
| `boundary_wrap` | `MC_MetaFsIo_wrap.cfg` | violation | `AcceptedInsideFile` fails: with W = 3, offset 1 and size 7 wrap to 0 and are accepted. |
| `zero_length` | `MC_MetaFsIo_zero.cfg` | violation | `CallReturns` fails: `Read(fd, 2, 0)` gets a count of 0 and no clones, so the caller waits forever. |
| `metafs_setup` | `MetaFsSetup` / `MC_MetaFsSetup.cfg` | pass | `LookupCurrent`, `ThreadsWired`, `ReportedResult` (93,551 states). |
| `qos_monitoring` | `QosMonitoring` / `MC_QosMonitoring.cfg` | pass | `TotalConnectionCorrect`, `ResetAfterQuietPeriod`, `EventEntriesAccounted` (350,436 states, about 15 s). |
| `qos_settle` | `MC_QosMonitoring_settle.cfg` | violation | `SettledChangeCorrected` fails (finding 3). |
| `replay_flush` | `ReplayFlush` / `MC_ReplayFlush.cfg` | pass | `TailsReconstructed` (31,574 states). |
| `flush_retry` | `MC_ReplayFlush_retry.cfg` | violation | `ReplayFlushDrains` fails (finding 4). |
| `array_device_list` | `ArrayDeviceList` / `MC_ArrayDeviceList.cfg` | pass | `NoDuplicateDevice`, `ExportDereferencesOnlyAttached` (30,093 states). |
| `array_service_layer` | `ArrayServiceLayer` / `MC_ArrayServiceLayer.cfg` | pass | `RegistrationConsistent` (343 states). |
| `file_intf_leak` | `MC_MetaFsFileIntf` / `MC_MetaFsFileIntf_leak.cfg` | violation | `NoCtxLeak` fails (finding 5). |
| `inode_savefail` | `InodeCreate` / `MC_InodeCreate_savefail.cfg` | violation | `FilesOwnTheirPages` fails (finding 6). |

What the properties say:

- **PageExclusive**: no two sub-requests for the same page are in flight at once, on any workers. This holds only because routing is by absolute page. Routing relative to the request's first page breaks it.
- **CompletionExactlyOnce**: a call completes at most once, and only once no clone of it is queued, deferred, in flight or being finalised, and the scheduler is done with it. This depends on the count being set before the fan-out, and on it being exact.
- **AcceptedInsideFile** (`boundary_wrap` only): every accepted call satisfies `off + size <= fileSize` in exact arithmetic.
- **CallReturns** (liveness): every accepted call eventually returns. It fails when deferred sub-requests are not retried.
- **AbsSpec**: the pipeline accepts exactly what the abstract check accepts, owes exactly the pages of the range, and returns the aggregate status; a boundary check that ignores the size breaks it.
- **LookupCurrent**: after any `Register`/`Deregister` sequence, both lookups give the instance last registered, or nullptr. Reading the id after erasing the name breaks it.
- **ThreadsWired**: after `Initialize`, the scheduler runs and exactly one handler per work core below `totalCount` is registered, in core order. A loop that runs to `coreId <= totalCount` breaks it.
- **ReportedResult** (action): `AddArray`/`RemoveArray` report success only if every registered handler was updated; a loop that ignores a worker's failure breaks it.
- **TotalConnectionCorrect**: the context's connection counts are those of the current volume -> reactor map after every cycle, though they are recomputed only when it changed.
- **ResetAfterQuietPeriod** (action): `ResetCorrection` is called only after a change followed by a full stability window.
- **EventEntriesAccounted**: an event's bandwidth in the context plus its entries still queued at the workers equals what was queued at the last reset plus what was enqueued since: the drain loses and double-counts nothing, however it interleaves with the workers and wherever exit cuts it short. Setting instead of increasing an existing event's bandwidth breaks it.
- **RegistrationConsistent**: after any sequence of `Register` and `Unregister` calls, each able to fail at any registry, an index's registrations are a prefix of the order translator, recover, checker; a partial one exists only after a `Register` that returned false and until the next `Unregister` (so a retry before it fails at the translator); an index is fully served exactly when a `Register` returned true with no `Unregister` since. Trying the later registries after a failure breaks it.
- **FragmentationCorrect**: for every non-empty accepted range, `IssueRequest`'s clones are exactly the chunks the range shares a byte with, in ascending order, each holding the range's bytes in that chunk, and the callback count is their number. The reference `ChunkPartition` computes this from the touched chunks (`Touched`), not from the code's page formula. A clone size that ignores the first page's offset breaks it. A size-0 range is accepted but not partitioned: one empty clone at an unaligned offset, none at an aligned one (`zero_length`), and at offset 0 `EndLpn` wraps to `U(-1) div C`, which would mean about 2^64/C clones.
- **TailsReconstructed**: when `Start` returns, every record not skipped has its stripe closed at exactly its recorded tail and pushed, and both sub-tasks are reported. Reporting the first sub-task one record early breaks it.
- **NoDuplicateDevice**: no ublock is in the array twice, across the three lists. An `Exists` that skips the spares breaks it.
- **ExportDereferencesOnlyAttached**: `ExportNames` never reads a missing ublock; the devices without one are exactly the faulty data devices it reports as "Faulty Device".

Each property of a passing run has a mutant in `PROJECT.json`: a plausible bug in a mapped definition that TLC must catch.

### Bounds

- **`metafs_io`:** two callers with one call each, enough for every cross-call conflict (same page, different workers, different priorities). Two workers and `ChunkSize = 2`, so a 4-byte file spans two pages on two workers. Offsets {1, 3} and sizes {1, 2, 4}, with whole-file calls at offset 0, give single-page, two-page, unaligned, in-range and out-of-range requests. Two `SetStatus` changes mount and then unmount with calls in flight. W = 4, so no in-range sum wraps; the wrap has its own run.
- **`metafs_setup`:** two names and two ids (one array can be re-registered under the other's id once deregistered), `totalCount = 3`, scheduler sets with the core first, last or beyond `totalCount`, work sets empty, full and straddling `totalCount`, one worker failure.
- **`qos_monitoring`:** two volumes and two reactors, so a volume can move between reactors, one reactor can be inactive while the other is active, and the map can change while the window counts; one reactor may stall (`MaxStalls = 1`), which with the exit flag is what the busy-wait has to survive; the stability window is the code's 10. Two workers, one event and two entries in all: two entries of one event make an existing event's bandwidth increase, and the drain moves from one worker's queue to the other's while both enqueue. The two parts share only the phase and the exit flag, so their state spaces multiply; a third volume (1.95 million states) takes more than five minutes. `qos_settle` uses one worker and no event entries.
- **`array_service_layer`:** three indexes, each with every combination of accepted and rejected registry arguments, so failures at each of the three steps, retries and re-registrations after `Unregister` all occur.
- **`replay_flush`:** three stripes and up to three records with two tails, one reconstruction that fails, and one translation failure, one submit failure and one system stop, so each outcome meets each phase of the task.
- **`array_device_list`:** two physical devices and three device objects, enough for a duplicate across two lists, a spare replacement and a detach.

### Fairness

- **Scheduler and workers:** their threads loop forever (`Execute`, `TophalfMioProcessing`), so their steps get weak fairness. `CallReturns` and `AbsSpec` rely on it.
- **Storage:** it completes every issued I/O, so `MioDone` gets weak fairness per worker.
- **Callers:** they get no fairness, since a caller may stop calling.
- **QoS reactors:** their event loops poll continuously, so `ReactorProcessed` gets weak fairness. A stalled reactor (`ReactorStall`, the fault model) never reports again, and only the exit flag ends the wait. The monitoring thread loops forever, so `GatherCollect` and `EventDrain` get weak fairness; `SetExitQos` gets none, as exit may never be requested. `QosMonitoring` keeps this fairness in `Spec`, but no run checks a liveness property of it: with a stalled reactor and no exit, the busy-wait spins forever (a hazard no run shows).

The other modules are checked for safety only and need no fairness. Deadlock checking is off where the system really stops: in `MetaFsIo` once every call has returned (the threads block on empty queues; a stuck call is caught by `CallReturns`), in `ReplayFlush` once the task is destroyed and every event has finished, and in `MetaFsFileIntf` once the callers have made their calls.

## Findings

All are listed in `PROJECT.json` "findings".

1. **The boundary check wraps.** `_CheckFileIoBoundary` (`metafs_io_api.cpp:322-323`) adds offset and size in `uint64`, so a range past the end of the file can pass it (run `boundary_wrap`). This holds unless `MetaFsIoRequest::IsValid`, not in the repository, rejects such a size.
2. **A zero-length call hangs.** `byteSize == 0` at a chunk-aligned offset passes every API check. `IssueRequest` then gets `endLpn = startLpn - 1`, so the count is 0, there are no clones, and the call never completes (run `zero_length`). The same caveat on `IsValid` applies.
3. **A second change inside the QoS stability window is never corrected.** `_CheckChangeInActiveVolumes` sets `stabilityCycleCheck = 0` on a change while it counts, which means "no change pending"; the new set of active volumes then never triggers `ResetCorrection` (run `qos_settle`).
4. **`pendingFlush` never drains after a failed submit.** `Execute` increments it before `SubmitAsyncIO`; a failure returns false and the retry increments it again, and a system stop returns true; neither takes the increment back (run `flush_retry`). This assumes a failed submit issues no write.
5. **A rejected `AsyncIO` leaks its context.** When `SubmitIO` rejects the request, nothing deletes the `MetaFsAioCbCxt` (run `file_intf_leak`).
6. **A failed inode save leaves the fd mapped.** `Create` gives the extents back but keeps the inode entry in use and `fd -> inode` in `fd2InodeMap`, whose pages the next `Create` can be given (run `inode_savefail`).

Other disagreements met while modelling are recorded as hazards: a stray `Deregister` clears `fileSystems[0]` (`StrayDeregister`), a scheduler set with no core below `totalCount` crashes at the first handler registration, `SpareToData` leaves the replaced device marked ARRAY, and the QoS context keeps stale inactive reactors (met in an earlier version of `QosMonitoring`; the inactive reactors are now left out). With front-end QoS off, nothing resets the context's event bandwidth, so it spans every cycle since the last reset (`EventEntriesAccounted` states exactly what it holds). `metric_io_api.cpp:399` publishes the `metric` value twice where `metricCnt` is meant; telemetry is not modelled.

## Not modelled

- The volume QoS update (`volume_interface.cpp`): its callers (volume create, update, mount) and `VolumeBase`, whose setters decide when each of its four steps fails, are not in the repository; a model would be four nondeterministic failures in a row, and the half-applied setting it would show is read directly off lines 101-123. The QoS volume manager, `MioHandler` and `pos_metric.h` are declarations only.
- The per-array policy, rebuild-policy and resource updates of QoS monitoring and `_UpdateAllVolumeParameter`, which forward to `QosMonitoringManagerArray` and `QosManager`, neither of which is in the repository.
- `MetaFsFileIntf`'s constructor and `_SetFileProperty` (the property is only passed to the control API), and the meta storage subsystem (`mss.cpp`), a switch from opcode to the storage's read, write and trim calls, which are not in the repository.
- The destruction of `MetaFsService`, which clears the workers before it stops the scheduler (listed as a hazard): a crash needs an async request still queued at shutdown, which depends on the callers' unmount order.
- `MetaFsFileIntf::Create/Open/Close/Delete`, one-line forwards to the control API, which is not in the repository; the NVRAM byte-access branch of `AsyncIO`, which is compiled out.
- Mpio splitting, the mio pool and the completion queue. Their code is not in the repository.
- Telemetry (`_SendMetric`, `pos_metric.h`), CLI formatting, generated gRPC code and declarations-only headers.
- The unit tests, which are read only for intended behaviour.
