# TLA+ specifications of Synchronous Audio Router

Synchronous Audio Router (SAR) is a Windows kernel-streaming driver
(`src/SynchronousAudioRouter`) and an ASIO driver (`src/SarAsio`) that together route
the sound of applications through a digital audio workstation: the ASIO driver asks the
kernel driver for endpoints, applications open pins on them, and on every ASIO tick the
ASIO driver copies samples between the endpoints' shared buffers and the workstation's.
This directory holds TLA+ models of the parts of it that are hard to test, the TLC
configurations that check them, and TLAPS proofs.

To check a model: `tlc -config MCControl.cfg MCControl.tla` (any pair in the table of
runs). To check the proofs: `tlapm SarControl_proofs.tla`, and so on for each `..._proofs`
module; the longest, `WaveRT_proofs`, takes a few minutes from nothing.

## Inventory

| Component | State | Operations | Interacts with | Modules |
|---|---|---|---|---|
| **Control contexts and endpoints** (`entry.cpp`, `control.cpp`, `sar.h`) | table of contexts by file object; per context: `refs`, layout, `pendingEndpointList`, `endpointList`, `workItem`; per endpoint: `refs`, `owner`, `activePin`, two filter factories | `SarIrpCreate/Cleanup/Close`, `SarSetBufferLayout`, `SarCreateEndpoint`, `SarProcessPendingEndpoints`, `SarOrphanControlContext`, `SarOrphanEndpoint`, `SarDelete*`, `SarRetain*`/`SarRelease*` | IRPs of the ASIO client; system worker threads; the streaming instances' references | `SarControl`, `Registration`, `WaveRT` |
| **Streaming filters and pins** (`pin.cpp`, `utility.cpp`) | `Context` of each filter and pin, `activePin`, process contexts, formats, speaker masks | filter and pin create/close, `SarKsPinSetDeviceState`, formats and intersections | endpoints (retained), buffers, registers | `SarControl`, `WaveRT`, `Tick` |
| **Handle queue** (`utility.cpp`, `wavert.cpp`) | `pendingItems`, `pendingIrps`, a spin lock | `SarPostHandleQueue`, `SarWaitHandleQueue`, `SarCancelHandleQueueIrp`, `SarCancelAllHandleQueueIrps` | applications registering notification events; the ASIO client's waits | `HandleQueue`, `HandleChannel` |
| **WaveRT buffers and registers** (`wavert.cpp`, `pin.cpp`, `utility.cpp`) | `bufferMap` (bitmap of cells), the endpoint's cells, mappings, the shared registers (generation, position, buffer offset and size, channel count) | `SarKsPinRtGetBuffer*`, pin close, device state | the tick in user mode, through shared memory without a lock | `WaveRT`, `Tick` |
| **Filter descriptors and registration** (`Sar*FilterDescriptor.cpp`, `device.cpp`, `control.cpp`) | pins, nodes, connections; the names that link the two filters; interface properties in the registry | factories, interface properties, enabling, physical connections | Windows' audio endpoint builder | `Registration` |
| **Registry filter** (`entry.cpp`) | `filterCookie`, `filterUser`, the redirection tables | load, `SAR_START_REGISTRY_FILTER`, `SarRegistryCallback`, unload | every process's registry reads | `Routing` |
| **Locks** of the driver | extension, context and endpoint mutex, KS device mutex | order of acquisition | kernel streaming's own locks | `LockOrder` |
| **ASIO client of the driver** (`sarclient.cpp`) | device handle, completion port, `_registers`, `_notificationHandles`, `_registersLock` | `start`, `stop`, `tick`, `updateNotificationHandles` | the kernel driver by IOCTL; shared memory; device notifications | `Tick`, `HandleClient`, `AsioWrapper` |
| **ASIO wrapper** (`wrapper.cpp`, `tinyasio.cpp`) | inner driver, client, virtual channels, buffers, callbacks | `init`, `start`, `stop`, `createBuffers`, `disposeBuffers`, `getBufferSize`, `controlPanel`, `onTick` | the host; the inner ASIO driver's thread | `AsioWrapper` |
| **Application routing** (`mmwrapper.cpp`) | the configuration an enumerator read, its lists | enumerate, default endpoint, activate by path | the configuration file; the endpoints of the driver | `Routing` |
| **Configuration** (`config.cpp`, `configui.cpp`, `picojson.h`) | `DriverConfig`, the copy in the dialog, `default.json` | load, save, each page of the dialog | wrapper, enumerators, other processes | `Configuration`, `ConfigurationJson`, `ConfigurationText` |
| **Device node** (`SarInstallerActions/devnode.cpp`) | the node Windows has | create, remove | the driver's load | `Registration` |
| Networking stubs, network filter setup, tools, logging | - | - | - | not modelled |

What is hard in each, and what makes it correct:

- *Control contexts.* The worker configures endpoints with the mutex dropped while creates,
  the close of the handle and streaming instances go on. An endpoint has no reference on its
  owner, so its life depends on who releases which of the two first. Correct means: counts are
  exact, nothing freed is followed, every create is answered once, a closed context is
  reclaimed.
- *Registration.* Some fifty registry calls, two enablings and two factories fail one by one.
  Correct means: what an audio client can open is there as a whole, and nothing is left behind.
- *Handle queue.* Posts, cancel routines and the cleanup of the file object pursue the same
  wait. Correct means: a wait is completed once, handles arrive in order and once, no wait
  sleeps beside a queued handle, a closed client leaves no wait.
- *Registers.* The tick reads word by word what the driver writes word by word, and detects
  changes by a generation. Correct means: a chunk that is delivered comes from the running
  pin's buffer, and a client that streams makes progress.
- *Buffers.* Cells of the shared buffer are claimed, mapped and returned by pins that come and
  go. Correct means: no cell belongs to two endpoints, all come back, none is read after that.
- *Locks.* The driver's own locks and kernel streaming's are taken in several orders. Correct
  means: no circle.
- *Wrapper.* `start`, `stop`, `disposeBuffers` and a reconfiguration run beside the inner
  driver's tick. Correct means: what a tick touches is there; a buffer of the host is where its
  channel belongs.
- *Routing.* A driver that unloads, a second user, a file half written and endpoints that come
  and go. Correct means: only processes of the filter's user are redirected.
- *Configuration.* A file that is emptied before it is written, read by a parser nobody asks
  whether it failed. Correct means: what was saved comes back, and what is left of it when
  the host dies is a part of it and not something else.

The complete list of hazards, each at its line and with the properties that cover it, is in
`PROJECT.json`.

## Modules

| Module | What it is |
|---|---|
| `SarControl` | control contexts, endpoints, the work item, filters and pins: reference counts |
| `SarControl_proofs` | its inductive invariant and the theorems |
| `Registration` | what Windows sees of an endpoint: device, factories, properties, links, enabling |
| `Registration_proofs` | the stage of an endpoint decides the rest, and what follows for Windows |
| `HandleChannel` | abstract: what the handle queue promises |
| `HandleQueue` | the handle queue with its races |
| `HandleQueue_proofs` | its inductive invariant, and that it implements `HandleChannel` |
| `HandleClient` | the ASIO client's waits, composed with `HandleChannel` |
| `Tick` | one endpoint's registers between the pin's handlers and the tick |
| `Tick_proofs` | a delivered chunk is the running pin's, the copy follows the ring |
| `WaveRT` | the shared buffer: layout, formats, cells, mappings, over several pins |
| `WaveRT_proofs` | cells, views and formats for any number of pins |
| `LockOrder` | the driver's operations as paths of locks |
| `AsioWrapper` | the wrapper, its client and the inner driver's thread |
| `AsioWrapper_proofs` | what a tick touches is there; channels, directions and sizes |
| `Routing` | the registry filter and the objects it puts in the place of the system's |
| `Routing_proofs` | who is redirected, and what a load that failed or an unload leaves |
| `Configuration` | the dialog, and the life of the file |
| `ConfigurationJson` | what is saved and loaded: the JSON value of a configuration, the configuration of a value |
| `ConfigurationText` | the JSON library: its serialiser and its parser |
| `Configuration_proofs` | ids, drop-downs, and what is read of a file, whole or not |
| `MC...` | instances of them for TLC |

How they fit. `HandleQueue` implements `HandleChannel`, and `HandleClient` is built on
`HandleChannel`, so that the two sides of a wait meet in the abstract channel. `WaveRT` treats
the writing of the registers as one step and has many pins; `Tick` has one endpoint and takes
the same writing apart word by word. `SarControl` has the reference counts that `Registration`
and `WaveRT` take for granted, and `Registration` the steps that are one action there.
`Configuration` establishes what `Routing` assumes: that a process which reads a file half
written routes as the whole file says or not at all (`HalfWrittenIsAPrefix`,
`RoutesOfFile`), and that endpoint ids are unique.

### SarControl and the code

One action is one critical section, or the code between two of them.

| Code | Actions |
|---|---|
| `SarIrpCreate` | `SarIrpCreate`: allocates the context with one reference and enters it in `table` |
| `SarCreateEndpoint` | `SarCreateEndpoint` (up to the allocation; the IRP is pending), then `CreateFails`, or `QueuePending`, the last critical section: append to `pendingEndpointList`; if it was empty, retain the context and queue the work item |
| `SarProcessPendingEndpoints` | `StartWork` (first pass of the loop head, under the mutex); then per endpoint, with the mutex dropped, `ConfigureSucceeds` or `ConfigureFails`, each including the next pass of the loop head; `ExitWork` drops the work item's reference |
| `SarIrpCleanup`, `SarIrpClose` | `SarIrpCleanup`, `SarIrpClose`: both run `SarOrphanControlContext`, of which `BeginOrphan` is the part under the table's mutex; then `OrphanDetach`, one `SarOrphanEndpoint` per endpoint, `OrphanRelease` |
| `SarGetEndpointFromIrp` and its callers | `SarKsFilterCreate`, `PinLookup` (both retain endpoint and owner), `PinClaim` (compare-exchange on `activePin`), `PinReady` |
| `SarKsPinClose`, `SarKsFilterClose`, `SarReleaseEndpointAndContext` | `PinLeave` or `SarKsFilterClose`, then `DropEndpoint`, then `DropContext` |
| `SarReleaseControlContext` reaching 0, `SarDeleteControlContext` | inside `ReleaseContext`, as part of the action that drops the reference |

`worker[w].next` is the list entry the worker saves before it drops the mutex
(`control.cpp:309`). The model follows it as the code does: if another worker has moved it to
`endpointList`, it is taken from there; if it is on no list, the unlinking stops the system.
The model does not assume that only one worker runs, nor that the work item is queued once.
`Overlapped` says whether a client sends a create before the last one is answered.
`SarClient::createEndpoints` does not: its `DeviceIoControl` waits for each answer.

### HandleQueue, HandleChannel, HandleClient and the code

The queue's spin lock covers `pendingItems` and `pendingIrps`; the completion of a request is
outside it.

| Code | Actions of `HandleQueue` |
|---|---|
| `SarKsPinRtRegisterNotificationEvent` | `RegisterNotificationEvent` (endpoint and owner retained), then one of the next three |
| `SarPostHandleQueue` | `PostToWait` (take a waiting request off its list), then `CompletePosted`; or `PostToQueue`; or `PostFails` |
| `SarWaitHandleQueue` | `WaitTakes` (dequeue up to `MaxItems`), then `CompleteTaken`; or `WaitPends`; or `WaitFails` |
| `CancelIoEx` in `SarClient::stop`, `SarCancelHandleQueueIrp` | `Stop`, `IoCancelIrp` (external: takes the cancel routine and calls it), `CancelLookup`, `CancelSearch`, `CancelComplete` |
| `SarOrphanControlContext`, `SarCancelAllHandleQueueIrps` | `Cleanup` (the context leaves the table), `CancelAllDetach`, `CancelAllComplete` per request |

`given[i]` holds the handles whose transfer to request `i` was begun; whether
`ZwDuplicateObject` succeeds is the status of the completion. `Complete` would record a second
completion of a request as `"completedTwice"`. The result of `IoSetCancelRoutine` is ignored
by the code, so a cancel routine already taken may run at any time after the request was
completed by another thread; the model has that interleaving.

`HandleChannel` knows three variables: the handles not given yet, what each wait was given,
and a phase for each wait. The refinement mapping takes `pendingItems` for the first, `given`
for the second, and computes the phase (`Phase`) from the request's state, the list and
`given`: a request off the list is *served* if it was given a handle, and *cancelled* if not,
although it has yet to be completed.

`HandleClient` is `updateNotificationHandles` and `processNotificationHandleUpdates`: a packet
on the completion port or a first call (`TakePacket`, `NotStarted`), then `DeviceIoControl`,
which takes handles at once (`CallTakes`, `CallReturns`), is parked (`CallPends`) or fails
(`CallFails`). Each step on the driver's side is an action of `HandleChannel`.

### Tick and the code

| Code | Actions |
|---|---|
| `SarKsPinCreate`, `SarKsPinClose`, `SarKsPinSetDeviceState`, `SarKsPinRtGetBufferCore` | `PinCreate`, `PinClose`, `SetDeviceState`, `GetBuffer`: each computes the registers it will write from a copy it reads (`StartWrite`), then `WriteWord`, one word at a time, in the order of `SarWriteEndpointRegisters` |
| `SarKsPinRtRegisterNotificationEvent`, the handle queue | `RegisterNotificationEvent`, `CompleteWait` |
| `SarClient::tick` | one action per register read; `updateNotificationHandles`; the checks of the generation and the sizes; the copy; the late check; the write of the position and the event |
| `demux`, `mux` | `Walk`, a function from the sample's number to its place, checked against `n % bufferSize` |

The words a handler has yet to write are a set, `write.words`, from which `WriteWord` takes the
first in the order of `SarWriteEndpointRegisters` (`WriteOrder`, a record of ranks).

A handler of the pin that has begun to write keeps the others out, as kernel streaming does;
nothing keeps the tick out.

### WaveRT and the code

`BuildLayout`/`CommitLayout` are the two halves of `SarSetBufferLayout`, which makes its section
outside the mutex. `PinCreate`, `OpenPin`, `OpenPinFails` are `SarKsPinCreate` with the claim of
`activePin`, the process context and the failure path; `AllocateCells`, `RefuseBuffer`,
`MapBuffer`, `WriteBuffer`, `GetBufferFails` are `SarKsPinRtGetBufferCore` in its critical
sections; `SetDeviceState`, `SetDeviceStateFails` are `SarKsPinSetDeviceState`;
`CloseWritesGeneration` or `CloseMissesGeneration`, `CloseDetachesContexts`, `CloseClearsCells`,
`CloseLeaves` are `SarKsPinClose`. A second `GetBuffer` on a pin is possible, and forgets the cells of the
first: `abandoned` remembers them so that `CellsAccounted` can say that nothing *else* is
lost.

Two paths of the code leave a hole that the properties name:

- *A buffer of size 0* (`wavert.cpp:54-96`). `SarClient::setBufferLayout` gives no minimum of
  frames unless `waveRtMinimumFrames` is two or more. Without one a request of size 0 needs no
  cells, `RtlFindClearBitsAndSet` finds none without failing, and `ZwMapViewOfSection` takes the
  view's size of 0 for all of the section, other endpoints' cells and the register file included
  (`Mapped`, `Section`). `ViewsAreAllocated` is about views of cells (`Sized`), and says that any
  other kind occurs under such a layout only.
- *A close that cannot read or write the registers* (`pin.cpp:272-281`) logs it and frees the
  cells (`CloseMissesGeneration`). `written` has the endpoints whose registers tell the buffer of
  a pin that is open or closing; such a close takes its endpoint out of it, and
  `ActiveBufferIsOwn` claims allocated cells of nobody else only for those that are in it.

A write that fails is taken to write no word, and two views of the whole section in one process
are one in the model.

Formats are operators (`DataRange`, `IntersectHandler`, `ProposeDataFormat`,
`SetDataFormat`, `GetDefaultDataFormat`), checked against each other.

### Registration and the code

| Code | Actions |
|---|---|
| `CreateDeviceNode`, `RemoveDeviceNode` (installer), `SarKsDeviceAdd`, `SarKsDevicePostStart` | the same names |
| `SarIrpDeviceControl`, `SarReadUserBuffer` | `MayRequest`, `RequestUnreadable` |
| `SarCreateEndpoint` | `SarCreateEndpoint`, `BuildFails`, `CreateFilterFactories` |
| `SarProcessPendingEndpoints`, `SarSetDeviceInterfaceProperties` | `StartWork`, `SetProperties` (five interfaces of eleven steps, of which one or two may fail), `CopyLinks`, `Enable`, `Insert`, `Fail`, `ExitWork` |
| `SarOrphanControlContext`, releases | `CloseControlDevice`, `TakeEndpoints`, `SarOrphanEndpoint`, `ReleaseContext`; `AfterRelease` deletes what lost its last reference |
| filter create and close | `SarKsFilterCreate`, `SarKsFilterClose`: a name leads to the factory whether or not it is enabled |
| the descriptors | `WavePins`, `TopologyPins`, `WaveConnections`, `TopologyConnections`, `WaveProperties`, ... |

### AsioWrapper and the code

The host's thread calls one operation after the other (`HostCall`); `start`, `stop` and
`disposeBuffers` go on step by step (`HostStep`) beside the inner driver's thread (`TickStep`)
and the thread of the device notifications (`OnDeviceStateChanged`). `LockForStop` and
`LockForTick` are `_registersLock`. `Limited` and `OfferedSizes` are `getBufferSize`'s
arithmetic, whose loop is a recursive function of the size it lowers; `Rows` is the assignment of
the host's buffers to the endpoints' channels.

`ControlPanel` replaces the configuration at any time between two calls of the host. It asks for a
reset only if the host's `asioMessage` is there, which it is not before the first `createBuffers`
and after every `disposeBuffers`; `virtual` stays what it was at `init` in any case. A host
that was asked loads the driver anew (`Reload`); one that was not may go on, and its next
`createBuffers` follows channels older than the configuration. They may then be of the other
direction, or of no endpoint that there is. `buffers.fresh` tells whether the channels were the
configuration's, and `SlotsFollowDirection` claims the direction for those only, and for all of
them that a buffer is in one slot. An address stored behind the end of a vector is unnoticed
(`Rows` leaves it out) or ends the process (`CreateBuffersDies`, `LoadedAnew`). `StartInner` has
the inner driver's refusal: the client then stays, started, until `stop` or the next `start`.

### Routing and the code

The host's `ControlPanel`, `WriteFile`, `Reset`, `CreateEndpoints`, `CloseEndpoints`; the
driver's `DriverEntry`, `AddRegistryRedirect` (which may fail half way), `CopyProcessUser` and
`RegisterCallback` (`SarStartRegistryFilter`), `Unregister` and `FreeFilter` (`SarUnload`); in
the process `RegistryCallback`, `MatchesPath`, `MatchesCurrentProcess`, `MMDeviceQuery`, then
either `LoadConfig` (the enumerator) with `GetDefaultAudioEndpoint`, `EnumAudioEndpoints` and
`Item`, or `Initialize` and `DefaultInterface` (the worker that activates by path). A list may be
asked for of either flow or of both (`eAll`), and is handed on as Windows gives it. `devices`
and `collection` are sets: Windows lists devices in an order of its own, and no two have one
id.

### Configuration and the code

`Save` and `Load` (`ConfigurationJson`) are `config.cpp`: the JSON value of a configuration and
what is made of a value, whatever is missing in it. `Serialize` and `ReadValue`
(`ConfigurationText`) are picojson: a value's tokens, and the value of tokens. A text, a number
or a literal is two tokens, so that a file can end inside it, and the parser leaves what
picojson leaves in its value then: a shortened text, a number of fewer digits, the items and
members so far, the last of them incomplete. `Configuration` has the last two as the parameters
`ToText` and `FromText`, which the run gives `Serialize` and `ReadValue`, and of which the proofs
assume a promise only (`TextReadsBack`, see below).

The dialog's handlers (`OnAddEndpoint`, `OnRemoveEndpoint`, `EnableRouting`,
`OnAddApplication`, ...) change the copy; `OK` takes it over and empties the file (`file` is what
the stream is given, `written` how much of it has arrived), `Write` writes a token, `Die` ends
the host anywhere, and `NewWrapper` reads what is there and forgets an inner driver it cannot
open. `SetCurSel` is Windows': a drop-down told to stand on a row it does not have stands on none.

## Runs

| Run | Specification | Bounds | Shows |
|---|---|---|---|
| `control` | `SarControl!FairSpec` | 2 files, 2 endpoints, 2 workers, 1 filter, 2 pins, overlapping creates | counts exact, no dangling reference, owner outlives endpoint, creates completed once and answered, orphans reclaimed |
| `control_three_creates` | `Spec` | 1 file, 3 endpoints, 2 workers | *violation*: a create is completed twice |
| `handle_queue` | `HandleQueue!FairSpec` | 3 handles, 3 requests, 2 responses each | completed once, cancelled without a handle, closed waits end, implements `HandleChannel` |
| `tick` | `Tick!FairSpec` | 2 pins one after the other, 1 or 2 channels of 2, period 2, buffers of 5 or 8 samples, 2 offsets | chunks lie in the running pin's buffer, the copy follows the ring, wraps are notified, streaming advances |
| `tick_channels` | `Tick!Spec` | the same | *violation*: a chunk with the channels of the pin before |
| `wavert` | `WaveRT!Spec` | 2 endpoints, 2 pins, 3 processes (2 of them on one endpoint), 3 layouts, cells of 3 bytes, requests of 0 and 1 bytes, any mapping and register access may fail | cells accounted for, views and buffers apart but for the two holes named, offered formats taken, layout set once |
| `wrapper` | `AsioWrapper!FairSpec` | 2 configurations that replace each other at any time, 4 kinds of inner driver, 2 rates | ticks touch live memory, a buffer is in one slot and of its direction, offered sizes accepted, format changes sent |
| `configuration` | `Configuration!Spec` | 2 endpoints, 1 application, 1 slot, 2 drivers | unique ids, dialog shows what it stores, saved is kept, half a file is a part |
| `routing` | `Routing!Spec` | 2 users, 2 endpoints, 1 application, 2 slots, lists of either flow and of both | only the filter's user is redirected |
| `registration` | `Registration!Spec` | 1 endpoint of each type, 2 audio clients | registered as a whole, nothing left behind, connections lead back |
| `handle_client` | `HandleClient!Spec` | 2 handles, 3 waits, 2 responses | *violation*: a kept handle is closed |
| `lock_order` | `LockOrder!Spec` | 2 threads | *violation*: a circular wait |

Why the bounds are enough.

- `SarControl`: the shortest races need two actors on one object: two pins for one
  `activePin`, two workers on one list, a worker and the orphaning thread, an instance and the
  last release. Two files let a context be freed while another lives. The third create is what
  the saved list entry needs: one being configured, one saved, one queued afterwards; with two
  overlapping creates the hazard is not reachable, with three it is, and both runs show it.
- `HandleQueue`: a third request and a third handle let a batch be cut off (`MaxItems` = 2), and
  let one request be claimed, one cancelled and one detached at a time.
- `Tick`: what can be torn is between one pin and its successor, so two pins suffice; the
  generation's number is not bounded by a word size, which it would need 2^31 opens to reach.
  The buffer of five samples wraps in the middle of a chunk, that of eight at the end of one; 1
  and 2 channels make the strides differ.
- `WaveRT`: two pins on one endpoint race for it, two on two endpoints for cells. Of the layouts
  one has a minimum of frames and a cell for each endpoint's buffer, so that the two compete and
  first fit chooses; one has three cells, of which a buffer of one endpoint has two, so that
  a second one must not run over the end, and no minimum, so that a request of size 0 on the other
  endpoint gets everything; one is refused. Two processes on one endpoint are what a
  list of process contexts needs.
- `AsioWrapper`: the two configurations differ in the number of endpoints, of channels and in the
  direction at one place, so that a channel listed under one is of the wrong direction, or of no
  endpoint, under the other; the inner drivers are the four shapes of sizes that
  `getBufferSize` tells apart (powers of two, steps, fixed, above the limit).
- `Configuration`: `MaxEdits` = 1 bounds a dialog, not their number; a second endpoint is
  what a reused id and a list cut in two need. Numbers have one or two digits, for a number
  that is cut to another and one that is cut to none.
- `Routing`: two users distinguish the filter's own; two endpoints let an id change hands and
  direction.
- `Registration`: one endpoint of each type; two filters can be open on one endpoint, or each
  on its own.

Symmetry is used only in `wavert`, of pins and of the two processes on one endpoint; it has no
liveness property.

Deadlock is checked in `wrapper`, `configuration` and `routing`, whose systems always go on. It is
not in the others: there each file, request, handle or pin lives once, and when all have run
their lives nothing is left to do, or the code has dereferenced a null pointer (`halted`).

Fairness. `SarControl!FairSpec` and `HandleQueue!FairSpec` ask weak fairness of what runs inside
the driver and of nothing else: a dispatched request goes on, a queued work item is started by
some worker thread, a worker, the orphaning thread, a releasing instance, a posting thread and
a cancel routine proceed. These are kernel threads that hold no lock between actions and wait
for nothing the model leaves out. A client need not create, wait or close, and an application
need not close its pin; `OrphanReclaimed` therefore allows that a streaming instance still
holds the context. `Tick!FairSpec`: the ASIO driver ticks (`TickStep`), a handler that writes
registers writes all of them (`WriteWord`), and the driver completes a wait once an event is
posted (`CompleteWait`, which `HandleQueue` justifies). An audio client need do nothing, and
`StreamingAdvances` speaks of the time it streams. `AsioWrapper!FairSpec`: the inner driver's
thread goes on while it runs, and a call the host has made proceeds; the host need not call.

In every module a definition whose name ends in `Mutant` is a mistake somebody could make in the
definition after it; substituting it makes the property named in `PROJECT.json` fail, so
each property depends on the code it is about.

What the models assume of the environment: the inner ASIO driver keeps the ASIO contract (it
ticks only between its start and the return of its stop); a host asks for buffer sizes before it
makes buffers, and, if it was asked to reset, loads the driver anew before it makes buffers or
starts; there is one wrapper in one process; the first
`default.json` was written by the program; a reader takes the file in one piece; sizes are far
below 2^32. In `Registration` there is one ASIO client and one create request at a time.

## Proofs

`SarControl_proofs` proves for any sets of files, endpoints, workers, filters and pins
(workers, filters and pins finite), under the assumption `~Overlapped`:

- `TypeCorrect` (`TypeOK`), `RefsExact` (`ContextRefsExact`), `EndpointsExact` (`EndpointRefsExact`),
  `NoDangling` (`NoDanglingReference`), `OwnerOutlives` (`OwnerOutlivesEndpoint`),
  `AnsweredOnce` (`CreateCompletedOnce`, `SavedEntryStillPending`, `WorkItemQueuedOnce`).

The assumption is needed: the run `control_three_creates` is a counterexample without it. The
inductive invariant `IInv` is stated in `SarControl`. Exact counts alone are not inductive: to
know that a release does not free too early one must know *where* every endpoint is. So
`EndpointInv` and `ListInv` tie the stage of an endpoint to the list, the worker or the local
list that has it, `WorkerInv` and `HolderInv` say what a thread's locals point to, and `FileInv`
ties the life of the context to the table and to its count. With one create at a time,
`ListInv` also says that the pending list has at most one entry and that the work item is
queued exactly while it does; the saved entry is then always the list's head. The endpoints'
dependence on their owners (`OwnerOutlivesEndpoint`) is part of the invariant: it follows from
the counts that an endpoint whose own count is not 0 is either on a list of a live context or
held by an instance that also holds the context. The cardinalities in the counts are handled by
one lemma on adding and removing an element (`CardinalityStep`).

`HandleQueue_proofs` proves for any sets of handles and requests and any `MaxItems > 0`:

- `TypeCorrect`, `CompletedOnce` (`WaitCompletedOnce`), `CancelledEmpty`
  (`CancelledWithoutHandles`), and `ChannelImplemented`: `Spec => ImplementsChannel`.

Its inductive invariant says that a pending request is in the hands of exactly one of the list,
the cleanup's local list, its cancel routine and a post (`HeldOnce`), and that the two lists
have no duplicates, without which taking the first entry off would not take the request off.
That a handle is on its way once (`HandleInv`) is what the channel's "not known yet" needs.
Lemmas about lists without duplicates (`AppendList`, `TailList`, `WithoutList`, `SliceList`)
come first, then one lemma per action, then one per kind of step of the channel.

`Registration_proofs` proves for any endpoints, playback and recording, and any audio clients:

- `StageDecides` (`IInv`), `LeavesNothingBehind` (`NothingLeftBehind`), `FoundIsRegistered`
  (`RegisteredAsAWhole`), `FoundIsConnected` (`ConnectionsLeadBack`).

The properties say what a client finds and what is left at the end, and nothing of an endpoint
that is half registered, so none of them is inductive. `IInv` therefore follows the stage of an
endpoint: its stage decides which of its factories exist and are enabled (`FactoryInv`), what
its request was answered (`AnswerInv`), whether the worker has it (`WorkerInv`), who holds it
(`HolderInv`), which properties are written (`WrittenInv`) and which names are linked
(`LinkInv`). That no factory survives the context comes from `HolderInv`: whoever has an
endpoint keeps the context.

`WaveRT_proofs` proves for any endpoints, pins, processes, layouts, requested sizes and any cell
size:

- `BufferInvariant` (`IInv`), `Typed` (`TypeOK`), `MapIsAccounted` (`CellsAccounted`),
  `ViewsStayAllocated` (`ViewsAreAllocated`), `ActiveBufferStaysOwn` (`ActiveBufferIsOwn`),
  `OfferedFormatsStayAccepted` (`OfferedFormatsAccepted`), `LayoutStays` (`LayoutSetOnce`).

Behind them is that an endpoint's cells, contexts and registers belong to the one pin that
`activePin` names, for as long as that pin is in certain states (`PinInv`). `BufferInv` ties the
cells to the size that was asked for, which is 0 only without a minimum of frames; `ViewInv` ties
a view to the cells of its endpoint, to abandoned ones, or, without a minimum, to the whole
section; and `RegistersInv` what the tick reads to both, for the registers of `written`. Of the
other registers it says that they tell a part of the buffer; the arithmetic of rounding up to
cells and of first fit is in lemmas of its own. That offers are accepted needs `MaskInv`, that
speakers are never more than channels, and the limits a layout is checked against.

`Tick_proofs` proves for any period, number of targets, sizes and offsets of buffers:

- `RegistersInvariant` (`IInv`), `Typed` (`TypeOK`), `ChunkStaysInBuffer`
  (`ChunkInRunningPinsBuffer`), `CopyStaysInRing` (`CopyFollowsRing`), and, if `MinFrames >= 2`,
  `EndStaysNotified` (`EndIsNotified`).

The heart of it is `SeenInv`: a generation that was active when the tick read it and is still
the registers' belongs to a pin that is open, has its buffer, and is not changing the words of it
(`Settled`), so what was read of them since is what they are. `WriteInv` says why: the
generation is the last word written, and its number grows with each pin that is made or closed.
`EndIsNotified` needs a buffer of two chunks (`SizeInv`). The driver makes buffers that large if
it is given a minimum of frames, which `SarClient::setBufferLayout` does from two on; without one
(`MinFrames` = 0) a client may ask for less, a chunk can go round the whole ring, and nothing is
claimed. `CopyFollowsRing` is about a function defined by recursion on the sample's number. Its
value is found without an induction theorem: the closed form of the places is shown to satisfy
the recursion, and the function to be determined by it, by the least number at which it could
differ (`LeastElement`, from the library's facts on well-founded relations). The same lemma
serves the recursive definitions of `AsioWrapper`.

`AsioWrapper_proofs` proves for any configurations, rates and inner drivers:

- `ThreadsInvariant` (`IInv`), `Typed` (`TypeOK`), `TickFindsItsMemory`
  (`TickTouchesLiveMemory`), `SlotsKeepDirection` (`SlotsFollowDirection`), and, if
  `SizesInSteps`, `OfferIsAccepted` (`OfferedSizesAccepted`).

A tick is safe because of who may do what when: the mutex is the tick's or the closing host's
(`ThreadInv`), the client lives from before the inner driver is started until after it has
stopped (`ClientInv`), and its rows fit the endpoints it was made with, whatever the dialog did
to the wrapper's configuration (`BuffersInv`, `Fits`): rows are as wide as the configuration was
when the buffers were made, and while there are buffers there is an `asioMessage`, so that a
change meanwhile does ask for a reset, and no client is made of rows that do not fit. That the
rows follow *channels* of the configuration is no part of it. `SlotsKeepDirection` is proved from
the way `Rows` reads the channels, whichever list they are of, and the direction from that list
being `InitVirtualChannels` of the configuration (`fresh`). `OfferInv` says that what the host was
told is still what it would be told. `SizesInSteps` is the ASIO contract: an inner driver that
names a granularity above 0 has a largest size that is a whole number of steps above its
smallest. Without it `getBufferSize` may stop lowering a size that is still above the limit.

`Routing_proofs` proves for any users, applications, slots and bounds:

- `FilterInvariant` (`IInv`), `Typed` (`TypeOK`), `OthersAreLeftAlone`
  (`OnlyItsUserIsRedirected`).

What makes the filter's state safe under a callback is `FilterInv`: the filter can be started
only while the driver is loaded, which it is with all four keys in its tables, and has a user
from then on; `Unregister` waits for the callbacks. Counting the keys (`NextRedirect`) gives that
an entry that has not yet filled its tables has a key to add.

`Configuration_proofs` proves for any drivers, paths, windows, channel counts, slots and bounds,
and any serialiser and parser of which `TextReadsBack` holds:

- `ConfigurationInvariant` (`IInv`), `Typed` (`TypeOK`), `IdsStayUnique` (`EndpointIdsUnique`),
  `DialogStoresWhatItShows` (`DialogShowsWhatItStores`), `SavedStays` (`SavedConfigKept`),
  `HalfWrittenStaysAPrefix` (`HalfWrittenIsAPrefix`), `ReadersAreServed` (`ReadIsWellFormed`: what
  a process reads, at any moment, is a configuration the dialog can edit).

`TextReadsBack` is what the program takes the vendored JSON library for: the text of a value
gives the value back, and a beginning of the text gives a beginning of the value (`ValueBegins`),
in which everything before the last thing read is whole. It is assumed for the values
`Save` makes of configurations and for no others. It is a hypothesis because the serialiser and
the parser are recursive in the depth and length of a value, and an induction over data is out
of this prover's reach. `MCConfiguration` has TLC check it of `Serialize`
and `ReadValue` (`LibraryKeepsItsPromise`) for some hundreds of configurations (none, one and two
endpoints and applications, up to four defaults, numbers of up to three digits), each cut at
every token; the run `configuration` checks its consequences for all that the dialog can make
within the bounds.

Everything else between a configuration and what is read of it is `config.cpp`, and proved.
Loading undoes saving (`ConfigReadsBack`), and a part that is missing leaves its default and
disturbs no other (`PartReadsBack`). The second is decided by the order of the keys, which the
library sorts (`KeyOrder`): an endpoint has its `type` last, so one cut in two has no
type and is not taken; an application has its `defaults` before its `path`, so one cut in
them has no path and is not taken; and `applications` stand before `enableApplicationRouting`, so routing is
off unless all of them are there. The invariant ties the file to what was saved: it is empty,
or the text of a configuration, and one that is not whole is the one saved last (`FileInv`);
and whatever is edited or read keeps its ids apart (`WellFormed`). That there is a free id
(`NextIdIsFree`) is the pigeonhole principle, and that the row shown is the endpoint stored is
a lemma on counting the endpoints of a direction before one of them.

TLC checked each `IInv` as an invariant of the module's own run before it was proved.

Every safety invariant a run checks is proved. Only model-checked: the liveness properties
(`CreateAnswered`, `OrphanReclaimed`, `ClosedWaitsEnd`, `StreamingAdvances`,
`FormatChangeIsSent`), which need reasoning about fairness and ENABLED; what the run `control`
shows of overlapping creates, since the theorems of `SarControl` assume there are none; and
that the JSON library keeps its promise. `LockOrder` and `HandleClient` are there for their
counterexamples.

## Findings

Each is a run that TLC must find violated; `PROJECT.json` quotes the lines.

- `control_three_creates`: the worker saves `endpoint->listEntry.Flink` before it drops the mutex
  and follows it afterwards (`control.cpp:309`). With three creates outstanding at once, a second
  worker takes that entry, and the first one then unlinks an endpoint that is on another list and
  completes its IRP again. The loop means to allow requests to be added meanwhile
  (`control.cpp:388`: "Someone added a new endpoint request while we were working with locks
  dropped. Try again."). `SarClient` does not reach it.
- `tick_channels`: `activeChannelCount` is read one line before the generation
  (`sarclient.cpp:68`), so a chunk in the channels of the pin before passes the late check whose
  comment (`sarclient.cpp:127`) says "The current generation changed, the client is not the same
  as before and our data might be partially incomplete. Discard everything and output silence on
  ASIO side".
- `handle_client`: a wait that succeeds at once also leaves a packet on the completion port
  (`sarclient.cpp:452`, "DeviceIoControl completed synchronously, so process the result."); a later
  tick takes it for the packet of the wait under way, processes old responses again and closes
  the handle it keeps.
- `lock_order`: `SarProcessPendingEndpoints` may release the last reference of an endpoint, and so
  acquire the KS device, with the context's mutex held, while `SarSendFormatChangeEvent` takes them
  the other way round, for which `control.cpp:631` says "Always acquire ksDevice before
  extension->mutex, else deadlocks can occurs with a concurrent SarKsFilterCreate for example".

Observations no run is needed for:

- `wrapper.cpp:172-174`: when the inner driver's minimum is above the limit, the largest of its
  sizes is forced on the host; `OfferedSizesAccepted` is about the other case.
- `controlPanel` requests a reset only when the host has given its callbacks (`RequestsReset`), so
  not before the first `createBuffers` nor after `disposeBuffers`. The host's channels are then
  those of the old endpoints and `createBuffers` puts them into the new ones by number: a
  buffer may be of the wrong direction, or its address be stored behind a vector
  (`wrapper.cpp:461-478`).
- An audio client that asks for a buffer of size 0 gets a view of the whole section if
  `waveRtMinimumFrames` is below two (`wavert.cpp:76`).
- A pin's close that cannot access the registers leaves them active on cells it frees
  (`pin.cpp:272`).
- A second buffer of a pin makes the endpoint forget the cells of the first (`wavert.cpp:82`).
- The user that `SAR_START_REGISTRY_FILTER` copied is not freed if the registration fails; the next
  start replaces it (`entry.cpp:659`).
- An endpoint's channel count that is left empty makes `std::stoi` throw in the dialog.
- A minimum of one or two frames is not written (`SavedConfigKept` has it as its exception).
- A file that ends early is loaded as far as it goes, and saved like that by the next dialog.
- `init` forgets an inner driver that cannot be opened at the time, and the next OK saves none
  (`wrapper.cpp:45`); `_innerDriver` stays set if its `init` failed (`wrapper.cpp:576`).
- The dialog's button opens the inner driver a second time while the wrapper has it open.
- `control.cpp:508-516`: the status of the first filter factory is overwritten by the second's, and
  both are dereferenced before it is looked at.
- A device description that cannot be written does not fail the registration.
- The name in a physical connection is not terminated: `SymbolicLinkName[Length / 2];` has no effect.
- `IoSetCancelRoutine`'s result is not examined (`utility.cpp:409`), so a cancel routine may read a
  request that is already completed; handles posted when no wait is parked stay in
  `pendingItems` after the client is gone; the process handle of a waiting request is not closed
  when a post completes it (`utility.cpp:401`); a wait without room for a response is completed
  by the queue and again by `SarIrpDeviceControl` (`utility.cpp:436`).
- An unknown IOCTL is answered with success.

## Not modelled

- The use of a control context by a dispatched request after the table's mutex is released
  (`entry.cpp:596`): `SarIrpCleanup` and `Cleanup` wait until no request is being dispatched, which
  is what `SarClient::stop` ensures by its lock and Windows for the last handle of a process.
- Several wrappers in one process and `gActiveWrapper` between them: the code does not say what it
  promises there.
- Requests that change no state: latencies, clock sources, sample positions, names, packet counts,
  and their handing on to the inner driver; the trace of kernel streaming requests
  (`SarLogKsIrp`).
- Allocation of strings beyond that it may fail; layout and wording of dialogs; escapes and
  encodings in JSON; the value of a sample.
- `SarCast` and the NDIS structures: declarations only. The set-up of the network filter, the
  command line tools, the network ping tools, examples: no state of the running system.
- `glog`, which is vendored and logs; a third of the lines of the repository.

## Plan

Modelled as far as the code has state that outlives a call, and the safety invariants proved, of
`SarControl` for creates that do not overlap. What is left:

- `SarControl` with overlapping creates: which of its invariants survive them.
