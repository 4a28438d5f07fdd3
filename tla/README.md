# A TLA+ development of openhisilicon

openhisilicon is the kernel and user code that OpenIPC builds for HiSilicon,
Goke and XMedia camera chips. Most of its files are vendor code repeated per
chip: register headers, sensor tables, cipher drivers, glue around binary
blobs. The logic this development is about is the small part that is written
for this repository or rewritten in it, shared by many chips, and hard to test
on hardware: drivers that interrupts, timers and several processes share, and
the allocator of the memory they work in.

Contents: 1 inventory, 2 modules and code, 3 runs, 4 bounds, 5 fairness,
6 proofs, 7 findings, 8 what is left out, 9 plan.

## 1. Inventory

### NPU driver (`kernel/npu/gk7205v500`)

*State.* One `struct npu_dev`: the job the engine has (`cur`), a list of pending
jobs, a list of jobs that ended and wait to be collected, the device state
(IDLE, BUSY, ABORTED, DRAINING), the last job id, three counts (files, opens,
queues), an event counter with a wait queue, three mutexes (`ref_lock`,
`open_lock`, `queue_lock`) and the spinlock `state_lock`.

*Operations.* open(2), close(2) and ten ioctls: OPEN, CLOSE, CREATE_QUEUE,
DESTROY_QUEUE, SUBMIT_JOB, WAIT_JOB, QUERY_JOB, RESET, CLR_WFI and the version;
a hard interrupt handler and its thread.

*Interactions.* Processes share the device through separate files. The hard
handler takes no lock; the thread takes `state_lock`; the calls nest
`ref_lock` > `open_lock` > `queue_lock` > `state_lock`.

*Hard.* The handler's unlocked read of `cur`, jobs that outlive their queue,
errors after which the sequencer keeps running, waits with and without a
timeout, a destroy that sleeps for seconds holding a mutex.

*Correct when* no job is lost, freed twice or used after it is freed; jobs run
one at a time in the order of submission; a queue that is gone leaves nothing
behind; no sleeper misses its answer; no call hangs.

### Frame events (`kernel/openipc_frame_ts`)

*State.* A ring of events per sensor channel under a spinlock each; a sequence
number per channel and type of event; counts of what was dropped and what was
taken for a duplicate; per file a mask of channels and one of types; one wait
queue.

*Operations.* `openipc_frame_ts_push`, called by the interrupt handlers of the
sensor interface and the ISP; read(2), poll(2) and ioctls that set the masks.

*Interactions.* All files drain the same rings. The handler pushes under the
lock and wakes readers after it; readers go on the wait queue, then walk the
channels, a lock at a time.

*Hard.* A push between a look and a sleep, a full ring, two readers of one
ring, filters that take events others wait for, a copy to the user that fails
after the event was taken.

*Correct when* every event recorded is read by one file or counted as dropped,
in order; no reader sleeps while it has an event.

### Strobe (the same file)

*State.* A GPIO, a mode (off, pulse, hold), a polarity, a timer; sysfs writes
take a mutex which neither the handler nor the timer's callback takes.

*Operations.* `strobe_on_event` in the handler, the timer's callback, writes of
the GPIO, the mode and the polarity.

*Hard.* A handler or a callback between any two stores of a write, and a write
between what a handler or a callback reads and the pin it then sets.

*Correct when* a light that is on is about to be turned off, follows the readout
in hold mode, and is off in mode off.

### Media memory (`kernel/osal/linux/kernel/mmz`)

*State.* A list of zones; in each a list of blocks in the order of their
addresses, under one semaphore (`mmz_lock`). Each block has two counts of
references (physical, mapped), a kernel mapping and flags; each file of
`/dev/mmz_userdev` a list of what it allocated and mapped.

*Operations.* Registering zones when the module loads; two ways to allocate;
get, put, free; map, remap and unmap, into the kernel and into processes; the
release of what a file left behind.

*Hard.* Best fit among gaps with aligned starts in unsigned arithmetic; zones
that end where the words do; frees that wait for the last unmapping; lookups by
address that return blocks without a reference.

*Correct when* zones and blocks never overlap, memory that is free can be had,
and no block is freed while somebody holds it or kept when nobody does.

### MPP devices and the last close (`osal_device.c`, `kernel/isp/mkp/src/isp_orphans.c`)

*State.* `osal_users`, how many files of MPP devices are open, and one hook, under
one mutex; in the vendor's video buffer, a count of user references per block.

*Operations.* open and close of any MPP device; registering and removing the
hook; the hook itself, `isp_release_orphan_frames`, which walks every block.

*Interactions.* `osal_open` and the last `osal_release` take the same mutex, and
the hook runs with it held. A process takes references through its files and may
die with some.

*Hard.* An open against the hook; files of dead processes that close one by one
while others live; modules whose own open or release fails.

*Correct when* the count is the number of open files, the hook runs only when
there is none, takes nothing from a live process and leaves nothing of a dead one.

### NNIE driver (`kernel/nnie_neo`)

*State.* A list of task buffers under a mutex; one task descriptor, one
completion and one status word under another; the engine and its interrupt bits.

*Operations.* Adding and removing a buffer; Forward, which finds or adds the
buffer, takes the second mutex, starts the engine and waits five seconds at most;
the interrupt handler, on a line shared with another device.

*Hard.* Two Forwards that miss the same buffer; a task that times out and is not
stopped, whose interrupt comes when another is being waited for.

*Correct when* a buffer is in the list once, a call answers for its own task,
and every call ends.

### The rest

| component | state | operations | why it is hard |
|---|---|---|---|
| OSAL timers (`osal_timer.c`) | a kernel timer and its callback | set, stop, destroy | a callback that re-arms the timer while it is being stopped |
| OSAL waits, work queues, tasks | a wait queue, a condition | wait, wake | one test and one sleep; the loop is the caller's |
| OSAL locks, atomics, memory, notifiers, platform, proc | a kernel object each | create, use, destroy | one call of the kernel's each |
| OSAL media bus (`media/`) | minor numbers | register, unregister | glue |
| IVE driver (`ive_neo`) | an engine, a task memory | one ioctl per operator | layout of task nodes |
| SPI by DMA (`spi_dma_transfer`) | busy and pending flags, a DMA channel | send a frame; tearing and DMA interrupts | a transfer that never starts, a wait that times out |
| XMedia NPU library (`libraries/xmedia_npu`) | model files, memory, images | load, run, unload | formats; the NPU driver's client |
| Other user libraries | none to speak of | argument checks and ioctls | |
| Watchdog (`wdt`) | a state, a feeding thread | start, feed, stop, ioctls | the thread against a stop |
| OSAL shims of older chips | none | old names for OSAL's functions | |
| Sensors, ISP, video, audio, codecs | registers, tables, vendor objects | tuning | closed, or data |
| Boot ROM, samples, scripts, documents | | | not part of the running system |

`PROJECT.json` lists every component with its sources, and every hazard found
in reading them at its line, with the property that covers it or the reason
none does.

## 2. Modules and code

| module | what it is | code |
|---|---|---|
| `Npu` | the NPU driver: handlers, calls, locks | `npu.c`, `npu_ioctl.h` |
| `NpuQueue` | the abstract specification: one line of jobs | what `/dev/npu.0` promises |
| `NpuRefines` | `Npu` implements `NpuQueue` | refinement mapping |
| `NpuProofs` | theorems about `Npu`: types, the places of jobs, the end of a queue | |
| `NpuDeviceProofs` | theorems about `Npu`: order, wake-ups, device and engine, the refinement | |
| `FrameTs` | rings, readers, wake-ups | `openipc_frame_ts.c`, rings and file operations |
| `FrameTsProofs` | theorems about `FrameTs` | |
| `Strobe` | the strobe's GPIO against time and sysfs | `openipc_frame_ts.c`, strobe |
| `StrobeProofs` | theorems about `Strobe` | |
| `MmzAlloc` | zones, best fit, `__mmb_alloc`, `__mmb_free` | `media-mem.c`, `allocator.c`, `osal_mmz.h` |
| `MmzAllocV2` | the second way to allocate, `__mmb_alloc_v2` | `allocator.c` |
| `MmzProofs` | theorems about `MmzAlloc` and `MmzAllocV2` | |
| `Mmb` | references, mappings and delayed frees of blocks | `mmz-userdev.c`, `media-mem.c`, `allocator.c` |
| `MmbProofs` | theorems about `Mmb` | |
| `OsalDevice` | open MPP files and the hook of the last close | `osal_device.c` |
| `IspOrphans` | `OsalDevice` composed with the hook that drops a dead process's frames | `isp_orphans.c` |
| `OrphansProofs` | theorems about both | |
| `Nnie` | task buffers, Forward, its interrupt and its timeout | `nnie_neo.c` |
| `NnieProofs` | theorems about `Nnie` | |
| `MCNpu`, `MCFrameTs`, `MCStrobe`, `MCMmz`, `MCMmb`, `MCOrphans` | constants and symmetry for TLC (`Nnie` needs none) | |

Definitions preceded by "(seeded fault: ...)" are plausible mistakes in the
definition that follows them. None is part of a specification: substituted for
the right one, each makes a property fail, which shows that the property can.

### Npu

`hw` is the engine as far as the driver can tell (clock, interrupt mask, what
the engine does, which events are latched). `irq` and `irqThread` are the hard
handler between its reads and its writes, and whether its thread is due.
`job, cur, state, lastId, pending, done` are the fields of `struct npu_dev` that
`state_lock` guards, `refs, opened, queues` the counts the mutexes guard.
`pc, call, want` place each process in its call. Memory for a `struct npu_job`
is a member of `Jobs`, so that a use after free can be told from a use.

A section under `state_lock` is one step, an ioctl as many as it takes and
releases locks or sleeps. Because the hard handler takes no lock, it is two
steps (`HardIrqEnter` reads `cur` and the status, `HardIrqNote` or `HardIrqAbort`
writes), and `npu_drop_queues` is split where that handler can come between:
`DestroyMark` tests the state, `DestroyDrain` stores NPU_DRAINING. With
`SMP = FALSE` nothing else runs while the hard handler does, as on the chip's
one core; with `SMP = TRUE` everything may. `DfxFinal` says whether an engine
that reported an error is silent from then on.

### FrameTs

`slot, head, tail` are a channel's ring as in the code, power of two and one
slot always free. `PushEvent` and `PushCoalesced` are the section of
`openipc_frame_ts_push` under the lock, `PushWake` the `wake_up` after it. A
read is `Read`, then per channel `PopFound` or `PopNone` (a whole `pop_one`
section, with every event it skips), `Copy` or `CopyFault`, `PopEnd`; a wait
enlists (`Look`), checks channel by channel (`CheckHit`, `CheckMiss`) and then
sleeps. `taken` is a history of what left the rings by a reader's hand.

### Strobe

Time is ticks; a frame, its readout and a pulse have constant lengths. The
handler (`Enter` reads the GPIO, `IsrMode` the mode, `IsrLevel` the polarity;
`IsrFs` or `IsrFend` sets the pin, `IsrArm` the timer), the callback (`TimerFires`,
`TimerLevel`, `TimerEnds`) and a write (`StoreGpio` ... `LowDirection`) interleave at
every access of `g_strobe_gpio`, `g_strobe_mode`, `g_strobe_active_low`, the pin
and the timer. `lit` holds the pins at their active level, whatever the polarity;
`Drive` sets a pin to the level the polarity once read makes active or not.

### MmzAlloc, MmzAllocV2

Everything happens under `mmz_lock`, so an operation is a step. Words wrap at
`Word`. `find_fixed_region`'s loop is the definition `Region`: the gaps the loop
looks at are a set, each with its length in wrapping arithmetic, and what it
returns is the first smallest that is large enough (`BestGaps`), subject to the
check after the loop, which only an empty zone and the last gap meet. `maxSize`
is `max_malloc_size`, the most `Alloc` gives, which a larger zone raises.
`AllocV2` keeps the code's habit of rounding the size again at every zone that
matches.

### Mmb

`mmb` is the `mmz_mmb_t` in a piece of memory (`phy_ref`, `map_ref`, the kernel
mapping and its cache type, MMZ_MMB_RELEASED), `info` the `mmb_info` of the file
that allocated it (its own `map_ref` and `mmb_ref`, `delayed_free`, whether it has
a user address and of which cache type), `vma` the user mappings in place that
the `mmb_info` counts, `left` the files of which a process keeps a mapping that an
unmap took out of the counts and did not undo.
A section under `mmz_lock` is a step, so that an allocation is two (`Alloc`, then
`AllocInfo` or `AllocNoInfo`) and a free that reaches the block three (`Discard`,
`DiscardPut`, `DiscardFree`); between them other files and kernel modules run.
`pmu->sem` keeps a file's own ioctls apart. `Unmap` keeps the order of
`ioctl_mmb_user_unmap`: the counts go down before `mmz_vma_check`, which may
refuse (a cached mapping that is read-only, undone already, or not in the calling
process), and before `vm_munmap`, which may fail or find the mapping in another
process than the caller (`Unmaps`).
Kernel modules (`KAlloc` ... `KUnmap`) map any block they can find, also one that
was released, and undo what they did.

### OsalDevice, IspOrphans

`OsalDevice` has `osal_users`, its mutex and where each file is; `IspOrphans`
extends it with processes, the references the video buffer counts and the ones
each process holds. A release is two steps (`Release`, then `UserPut`), since
`counted` is cleared before the mutex is taken; the hook is a walk of steps with
the mutex held (`LastClose`, `WalkOn`, `WalkSub`, `WalkEnds`).

### Nnie

`list` and `entry` are the registry and the memory its entries live in; `hw` is
what the engine still works on, `status` its interrupt bits, `irq` the handler
between its read and its stores; `last` and `done` are `g_nnie_last_status` and
`g_nnie_done` (a Boolean: each call readies the completion and waits once).
A Forward is a step for each section of the registry's mutex and for each of
`Begin` (lock, reinit), `ClearIrqs`, `Start`, the wait (`Completed`, `TimesOut`)
and `Collect`. `how` and `alone` are history: how the task of the call in the lock
has ended, and whether anything of an older one was left when the call began.

## 3. Runs

| run | asks | states | shows |
|---|---|---|---|
| `npu_safety` | TypeOK, JobsAccounted, InOrder, EmptyWithoutQueue, StateOwnsJob, NoLostWakeup, StartsAtRest, ImplementsQueue | 3,161,175 | two processes making every call, three jobs of which two can wait, one core, an engine that may go on after an error: queue, state, engine and sleepers agree, and together implement one line of jobs |
| `npu_smp` | JobsAccounted, StateOwnsJob, NoUseAfterFree | 524,059 | the same with everything free to run under the hard handler, and an engine that is silent after an error |
| `npu_liveness` | CallsReturn, WaitersAnswered | 80,756 | calls end; who waits is back in its program in the end, or has met finding 1 |
| `npu_stale_waiter` | DroppedIsUnknown | violated | finding 1 |
| `frame_ring` | TypeOK, NewestInOrder, Accounted, ReadInOrder | 1,259,524 | one channel, two kinds of event, two files with masks, a ring of four slots that can fill up |
| `frame_channels` | Accounted, NoLostWakeup, PollAnswered, ReadAnswered | 200,333 | two channels that fill while readers walk them; reads and polls are answered |
| `strobe_modes` | TypeOK, PulseIsTimed, HoldFollowsReadout | 67,604 | writes of GPIO, mode and polarity at any moment of frame, handler and timer |
| `mmz_alloc` | TypeOK, ZonesApart, NoOverlap, RegionIsBest | 28,122 | lists of zones right and wrong; blocks allocated both ways and freed in every order |
| `mmz_skewed_zone` | NeverBad | violated | finding 2 |
| `mmb_refs` | RefsCounted, LiveWhileHeld, DelayedFreeWaits, OneCacheType | 1,159,145 | two files and the kernel modules over two blocks: a block is freed exactly when its last holder lets go |
| `osal_last_close` | UsersIsCount, HookAlone, LiveRefsKept, OrphansDropped | 69,752 | processes open, close and die holding frames while the hook comes and goes |
| `nnie_forward` | OneEntryPerBuffer, AnswerIsOwn, CallsReturn | 239,908 | two callers, buffers added and removed, tasks that outlive their timeout |

What the less obvious properties say:

- `JobsAccounted`: every live `struct npu_job` hangs in exactly one place, so that
  none leaks and none is freed twice.
- `StateOwnsJob`: a busy device has a job its queue owns; an idle one has none, none
  pending, and an engine at rest.
- `StartsAtRest`: the engine is never started while it runs something.
- `ImplementsQueue`: through the mapping of `NpuRefines`, each step is one of
  `NpuQueue` or none: jobs join at the end, the first unfinished one runs, and
  only collecting or giving up the queue takes one out.
- `WaitersAnswered`: a sleeper comes back to its program, and not only out of one
  sleep into the next. A wake-up may be for another job, so the waiter looks and
  sleeps again; that must end. The exception, `Renumbered`, is finding 1: its queue
  was dropped and a job of a later queue has its id. Without the exception TLC
  finds a waiter that meets one job 1 after another for ever.
- `Accounted`: what was recorded is in a ring, taken by a reader, or in `dropped`;
  so nothing is taken twice.
- `LiveWhileHeld` is an equivalence: a block that nobody holds is gone, and one
  that somebody holds is there.
  The holders are files, kernel modules and the mappings that are counted; section 8
  says what becomes of the others.
- `RefsCounted` compares the block's two counts with what the holders say, also
  between a file's giving a block up and its put.
- `DelayedFreeWaits` names the one exception the code has: an unmap of a cached
  mapping that `mmz_vma_check` refuses, because the mapping is read-only (which it
  is unless the caller asks for more), undone already or another process's, leaves
  an address with no reference behind it, and a free that waited for that unmap is
  carried out only when the file is closed, or a further reference is taken and
  dropped. The mapping itself may be in place or not.
- `PulseIsTimed` holds until the store that ends the pulse. That store may set the
  wrong level (section 8); the pin is then "turned", no longer lit by the pulse.
- `LiveRefsKept` counts what live processes hold, one `<<process, number>>` for each
  reference (`HeldBy`): the hook never takes any of it.
- `AnswerIsOwn` is about a call that begins when nothing of an older task is left;
  section 8 says what happens to the others.
- `NoLostWakeup` (both): a sleeper with something to hear has been woken, or whoever
  is to wake it is on the way.
- `RegionIsBest` compares `find_fixed_region` with what it is for, said of memory
  instead of gaps: it finds an address exactly when there is one, and takes it
  where least is left over.

## 4. Bounds

*Npu.* Two processes are enough for every pair of calls to meet, and the driver
treats processes alike (symmetry). Three jobs and, in `npu_safety`, three ids per
queue give one that runs and two that wait, whose order an interrupt, an abort or
a destroy could upset: both seeded faults of the order, `QueuedFirst` and
`AbortedReversed`, need two pending jobs. `npu_smp`, which asks nothing about order,
makes do with two ids: a job has a predecessor and, with the renumbering of a
second queue, an equal. Two nested queues make the count differ from a flag, in
`npu_smp` two nested opens as well; in `npu_safety` one open keeps the run within
minutes. Liveness uses two jobs and two ids, so that a waiter is woken for a job
that is not its own, and one open and one queue, because it is checked without
symmetry. The violation run uses one id, the smallest number that shows it.

*FrameTs.* A ring of four slots holds three and is filled and overrun by two
types of up to two events and one duplicate each; two files compete. With two
channels a ring of two slots holds one event; one event of each type on each
channel suffices to fill a channel the walk has passed (order is the first run's
question, where two events of a type can be out of it); the first channel is one
without an ISP, which has no end of frame. In the other run a buffer with room for
two events shows a read that goes on after its first.

*Strobe.* Two pins, for a change from one to the other. A frame of 4 ticks, a
readout of 2, a pulse of 3: a pulse longer than the readout and shorter than
the frame. With a pulse of 5 ticks, longer than a frame, `HoldFollowsReadout`
fails, and a pulse is still timed but never ends: the timer is restarted before
it is due. The driver does not refuse such a pulse; that it is shorter than a
frame is the user's to see to.

*MmzAlloc.* Words below 128, pages of 2, zones of 2 to 6 pages, five zones: two
of one name, one slab, one of equal blocks, one at the very end of the words.
Callers may ask for 8 at first; zones of 10 and 12 raise that, and sizes go up to 9.
Four blocks leave a gap before, between and after others at once. Six lists
contain a mistake each (an overlap above, below, around, a wrap, the kernel's
memory, nothing) and must be refused. Nothing is asked of the zone at the end of
the words, where `start + len` in the search wraps.

*Mmb.* Two files, because a file of a dead process, a live one and the kernel can
then meet at a block; two blocks, so that a file holds one while it gives up
another. Two references per block tell a count from a flag, and so do two kernel
mappings.

*OsalDevice, IspOrphans.* Two processes and two files give a last close against an
open and against the other's; two blocks with two references each give a walk that
goes on after a block and takes more than one from it.

*Nnie.* Two callers, one buffer, two pieces of memory for entries: enough for two
Forwards to meet in the registry and at the lock, and for a buffer to be removed
while it is added anew. Older tasks are one member of `hw`, which stands for any
number: `NnieEnds` may leave it there.

## 5. Fairness

*Npu.* The kernel runs a thread or a handler that can run (weak fairness of the
hard handler; strong fairness of the rest, because on one core they are disabled
while the handler runs), and its mutexes starve no one. The engine sooner or
later ends or fails the job it has, which is what the driver's own timeouts
assume. Users need not do anything: no fairness for their calls, nor for the
timeouts of waits, so that `WaitersAnswered` is about waits without one. What
must end is a destroy's grace period.

*FrameTs.* A handler that has pushed goes on to wake; a thread that can run
runs. Events, calls and signals need not come.

*Nnie.* The kernel runs every call, and hands the mutex to each that asks for it
again and again (strong fairness of every caller's steps, because another caller
may hold the lock in between). The wait is timed, so that nothing is asked of the
engine: `CallsReturn` holds although it may never end a task.

`Spec` alone is used for all safety runs but `nnie_forward`, which checks both.
`Mmb`, `OsalDevice` and `IspOrphans` make no liveness claim: every step of theirs
waits for a user, or for a mutex whose holder can run. `Strobe` and `MmzAlloc` make no liveness
claim.

## 6. Proofs

Checked by TLAPS for every value of the constants that satisfies the
assumptions named.

**`Npu`** (assumption `NpuAssumption`: `Nobody` is no process or job, the bounds
are natural numbers, the flags Boolean).

- `TypeCorrect`: `Spec => []TypeOK`. `TypeOK` is inductive; one lemma per group
  of actions.
- `JobsAccountedFor`: `Spec => []JobsAccounted`.
- `NothingOutlivesQueue`: `Spec => []EmptyWithoutQueue`.
- `QueueInOrder`: `Spec => []InOrder`.
- `WakeupsReach`: `Spec => []NoLostWakeup`.
- `QueueImplemented`: `Spec => ImplementsQueue`.
- `BusyHasOwner`, `HandlerHoldsLive`, `JobsStartAtRest`: `StateOwnsJob` and
  `NoUseAfterFree` always, and `StartsAtRest`, under `MachineAssumed`
  (`DfxFinal \/ ~SMP`): one core, or an engine silent after an error.

`MachineAssumed` is what the code relies on: the chip has a single core, on
which the hard handler cannot be overtaken. Without it `NoUseAfterFree` is false
(section 8); the two runs cover a machine of each kind. The first six theorems
need nothing of the machine.

`JobsAccounted` is not inductive by itself: a reset that stores its job in
`reaped` might overwrite another process's, a submission to an idle device
might overwrite `cur`. The inductive invariant `IInv` adds `IdleHasNone` (an idle
device has no job) and `GivingUp`: who is between `npu_drop_queues` and the end
of a reset holds `queue_lock` and has brought `queues` to zero; from the grace
period on nothing is pending; once draining is about to be stored the running
job is an orphan; only a reset in its last step has a job in `reaped`; and
without a queue, once nobody is dropping one, nothing is left. Lemmas about
`Elems`, `NoTwice`, `Append`, concatenation and `DropAt` carry the reasoning
about lists.

`NpuDeviceProofs` adds to `IInv`, in layers that are each inductive over the one
below:

- `OInv`: the three parts of the line rise, each part lies below the next and all
  below `lastId` (`Ordered`), and nothing waits at an idle device (`WaitsBehind`), or
  a submission that starts at once would overtake it.
- `Sleepers`: `NoLostWakeup` names any pending run of the interrupt thread, but the
  thread wakes sleepers only for a job of the queue; so a sleeper who relies on
  it must wait for the running job.
- `Owned`: a busy device has a job, an aborted job took the device out of service,
  and pending jobs wait behind one the queue owns. It holds for every machine.
- `Dev`: the engine beneath. What is latched, what the handler has read and the
  end of the job agree with what the engine does; the job the handler holds is
  still `cur` or waits for `synchronize_irq` in `reaped`; an engine with `DfxFinal`
  has nothing more to say. Only the steps of the interrupt thread need
  `MachineAssumed`.

For `QueueImplemented` the line of the mapping is described point by point
(`Describes`: entries for `done`, then for the running job if a queue owns it, then
for `pending`), each action of `Npu` is shown to move these parts as an action of
`NpuQueue` moves its line, or to keep them, and two lines so described are equal.

**`FrameTs`** (assumption `FrameTsAssumption`: there is a channel, the bounds are
natural numbers, a ring's depth is a power of two from 2 on, sources and masks
are of the channels there are).

- `TypeCorrect`: `Spec => []TypeOK`.
- `RingsInOrder`: `Spec => []NewestInOrder`.
- `EventsAccounted`: `Spec => []Accounted`.
- `ReadsInOrder`: `Spec => ReadInOrder`.
- `WakeupsReach`: `Spec => []NoLostWakeup`.

The arithmetic of heads and tails modulo `Depth` is proved once (`HeldDrop`,
`HeldPush`, `RingDrop`, `RingPush`): to advance the tail drops the oldest, to advance the
head adds a newest, whatever wraps. Above it a ring is its list of events, and
`RingInv` says of each channel that its events rise by type without a gap
(`Sound`), that whatever was taken is older than what is in the ring (`After`), and that
`dropped` counts the events that are in neither (`LostFrom`). To push, to make room
and to take keep it. `Steady` is about threads: `Watch` says that a thread on the
wait queue, not woken, has only channels behind it that are empty or whose
handler has yet to wake it. `NoLostWakeup` is the case of the thread that has
passed them all.

**`Strobe`** (assumption `StrobeAssumption`: the readout is shorter than the frame, ticks
are natural numbers).

- `TypeCorrect`: `Spec => []TypeOK`.
- `PulsesEnd`: `Spec => []PulseIsTimed`, for pulses of any length, with writes between
  any two accesses of the handler and the callback. It does not say that the store
  that ends a pulse leaves the pin dark, which is false (section 8).
- `HoldIsReadout`: `Spec => []HoldFollowsReadout` if a pulse is shorter than a frame
  (`PulseTicks < FrameTicks`), without which it is false (section 4).

`PulseEnds` excepts the moment between lighting the pin and arming the timer, and
ties the callback to the pin it will darken. For hold mode, `Timing` relates the
timer and the handler to the phase of the frame, and `SteadyFrame` says that in a
frame without a write no pulse is left over: one that is due before the frame
is cannot be pending when the frame began.

**`MmzAlloc`** (assumption `MmzAssumption`: words, pages, sizes and lists are
what their names say) under the hypothesis `SoundTables`: every zone that may be
listed ends far enough from the largest word that no sum in the search wraps
(`Far`), and begins at a multiple of every alignment asked for (`Aligned`).
TLC confirms that tables such as zones of 4 and 5 pages at addresses 16 and 24,
with alignments up to 4, satisfy it. `mmz_skewed_zone` shows what happens
without `Aligned`, the hazard list what happens without `Far`.

- `BlocksNeverOverlap`: `SoundTables => (Spec => []NoOverlap)`.
- `ZonesNeverMeet`: `SoundTables => (Spec => []ZonesApart)`.
- `MmzTyped`: `SoundTables => (Spec => []TypeOK)`.
- `RegionsAreBest`: `SoundTables /\ NoZoneAtZero => (Spec => []RegionIsBest)`. No zone may
  start at address 0 (`NoZoneAtZero`), which is what the search returns when it
  finds nothing; memory of these chips starts far above.
- `RoundingIsSafe`: `SoundTables /\ SoundKinds => (SpecV2 => [](TypeOK /\ ZonesApart /\ NoOverlap))`.
- `RegionsAreBestV2`: `SoundTables /\ SoundKinds /\ NoZoneAtZero => (SpecV2 => []RegionIsBest)`.
  These are about the specification the run `mmz_alloc` checks, `__mmb_alloc_v2`
  included. `SoundKinds` says that zones of one name are of one type and block size
  and that what a size is rounded to does not leave the words either. The first is
  needed: with a "default" zone looked at before a "slab" zone of its name, TLC
  finds two blocks that overlap. The lists without mistakes in `mmz_alloc`, but for
  the zone at the end of the words, satisfy all three hypotheses (TLC evaluated
  them).

The heart is `RegionIsClear`: in a zone whose blocks are in it and apart, an
address `find_fixed_region` returns has room for the block, clear of all
others; three cases, for the gap before the first block, between two, and after
the last, each from the arithmetic of rounding up (`Align2Up`). `IInv` joins
`NoOverlap` with the soundness of zones listed and registered, that they are of one
list, their separation, and that there are no blocks before the module is loaded.
What callers may ask for (`maxSize`) plays no part in it beyond its type.

`RegionIsLeast` is the other direction. Every address with room for the block lies
in one of the gaps the search looks at, at or after where that gap begins
(`GapOf`), because rounding up gives the least multiple (`Align2Least`); a gap that is
not past the zone's end has room where it begins and reaches to what comes next
(`GapHasRoom`); the one gap that may be past the end has wrapped to a length
greater than any other, so that it is never best when there is another, and is
refused after the loop when there is none (`PastEnd`). The best of the gaps exists
because a set of numbers has a least.

For `__mmb_alloc_v2` the proof needs what the recursion over the zones computes.
`SizeAtIs` gives it in closed form: the size rounded to pages up to the first zone
that matches, rounded for that zone from there on. The closed form satisfies the
recursive equation because rounding a second time changes nothing
(`RoundedTwice`), and nothing else does, by the least zone where two solutions
would differ. So the length a block is given is the one the search had in the
zone it was found in.

**`Mmb`** (assumption `MmbAssumption`: `Nobody` is no file or block, the bounds
are natural numbers).

- `RefsAreCounted`: `Spec => []RefsCounted`.
- `LivesWhileHeld`: `Spec => []LiveWhileHeld`, of holders that are counted.
- `DelayedFreesWait`: `Spec => []DelayedFreeWaits`, with unmaps refused, failed and
  made by another process.
- `CacheTypesStay`: `Spec => OneCacheType`.

None of them is inductive alone. The invariant adds that a mapping in place that is
counted has a count and an open file behind it, and who may be busy with what: a
block belongs to one file, or is on its way in (`alloc`) or out (`put`, `free`) of
one, or is a kernel module's; a kernel mapping and `map_ref` come and go together;
and a released block is held only by kernel mappings. From these the free in
`mmz_mmb_put` never happens, as in the code, where only `mmz_mmb_free` and
`__mmb_unmap` ever free.

**`OsalDevice`, `IspOrphans`** (assumptions `OsalAssumption`, `OrphansAssumption`:
`Nobody` is no file or process, there are finitely many files, the bound is a
natural number).

- `UsersAreCounted`: `Spec => []UsersIsCount`, by cardinalities of finite sets.
- `HookRunsAlone`: `Spec => []HookAlone`.
- `LiveRefsAreKept`: `Spec => []LiveRefsKept`. The references held are finitely many and
  no more than the video buffer counts (`Kept`); the hook lowers a count only when
  no process is left to hold any.
- `OrphansAreDropped`: `Spec => OrphansDropped`. While the hook runs no process has
  a file and so none holds or takes a reference; the blocks the walk has passed
  have none, and the one it is on has as many as it has turns left.

**`Nnie`** (assumption `NnieAssumption`: `None` is nobody and nothing).

- `BuffersOnce`: `Spec => []OneEntryPerBuffer`. An entry off the list with a buffer
  is in the hands of one call that frees it.
- `AnswersAreOwn`: `Spec => []AnswerIsOwn`. One call at a time is between lock and
  unlock; if it began undisturbed, its task runs, or has ended and the news of it
  is in exactly one place: the interrupt bits, the handler, or the completion.

Only model-checked: the liveness properties, `CallsReturn`, `WaitersAnswered`,
`PollAnswered`, `ReadAnswered` and the NNIE's `CallsReturn`. Liveness and ENABLED are
beyond the proof system and stay with TLC. Every safety invariant and
every action property that a passing run checks is the statement of a theorem.

## 7. Findings

1. **A waiter can meet a job of another queue.** A comment of `npu.c` says waiters
   on dropped jobs see NPU_JOB_UNKNOWN. A new queue numbers its jobs from one
   again (`npu_open_queue`), and a sleeper of the old one that is not run until
   then finds a job of the new one under its id: it goes on waiting for it, or
   collects it from its owner.
2. **A block can be handed out twice.** If a zone does not begin at a multiple of
   the alignment asked for, the aligned start can lie past the first block; the
   length of the gap before that block then wraps to a huge number. It loses
   against any real gap, and is taken when there is none.

## 8. What is left out

Behaviour of the code that the models have and no run asks about:

- The store of NPU_DRAINING (`npu.c:434`) comes after a test under `state_lock`, which
  the hard handler does not take: an abort in between is overwritten, and the
  device drains with no job. NPU_IOC_RESET looks for a job or NPU_ABORTED, finds
  neither and resets nothing; later submissions are refused.
- `pop_one` discards from the shared ring what one file's mask excludes, also when
  another file waits for it (`openipc_frame_ts.c:336`).
- A MIPI_FS between the write of "off" making the strobe's pin inactive and its store
  of the mode makes the pin active again; in hold mode no timer follows.
- A task of the NNIE that times out is not stopped, and the engine's own limit is no
  help: the comment at `nnie_neo.c:681` takes 0xFF_FFFFFFFF cycles at 500 MHz for
  two seconds, and they are more than half an hour. A later Forward can be
  woken by the old task's interrupt and answer 0 for a task still running.
- A whole write of the polarity (`openipc_frame_ts.c:602`) fits between the read of
  `g_strobe_active_low` and the `gpio_set_value` of the callback (line 163) on
  another core. The level the callback sets is then the active one: the pin stays
  lit with no timer, until the next pulse ends or a write makes it inactive. The
  end of a hold (line 188) has the same race, and the end of the next frame mends
  it. With "turned" let into `PulseIsTimed`, TLC shows the first.
- An unmap that `mmz_vma_check` refuses, of a cached mapping that is read-only or in
  another process, has already given the mapping's references back
  (`mmz-userdev.c:441`). The mapping stays and nothing counts it: a delayed free may
  be put off to the close (section 3), and IOC_MMB_FREE frees the block under the
  mapping (`Unmap` with "refused", then `Free`). A vm_munmap that fails, or that is
  called in a process other than the mapping's, leaves the same.

Left out:

- *Npu*: the registers of a job (its payload), power and clock details, failures
  of kzalloc and copy_from_user that change nothing. With two cores *and* an
  engine that raises events after an error, `NoUseAfterFree` does not hold in the
  model; the chip has a single Cortex-A7, and `npu_smp` excludes that pair.
  NPU_IOC_OPEN's clearing of latched interrupts under a draining job is modelled
  and no liveness of draining is claimed.
- *FrameTs*: time stamps. Whether an event is too soon after the last is a free
  choice; so is O_NONBLOCK at the moment a read finds nothing. A file is used
  by one thread at a time.
- *Strobe*: pulses longer than a frame (section 4); a write of strobe_pulse_us.
- *MmzAlloc*: `gfp`, names beyond equality, `anony = 0`, the search from high
  addresses (which reads a bitmap nothing allocates), the CMA allocator, cache
  calls and the mapping of memory outside blocks. Zones of one name are of one
  kind: with different kinds `AllocV2`'s carried-over size is a listed hazard.
  A zone that ends exactly where the words do and begins below another zone, or
  below the kernel's memory, is let in by `_check_mmz` although they overlap,
  because its end has wrapped to 0; the lists of `mmz_alloc` hold no such pair
  and `SoundTables` excludes it.
- *Mmb*: a find by address and the mapping that follows are one step, because what
  a vendor module does in between is not known. mmap(2) called on the device
  directly, which records nothing; IOC_MMB_ATTR, IOC_MMB_VIRT_GET_PHYS and the cache
  ioctls, which change no count. Kernel modules are assumed to free only what they
  allocated and unmap only what they mapped; a failed ioremap changes nothing. A mapping keeps its file open, as in the kernel.
- *OsalDevice, IspOrphans*: `f_ref_cnt`; the memory a failed open leaves behind
  (`osal_device.c:182`). A process that holds a frame has an MPP file open, as the
  comment in `isp_orphans.c` says. `vb_release_orphans` is 1.
- *Nnie*: how a descriptor is put together; the forward with bounding boxes, which
  shares the dispatch; a cached buffer whose size has changed since; module unload.
  A client is assumed to remove no buffer that a Forward is using: the driver
  drops the registry's lock between finding a buffer and writing to it
  (`nnie_neo.c:816`). Its handler's shared line is a read that finds no bit.
- *The rest* of the inventory: not modelled; `PROJECT.json` gives each reason.

## 9. Plan

Done, in this order: `Npu` and its abstract queue; `FrameTs` and `Strobe`;
`MmzAlloc`; `Mmb`; `OsalDevice` with `IspOrphans`; `Nnie`.

Every safety and action property the passing runs check is proved of the
specification they check, without the fairness it may add.

Modules next:

1. `SpiTransfer`: a frame's way from the caller through the tearing interrupt to the
   DMA interrupt; what a failed channel allocation leaves behind.
2. `OsalTimer`: a stop that tries again and again against a callback that re-arms.

Not planned: the IVE driver, which serialises nothing (a submission fills the
one task memory, starts the engine and waits a few milliseconds without a lock,
and the query answers a constant), so that there is no protocol to state; the
watchdog, one thread and one flag; the CMA allocator, whose search is the
kernel's; everything that is data, register layout or a vendor's object.

Abstract specifications worth stating beyond `NpuQueue`: a log of events with
readers for `FrameTs`; a set of disjoint intervals for `MmzAlloc`, which `Mmb`'s
blocks would be the members of.

The number of runs is kept small, a run for each question.
