# DepSpawn in TLA+

DepSpawn runs C++ functions as tasks: `spawn(f, a, b, ...)` returns at once, and
the library runs `f(a, b, ...)` in some thread as soon as the tasks spawned
before it that use the same data have finished. What a task reads and writes is
taken from the types of its parameters. This directory holds a model of the
runtime, the TLC runs that check it on small programs, and TLAPS proofs about it
for programs of any size.

Line numbers refer to the sources in `src/`: `src/src/workitem.cpp`,
`src/src/depspawn.cpp` and the headers of `src/include/depspawn/`. The build
that is modelled is the default one: no TBB, the runtime's own `ThreadPool` and
`TaskPool`, `DEPSPAWN_FAST_START` on.

## 1. The system

| part | source | state | operations |
|---|---|---|---|
| argument lists | `depspawn.h`, `depspawn.cpp` 86-498 | one list of `arg_info` per task, ordered by address | `fill_args`, `insert_in_arglist`, `solve_overlap`; `overlaps`, `contains`, `overlap_array`, `is_contained_array`, `is_contained` |
| worklist | `workitem.h`, `workitem.cpp` | a list of `Workitem`s, newest first (`worklist`, `next`); in each `status`, `optFlags_`, `ndependencies`, `nchildren`, `deps`, `father`, `args` | construction, `insert_in_worklist`, `post`, `Task::run`, `finish_execution` |
| worklist eraser | `workitem.cpp` 264, 321-456 | `eraser_assigned`, `ObserversAtWork` | `Clean_worklist` |
| task pool | `TaskPool.h` | bounded queues, `busy_threads_`, `finish_` | `enqueue`, `try_run`, `wait`, the loop of a worker |
| thread pool | `ThreadPool.h` | `ready_`, `count_`, `nthreads_in_use_` | `launch_theads`, `resize`, `main`, the destructor |
| object pools | `LinkedListPool.h` | the head of a lock-free free list with a 16-bit tag | `malloc`, `free` |
| waits | `depspawn.cpp` 300-322, 556-594, 660-731 | `Observer::limit_`, `ObserversAtWork` | `wait_for_all`, `wait_for_subtasks`, `wait_for`, `Observer` |
| TBB build, `for_range`, type traits, settings | several | see section 8 | |

How they meet:

1. The thread that spawns builds the argument list of the task (`fill_args`)
   and a `Workitem` in status `Filling`, which counts as a child of its father.
2. `insert_in_worklist` puts it at the head of the worklist with a
   compare-and-swap and walks down the list. Ancestors are skipped. With every
   other item that is not finished it compares argument lists; on a conflict it
   increments its own `ndependencies` and links itself in the other's `deps`.
   It then posts itself to the pool, or goes to `Waiting`.
3. A thread of the pool runs the function. When it returns and the last subtask
   is complete as well, `finish_execution` marks the item `Done`, waits for the
   newer items that are still `Filling` (they may have seen it as unfinished),
   releases its `deps`, posts those with none left, frees its lists and becomes
   `Deallocatable`. It then has its father complete in the same way if this was
   the last subtask.
4. A finishing thread whose item lies at one of some addresses may claim the
   role of eraser (`eraser_assigned`), unless an observer is at work. When it is
   through it unlinks the `Deallocatable` items of the worklist, waits for those
   who may still be walking over them, and gives their memory back.
5. `wait_for_all` runs tasks until the pool is idle and frees the worklist. An
   `Observer`, and `wait_for_subtasks`, which makes one, keep the erasers away and
   walk the worklist until the tasks that descend from their function have
   finished, running tasks of the pool meanwhile. `wait_for` inserts a task that
   reads the variables in question, and runs others until it has run.

The hard part is between 2, 3 and 4. Many threads insert and finish at the same
time, without a lock on the list. The inserting thread acts on a status it read
earlier. Two threads may bring `ndependencies` to zero or find it so. The
finishing thread decides from flags that others computed (`PendingFills`,
`FatherScape`) that no one can link itself behind its item any more. The eraser
decides from the same flags that no one is at an unlinked item any more. What has to hold:

* argument lists: no access declared by the caller is lost or weakened when
  regions are split; the single pass over two lists finds a conflict if there is
  one; an argument dropped from further comparison really was covered.
* worklist: tasks start in the order the documentation promises, each exactly
  once; no dependency is linked where nobody will release it; no freed list is
  read; everything finishes.
* eraser: nobody goes to an item that was freed, and what the flags vouch for
  stays true of a list from which items are taken out; the eraser ends.
* observers: they see all that they must wait for, come to the end of their walk,
  and go on in the end.
* task pool: `wait` only returns when nothing is queued or running; a full queue
  neither loses a task nor blocks.
* thread pool: each thread takes part in each launch exactly once.
* object pools: no block is handed out twice.

The hazards, each at its line with the properties that would catch it, are in
`PROJECT.json`.

## 2. The modules

| module | contents |
|---|---|
| `ArgInfo` | regions and argument lists; the comparisons, as operators and recursive functions; their byte-by-byte reference definitions |
| `ArgList` | two lists built by `fill_args` region by region, and what the comparisons say about them |
| `Worklist` | insertion, execution and completion of tasks |
| `Reclaim` | the worklist with its eraser and with blocks that are used again |
| `Observer` | the same with the functions that wait: observers, `wait_for_subtasks`, `wait_for` |
| `TaskGraph` | the abstract specification: what the documentation promises about the order of tasks |
| `TaskBag` | the abstract specification of a pool of threads, as `Worklist` uses it |
| `TaskPool` | the bounded queues, the threads that empty them, and `wait` |
| `ThreadPool` | the threads below: asleep, launched together, back to sleep |
| `FreeList` | the lock-free list of free blocks, with its tag |
| `BlockStack` | the abstract specification of a pool of blocks |
| `MCArgList`, `MCWorklist`, `MCReclaim`, `MCObserver`, `MCTaskPool`, `MCFreeList` | the instances for TLC; `ThreadPool` needs none |
| `ArgInfoProofs` | what the walk over two lists finds, and what a covered argument may be left out for |
| `ArgListProofs` | how a list is built: in order, short enough, no access lost; and what is decided about two lists built that way |
| `WorklistProofs` | types, for every program; the inductive invariant of the worklist and the safety theorems; who completes an item, in which order tasks run, and that the worklist implements `TaskGraph` |
| `ReclaimProofs` | types of the eraser and of the observers, and that freed items are not reached from the list, for every program; the safety of walks and insertions beside the eraser, that the worklist with it implements `TaskGraph`, and that an observer waits for all its tasks, for programs whose tasks have no subtasks |
| `TaskGraphProofs` | what the promised order gives: no data races |
| `TaskPoolProofs` | types, that `wait` only gives up waiting when all is quiet, and that the pool implements `TaskBag` |
| `ThreadPoolProofs` | `count_` is exact, each thread in use takes part in a launch once, and `wait` finds all at rest |
| `FreeListProofs` | the free list stays a list, no block has two owners, and the pool implements `BlockStack` |

`ArgList` and `Worklist` extend `ArgInfo`, `Reclaim` extends `Worklist`, and
`Observer` extends `Reclaim`: each adds its variables and actions and keeps the
ones below, so that properties and refinement mappings of `Worklist` are checked
of all three. `Worklist` has an `INSTANCE` of `TaskGraph` with a refinement
mapping, `TaskPool` one of `TaskBag`, `FreeList` one of `BlockStack`.

### ArgInfo and ArgList

A region has an address, a size, `wr`, and, if it is a section of an array, an
extent for each dimension. `solve_overlap` keeps the case analysis of the
source: equal regions, one starting before the other, one ending after the
other, and the pieces inserted after it. `insert_region` is one call of
`insert_in_arglist`, and `insert_in_arglist` the calls one after the other until
nothing remains. `fill_args` is the only action: the
next actual argument of one of the two lists is added. The "old" list is that of
a task in the worklist, the "new" one that of a task being inserted.
`FirstConflict` is the merge walk of `insert_in_worklist` up to the first
conflict, `RemoveCovered` what that conflict does to the copy `argv`, and
`is_contained` the test that ends a search at an ancestor.

`Cells`, `Accessed`, `Written` and `Conflicting` are the references: bytes for
scalars, elements for arrays.

### Worklist

An item is named by its task. Two threads may be active for a task `t`: the one
inserting it, at `ins[t]`, and the one that executes it, at `run[t]`.

| action | code | what it does |
|---|---|---|
| `Spawn` | `spawn`, `Workitem::Workitem` | argument list, father, child count, `Filling` |
| `Push` | `workitem.cpp` 84-90 | the compare-and-swap on the head |
| `SkipAncestor` | 98-105 | go past an ancestor; stop if the arguments lie within those of the one above |
| `Look` | 106-109 | read the status of the next item (`Scan` is one of the two) |
| `Examine` | 110-177 | compare, count, link, drop a covered argument |
| `Flag` | 189-191 | read the status again: `PendingFills` |
| `Settle`, `SetWaiting` | 216-220 | post, or store `Waiting` |
| `Start` | `Task::run`, `TaskPool` | a thread takes an enqueued task |
| `EndBody` | 250-251 | the function returned; complete unless subtasks are left |
| `MarkDone`, `LoadHint` | 259-271 | store `Done`, read the newest item |
| `Walk` | 274-291 | one iteration of the wait for newer items |
| `Drain` | 296-303 | one iteration of the release of `deps` |
| `FreeDeps`, `Release` | 304-315 | free both lists, `Deallocatable` |
| `Climb` | 313-319 | decrement the children of the father, and go on with it if it was the last |
| `WaitForAll` | `wait_for_all` | the pool is idle, the list is freed |

The steps are as fine as the shared reads and writes: the status an inserting
thread reads (`Look`), its comparison (`Examine`) and the second read of the
status (`Flag`) are separate, so that the other task may finish in between.
What is merged touches state that no other thread looks at in between: the
counter is incremented and the link made in one step, since no other thread
reads the counter before it has found the link; and storing
`Ready` is merged with the enqueue, and that with the decrement that leads to
it, since a task with the counter at zero is in the hands of one thread. `Walk`
reads status, flags, `father` and `next` of an item in one step. Flags and father
are fixed once the item is no longer `Filling`, so the step stands for the last of
these reads; but the jump to the father (283) may also be made just after the item
was done and an eraser gave its father back. No run has both the jump and an
eraser, and no property speaks of that window.

`declared` and `before` are history variables: the arguments a task was spawned
with (the list itself is freed), and the items in the list when it was pushed.

What the model leaves out, beside the parts of section 8:

* Memory is sequentially consistent. The exchange on the head, the atomic
  counters and the lock of `deps` order what the protocol relies on.
* The pool is a bag: any ready task may be taken at any time, so that the order
  of the queue and `DEPSPAWN_FAST_START`, where a spawning thread runs a task,
  are included. That the pool is no more and no less than that is what
  `TaskPool` is checked against (`ImplementsTaskBag`). A thread that runs
  another task while the queue is full is not: in `Worklist` each task goes on
  by itself.
* Finished items stay in the list here; `Reclaim` takes them out.
* The first tasks come from one main thread.
* The copy `argv` is the list. That it never is too short is `ArgvFits` of
  `ArgList`; for what it is when it is too long see section 6.

### Reclaim

There is one eraser at a time, so the locals and the static lists of
`Clean_worklist` are variables.

| action | `workitem.cpp` | what it does |
|---|---|---|
| `ReclaimSpawn` | 21-30 | `Spawn`, in a new block or in one that was given back |
| `ReclaimLook` | 94-97 | the scan that meets its own item goes past it |
| `TestErase`, `Claim` | 264 | the conditions, then the exchange |
| `ReclaimLoadHint` | 266-271 | `LoadHint`; the eraser keeps the last one |
| `BeginErase` | 321-340 | the newest item, which always stays |
| `LookAt`, `Keep`, `Cut`, `CutTail` | 340-368 | the walk that unlinks: one item per step, its status read twice |
| `Reload`, `WaitFill` | 374-389 | the wait for newer items up to the hint |
| `FreeSublists` | 391-452 | the wait for the items found `Done`; memory given back; `eraser_assigned` reset |
| `ReclaimWaitForAll` | `depspawn.cpp` 568-575 | as before, and with no eraser left, since the pool is idle |

Items are still named by their task. `freed` are those whose memory was given
back; when a new item takes such a block (`reused`), the pointers of other threads
to the old item become pointers to the new one, which is what they are. Nothing
is said about what a thread finds in a freed block that is not in use:
`SafeWalks` says that none gets there. A block is only used again after the
thread that ran its task has left `finish_execution` (the pointer `this` is
compared there), which leaves out nothing that `SafeWalks` would allow.
`Lucky` stands for the test of the address: the items whose finishing thread may
try to erase. `MinDeletable` is the 4 of line 348. A finishing thread goes straight
on: it does not run another task because the queue is full.

### Observer

`obs[f]` is where function `f`, or the main thread for `Nil`, is with its observer.
The program is given by constants: after how many of its spawns a function
builds an observer and after how many it destroys it (`Observed`), or calls
`wait_for_subtasks` (`Joined`), which tasks are those of `wait_for` (`Awaited`),
and whether the observer has priority (`Priority`).

| action | `depspawn.cpp` | what it does |
|---|---|---|
| `Build` | 660-664 | `limit_` is the newest item |
| `Destroy`, `WaitForSubtasks` | 672-677, 583-594 | counted in `ObserversAtWork` |
| `FirstPass` | 678-707 | no eraser: the walk begins |
| `Visit` | 707-720 | an item: one of the fathers from now on, or not; unfinished, or not |
| `TryToRun`, `GoOn` | 117-134, 712, 717 | a task of the pool run on top, until it is through |
| `NextPass`, `EndWait` | 702-731 | another walk, with or without priority, or the end |
| `AwaitTask`, `AwaitNext` | 300-318 | the loop of `wait_for` |

A function that waits does not spawn or return; a task that runs on top of one
(`helping`) keeps it from going on. The other actions are those of `Reclaim`. The
task run on top is taken from the pool like any other, so that everything that
can happen to it is in the model, and so is the function beneath. `earlier` is a
history variable: the tasks its function had spawned when the observer was built.

### TaskGraph

After "The fine print" of `doc/main.dox`: a task starts when all the conflicting
tasks spawned before it, by any thread, have finished, its ancestors excepted;
it finishes when its subtasks have; `wait_for_all` waits for all. In the
refinement mapping a task is born with `Push` (the order of spawning is the
order in the worklist), it runs while its function does, it is finished from
`Done` on, and the batch of tasks since the last wait is the worklist.

### TaskPool and TaskBag

The pool has `Thread`s and a main thread. `stack[p]` are the tasks that thread
`p` is in the middle of: a thread that finds no room when it enqueues, or that
waits for the parts of a `soft_parallel_for`, calls `try_run` and so runs another
task on top of its own. The program is a constant: `Kids[t]` are the tasks that
`t` enqueues, `Hp` those of high priority, `Soft` those that wait for their kids.

| action | `TaskPool.h` | what it does |
|---|---|---|
| `Push`, `PushFull` | 242-275 | `enqueue`: into the queue, or off to run another one first |
| `Join` | 118-140 | `common_soft_parallel_for` runs others until its parts are done |
| `PopHp`, `Pop` | 208-232 | `try_run` and `hp_try_run`: one queue, then the other |
| `Return` | 74-83 | the function returns to where its thread called `try_run` |
| `Top`, `OutOfWork`, `Wake`, `Resume`, `Exit` | 85-99 | `main`, down to its spin without work |
| `Launch` | 190-198 | `launch_threads` |
| `Wait`, `TestBusy`, `Finish`, `JoinThreads` | 334-349 | `wait`: empty the queues, test `busy_threads_`, stop the threads |

The queues are those of Boost.Lockfree, outside the repository: a push or a pop
is one step and a push fails when `QueueSize` tasks are in. `TaskBag` says what
users rely on: a task is taken once, and `wait` returns when none is left. Tasks
are enqueued only between `launch_threads` and `wait`, as `spawn` does;
`try_enqueue` is used nowhere.

### ThreadPool

The loop of a thread is `Top`, `NothingToDo` and `Sleep` (44-46), `CheckIn` (the
number it takes, 47-51), `Decide`, `Func`, `Spin` (57) and `CheckOut` (58-63). The
code in which `mutex_` is taken is one step, but for the tests before the wait for
a notification: between them and the wait (`"wait"`, when the mutex is `Locked`)
the destructor may set `finish_`, which it does without the mutex. A notification
sent there would be lost; it is not, as `launch_theads` takes the mutex before it
sends one (`SetReady_Unlocked` is the mutation that does not). The owner is inside at most one of `Resize`,
`LaunchThreads`, `Wait` and `Destroy`, each of which begins with the two reads
of `wait` (`ReadReady`, `ReadCount`). `Spurious` is a wake-up without a
notification, as the standard allows. `calls` and `launched` are history
variables: who has run the function since the last launch, and how many were
in use then. `volatile` variables are read and written atomically and in order,
as on the machines the library supports; the standard calls this a data race.

### FreeList

The head and the fields `next` are records of a block and a tag. `Load`, `Test`,
`Pop` and `PopFails` are `intl_malloc`; `Test` reads `next` of a block that may
have been handed out and written to in the meantime. `Free`, `Push` and
`PushFails` are `free` and the three `freeLinkedList`, and, from `Grow` on,
`allocate`. `Use` is what the owners of blocks do with `next`. The variable
`free` is a history variable, the sequence of the blocks given back and not
handed out again; it is what the list through `next` is compared with. `gap[p]`
counts the changes of the head since thread `p` read it.

`BlockStack` has `Take`, `Give` and `Grow`, each at one instant. In the refinement
mapping that instant is the exchange on the head: until then a thread keeps what it
is giving back (`Kept`), and the blocks of a new chunk are nobody's (`NotGot`).

`Timely`, a guard of the two steps that change the head, says that the head does
not change `Tags` times while one thread is between its read and its exchange.
It is an assumption about the program, not something the code ensures: with
2^16 tags and a thread that sleeps through a multiple of 2^16 changes that end
with the same block in front, the exchange succeeds with an old `next`.

## 3. The runs

| run | instance | shows |
|---|---|---|
| `arglist` | old list of up to 3 regions, new one of up to 2, from 8 scalars over 6 bytes and 4 sections of an array | the types; lists stay in order; no access is lost or weakened (`AccessPreserved`); for lists whose regions do not partly overlap, the merge walk finds every conflict (`AlignedScanComplete`); covered arguments were covered (`RemovalSound`); the copy `argv` has room for the list (`ArgvFits`); `is_contained` never accepts a task with an access outside (`ContainedSound`) |
| `worklist_flat` | 3 tasks of the main thread, each with any of: write x; read x; read x and write y | all the safety properties, the status only advances, the worklist implements `TaskGraph`, every task finishes |
| `worklist_nested` | t1 without arguments spawns t3 and t4 while the main thread spawns t2, on x; who finishes t1, which may be the thread of a subtask, may erase, every run of items however short, and the blocks are used again | with two threads inserting at once and an eraser: nobody goes to a freed item (`SafeWalks`), and nothing in the list leads to one (`FreedUnlinked`); the eraser finds its hint (`EraserFindsHint`); argument lists, links and posts stay right (`InsertionSafe`); the worklist implements `TaskGraph`; every task finishes, and the eraser ends (`EraserEnds`) |
| `worklist_deep` | four levels: t1 spawns t2, which spawns t3, which spawns t4; t5 before them. t2 waits for its subtasks, with an observer around t3 or by `wait_for_subtasks`, without priority; t3, which may spawn during that wait, waits for two variables, with t4 | order and ends, so that no link is lost, also when the search stops at an ancestor (`FatherScape`) or only skips it; `ObserversAtWork` is exact (in `ObserverTypeOK`); when an observer is through, what it waits for has finished, also t4, which is not seen by a walk that began before it (`ObserverWaits`); who waits goes on, since the tasks finish |
| `taskpool` | 2 threads and the main one, which enqueues a, and b with high priority; a enqueues c and d and waits for them, b enqueues e and g with high priority; queues of one position | the types and the bound of the queues; `wait` is right that nothing is left (`WaitIsQuiescent`); the pool is the bag of `TaskBag`; every task enqueued is run; `wait` returns |
| `threadpool` | up to 3 threads; the owner calls what it likes in any order | `count_` is exact (in `TypeOK`); no thread takes part twice (`OnceEach`); after a wait all are at rest and as many as were in use have run the function (`WaitIsComplete`); launches end; calls return |
| `freelist` | 3 blocks, 2 threads, 4 tags, chunks of one block, lists of up to 2 given back | the list through `next` is that of the free blocks (`ListIsFree`), each block has one owner (`OneOwner`); the pool is a stack of blocks (`ImplementsBlockStack`) |
| `arglist_fields` | as `arglist` | **violated**: `ScanComplete`, without the restriction of `AlignedScanComplete` |
| `worklist_order` | t1 and t2 of the main thread, t3 of t1, all write x | **violated**: `StartsInOrder` |
| `worklist_wait` | the same | **violated**: `WaitsForAll` |
| `worklist_post_twice` | the same, but t3 writes y | **violated**: `PostedOnce` |
| `observer_limit` | t1 spawns t2, builds an observer, spawns t3 and waits; who finishes t2 may erase | **violated**: `LimitIsSafe` |

Some configurations beside the runs ask the same modules about other programs.
`ReclaimFamily.cfg` (three subtasks, two of which may erase, one after the other,
and a third that takes the blocks) and `ObserverMain.cfg` (an observer of the main
thread, `wait_for` and `wait_for_subtasks` in a task below it, `WaitsEnd`) pass.
`ReclaimHint.cfg`, `ReclaimWalk.cfg`, `ReclaimMyself.cfg`, `ObserverRace.cfg`, `ObserverHelps.cfg`,
`WorklistBetween.cfg` and `ArgListRepeat.cfg` are violated: section 6 says by what.

Why the bounds are enough for what the runs ask. A region list needs two
entries for a split and a third for the piece that is left over, and 6 bytes
have room for a region before, inside, across and after another. In the flat
programs three tasks are needed: one that finishes, one still being inserted
that may link itself behind it, and a third, newer one whose flags tell the
first whether to wait for the second. Two variables let an argument be covered
while another still has to be compared. In the nested programs there are two
inserting threads, one more finishing, and a father that is finished by the
thread of a subtask. In the deep one t1 is a grandfather, the smallest case
where `SkipAncestor` can stop, and t4 a subtask spawned while an observer above its
father waits. Other programs of this size are not claimed to
be right: the violated runs and configurations show some that are not.

An eraser needs something finished behind something that stays, and someone who
is still walking over it: the nested program has the first item of the list
always staying, t2 or t4 being inserted, and t1 and t3 finishing. With
`MinDeletable` 0 a run of one item is unlinked, the most that can happen; with 4
nothing would be in lists of this length. Which items lie at an address that
makes the thread erase depends on the allocator. The passing run has the father
in that role, who is finished after its subtasks, the violated configurations a subtask. `worklist_deep` has no eraser, as `Lucky` is empty there: observers and
erasers are together in `observer_limit`, which shows that they do not keep out
of each other's way, and in `ObserverRace.cfg`.

For the task pool, one position makes each queue full at the second task of a or b,
so that tasks run on top of tasks; two threads beside the main one let a task be taken
by one between the tests of `wait` while the other goes out of work; launching
and waiting again and again is in. Three threads are the smallest number where
one is not in use, one is late for a launch and one is done with it. In the
free list a block must leave and come back with another behind it for the
comparison of the head to be fooled, which takes three blocks, and one thread
that does so while the other is between its read and its exchange; four tags
are more than the changes this takes, and they wrap.

`freelist` uses symmetry of blocks and of threads, as it checks only safety and
`BlockStack` does not tell them apart either.

Every property of a passing run also has a mutation of the code that violates
it, listed in `PROJECT.json`: the definitions with a suffix (`Walk_NoWait`,
`Examine_CountOnce`, ...) right before the ones they change.

Deadlock is checked in the runs of `Worklist`, `Reclaim` and `Observer`, where
`WaitForAll` is always possible when all is quiet, and in `taskpool`. `ArgList` stops when its lists
are full, `ThreadPool` when it was destroyed (`"gone"`, or the exception below),
`FreeList` when two threads ask for more memory than the instance has.

### Fairness

`FairSpec` asks that a thread which inserts a task goes on (`WF(Insert(t))`) and
that an enqueued task is taken, its function returns, and its completion goes on
(`WF(Execute(t))`). The library gives this: inserting and finishing are code
of running threads without a wait, apart from the spin in `Walk`, which is a
disabled action here; all threads of the pool take tasks while there are any,
and so does the one in `wait_for_all`; there is no priority that could starve
one. That functions of the tasks return is an assumption about the user.
Nothing is assumed about spawning: a program may stop spawning at any time.

`ReclaimFairSpec` adds that the eraser, a running thread like the others, goes on;
its spins (383, 392) are disabled actions. Nobody need become the eraser: only
what a thread does after `TestErase` and `Claim` is in its own `Execute`.
`ObserverFairSpec` adds that a function that has an observer or waits goes on with
it, and, when it has built one, spawns on to the end of the block: leaving the
block is the only thing that lets the task end, and a task whose function does not
return was ruled out already. A waiting thread that could run tasks for ever on
top would not go on: tasks are finitely many in an instance.

In `TaskPool` and `ThreadPool` each thread goes on with what it is in, and so does
the main thread, or the owner, inside `wait`, `resize` and the destructor; it
need not call them. The operating system schedules every runnable thread. Spins
are disabled actions. `Spurious` has no fairness, so that a sleeping thread must
be woken by `Notify`. `mutex_` is free time and again, but a thread that wakes up for
no reason may hold it each time another one asks: `SF(SetReady \/ CheckOut)` says
that it does not only go to such threads. A mutex of the standard library does not
guarantee even that much in theory; what is left out is a system that wakes up
threads for no reason without end. `CallsReturn` has an exception: the destructor of a
`ThreadPool` that was resized to no threads notifies nobody (140, 110) and waits
for the sleeping threads. `TaskPool` never resizes its pool, so the library
cannot get there; `ThreadPool` by itself can.

## 4. What is proved

For every finite set of tasks, every program and every choice of arguments:

* `WorklistProofs!TypeCorrect`: `Spec => []TypeOK`. The invariant that carries
  it adds to the types what places say about pointers (a thread that examines
  has an item to look at, a thread that finishes has an item to finish).
* `TaskGraphProofs!RaceFreedom`: two tasks that the documented order lets run at
  the same time have no conflicting arguments, unless one descends from the
  other. It follows from `OrderInv`: tasks that have not finished belong to the
  same batch, so one of them was spawned before the other. Where the worklist
  implements `TaskGraph`, this is what its users get.

For every program too, and with the eraser at work (`ReclaimProofs`):

* `ReclaimTypes` and `ObserverTypesOK`: `ReclaimTypeOK` and `ObserverTypeOK` always
  hold. The second says that `ObserversAtWork` is the number of those who wait.
* `FreedStaysOut`: `FreedUnlinked` always holds.

The actions of `Worklist` keep `TypeInv`, so that what is to be shown of them is
`PushedInv` (what was linked, executed or completed had been pushed, and while
a thread does any of it the list is not empty), which in turn keeps the
newest item from being null when the eraser begins. `ChainInv` says that the items
in use form one list: no two of them have the same `next`, none leads to the newest,
and none to an item that was unlinked. It is not inductive alone. `UnlinkInv`
adds what the locals of `Clean_worklist` mean: the items `deletable` and the one
to `visit` are in use and older than `lastkeep`, and nothing else in use
leads to them. The lemma `Unlink` is the one store that takes them out, whether there is an
item after them or not; a push at the same moment only adds a predecessor of what
was the newest item, which is never `deletable`. `OlderInv` has `next` lead to older
items, in the order of the pushes, and `EraserInv` says which locals are set where.

For every program whose tasks have no subtasks (`Flat`), with the eraser at work and
blocks that are used again (`ReclaimProofs`):

* `WalksStaySafe`: `SafeWalks` always holds: no thread that scans, waits, finishes or
  erases gets to an item that was given back.
* `HintFound`: `EraserFindsHint` always holds.
* `InsertionStaysSafe`: `InsertionSafe` (`ArgsAlive`, `NothingLost`, `PostedOnce`)
  always holds.
* `NeverItself`: `NotMyself` always holds, as the comment at `workitem.cpp` 94 says.
* `WaitsWithEraser`: `WaitsForAll` holds of `ReclaimSpec`.
* `OrderedWithEraser` and `GraphWithEraser`, where the argument lists are also
  `Separate` (below): `StartsInOrder` always holds, and
  `ReclaimSpec => ImplementsTaskGraph`.
* `ObserverSeesAll`: `ObserverSpec => ObserverWaits`.

The restriction is needed: with subtasks, two threads may insert at a time, and there are
programs of two levels in which `EraserFindsHint`, `SafeWalks` and `NotMyself` are
false (`ReclaimHint`, `ReclaimWalk`, `ReclaimMyself` in section 6).
What `Flat` leaves in is everything else: any number of tasks that finish at a
time, erase, wait in the list and are pushed over blocks just given back. A run of TLC
had checked `FlatInv`, with `ReclaimInv` the inductive invariant, on three such
tasks (1,009,332 states) before it was proved. Its parts:

* `PlacesInv`: at most one task is being inserted, no flag of an ancestor is ever set,
  and the status of an item says where its threads are.
* `WholeInv`: what the eraser takes out is `Deallocatable`, and nothing else is ever
  skipped by a `next`.
* `ScanInv`: the task being inserted is the newest item, and its scan may stand at an
  item that was unlinked only until the eraser, which waits for what is `Filling`, has
  waited for it. That is why nothing is given back under it.
* `LinksInv`: if a task still compares its arguments with those of an item, or has
  linked itself behind it and is still `Filling`, then the thread that releases
  what is behind the item has not passed that task in its wait at 274.
* `WaitersInv`: a wait at 274 begins at an item that was the newest then. If that one was
  unlinked since, the item of who waits is among the `Dones` that the eraser waits
  for, or the eraser has yet to pass it.
* `HintInv`: the hint is the item that the eraser waited for itself, so that it is in use
  when the eraser looks for it.

For `OrderedWithEraser` and `GraphWithEraser` the argument about order is the one below, that of
`ExecutionInOrder`. Its lemmas (`ArgvStep`, `OrderStep`, `PostedFollows`) do not
speak of `Worklist` alone: they hold of any step that is, to the variables of
`orderVars`, one of `Worklist` or none (`MovesOK`), in a state where a scan passes
over nothing but finished items (`OrderOK`). `FlatOrderFacts` and `FlatMoves` are
these two for `Reclaim`: an item between one and its `next` was taken out, and so
is `Deallocatable` (`WholeInv`).

`ObserverSeesAll` is about the observers of the main thread, the only ones with tasks
to wait for. `PassInv` says that nothing is inserted while it waits, and that in a
walk that has met no unfinished item all those out of reach of the item it is at
have finished. That holds by `WholeInv` whether or not an eraser is at work: it may well
be, since `ObserversAtWork` does not keep it away (`NoEraserMeanwhile`, section 6).

For every program of two levels (`TwoLevel`: tasks of the main thread may have
subtasks, but then they have no arguments, and their subtasks have none):

* `WorklistProofs!ArgsStayAlive`, `NoDependencyLost`, `PostedAtMostOnce` and
  `CountersExact`: `ArgsAlive`, `NothingLost`, `PostedOnce` and `CountExact`
  always hold.

The restriction is needed. The run `worklist_post_twice` has a program with a
father that has an argument, and there `PostedOnce` is false.

The argument. None of the four properties is inductive: that a list is not freed
under a reader depends on what the flags of a third task say about the worklist.
`IInv` has eight parts.

* `PlaceInv`: status and places agree; a posted task has been inserted.
* `FamilyInv`: a father runs and has no arguments, so a search never ends early.
* `ListInv`: the list from an item on is exactly `before` of that item and the
  item; a task being inserted is in the worklist once it is pushed.
* `LinkInv`: a task is linked behind an item at most once, and only behind one it
  has gone past (`Visited`).
* `VouchInv`: a task without `PendingFills` saw no item that is still `Filling`
  among those it went past. It can be relied on because `Filling` never comes
  back.
* `FinishInv`: while a thread waits in `Walk`, all that may still touch its item
  (`Touches`) are ahead of it in the list; after the wait there is none. The
  step of the wait is `WalkFacts`: an item that is no longer `Filling` touches
  nothing itself, and if it has no flags, `VouchInv` says the same of all that
  is older. `WalkEnds` covers the end of the walk, at the item itself.
* `CountInv`: `ndependencies` is the number of items that have not released the
  task, and it is none for a posted one.

The lemmas `PlaceStep` to `CountStep` show that each part is preserved, with a
step for each action. `FinishFrame` states once which changes do not disturb
another thread that is finishing. `DrainUnblocks` and `ExamineBlocks` say what
happens to the set of items that a task waits for.

With an invariant of its own, `CInv`, added to `IInv`, the second half of
`WorklistProofs` shows for the same programs:

* `StatusAdvances`: `StatusForward`. The late store of `Waiting` finds `Filling`,
  and `Done` and `Deallocatable` are stored once.
* `WaitsForTheRest`: `WaitsForAll`.

That a status goes forward depends on who completes an item, a question that
goes across threads: `nchildren` is counted down by the thread of the task and by
those of its subtasks, and the one that brings it to zero completes the item.
`ChildInv` says what `nchildren` counts (`Owed`: the subtasks that have not counted
themselves off; `Own`: the task's own function), and that a subtask that has
is `Deallocatable`. `CompleteInv` says that at most one thread completes an item,
and that none does before the count is zero. `LifeInv` is what a status and
a father say of the places. For `wait_for_all` the lemma `Quiet` says that when
no thread is busy and nothing is enqueued, all has finished: otherwise the
oldest task that has not begun would wait for one that is older (`ListInv`), and so
has run, has no subtasks, since it has arguments, and must have released it.

For the programs of two levels in which the argument lists that tasks may have are
`Separate`:

* `ExecutionInOrder`: `StartsInOrder` always holds.
* `TaskGraphImplemented`: `Spec => ImplementsTaskGraph`, step by step: `Push` is
  `Spawn` of the abstract specification, `Start` and `EndBody` are `Start` and
  `EndBody`, `MarkDone` is `Finish` of the item that the thread is at, `WaitForAll` is
  `WaitForAll`, and all the other steps change nothing that `TaskGraph` sees.
* `FreeOfRaces`: two functions that run at the same time, neither of them the
  father of the other, were declared with arguments that do not conflict. It is
  `RaceFreedom`, carried over.

`Separate` says of each list that its regions are apart from each other, one
per address, except for the sections of an array (`Tidy`), which are then all read or
all written (`Uniform`); and of two lists that regions that meet are sections of the
same array, of as many dimensions, or scalars one of which is written or that are
the same object (`Alike`). Without it the theorems are false: `arglist_fields`
has two reads of which one covers more than the other, and an array passed
both as read and as written may lose a comparison at line 146, which asks for
`wr` of the first section at that address while another may be the one that covers.
Programs whose tasks pass whole objects, or sections of arrays with one kind of
access, are Separate; those of the flat and the nested run are, which TLC has
evaluated.

The argument is `OrderInv`. A task that has gone past a conflicting item is linked
behind it, or the item has finished, or the task is linked behind an item that
itself follows the conflicting one (`Held`); and if it has not gone past it
yet, the conflict is still among the arguments it compares (`argv`). The third case
is what makes it right to drop a covered argument. It is kept when the item in
the middle releases the task, since by then what that one followed has finished.
`WalkFinds` (`ArgInfoProofs`) is what makes the walk past an item safe: for tidy and
alike lists, the single pass meets a conflicting pair if there is one.
`RemovalKeeps` is for the dropped argument: what conflicts with it conflicts with
the item that covers it, if the list of that item is uniform. Both are theorems about all lists, proved by induction
over the places of the walk. The invariant `OInv` has been checked by TLC in the
flat and the nested program before it was proved.

For any arguments that calls may have, `ArgListProofs` proves of the lists that
`fill_args` builds from them:

* `ListTypes`, `ListsInOrder` and `ListsFitArgv`: `TypeOK`, `ListSorted` and `ArgvFits`
  always hold. They need no assumption about the arguments.
* `NoAccessLost`, `RemovalLosesNothing` and `ContainedInAncestor`: so do
  `AccessPreserved`, `RemovalSound` and `ContainedSound`, if the arguments are `Apart`.
* `ScanIsExact`: so does `AlignedScanComplete`, if they are `Filled` too.

`Apart` says that no region of an array overlaps one of anything else, and that
the sections of an array have the same rank, as line 417 of `depspawn.cpp`
asserts: two sections with as many elements but other ranks have no elements
in common to compare. `Filled` says that sections have elements; one that has none
conflicts with nothing, but `overlap_array` may answer that it does. Each is
used only where it is named. TLC evaluates both for the arguments of its run.

The argument. A call puts a region in its place, or finds one at the same
address and solves the overlap, from which at most one region remains for the
next call. That one begins after the region where the call ended, so that the
n-th call ends at the n-th region or later, and there are no more calls than
regions, and one (`Calls`, `InsertCalls`). Only the last of them makes the list
longer: this is why `argv` is long enough, although `solve_overlap` splits.
`Solved` has the six cases of the overlap, what they leave and what they cover, and
`CallStep` that one call keeps order and cells together with what remains
(`CallFits`). A piece of a region is no actual argument, so what `Apart`
says is carried on by `Fits`: a part of a scalar argument overlaps no array argument.
For `AlignedScanComplete`, `Aligned` makes the lists tidy and alike, and then it is
`WalkFinds` in one direction and the soundness of a pair's conflict in the other.

For every number of threads, any program and queues of any size:

* `TaskPoolProofs!PoolTypes` and `WaitSeesQuiescence`: `TypeOK`, with the bound of
  the queues, and `WaitIsQuiescent` always hold.
* `TaskPoolProofs!PoolIsBag`: `Spec => ImplementsTaskBag`. `BagInv` says that each
  task enqueued so far is done or in one position of one queue or stack, and
  that one not enqueued yet is nowhere.

`wait` looks at one queue, then at the other, then at `busy_threads_`, and nothing
keeps tasks from being enqueued meanwhile. `CountInv` says whom `busy_threads_`
counts. `WatchInv` says what has become of a queue found empty: whatever is in it
now was put there by a thread that looks into that queue again before it says
that it is out of work (`Eager` for the queue of high priority, which is looked at
first, `Willing` for either). With `busy_threads_` at zero there is no such
thread, so both queues are empty still.

For every number of threads, and any sequence of `resize`, `launch_theads` and `wait`:

* `ThreadPoolProofs!ThreadPoolTypes`, `CalledOnce` and `LaunchComplete`: `TypeOK`,
  `OnceEach` and `WaitIsComplete` always hold. `TypeOK` says of `count_` that it is the
  number of threads that have taken a number and not given it back (`Numbered`).

`OwnerInv` says what a wait that has returned has seen: `ready_` is not set and, as
`count_` is exact, nobody has a number. `CallInv` says that while `ready_` is set none of them gives
it back, which is what keeps a thread from taking part twice. `TakersInv` says how
many of them are in use: the numbers below `nthreads_in_use_` go out first, so
that at the end of a launch exactly that many threads have run the function.

For every memory, number of threads, of tags and of blocks in a chunk:

* `FreeListProofs!FreeListIntact` and `HandedOutOnce`: `ListIsFree` and `OneOwner`
  always hold.
* `FreeListProofs!PoolIsStack`: `Spec => ImplementsBlockStack`.

The argument is `ViewInv`: the tag of the head is that of `ret` plus `gap`, up to a
wrap, so that by `Timely` an exchange can succeed only with `gap` at zero. Then
`nxt` is still the `next` of that block, since whoever writes to `next` writes
to a block in its hands (`OwnInv`), and the block at the head is in nobody's.
`Chained` says that a list being given back is linked down to its last block,
whose `next` is then the head. `PopStep` and `PushStep` are the two steps that
change the list. For `PoolIsStack`, `MutexInv` adds who gives back a chunk and who
what it had in use; `PopTakes` and `PushGives` are the two steps again, and all
others leave the stack alone.

Assumptions: those of `Worklist` on its constants (a finite set of tasks, `Nil`
not one of them, the types of `Body` and `Uses`), which TLC evaluates in its
runs, and `TwoLevel`, `Separate` and `Flat` where they are named; those of `ArgList`
(arguments are regions, none of no size, and a call has a bound on them), and `Apart` and `Filled`
where they are named; those of `TaskPool`,
`ThreadPool` and `FreeList` on theirs (`Thread` is finite, queues, chunks and lists
have a size, `Nil` and `Main` are none of the others, and no task is enqueued by
two or twice by the same one, as `enqueue` builds a `Task` each time it is called);
and `Timely`, a guard of `FreeList`.

## 5. What is only model-checked

Liveness (`EveryTaskFinishes`, `EveryTaskRuns`, `WaitEnds`, `LaunchEnds`,
`CallsReturn`, `EraserEnds`, `WaitsEnd`) depends on fairness, which is out of the
prover's reach, as is `ENABLED`.

The properties of `Reclaim` and `Observer` are checked on the instances above. Of
`SafeWalks` and `EraserFindsHint` there are programs of two levels where they
are false (section 6); they are proved, with `InsertionSafe`, where no task has subtasks,
and so is `ImplementsTaskGraph` where the argument lists are `Separate` too.
So is `ObserverWaits`, for the observers of the main thread. With subtasks all five are
only checked. Types and `FreedUnlinked` are proved for every program.

Every safety property that the passing runs check of `ArgList`, `Worklist`,
`TaskPool`, `ThreadPool` and `FreeList` is proved, those of `Worklist` for programs of
two levels; with more levels they are only checked (`worklist_deep`).

## 6. Findings

Five runs show a promise of the documentation, or of a comment, that the code
does not keep.

* `arglist_fields` (`workitem.cpp` 115, 171): the merge walk advances the list
  with the smaller address after each pair that does not conflict. An older task
  that reads bytes 0-1 and writes 2-3 and a newer one that reads 0-3 are compared
  as (0-1, 0-3), where there is no conflict as both read, the addresses are
  equal, and the only region of the newer task is left behind before the written
  one is reached. `doc/main.dox` 246 promises that it waits.
* `worklist_order` (146): an argument covered by a write of the first conflicting
  item is not compared with older ones. If that item is a subtask of an older
  task that conflicts too, the new task starts while that one is unfinished.
* `worklist_wait` (119): a subtask waits for whatever is older in the list, which
  may be a task spawned after its father that waits for the father. Both wait
  for ever, the pool is idle, and `wait_for_all` returns.
* `worklist_post_twice` (274): the wait for items that may still link themselves
  ends at the subtask that finished last, also when the item whose list is
  released next is its father, which is older. A task between the two that is
  still `Filling` is released, posted, and posted again by its own insertion.
* `observer_limit` (264, `depspawn.cpp` 677-696): a finishing thread sees
  `ObserversAtWork` at zero, an observer is counted, finds no eraser and starts its
  walk, and then the thread claims `eraser_assigned` all the same. It unlinks the
  finished task that is the observer's `limit_`. The comment in the destructor
  says that this item cannot have been deallocated; the walk passes the place
  where it was and uses the null pointer at the end of the list.

Other problems, shown by configurations beside the runs:

* `ObserverRace.cfg` (`NoEraserMeanwhile`): the same race, at its first step. "Disable
  future attempts to erase" (`depspawn.cpp` 677) leaves out an attempt that is
  between its test and its exchange.
* `ReclaimHint.cfg` (`EraserFindsHint`, 381): the hint of the eraser is `Deallocatable`
  by the time it erases, and is unlinked by it. The loop that looks for it
  ends early if it meets an item without flags, but when the newest items
  have `PendingFills` it gets to the null pointer. It takes two threads that
  insert and a subtask that finishes as the eraser.
* `ReclaimWalk.cfg` (`SafeWalks`, 344): the eraser waits for the items that are `Done`
  when it passes them. One that is `Running` then and `Done` right after has a thread
  that waits in the list (274), from a hint onwards, and may be at an item that
  the eraser gives back.
* `ReclaimMyself.cfg` (`NotMyself`, 381): the eraser waits for the items that are
  `Filling` from the newest one down to its hint, the newest when its own task
  finished. An item that another thread inserted before that is older, and may be
  `Filling` still: its scan may be at a finished item that is unlinked and given
  back meanwhile. When the next spawn gets that block, the scan goes on from the
  new item, through the whole list, and meets the item it is for. That `p == this`
  "shouldn't" happen is what the comment at line 94 says, above the test that
  passes over it.
* `ObserverHelps.cfg` (`HelpReturns`, `depspawn.cpp` 132): a thread that waits for its
  subtasks runs the oldest task of the pool on top, whatever it is. If that one
  waits for a subtask that depends on the function beneath, neither goes on.
  With priority, `depspawn.h` 654 says, "the thread will only execute subtasks it
  depends on".
* `WorklistBetween.cfg` (`StartsInOrder`, 101): the search for dependencies of t4,
  whose arguments lie within those of its grandfather t1, ends at its father t3.
  Its uncle t2, which t1 spawned before t3 and which writes what t4 writes, lies
  between the two in the list and is never looked at: they run at the same time.
* `ArgListRepeat.cfg` (`ArgvFilled`, 58-64): if a region is passed twice the list is
  shorter than the number of arguments. `argv` is an array on the stack; the
  entries from the end of the list to the null pointer at its own end are not
  assigned, and the comparison (172) reads them as arguments.

Seen by reading: `for_range` (`depspawn.h` 750, 774, 776) goes on while `i < r.last()`,
so that the last element, if it is alone in its chunk, is left out.

## 7. Plan

Done: `ArgInfo`, `ArgList`, `TaskGraph`, `Worklist`, `Reclaim`, `Observer`, `TaskPool`,
`ThreadPool`, `FreeList`; the proofs of section 4. In this order, what is left:

1. Proofs: `ObserverWaits` for tasks that have subtasks, whose observers find the
   fathers on the way.
2. Smaller: the entries of `argv` that are not assigned, as a choice over what
   they may hold; a finishing thread that runs another task on top.

## 8. Not modelled

* A thread that runs another task on top of an insertion or a release, because the
  queue is full or for `DEPSPAWN_FAST_START`. `TaskPool` has the full queue, with
  tasks that are opaque; `Worklist` and `Reclaim` have each task go on by itself.
  What this hides is a wait for something beneath on the same stack: the
  eraser, for instance, waits for the items that are `Done` (392), and one of them
  may be its own thread's, further down. A run with both needs the stacks of
  `TaskPool` beside the places of `Reclaim`.
* Several waits of one function, one after the other or nested.
* `for_range`: arithmetic on a Blitz++ range in one thread.
* `try_enqueue`, and tasks enqueued while the threads of a `TaskPool` are stopped.
* In `LinkedListPool`, the vector of chunks, which is only read when the pool is
  destroyed, and the construction of objects. `DummyLinkedListPool` and
  `PoolAllocator` only forward to the allocator.
* The TBB build (`DEPSPAWN_USE_TBB`: `runner`, `steal`, `run_in_env`, `guard_`):
  an alternative to the default one.
* `ParameterTypes` and the reference wrappers: they derive at compile time which
  parameters are read, written or ignored, and have no state. `wr` is what
  comes out of them.
* Settings, environment variables and profiling counters: no protocol.
* Blitz++ and Boost (vendored), the benchmarks and the tests. The tests were
  read as statements of what the library promises.

## 9. Running

    tlc -workers 2 -config WorklistFlat.cfg MCWorklist
    tlc -workers 2 -config ArgList.cfg MCArgList
    tlc -workers 2 -config TaskPool.cfg MCTaskPool
    tlc -workers 2 -config ThreadPool.cfg ThreadPool
    tlc -workers 2 -config FreeList.cfg MCFreeList
    tlc -workers 2 -config WorklistNested.cfg MCReclaim
    tlc -workers 2 -config WorklistDeep.cfg MCObserver
    tlapm WorklistProofs.tla
    tlapm ReclaimProofs.tla
    tlapm ArgListProofs.tla

The configurations beside the runs: `ReclaimFamily`, `ReclaimHint`, `ReclaimWalk` and `ReclaimMyself`
with `MCReclaim`; `WorklistBetween` with `MCWorklist`; `ObserverMain`, `ObserverRace` and `ObserverHelps` with `MCObserver`;
`ArgListRepeat` with `MCArgList`. Each passing run takes up to three minutes; the proofs take a few minutes from
nothing.
