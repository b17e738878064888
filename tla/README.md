# A TLA+ development of em-bindgen

em-bindgen is a Rust library of bindings to the Emscripten runtime: futures and
tasks on the browser's event loop, closures sent to other threads, main loops,
`fetch`, JavaScript values, file dialogs.  Most of it is glue, and the glue is
where the difficulty lies: raw pointers to boxed closures and senders travel
through C, JavaScript and other threads, and each has to come back exactly once.
This directory holds models of the parts that keep state, TLC instances that
check them, and TLAPS proofs.

Paths are those of the repository, with `src/` for its root: `src/src/future.rs`
is the crate's `future` module and `src/fetch.cpp` the C++ that is linked to it.

## 1. Inventory

### What everything runs on

The crate is built with `-sASYNCIFY -pthread` (`.cargo/config.toml`).  Every
thread has an event loop.  Rust code on a thread is serialised by that loop:
proxied closures, timers and callbacks of JavaScript only run when no Rust frame
is executing, with one exception: a frame that *suspends* (Asyncify unwinds it
until a promise is fulfilled) lets the loop run other things while it is still on
the stack.  Real parallelism comes from the other threads: a waker, or a sender of
a one-shot channel, may be called from any of them.

### Components

| component | state | operations | talks to |
|---|---|---|---|
| `future::block_on`, `event`, `Event`, `Promise` (`future.rs` 39-88, 260-426) | the thread-local `CURRENT_EVENT`, a chain of JavaScript promises, one queue per call | `block_on`, its waker, `fulfill`, `from_raw`, drop | `proxying::Queue`, JavaScript promises |
| `future::spawn_local` (`future.rs` 91-225) | `LocalPool`, backlog, `is_running`, a queue | `spawn`, `enqueue`, `poll`, a task's waker | `proxying::Queue`, `block_on` inside a task |
| `future::sleep`, `JoinHandle` (33-37, 227-258) | a flag, a one-shot channel | await; `abort` is `todo!()` | `set_timeout`, the runtime |
| `proxying::Queue`, `Context` (`proxying.rs`) | the boxes and `Arc`s behind the pointers given to emscripten | `proxy`, `proxy_local`, `proxy_blocking`, `proxy_blocking_with_ctx`, `proxy_callback`, `proxy_callback_with_ctx`, `execute`, drop of a `Context` | emscripten's proxying queues |
| main loops (`lib.rs` 84-415) | `CONTINUE_MAIN_LOOP`, `FiniteMainLoop` in the caller's frame, emscripten's loop function | `set_finite_main_loop`, `set_async_main_loop`, `set_infinite_main_loop`, `set_main_loop_timing`, `cancel_main_loop`, `push_main_loop_blocker` | frames of the browser, `Promise::block_on` |
| `fetch` (`fetch.rs`, `fetch.cpp`) | a boxed sender behind `user_data`, the chain of channels of a streamed body, the `Cursor` of a reader | `send`, `bytes`, `text`, `chunks`, `poll_next`, `read`, `fill_buf`, `consume` | the browser's `fetch`, one-shot channels of `utils_atomics` |
| `sync::Mutex` (`sync/mutex.rs`, commented out of `lib.rs` 44-46) | a flag, a queue of waiters behind a spin lock | `lock`, `try_lock`, `unlock` | `block_on` |
| `value::JsValue` (`value.rs`) | reference counts in emscripten's table of handles | clone, drop, `take_ownership`, `into_handle` | emval |
| `utils::file_dialog` (`file_dialog.rs`, `file_dialog.cpp`) | a `File` shared with JavaScript, a boxed sender | `load_file`, `save_file` | a dialog element on the main thread |
| `chrono`, `console`, `html`, `wget`, `whoami`, `socket`, macros, `build.rs` | none that changes over time, or unfinished | conversions, logging, registration, code generation | the browser |

### What is hard, and what makes each part correct

* **block_on.**  Wakes come from any thread, any number of times, early and late;
  calls nest in polls and in callbacks, and they all share one `CURRENT_EVENT`.
  Correct: no wake is lost, a call that can be woken returns when its future is
  ready, promises are not leaked without reason.
* **spawn_local.**  Spawns happen inside polls, polls suspend the thread, wakes
  interleave with the end of a poll.  Correct: `is_running` is exact, the pool's
  `RefCell` is never borrowed twice, a ready task has a poll coming.
* **proxying.**  A call may be refused, cancelled by the exit of a thread,
  answered after its origin has gone, or finished by a `Context` before its closure
  returned.  Correct: the memory behind the pointer outlives its last user and is
  freed once; a closure that borrows does not outlive the borrow; callers that wait
  come back.
* **main loops.**  One flag stops all loops; cancels and panics race frames.
  Correct: no frame uses the `FiniteMainLoop` after its caller may have freed it, and
  a loop ends only when it was cancelled or panicked.
* **sync::Mutex.**  A thread finds the mutex taken, and the unlock it should wait for
  comes before its flag is in the queue; woken threads race those that come along.
  Correct: one guard at a time, one thread in the queue at a time, every waiter woken.
* **file dialogs.**  Two events and an asynchronous read or write race for one answer,
  and C, JavaScript and Rust each allocate a part of it.  Correct: the first event
  decides, the answer says what happened to the file, nothing stays allocated.
* **durations and dates.**  Rust's wide numbers go through `c_int`, `c_uint` and
  JavaScript's own ideas of a delay and of a year.
* **fetch.**  The sender behind `user_data` is used, replaced or freed by callbacks
  while a consumer on another thread moves along the chain; futures are dropped in
  the middle.  Correct: the consumer sees the body, in order and once, then its end.

`PROJECT.json` lists each hazard at its line, also the few that no property covers.

## 2. Modules

| module | models | what its actions are |
|---|---|---|
| `BlockOn` | `block_on`, its waker, `CURRENT_EVENT`, `Event`, `Promise` | `BlockOn` the call; `PollPending`, `PollReady` a poll and its `match`; `Resume` the return of `promise.block_on()`; `Wake`, `RunWake` the two halves of `wake_by_ref`; `Fire`, `SpuriousWake` the outside world |
| `Parker` | what one call promises | abstract: a parked thread with permits |
| `LocalRuntime` | `Runtime`, `Pool`, `Task` | `Spawn` (with `Pool::push` and `enqueue`), `RunEnqueue`, `RunPoll`, `StartTask`, `EndPending`, `EndReady`, `Suspend`, `Resume`, `Stall`, `FinishPoll` for one poll of the pool; `WakeParent`, `WakeProxy` the two halves of a wake |
| `Proxying` | `Queue`, `Context` | `Accept`, `Refuse`, `RunInline` a call; `Run`, `Return`, `Finish` the closure and its `Context`; `AnswerOrigin`, `Unblock` the answer; `Exit` of a thread |
| `MainLoop` | finite, asynchronous and infinite main loops, blockers | `StartFinite`, `SkipFrame`, `RunFrame`, `ReturnFinite`, `Cancel`, `StartAsync`, `TickAsync`, `SetTiming`, `PushBlocker`, `RunBlocker` |
| `RawMutex` | `RawMutex`, `Waiters`, `Mutex`, the drop of `MutexGuard` | `TryLock`, `Lock` the calls; `Acquire`, `FindLocked`, `StartPush`, `Push`, `Wake` the loop of `lock`, one atomic access each; `Unlock`, `StartPop`, `PopNone`, `Pop`, `Mark` the steps of `unlock` |
| `Mutex` | what a lock promises | abstract: who is inside; both the mutex and its spin lock implement it |
| `LoadDialog` | `load_file`, `LoadFile`, drop of a `FileHandle` | `Start`, `Refuse` the call; `Change`, `CloseEvent` the two listeners, each with what the `async` function does up to its next `await`; `ReadFile`, `ReadFails` the `then` and the `catch`; `Receive`, `DropFuture`, `DropHandle`; `Dismiss` the user |
| `SaveDialog` | `save_file`, `SaveFile` | `Refuse`, `Download`, `ShowDialog` the three ways a call begins (a `Refuse` is also what an exception before `showModal` comes to); `Pick`, `Create`, `Write`, `CloseFile`, `Abort`, `Fail` the awaits of the button's listener; `CloseEvent`; `Click`, `Dismiss` the user |
| `Conversions` | `sleep`, `set_timeout`, the years of `chrono` | `Sleep`, `SleepOn`, `SetTimeout`, `LocalOffset`: what is asked, what is handed over, what JavaScript makes of it |
| `FetchRequest` | `Builder::send`, `bytes`, `text`, `SendRequest`, `GetResponseBytes`, the `JsValue` in `ResponseBody` | `Send`, `Bytes`, `Chunks` the first polls; `OnResponse`, `OnRequestError`, `OnBytes` the `then` and the `catch`, each with the callback it makes; `PollSend`, `PollBytes` the returns; `TimerFires`; `Drop` at any await |
| `FetchChunks` | `ResponseBody::chunks`, `GetResponseChunks`, `poll_next` | `GetReader`, `ReadChunk`, `ReadDone`, `ReadFails` of the browser's reader with the callback it makes; `PollChunk`, `PollError`, `PollEnd`, `PollPending` one poll; `Drop` |
| `ByteStream` | what a streamed body promises | abstract: chunks given, chunks yielded, the end |
| `ResponseReader` | `read`, `fill_buf`, `consume` | `Read`, `Copy`, `ReadFull`, `Spin` the loop of `read`; `FillBuf`, `Consume`; `NextIsReady`, `NextFails` the stream's answer; `DropFuture` |
| `BlockOnProofs`, `LocalRuntimeProofs`, `ProxyingProofs`, `LibProofs`, `FetchRequestProofs`, `FetchChunksProofs`, `RawMutexProofs` | | theorems about the modules they extend |
| `FileDialog` | `load_file` and `save_file` side by side | `Loading`, `Saving`: a step of one while the other stands still |
| `FileDialogProofs` | | theorems about `FileDialog`, and through it about its two parts |

An `MC` module extends each model for TLC.  A definition that stands right before
another with the same parameters is a faulty variant of it (an omitted reset, a
swapped order): the models do not use it, it shows which mistake a property catches.
`PROJECT.json` pairs every property with one.

### Abstractions

* *Promises* are numbered in the order of creation; the value of one is the number
  of the next or `Pending`.  What `Promise<T>` carries is always an `Event`.
* *A future* is the number of outside events it waits for; polling it stores a
  waker until the next event, as the futures of `utils_atomics` and `sleep` do.
  *Spurious wakes* are wakes without an event, from clones of the waker.
* *Payloads* (chunks, closures, results, panics) are numbers, model values, or left
  out.  A chunk of `FetchChunks` is its position in the body, which is what order and
  loss can be told from; a chunk of `ResponseReader` is its length.
* *External code* appears as the code uses it: emscripten's queue (per-target, run by
  the event loop or `execute`, cancelled at a thread's exit), `LocalPool`, the
  one-shot channels, the browser's frames.
* *Time* is only whether an `AbortSignal` has fired; the length of a timeout matters
  where it is converted, so `FetchRequest` has the division and the two limits, with
  small numbers in their place (half a millisecond is the unit, 4 is `u64::MAX`, 2 the
  longest delay).
* *Wakes* of a one-shot channel are modelled in `FetchChunks`; `FetchRequest` polls
  when there is something in the channel.
* A request that fails gives Rust a null pointer to make a slice of, which is undefined;
  `FetchRequest` is about builds that do not check it.
* *Memory orders* are sequentially consistent in `RawMutex`; each access to an atomic is a
  step.  `block_on` and the flag it waits for are `Parker`'s promise there: it returns
  once the flag is marked.  What that takes is `BlockOn`'s subject.
* *Memory* in `LoadDialog` is the set of allocations made for a request: `File`, its
  name, its contents.  The channel's own memory is that of `utils_atomics`.
* *The file* of `SaveDialog` is the number of the call whose contents it holds; all calls
  choose the same file, since others do not meet.
* *Integers* of `Conversions` keep their limits under a small name: `IntMax` stands for
  `c_int::MAX` and `2 * IntMax + 1` for `c_uint::MAX`.
* Not modelled inside the components: allocation failure, logging, failing `assert!`s
  on the results of `proxy` (they are faulty variants in `LocalRuntime`), and the four
  copies of the loop body in `set_finite_main_loop`, which differ in how the browser
  is asked for the next call and are one action here.
* Asyncify as it is built aborts when a second frame suspends while one is suspended;
  `BlockOn` therefore lets a callback only drive a future that is ready at once.
  Calls nested in polls may suspend.

## 3. Runs

Bounds are constants of the `.cfg` files.

| run | instance | shows |
|---|---|---|
| `block_on_single` | 2 futures, 2 events each, 3 spurious wakes, no nesting | `ImplementsParker`: one call at a time is a parker; every delivered wake costs one poll and none is lost, with its liveness. `LeakBound`: promises are left behind only by spurious wakes, fewer than there were |
| `block_on_nested` | 3 futures, depth 3 | `ChainReachesCurrent`: wakes reach a call exactly as long as no later one was begun on its thread. `NoLostWake`: such a call never sleeps through an event. `ReturnsUnlessOvertaken` |
| `local_runtime` | 2 tasks, 1 event each, 2 suspensions, 2 spurious wakes | `OnePoll`, `NoForgottenTask`, `NoLostWake`; `PooledIsPolled` and `WokenIsPolled`, for behaviours in which suspensions end |
| `main_loop` | intervals up to 3, two timings, 2 blockers | `EveryNthFrame`, `FramesWhileAlive`, `EndsForAReason`, `TimingSetOnce`, `CancelledReturns` |
| `proxying_safety` | 2 threads, 3 calls, all operations, symmetric | `AliveWhileUsed`, `LeaksOnlyUnrun`, `BorrowsCovered` |
| `proxying_live` | 3 threads, 2 calls without `Context` | `BlockedReturns`, `IsAnswered` |
| `fetch_request` | 2 requests, 2 handles, timeouts of none, half, one and too many milliseconds | `BoxPerPromise`: JavaScript holds a box exactly while its promise is pending. `HandlesOwned`: a handle has one owner, who finds its own response behind it, also after it was freed and used again. `TimeoutEndsIt`: a millisecond or more bounds each wait |
| `fetch_chunks` | bodies of up to 4 chunks | `ImplementsStream`: the chain implements `ByteStream`; `SenderIsLast`; `ChunksArrive`, `EndArrives` |
| `response_reader` | every body of up to 3 chunks of up to 2 bytes, reads of up to 5 | `BytesInOrder`, `SpinsAtTheEdges`, `EmptyMeansEnd`. `ReadReturns`: without the stream when something of the chunk stays in the buffer, else if the stream answers |
| `raw_mutex` | 3 threads | `BothExclude`: the mutex and the spin lock of its queue implement `Mutex`. `StrandedOnlyIfMissed`: a waiter that nobody will wake missed an unlock before it was queued. `QueuedIsWoken`: the others are woken |
| `file_dialog` | 1 request to load, 2 calls to save, at the same time | `LeaksAreKnown`: what is allocated when a request is over. `FirstEventDecides` between change and close. `AnswerTells`: what true and false say about the file. `CallReturns`, whatever fails |
| `conversions` | `c_int::MAX` = 15, durations of up to four pieces of `sleep`, years -1150 to 550 | `JsGetsWhatWasAsked` |

Type invariants that are proved are not run again, except that of `response_reader`.

Why the bounds are enough to be interesting: three futures make a call that is
overtaken twice and one that overtakes an overtaken call; two tasks, one spawned in
a poll of the other, fill the backlog of a borrowed pool; suspensions keep the pool
borrowed while closures run; an interval of three skips two
frames in a row; three calls overlap in pairs on both threads, and with three threads
a chain of waits passes through a third; two handles for two
requests make one take the handle the other freed; four chunks let the reader be three links
ahead of its consumer; chunks of zero, one and two bytes make a read end in the
middle, at the end and beyond a chunk, and `consume` is given more than there is; with three threads one is woken, finds that
another was faster and queues behind a third; of two calls of `save_file` the first can leave
its listener at work behind a dismissed dialog while the second writes; three cycles
of 400 years below 100 and every remainder modulo 400 are among the years.  What holds beyond the bounds is said by the
theorems.

Deadlock checking is off where the system may come to rest (all tasks done, a body
read, a dialog closed); it is on for the main loop, the mutex and the conversions.

### Fairness

Only what the program and its runtime do by themselves is fair: a frame that runs
goes on, a waker that was called proxies its closure, an event loop runs what was
posted to it, a thread that is not blocked serves its queue, the browser draws
frames, a timer runs out, a promise whose signal has fired is settled, a thread inside `lock` or `unlock` takes its
next step when it can, a queued event of a dialog is fired, and a read, a picker or a file
that is being written settles, well or not.  Nothing outside is: no guard has to be
dropped (`QueuedIsWoken` has `GuardsDropped` as its premise), no button has to be clicked
and no dialog closed, no event has to fire, no call has to be made, no
`Context` has to be dropped, no suspension has to end, the network may stop.  Where a
property needs one of these it says so: the liveness of `LocalRuntime` has
`SuspensionsEnd` as a premise, that of `Proxying` excepts threads that wait for each
other and leaves `Context`s out, and `ReadReturns` has `StreamAnswers` as the premise of
its second part: each wait of `read` for a chunk ends.  Its first part needs nothing of the
stream.

### What the models say of the code

These are consequences of the code as it is written that the properties state, or
carve out; no document of the repository promises otherwise.

* A call of `block_on` that is nested in the poll of another takes the outer call's
  event away for good (`future.rs` 79): the outer call then sleeps for ever.
  `ReturnsUnlessOvertaken` has this as its exception.
* Spurious wakes leave promises behind that are never freed (`LeakBound`).
* A task spawned while the pool is polled is moved to the pool after `is_running` was
  cleared, and no poll is posted for it (`future.rs` 209-216): it starts when somebody
  else spawns or wakes.  `NoForgottenTask` excepts exactly these tasks.
* `emscripten_proxy_sync` returns 1 for success; `proxy_blocking` (`proxying.rs` 101)
  tests for 0, so that it returns `None` for every closure that ran on another thread.
  `SyncResult` models it as written.
* Closures that are cancelled before they ran are leaked by `proxy`,
  `proxy_blocking_with_ctx` and `proxy_callback_with_ctx` (`LeaksOnlyUnrun`), and
  `proxy_blocking_with_ctx` leaks a refused one.
* The closure of `proxy_blocking_with_ctx` can drop its `Context` and go on while its
  caller has returned; `BorrowsCovered` is stated for `proxy_blocking` alone.
* `ResponseReader::read` turns in a loop without awaiting when it has no buffer: before
  the first chunk, or when the body ends before the slice is full (`SpinsAtTheEdges`).
* A `read` that takes the last byte of a chunk awaits the next chunk before it returns, also
  when its slice is full (`fetch.rs` 284-285): while the network stands still it keeps back
  bytes that are already in the slice (`ReadReturns`).
* The bytes `read` has copied are lost when the next chunk is an error or the future is
  dropped.
* A chunk without bytes makes `fill_buf` return an empty slice in the middle of a body
  (`EmptyMeansEnd` has it as its exception).
* A timeout below a millisecond becomes 0 and so no timeout; one beyond what
  `AbortSignal.timeout` takes throws through the caller and leaks the box
  (`fetch.rs` 102, `fetch.cpp` 29; `TimeoutEndsIt` and `BoxPerPromise` except them).
* A thread that failed `try_lock` and has not pushed its flag is passed over by an unlock
  that finds the queue empty (`mutex.rs` 92-94, 101): it sleeps while the mutex is free,
  until somebody else locks and unlocks.  `StrandedOnlyIfMissed` says that this is the
  only way to be stranded, and `QueuedIsWoken` excepts it.
* A file that cannot be read leaves its `File` and its name allocated, as `free` gets the
  null pointer (`file_dialog.cpp` 76, 185) and nothing uses `PendingFile`; a future of
  `load_file` dropped while the dialog is open leaves the name and the contents, which
  have no drop in the channel; an empty file leaves the block of `memalloc(0)`
  (`LeaksAreKnown`).
* `save_file` returns false though the contents are written if the user closes the dialog
  while its listener is at work; a later call may then be overwritten by an earlier one
  (`AnswerTells`).  The types built in Rust never reach the picker (`file_dialog.cpp` 96).
* `sleep` takes pieces of `c_uint::MAX` milliseconds, which JavaScript sees as -1 and does
  not wait for (`lib.rs` 439); a rest above `c_int::MAX` is not waited for either.
  `set_timeout`, and with it `future::sleep`, waits for `c_int::MAX` milliseconds when
  asked for more.  `JsGetsWhatWasAsked` says what is left: nobody waits longer than asked.
* A request whose future is dropped goes on; its response is freed when it comes.
* A response without a body makes `getReader` throw outside the `try` (`fetch.cpp` 123);
  the consumer waits for ever.  `EndArrives` says nothing of it.

## 4. Proofs

All proofs are checked by TLAPS for every value of the constants, from the named
assumptions of the modules (bounds and lengths are natural numbers, swap intervals start
at 1, `NoCall` is not a call, `Kinds` are the five operations).  Two theorems add an
assumption of their own: what is said of calls that are not nested has `MaxDepth = 1`, and
`OnlyCirclesStop` has finitely many threads.  Each proof has the form *initially,
preserved, implies*.

Every invariant and action property that a run checks is a theorem:

| module | theorem | property |
|---|---|---|
| `BlockOnProofs` | `TypeCorrect`, `OnlyTheLatestIsReached`, `NoWakeIsLost`, `OneCallIsAParker`, `LeaksAreFew` | `TypeOK`, `ChainReachesCurrent`, `NoLostWake`, the safety part of `ImplementsParker`, `LeakBound` |
| `LocalRuntimeProofs` | `TypeCorrect`, `IsRunningIsExact`, `NoTaskIsForgotten`, `NoWakeIsLost` | `TypeOK`, `OnePoll` with `NoDoubleBorrow`, `NoForgottenTask`, `NoLostWake` |
| `ProxyingProofs` | `TypeCorrect`, `NothingUsedAfterFree`, `OnlyUnrunCallsLeak`, `BorrowsAreCovered` | `TypeOK`, `AliveWhileUsed`, `LeaksOnlyUnrun`, `BorrowsCovered` |
| `LibProofs` | `TypeCorrect`, `RunsEveryNthFrame`, `FramesOnlyWhileAlive`, `TimingIsSetOnce`, `LoopEndsForAReason` of `MainLoop` | `TypeOK`, `EveryNthFrame`, `FramesWhileAlive`, `TimingSetOnce`, `EndsForAReason` |
| `LibProofs` | `NothingIsLostOnTheWay` of `Conversions` | `JsGetsWhatWasAsked` |
| `RawMutexProofs` | `TypeCorrect`, `BothLocksExclude`, `OnlyMissedAreStranded` | `TypeOK`, `BothExclude`, `StrandedOnlyIfMissed` |
| `FileDialogProofs` | `LoadTypeCorrect`, `OnlyKnownLeaks`, `SaveTypeCorrect`, `AnswersTellTheTruth` | `TypeOK` of both, `LeaksAreKnown`, `AnswerTells` |
| `FetchRequestProofs` | `HandlesAreOwned`, `BoxesArePaired`, `TypeCorrect` | `HandlesOwned`, `BoxPerPromise`, `TypeOK` |
| `FetchChunksProofs` | `ChainIsAStream`, `TheSenderIsTheLast`, `TypeCorrect` | `ImplementsStream`, `SenderIsLast`, `TypeOK` |
| `FetchChunksProofs` | `ReaderTypeCorrect`, `BytesComeInOrder`, `SpinsOnlyAtTheEdges`, `EmptyIsTheEnd` of `ResponseReader` | `ReaderTypeOK`, `BytesInOrder`, `SpinsAtTheEdges`, `EmptyMeansEnd` |

A liveness property fails for lack of fairness, or because the code loses, drops or puts
off what it needs.  The prover reaches the second.  A leads-to holds under weak fairness
when, as long as its premise holds and its goal does not, one of the fair actions can be
taken, each of these brings the goal nearer, and no other step sets it back.  The theorems
below state such facts, in places with a distance, the number of fair steps that are left
at most; that an action can be taken is stated by its guard.  Those of `BlockOn`,
`MainLoop`, `FileDialog` and `FetchRequest` have all three parts.  Those of
`LocalRuntime`, `Proxying`, `RawMutex` and `FetchChunks` say that what a waiter waits for
is kept, in order, where it will be found, and what brings it nearer; that the other
tasks and threads leave it a turn is only model-checked.

| theorem | of | what it says |
|---|---|---|
| `ReadyCallsReturn` | `ReturnsUnlessOvertaken` | the latest call, its future being ready, is polled, or may go on, or a wake for it is being made or queued; at most four steps are left, and nothing but a later call adds one |
| `PooledTasksComeUp` | `PooledIsPolled` | a task of the pool is ready until it is polled; `is_running` is only cleared when none is left unpolled; a posted poll moves up with each closure that is run and is run when it is the first |
| `NoTaskIsForgotten`, `NoWakeIsLost` | `WokenIsPolled` | a polled task that missed an event is ready or being woken; a ready one has a poll posted, or a wake that will post it |
| `NoCallIsForgotten` | `IsAnswered`, `BlockedReturns` | an accepted call is queued for, or held by, a thread that is alive; no step takes its caller further from the answer, which comes once |
| `OnlyCirclesStop` | `BlockedReturns` | threads that all wait, unanswered, wait in circles |
| `CancelledLoopEnds` | `CancelledReturns` | a waiting caller has a frame to come or its promise fulfilled; after a cancel each frame brings the end nearer and nothing undoes the cancel |
| `WaitersComeUpInTurn` | `QueuedIsWoken` | the flag of a sleeping thread is in one place; flags leave the queue in the order in which they came, and those that left it are marked; who is queued can not become stranded any more |
| `TheFirstEventStands` | `FirstEventDecides` | the first of change and close decides and is not overruled; a waiting future has a step ahead |
| `SomethingReturnsIt` | `CallReturns` | a call of `save_file` that has not returned has a step ahead, whatever fails |
| `TimeoutsReachTheCaller` | `TimeoutEndsIt` | a waiting caller has its answer in the channel or a promise pending; from one millisecond on the signal has fired or will, below it never does |
| `NothingIsSleptOn` | `ChunksArrive`, `EndArrives` | a sleeping consumer has yielded all that was delivered and is told, or registered where the next sender will find it |
| `ReadTakesFewTurns` | `ReadReturns` | at most two turns of `read` for each chunk that is left; that the stream answers stays its premise |

The inductive invariants and why they are needed:

* **BlockOn.**  That a wake reaches a call is a statement about walking the chain of
  promises, which no step can be judged by alone.  `ChainShape` says what the chain
  looks like: from the first promise of the latest call on, each promise was fulfilled
  with the next and only the newest is open; the promise before that one never will be,
  and overtaken calls stand before the gap.  `WakeUnderway` says that a sleeping call is
  registered with its future, or a wake is on its way; without it nothing would relate
  an event to the waker it calls.  For the refinement `MaxDepth` is 1, so that the call
  is the latest one (`Alone`), and a permit is a link of the chain between the promise
  it awaits and the newest (`PermitShape`): a wake adds a link, a return of `promise`
  takes one.  `LeakBound` compares two counts, and no wake can be charged with the promise
  it will leave behind when it is made.  `Budget` therefore counts all that a wake can
  become: wakes being made, queued, or held as registered wakers, permits, promises freed
  by a drop, and promises left behind are together no more than the spurious wakes and
  the one wake a suspended call waits for; each step moves one unit between them.  Wakes
  are counted as sets of tokens, so that the theorems on cardinality apply.  For the
  return of a ready call `StackShape` says that the calls on the stack were begun in its
  order, so that the latest active one is on top, where `Resume` needs it.
* **LocalRuntime.**  `OnePoll` counts the polls in the queue and is inductive with the
  types.  `NoForgottenTask` is not: between the moment the pool finds nothing to do and
  the moment `is_running` is cleared, another thread can make a task ready.
  `StalledIsWoken` says that then its wake is still running or has posted an `enqueue`;
  it holds because the event loop runs nothing in between.  `FreshInv`: an unpolled task
  of the pool is ready, and there is none left once the pool has stalled.
* **Proxying.**  The counts of owners are tied to the parties that are left: `RefsExact`
  says that the allocation of a call has one owner for a closure that has not returned
  and one for an answer that was not taken, as its operation distributes them.  From
  that sum both the absence of a use after a free and the list of leaks follow.
  `ServedInv` says where a call that is not answered is, and that this thread is alive.
* **MainLoop.**  `CancelIsAsked`: a flag found cleared in a frame, and an end without a
  panic, go back to a cancel made while this loop ran; the flag is one per thread, so that
  needs the reset at the start.  `TakenBeforeWanted`: nothing says which timing is wanted
  before the first call has taken the one it was given.  `FiniteServed`: while the
  caller waits there is a frame to come or the promise is fulfilled.
* **Conversions.**  `SleepShape`: pieces are only left of a duration that is longer than
  what JavaScript can wait for, so that handing over one more keeps the sum.  The divisions by an arbitrary limit are not linear, so that what the
  proof needs of quotients and remainders, and of calendars 400 years apart, is in
  lemmas of its own.
* **RawMutex.**  `LockShape`: a flag is set exactly while one thread is inside, for both
  locks; the refinements follow.  `FlagShape`: the flag of a sleeping thread is in one
  place, in the queue, in the hands of one thread that will mark it, or marked.  A waiter
  that is in the queue is then stranded by no unlock: whoever leaves the mutex finds the
  queue not empty.
* **LoadDialog.**  `Held` says what is allocated at each place of the `async` function, and
  `Follows` ties the channel and the future to that place; `LeaksAreKnown` is `Held` where
  the request is over.
* **SaveDialog.**  `CallShape` relates the answer of a call to its dialog and its listener;
  `DiskShape` says that what the file holds was written by some call, and that a call
  that returned true is overwritten by later calls or by one that returned false.
  Calls follow each other, and a listener that is still at work when its call has returned belongs to a dismissed dialog.
* **FetchRequest.**  A response is in the channel or with the caller, never in both;
  `CallShape` ties the channel of `send` to where its caller and its promise are, from
  which each drop releases the one handle that its caller owns (`HandleReleased`).
* **FetchChunks.**  `Chain`: the k-th channel carries the k-th chunk, the last is empty
  or holds the end.  `Reader`: the box holds the sender of the last channel, or is
  freed.  `Place`: the consumer has yielded exactly the chunks of the channels before
  the one it holds, and is registered nowhere but at an empty last channel.  The
  refinement maps the chunks given to what the channels but the last carry; the steps
  of the reader are then `Give` and `Close`, those of a poll `YieldChunk`, `YieldLast`
  and `YieldEnd`, all others stutter.
* **ResponseReader.**  `ReaderInv` says where the cursor may stand, that nothing is left
  in the buffer while the next chunk is awaited, and that what was read is the run of
  numbers up to the cursor; each copy prolongs that run.  A buffer that `fill_buf`
  keeps is not empty, hence `EmptyMeansEnd`.  For the types, `Room` says that the bytes
  of the chunks to come still have numbers below the bound of the body; it counts each
  chunk with the greatest length, so that no sum over a sequence is needed.

Only model-checked: the temporal properties as wholes (`ReturnsUnlessOvertaken`, the
liveness of `ImplementsParker`, `PooledIsPolled`, `WokenIsPolled`, `CancelledReturns`,
`BlockedReturns`, `IsAnswered`, `TimeoutEndsIt`, `ChunksArrive`, `EndArrives`,
`ReadReturns`, `QueuedIsWoken`, `FirstEventDecides`, `CallReturns`).  The prover reaches
neither fairness nor `ENABLED`, nor the induction over a distance that would join the
theorems of the second table to them.

## 5. Not modelled

* `JoinHandle` (`future.rs` 227-258): `abort` is `todo!()`, and `poll` hands on what a
  one-shot channel has.  A task that waits for another is, to `LocalRuntime`, one that
  waits for an outside event; that it is stuck behind a child in the backlog is what
  `NoForgottenTask` excepts.
* `JsValue` beyond what `fetch` does with it: clone, comparisons and conversions are calls
  into emscripten's table that no modelled part makes.
* `console`, `html`, `wget`, `whoami`, the macros and `build.rs`: no state of their own.
  `socket.rs` is unfinished and not compiled.
* Failing allocations, logging, and what Rust leaves undefined (a slice made from a null
  pointer when a request fails).
* The drop of a `Queue` (`proxying.rs` 259-264), and what it makes of closures that are
  still queued.  In `Proxying` a queue outlives its calls.  The runtime's queue goes with
  its thread.  That of `block_on` goes with the last waker of a call that has returned;
  `BlockOn` runs a closure that is queued at that moment as if the queue were still there.
  It could only be a late wake, which no call waits for.
* An exception in the `then` of `fetch` after it has called `onresponse` would reach the
  `catch` behind it, and a second call (`fetch.cpp` 69).  As the build is configured
  nothing that follows the call throws (under strict mode the undeclared `entry` of line 65
  would), and `OnRequestError` takes its promise for pending.
* In `RawMutex`, a thread that locks what it already holds: it sleeps for ever, like with
  any lock that is not reentrant.

## 6. What could come next

* Tasks of `LocalRuntime` that await each other's `JoinHandle`, with `LocalRuntime` as the
  scheduler: which joins come back although children start in the backlog.
* `RawMutex` over `BlockOn` in place of `Parker`'s promise, where two locks waited for on
  one thread overtake each other.
