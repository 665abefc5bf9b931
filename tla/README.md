# Verification of BlogSample

BlogSample is a collection of programs that accompany a blog: concurrency
samples in C#, data structures and algorithms, C programs on processes, threads
and kernel modules, and small clients of queues and servers. The samples are
independent of each other. What deserves a model is the logic the repository
wrote itself, and above all the code whose correctness depends on an order of
steps that no test controls: locks, monitors, events, tasks, timers, messages.

The models are TLA+. TLC checks them on small instances and TLAPS proves the main
safety properties for every instance. Paths below are relative to `src/src/`.

## Inventory

| Component | State | Operations | Interaction and what is hard | What makes it correct |
|---|---|---|---|---|
| `Samples/RReadLockPOC` Redis read/write lock | a Redis hash (mode, one counter per owner, time to live), timeout keys, lease time per object | `TryLock` (polling loop around a Lua script), `UnLock` | clients share only Redis; leases expire while held, clients crash, late unlocks, nesting | exclusion while leases run that no partial unlock has cut short, those leases backed by Redis, only the owner frees, nobody waits for ever |
| `Samples/OwnConsumerPublisher` store | a queue under a monitor | `PurchaseProduct`, `Sell`, `CreateProduct`, `Buy` | one monitor for two conditions, `Pulse` against `PulseAll`, wait with a timeout | bounded FIFO, no lost wake-up, how the program ends |
| `Samples/EventWaitHandleSample` | an index and three events | `Alternate.Call` | index read without synchronisation | prints A, B, C in turn |
| `Algorithm_DataStructure/LRU_Algorithm` | dictionary and doubly linked list | `Get`, `Put` | two structures that must change together; eviction at capacity | map and list agree; least-recently-used policy |
| `Samples/await_async` tasks and pool | completion flag and one continuation slot per task, the pool's queue | `Run`, `Delay`, `ContinueWith` (two forms), `Wait`, `WaitAll`, `Iterate`, awaiter, workers | continuation runs under the task's lock; races of `ContinueWith` and `Complete`; failing user code | callbacks exactly once, completion once and in causal order, clients end |
| `Samples/OwnBlockQueue` | a queue under a monitor | `Add`, `Take` | `Add` enqueues after leaving the lock | bound, no lost wake-up |
| `Samples/ContextSwitchExample` | a byte stream with length-prefixed frames | `ReadAsync`, `WriteAsync` | partial reads, concurrent writers | frames arrive as they were sent |
| `C_Sample/liunx-kernel` | device registration, timer, wait queue, semaphore, flag | load, unload, open, read, write, ioctl, release, timer callback | callbacks against unload and initialisation; check-then-sleep | no callback after unload, no lost wake-up |
| `C_Sample/deadlock-detector` | wait-for graph and lock table | interposed lock and unlock, checker thread | unsynchronised graph; lost vertices | cycle reported iff threads are deadlocked |
| `Algorithm_DataStructure/*` | trees, hash table, lists, graphs | insert, delete, search; sorting, shortest path, Huffman, expression parsing, KMP | deletion and rotation cases | agree with a set, a map or a reference definition |
| `Samples/LargeFileUploadSample` upload | chunk files, a counter in the page | click, one reader and one request per chunk, `HomeController.Upload` | callbacks in any order, two uploads in the same files, lost requests, partial writes | complete once and not early; an undisturbed upload is stored whole |
| `Samples/LargeFileUploadSample` form validation (`jquery.validate.unobtrusive.js` on jQuery Validate) | parsed options, validator settings, invalid and pending fields, messages | `parse`, `parseElement`, `attachValidation`, adapters, handlers for keys, focus, submit, reset and remote answers | answers arrive while the form is edited, submitted or reset; settings are a frozen copy | what is submitted was checked and approved; errors are shown as long as they last |
| `Nodejs/Azure-AAD-MI` token application | one token object shared by all requests | start-up, `GET /` | requests interleave at an await; the credential fails | own token in every answer, every request answered |
| `Samples/Kafka_example`, `RabbitMqClient`, `RabbitMqProducer`, `EzMQ*` | offsets and acknowledgements | consume, commit, reply | crash between acknowledge and reply | nothing lost, redelivery |
| `Samples/CAS_Lock`, `MutiThreadSample`, `VolatileSample`, `DeadLockSample`, `C_Sample/spinlock`, `semaphore` | one counter or lock | increment, lock, unlock | lost updates, lock order | counter exact, exclusion |
| `C_Sample/Share-mem`, pipes, `server-demo`, `C++_Sample/timer.cpp` | shared buffer, connection table, timer set | signal hand-shake, accept, timers | signal before `pause`, table overrun, ordering relation | no missed signal, bound kept |

The remaining directories (cloud and container files, slides, scripts, benchmarks
of language features, Bootstrap and jQuery) hold no state machine and are
not modelled. `PROJECT.json` lists every part with its status, and under `hazards`
what can go wrong at which line and which property would show it.

## Modules

### `RWLock`: the Redis read/write lock

Redis runs a Lua script atomically, so each of the four scripts is one step.
`mode`, `count` and `ttl` are the hash, `timeoutKey` the timeout keys of the
readers; `internalLockLeaseTime` is the field of the object that `UnLock` of a
write lock later uses. An object is used by one task at a time, as in `Main`; a
task may nest calls. `held`, `lease` and `cut` are history: how many `TryLock` calls
returned without an `UnLock`, how much is left of the lease each caller was promised,
and which holds a partial unlock of a write lock has left behind.

| Action | Code |
|---|---|
| `TryLock` | `TryLock`, `Acquire`: the loop is entered |
| `ReadAcquire`, `WriteAcquire` | the run of `lockScript` that returns nil. A run that returns the time to live changes nothing and is a stuttering step |
| `ReadUnLock`, `WriteUnLock` | `unLockScript`, with all its early returns |
| `Tick` | a millisecond passes, Redis expires keys |
| `Crash` | the task dies |

Three details of the code shape the model. Every object draws its own GUID, so the
branches for a task that holds both a read and a write lock can be written down but
not taken. `Thread.Sleep(new TimeSpan(ttl))` sleeps ticks of 100 ns, so the loop
polls and needs no wake-up. A partial unlock of a nested write lock passes
`internalLockLeaseTime`, a number of seconds, to `pexpire`, which counts
milliseconds (`WriteLock.cs:48`). The model keeps that: the hash may then expire long
before the leases of the remaining holds, which `lease` goes on counting, and another
object gets the lock. Backing and exclusion are really lost there. `LeaseBacked`,
`Exclusion` and `OwnerFrees` therefore speak of holds that are `Secured`, whose lease
runs and which are not in `cut`; without that exception TLC finds `Exclusion` violated.

### `Store` and `BoundedBuffer`

`Store` models the producer/consumer program: one step per passage through the
monitor. `Monitor.Wait` moves a thread to `waiting`; `Pulse`, `PulseAll` and the
timeout move it on (`woken`, `expired`), and it then competes for the lock again.
Which waiter `Pulse` picks is left open, which includes the FIFO order of the
runtime. A customer whose wait timed out leaves even if stock has arrived
meanwhile, as the code does. `BoundedBuffer` is the abstract promise; `Store`
refines it with the queue as the buffer and the history of purchases and sales.

### `Alternate`

The three printing threads, one step per access to `index`, `WaitOne` and `Set`;
`index++` is a read and a write. `CallA`, `CallB` and `CallC` are never called.

### `LRUCache` and `LRUPolicy`

`LRUCache` has the `Next` and `Prev` pointers of every node and both sentinels, and
the dictionary. List methods are functions from pointer records to pointer records,
so `Get` and `Put` can call one after another within a step. Nodes that nothing
refers to are reused, which stands for allocation and garbage collection.
`LRUPolicy` is the sequence of entries in order of recency, as the sample's README
describes it: `Hit` and `Update` move an entry to the front, `Miss` changes nothing, and
`Add` pushes the last entry out of a full cache. `Entries`, read off the list along `Next`
as `PrintAll` does (`Visited`), is the refinement mapping.

### `MyTask`

Tasks, callbacks and threads of the hand-written task library. A thread has a list
of instructions still to run. `Complete` puts the continuation and an `unlock` in
front of the list, so the lock of a task is held while its continuation runs and
takes further locks, as in the code. `Body` says what each kind of callback goes on
to do. The clients are the uses in `Main` (an awaiting loop, and the commented
ones: `Iterate`, `Delay` chained with both forms of `ContinueWith`, `Run` with
`WaitAll`), and `twice`, which continues a task and then waits for it. User code
may throw wherever the code has a `try`; `SetException` then does nothing.

### `Upload`

One call of `uploadFileInChunks` is an upload; a step is what the page runs between
two awaits or callbacks. `fetch[u][i]` is the page's request for a chunk and
`server[u][i]` the same request on the server; they are two variables because the
page may see a failure while the server goes on. `temp` has the bytes of each chunk
file, and `CopyToAsync` writes them one by one.

| Action | Code |
|---|---|
| `Click` | the click handler and the loop: a `FileReader` per chunk |
| `OnLoadEnd` | `onloadend` up to the await: the request is sent |
| `Answer` | a response, whatever its status: `uploadCnt++`, `updateProgress` |
| `FetchRejects` | `fetch` fails; the server may have seen the request or not |
| `OpenFile`, `OpenFails` | `new FileStream(..., FileMode.Create)`, which throws while another request has the file open |
| `CopyByte`, `Save`, `CopyFails` | `CopyToAsync` and the end of the request |
| `ServerDies` | the server process ends in the middle of a write |

`updateProgress` compares a quotient with 1, which for two whole numbers is equality.
That a file open for writing keeps a second writer out (`FileFree`) is the documented
contract of `FileMode.Create` with the default `FileShare`; on Unix the runtime enforces
it with an advisory lock, which binds the requests of this server and no other program.

### `TokenApp`

The start-up function and the handler of `GET /`, cut at their awaits. Behind its await
the handler assigns `app.locals.tokenObj` (`Assign`) and reads it again for the message
(`Send`), two steps on a variable that all requests share. `running` has the handlers
between the two, and `Idle`, that Node's only thread is free, keeps others from starting
there; without it `OwnToken` is violated. The credential is external: it resolves or rejects calls in any order, with its newest
token or with a new one. `asked` is history, the newest token when a request came.

### `Adapters` and `ParseElement`

`Adapters` has the registrations in their order, `adapt` of every kind of adapter, and
the rules and messages that an element ends up with, as a closed form. `ParseElement`
is the loop of `parseElement`, one adapter per step, and shows that the loop arrives
at the closed form and that the rules let pass what the attributes ask for. An
attribute is a number, a name or a text, present, empty or absent; a value is a record
of what rules look at (length, number of non-word characters, how a pattern matches,
whether it has the format). Elements are `WellFormed`, as ASP.NET writes them.
`nonalphamin` refuses a value without any non-word character whatever the bound, since
`match` then returns null; with `data-val-password-nonalphamin="0"` that is more than the
attribute asks for, so well-formed elements have a positive number there. A regex
attribute without a pattern sets a rule that is undefined, which `$.extend` drops, and so
asks for nothing.
A range with one bound only is left out: then jQuery
Validate compares strings, and ASP.NET always writes both bounds. `equalTo`, and the
file methods of `additional-methods.js`, let everything pass in `method`: the first
needs two fields, and for the others the sample does not load the script. Without that
script, `data-val-extension` sets the rule `accept`, for which there is no method, and
the check of the field throws; `RulesAgree` covers the rule, nothing the exception.

### `Unobtrusive`

A form under the two scripts. An event handler is one step, since scripts do not
interleave; the operators `form`, `element`, `success`, `stopRequest` and `onReset`
take the state of the validator and return the new one, so that a handler can call
one after another. The rules enter as parameters: the values that pass the local
rules, the fields with a remote rule and the fields their request sends.
`MCUnobtrusive` has the markup of two fields and assumes (TLC evaluates it) that the
parameters are what `Adapters` makes of that markup.

| State | Code |
|---|---|
| `parsed` | the names in `options.rules` of the form's `validationInfo` |
| `attached` | the names in the validator's `settings.rules`, a copy |
| `validator` | `invalid`, `submitted`, `errorMap`, `pending`, `pendingRequest`, `formSubmitted`; the `previousValue` and the request of each field; the classes of the field messages and of the summary |
| `approved` | history: the values that the last answer of the server approved |

| Action | Code |
|---|---|
| `DomReady`, `Parse`, `ParseElement` | the DOM ready handler, `parse`, `parseElement` with and without `skipAttach` |
| `Type`, `FocusOut`, `Submit`, `Reset` | the handlers of the events, followed by what the browser does |
| `Validate` | `validate` of `validationInfo` |
| `Fill`, `AddField`, `SubmitUnchecked` | the user, the page's scripts and the browser, without a handler |
| `Answer`, `Lose` | `success` of the ajax call with `stopRequest`; a failed call, for which there is no handler |

Three things follow from reading the code closely. `check` asks the server at most
once for the same values, but answers from `previousValue` while the question is open,
with the verdict on the values before: only `pendingRequest` keeps such a form from
being submitted. `onError` takes the error class off the label it places, so jQuery
Validate never finds its label again and `onError` runs for each message. And a reset
clears everything but `pending`, `pendingRequest` and `formSubmitted`: a submit that
waits for an answer is still taken up after a reset, and so is one whose second check
failed, without another click (`SubmittedValid` says that it is then valid).

## Runs

| Run | Instance | Checks | Result |
|---|---|---|---|
| `rwlock_readers` | 2 readers, 1 writer, timeouts 1 and 2 s of 2 ms, 2 calls per object | `HashConsistent`, `LeaseBacked`, `OwnerFrees` | holds, 607,726 states |
| `rwlock_writers` | 1 reader, 2 writers, same bounds, fair | `TypeOK`, `Exclusion`, `WaiterServed` | holds, 569,388 states |
| `rwlock_trim` | as `rwlock_readers` | `ReadUnLockTrims` | violated: see Findings |
| `store` | 2 factories of 3 products, 3 customers, room for 2, fair | `TypeOK`, `NoLostWakeUp`, `BufferSpec`, `CustomersLeave`, `DeliveredOrStranded` | holds, 40,324 states |
| `alternate_order` | 20 rounds | `PrintsInOrder` | violated: see Findings |
| `lru` | 4 keys, 2 values, capacity 3, 4 nodes | `TypeOK`, `Consistent`, `PolicySpec` | holds, 455 states |
| `upload` | 2 uploads, files of 0, 2 and 3 bytes, chunks of 2, fair | `TypeOK`, `CompleteOnce`, `AnnouncedStored`, `NoTornChunk`, `UploadEnds` | holds, 182,885 states |
| `tokenapp` | 3 requests, 4 tokens, fair | `TypeOK`, `OwnToken`, `ErrorsJustified`, `Answered` | holds, 5,313 states |
| `parse_element` | 795 elements, 97 values | `MarkupEnforced`, `RulesAgree` | holds, 15,900 states |
| `unobtrusive` | 2 remote fields of 3 and 2 values, one sent along with the other | `TypeOK`, `SubmittedValid`, `PendingCounted`, `ErrorsShown`, `RefusalExplained` | holds, 257,067 states |
| `parse_doc` | as `unobtrusive` | `ParseEnables` | violated: see Findings |
| `mytask` | 2 workers, 2 jobs, 2 rounds, pairs of clients, fair | `TypeOK`, `CompletesOnce`, `Causality`, `ExactlyOnce`, `ClientsEnd` | holds, 113,520 states |

Why the bounds are enough. Two calls per lock object give nesting, relocking after
an expiry and an unlock that comes too late; two timeouts give a second reader with
a longer and with a shorter lease; two milliseconds per second keep seconds and
milliseconds apart, so that the unit mistake of the partial unlock is visible. In
the store, more customers than room and batches larger than the room make both sides
wait, and a pulse can meet several waiters of both kinds. In the cache the fourth
key forces evictions of every position. Two jobs and two workers let every
countdown race with `WaitAll` and with each other. For the upload, a file of one whole
chunk and one of a whole and a shorter chunk are the edges of the arithmetic, and two
uploads meet in the first file and differ in the second. In the form, two requests can
be under way at once, a field has two values the server is asked about and its request
also depends on the other field; nothing bounds how often the user edits, submits or
resets. Symmetry is used for lock objects,
keys and nodes and for the two names typed into the form, only where the run checks safety; the pairs of clients in `mytask`
share nothing but the pool, so larger groups add no new interaction.

Deadlock checking is off where the program ends by itself or may hang by design:
lock objects run out of calls, customers leave, printers and clients finish. The
cache is checked for deadlock.

### Fairness

- `rwlock_writers`: time passes and a task in the retry loop polls again. No
  fairness for `UnLock`: a holder may be killed or sleep for ever, and a waiter is
  still served, because the hash expires. Calls per object are bounded, so the run
  says nothing about an endless stream of readers, under which a writer can starve.
- `store`: a thread that can take the monitor takes it in the end, and a wait with
  a timeout ends. Factories get no timeout, since the code gives them none.
- `upload`: readers end, responses are handled and the server works; the weak
  fairness is per chunk. Nobody has to click, and no failure has to happen.
- `tokenapp`: a call of `getToken` settles, because the credential gives up after its
  retries, and Node runs callbacks that are due.
- `unobtrusive` needs none: its properties are safety. No liveness is claimed, since a
  lost answer leaves a submit waiting until the field is edited.
- `mytask`: threads are scheduled, user code ends or throws, timers fire.

## Findings

- `rwlock_trim`. `Program.cs:70` documents the timeout key with the suffix
  `:rwlock_timeout`. `ReadLock.lockScript` stores it without the suffix and
  `ReadLock.unLockScript` looks it up with it. The lookup never finds a key (proved as
  `LookupMisses`), so the time to live of the hash is not trimmed when a reader
  leaves: a writer waits for the lease of a reader that is gone.
- `alternate_order`. `Program.cs:11` demands the order A, B, C. A caller that reads
  `index` between the predecessor's `index++` and `Set` prints without waiting, its
  event stays set, and it prints again out of turn: A, B, B.

- `parse_doc`. `jquery.validate.unobtrusive.js:227` says that `parse` enables validation
  of the elements it finds. On a form that has its validator it does not: `validate()`
  returns the old validator, whose settings are a copy of the options at its creation.
  A field that a script adds and parses is never checked in the page.

Two more comments of that file differ from the code, in ways no call of the repository
shows: `addMinMax` documents names for the two attributes and then always reads `min`
and `max` (lines 300-307), and `addSingleVal` documents the default `val` and then reads
the parameter named `undefined` (lines 326-332).

## Proofs

| Theorem | Statement |
|---|---|
| `RWLockProofs!Invariance` | `Spec => []IInv` |
| `RWLockProofs!TypeCorrect`, `HashSafe`, `LeaseSafe`, `ExclusionSafe` | `TypeOK`, `HashConsistent`, `LeaseBacked`, `Exclusion` always hold |
| `RWLockProofs!OnlyOwnersFree` | `Spec => OwnerFrees`, an action property |
| `StoreProofs!TypeCorrect`, `WakeUpsSafe` | `TypeOK` and `NoLostWakeUp` always hold |
| `StoreProofs!StoreImplementsBuffer` | `Spec => BufferSpec` |
| `StoreProofs!StoreFirstInFirstOut` | `Buffer!FirstInFirstOut` and `Buffer!WithinCapacity` always hold: what goes in comes out once, in order, and the capacity is kept |
| `TokenAppProofs!TypeCorrect`, `OwnTokenShown`, `ErrorsAreJustified` | `TypeOK`, `OwnToken` and `ErrorsJustified` always hold |
| `LRUCacheProofs!TypeCorrect`, `StructuresAgree` | `TypeOK` and `Consistent` always hold |
| `LRUCacheProofs!CacheImplementsPolicy` | `Spec => PolicySpec`, the refinement of `LRUPolicy` |
| `MyTaskProofs!Invariance` | `Spec => []IInv` |
| `MyTaskProofs!TypeCorrect`, `CompletedOnce`, `CausalOrder`, `CalledOnce` | `TypeOK`, `CompletesOnce`, `Causality`, `ExactlyOnce` always hold |
| `UploadProofs!TypeCorrect`, `AnnouncedOnce`, `ChunksWhole`, `AnnouncementTrue` | `TypeOK`, `CompleteOnce`, `NoTornChunk`, `AnnouncedStored` always hold |
| `UnobtrusiveProofs!TypeCorrect`, `SubmittedApproved`, `RequestsCounted`, `MessagesRight` | `TypeOK`, `SubmittedValid`, `PendingCounted`, `ErrorsShown` always hold |
| `UnobtrusiveProofs!RefusalsExplained` | `Spec => RefusalExplained`, an action property |
| `ParseElementProofs!ParsedRulesAgree`, `MarkupIsEnforced` | `RulesAgree` always holds, for every element, and `MarkupEnforced`, for every well-formed one |

The assumptions, which TLC evaluates in the runs of each module:

- `RWAssumption`, `StoreAssumption`: readers and writers (factories and customers) are
  different objects, timeouts, scale and bounds are positive, there are finitely many
  customers.
- `TokenAssumption`: the start-up call is none of the requests, and an error is not a token.
- `LRUAssumption`: the capacity is positive, values are natural numbers (so that -1 is
  none of them), the sentinels and null are not nodes, and there are more nodes than fit.
- `MyTaskAssumption`: there is at least one worker and one round, and the number of jobs
  is a natural number. Nothing is assumed of the sets of clients that run together.
- `AbsentAssumption`: undefined is not the name `__dummy__`.
- `MarkupAssumption`: elements are well-formed (`WellFormed`: a range has both bounds, the
  minimum and the maximum length have one, bounds are numbers and that of `nonalphamin` is
  positive, other fields are named, and there are no file or credit card attributes, whose
  methods the model leaves out), and lengths and numbers of characters are natural numbers. Only `MarkupIsEnforced` uses it; `ParsedRulesAgree` holds of any attributes.
- `UploadAssumption`: sizes are natural numbers and the chunk size is positive. Nothing
  is assumed of the number of uploads.
- `FormAssumption`, `NoneAssumption`: the form has finitely many fields, its default
  values are values of the fields, a remote check sends at least the field itself, and
  null is not what it sends.

**The lock.** Exclusion is not inductive: it speaks of leases only, and a step of
Redis is guarded by the hash. `IInv` adds what ties the two together. `HashConsistent`
says which fields a hash in each mode can have and that it exists exactly while one
has a count; `LeaseBacked` that a secured hold (its lease runs, and no partial
unlock has cut it short) has its unit in the counter and ends before the hash does; `HoldsCounted` that Redis never counts more holds than
the task has, so that an unlock after an expiry and a relock takes back the right one.
Both lock scripts are instances of one lemma (`AcquireIInv`) and both unlock scripts of
three (`StaleUnLockIInv` for a field that is gone, `ReleaseIInv` for one that is not,
and the deletion of the hash); `TickIInv` is the passage of time. Exclusion then
follows: two secured holds are two counted fields, and a write-mode hash has one. What an
unlock does to the holds of its object is `UnlockedFacts`: the innermost loses its
lease and every other hold keeps the one it had.
For `OwnerFrees` the action lemmas are read the other way: what a step does to the field
of an object that does not take it (`OtherUnLockKeeps`, `AcquireKeeps`), and that a hash
that expires has no secured hold left, by `LeaseBacked`.

**The store.** Refinement needs only the types. For `NoLostWakeUp` the point is that
while there is room no factory waits, so the single `Pulse` of a purchase always
reaches a customer if one waits, and the number of customers on their way grows with
the stock (`PurchaseKeepsWakeUps`); a sale wakes everybody. `StoreFirstInFirstOut` is about the buffer: its two properties
are kept by the steps of `BoundedBuffer` (`BufferStepKeeps`), and every step of the store
is one of them or leaves the queue alone (`StepsOfBuffer`).

**The token application.** `Settled` ties a response to how the request's own promise
settled, the token of a promise to the newest one when the request came, and, while a
handler has the thread, the shared `tokenObj` to the token of its own call; neither
`OwnToken` nor `ErrorsJustified` mentions the promise that is still open. `TypeOK` has
the part on which errors depend, that a process listens only with a token.

**The cache.** `Consistent` is not inductive: it is a local statement about neighbours, and
holds of a list beside which a further node of the map is linked to itself. `IInv` says
instead that there is a sequence without repetition, as long as the map has keys, that the
list strings from sentinel to sentinel and whose members are the nodes of the map
(`Listed`), and that each of those nodes has its key and a value. Removing a node
cuts the sequence (`DroppedListed`), `AddHeader` puts one in front of it, and `Get` and
both branches of `Put` are one cut and one push. For the refinement, `Visited`, the walk
of `PrintAll`, is shown to be that sequence, which is an induction over its length
(`Induction`, stated for sets of natural numbers and proved from their well-ordering, and
`WalkDefined`, that the recursive function exists); `EntriesPushed` and `EntriesCut` then
turn what happens to the list into what the policy does to its sequence.

**The tasks.** `ExactlyOnce` and `CompletesOnce` are not inductive: nothing in them keeps
two threads from being about to submit the same callback, or to complete the same task.
The proof follows what is handed around. An instruction of a thread carries a callback or
a completion (`Carries`); from there it goes to a task's slot, to the pool's queue or to
another thread, and it ends when it is called, replaced or completed. `IInv` says that
each of them is in one place (`OnePlace`, `OneThread`, `OneItem`), that one handed to a
task is called only when that task is completed (`Released`), that what the body of a
callback brings forth (`Causes`) is nowhere before that callback has run (`AfterCause`),
that the counter of `WaitAll` is the number of countdowns still to run (`Counting`), and
what has completed when (`InOrder`). `Placed` states this of sets and not of variables:
every kind of move between places has a lemma about sets, and each action is shown to be
one of those moves, the body of every callback to bring forth what `Causes` says
(`BodyRight`), and every client's program to begin with tokens nobody else has
(`ProgramRight`).

**The rules of an element.** `RulesAgree` speaks of the end of the loop only. `LoopInv`
says of every turn that the rules and the messages are the closed form restricted to the
adapters already passed; one more adapter is what `setAll` does to it, since the new
place is the last of all (`RulesJoined`, `MessagesJoined`). That the `__dummy__` of the end
overwrites nothing needs that none of the registered adapters sets a rule of that name;
`AdaptersKnown` lists them, with one lemma for each way of registering. `MarkupEnforced` then
follows adapter by adapter: `AsksByName` splits what the markup asks for by the name of the
attribute, and `AdapterEnforces` shows for each adapter that its rules let pass exactly that
part. A rule has the value of the last adapter that sets it (`RuleHasSetter`), which is some
part of what is asked for; only without a clash is every part represented (`RuleOfOne`),
which is why the converse has that exception.

**The upload.** The page and the server have an invariant each. `PageInv` says that
`uploadCnt` is the number of chunks answered, that the announcement was made exactly
when those are all chunks, and that an answered request has ended on the server. That the
equality of `updateProgress` is reached exactly there needs that the loop makes as many
requests as `Math.ceil` counts, for every size (`IndexesInterval`). `FileInv` says for each
file that at most one request writes it, then bytes of its own chunk, and that otherwise
it is untouched, the whole chunk of an upload that saved it, or one on which a write broke
off. `AnnouncedStored` needs both, and `ChunkBelongs`: a slice holds exactly the bytes that
the division of their positions by the chunk size assigns to it.

**The form.** `SubmittedValid` is about the moment of a submit, and everything on which
that moment relies must be carried along. `Counting`: `pendingRequest` is the number of
pending fields and a request has its field pending. `Asking`: an open request asks for the
values the field remembers as its last question, or the field was reset since (an orphan).
`Remembering`: what a field that waits for nothing remembers as right is what the server's
last answer approved; while it waits, the remembered verdict may be of older values, and
only `pendingRequest` stands before a submit. `Showing` ties messages to what is invalid,
and gives `ErrorsShown` and `RefusalExplained`. Every operator of the scripts (`form`,
`element`, `success`, `stopRequest`, `onReset`) has a lemma that it keeps these parts,
which a handler's step then composes.

What is only model-checked is liveness (`WaiterServed`, `CustomersLeave`,
`DeliveredOrStranded`, `ClientsEnd`, `UploadEnds`, `Answered`): fairness and `ENABLED` are
outside of what the prover handles. Every invariant and every action property that a passing
run checks has its theorem.

## Not modelled

- `OwnBlockQueue`, the pipe wrapper, the kernel modules, the deadlock detector, the
  message clients, the signal hand-shake, the TCP server and the timer set are small
  samples in C# and C beside the core chosen here. Their hazards are those of the store, the events and
  the lock again (check and wait in two steps, a wake-up before the wait, a crash
  between two steps); the most telling ones are listed as hazards without a property.
- Trees, hash table, graphs, sorting and puzzles are sequential and deterministic;
  tests reach them.
- In the form: groups, radio buttons, cancel and `formnovalidate` buttons, `destroy`,
  hooks in `unobtrusive.options`, and rules from classes or HTML5 attributes. The sample
  uses none of them. The CSS class of the input itself is not modelled, only messages.
- `configureSQL` of the token application is never called. `site.js` has no code.

## Plan

What could be added next:

1. `OwnBlockQueue` beside `Store`: the same abstract buffer, which it does not implement.
2. The pipe wrapper with partial reads, and the lifetime of the kernel modules.
