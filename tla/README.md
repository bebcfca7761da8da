# A verification project for the course repository

This directory holds TLA+ models of the programs under `src/tasks/`, the TLC
configurations that check them on small instances, and TLAPS proofs of what
matters most about them for every size. Source paths below are relative to
`src/tasks/`.

    tlc -workers 2 -config Locks.cfg MCLocks.tla       # one run
    tlapm TimerQueue_proofs.tla                        # one module of proofs

## 1. The system and its parts

The repository is the work of a C++ course: several dozen independent libraries
and programs, each in a directory of its own with a readme, tests and
benchmarks. Code of its own is in `tasks/`; `lectures/` and `seminars/` are
teaching examples and `contrib/` is vendored. Many directories still hold the
task's skeleton. The components do not call one another, apart from copies (the
Scheme interpreter grows from `tokenizer` to `advanced`; `subset-sum` holds a
copy of the hash table); inside each component the interaction is between the
threads, or the successive calls, that share one object.

Modelled:

| component | state it keeps | operations | what is hard | what makes it correct |
|---|---|---|---|---|
| RWSpinLock `lock-free/rw-spinlock` | one atomic word | LockRead, UnlockRead, LockWrite, UnlockWrite | load and exchange race; the unlocks store without looking | the word says who is inside; a writer is alone; somebody gets in |
| MPSCStack `lock-free/mpsc-stack` | an atomic head pointer, linked nodes | Push by many, Pop, DequeueAll and the destructor by one | `next_` read of a node that is not one's own yet; addresses reused; exchanges that fail spuriously | no node lost, leaked or deleted twice; an atomic stack; somebody gets done |
| RWLock `condvars/rw-lock` | mutex, reader count, condition variable | Read, Write with a callback | who is woken, callbacks that throw | writers alone; no writer is forgotten |
| Semaphore `condvars/semaphore` | count, queue of signatures, condition variable | Enter, Leave | `notify_one` reaches the wrong waiter; a woken thread does not look at the count | order of arrival; permits conserved; a free permit is announced; nobody waits for ever |
| BufferedChannel `condvars/buffered-channel` | ring buffer, two counters of callers, closed flag, two condition variables | Send, Recv, Close | checks made before locking; closing with callers inside | FIFO; no lost wakeup; nothing left behind; a close releases the receivers |
| UnbufferedChannel `condvars/unbuffered-channel` | one slot, two flags, three condition variables | Send, Recv, Close | a hand-off interrupted by Close; each notification reaches one waiter | one hand-off at a time; senders and receivers meet; a close releases all |
| TimerQueue `condvars/timerqueue` | heap of timed items, condition variable | Add, Pop | an earlier item added while Pops wait; the clock read twice | nothing pops early; nobody oversleeps |
| ConcurrentHashMap `baby-threads/hash-table` | array of lists, fixed array of mutexes, size, bucket count | Insert, Erase, Find, At, Clear, Rehash | Insert holds its mutex twice, not once; the bucket count is read outside; all mutexes are taken at once | a map with one value per key; every element findable; no deadlock |
| Scheme memory `scheme/advanced` | stack of variables with marks, counter per name, captured contexts | define, set!, look-up, lambda, call, return, error, destruction | sharing of variables between copied contexts; errors that skip returns | frames of syntactic scope with shared bindings; the counter agrees with the stack |
| Scheme reader `scheme/advanced` (tokenizer, parser, Serialize) | stream, one token in hand, the stack of calls | Next, IsEnd, GetToken, Read, ReadList, Serialize | look-ahead across data; brackets, quotes and dots nested in each other; texts that stop anywhere | reads the grammar and nothing else; takes only its datum; what it writes reads back |
| JPEG decoder `jpeg-decoder/baseline`, `huffman` | tables, the frame's Stats, bit buffer, the node reached in a Huffman tree | Build, Move; the marker segments; GetBit, Scan, CheckEnd; PixelSource | order of the segments; sides of 16 bits; stuffed bytes; runs that cross a block; layouts of the components | what was encoded is decoded; only bad files are refused |
| Editor `patterns/editor` | text, cursor, two logs of commands | Type, ShiftLeft, ShiftRight, Backspace, Undo, Redo | long mixtures of undo and redo | undo and redo are inverses, redo can be undone; the cursor stays in the text |

Not modelled (`PROJECT.json` gives each its reason): the unfinished
MPMCBoundedQueue, futex mutex and SyncMap, hazard pointers over a
`std::shared_mutex`, the range-splitting functions of `baby-threads`, the Scheme
evaluator apart from what it does to the memory, Scheme's empty garbage
collector, the FFTW wrapper of the JPEG decoder (floating-point arithmetic around
a library call) and its progressive mode (a skeleton), the memory, type, template
and iterator exercises, the skeletons of `bonus` and `unassigned`, and the course
material. Much of what is counted as C++ here is vendored (Catch, GoogleTest,
ImGui bindings): third-party code, or tests and examples without a state of their
own.

`PROJECT.json` lists under "hazards" the places where these parts could go wrong
in a way that a test hardly reaches, each with the properties that watch it.

## 2. The modules

| code | abstract specification | model | instance | proofs |
|---|---|---|---|---|
| rw-spinlock | RWExclusion | RWSpinLock | MCLocks | ReadersWriters_proofs |
| mpsc-stack | AtomicStack | MPSCStack | MCMPSCStack | MPSCStack_proofs |
| rw-lock | RWExclusion | RWLock | MCLocks | ReadersWriters_proofs |
| semaphore | FifoSemaphore | Semaphore | MCLocks | Semaphore_proofs |
| buffered-channel | FifoChannel | BufferedChannel | MCBufferedChannel | BufferedChannel_proofs |
| unbuffered-channel | Rendezvous | UnbufferedChannel | MCUnbufferedChannel | UnbufferedChannel_proofs |
| timerqueue | TimedSet | TimerQueue | MCTimerQueue | TimerQueue_proofs |
| hash-table | ConcurrentMap | ConcurrentHashMap | MCConcurrentHashMap | ConcurrentHashMap_proofs |
| scheme/advanced | Environments | SchemeMemory | MCSequential | Sequential_proofs |
| scheme/advanced, reading | SchemeGrammar | SchemeParser, SchemeReader | MCInputs | Sequential_proofs |
| jpeg-decoder | JpegEncoding | JpegDecoder, HuffmanTree | MCInputs | Sequential_proofs |
| editor | Document | Editor | MCEditor, MCSequential | Sequential_proofs |

The abstract specification says what a component promises in terms a user knows
(who holds the lock, the queue of values, the map, the frames, the views of a
document) and knows no mutex, counter or log. It says what the readme of the
component asks for, without an allowance for what the code does. Each model contains
a refinement mapping (`INSTANCE ... WITH`) and the property `Implements...`. Where the
code breaks the promise there is a second property: each step of the code is a step
of the abstract specification or one of a few others, which are described one by one
under names of their own (section 4); the names of these properties say `Unless...`
or `Until...`. The two locks implement the same RWExclusion. SchemeGrammar and JpegEncoding are
references of another kind, for programs that only read an input: the first says
which texts denote which data, the second how an encoder that follows the
standard writes an image; the properties compare what the program makes of its
input with them.

Conventions. Variables bear the names of the fields of the class
(`blocked_readers_`, `waiting_threads_`, ...); `pc` is where each thread is between
its steps, and variables marked "history" are read by properties and never by a
guard. In the condition-variable programs all shared state is changed under one
mutex, so a critical section (from locking to unlocking or waiting) is one step, and
what interleaves are the waits; what a program does outside of its mutex is a step
of its own. A wait is two places, asleep on the condition variable and woken but
still without the mutex. `notify_one` moves any one sleeper, a wait may end
spuriously, and `notify_all` moves all. Each model that is proved about has its type
invariant TypeOK, there or in the proof module, which shows it for all constants.
Operators named `Bug...` are the variants of a definition that a plausible mistake
would give; no specification uses them, they serve to confirm that each property can
fail. Components that share a module of proofs or an instance have no name in common,
which is why RWSpinLock speaks of users and places and the semaphore of callers and
stages, and their specifications are SpinSpec and SemaphoreSpec, the Editor's is
EditorSpec, the decoder's DecoderSpec and the parser's ParserSpec; and why the
decoder writes `bit_buffer_`, `taken` and `index`, and the parser `waiting` for its
stack of calls and `source` for its text. An instance of several components runs
them one at a time: MCLocks and MCSequential choose at the start which one the
behaviour is about (`subject`), and the program of MCInputs decodes a file and then
reads a text, one of them empty.

How the models correspond to the code:

- **RWSpinLock.** One step per atomic access. `ReaderBits` is `& ~LAST_BIT`,
  `OneLess` is `fetch_sub` with its wrap-around; an exchange succeeds when the
  word is what was expected. `LastBit` stands for 2^63.
- **MPSCStack.** Each access to `head_` is a step and so is the reading of
  `expected->next_` in Pop, which comes before the node is Pop's own. `live` is
  what has been allocated and not deleted, and `new` may give out any other
  address, one that was deleted a moment ago included. An exchange may fail
  spuriously. Pop's node is deleted through `~Node`, which follows `next_` node by
  node (`dying` is its recursion, `DeletesNext` and `FreesNode` its steps), after
  `next_` has been cleared; DequeueAll is Pop until the stack is empty, and the
  destructor, which comes when no producer is inside, starts the same cascade at
  `head_`. `OnStack` is what `head_` and the `next_` pointers reach. The class
  promises one consumer, and there is one.
- **RWLock.** Read takes the mutex twice (counting in, counting out); Write keeps
  it for its section, so `read_` records the owner. A section of either kind may
  throw: Read's destructor still counts out, Write's `unique_lock` unlocks but the
  `notify_one` after the section is skipped (`WriteThrows`).
- **Semaphore.** A waiter's signature is drawn fresh from a counter, so the queue
  of signatures is modelled as the queue of the threads that drew them. A woken
  thread whose signature is at the head enters without looking at the count; any
  other notifies again and sleeps. Enter's callback, which runs under the mutex,
  takes one from the count, as readme.md demands of it. A thread of the model is one
  Enter with its Leave; a program thread that enters several times is several.
- **BufferedChannel.** `SendChecks` (the look at `closed_`) and `SendCounts` (the
  increment of `waiting_send_cnt_`) precede the lock and are steps of their own.
  Recv's two conditions for giving up on a closed channel are `NothingForMe`. A
  woken receiver that gives up does not take itself out of the count, as in the
  code.
- **UnbufferedChannel.** The three condition variables are the places
  `send_wait`, `offering` and `recv_wait`; each notification wakes one waiter,
  Close one of each.
- **TimerQueue.** `LooksAtTop` is GetTop with its reading of the clock for an
  empty queue, the loop condition reads the clock again; the mutex is held
  between the two (`checking`) while the clock may move. The clock is
  `system_clock` and may be set to anything at any time. A Pop that finds the
  queue empty and its second over calls `pop()` on an empty priority queue and
  returns T() (`PopTakesNothing`). That `pop()` is undefined behaviour: from then on
  the queue is `broken` and no call gets the mutex any more.
- **ConcurrentHashMap.** What is done under one mutex is a step. Insert looks up,
  locks again and pushes, then reads `size_` and `bucket_cnt_` without a mutex.
  Clear and Rehash take the mutexes one by one. `MaxLoad` and `Growth` are the
  two 3s of the code. Any thread may insert any key with any value. ConcurrentMap is
  a map with one value per key whose every operation is one step; the Insert that
  pushes behind a value that came since it looked is `InsertsTwice`. `Cells` and `Precedes` are the walk
  through the table bucket by bucket: a Rehash pushes the elements in this order, and
  the values of a key, for the refinement, are those met on it.
- **SchemeMemory.** A program is any sequence of the operations on the memory; the
  expressions that lead to them, and the values of the variables, are left out. A
  variable is an identity, because sharing is what matters; one that nothing
  points to is free again. An error may come at any point inside a call and leaves
  the scopes on the stack (`Throw`). Environments is syntactic scope: a name means
  what the running frame or the global one says, an error drops the frames of the
  calls it ends.
- **SchemeParser, SchemeReader.** The recursion of Read and ReadList is an explicit
  stack of calls (`waiting`); a step goes from one call or return to the next, with all
  it does to the stream and to the token in hand. Characters are one-letter strings in
  classes, as the tokenizer's predicates have them; the letters, the marks inside a
  symbol and the characters that begin no token are parameters. SchemeReader adds
  Serialize to it, which is recursive and only model-checked. `int` holds -IntMax-1 to IntMax and
  `std::stoi` throws beyond that. A character that begins no token is read as the
  number 0; `Readable` are the texts without such characters and without numbers
  beyond an int. The client reads data until the stream ends.
  A pair is `[first, second]`; `Null` is the empty list.
- **JpegDecoder.** A segment of the header is a step, except that a Huffman table
  is hung value by value (`Build` of HuffmanTree); the scan is read bit by bit
  through the tree, with the bits of an amplitude after it. The sizes of a byte, a
  block and the longest code are parameters. A side of the image goes through an
  int16_t (`Signed`: two bytes of the file, so half of its values are negative) and a
  size_t (`ToSize`, SizeLimit values), and the numbers of MCUs and blocks wrap as
  they do; room is made for at most MaxBlocks blocks, and no Image has a negative
  side (`FitsImage`). ReadStats takes factors of 1 and 2 for one to three components;
  ConstructImage is made for `LayoutSupported` only. Not modelled: the lengths that
  segments state about themselves (reader.cpp:107 and 197-200), the constants of the
  scan's header (194), and the dereference of an absent optional that a gray image
  causes at reader.cpp:134-136 and transforms.cpp:52-62, which is undefined and in
  effect writes and reads factors of 1 that no pixel depends on. Blocks are compared after
  dequantization and before the cosine transform, so that transform, zigzag order
  and colour conversion, which are arithmetic without a state, are left out;
  `PixelSource` says which sample of which block each pixel is made of. The
  sources in `faster` and `huffman` repeat those of `baseline`.
- **Editor.** Do and Undo of each command work on whatever text and cursor there
  are then; the cursor is a `size_t` that wraps at `PosRange`, and an index beyond
  the text throws as `std::string` does. The history variables hold the views that
  Undo and Redo should go back to, which the code does not have: `past` and `future`
  those that its commands still lead to, `before` those that a Redo put out of reach,
  because it does not log its command again; `lost` says that an Undo came when only
  those were left. Document's past is `before` and `past` together, so it undoes what
  was redone.

## 3. What the runs check

TLC takes up to about a minute and a half for each of them; together the passing
runs fire every action. Deadlock is checked too, except in `mpsc`, where the stack
is destroyed in the end, and in `inputs`, whose program ends. `MPSCStack.cfg` and
`Inputs.cfg` say so.

| run | instance | shows |
|---|---|---|
| locks, RWSpinLock | 3 users, LastBit 4 | the word equals what the holders say at every access, RWExclusion is implemented, lock freedom |
| locks, RWLock | 4 threads | no sleeping writer is forgotten and writers get through, unless a Write callback has thrown; RWExclusion |
| locks, Semaphore | 4 threads, 1 or 2 permits | permits conserved, entry in order of arrival, one permit never stranded; every waiter enters unless three or more wait for ever |
| mpsc | 2 producers, a consumer, 3 addresses | what `head_` and `next_` reach is what is on the stack, every node has one owner and is deleted once, Pop relies on nothing stale (no ABA), an atomic stack, lock freedom |
| buffered | 3 threads, 2 values, capacity 2 | FIFO, no lost wakeup, nothing left behind unless a Send slipped past Close, a close releases receivers |
| unbuffered | 4 threads, 2 values | no lost wakeup, senders and receivers meet, a close releases everybody, a rendezvous but for what a close leaves on offer |
| timerqueue | 2 threads, 2 items, times 0..3, Second 2 | nobody oversleeps, a due element is popped, TimedSet until a Pop takes from nothing |
| hashmap | 2 threads, 2 keys, 2 values, 2 mutexes, MaxLoad 1, Growth 3 | elements are findable through rehashes, no deadlock, a map but for the Insert that comes second |
| sequential, scheme | 2 names (one a built-in's), 2 lambdas, 3 variables, nesting 2 | counter = variables on the stack; each call pops its own scope; syntactic scope but for three kinds of step |
| sequential, editor | 2 characters, text 3, log 4 | undo and redo are inverses and redo can be undone, until an Undo comes right after a Redo |
| inputs, reader | 15170 texts, int from -11 to 10 | what the grammar says is read or refused; only the datum is taken; what is written reads back; reading ends |
| inputs, decoder | some 240 images, bytes of 4 bits, blocks of 9 coefficients, sides up to 255 where int16_t stops at 127 | what was encoded is decoded, only bad files are refused, pixels read their samples, decoding ends |
| unbuffered_readme, timerqueue_readme, hashmap_readme, editor_readme | as above | the promise of the readme itself, which TLC finds violated (section 4) |

Why the bounds are enough. Four threads on a condition variable are one that
notifies, one that was notified, one that sleeps and one that comes in between; that
is what a lost or a misdirected wakeup takes. Two producers of the stack race with
each other and with the consumer, and three addresses let a node be taken, deleted
and pushed again between Pop's reading and its exchange, with another below it.
Three users of the spinlock give two that race for the word while a third holds it,
and LastBit 4 is the least that fits them. Three threads over two cells include a
full buffer with a sender asleep, a receiver and a close, and the ring goes round.
Two Pops and two items include an earlier item that arrives while one Pop waits for
the later and another starts; Second 2 within a horizon of 3 lets the clock cross
GetTop's second and also not. In the hash table the two keys share a bucket of the
first two and no longer do after a rehash, which the third element starts: a second
value of a key that both threads insert. The two values tell the order of a key's
elements apart. `MaxStorage` 2 allows a call from a scope with definitions, an error
inside a nested call and a call on what the error left. Text 3 and log 4 are enough
for a mixture of all six operations to be undone, redone and cut off; MaxBefore 5
lets two rounds of four actions, Undo and Redo follow each other. After the first
Undo that comes right after a Redo the property has nothing more to say, so
MCEditor's constraint cuts off the larger of those states. The texts of `inputs` are
all those of up to five characters among brackets, dot, quote, digit and blank, all
those of up to four among the characters that make numbers and symbols, and lists of
two and three levels in all notations, whole and with up to two characters cut off:
every decision of the parser depends on one token, the kind of call it is in, and
whether something has been read in the list. Its files are all triples of six gray
blocks (empty, full, runs, a run longer than a ZRL, the largest negative numbers),
colour images in the four layouts, headers in other orders or replaced tables,
headers with each kind of defect and cut after each segment, scans cut at every byte
or that no encoder writes, layouts that ReadStats takes and ConstructImage is not
made for, and sides of 0, beyond int16_t, and so large that the number of blocks
wraps into one there is room for; bytes of 4 bits make stuffing, and codes that
cross bytes, frequent. Symmetry is used in `sequential`, which has no liveness
property, over values that nothing distinguishes.

Fairness. Each thread is run again and again: a step that a call can take for good
is taken (weak fairness of each thread's steps inside a call). Nobody is obliged to
call, except that whoever is in a section leaves it, and no spurious wakeup or clock
tick need happen. The operating system's scheduler justifies this, and for mutexes
the weak form is what is assumed: a thread for which the mutex is free for good gets
it. Nothing is assumed of whom `notify_one` picks. The semaphore would need that:
sleepers that are not the head of the queue may pass one notification to and fro for
ever while the head sleeps. With one sleeper besides the head they cannot, so
`EveryWaiterEnters` says that everybody who waits gets in unless from some time on
three or more wait all the time. RWLock promises progress only for writers as a
group and only when the readers have gone for good, and RWSpinLock only that
somebody gets in, since the code gives single threads no more. MPSCStack assumes
weak fairness of each thread and that the consumer's `compare_exchange_weak`, when
tried again and again, does not fail spuriously for ever, which is what the
standard's weak exchange is for. The reader and the decoder are sequential: a
program that can take a step takes one.

## 4. Where code and documentation disagree

Seen while modelling. The models contain the behaviour. The first four break a
promise that is stated without exception, and a run that expects a violation shows
it; beside that property stands one that says what holds nevertheless:

- `unbuffered-channel/unbuffered_channel.h:29`: a Send whose value is still on offer
  when the channel is closed returns normally and leaves it behind (readme.md:8 wants
  an error, readme.md:12 that a Send that returns knows its value received). Run
  `unbuffered_readme` refutes `ImplementsRendezvous`. `RendezvousUnlessLeft` allows
  two steps on a closed channel besides: such a return (`LeavesItsValue`), and a Recv
  that takes a value so left (`TakesLeftValue`).
- `timerqueue/timerqueue.h:36`: Pop on an empty queue calls `pop()` on it and returns
  T() when a second passes between two readings of the clock (README.md:11: it waits
  for ever). Run `timerqueue_readme` refutes `ImplementsTimedSet`;
  `TimedSetUnlessEmpty` holds until that step (`TakesFromNothing`).
- `hash-table/concurrent_hash_map.h:31`: two Inserts of one key can both push it
  (readme.md:4 and 26, test.cpp:116). Run `hashmap_readme` refutes `ImplementsMap`;
  `MapUnlessTwice` allows the step `InsertsTwice` besides.
- `patterns/editor/editor.h:143`: Redo does not log its command again, the next Undo
  undoes another one and the cursor can leave the text (readme.md:9 and 15). Run
  `editor_readme` refutes `CursorInBuffer`; `DocumentUntilLost` holds until such an
  Undo (`UndoesAnother`).

The others are preconditions or named exceptions of properties that hold:

- `rw_lock.h:28`: a throwing Write callback skips `notify_one`, so writers may sleep
  on over a free lock (readme.md:12). `NoForgottenWriter` and `WritersGetThrough`
  hold until one has thrown.
- `sema.h:38`: with two permits, one notification can find the head of the queue
  gone in while another permit stays free with waiters asleep (readme.md:8).
  `NoStrandedPermit` is stated for one permit.
- `sema.h:33`: a spurious wakeup of the head lets it in without a permit and the
  count goes below zero. TypeOK (theorem SemaphoreTypeCorrect), `NoStrandedPermit`
  and FifoSemaphore's capacity make their exception for it.
- `buffered_channel.h:16`: `closed_` is looked at before the lock, so a Send may
  leave a value after a Recv has said that the channel has ended (test.cpp:27).
  `NothingLeftBehind` makes its exception for it.
- `functions_advanced.cpp:140`, `scheme_memory.cpp:33`, `functions_advanced.cpp:55`:
  an error leaves the scopes of its calls on the stack, look-up searches the stack
  with the callers' scopes, and a define whose value is a lambda binds the name in
  what that lambda captured, for all that hold it; `scheme/README.md:15` speaks of
  syntactic scope. `EnvironmentsUnlessDynamic` allows these three steps besides those
  of syntactic scope (`LeavesScopes`, `LooksPast`, `NamesItself`) and says what each
  does.
- `scheme/advanced/tokenizer.cpp:45`: a character that begins no token, a tab for
  instance, is read as the number 0, and a number that does not fit an int leaves
  Read as `std::out_of_range`, where scheme/parser/README.md:101 wants a tree or a
  SyntaxError. `ReadsTheGrammar` and `TakesOnlyItsDatum` are about the texts that
  have neither (`Readable`).
- `jpeg-decoder/baseline/bit_reader.cpp:9`: a scan whose last byte is all ones is
  refused, although its stuffing is complete. `RefusesOnlyBadFiles` makes its
  exception for it (`EndsOnStuffing`).
- `jpeg-decoder/baseline/fields.h:26`: sides of 32768 and more, which a JPEG may
  have, do not fit the int16_t, and an exception leaves Decode: no Image has a negative side,
  and often there is no room for the blocks. So says `RefusesOnlyBadFiles`
  (`SidesSupported`).
- `jpeg-decoder/baseline/transforms.cpp:52`: a gray component with a sampling other
  than 1x1, and chroma with one, are accepted and laid out otherwise than ITU T.81
  says. `PixelsFromTheirSamples` is about the others (`LayoutSupported`).
- `jpeg-decoder`, not in the model: 16-bit quantization tables are always refused, since their size is counted as
  65; components are taken to have the ids 1 to 3. `huffman/README.md` speaks of
  values in pre-order; the code and its tests hang them level by level, as the
  standard does.
- `hash-table/concurrent_hash_map.h:22`: a table constructed for 0 threads has no
  mutex and divides by 0. `scheme_memory.cpp:4`: all Interpreters share one static
  Memory and the destructor of any clears it. Neither is in a model: both are
  settled by one constructor.

## 5. What is proved

For all sets of threads, values, capacities and times, not only the instances:

| module | theorems | assumption |
|---|---|---|
| ReadersWriters_proofs, RWSpinLock | type, WordCountsHolders, MutualExclusion, implements RWExclusion | ReadersFit: fewer users than LastBit |
| ReadersWriters_proofs, RWLock | type, StateCountsThreads, NoForgottenWriter, implements RWExclusion | finitely many threads |
| MPSCStack_proofs | type, NodesOwnedOnce, ReadsLinkedNode, implements AtomicStack | nullptr is no address, nullopt no value |
| Semaphore_proofs | type, PermitsConserved, WokenHavePermits, NoStrandedPermit, implements FifoSemaphore | finitely many threads, counts are naturals |
| BufferedChannel_proofs | type, CallersCounted, NobodySleepsOverWork, NothingLeftBehind, implements FifoChannel | finitely many threads, capacity at least 1 |
| UnbufferedChannel_proofs | type, OneHandOff, NobodySleepsOverWork, steps of Rendezvous unless a value is left on a closed channel | finitely many threads |
| TimerQueue_proofs | type, NobodyOversleeps, steps of TimedSet until a Pop takes from nothing | times are naturals, Second at least 1 |
| ConcurrentHashMap_proofs | BucketsInOrder, LocksEveryKey (who changes the whole table holds every mutex), steps of ConcurrentMap unless an Insert comes second | hashes are naturals; LockCount, MaxLoad, Growth at least 1; None is no thread and no value |
| Sequential_proofs, SchemeMemory | type, CounterCountsVariables, CallsOwnScopes, steps of Environments unless dynamic | None is no name and no variable |
| Sequential_proofs, Editor | the history is kept (EditorInv), steps of Document until an Undo comes right after a Redo | PosRange greater than any text and log; Nul is no character that is typed |
| Sequential_proofs, JpegDecoder | PixelsFromTheirSamples, SamplesExist (ConstructImage reads no block that is not there), TablesInUse (a component that is read has its tables) | FilesAssumption: sides are of two bytes, a frame header describes its image or is refused, a header's length is a natural; SizeAssumption: a size_t holds 16 squares of what an int16_t holds |
| Sequential_proofs, SchemeParser | ReadsTheGrammar, TakesOnlyItsDatum, NotationIsUnambiguous | AlphabetAssumption: letters are no digits, signs, marks or blanks, and no blank is in a symbol; texts are sequences of characters, IntMax a natural |

The arguments:

- *RWSpinLock.* SpinTypeOK and WordCountsHolders together are inductive: an exchange
  that succeeds has seen the word as it is, so a reader is added to a word that
  counts readers only, and a writer enters on 0, when nobody is inside. Because the
  count of the readers stays below the flag (ReadersFit), the word is one of the two
  forms and never both. Exclusion and refinement follow.
- *MPSCStack.* The invariant adds to type and ownership that the addresses pushed
  and not popped (`linked`, a history) are a chain: without repetition, `head` the
  first, `next` of each the one after it (Chain), and says what producer and consumer know at each of their
  places. The consumer is the only one who takes a node off, so as long as the
  node it looks at is still the head, nothing below it has moved, and what it read
  of `next_` holds. A producer links its node before the exchange, and a failed
  exchange refreshes what it saw. Sequences change at the top only, so the steps need
  no induction. That `head_` and `next_` reach exactly the chain (ReachedAreLinked)
  goes by the least place that they would miss (FirstPlace). The nodes that `~Node`
  is in are the popped one alone, whose `next_` is cleared, or, in the destructor, the
  first ones of the chain, which are existing and different (Deletes,
  DyingAreLinked), so nothing is deleted twice.
- *RWLock.* TypeOK and StateCountsThreads are inductive. NoForgottenWriter is
  inductive relative to them: a writer goes to sleep only while readers are
  counted, the last one to count out notifies, a notified writer either enters,
  and notifies when it leaves, or sleeps because a reader came.
- *Semaphore.* The queue is exactly the waiting threads without repetition, which
  is inductive for all behaviours. Until a wakeup is spurious each notification
  leaves with a permit and is spent with one, so there are at most as many woken
  threads as permits; with one permit no permit is free without a notification on
  its way. With two this last fact is false, which is why the theorem says one.
  PermitsConserved has both halves.
- *BufferedChannel.* The invariant is TypeOK, CallersCounted,
  NobodySleepsOverWork and RingOK (the indices and the size describe one stretch of
  the ring). The wakeup half pays room with notifications: each value taken leaves
  one cell and notifies one sender, so there are as many woken senders as free
  cells while others sleep; receivers are notified all at once. Pushing and popping
  are append and head of the queue that the ring stands for, index by index.
  NothingLeftBehind rests on OwedToReceivers: from the first Recv that says "closed"
  on, unless a Send counted itself after Close, the values in the buffer and those
  of the counted senders are at most as many as the receivers under way.
- *UnbufferedChannel.* The invariant says thread by thread that there is one
  hand-off, who owns the slot, and who is awake on behalf of those asleep, before a
  close and after. A sender that returns on an open channel has had its value taken,
  so the two exceptions can only come after a close.
- *SchemeMemory.* Besides the two properties the invariant says that a captured
  context holds no mark, because MakeLambda takes what is above the last one, and
  that running calls lie on the stack in the order in which they were made
  (CallsInOrder). The greatest mark is therefore the last call's, so Return cuts
  the stack exactly at it, and what Dec takes off the counter is what Inc added,
  since the places of a concatenation are those of its parts. That a set of places
  has a greatest one needs no induction of its own: it follows from the
  well-foundedness of finite sets under strict inclusion, a theorem of the library.
- *SchemeMemory implements Environments.* The frames are the stack cut at its marks,
  and no induction over frames is needed: whatever an operation does lies above the
  last mark. A stack without a mark is one frame (OneScope), and a mark with entries
  after it adds one frame to what is below (OneMoreScope), so a define changes the last
  frame only, a call adds one and a return drops those above its mark. The variable a
  look-up finds is in the last frame that binds the name because the places of a name
  are ordered as the frames are; that frame is the running one, the global one, or one
  between, which is the exception LooksPast. That whatever can be reached lives needs one more
  invariant, PointersLive, about the stack and the captured contexts.
- *ConcurrentHashMap.* MapInv says that the number of buckets is a multiple of the
  number of mutexes (so two keys of one bucket have one mutex, by
  RemainderOfRemainder), that each element is in the bucket of its key, and that a
  thread in Clear or Rehash holds exactly the mutexes it has counted; since all
  take them upwards, the one that holds them all is alone, and an Insert, Erase or
  look-up that holds one has the bucket to itself. SizeCountsElements compares size_
  with the number of cells, which are a finite set. For the refinement, the values
  of a key are the values of its cells in the order of the walk. Ranks in a finite
  strict order list its members (InOrderLists, OnlyOneOrder), so a step that moves
  cells and keeps their order keeps the values (MovedElementsKeepValues): a push
  adds one cell after those of its key, an erase takes the first of them and moves
  others up by one, and a rehash appends the elements of the old walk to the new
  buckets, where those of one key stay in order. An Insert that pushes a key that has a
  value already is the exception by its definition: the proof shows that the new value
  comes behind. So neither FlattenSeq nor a sum of
  lengths, which are recursive, has to be reasoned about.
- *Editor.* Undone takes back what Do did, on every view whose cursor is in the text
  (TypeLeads, BackspaceLeads, LeftLeads, RightLeads, from two lemmas about InsertAt and
  RemoveAt), but the commands do not name the view they were made for. The invariant
  says that they meet it: the last Len(past) commands of log_ lead each from its view
  in past to the next, the last of them to the text as it is, and those in relog_ the
  same way through future, until an Undo comes right after a Redo (`lost`). A Redo
  moves `past` to `before`, out of reach of the log, since the code does not log the
  command again. Within the bounds of the
  invariant the cursor never wraps and no index is outside of the text.
- *JpegDecoder.* From the frame header on, the Stats are those of the image
  (StatsSound), whatever segments follow, since a second frame is refused and hanging
  tables changes no factor (WithTables). Blocks are counted against
  `img_block_cnt_` as they are completed, so at the end there are as many as the
  image's MCUs hold (ScanSound). For a file that was decoded the Image could be made,
  so the sides are what the file says, and SizeAssumption keeps the products below the
  size_t; a negative side never gets to the pixels. The sums over the components have at most three terms
  and are taken one by one. What remains is arithmetic: the MCUs cover the
  image and no fewer would (McusAreLeast), and a pixel's place in the grid of the MCUs,
  of the blocks of one and of the samples of a block is where the encoder put it.
- *SchemeParser, lexemes.* CutAt says that a text is cut between two characters:
  its lexemes are those before followed by those after. ScanIs shows that GetToken, which
  takes characters while their class allows it, stops exactly after the longest lexeme
  and gives its token. The lexemes of a text and what a sequence of them
  denotes are recursive functions of sequences; that there is a function that obeys such
  a rule is shown without an induction theorem, from the rule's looking at
  shorter sequences only: were there a sequence without its value there would be a
  shortest.
- *SchemeParser, the notation.* SchemeGrammar splits a sequence of lexemes in all ways.
  By the least length again, no datum is the beginning of another and no two trees are
  denoted by one sequence (NotationIsUnambiguous), so a parser that decides on
  the way need not try anything twice, and `Data` has one value (DataIs): as many data
  as can be found from the left, until none begins (Stuck).
- *SchemeParser, the machine.* ReadingInv ties the stack to the lexemes (StackAt):
  the calls that wait have begun, one after the other, at certain lexemes, and what is
  between two of them are the items the outer call has read, its bracket and its dot.
  The stream is the text after a cut; the token in hand is the next lexeme (OneInHand)
  or, in a list at the end of the text, the number 0 that no lexeme stands for
  (ZeroInHand), which IsEnd keeps from being used. That nothing else
  than a datum is read follows item by item. That no datum is refused is the other half:
  when the innermost call meets a lexeme it cannot use, no datum begins where that call
  does (CallIsStuck), so its caller is stuck as well, and so on up to the
  client (StackIsStuck), whose data are then all there are.
- *TimerQueue.* A Pop that waits has read a top that was the least; Add wakes all
  that wait and taking only removes, so no element can be earlier than what a
  sleeper waits for. What Pop takes is what it read, since it kept the mutex; if it
  read that there is nothing, what it takes and returns is the exception.

In each module one lemma says that the initial states satisfy the invariant and one
that every step keeps it (`InitInv` and `NextInv` in most), and the theorems cite
them.

Only model-checked:

- every liveness property, since the prover has no ENABLED and no fairness (`LockFree`
  of both lock-free structures, `WritersGetThrough`, `EveryWaiterEnters`, `Meet` of the
  unbuffered channel, `SomebodyReturns` and the others of that kind, and that reading
  and decoding end);
- `WritesWhatItReads` of SchemeReader: Serialize and the decimals of a number are
  RECURSIVE operators, in whose presence the prover has no arithmetic;
- `DecodedIsEncoded` and `RefusesOnlyBadFiles` of JpegDecoder: what the encoder makes of
  an image is folded, bit by bit, over sequences of any length, and the tree of the
  codes is built the same way. That decoding inverts it is an induction over that data
  at every level, and the prover has no induction theorem; what the proofs above
  do by a shortest counterexample has not been carried that far.

## 6. Plan

Done, in this order: the two locks, the semaphore, the two channels, the timer
queue, the hash table, the Scheme memory, the editor; then MPSCStack, the JPEG
decoder with its Huffman tree, and the Scheme reader. Proofs: every
safety property and every refinement of the ten of them that do not read an input, then
of the decoder what concerns the image's layout, and of the parser both its safety
properties.

Next:

1. *Scheme evaluator* (`scheme/advanced/functions_*.cpp`): evaluation of what
   SchemeReader reads, over SchemeMemory, so that an error's place decides which
   scopes stay behind.
2. *Ranges of baby-threads* (`is_prime.cpp`, `reduce.h`, `find_subsets.cpp`): how a
   range is split over threads, against "each index once".
