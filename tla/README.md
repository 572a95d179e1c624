# gorilla-core in TLA+

gorilla-core is a C++ library of base services: containers, memory, threads,
streams, files, processes, strings. This directory holds TLA+ models of it, the
TLC configurations that check them on small instances, and TLAPS proofs of the
properties that matter most for every instance. All paths below are relative to
the root of the repository; `src/...` is the library, `tests/unit-tests.cpp` the
tests.

Check a run with `tlc -config X.cfg M`, the proofs with `tlapm M.tla`.

## 1. Inventory

The library has no server and no protocol: each component is a passive object
and its state machine is the sequence of calls its owner makes. What makes such
code hard is long mixes of calls (storage that grows, moves and is shared
between objects), callbacks that call back into the object that runs them, and
in two places threads.

| component (files under `src/`) | state it keeps | operations | hard part |
|---|---|---|---|
| BufferQueue (`container/buffer_queue`) | one heap block, capacity, two byte offsets | push, pop, clear, reserve, swap, copy, move | records laid out in raw bytes; growth copies the block; three operations exchange raw pointers |
| CommandQueue (`container/command_queue`) | a BufferQueue of calls | four kinds of push, pop (runs the call), the rest forwarded | the callback gets a pointer into the block and may push or pop itself |
| Vector (`container/vector`) | array, size, capacity, owner bit | add, insert, remove (swap with last), expand, reserve, copy, move | copy and move disagree with their comments; growth moves the elements |
| HashMap (`container/hash_map`) | open-addressed array of nodes | add, get, iterate, reserve (rehash), copy | an entry must survive every rehash |
| Dictionary (`container/dictionary*`) | a root, pages of data one behind the other, linked by page and offset; the names | add, find, remove, set of typed values, clear | a datum that grows moves to another page and every link to it has to follow; place, link and room are counted in three fields |
| MemoryManager (`memory/memory_manager`) | pages, headers in front of every chunk, list of free chunks, statistics | allocate, deallocate, set_page_size, set_domain | chunks split and join; pages move in their vector |
| ConditionVariable, Mutex, Thread (`thread/`) | a mutex and a wait set of the operating system | wait(predicate), signal, lock, unlock, join | the predicate's data changes outside the mutex; unix wakes one waiter, Windows all |
| Signal (`signal.hpp`) | vector of receivers | connect, disconnect, send | callbacks that connect and disconnect during send |
| Streams (`stream/`) | file handle, buffer, position; or vector and position | open, read, write, seek, flush, close | what is buffered, against what is in the file |
| Dictionary streams (`stream/dictionary/`) | parser position, dictionary under construction | read, write in binary, json, csv | nesting; a round trip gives the dictionary back |
| File system (`file_system/`) | none of its own: the tree of files, the descriptors and the working directory of the process | check, open, close, copy, move, delete, list | every function is several system calls between which others come, of which one may fail, and two change the working directory |
| Process, CommandLineParser | pipes, options | execute, parse | a wait in a loop |
| Strings, Path, Hash, Log, Time, Memory, Singleton | text, a pointer | pure functions and wrappers | none that interleaves |

How they interact: CommandQueue owns a BufferQueue and forwards to it;
MemoryManager keeps its pages and its free list in Vectors, and removes from
them by swapping with the last element; Dictionary, streams and strings are
built on Vector; the file streams call File. Threads meet only through objects
their clients share; the one concurrent client in the repository is
`test_thread` (`tests/unit-tests.cpp:1187-1257`).

What makes each correct:

- BufferQueue: every store is inside the block, no block has two owners, waiting
  records stay complete and in order, and so the queue is a FIFO.
- CommandQueue: commands run in order, and the data of a running callback stays
  in place as long as the implementation lets it.
- Vector, HashMap: what was added and not removed is there, once.
- Dictionary: parent, child and sibling links form one tree; the data of a node
  is in exactly one place.
- MemoryManager: chunks never overlap, pages live as long as an allocation in
  them, the statistics say what is allocated.
- ConditionVariable: no wake-up is lost; its client terminates.
- Signal: who stays connected while the signal is sent is called, who was never
  connected is not, and nobody is called twice when nobody is disconnected.
- Streams: the buffered file is the file.
- Dictionary streams: what was written is read back; a text that ends early is
  refused and leaves the beginning of the tree; writing a table ends.
- File system: a result says what is so in the tree; a copy equals its source; a
  directory told to be there is there; the working directory stays.

## 2. What is modelled

### Fifo, BufferQueue, MCBufferQueue, QueueProofs

`BufferQueue` models `container/buffer_queue.{hpp,cpp}` to the byte. Its
variables `m_buffer`, `m_capacity`, `m_start`, `m_end` are the fields of each
queue; `heap` is the memory the blocks are in, each byte holding which record
was stored there and at which position of it. There is one action per
operation, and `Reserved` is the effect of `reserve`, which `Push` and `Reserve`
share. `queued` is a ghost: the records the caller pushed and did not pop yet,
with their offsets. A store outside the block does not appear in `heap`: it hits
memory that is not the queue's.

The copying assignment of the code overwrites `m_capacity` before it calls
`reserve(m_capacity)`, so nothing is allocated and the copy goes to a null
pointer: `CopyAssign` sets `crashed`, after which nothing happens (this is why
the run does not check deadlock). The moving constructor calls the copying
assignment, so it ends there too. The destructor frees nothing and is no action.

`Fifo` is what the queues promise: each is a sequence of records. The refinement
`Abstract` maps `queued` to it and the record `pop` reads out of the block to
its output, so `ImplementsFifo` says that what pop returns is what was pushed
first.

### CommandQueue, MCCommandQueue, QueueProofs

`CommandQueue` extends `BufferQueue` with `calls`, the stack of callbacks that
run. `PopCommand` enters a callback and `Return` leaves it; in between every
other operation may happen, which is a callback calling back into the queue it
was run from, or another. A callback with data keeps a pointer into the block.
The code gives no promise about how long that pointer is good; the ghost
`promised` states the one the implementation keeps: until a push finds the queue
drained, or a push or reserve moves it to a new block. `ArgumentStable` says the
data stays in place that long, whatever else is called meanwhile: pops, clears,
swaps, pushes that fit.

### ConditionVariable, PingPong, PingPongProofs

`ConditionVariable` has the primitive steps of `thread/condition_variable_*.cpp`:
lock, unlock, fall asleep with the mutex given up in the same step, wake one
(pthread) or all (Windows), and wake-ups nobody asked for. `PingPong` runs the
two threads of `test_thread` over them, with one step for each load and each
store of the two fields they share without a lock, `value` and `foo_done`.
`foo_done` starts with any value, because the test does not set it. Every
access is followed by a call of the library before the next round of the loop,
so no compiler keeps the fields in registers across rounds; the interleaving is
of single loads and stores of aligned words.

### MemoryManager, MCMemoryManager, MemoryManagerProofs

`MemoryManager` models `memory/memory_manager.{hpp,cpp}` for one thread. A chunk
is a page and an offset; `header` has the AllocationHeader of every chunk that is
allocated or in `m_frees`; `m_pages` is the array of the vector, with the slots
past its size, because a stale index reads them. `Allocate` is the first-fit
search or the new page (`FromFrees`, `FromNewPage`) followed by `Carve`, the
second half both share. `Deallocate` is `GiveBack` when the page lost its last
allocation, `Join` otherwise. `live` is a ghost, the chunks the caller has;
`corrupted` is set when the code reads or writes memory that was given back or
belongs to the caller, and nothing is modelled after that.

The code has three defects (section 4). Two of them
destroy what follows, so the ghost `sound` records that neither has happened
yet: no chunk was joined with a free chunk behind it of another size, and no
page was removed but the last one. `Tiling` (with the types and the counts of the pages) and `PagesExact` hold
while `sound` does; `FiguresExact` holds regardless, until memory is corrupted.
`StatisticsExact` is the last two.
A unit of the model is 8 bytes: PageHeader is one, AllocationHeader two.

### Signal, MCSignal, SignalProofs

`Signal` models `signal.hpp` for one thread. `m_array` is the array of the
vector with the slots past its size, because the loop of `send` visits them after
a callback disconnected somebody. `sends` is the stack of running sends; `Call`
enters a callback, `Return` leaves it, and in between the callback may `Connect`,
`Disconnect`, `DisconnectAll` or `Send`. Each running send keeps as ghosts who was
connected throughout, who was connected at any time, and whom it called. Removing
by moving the last receiver to the hole and reading the count once go together:
`NobodyMissed` would fail if `remove_index` kept the order of the receivers, and
`SentOnce` if the loop read the size again.

A slot has one word for the pointer to member function. In the Itanium ABI, which
gcc and clang follow, such a pointer takes two (`FunctionWords = 2`) and the second
overlaps the next slot; then every property but `CalledOnObject` (section 4) is
meaningless, because the callback runs on a wrong address (`misdirected`). The
passing run is the ABI where it takes one.

### FileBytes, ByteFile, FileStream, FileWriter, FileStreamProofs

`FileStream` declares what both file streams have: a handle, the position of the
system in the file, a buffer and a position in it. `FileWriter` models `stream/file_writer.{hpp,cpp}` over one file of the system,
which `disk` and `offset` are (`FileBytes`; `file_system/file_unix.cpp` as the
writer uses it). A byte is named by the call of write it came with and its place
in that call, so that bytes of two calls are never mistaken for each other.
`Flushes(needed)` is the flush most calls begin with: the buffer goes to the
file, and if the system does not take all of it the call ends there with false
and keeps the buffer (`Refused`). The rest of the call goes on from what the
flush left, in the same action. The typed writes are writes of a size.

The system may refuse to open, and may take a part of a write or nothing of it.
If it takes a part of the *buffer*, the code keeps the whole of it and the next
try stores that part twice; nothing in the repository promises otherwise, so the
ghost `torn` records it. The caller writes to open streams only, as
`Dictionary::write` does.

`ByteFile` is the promise: contents, a position, and writes that store all of
their bytes at it, or when they return false the first few. The refinement maps
`Content` (what is on disk with what is buffered laid over it) and `GetPosition`
to it, so a byte that is in the buffer counts as written, and has to come to be
where it was written, whatever seeks, flushes and large writes come between. It
promises nothing after `torn`.

### FileReader, FileStreamProofs

`FileReader` models `stream/file_reader.{hpp,cpp}` over a file that does not
change, whose bytes are their own positions. `Read` is one call: what the old
buffer has left (`Rest`), then the rest from the file directly (`ReadDirect`) or
from the buffer, filled when `m_buffer_position` is 0 (`ReadBuffered`).

The code does not remember from where the buffer was filled nor how far, and
`seek` only sets the place in the buffer. So most seeks, reads past the end, and
an empty read where the buffer would be filled, leave a stream that is no file
any more. The ghosts `position` (where the caller is), `filled` (how much the
buffer holds) and `regular` say which calls are still fine: reads inside the
file, and seeks to where the first buffer reaches. `ReadsExact`, `NoOverrun` and the
proved `PositionInFullBuffers` are about those. They are what the dictionary streams
do: read forward, field by field or the file in one piece.

### NamedTree, Dictionary, MCDictionary, DictionaryProofs

`Dictionary` models `container/dictionary.{hpp,cpp}` and `dictionary_node.{hpp,cpp}`.
`data` has the datum at each place (a page and an offset), as long as links lead
there from the root; `m_pages` is the number of pages in use, and `slots` the array
of the vector of that name, which keeps its pages when the dictionary is cleared:
each slot says with which allocation its page came. `m_current_data`,
`m_current_id`, `m_current_offset` and `m_hash_offsets` are the fields of the class.
A unit of memory is 4 bytes and a name is its hash. A node without a name has
whatever hash the memory held before, because the code does not set one, so the
model takes any. BOOLEAN and INTEGER64 stand for all formats of their size.

The steps that touch memory take it as a record and return it (`Allocated`,
`Reallocated`, `AddPage`, `Patched`), and an action composes them as the code
composes its calls; `Becomes` makes the result the next state. There is one action
per operation: `AddNode`, `RemoveNode`, `SetFixed`, `SetString`, `SetBuffer`,
`SetBufferStrings` and `Clear`. `operator[]` is `Find` followed by `AddNode`. Callers
use a handle they got after the datum last moved, add to objects and arrays only,
and set the root to nothing else; the assertion that only the last datum changes
its size is a guard.

Four calls break the dictionary. `Careless` names them, and a run lists in `Avoided`
those its callers do not make: moving a node whose parent is not the root
("nested move"), adding to a parent whose LastChildId is wrong ("add after remove"),
a datum over pages of different allocations ("split datum"), and copying a buffer of
strings to a place shorter than the old bytes ("long copy"). The run avoids the
four; section 4 says what happens otherwise.

`NamedTree` is the promise: nodes with a value, or with children in the order they
were added, and calls that change the one node they name. `Content` follows the links
from the root to the tree they stand for; `ImplementsTree` says that wherever data lie
and move, the rest of the tree stays as it was.

`DataPlaced` says that every datum lies where its id says, inside its allocation
and apart from the others.

### DictionaryText, DictionaryJson, DictionaryCsv, DictionaryStreams, MCDictionaryStreams

The four files of `stream/dictionary/`, with `StringHelper::to_value` and
`to_string` as they use them. A node is a record of its format and its value, or
its children in order; a text is a sequence of characters, of which a number, a
word or a special character is each one, so that the parsers find the same
boundaries the code finds. `DictionaryText` has the values and their conversion:
the widths of the formats, the numbers whose text loses digits (`Gapped`), the
escaped quotes. `DictionaryJson` and `DictionaryCsv` are the parsers and writers,
translated function by function; a reader returns the node it made, the place
where it stopped, and whether it ran into what C++ leaves undefined.
`parse_array` uses a variable nobody set when an array has one element
(`dictionary_json_stream.cpp:267`), so the caller passes what it held
(`leftover`).

`DictionaryStreams` is the machine: a dictionary is filled, written in one of the
formats to a stream that may refuse any write and so end the text anywhere, and
read again, by the same dictionary or a new one (`Renew`). A table is written row
by row (`WriteRow`), because whether its writing ends is a question. The pages are
counted as far as the binary stream goes by them.

`ReadsBack`, `TruncatedRefused` and `RefusedIsBeginning` speak of what a format
can tell: `JsonKeeps` and `CsvKeeps` say which trees those are, and everything
they leave out is in section 4.

### Collections, Vector, HashMap, MCHashMap, HashMapProofs

`Vector` models `container/vector.hpp`. A memory (objects, arrays, lost arrays) is a
record; each function of the class is an operator from a memory to a memory that
calls the others as the code does (`Opened` of `insert` calls `Added` or `ExpandedTo`),
and each public function an action. `Objects` also has the vectors inside other
containers. `add` and `insert` take a reference: of an element of the vector itself
it reads anything once the vector has grown (`Passed`).

`HashMap` models `container/hash_map.hpp` on top of it: nodes in the array of such a
vector, first inside the map. `add` is a loop of probing, doubling and carrying every
node over, one step each (`Found`, `Grow`, `Rehash`, `SetTable`). A key is its own
hash; `Masked` is `&`, as a recursive function. `client` chooses at the start whether a behaviour is about vectors or maps.

`Collections` is the promise: sequences and functions, changed by one call each and
no other container with it. A vector that was moved from, and a map that was
assigned to, are `Unspecified` until they are assigned to or made anew (section 4).

### FileSystem, MCFileSystem, FileSystemProofs

`FileSystem` models `file_system_unix.cpp` as the static functions several threads
call at once on one tree. A step is one system call, or one `fts_read` with what the
code does to the entry; the job of a thread holds the locals of its call. `fts`
changes the working directory of the whole process while it walks, and the numbers
of `fts_info` are those of the system, because `delete_directory` and `list` test
their bits. `get_size` and `read` of a copy are one step; the descriptors `fts` itself
takes are not counted; a write may be cut short; a rename of a thing over itself
succeeds and leaves it. No name starts with a dot, and one
thread walks at a time: two would change the working directory under one another.

`disturbed` is a ghost: what the others changed since a call began. `CallsAnswer` is
about calls nobody came between, from any tree that any calls left behind;
`CreatedExists` is about those that others did come between.

### Slips

Next to some definitions stands a second one with an underscore in its name, such
as `Pop_FromBlockStart`: a plausible mistake in the same operation. Nothing uses
them in a specification. Putting one in the place of its original makes the
property listed with it in `PROJECT.json` fail, which shows that the property
says something about the code.

## 3. Runs that hold

| run | module, cfg | shows | bounds |
|---|---|---|---|
| buffer_queue | MCBufferQueue | `TypeOK`, `CapacityCoversSize`, `Ownership`, `Layout`, refinement of Fifo | 2 queues, 3 blocks, 3 pushes of 0 or 2 bytes, header of 1, reserve(4) |
| command_queue | MCCommandQueue | `ArgumentStable` | 2 queues, 3 commands with and without data, callbacks 2 deep |
| ping_pong | PingPong | `Outcome`, `NoLostWakeup`, `NoLostIncrement`, `Termination` | limit 6, 2 spurious wake-ups |
| memory_manager | MCMemoryManager | `Tiling`, `StatisticsExact` | 2 pages of 10 units, 5 allocations of 0, 1 or 8 units, a page size of 6, one more domain |
| signal | MCSignal | `TypeOK`, `CalledWereConnected`, `NobodyMissed`, `SentOnce` | 3 objects, sends 2 deep, pointers of one word |
| file_writer | FileWriter | `TypeOK`, `ClosedIsFlushed`, refinement of ByteFile | buffer of 3, 4 writes of 0 to 4 bytes, seeks to 0 and 4, 1 refusal |
| file_reader | FileReader | `ReaderTypeOK`, `ReadsExact`, `NoOverrun` | buffer of 3, files of 0, 2, 3, 5 and 8 bytes, reads of 0 to 5, seeks to 0, 1, 2, 3 and 5, positions to 9 |
| dictionary | MCDictionary | `TypeOK`, `DataPlaced`, `ObjectsNamed`, refinement of NamedTree (`ImplementsTree`) | 2 names, pages of 9 units, 3 nodes or 2 nodes with 3 pages, strings of 4 and 13 units, buffers of 5 to 15 |
| dictionary_streams | MCDictionaryStreams | `TypeOK`, `ReadsBack`, `TruncatedRefused`, `RefusedIsBeginning`, `WritingEnds` | 13 trees, 3 calls, 3 rows, texts cut anywhere |
| containers | MCHashMap | `ArraysOwned` (with `TypeOK`), `EntriesFound`, refinement of Collections, `AddEnds` | 2 vectors of at most 3 elements of 2 values, or 2 maps of 4 keys and a first table of 2 slots; 3 calls |
| file_system | MCFileSystem | `TypeOK`, `WorkingDirectoryKept`, `CallsAnswer`, `CreatedExists`, `CallsReturn` | 2 threads, 3 calls out of 12 and closing, 2 descriptors, 3 trees |

Why the bounds are enough. Three pushes on two queues with three blocks give a
queue that grows with records waiting (the old block, the new one and the other
queue's), one that drains and restarts, and one whose block was taken by swap or
move; empty payloads give the smallest record. The proofs cover every larger
instance. Limit 6 lets each thread go three times through every phase, 2 spurious
wake-ups let each be woken too early. Five allocations on two pages reach: chunks
split, kept whole because the rest is a header or less, joined on either side, a
page with no free chunk listed (8 units and a header are the default size), a
page given back with free chunks in it, and a page given back while another is
alive. Three objects let a callback remove the receiver before, at and behind the
loop while another stays. Around a buffer of 3, sizes of 0 to 4 are: nothing, less
than the buffer, all of it, and more; four writes fill it, pass it by, seek back
into what is on disk and overwrite it; one refusal falls on the flush or on the
direct write of any call, and the call is tried again. Files of 0 to 8 bytes end
before, at and behind the end of the first buffer and inside the third, and reads
of up to 5 cross one end of a buffer with a rest on either side of its size.
Two objects fill a page of the dictionary, the longer string and the longer
buffer take two pages of their own. Three nodes are what removing the one in the middle and
nesting two deep need; a datum that moves needs two nodes and a page to go to, and
a third page lets it move again, or be put into the slots of a dictionary that was
cleared. The run takes two to three minutes; `MaxTotal` is what keeps it there.
The thirteen trees have each format, nesting of every container in every other, an
array that becomes a buffer, tables with columns of two lengths and with special
characters in a cell, two pages, and one tree for each thing a format can not tell;
three calls are a fill, a write and a read, or a read of one text after another, and
three rows are one more than the longest column. The keys 3, 7 and 0, 4 meet in
tables of 2 and of 4 slots and part in one of 8, at whose last slot 7 stands; three
calls add the third key through two doublings, and add again or assign after a clear.
Two vectors of three are moved, copied and joined with one another and with
themselves, before and after each has grown. On the full tree a walk goes two levels
down; two threads are what a test followed by a creation needs, and the third call
comes after a walk that failed or with the descriptors used up.
Blocks, queues, objects, pages and names are interchangeable, hence the symmetry sets;
the liveness runs use none.

Fairness. PingPong: weak fairness of each thread and of the main thread,
which is that the operating system schedules a thread that can run. Nothing is
assumed about who gets a mutex first; a mutex here has two contenders and is
given back after a bounded number of steps. FileSystem: weak fairness of the steps of
each thread inside a call. HashMap and DictionaryStreams: weak fairness of the rounds
of `add`, and of the rows of a table, which the calling thread runs and nothing can
hold up; that they come to an end is the question. Nothing makes a program call. The
other modules have no liveness: their objects act only when called.

## 4. Runs that disagree with the repository's own words

| run | what the repository says | what the code does |
|---|---|---|
| memory_own_page | the comment: deallocate gives back the memory at the address (`memory_manager.cpp:148`) | the last page moves to the freed slot and its headers keep the old index (`memory_manager.cpp:177`), so a later call frees another page under a live allocation |

The tests pass because they free in the order they allocated, from one page at a
time but the last; disconnect nobody from a callback; set nested nodes while the page
has room for them; and clear the dictionary after the one child they remove.

Met while modelling, without a run of their own (the definitions named stand in the
modules, and TLC refutes them when they are given to a run):

Containers, memory and signals

- The loop of `send` visits the slots a disconnection gave up (`signal.hpp:88`) and
  calls an object that is disconnected, or one twice, while the comment says it sends
  to connected objects (`signal.hpp:82`): `OnlyToConnected`.
- `get_parent_data_internal` tests its argument in the place of the id it found
  (`dictionary.cpp:168-175`) and always returns the root, so the loop that "patches
  parent and siblings" (`dictionary.cpp:289`) patches nothing when a nested datum
  moves, and its new value is lost: `NoneLost`, without "nested move".
- The two cases of "handle the remove of the last one" (`dictionary.cpp:152`) are
  exchanged: LastChildId becomes wrong whenever a sibling is left, and the next add
  cuts the list or follows an invalid id: `LastLinked`, without "add after remove".
- The moving assignment of `Vector` does not delete the array it had, and leaves its
  size and capacity to the source, on a null array (`vector.hpp:343-355`); an `add` to
  the source then stores through null. The comment promises a move.
- `add` and `insert` of an element of the vector itself read it after the array was
  deleted (`vector.hpp:132-138`, `167-182`).
- The assignment of a `HashMap` copies as many nodes as there are entries, from the
  first one, wherever the entries are; it keeps old entries when the source is empty;
  and a later `add` may move the nodes away from under the one it found
  (`hash_map.hpp:43`, `150`).
- Keys that agree in all the bits a table can have double it until memory is used up.
- `Vector::expand(size, value)` and `HashMap::remove` (`hash_map.hpp:166`) are
  templates nobody instantiates, and do not compile.
- Joining with the free chunk behind adds the chunk's own size in the place of the
  other's (`memory_manager.cpp:198`), so `memory_allocated` does not come back to 0
  (`unit-tests.cpp:1168`) after some orders of freeing: `AllReturned`.
- A pointer to member function of two words is stored in one (`signal.hpp:60`), and
  the next slot's bridge becomes part of the object's address: `CalledOnObject`, with
  `FunctionWords = 2`.
- `FileReader::seek` sets only the place in the buffer (`file_reader.cpp:86`). Before
  the first read the buffer was never filled, and behind the first buffer it is
  another part of the file, while the test expects the byte at the place
  (`unit-tests.cpp:196-200`): `SeeksExact`.
- A dictionary that was cleared uses its old pages again, and a datum of several pages
  may then lie over pages that were not allocated together (`dictionary.cpp:263`,
  `dictionary.cpp:405`): "split datum".
- A buffer of strings that moves copies all its old bytes, also into a shorter place
  (`dictionary_node.cpp:540`): "long copy".
- The setters of buffers of one-byte elements pass the count as the size of an element
  too, and so store count * count bytes (`dictionary_node.hpp:445`, `:451`, `:475`). The
  model's `SetBuffer` takes the bytes, whichever they are.
- `deallocate` adds the size to the figure of the domain a second time
  (`memory_manager.cpp:156`) although it is there to take it off. `DomainsExact`
  says what it should be; the first deallocation breaks it.
- Past half of 32 bits `new_size << 1` wraps in `BufferQueue::reserve`
  (`buffer_queue.cpp:61`), which then does nothing, and push stores past the
  block. The run and the proofs keep below (`NoOverflow`); with `Word = 16` the
  same run breaks `CapacityCoversSize`.
- `FileWriter::get_size` counts what is buffered on top of the file also where it
  overwrites bytes of it, after a seek back (`file_writer.cpp:78`): `SizeExact`.
- `FileReader::get_position` takes a short last buffer for a full one
  (`file_reader.cpp:59`): `PositionExact`; `PositionInFullBuffers` is the part
  that holds.
- A flush of which the system took a part stores that part again when the call
  is repeated (`file_writer.cpp:99`): the ghost `torn`.
- `MemoryWriter::write` expands by the whole size after a seek back, too, and leaves
  bytes behind the end (`memory_writer.cpp:52`).

Files

- `copy_file` closes neither file, because both conditions are inverted
  (`file_system_unix.cpp:126`, `132`): descriptors run out, and calls then fail half
  way. A copy that fails leaves a destination that was emptied; a file that is copied
  onto itself, and fails, is lost.
- `create_directory` returns false when another thread makes a directory between its
  test and its `mkdir`; `open_file` does not look at the result.
- `delete_directory` tests the numbers of `fts_info` as bits: links, fifos and
  unreadable directories are given to `rmdir`, which fails, after a part of the tree
  is gone. It then returns without `fts_close`, and the process stays in the directory
  the walk had reached. A relative path of a directory that is not empty is always
  refused that way. The path of a file deletes the file.
- `list` puts fifos among the directories and links among the files, for the same
  reason.
- `delete_file` deletes an empty directory.
- `Path::format` takes a name that starts with a dot for "." or "..":
  `create_directory("a/.git")` returns true having made "a".

Dictionary streams

- Text to numbers (`string_helper.cpp:69-187`): a word without digits that has the
  signs of a number is the integer 0. Numbers to text: a group of nine digits loses
  its leading zeros (`:244-254`), a fraction that rounds up underflows the precision
  (`:305-337`), and values of UINTEGER64 are written as signed ones
  (`dictionary_helper_stream.cpp:105`).
- JSON: an array of one number uses an unset variable (`:267`), one of integers and
  floats keeps raw bits of either, `[` at the end of the text recurses without end
  (`:334`), `parse_string` reads a byte past the end (`:60`), strings are not escaped,
  an array of values as root spoils the root, and the root of a dictionary that was
  cleared stays an array.
- CSV: a quoted string in the last column takes the next line in (`:83-106`); an
  unterminated quote at the end of the text does not end; the type of a column is that
  of its first row; a short row repeats cells of the row before; the last character
  goes without a newline at the end; a table with an empty buffer is written for ever
  (`:435`), and one whose arrays are shorter than its buffers goes through a null node.
- Binary: the bytes go to the first allocation and are looked for in the pages, which
  are others after the dictionary was used (`:38`); a dictionary without pages writes
  its root and does not read it (`:21`).

## 5. What is proved

For every value of the constants, assuming only the named assumptions of the
modules:

- **QueueProofs**, of the buffer queues under `NoOverflow == 2 * MaxEnd < Word` (no offset passes
  half of the word; section 4 says what happens without). `IInv` is the
  conjunction of the four invariants the run checks. It is inductive, in the form
  `Safe`, which speaks of one queue at a time (`QueueOK`) and of two at a time
  (`Apart`): a step on one queue then leaves the other queues alone because their
  blocks are different. Layout needs Ownership (a store in one block is not seen
  from another) and Capacity (a store is inside the block), and Capacity needs
  the types, hence one invariant. From it: `TypesHold`, `CapacityIsEnough`,
  `BlocksAreOwned`, `RecordsStayInPlace`, and `QueuesAreFifo`, the refinement of
  `Fifo`, step by step.
- **QueueProofs**, of the command queues: `CommandQueueIsBufferQueue` (so all of the
  above holds of them), and `ArgumentsAreStable`. Its invariant `CallSafe` adds, to
  the record being in place, that the argument lies before `m_start` of whichever
  queue owns its block now, or that queue is drained: a push that neither restarts
  nor moves the queue then stores behind it.
- **PingPongProofs**: `Invariance` for any even limit and any number of spurious
  wake-ups. The invariant ties the parity of `value` to the program counters (who
  may be between the test and the store), which is what makes the unlocked
  increment safe, and says where the signal is while a thread sleeps. From it
  `TypeCorrect`, `OutcomeHolds`, `WakeupsArrive`, `IncrementsAreKept`.
- **FileStreamProofs**, of the writer: `WriterIsFile`, the refinement of `ByteFile`, with
  `WriterTypes` and `NothingHeldBack`. Two lemmas on files carry it: a file with
  bytes stored in it is a file (`OverlayIsFile`), and storing n bytes and m behind
  them is storing n + m (`OverlayAppends`), which is what collecting writes in a
  buffer rests on. `FlushDone` and `FlushRefused` say what the flush of a call
  leaves, and then there is one lemma for each call. The invariant is the types
  and `ClosedIsFlushed`; without the latter `open` of a closed stream, which does
  not flush, would lose what the buffer held.
- **FileStreamProofs**, of the reader: `ReadsAreExact`, `ReadsStayInside`, `PositionIsRight` and
  `ReaderTypes`. The invariant adds where the bytes are: the buffer holds the
  `filled` bytes before the position of the system (`BufferMatches`), a buffer
  that was not filled whole ends where the file ends (`ShortAtEnd`), and the
  caller is at `m_buffer_position` of it, or at the system's position when it is
  used up (`PositionMatches`). `RestExact` then gives what a read takes from the
  old buffer, and that the system is where the rest begins.
- **SignalProofs**: `ReceiversAreExact`, `CalledObjectsWereConnected`,
  `NobodyIsMissed`, `EveryoneOnce` and `SignalTypes`, for any objects, any depth of
  sends in sends and both sizes of a pointer. The invariant `SInv` says of the vector
  that no two slots in use hold the same object (`Receivers`), and of every running
  send three things that its callbacks must not break: each slot it will visit, also
  one given up since, holds an object it has seen (`InArray`); who stays connected and
  was not called stands in a slot ahead, unless something was connected
  (`StillComing`: the last receiver that fills a hole may land behind the loop, but
  the slot it gave up is still visited, until a connection overwrites it); and the
  slots are as they were unless something was disconnected (`Untouched`).
- **FileSystemProofs**, under `RequestsOK` (every path names something) and `TreesOK`
  (the trees the program finds are trees): `TreeStaysRooted`,
  `WorkingDirectoryIsKept`, `CreatedThingsExist` and `CallsAreAnswered`, for any
  threads, requests, trees and descriptors. The invariant `FInv` says that each call is at one of its own steps
  (`Stages`), that one thread walks at most and from where the program started
  (`AtHome`), and that a thread which saw nobody move the working directory is where
  it began (`Undisturbed`). With the last, the directory `create_directory` was told
  of in its last step is the one the caller meant, not one of the same name under a
  walk; what others remove before that step does not matter, because a failing mkdir
  ends the call. `TInv` adds what the types need: an entry stands in a directory and
  a file has contents (`Rooted`), and the file a copy reads or writes has a number
  that is in use even when others deleted its name since (`JobTyped`). Each call of
  the system keeps a rooted tree rooted (`MadeOK`, `RemovedOK`, `RenamedOK`); for
  rename that needs that nothing is moved below itself, and that distinct paths
  below the old place stay distinct below the new one (`RebasedApart`).

  `CallsAreAnswered` says what the result of a call tells of the tree it leaves. Its
  invariant `AInv` says of every call nobody came between what it has done so far
  (`Doing`): a copy holds what its source holds (`Copying`); a list has what it found
  and will visit make up the entries of the directory (`Listing`); a delete_directory
  of an absolute path has every entry left below the directory at or below something it
  will visit, a directory that was read only below what comes before it (`Clearing`),
  so that nothing is left when nothing is to visit, and what cannot be removed is a
  link or a fifo. One of a relative path is looked for from wherever the walk stands: as soon
  as the walk goes into a directory with an entry, the path leads below the
  directory that is walked, and what is removed there leaves its own directory behind,
  so that the call does not report success (`Straying`, `StrayLeaves`). What others do
  does not matter to a call they do not disturb (`Unseen`, `SameDoing`).

- **MemoryManagerProofs**: `PagesStayTiled`, `CountsStayRight` and `FiguresStayExact`,
  for any pages, sizes, page sizes and number of calls. The invariant `Inv` has two
  layers, as the properties have. Until memory is corrupted, no chunk is in two places
  and each chunk of a page that exists has a header whose slot was used (`Listed`), and
  the figures are right (`Figured`). Until a size or a page is lost track of, each page
  is cut up exactly (`Cut`), the slot in a header is that of its page (`InSlots`), the
  counts are those of the allocations (`Counted`), and what is allocated is the sum of
  the pages (`Summed`). They need each other: only a count that is right (`Counted`)
  says that the chunks of a page given back are all free, only the slots (`InSlots`)
  say that the loop drops those chunks and no other, and only the cut says that their
  sizes add up to the page (`TotalOfPage`), which is what the code subtracts for it.

  The sums are folds and the list without the chunks of a page is a recursive
  function. The induction theorems of the library take an operator, which the provers
  here cannot instantiate, but an induction over one named set is a least
  counterexample: the sets (or numbers) for which a claim fails are a set, and one that
  is not empty has a least element (`LeastSet`, `LeastNumber`, from the well-founded
  order on finite subsets). So `SumsAgree` and `SumsExist` say that the fold's function
  exists and is unique, `TotalWithout` that it does not matter which chunk is added
  first, and `DroppedKeeps` that filling holes with the last element, from the back,
  loses no other chunk.

- **HashMapProofs**, under `VectorOK` (more addresses than calls, so that `new[]` finds
  one), `HashMapOK` (the first table has a power of two of slots, as
  `HASH_MAP_STACK_CAPACITY` has) and, for the refinement, `UnspecifiedOK` (the name of
  what the source does not define is no sequence and no function): `ArraysStayOwned`,
  `EntriesStayFound` and `ContainersAreCollections`, for any vectors, maps, sizes and
  keys of any number of bits. The first half of the invariant
  (`Typed`) says that each array of `new[]` has one owner, a vector, the table that is
  being made or nobody (`Owned`), that it is as long as its owner says (`Fit`), and that
  there are no more arrays than calls (`Counted`). The second (`Entries`) says that the
  search for the key of an entry ends at that entry (`Placed`), that the size counts the
  entries, and what holds while a table is doubled (`Partial`): the entry that came from
  slot j of a table of c stands no further right than j in one of the two halves. Hence
  the one of j and c + j that the search for the key meets is free when j is carried
  over: the search ends there or before, and no node is lost or null. The search of a full table with
  a slot for every key always ends at the key's own slot, which bounds the doublings.

  The refinement rests on the same invariant. A call of a vector is followed through
  the functions it is made of (`reserve`, `set_buffer`, `expand`, the copies), each with
  what it keeps of the elements, until all of it is one change of one sequence
  (`Effect`) or a move (`Moves`); that no other object is touched (`Others`) is needed
  there, because an array given to two of them would change both. A map answers what
  `Looked` says of its table: with every entry where its search ends, that is a
  function of the set of entries alone (`SameEntries`). So a node put where the search
  for its key ends changes one key (`StoreFunction`), and a table carried over answers
  as before (`CarriedFunction`): each entry of the new table is one of the old, no two
  are the same one, and they are as many. A table that is still being filled is nobody's
  (`Unseen`), and `Grow` and `Rehash` are stutters.

- **DictionaryProofs**, under `DictionaryOK` (a page is no longer than the offset of an
  id can say, and no page has the number of `INVALID`): `DataStayTyped`,
  `DataStayApart`, `DataStayPlaced` and `ChildrenStayNamed`, for any names, page size,
  formats and sizes of values. `DataStayPlaced` is for callers who split no datum
  ("split datum"), the others for all of them. The invariant is of a memory, because an
  operation makes several before it is done (`Good`), in three parts. `Laid`: data end
  before the next one's place and before one another; the three fields that tell that
  place agree while there is room; and a LastChildId, which outlives the child it leads
  to, leads to no place in the midst of another datum (`Marked`), so that no datum is
  ever put where a stale one leads. `IsTree`: there is a function from nodes to parents
  that all links agree with (`Kin`), and a child whose parent is an object has a stored
  name (`Titled`). `Shaped`: the types. A datum that moves is the hard case (`MoveGood`):
  its new place is a place no link led to (`RoomIs`), and the links that are patched
  are those of the root's children, so that a datum deeper in the tree is no longer
  reached at all, which `Kin` allows and `ImplementsTree` does not. What a step no
  longer reaches is dropped (`ReachedTree`). The sizes of pages enter as products, so
  the order of places is that of their first units (`EdgeIs`, `PageOf`).

Only model-checked: `Termination` and the other liveness properties (out of reach of
the prover), the
dictionary streams (their parsers are recursive), that the dictionary implements
`NamedTree` (its `Content` is a recursion over the tree), and the run of section 4.

## 6. Not modelled, and the plan

Next, in this order:

1. Of the dictionary: handles that are used after their datum moved, the iteration
   over children, and the formats of buffers and the reading of their strings.
2. A condition variable with several waiters, waking one and all (no client in the
   repository has two), and the memory manager called from two threads.

Not modelled: String, String16 and Path (text character by character; the conversions
the streams use are in `DictionaryText`), Hash (bit arithmetic; a key of the models is
its hash), Log and Time (output and clocks), Memory (wrappers of the C library),
Singleton (one pointer with an assertion), Mutex (a wrapper no client uses in an
interesting way), CommandLineParser (one switch; `parse` reads past the end when the
last option misses its value, `command_line_parser.cpp:36-59`), MemoryReader and
MemoryWriter (a copy and a position), Process (`process_unix.cpp:57-58` does not
compile), and everything for Windows but the waking of ConditionVariable.
