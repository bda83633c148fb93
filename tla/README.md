# Formal model of mqa

mqa watches captured packets for RTP streams and calculates their quality: packet loss, jitter, delay and
MOS. This directory holds TLA+ modules for its core logic, the TLC runs that check them on small instances,
and proofs for TLAPS. Paths are relative to the repository: `src/RtpStream.cpp` is the detector, and so on
(in `PROJECT.json` the repository is the directory `src/`).

## The system

    capture -> StatsFrameParser -> flow -> thread pool -> interface --> stream -> detector -> metrics
               (frame to flow)     (driver)  (ThreadPool)  (MQmonIf)   (MQmonIf)  (RtpStream)
                     |
                     +-> key map -> entries -> dumper -> blocks of statistics     (AnalyzerImpl)

| Component | State | Operations | Hard about it | Must hold |
|---|---|---|---|---|
| Detector, `src/RtpStream.cpp` | the last N packets, validity, range and count of sequence numbers, noise counter, codec; RTCP reports | indicate RTP or RTCP, detect, reset, set the codec, metrics | 16-bit numbers, late and foreign packets, detection asked for at any time, a window that outlives the stream, reports that come and go | a valid stream's window is one stream; its figures count what arrived; a delay is exact |
| Facade, `src/MQmonIf.cpp` | list of streams, list of interfaces, a flow map per interface, a codec per stream | create, feed, remove and destroy on either path, reset | two paths to one object, five ways to delete it, answers that are the only news of a stream | paths agree, no double delete, the answers tell the truth |
| Thread pool, `src/ThreadPool.cpp` | queue, running flag, count of working threads, condition variable | post, worker loop, counts, destructor | threads, notifications, unlocked reads, a thread that starts during construction | each task run once, in order; workers woken; destructor and owner not stuck |
| `include/ftl/FifoPool.h` | head, tail, end and count in a ring of sized blocks | allocate, peek, pop, iterate | wrap-around with blocks of several sizes, full and empty look alike | a FIFO of disjoint blocks |
| `include/ftl/FixedSizePool.h`, `MultiSizePool.h`, `AdaptivePoolSet.h` | slots or runs of slots with allocated marks; sets of pools | allocate, deallocate, grow, shrink | the next free slot, splitting and merging, unsigned sizes | no slot given out twice, sizes that are true |
| `include/ftl/ftlcollections.h`, `HashMap.h` | trees, chains of nodes, linked lists, buffers of elements | store, remove, move, walk, rehash, grow | rotations around a shared sentinel, unlinking, walks during removal, elements built and destroyed by hand | each is the map, list or sequence it promises to be |
| `include/ftl/timesec.h` | seconds and sub-seconds | arithmetic, conversion | carries and signs by hand, forms that are not normalised | agreement with integers |
| Frame parsing, `src/StatsFrameParser.cpp` | offsets and types of each layer | parse | nested tunnels, fragments | a frame gets its flow |
| Analyzer, `src/AnalyzerImpl.cpp`, `VQStatsKeyMap.cpp`, `VQStatsRtsmDumper.cpp` | tables of connections and tunnels, active streams, an instance count, the end of the sample | feed, notify, output, start, stop, release | directions worked out twice, activations and feeding interleaved, a buffer that fills in the middle of an entry, packet times that jump | conversations told apart, readable blocks, output in time |
| Test programs, `test/src` | a table of flows, pools, tasks from a static pool | post with retry, poll for completion, read the results | polling a pool against its workers, a full queue, packets that go around the interface | what was accepted is done when the poll ends; a stream is fed as through its interface |

`build/CMakeLists.txt` builds `MQmonIf`, `RtpPacketParser`, `RtpStream`, `RtpTypes`, `ThreadPool` and
`emodel` into the library. The analyzer, its key map and its dumper are not built: a header they need is
missing; so is `RtcpPacketParser`, while `StatsFrameParser` is compiled into the test program. `PROJECT.json`
lists every component with its status, and under `hazards` what is hard to test, line by line.

## Modules

| Module | Models | State and actions |
|---|---|---|
| `RtpStreamObject` | the detector as a record, one operator per method | no variables: `NewStream`, `AfterIndicate`, `AfterDetect`, `Invalidated`, ... |
| `RtpStream` | one detector and its callers | `stream`; `IndicateRtpPacket`, `DetectStream`, `Reset`, `SetCodecType` in any order. `counted` is a history of the sequence numbers counted since detection |
| `RtpStreamHistory` | the same with the noise packets recorded, to state what may stop a stream | `noiseSince`, noise packets since the last accepted one |
| `RtpStreamObjectProofs` | lemmas on the operators, for the proofs about all who use a detector | |
| `RtcpStream` | the RTCP half of the detector and `RtcpPacketParser` | `rtp`, a detector record, and `rtcp`, the packets kept and the delay; `exactDelay` is a history |
| `MQmon` | `MQmon`, `CMQmonInterfaceDt`, `CMQmonStreamDt`, over the detector records of `RtpStreamObject` | `streams` and `interfaces` are the lists of `MQmonPriv`, `streamMap` the flow maps, `object` the living streams; one action per public method. `deletes`, `destroyed` and `direct` (streams users created themselves) are histories |
| `MQmonFlows` | users who feed packets through interfaces only and go by the answers | `active`, what they were told; `run`, consistent packets in a row |
| `MQmonProofs` | theorems about both | |
| `TaskQueue` | `StdQueue` and `FifoQueue`, the latter on `FifoPoolObject` | operators; `Forgets` is the state of a `FifoQueue` that looks empty and counts tasks |
| `ThreadPool` | `thread_pool` and `thread_one` | one `pc` per worker; a step is what a worker does between two accesses to shared state. `accepted` and `called` are histories |
| `ThreadPoolJoin` | `ThreadPool` with the owner of the test programs | the owner's posting, retry and polling loops, then the destructor |
| `StreamDriver` | `multi_run` without threads and `StreamTask`: one direction of a flow | `direct`: the detector, whether the direction has its stream (`strm`), the result. `indirect`, the stream had the interface had all packets, and `stopped` are histories |
| `ThreadPoolProofs` | theorems about the pool and its owner | |
| `FifoPoolObject`, `FifoPool` | `ftl::FifoPool` as a record, pointers being offsets in the buffer; one pool and its user | `AllocateBlock`, `Deallocate`; `blocks` is a history of the blocks in use; `Chain` is the blocks its headers lead to |
| `FixedSizePoolObject`, `FixedSizePoolSet` | a pool of equal slots; the adaptive set of them | allocation and release through the lists of pools with room and of full ones; `holders` is a history of how many hold each slot |
| `MultiSizePool` | the pool that splits and merges runs of slots | `header` per slot, blocks `owned` by the user |
| `PoolProofs` | theorems about the three pools and the list, with their inductive invariants | |
| `RBTreeObject`, `RBTreeUpdate`, `RBTree` | the red-black tree as a record with the sentinel as a node; insertion and deletion with their repairs; `RBMap` and `RBMultiMap` and their user | `SetAt`, `Insert`, `RemoveKey`, `RemoveAt`, `RemoveAll` |
| `HashTableObject`, `HashTable` | `ftl::Map`, `ftl::HashMap` and `fastl::HashMap` as one record of bins; their user, who also walks | storing, removing, clearing, rehashing; `cursor` is a walk with the keys it has seen |
| `LinkedList`, `DynamicArray` | `ftl::List`; `ftl::Array` with raw and built cells | one action per method that changes them |
| `RBTreeProofs`, `RBMapProofs` | theorems about insertion into trees and deletion; about searches, walks and `RBTree` | |
| `BoundedFifo`, `SlotPool`, `ItemStore`, `PositionList` | what a FIFO pool, a pool of slots, a map with positions and a list with positions promise | the abstract specifications the detailed ones implement |
| `Library` | all of these, one per behaviour | `part` chooses the container or pool |
| `ContainerProofs` | theorems about the array and the hash tables, and those of its parts for `Library` | |
| `TimeSec`, `TimeRegister` | the arithmetic of `timesec.h`; a time next to the integer it stands for | `Add`, `Subtract`, `Assign`, `Negate` |
| `StatsFrameParser` | from the headers of a frame to labels, tunnel, addresses and ports | operators; a frame is a sequence of headers, an offset an index in it |
| `VQStatsKeyMap` | keys, tables, directions | operators |
| `VQStatsRtsmDumper` | when statistics are due and how blocks are filled | operators |
| `AnalyzerImpl` | analyzers that use the three, and MQmon as they share it | start, stop, release, feeding, activation and deactivation by the engine's library, output. `overcounted`, `fed` and `armed` are histories; `asserting` is the kind of build |
| `Analysis` | the detector, the analyzer, the RTCP half, the driver and the time register, one per behaviour | `part` |
| `AnalysisProofs` | theorems about these parts | |
| `MCMQmon`, `MCThreadPoolJoin`, `MCLibrary`, `MCAnalysis` | small sets for TLC | symmetry; jobs; hash values and bin sizes; frames, reports and packets |

`Library` and `Analysis` put components that share no state into one run. Their state space is the sum of
those of the parts, not the product: `part` never changes, and the variables of the other parts keep one of
their initial states.

An invariant of several parts, such as `PoolsInv` or `AnalyzerInv`, is a conjunction of named formulas, each
with a comment of its own where it is defined. `PROJECT.json` has more than one mutant for those.

Operators with "Faulty variant" in their comment are not part of any specification. Each is a plausible
mistake in the definition that follows, and the list `mutants` in `PROJECT.json` names the property that
tells the two apart.

### How the models abstract

* A packet is the fields the detector reads, or `NotRtp` for bytes `RtpPacketParser::Parse` refuses.
  Sequence numbers are `0..MaxSeq`, timestamps and counters are taken modulo their width where the code can
  overflow (`TimeMod`, `CountMod`, `LossMod`). Header length follows from the number of CSRCs.
* A stream or interface is a member of a finite set and stands for one object from creation on. Pointers to
  deleted objects are not used by callers; what MQmon itself still holds is checked.
* A call on MQmon is one step: the code has no locks, and the model says what one caller at a time sees.
  Two threads that change its `std::list` at once are beyond these models.
* A mutex is held across a step only in label `count` of `ThreadPool`, between the load and the store of
  `workingThreads_++`. The decrement is a load and a store too, without the mutex.
* `TASK2_T<arg_type> task(task, taskProc_)` in `thread_pool` initialises an object from itself. What it then
  calls is undefined; the model lets it be the task's callee or something wild, and lets that call return.
* `thread_one`'s thread is created by the base class. With `EarlyStart` it may call `pool_main` before the
  derived constructor has run and then gets the base class's loop. With `EarlyStart = FALSE` the thread starts
  after construction, the usual outcome.
* A tree or table node is a number, and the buffer of an array a sequence of cells that are raw or built. A
  view leaves out what no method reads: the values, and the numbers of the nodes of a tree.
* A hash value is a constant function of the key, `HashOf`, so that a cfg chooses the collisions.
* A frame is the sequence of its headers and is as long as they say. Where the code would read a port or an
  address from bytes that hold none, it gets a junk value (`JunkPorts`, `JunkAddress`). Where it takes one header
  for another, the header carries the fields the code finds there: a pair of MAC addresses behind labels has
  the half octet the parser goes by (`nibble`) and, if that says IP, the fields read from it; an ESP header has
  the protocol and the length its first two octets spell (`spi`).
* The engine of the analyzer is `ENGINE_TELCHM`, whose streams are those of a library outside the repository: it
  may activate a stream for a packet its interface was given and deactivate an active one at any time. (The
  repository's own streams take no packet this way: `IndicatePacket` is `assert(0)`. The path of the other engine,
  `ENGINE_DRIVETEST`, gives the handler the address of a pointer to a key where it expects the key.)
* The assertions in the handler for activations (`AnalyzerImpl.cpp:80` and `:98`) are the wrong way round: they
  demand a stream set where one is about to be made, and fail at the first activation of each direction. `asserting`
  chooses between a build in which a failed assertion ends the program (`aborted`) and one with `NDEBUG`, which is
  what `build/CMakeLists.txt` makes unless told otherwise (`Release`). Only the second gets beyond an activation.
* A record in a block of statistics is its table, its layer and its key; the sizes of blocks and records are
  constants of a missing header and appear as `HeaderSize` and `BlockSize`.

## Runs

| Run | Question | Bounds |
|---|---|---|
| `mqmon` | lists, maps and objects agree; no double delete; codec shown | 2 interfaces, 2 flows, 2 streams, window of 2, 2 sequence numbers, 2 payload types: two interfaces that share streams' life times, a stream of each kind, one object deleted by each path. The three sets are symmetric: nothing tells their elements apart |
| `mqmon_flows` | what users are told; prompt detection | 1 interface, 1 flow, 2 streams in turn, 2 sources, windows of 2 and 3 |
| `thread_pool` | hand-over, wake-ups, service, destruction | 2 workers, 3 tasks: more tasks than workers, both workers asleep or busy at a post |
| `thread_pool_join` | the owner's loops and the polling worker of `thread_one` | 1 worker, 5 jobs, a `FifoQueue` of two slots that wraps around, is found full and may forget its tasks, 2 tries for a post (`MAX_TRY_ALLOC`, 1000 in the code) |
| `library` | each container and pool under every order of its operations | below |
| `analysis` | detector, analyzer, RTCP half, driver, time | below |

The parts of `library`, about 41 thousand states together:

| Part | Shown | Bounds |
|---|---|---|
| FIFO pool | blocks disjoint, the oldest found, the pool empty when it looks so or its front was filled; `IsFifo`: it implements `BoundedFifo` with `Chain(pool)` as refinement mapping | a buffer of 18 bytes, blocks of 1 and 3 bytes plus headers of 4: three blocks, wraps at every offset, the front filled to the last byte |
| pool set | `SetIsSlotPool`: one holder per slot; the lists tell full pools from others; the slot given next is free unless the first is the only free one; the capacity is what is in the pools | pools of 3 slots growing to 3 pools by the four strategies, unsigned sizes of 4 bits |
| multi-size pool | headers chain through the whole pool, `size()` is what is in use until a block takes the free rest with it | 4 blocks of 1 slot or of 2, given back in any order |
| red-black tree | balanced, in order, lookups right; `TreeIsStore`: positions survive the removal of others | 7 nodes, so that every case of both repairs occurs, keys all different or two keys repeated |
| hash tables | every node in its bin once, counts and reserve; a walk sees every key that stays, once; `TableIsStore` | 4 keys with collisions in every table size, bins 2 to 8, two load settings, the three table classes |
| list | `ListIsSequence`: both directions of the links, moves and swaps of any two nodes | 5 nodes, 2 elements |
| array | objects built and destroyed once; `ArrayIsSequence` | 4 cells, 2 values, growth by doubling and by a step |

The parts of `analysis`, about 217 thousand states together, a minute:

| Part | Shown | Bounds |
|---|---|---|
| detector | window, loss figures, detection test, and what stops a stream (`RtpStreamHistory`) | 4 sequence numbers, 2 sources, windows of 2 and 3: late, foreign, repeated packets, losses inside and outside a window, a second detection; the history counts noise up to `RunBound`, one more than a stream stands |
| analyzer | frames are filed by conversation and direction (`EntriesAreConversations`); an activation finds the flow it is for; MQmon is up while an analyzer works, and what a second count-down does; an asserting build ends at the first activation; blocks fit and can be read alone, and show the active streams; output neither early (`OutputsSpaced`) nor late | 2 analyzers, one of them fed, stopped and released in any order; builds with and without assertions; 14 sets of two or three frames, for each kind of header (both directions, a swapped port pair, VLAN, MPLS with a MAC address that begins like IP, GTP, GTP in GTP, last fragments, first and middle ones, GRE, ESP whose first octets spell each kind of protocol); 3 times that jump and go back, intervals of one and two seconds of 4 microseconds each; a block of four records |
| RTCP | kept reports have blocks, the delay is exact; the loss rate of a report stays until newer reports push it out | 9 reports of all kinds, 2 kept (`NLAST_RTCP`, 10 in the code), 2 sources |
| driver | `DirectFollowsInterface`: a stream that is fed directly goes through the states it would have through its interface, until noise stops it, and then is lost for good | packets of 2 sources and 2 numbers and one that is no RTP, windows of 2 and 3, in any order and number |
| time | `TimeInv` | 8 sub-seconds in a second, amounts on both sides of one second |

The users of the pools do as they like, up to the request that the pool answers with memory in use, since nothing
can be said of what two holders of the same bytes do to each other:

* FIFO pool: the block that fills the front of the buffer to its last byte is part of the run; `OldestFound` says that
  it is the only way to lose blocks. From then on the pool takes itself for empty (`FrontFilled`), and no further
  request is followed here. What this does to a queue of tasks is followed in `ThreadPoolJoin`, to the end.
* Pool set: every release and every request but the one of a pool that has gone astray, whose next slot is held
  (`SetNextOnce`). `SetAccounts` says which pools these are. `library_slots_doc` lets that request happen.
* Multi-size pool: any order of requests and releases, for one block size at a time. `MultiSizeExact` says what is left after
  a block comes back in front of the free rest (`Swollen`): the rest is marked in use with it and lost, and `size()` is
  short of it.

Runs with "doc" in their name check one sentence of a header, comment or test, and TLC refutes it; the list
`findings` quotes the sentence and the line.

| Run | What the code does instead |
|---|---|
| `rtp_loss_doc` | the loss rate is clamped below at zero, but its numerator is unsigned: with losses it is a huge number |
| `mqmon_remove_doc` | `DestroyStream` leaves a stream its user created in MQmon's list, and `Destroy` deletes it again |
| `thread_pool_join_doc` | a `thread_one` whose thread starts during construction waits for a notification nobody sends, and the owner polls forever |
| `thread_pool_queue_doc` | a task that fills the front of a wrapped `FifoQueue` makes it look empty with tasks in it: no worker takes one again, and the owner, who asks for the count, polls forever |
| `thread_pool_count_doc` | two workers overwrite each other's updates of the count of working threads, which stays wrong |
| `library_slots_doc` | a `FixedSizePool` whose first slot is the only free one gives another slot out a second time |

How the passing runs go on where these fail: `RegistryCoherent` and `DeletedOnce` speak of the streams that packets
created where a stream created by its user breaks them; `thread_pool` has a `std::queue`; `thread_pool_join` starts
the thread after construction, which `thread_pool_join_doc` does not, and its properties say what holds of a queue that forgets:
`JoinedMeansDone` all the same, `PeekStaysTrue` and `OwnerFinishes` unless it does. The count is exact with one worker
(`WorkingExactHolds`).

The cfg files of the thread pools turn the deadlock check off: after the destructor has returned the system
stops. So do `library`, `library_slots_doc` and `analysis`, where a user may find nothing more to do at the bounds or
ends with a failed assertion. No other run does.

### What the definitions say besides

Detector and facade:

* `IsDuplicate` is true of any packet of the stream that is not newer than the last one. A reordered packet
  is never counted, and after the sequence number wraps every packet is dropped until noise stops the stream.
* `IsDuplicate` leaves before the noise counter is cleared, so noise packets with late packets between them
  count as one run. The number given to `SetRtpNoisePacketsNum` reaches the constructor and is not used.
* `Invalidated` keeps the window, so a stopped stream is detected again with one packet of its old header.
* `SignsDiffer` compares a signed difference of sequence numbers with an unsigned one of timestamps. In every
  reachable state it is false for a window of one header (`DetectionExact`, proved), whatever the timestamps.
* The test for a repeated RTCP packet looks at a packet that is not parsed yet. Once a receiver report is
  kept, every later RTCP packet is refused; a repeated sender report is never recognised.
* A delay of zero counts as "no delay", and `userOnewayDelay` sets only the sub-seconds.
* A stream its user created survives `DestroyInterface` of its interface. `MQmon::Destroy` deletes interfaces
  that their owners delete again. The notification handler gets a pointer to a key where it expects the key.

Thread pool and driver:

* With several workers `workingThreads_` can lose an update (`Count`, `Uncount`), as `thread_pool_count_doc` shows.
* A pool without a procedure drops the functions it is given (`Queued`, from `ThreadPool.cpp:15`) and calls a null
  pointer (`Callee`). The driver's pools are such (`mqatest.cpp:237`): with threads it ends at its first task, and so no
  result of a parallel run is modelled. `TestBufferPool.cpp` gives its pools procedures, and the runs do so too
  (`HasProc = TRUE`).
* A worker of a pool of several threads runs a copy of the task that line 310 of `ThreadPool.cpp` initialises from itself
  (`Outcomes`). `RunsWhatWasPosted`, which no run checks, can fail at the first task.
* A task that never fits its queue is dropped silently. A stream the driver reaches directly is never detected
  again after noise has stopped it (`DirectFollowsInterface`). `GetMetrics` fails in the driver, which feeds no RTCP and
  sets no delay, so that only loss and packet counts reach its results. The static pool of tasks is used by several
  threads without a lock.

Pools and containers:

* `FifoPool`: a block that fills the front to its last byte makes a full pool look empty (`FifoPool.h:69`, which leaves no
  gap where line 78 does). `thread_pool_queue_doc` shows what a queue makes of it.
* `FixedSizePool`: the second search starts behind the first slot. When only that one is free, the next-available
  pointer stays on a slot in use, which is given out again (`library_slots_doc`).
* `FixedSizePoolSet` never deletes a pool it drops, and negates a capacity in an unsigned type.
* `MultiSizePool` marks a merged block as allocated, so that merged memory is never given out again: a pool whose
  blocks all came back has nothing to give. Freeing the block in front of the free rest counts the rest as well.
* `erase` by key in `fastl::HashMap` and `ftl::Map` unlinks a node as if it were the first of its bin.
  `Rehash(0)` divides by zero or overruns. `ftl::HashMap` with prime sizes changes the count of bins before it
  compares it; with masks it stays at 32 bins.
* A list appended to itself never ends; an array given a reference to its own element may read a freed one;
  `RBTree::NewNode` reads a link from a node after it was built anew.

Frames and analyzer:

* First and last fragments are parsed as packets: a first one is filed where its packet belongs, a last one under
  whatever its first bytes spell as ports. Behind a stack of labels the parser goes by half an octet: a MAC address that
  begins with 4 or 6 is read as an IP header. IPv6 is parsed only behind an ESP header, whose first two octets, of an
  index, are taken for the protocol and the length; the length of the header is kept in an octet and may lead
  elsewhere (`TransFound`). A GTP message without user data is filed under junk ports. Lengths of headers are added in
  an octet. Stacks of more than eight labels merge.
* Connections of a host with itself are entered twice. `VQStatsKeyMap.h:28` says "true if a new flow" where the
  code returns true for a known one.
* `OfTimeval` multiplies where it should divide: an interval of less than a second is taken for a far shorter
  one or none. `timesec.h:18` promises equal signs in both parts, which a sum of different signs breaks; a
  negative difference of whole seconds keeps a full second of sub-seconds. `TimeInv` holds of these forms too.
* `DumpTunnel` takes the key, which moves the position on, before the value: each tunnel is shown under the key
  before it, the first not at all, and the end throws. An exception in the output loses the buffer, the
  remaining tables and the frame that caused it.
* Stopping and then releasing an analyzer counts it down twice, as does releasing one that was never started: MQmon may
  be destroyed under another that works (`UpWhileWorking` says until when it is not). The count is a plain integer. The
  handler for results does not arm the dumper.
* With assertions switched on, no stream of an analyzer becomes active: the assertion at `AnalyzerImpl.cpp:80`, or
  `:98` for tunnels, fails first. What is said of active streams and of their statistics is so of builds with `NDEBUG`.

### Fairness

Safety runs state none. `ThreadPool` states weak fairness of each worker's next step, of the constructors'
return and of the join, and `ThreadPoolJoin` (`JoinFairness`) of the owner's next step as well. This is what a preemptive
scheduler gives to threads that are not blocked, together with tasks that return. Spurious wake-ups, posts
of others and the decision to delete the pool have no fairness. A mutex is free again after one step of its
holder, and the worker that waits for it needs no strong fairness in these runs: no passing liveness
property depends on who wins it. `OwnerFinishes` says `<>(phase = "gone" \/ Forgets(tasks))`: the owner of a queue that
forgets is lost, and `thread_pool_queue_doc` refutes `JoinReturns` under the same fairness.

## Proofs

Proof modules extend the module they are about. Each theorem holds for every value of the constants that the
named assumptions allow; TLC evaluates these assumptions in the runs.

| Module | Proves | Properties |
|---|---|---|
| `AnalysisProofs` on `RtpStreamObjectProofs` | the detector | `ValidWindow`, `ReceivedWithinSpan`, `DetectionExact`, `LossAccounting`, `RangeAdvances`, `StopNeedsNoise`, `TypeOK` |
| `MQmonProofs` | the facade and its users | `RegistryInv`, `DeletedOnce`, `CodecShown`, `AnswersTellValidity`, `PromptDetection` |
| `ThreadPoolProofs` | the thread pool and its owner, over queues of any size | `PoolInv`, `PeekStaysTrue`, `WorkingExact`, `WakeupsSuffice`, `JoinedMeansDone` |
| `PoolProofs` | FIFO pool, pool set, multi-size pool; the list | `IsFifo`, `SetIsSlotPool`; `FifoInv`, `SetInv`, `MultiInv`; `ListIsSequence`, `ListCoherent` |
| `RBMapProofs` on `RBTreeProofs` | the trees | `TreeInv`, `TreeIsStore` |
| `ContainerProofs` | the array and the hash tables; pools, array, list and table in `Library` | `ObjectsExact`, `ArrayIsSequence`, `TableInv`, `TableIsStore`; `PoolsInv` |
| `AnalysisProofs` | the analyzer, the driver, the RTCP half of a stream, time arithmetic; all in `Analysis` | `AnalyzerInv`, `EntriesAreConversations`, `DumpInv`, `OutputsSpaced`, `OutputsPunctual`, `DirectFollowsInterface`, `RtcpInv`, `LossRateStays`, `TimeInv` |

### The detector

For every width of the numbers, every set of packets and every detection number above one.
`ValidWindow` is not inductive: detection may accept a window that was filled while the stream was invalid,
or before it became invalid, so the state of an invalid stream matters. `ObjectInv` therefore says of every
window, valid or not, that wherever headers agree over a stretch the numbers increase (`RunsIncrease`),
which holds because `IndicateRtpPacket` compares a packet with the last one of its header. A full window
whose headers agree is then one increasing run, its span covers its length, and neither the sign test nor
the span test can fail: this is `DetectionExact`. From the same invariant the count after detection is at
most the span, each accepted packet raises the maximum by at least one, and so the count stays within the
span (`FiguresAgree`); it never reaches the width of its counter. `RtpStreamObjectProofs` has one lemma per
method that it keeps `ObjectInv`, and the lemmas on windows they rest on.

`StopNeedsNoise` is about the noise since the last accepted packet, which only the history of `RtpStreamHistory` knows
(`HistoryIsSpec`: it leaves the detector as it is). The counter of the code starts at the number of detection packets,
so it tells of noise only once a packet is in the window (`NoiseRecorded`); a valid stream has one, and its window
passes detection again (`ValidDetects`), which is why `DetectStream` cannot stop it.

Assumptions: `WidthAssumption` (the counter is wider than the sequence numbers, the loss arithmetic wider than
the counter, as with 16, 32 and 64 bits), `PacketAssumption`, `NotRtpAssumption`, and `DetectAssumption`, that
nobody asks for a window of fewer than two packets, where the code steps before the first list node.

### The facade

For any number of interfaces, flows and streams. `RegistryInv` needs the detectors (an answer decides whether
a stream is made), and `DeletedOnce` needs the lists, so `FacadeInv` has three parts. `Registered`: an entry of
a flow map is a living stream of that interface that packets created, it is in MQmon's list, no other entry
leads to it, and every stream of the list that users did not create is found this way. `Ledger`: a living
stream was not deleted yet, and one that nobody created is in no list. `Detectors`: each object satisfies
`ObjectInv` and shows its codec. One lemma per public method shows that it keeps the three.

The users of `MQmonFlows` add `Runs`: the count of consistent packets in a row says how the window ends
(`WindowEndsInRun`), so that a run as long as the detection number fills the window, where `DetectsExactly`
of the detector applies. This is `PromptDetection`. Assumptions: `NoStreamAssumption` (no stream is the mark for
none) and `BoundAssumption` (detection numbers are bounded, since the count of a row is).

### The thread pool

For any finite set of workers, any tasks, and queues of both kinds and any size. `PoolInv` needs the history: `Handed` says
that the queue is the end of the accepted tasks, and each task before that is in one worker's hands or was called.
`Counting` is what a single worker knows of the count of working threads. `WakeupsSuffice` is proved from `Handed` by counting: a
post makes one task and wakes one sleeper if there is one; a worker on its way leaves only with a task or when the queue
is empty. `JoinedMeansDone` adds `Joining` for the owner: after it saw an empty queue nothing new is taken, and what
was taken before shows in the count.

A `FifoQueue` has slots of one size (`Off(i)` is where the i-th begins), and its tasks lie in one row of slots or in two
(`Laid`). A post takes it from one such layout to another, with one exception: the wrapped task that meets the
oldest one leaves a layout of no tasks behind, and a count that is not zero (`Lossy`). Nothing that follows makes up for the
difference (`LossyStays`), so `Forgets` stays possible and the count positive. Hence the forms of the theorems:

* `PoolInvHolds` and `WakeupsSufficeHolds` are of behaviours in which the queue forgets no task (`[]~Forgets(tasks)`),
  since both are false of the others. `TasksKept`: those are all behaviours of a pool over a `std::queue`, or over a
  `FifoPool` too small for two tasks. `WakeupsSufficeHolds` also excludes the `thread_one` whose thread starts
  during its construction, which waits for ever.
* `PeekStaysTrueHolds` and `JoinedMeansDoneHolds` are of all: an owner whose queue forgot a task never leaves its loop (`Stuck`).
* `WorkingExactHolds` and `JoinedMeansDoneHolds` are about one worker (`ThreadOne`); with several the count can lose an update.

### Pools

The theorems are about any user, up to the request that is answered with memory in use: `Spec` of `FifoPool`,
`SetSpecOnce` and `MultiSpec`. `LibraryUsesPools` shows that the library is one.

* FIFO pool. `Layout` says where the blocks are: in one row between tail and head, or in two, one from the tail
  to `end` and one from the beginning to the head. The header of each leads to the next (`HeadersLink`). Each way
  through allocation and release leads from one layout to another; in the one where the front is filled, two rows meet,
  which is when the pool looks empty with blocks in use. `Chain` is a recursive function;
  what it yields is shown with an explicit witness for it, and `IsFifo` follows. `SizeAssumption`: sizes are positive.
* Pool set. `SetIInv`: every pool is in the one of the two lists that its fullness says (`PoolsListed`); the marks of its
  slots are those of `holders`, and the slot it gives next is free unless its first is the only free one (`SlotsKnown`); what the next pool's size depends on stays in range (`Growth`); and
  the capacity is the sum over the pools (`CapacityTrue`, with the partial sums as witness). Every step is then a
  step or a stutter of `SlotPool`. `SetAssumption` asks for pools of two slots and more, and for a speed in percent.
* Multi-size pool. `MultiIInv`: the first k blocks are carved off the pool, in use or given back, and keep their mark,
  and the rest is one free block, until the k-th block comes back: it swallows the rest, and from then on every block
  is marked in use and nothing is allocated (`CarvedUpTo`). `MultiAssumption`: sizes are positive and the whole pool fits
  `size_t`.

### The array

For any contents, growth steps and sizes. `Holds(a, s)` says that the buffer of an array has the elements of the
sequence `s` in its first cells and nothing in the others, and that no operation on the way misused a cell. There
is one lemma for each thing that is done to cells (`BuildsCells`, `AssignsCells`, `RelocatesCells`), with the
condition under which it misuses none, and from these one for each method: it leads from an array that holds `s`
to one that holds what the edit makes of `s`. The middle case of `InsertAt` is the long one: the objects `SetCount` built at
the end are destroyed before the rest moves there, and the gap is filled again before it is assigned to.
That some sequence is held is inductive; `ObjectsExact` and `ArrayIsSequence` follow. `ArrayAssumption`: elements are numbers,
and Raw (-1) is none of them.

### The list

For any number of items and elements. `ListLinks(l, s)` says that the list has the nodes of the sequence `s`, each
once, linked in its order both ways, and that its count and its blocks are those of `s`. The list itself counts as
a node 0 in front of the first and behind the last, so that inserting at an end is no special case. The proof has
three layers: what placing, taking and exchanging does to a sequence (`IsPut`, `IsTaken`, `IsExchanged`) and to
links that follow it; the assignments of the code, one link at a time, as those changes (`Places`, `Bridges`, `Frees`,
`Swaps`, where the swap of neighbours overwrites links it has just set and is a proof of its own); and one step per
operation. That some sequence is linked is inductive. `ListIsSequence` follows since a walk along the links gives that
sequence (`Walked`, with an explicit witness for the recursive function), `ListCoherent` by walking from the tail as well;
that Find misses and repeats nothing is an induction over its hits, by the least place without one.
`ListAssumption`: the number of items is a natural number.

### The trees

For any number of nodes, any keys and values, `RBMap` and `RBMultiMap`. What is inductive is that the tree is well made
(`WellMade`) and that an `RBMap` has each key once (`OneOfEach`); `TreeInv` and `TreeIsStore` follow.

A tree is a recursive structure, but none of the proof is an induction over trees. `Balanced` says instead: the nodes
in use have the places 1 to N, each its own, and each node covers an interval of places, its own between those of its
two children (`Placed`, `Hangs`); the root covers all. Each node has a black height, the same below both of its children but
for its own colour (`Levels`), and no red node hangs from a red one (`RedApart`). `Sorted`: keys do not fall with the
places. All of this is about a node and its neighbours, so each turn of a link disturbs it in a few nodes:

* `RotateKeepsOrder`: a rotation leaves every node at its place and changes the intervals of two.
* `Inserting` and `Short` are what holds inside the loops of the two repairs: a red node may hang from a red one there,
  or everything below one node is one black node short. One lemma for each case of the code shows that a round ends the
  loop with a balanced tree, moves the fault up, or turns the tree so that the next round does. That the loops end is an
  induction over how much of the tree does not hang below the fault, since each climb takes some of it in. The repairs are recursive functions; a witness for each is
  had from `TailRecursion`, which also covers arguments the code never passes.
* `RBDelete` exchanges a node with its successor by their links (`SwapNode`), the case that one hangs from the other and
  the links of the sentinel included (`SwapInOrder`), then unlinks a node with one child at most.
* A search goes to the place it looks for (`DescendPlace`), `Neighbour` to the next place (`NeighbourPlace`), so walks pass the places in
  turn (`WalkVisits`), and `Find` and `FindFirstKeyAfter` give the first of the nodes they look for (`FindPlace`, `FindPrefixPlace`).
* `RemoveKey` of an `RBMultiMap` finds the next node before it deletes one: the order of what is left does not change, so its
  rounds meet the nodes with the key one by one and no other (`DeleteEqualPlace`).

`RBInsertWellMade`, `RBDeleteWellMade` and `DeleteEqualWellMade` sum this up; `TreeMoves` is what the steps do to the
items, from which each is a step of `ItemStore`, since the nodes below the root are those in use (`LinkedIsUsed`).
`LibraryUsesTree` carries both theorems over to `Library`. Assumption: `TreeAssumption` (keys, values and the number of nodes
are natural numbers).

The sentinel's links are written by deletions, and `RemoveAll` keeps them: in an emptied tree the parent of the sentinel, which
then is the root, need not be the sentinel. `RedBlack` therefore asks only of a tree with nodes that the root has no parent.

### The hash tables

For the three classes, any keys and hash values, bins, loads and sizes. `HashHolds(m, cur, v, N, K)` says that the
table `m` has `N` bins with the keys `K` in them, each once and in the bin of its hash value (`Sound`); that the count is
the size of `K` and the nodes are those in use and in reserve; and where the walk `cur` stands. That is an order: a
node `Precedes` another when its bin is lower, or when it is nearer to the head of the same bin. What the walk saw
precedes its position, and what stayed since its start and was not seen does not. Under the lock no table is
rehashed, so a new key changes the order by one head of a bin only, and a removal takes one place out of it. `NodesOf` puts the
bins one behind the other and `Rewire` makes its nodes the head of their new bin, one by one: both are recursive functions with
witnesses, the first with where each bin begins in the row, the second with the keys moved so far. `SizeFor` always yields a bin
or more. `TableIsStore` needs besides what each step does to `K` (`HashMoves`). Assumptions: `HashAssumption`, that hash
values are numbers and none of the constants a table divides by is zero, which the code asserts of bins, block
size and load.

### The driver

For any packets in any order and every number width. `DirectFollowsInterface` is inductive once both detectors are known to be sound
(`DriverIInv`): while both are the same, `strm` is set just when the stream is valid, so that the two ways differ only in the
call of `DetectStream`, which the interface makes of streams that are not. An invalid stream that is only indicated
packets never becomes valid (`IndicateOnly`), which is why one that stopped is lost.

### The RTCP half

For all reports, times and lengths of the queue. `RtcpInv` needs to know what is kept: `RtcpIInv` says that
each kept report has a list of blocks about a source, that no more are kept than the queue takes, and that the
parts of the delay are not negative, with the count `exactDelay`. `IndicateRtcpPacket` takes the blocks one by one (a recursive
function, shown with a witness for its partial results), and a report that gives none is not kept. The delay is a
difference of capture times (`MinusExact`) less the delay at the receiver, and zero if that is negative.
`LossRateStays` compares where the newest report about the own source is: a push moves it by at most one place, and
only when the queue is full, so it leaves only from the first place of a full queue (`NextToLeave`). `RtcpAssumption`: the fields of reports are not negative.

### The analyzer

For any number of analyzers and any frames, times and intervals. `AnalyzerIInv` has three parts. `LifeInv`: the count
of instances is that of the analyzers started, less those counted down once too often, and MQmon is up when it is positive. `FlowsInv`:
no activation met NULL, and each direction of an entry that has a stream was fed; a build with assertions has no entry with a stream. It rests on `HandlerAgrees`: the
handler sorts addresses and ports in its own way and still comes to the key and direction of `FindStreamSet`,
since the scan over the tags ends within the frame (`TagsEnd`, a recursive function shown with a witness) and the addresses
are numbers or junk. `ClockInv`: a sample ends an interval behind the time it was set. `OutputsSpaced` and
`OutputsPunctual` follow from `DueBeyond`, about two times that `OfTimeval` has converted: the wrong unit of its
sub-seconds loses their lower part, but keeps the order of what is left. Assumptions: `AnalyzerAssumption` (times in microseconds are
numbers, and a sub-second is no longer than a microsecond), `FrameAssumption` (frames are as long as their headers
say, and addresses and identifiers are numbers). `OutputsPunctual` has the hypothesis `LastingIntervals`, that no interval counts as
zero, which switches outputs off.

`EntriesAreConversations` compares any two frames that were filed, so what is inductive with `AnalyzerIInv` is said of
each frame alone (`FedFiled`): it is in the table its key belongs to, in the entry of that key, under its direction. The
rest is about the operators: two frames have the same key and direction just if their conversations and ways are the
same. Four lemmas carry it. `Recognised` (`Plainly`, `InTunnel`): on the frames of `Clear` the parser, which reads one layer after the other, takes the
headers the conversation is defined by, and so says "tunnel" where there is one. `TagsTell`, from `ScanFinds`: the tags
the backward scan leaves in the key are the identifiers in front of the first address, whatever follows the frame's
tags in the array. `EndsSorted`: the pair of endpoints the key keeps in order is the same for two frames just if their sets of
endpoints are, and the direction then tells which one sends. The identifier of a tunnel is compared apart. With a
tunnel in a tunnel the parser stops at the first one: the conversation is that of the first header
inside, `InnerIp`, and frames that differ further in are one conversation. `GrammarAssumption` says of frames what
their formats do: labels are one stack, a whole packet and a first fragment have the transport header they name, only the
ports of GTP are followed by more, and nothing is listed behind data. Without it there are lists of headers the
parser reads differently than they are written. `Clear` names the frames whose conversation the parser cannot tell: last
fragments, ESP, MAC addresses behind labels that begin like IP, missing ports, more identifiers than are kept, headers beyond an octet.

`DumpInv` is about a walk within one step, so what is inductive is said of a dump under way: `Good(d, e, done, heads)`
holds of the dump `d` when the sub entries `done` are each in one place of the blocks sent or the block at hand
(`OnceEach`), every block is headed and fits, `offset` is its length, and its heads are among `heads`. One sub entry keeps this
(`SubEntryDumped`: flushed before or not, with its entry repeated or not), since an entry that is in the block already is
followed by sub entries only (`AtHand`). That in turn holds because the entries of a table are passed in an order that
visits each once, so a walk never meets the head of an earlier one: `EntryDumped` and `VisitsDumped` follow the walk,
with witnesses for its recursive functions. A tunnel always ends in the exception, so what is put out behind tunnels
is all or nothing (`TunnelDumped`, `OutputIs`). `FlowsInv` adds that there are finitely many entries and that no key has
more identifiers than fit: the bound of the longest record. Assumptions: `IdsAssumption` and `BlockAssumption` (sizes are numbers, and
the longest entry and sub entry fit a block together).

### Time

For every number of sub-seconds in a second and every set of amounts. `TimeInv`: the count is the integer, and
comparison with zero tells its sign. `MinusExact`: `operator-=` is exact for any two times, in whatever form they are.
That the count is exact is inductive as it stands: each operation is exact for every pair of records of
integers. The comparison is not: a time of one second and minus two seconds' worth of sub-seconds would compare
as positive. `Told` is the missing part: sub-seconds never outweigh the seconds, strictly so when the two have
opposite signs. All operations restore it from any operands, since the carry of a sum leaves less than a
second and `diff` at most a second of the same sign. Assumptions: `SubSecAssumption` (the units are positive)
and `AmountsAssumption` (amounts are integers). The integers are unbounded: the code's are 64 and 32 bits, and
what it adds are capture times.

### Only model-checked

Liveness under fairness and the absence of deadlock are out of the prover's reach and stay with TLC: `TasksServed`,
`DestructorReturns` and `OwnerFinishes` of the thread pool. So do the runs that expect a violation, whose properties are false.

## Plan

Done: every component of the list above that is modelled, and the proofs of all safety properties the passing runs check.

### Not modelled

* `emodel`, jitter and one-way delay: formulas on doubles, out of TLC's reach. `GetMetrics` is the loss rate only.
* The codec tables of `RtpTypes`: constants.
* `PcapReader`, `LogUtility`, printing: I/O.
* `VQTask.h`, `RtpStreamManager.h`, `mqainterface.h`: declarations without an implementation.
* `FixedSizeMemory`, `thread_concurrentQ`: unused or compiled out. Copying of whole containers, smart-pointer
  lists and element traits of `ftlcollections.h`; products and the other unit conversions of `timesec.h`.
* The notification handler as a caller of MQmon from inside `IndicateRtpPacket`: no handler of the repository
  calls back.
* MQmon's lists and the pool of tasks under several threads: data races on `std::list` and on the
  next-available pointer have no outcomes to choose from short of a model of the memory.
* The path of the engine `ENGINE_DRIVETEST`, whose first activation reads a key beside a pointer, and handlers nothing installs.
