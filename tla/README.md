# flunder in TLA+

A verification development for `libflunder`, the C++/C client library of the
FLECS data bus: publish and subscribe over zenoh, with values that a router
keeps in memory storages. It holds TLA+ modules translated from the source,
configurations for TLC, and proofs for TLAPS. Paths below are those of the
repository; `client.cpp` alone means `src/impl/client.cpp`.

## 1. What the system is made of

| Part | State | Operations |
|---|---|---|
| facade `flunder::client_t` (`src/client.cpp`, `include/flunder/client.h`) | a pointer `_impl` | forwards every call; move and swap exchange `_impl`; the destructor disconnects |
| `flunder::impl::client_t` (`src/impl/client.cpp`) | `_z_session`, `_host`, `_port`, `_subscriptions` (map: topic to context), `_mem_storages` (set of name and router id) | `connect`, `reconnect`, `disconnect`, `publish_*`, `subscribe`, `unsubscribe`, `add_mem_storage`, `remove_mem_storage`, `get`, `erase` |
| `subscribe_ctx_t` | client pointer, zenoh subscriber, callback, user pointer, `_once` | lives in `_subscriptions` from `do_subscribe()` to `unsubscribe()`; its address is given to zenoh |
| `lib_subscribe_callback` | none of its own | run by zenoh's RX thread: drops the sample while `_once` is false, else builds a `variable_t` and calls the application |
| `to_bytes`, `to_string`, `ntp64_to_unix_time` | none | pure conversions |
| `variable_t` (`src/variable.cpp`) | four strings, each owned or a view | accessors, `own()`, and the C functions for single variables and lists |
| C interface (`src/client.cpp`, `src/variable.cpp`) | none | forwards; `flunder_get` hands out an array |
| zenoh session, router, storage plugin (not in the repository) | declared subscribers, link, queries; stored values | modelled from how `client.cpp` uses them, and marked external |

**How they interact.** The application calls the client from one thread, the
*API thread*. The zenoh session has an *RX thread*, which takes samples and
query replies off the link and calls `lib_subscribe_callback` with the address
of a context. `subscribe()` declares a subscriber, then runs a whole query
(`get()`) and shows its replies to the callback on the API thread, then sets
`ctx._once`; from then on the RX thread shows live samples. There is no lock:
`_once`, a plain bool, is the only thing between the two threads.
`unsubscribe()` undeclares the subscriber and frees the context.
`disconnect()`, with which `connect()` and `reconnect()` begin, drains both
sets of records through the session, one by one, ignoring every result, and
then closes the session.

**What is hard.** The two threads and the flag; the order of replies and live
samples, which come from two places of the router; the window between the
answer of the storage and `_once`; queries that get lost or time out; links
that break under any of it; contexts freed while a sample is in flight; loops
that end only when a call into zenoh succeeds; failed `z_open` half-way through
a reconnect; calls that do not look whether there is a session; values cut at
NUL and ports cut at 16 bits. `PROJECT.json` lists each hazard at its line.

**What makes each part correct.**

* Subscription: one callback at a time per subscription; nothing shown after
  `unsubscribe()`; no context used after it was freed; the replay comes first
  and shows a key once; no key ever goes back to an older value; what is lost
  is bounded and known; `subscribe()` returns.
* Lifecycle: records belong to the open session; nothing outlives a
  disconnect; a `reconnect()` goes where the last `connect()` went; the calls
  return.
* Conversions: a subscriber can read back what was published, and sees times in
  the order of the stamps.
* Storages: the client's records say what the router is going to hold.
* Queries: `get()` returns the beginning of its own answer, releases what it
  was given, and does return.
* Handles, variables, lists: every allocation has one owner and one release; no
  pointer that is kept outlives what it points to.
* Callbacks that call the client: no context is freed under a running call, and
  nobody waits for himself.

## 2. Modules

| Module | Models | Role |
|---|---|---|
| `Feed` | the promise of a subscription to the application | abstract specification |
| `Subscription` | `do_subscribe`, `get` inside it, the replay, `_once`, `lib_subscribe_callback`, `unsubscribe`, with link, router and storage | detailed specification, implements `Feed` |
| `MCSubscription`, `MCLiveData` | instances; the second adds a history variable for the header's statement | TLC |
| `SubscriptionProofs` | | TLAPS |
| `Client`, `MCClient` | `connect`, `reconnect`, `disconnect`, `subscribe`, `unsubscribe`, `add_mem_storage`, `remove_mem_storage`, `erase` | one specification, checked directly; `MCClient` is the instance |
| `ClientProofs` | | TLAPS |
| `Storage` | `add_mem_storage`, `remove_mem_storage` of several clients, their links, the router and its storage manager | one specification |
| `StorageProofs` | | TLAPS |
| `Get`, `MCGet` | `get()`: its channel, both threads that fill it, the timer | one specification; `MCGet` is the instance |
| `GetProofs` | | TLAPS |
| `Callbacks` | the calls that callbacks make: `subscribe`, `unsubscribe`, `get`, `publish` on both threads | one specification |
| `CallbacksProofs` | | TLAPS |
| `Handle` | the facade: construction, moves, `swap`, destruction, the client pointer in contexts | one specification |
| `HandleProofs` | | TLAPS |
| `Variable` | `variable_t`, single variables and lists of the C interface, the variable of a callback | one specification |
| `VariableProofs` | | TLAPS |
| `Ntp64` | `ntp64_to_unix_time` with its doubles | operators only, used by `Publish` |
| `Publish`, `MCPublish` | `publish`, `publish_*`, `flunder_publish_*`, `do_publish`, `to_bytes`, `to_string`, the variable of the callback with its time | algorithm and round trip |
| `PublishProofs` | | TLAPS |

`Subscription` is the one module that implements an abstract one. The others
are about what may go wrong inside of one part; where a part needs another, it
takes over what that other module shows: `Callbacks` lets a query end because
`Get` does, `Handle` lets `disconnect()` drain because `Client` does, for topics
without a second leading `/`.

Definitions called "Variant with a bug" stand next to the definition they
spoil. They are used by no specification; they are there to show that a
property would notice (`mutants` in `PROJECT.json`).

### 2.1 Subscription

`stage[t]` is the program counter of the API thread in its call for topic `t`:
`declared` (client.cpp 360-380), `asking` (in `z_recv`, 530-532), `replaying`
and `calling` (the loop at 383-391), `subscribed` (392-394), `leaving`
(between 423 and 424). `ApiIdle` guards the start of every call, since the
application uses one thread; calls that are refused change nothing and are
left out.

`pending` and `running` are where the RX thread is in handing out one sample;
`CallbackDrops`, `CallbackStarts` and `CallbackReturns` are
`lib_subscribe_callback`. The callback of the application takes two steps, so
that anything may happen in between.

`once[t]` is the value that the RX thread reads. The write at 392 happens in
`SetOnce`; when the RX thread sees it is not ordered by anything, so `OnceSeen`
is a step of its own that may come at any later time. That is how the data
race on the flag is modelled. What the model takes from the hardware and the
compiler is only that the write is not visible *before* the replay that stands
above it in the program: the replay calls opaque functions.

Values are indices into `log`, the order in which the router takes them in.
The link and the storage are cursors into it (`sent`, `rcvd`, `stored`), which
gives the same behaviours as queues would and makes order a matter of numbers.
A deletion is an entry like any other: `lib_subscribe_callback` does not look
at the kind of a sample and shows it as a value. Histories (`shown`,
`covered`, `liveFrom`) are written and never read by the steps.

Taken from outside the repository, and stated in the module's header:

* a session's connection is an ordered byte stream in each direction, and one
  RX thread runs all callbacks of the session;
* the router dispatches one entry at a time to the link and to the storage, in
  either order: the storage may lag behind the link by any amount, and is at
  most one entry ahead of it;
* a declaration reaches the router before a query that was sent behind it;
* `z_undeclare_subscriber` returns when no callback of that subscriber runs,
  and none starts afterwards;
* when the link breaks, what is on it is lost, the session declares its
  subscribers again, and the query is not repeated; every query has a timeout;
* callbacks return, and do not call the client;
* values are published by other clients. A client's own publications reach
  its subscribers too, on the thread that publishes: see `Callbacks`.

### 2.2 Feed

`phase`, `shown` and `busy` per topic: `Open`, `Show`, `EndShow`, `GoLive`,
`Close`. A value may be shown only when the subscription is open, no callback
of it is running, and nothing newer of its key was shown; in the replay a key
is shown once; closing waits for the callback. The refinement mapping:
`phase` is `off` when there is no entry, `live` when `once[t]`, else `replay`;
`busy` when either thread is in the callback.

### 2.3 Client

The calls of one thread, but not one step each. `Connect`, `Reconnect` and
`Disconnect` start the drain and remember where to dial (`dial`);
`DrainSubscription` and `DrainStorage` are one turn of the loops at 138-143,
taking the last record as `rbegin()` does. A topic is one of its spellings, and
`Strip` takes one leading `/` off: `subscribe()` does so before it stores the
key (351), and `unsubscribe()` before it looks one up (416), also when
`disconnect()` calls it with a stored key. `EraseSubscription` is what
`unsubscribe()` makes of the map, -1 included. `CloseSession` is 144-155; `Dial`
is `connect()` behind its `disconnect()`, with `z_open` or the configuration
failing. `zopen` and `zsubs` are what zenoh has open and declared: they are kept
apart from `session` and `subs`, so that a handle that is dropped without being
closed shows. The other modules speak of keys, which have lost their `/`; there
a stored key is never stripped again. `nullUse` collects the calls that hand a
null session to zenoh. `port` is kept modulo `PortRange`, for `std::uint16_t`.
`EndpointKept` compares ports as 16 bits: that a port beyond them is cut down is
described, not judged.

### 2.4 Publish and Ntp64

`Text` is `to_string`, `ToBytes` is `to_bytes` with its passage through a C
string, `EncodingNames` the table of `publish_bool` ... `publish_raw`, `OverloadOf`
the overload that a C function calls. `Deliver` builds the variable as
`lib_subscribe_callback` does, time included. `Read` is a subscriber that knows
the encoding and nothing else; it is not code of the repository but the
reference that the conversions are held against. The text of a float is a
parameter, `FloatText`: all that is assumed is that it tells values apart.

`UnixTime` computes with fractions and rounds as IEEE does, to nearest and even,
once for the quotient, the sum and the product, and cuts off in the cast. The
widths are parameters; the code has 32 and 32 bits, a mantissa of 53, exponents up
to 1023 and 10^9 units in a second. Powers of two are a function, `pow2`, and not
the operator `^`, since only the function can be reasoned about.

### 2.5 Storage

One command is on its way through three stages: `wire[c]` (the client's link),
`todo` (the storage manager's queue), `held`. `AskRouter` and `PutConfig` are the two
halves of `add_mem_storage()` (client.cpp 429-459 and 461-475): the router may
be started again in between, and then the configuration goes under a key that
is nobody's. `RemoveMemStorage` is 477-502. `missed` is the history of faults:
names whose last command did not reach the router, or whose storage the router
has forgotten.
`Agree`, `AddedIsHeld` and `RemovedIsGone` except these names, and
those that several clients use: what goes wrong there (a router that changes or
starts again, a lost delete, a name of two users) they do not catch.

### 2.6 Get

A caller is in `Ask` (504-528), `Receive` (one turn of 530-561) or `Return`. The
session has two carriers of replies, the RX thread and the timer, each of which
may stand before a full channel with a reply in its `hand`. A query is `open`
until its final message or its timeout; the channel is closed when the query is
not open and nobody holds a reply to it. A router that falls silent and a link
that breaks look the same from here, so there is only the first.

### 2.7 Callbacks

Each thread has a stack of frames, one per call or callback it is in, with the
context whose address it holds. `Tolerated` is what the application may call:

| in | outside of callbacks | in a replayed or local callback on the API thread | in any callback on the RX thread |
|---|---|---|---|
| `get` | yes | yes | yes (it ends by its timeout) |
| `publish` | yes | to topics this thread is in no callback of | the same |
| `subscribe` | yes | yes | no: the map has no lock |
| `unsubscribe` | yes | of topics this thread is in no callback or `subscribe()` of | no |
| `disconnect`, `reconnect`, destruction | yes | no | no |

The library documents none of this; the table is what the properties turn out
to need. It leaves out a callback that unsubscribes its own topic: in a replay the loop
at 383-391 would go on with a freed context, elsewhere zenoh would wait for the callback
that is waiting for it.

### 2.8 Handle

`impl[h]` is `_impl` of the object at `h`; addresses are used again. A swap
takes two steps, through `temp`, because a callback may run on the RX thread
between them. `subs` has the client pointer that `subscribe()` has put into the
context. `carried` is the history of which implementations went to another
object while they had subscriptions.

### 2.9 Variable

Blocks of memory with cells, each cell a variable whose four members are owned
strings or views. `Reads` says whether the characters of a member are still
there. The application is one that keeps to the C interface: each pointer is
given back once, to the function for it, and `own()` is called while the viewed
characters exist.

## 3. Runs

| Run | Question | Bounds |
|---|---|---|
| `sub_two_topics` | `TypeOK`, `CallbacksExclusive`, `ContextAlive`, `OnlyTheGapIsLost`, and the refinement of `Feed`, for two subscriptions that share a key | 2 topics (one matching both keys, one matching one), 2 keys, one of them stored, 2 publications or deletions |
| `sub_one_topic` | `OnlyTheGapIsLost`, `NeverBackwards`, `SubscribeReturns`, `LiveSampleShown`, while the link breaks | 1 topic, 1 key, 3 entries, 1 break |
| `live_data` | violation: the header's "subscribe to live data" | 1 topic, 1 key, 2 entries, no break, no timeout |
| `client` | `TypeOK`, `RecordsHaveSession`, `NullOnlyInErase`, `NothingLeaks`, `EndpointKept`, `CallsReturn` | topics `**`, `/**`, `//**` and `b`, 2 storages, 2 hosts, a port in range and one beyond it, 3 sessions, 2 failing deletes |
| `storage` | `TypeOK`, `Agree`, `AddedIsHeld`, `RemovedIsGone` | 2 clients, 1 name, 4 calls, 2 faults |
| `get` | `TypeOK`, `AnswerInOrder`, `OnlyAdminLeaks`, `GetReturns`, `SamplesGetThrough` | 2 queries on 2 threads, 2 replies (the first of any kind), 1 sample, a channel of 1 |
| `callbacks` | `TypeOK`, `ContextInMap`, `AloneUnlessLocal`, `CallsReturn` | 2 topics, 3 contexts, 8 calls and samples, 2 stored values |
| `handle` | `TypeOK`, `OneOwner`, `NothingOutlivesImpl`, `OwnClientUnlessMoved` | 3 addresses, 4 implementations, 2 topics |
| `handle_moved` | violation: the client that callbacks are given is the one the message came in on | as `handle` |
| `variable` | `TypeOK`, `OwnFindsViews`, `OwnedLasts`, `ReleaseIsComplete` | 3 allocations, lists of up to 2, 2 texts |
| `publish` | `TypeOK`, `ValueSurvives`, `TimeNeverBackwards`, `CloseToClock` | all types, the ends of their ranges, contents with NUL at every place; every stamp of 4 + 5 bits, a mantissa of 7, exponents up to 20 |
| `publish_text` | violation: the length asserted by the tests | the same |

The runs on `Storage`, `Get`, `Callbacks`, `Handle` and `Variable` end where
their bounds are used up, so they do not check for deadlock; that nobody waits for
ever is what their liveness properties say. The others check for it.

**Why these bounds are enough to meet the cases.** Two overlapping topics are
what it takes for one sample to be handed to two callbacks in a row, with an
`unsubscribe()` in between; the second key is not covered by the storage, so
that one subscription receives values that can and values that cannot be
replayed. Two entries for one key give an older and a newer one; the third lets one be
replayed, one fall into the gap and one come live, or a key be put, deleted and
put again under one query. One break of the link may come before the query,
during it or after it, and only `sub_one_topic` has it: the safety properties of
`sub_two_topics` are proved with any number of breaks. The four spellings are three keys: one that
is found under its own name, one that begins with `/`, and one that the latter is
taken for. Three sessions give a record of a first connection the
chance to be met in a second and a third.

For `Storage`, one name is enough because names do not meet anywhere in the code;
two faults let a failing put and a lost command come together, or a restart and
a death. For `Get`, a channel of one place is full with one reply, and
the second reply and the error of a timeout are two that wait for it, one in each
carrier; two queries are one on each thread, or one whose late replies meet the
next. For `Callbacks`, eight calls are four levels of nesting on each thread, or
eight on one. For `Handle`, three addresses are two that swap and one that a
destroyed object leaves behind to be used again. For `Variable`, a clone of a
clone, and a list next to it. For time stamps, the format is small but the cases are
the same as long as the mantissa is shorter than a stamp, and every stamp is
gone through in turn.

Beyond these bounds the invariants are proved (section 5).

**Fairness.** `FairSpec` of `Subscription` has weak fairness of the API thread
in a call it is in, of the RX thread's receiving and of its dispatching, of
`Forward` (the router runs on), of `QueryTimeout` (zenoh gives every query a
timeout) and of `OnceSeen` (a write becomes visible). It has none for the
application's calls, for publications, for `Store`, for the router's answer and
for breaks of the link. `FairSpec` of `Client` says that a call goes on, and
`MaxFaults` that `z_delete` fails finitely often: if it fails for ever,
`disconnect()` spins at 141-143, and the destructor with it. Where the loop at 138-140
spins, its step changes nothing, and fairness does not help: so `CallsReturn` excepts
keys that begin with `/` (`Slashed`).

`FairSpec` of `Storage` lets the router work through what it is sent and a call go
on, and asks nothing of clients, faults or links. That of `Get` lets both threads
receive and put, the callback return, and the time of a query pass (zenoh gives
each query a timeout); it asks nothing of the router. That of `Callbacks` lets a
thread go on with its innermost frame where nothing stops it.

## 4. What was found

* `live_data`: what is published after the subscriber is declared, and is
  not in the storage's answer, is never shown. `lib_subscribe_callback` drops
  every sample while `_once` is false (line 40), and the replies were made
  before. `OnlyTheGapIsLost` says that nothing *else* is lost while the link holds: what
  the storage held when it answered and what comes after `_once` are shown,
  or something newer is.
* `publish_text`: the text of a value goes through
  `z_bytes_copy_from_str` (`src/impl/to_bytes.cpp` 24) and ends at its first
  NUL. The text of an 8-bit 0 is one NUL and arrives empty, though the tests
  assert the length of `to_string()` for every type.
* `handle_moved`: a move exchanges the implementations of two clients, but a
  context keeps the address of the object that `subscribe()` was called on. Its
  callbacks go on being given that address: an object without session, or one
  that was destroyed. `OwnClientUnlessMoved` says that this is the only way.

Facts that a user of the library should know and that contradict nothing it says:

* `erase()` hands a null session to zenoh when there is none; `disconnect()`
  does not end while `z_delete` fails.
* `subscribe("//a")` stores the key `/a`, and no `disconnect()`, `reconnect()` or
  destructor ends while it is there: `unsubscribe("/a")` looks for `a` and returns -1,
  which is ignored, or removes the entry `a` if there is one (`SlashedSpins`). Only
  `unsubscribe("//a")` gets rid of it. That holds if zenoh lets the subscriber be
  declared; the result of `z_view_keyexpr_from_str` (357) is not looked at.
* A reply under a key that begins with `@` is not dropped: the `continue` at 542
  passes the `z_drop` (`OnlyAdminLeaks`).
* `get()` returns 0 also when its query was cut off, refused by zenoh or lost, and
  the values are then any beginning of the answer. In a live callback it
  waits for its timeout and returns nothing, because it keeps the RX
  thread from bringing the replies.
* `CallbacksExclusive` and `Feed` speak of the samples of other clients. The
  client's own publications come on the publishing thread, and may run the
  callback there while it runs on the RX thread (`AloneUnlessLocal`).
* Two stamps may become one time, and a time may be off by about a quarter of
  a microsecond, upwards as well; half a microsecond is the most that
  `CloseToClock` allows it, for 53 bits and stamps of today.
* `add_mem_storage()` succeeds without a router: the key then names the id of all
  zeros, no storage comes to be, and the record refuses a second try until
  `remove_mem_storage()`.

## 5. What is proved

TLAPS checks these for every value of the constants that the assumptions
allow: any finite or infinite sets of topics, keys, addresses and texts, any
relation between topics and keys, any number of publications, breaks, sessions,
faults, contexts and allocations.

`SubscriptionProofs` (assumptions `MatchAssumption`, `StoredAssumption`,
`BoundAssumption`):

* `TypeCorrect`: `TypeOK`.
* `Exclusion`: `CallbacksExclusive`.
* `ContextsAlive`: `ContextAlive`.
* `ForwardOnly`: `NeverBackwards`.
* `OnlyGapLost`: `OnlyTheGapIsLost`.
* `ImplementsFeed`: `Spec => FeedSpec`.

The inductive invariant is `IInv == TypeOK /\ ThreadInv /\ OrderInv /\
ReplayInv`.

* `ThreadInv` relates the two program counters: at most one call is under way;
  the session knows exactly the subscribers whose entry is there and not being
  removed; the RX thread sees `_once` true only after `SetOnce`; what it still
  has to hand a sample to has an entry; the callback it runs is one whose flag
  was seen, and the only one. `CallbacksExclusive` is not inductive without the
  link from `once` to the stage, nor `ContextAlive` without the one from
  `declared` to the stage.
* `OrderInv` bounds what was shown, and what will be replayed, by `Reach`: the
  sample the RX thread has in hand, or the one it takes next when it has none.
  It holds because the storage is at most one entry ahead of the link, and
  because replies stay behind the samples that were on the link before them
  (`snap <= barrier + 1`). Without it a live sample could be older than the
  reply shown before it.
* `ReplayInv` says that the replies of a query are one value of each key, and
  that none of their keys has been shown yet by the subscription the query is
  made for: `Feed` lets the replay show a key once.

`OnlyTheGapIsLost` needs another invariant on top of `IInv`, `LossInv`. It speaks of
every state, not only of those in which the RX thread is idle: what the storage
answered is among the replies until it is shown (`ReplayDue`), and what came off
the link since `_once` was seen is in the hand of the RX thread until it is shown
(`LiveDue`). Its first part says that a query which ended well has brought the
whole answer: a query that was lost covers nothing (`covered` is 0 then).
The steps that write the log, move the link or show a sample only make `shown`
grow or add entries behind `rcvd`; the one step with an argument of its own is
`RxTake`, where an entry becomes due and a hand takes it at the same time.

`ImplementsFeed` maps each action: those of the network, the query and the
waiting stages stutter; `Subscribe` is `Open`; `ReplayStarts` and
`CallbackStarts` are `Show`; `ReplayReturns` and `CallbackReturns` are
`EndShow`; `OnceSeen` is `GoLive`; `EraseEntry` is `Close`.

`ClientProofs` (`NumberAssumption`, `StripAssumption`, `HostAssumption`, `PortAssumption`,
`BoundAssumption`): `TypeCorrect`, `RecordsSafe` (`RecordsHaveSession`),
`NullOnly` (`NullOnlyInErase`), `NoLeak`, `EndpointCorrect`. The inductive
invariant is the conjunction of all of them with `DrainInv`: when a call is about
to dial, every record is gone and the session is null. `SlashedSpins` is an action
property that no run checks: with a key that begins with `/` a drain goes on for ever. The
entry that is removed in its stead, if any, is another one, since the records of one session
have different topics.

`HandleProofs` (`BoundAssumption`): `TypeCorrect`, `OwnershipCorrect`
(`OneOwner`), `NothingOutlives`, `OwnClient` (`OwnClientUnlessMoved`). `OneOwner`
holds between calls only; what holds within a swap as well is `OwnedInv`, in
which the second object of the swap owns what is in `temp`. `SwapInv` says that
both objects point to one implementation between the two steps, and that what
is exchanged counts as carried from the beginning: without it the step that
overwrites the first pointer would take a client from its callbacks.

`VariableProofs` (`BoundAssumption`): `TypeCorrect`, `OwnIsSafe`
(`OwnFindsViews`), `OwnedCorrect` (`OwnedLasts`), `ReleaseCorrect`
(`ReleaseIsComplete`). `VarOK` is kept by every operation on one variable;
`BooksInv` relates what was handed out to what is allocated.

`CallbacksProofs` (`BoundAssumption`): `TypeCorrect`, `ContextsKept`
(`ContextInMap`), `AloneCorrect` (`AloneUnlessLocal`), with calls nested to any
depth. The inductive invariant speaks of frames. `FramesInv` says what each frame
knows of the map and of `_once`, and that a call is never below another unless it
is one that runs callbacks (`subscribe()` in its loop, `publish()`, a callback).
`PairInv` ties a replay to the call right below it and keeps two calls of
`subscribe()` from sharing a topic: without it the call that sets `_once` could
let live callbacks in under another loop over the same context. `LeaveInv`
follows `unsubscribe()`: no frame of its own thread is about its topic, zenoh
knows the topic no more once it waits, and the RX thread is out of its callbacks
when it erases. `EntryInv` says that no two topics share a context. The proofs
say nothing of calls that `Tolerated` rules out.

`StorageProofs` (`BoundAssumption`): `TypeCorrect`, `RecordsAgree` (`Agree`), for
any number of clients, names and commands on their way. Two facts make `Agree`
inductive. `OnlyUsers` says that whoever has a record of a name, or a command for it
on its link, is among the name's users: so a name with one user has one link,
and the last command that counts for it is the last one sent. `UniqueNames` says that a client
has one record of a name: so a removal takes away the only one. `Due` are the
commands for a name that the router will not ignore; the lemmas
`DueAppend` and `DueTail` say what one more command at the end, and one less at the
front, do to the last of them.

`GetProofs` (`CapacityAssumption`, `AnswersAssumption`, `BoundAssumption`):
`TypeCorrect`, `AnswersInOrder` (`AnswerInOrder`), `AdminRepliesLeak`
(`OnlyAdminLeaks`), for any capacity, any answers and any number of calls. The
inductive invariant follows each reply from the router to the loop: it is on the
link (`OnLink`), in the hand of the RX thread (`InHand`), in the channel (`InChan`) or
`Dropped`.

* `DataInv`: a reply that is anywhere is one the router wrote (`Genuine`), or
  one of the timer's, which has no number.
* `LifeInv`: who can still add to a channel: a query that is open has its receiver,
  and so does one whose reply is in a hand; a query that has returned has neither.
* `FinalInv`: the final message of a query is behind its replies, so that nothing is
  left on the link for a query that ended by it.
* `RowInv`: the places are passed in one order: what was dropped is before what is
  in the channel, that before what is in the hand, that before what is on the
  link. The timer's replies overtake those of the link, which is why they
  have no number.
* `WholeInv`: of a query that was not cut off no reply is missing from the four
  places; of one that was, none before the last one taken.
* `KeptInv`: what `get()` has collected is the values among what it has dropped.

No conjunct alone is inductive: a reply that is taken off the link when its query is
not open is lost, and only `FinalInv` says that this query was cut off.

`PublishProofs` (`SmallAssumption`, `WholeAssumption`, `FloatAssumption`,
`ContentAssumption`, `WidthAssumption`, `ExponentAssumption`): `TypeCorrect`,
`ValuesSurvive` (`ValueSurvives`), `TimeIsMonotone` (`TimeNeverBackwards`),
`TimeIsClose` (`CloseToClock`), for integers with any number of digits, texts and
buffers of any content, and every width of seconds, fraction and mantissa, those of
the code among them. The state machine is the small part of it (`Inv`): `SampleInv`
and `VariableInv` say that payload and encoding are those of the last call and that the stamp is
the last one given, `TimeInv` that no stamp still to be given is shown with an
earlier time than the last one shown. The rest are lemmas about the conversions,
which are defined by recursion over numbers and texts:

* `Induction` is proved from the library's theorem that < is well-founded on Nat,
  for a *set* of numbers, as the provers take no predicate; `Recursion` says that
  a function defined by recursion exists, and `ValuesUnique` that there is one.
  From these come the equations of `pow2`, `digits` and the function in `NumberOf`.
* A decimal text is read back digit by digit (`NumberOfAppend`, `NumberOfDigits`);
  `CutAtNulOK` leaves it alone since no digit is NUL; the encodings tell the
  types apart that `Read` treats differently (`Encodings`, `Names`).
* Rounding keeps the order (`RoundMono`): two quotients with the same last
  place are rounded to neighbours of their own (`NearestMono`), and where the last
  places differ there is a power of two between them. A last place exists for each
  quotient that occurs (`UlpExists`, which is what `ExponentAssumption` is for), and the
  quotients of the three roundings stay in range (`QuotFine`, `SumFine`, `ProdFine`). With that,
  `UnixTimeMono` composes three roundings and a cut.
* Rounding is off by half a last place at most (`RoundErrorAtMost`). `Near` says that two
  fractions are no further apart than a third; `UnixTimeClose` adds up the
  distances along the chain from the stamp to its time.

**Only model-checked.** The liveness properties (`SubscribeReturns`,
`LiveSampleShown`, `CallsReturn` of two modules, `AddedIsHeld`, `RemovedIsGone`,
`GetReturns`, `SamplesGetThrough`), which rest on fairness: that is out of the
prover's reach. Every other property that a passing run checks has its theorem.

## 6. Plan

Every component named in section 1 is modelled. What would come next:

1. `Callbacks` and `Subscription` as one: own publications in the feed of a
   subscription, between the replay and the live samples.
2. Two links of two clients in `Storage` whose commands overtake each other, if
   the library comes to say who owns the name of a storage.

## 7. Not modelled

* Running out of memory, and other exceptions: `own()` with a `bad_alloc` half-way,
  `std::bad_alloc` in a callback.
* Samples without a time stamp: `z_sample_timestamp` may give a null pointer, which
  is used without a look; what happens then is undefined.
* Congestion: `z_put` is told to block. Whether the link drains while the RX
  thread blocks in `publish()` is up to zenoh.
* Two clients that use one name of a storage: `Storage` has the behaviours, its
  properties leave them out.
* Topics that are views into longer strings: `data()` is used as a C string (351, 416
  and elsewhere).
* The texts that boost gives floats (of which the proofs assume that they tell
  values apart), the JSON of the storage configuration, logging. Integers beyond TLC's
  32 bits are in no run; the proofs include them.
* `determine_connected_router_count()`, which nobody calls.
* Examples, tests, build, packaging and CI, which have no state of their own.

## 8. Running it

    tlc -workers 2 -config SubTwoTopics.cfg MCSubscription
    tlapm SubscriptionProofs.tla

`PublishProofs` takes tlapm a few minutes, the others less.
`PROJECT.json` names the module and the configuration of every run.
