# TLA+ models of canadensis

Models of the parts of the canadensis UAVCAN stack whose sources are under
`src/`. They cover the bxCAN driver (transmit with deadlines, receive, filters),
the serial transmitter, the redundant frame queue, the `BitArray` encoding
type, and where the Rust code generator puts the items it generates. TLC
model-checks the models on small instances. For every value of the constants,
TLAPS proves the following:

- the main invariants of the bxCAN transmit driver;
- the order and completeness of the receive path, and that it refines an
  abstract receive channel;
- the capacity and refusal properties of the redundant queue;
- the agreement of `BitArray`'s `eq` and `cmp`;
- the layout properties of the generated code.

## The system and its parts

The application hands transfers to a transport. The transport breaks them into
frames and hands those to a driver. In the other direction the driver receives
frames and the transport reassembles them. The sources contain:

| part | source | module(s) |
|---|---|---|
| bxCAN transmit: `transmit`, `clean_expired_frames`, `DeadlineTracker` | `canadensis_bxcan/src/lib.rs` 73-133, 195-242 | `BxCanDriver`, `MC_BxCanDriver`, `BxCanDriver_proofs` |
| bxCAN receive: `receive`, `apply_filters`, `apply_accept_all`, `bxcan_frame_to_uavcan` | `canadensis_bxcan/src/lib.rs` 135-193, 255-274 | `BxCanReceive`, `MC_BxCanReceive`, `BxCanReceive_proofs`; contract `ReceiveChannel` |
| serial transmitter: `push`, `flush`, `TransmitQueue` | `canadensis_serial/src/tx.rs` | `SerialTransmitter`, `Cobs` |
| redundant queue: `try_reserve`, `push_frame` | `canadensis_can/src/redundant/redundant_queue.rs` | `RedundantQueue`, `MC_RedundantQueue`, `RedundantQueue_proofs` |
| `BitArray`: new, get, set, fill, (de)serialize, iterators, eq, cmp | `canadensis_encoding/src/bits.rs` | `BitArray`, `BitArray_proofs` |
| code generator: `to_rust_type` sizing of `bool[N]` | `canadensis_codegen_rust/src/lib.rs` 478-496 | `BitArray` (`BytesFor`) |
| code generator: `generate_code`, `external_module`, `generate_from_dsdl`, type naming, `ModuleTree` | `canadensis_codegen_rust/src/lib.rs` 46-159, 199-215, 554-631; `module_tree.rs` 12-47 | `CodegenLayout`, `MC_CodegenLayout`, `CodegenLayout_proofs` |

The components these parts talk to are not under `src/`. They enter the models
as the design (spec.md) describes them, and every such definition is marked
`spec_modelled` in PROJECT.json:

- the bxCAN controller hardware: mailboxes, the receive FIFO and the filter
  banks;
- the `Instant` type and its `overflow_safe_compare`;
- the CAN transmitter that splits a transfer into frames and calls
  `try_reserve`, then `push_frame`;
- the inner frame queues;
- the COBS encoder and decoder (`canadensis_serial::cobs`);
- the read cursor.

## The modules, and how they match the code

**BxCanDriver** has the following state:

- `mailbox`: the three hardware mailboxes;
- `deadlines`: the tracker's `[Option<I>; 3]`;
- `now`: real time, which the driver sees as `Inst(now) = now % 2^w`;
- `stamp`: the timestamp each caller's frame carries;
- two ghosts: `due`, the real-time deadline, and `fate`, where each frame is.

`Transmit(f)` is the whole of `transmit` in one step:

1. `clean_expired_frames` aborts the mailboxes whose tracked deadline compares
   `Greater` than now (`ExpiredPending`, `Cleaned`). An abort of a frame already
   on the bus fails, so the frame counts as sent (`AfterAborts(won)`).
2. The deadline check at line 94 comes next (`DeadlineNotPassed`).
3. The controller then answers in one of three ways: WouldBlock
   (`HwWouldBlock`), a free mailbox (`HwIntoFree`), or displacing a pending
   frame (`HwDisplace`). The third is the step that replaces the tracker slot
   and hands back the dequeued frame with the old deadline (`DequeuedFate`,
   `HandedBackStamp`).

The hardware's own steps (`Complete`), the application creating frames with a
deadline up to `MaxTimeout` ahead (`Create`), and the clock (`Tick`) are
separate actions.

**BxCanReceive** abstracts a frame to a kind and a port:

- `data`: a valid UAVCAN frame;
- `remote`: no data;
- `badid`: an extended ID that `CanId` rejects;
- `std`: a standard ID.

A filter configuration is the set of ports it admits, plus an accept-all flag.
The actions are:

- `Arrive`: the bus fills the FIFO, or overruns it. The driver never sets
  RFLM, so the FIFO stays in bxCAN's reset mode RFLM = 0. In that mode a full
  FIFO writes the new frame over its newest queued frame, which is lost, and
  sets the overrun flag (`Overwrite` gives the UAVCAN frames left queued).
- `StartReceive` and `ReceiveStep`: `receive` calls `can.receive()` one time per
  step, because frames keep arriving while it loops. Each step reports an
  overrun, or WouldBlock, or pops a frame. The frame is either returned or
  skipped.
- `ApplyFilters(S)`: `optimize_filters` either yields filters that admit at
  least `S`, or fails, and then the fallback at lines 181-184 runs.
- `ApplyAcceptAll`.

Every exit from the loop goes through `LoopExit(r)`: `receive` returns `r`.

Four ghost variables record history that the code does not keep:

- `stored`: the frames the FIFO took and kept (an overwrite replaces the last one);
- `taken`: how many of them `can.receive()` returned;
- `delivered`: the frames `receive` returned;
- `pending`: the UAVCAN frames now in the FIFO.

`Arrive` appends an admitted UAVCAN frame to `pending`. On a full FIFO it also
drops the last frame of `pending` when the overwritten frame was a UAVCAN frame.
A pop removes the head of `pending` when the popped frame is a UAVCAN frame.

**ReceiveChannel** is the abstract contract of `receive`, with no FIFO and no
non-UAVCAN frames. UAVCAN frames become receivable in order (`Offer`). When a
frame arrives with no room, `Overrun` may drop the newest waiting frame, adds
the new one if it is a UAVCAN frame, and raises the flag `lost`. A call
(`Call`) returns one of three things:

- an error, when `lost` is set, which it clears (`Fail`);
- otherwise the oldest frame not yet returned (`Deliver`);
- otherwise WouldBlock (`Empty`).

So WouldBlock means that nothing waits and no loss is unreported, and a loss is
reported once, before any frame. `ret` records what the last call returned.

`BxCanReceive` implements it through the refinement mapping:

- `inbox` is the ghost `pending`, which `DeliveredInOrder` checks to be the
  UAVCAN subsequence of the FIFO;
- `out` is the frames delivered so far;
- `busy` is whether a call is in progress;
- `ret` is `result`, and `lost` is the overrun flag.

An arrival on a full FIFO maps to `Overrun`. An arrival of a UAVCAN frame with
room maps to `Offer`. A skipped frame and an arrival of a non-UAVCAN frame with
room map to stutters.

**SerialTransmitter** abstracts a transfer to the bytes it is encoded from,
over {0, nonzero}. The header and CRC are `Overhead` bytes.

`Push` keeps every exit of `push` in order:

1. the worst-case capacity check (line 68);
2. the allocation failure (line 74);
3. the `expect` on `escape_from_iter` (line 86);
4. the second check (line 89);
5. the enqueue, whose `unwrap`s panic on a full queue.

`Flush` sends some prefix of the queue. Either the queue empties, or the next
byte is refused and goes back to the front.

**Cobs** is the encoder from the design: code byte, then data; a full block of
`BlockLen` bytes (254 in the code). It also holds `escaped_size` and the
receiver's decoder. Its operators are RECURSIVE.

**RedundantQueue**: `PushTransfer(n)` is one transfer from the transmitter.
First comes `try_reserve(n)`, which stores both statuses (`Reserved`). Then
`push_frame` runs for each frame, and each queue takes a frame only if its
status is Ok (`Pushes`). `Pop(j)` is link `j` draining its queue.

**BitArray** models the storage as a function from bit positions
`0 .. 8*BYTES-1` to bits, together with `bit_length`. `BYTES` comes from
`to_rust_type`, `(N+7)/8`.

- The actions are `new`, `set`, `fill`, `deserialize`, and
  `deserialize_in_place` on the current array.
- The operators are `get`, the iterators (`IterBits`), `eq`, `compare`,
  `serialize` and `DeserializeInPlace`. Each has both of its paths.
- The cursor reads zeros past the end of the buffer (DSDL implicit zero
  extension).

**CodegenLayout** models where `generate_code` puts what it generates. Names
are model values. `to_snake_case` (heck, not under `src/`) is the constant
function `Snake`. The version module `{snake}_{major}_{minor}` is the pair
`<<Snake[name], version>>`; the formatting is injective, because the last two
`_` groups are the version. A Rust type name is the pair of the DSDL name and
the suffix `for_service_type` pushes onto it. This is faithful for `"Request"`
and `"Response"`, because `X` and `XRequest` have different snake cases and so
different modules.

The state is:

- `package`: the compiled package, a map from type keys to kind and fixed
  port ID;
- `todo`: the keys the loop has not reached;
- `items`: `generated_types`;
- `added`, `tree`: how far `from_iter` has got, and the `ModuleTree`, a map from
  module paths to the items there.

The actions are:

- `GenerateFrom(k)`: one turn of `generate_code`'s loop. It skips `k` when
  `external_module` finds it in an external package, and otherwise appends
  everything `generate_from_dsdl` pushes: the optional `SUBJECT` or `SERVICE`
  constant, then the type or the request and response types.
- `AddItem`: one turn of `from_iter`, which calls `add_item`. `add_item`
  creates the missing submodules with `entry().or_default()` and pushes the item
  at the end of the path.

The package map is walked in key order in the code. The model lets any
remaining key come next, which covers that order.

## Runs

| run | cfg | checks | result |
|---|---|---|---|
| bxcan_tx | `MC_BxCanDriver.cfg` | TypeOK, TrackerMatchesMailbox, FrameAccounting, StampIntact, AbortOnlyExpired | pass, 2.3M states |
| bxcan_rx | `MC_BxCanReceive.cfg` | DeliveredInOrder, SubscribedAdmitted | pass, 2.9M states |
| bxcan_rx_channel | `MC_BxCanReceive_channel.cfg` | ImplementsChannel | pass, 0.4M states |
| bxcan_rx_live | `MC_BxCanReceive_live.cfg` | ReceiveReturns (under `LiveSpec`) | pass, 0.7M states |
| codegen_layout | `MC_CodegenLayout.cfg` | TreeHoldsItems, ExternalModuleIsLongestPrefix, GeneratedExactlyInternal, NoCollision | pass, 0.6M states |
| codegen_snake_merge | `MC_CodegenLayout_snake.cfg` | NoCollision | violation (finding) |
| serial_tx | `MC_SerialTransmitter.cfg` | TypeOK, NoPanic, StreamIsFramedTransfers, ReceiverRecoversTransfers | pass |
| redundant | `MC_RedundantQueue.cfg` | TypeOK, WholeTransfersOnEachLink | pass |
| bitarray | `MC_BitArray.cfg` | CompareIsShortlex, EqAgreesWithCmp | pass |
| bitarray_roundtrip | `MC_BitArray_roundtrip.cfg` | RoundTrip | violation (finding) |

What the properties say:

- **TrackerMatchesMailbox:** the tracked deadline of every occupied mailbox is
  its frame's.
- **FrameAccounting:** a frame is pending exactly when it is in one mailbox, and
  a dequeued frame is never lost.
- **StampIntact:** a handed-back frame carries its own deadline.
- **AbortOnlyExpired:** an action property: a frame is aborted only after its
  real deadline has passed.
- **DeliveredInOrder:** `receive` returns exactly the UAVCAN frames the FIFO
  took and kept, in order, however arrivals and overwrites interleave with the
  skipping loop. The
  UAVCAN frames still in the FIFO are `pending`. A subsequence is stated by
  `UavcanSubseq(p, q)`: an increasing index map `EmbeddedBy(f, p, q)` takes
  every frame of `p` to an equal UAVCAN frame of `q`, and reaches every UAVCAN
  frame of `q`.
- **SubscribedAdmitted:** after `apply_filters`, every subscribed port's
  extended frames pass the hardware.
- **NoPanic:** no `unwrap` or `expect` fails, and the queue never exceeds its
  capacity.
- **StreamIsFramedTransfers:** what the driver took plus what is queued is
  exactly the framed encodings of the accepted transfers.
- **ReceiverRecoversTransfers:** a receiver delimiting and decoding the wire
  gets the accepted transfers back, in order.
- **ImplementsChannel:** `Channel!Spec`: every behaviour of the driver, under
  the refinement mapping, is a behaviour of `ReceiveChannel`. So a call
  reports an overwritten frame with an error before anything else, returns
  WouldBlock only when no UAVCAN frame waits and no loss is unreported, and
  otherwise returns the oldest waiting UAVCAN frame.
- **ReceiveReturns:** `calling ~> ~calling`: every call of `receive` returns.
- **TreeHoldsItems:** the module tree holds each added item at its own module,
  in generation order, and its modules are the root and the prefixes of the
  items' paths. A module's items are stated by `ItemsAtModule`: an increasing
  map of their positions onto those of the items added so far that reaches
  every added item at that path.
- **ExternalModuleIsLongestPrefix:** `external_module` resolves a path through
  the longest external package containing it. The reference it is checked
  against is stated independently of the loop.
- **GeneratedExactlyInternal:** once the loop is done, each internal type has
  one item per message, or two per service, plus one if it has a fixed port ID.
  An external type has none.
- **NoCollision:** no two generated items share a Rust path and name.
- **WholeTransfersOnEachLink:** each link carries only whole transfers. What
  the link took plus what is queued is, one after another, frames 1 to n of
  each transfer pushed onto it (`FramesAt`: a witness `start` gives where
  each transfer's frames begin).
- **CompareIsShortlex** and **EqAgreesWithCmp:** `cmp` is the shortlex order of
  the visible bits, and `eq` agrees with it, whatever the padding holds.
- **RoundTrip:** serialize then deserialize returns the same bits and leaves the
  cursor at the next field.

Every property of a passing run has a mutant in PROJECT.json. A mutant is a
plausible fault in the code the property is about, and TLC finds the property
violated when that fault is present. Some examples:

- a tracker update written to a copy;
- `>=` for `>` in the abort test;
- a capacity check off by one;
- a refused byte put at the back of the queue;
- `push_frame` ignoring the stored status;
- swapped bit order in `compare`;
- a conversion that accepts standard-ID frames;
- the overrun error passed on as WouldBlock;
- a receive loop that returns only with a frame;
- `add_item` replacing the items at a module;
- external packages searched shortest first;
- the version module named without the version;
- no `SERVICE` constant.

Bounds, and why they are enough:

- **bxcan_tx:** a 3-bit clock (`ClockModulus = 8`), six ticks, deadlines up to
  2 ahead and four frames. That is enough for three busy mailboxes plus a fourth
  frame, which forces displacement. `now` stays below 8, but deadlines reach
  8 and wrap to 0, so the wrapped comparison is exercised, and
  abort-vs-completion races happen.
- **bxcan_rx:** two ports (symmetric), a FIFO of two frames and five arrivals.
  That is enough to overwrite a queued frame, of either kind, on a full FIFO
  and to have skipped frames interleaved with UAVCAN ones.
- **serial_tx:** `BlockLen = 2` stands in for 254, so that full blocks, zero
  bytes and final blocks all occur in encodings of 1 to 3 bytes. A capacity of
  12 makes both the Ok and the OOM outcomes of the check reachable.
- **redundant:** queue capacities 2 and 3, and transfers of 1 to 2 frames. A
  transfer can then fit one queue only, and one full queue can sit next to one
  with room.
- **bxcan_rx_channel, bxcan_rx_live:** as `bxcan_rx`, with four arrivals.
  Four are enough for an overrun followed by more frames. The liveness run has
  no symmetry, because symmetry is unsound for liveness checking.
- **codegen_layout:** two names, two versions, and packages of up to three
  types over four package paths: `a.b` and `a.c` under the external package
  `a`, of which `a.b` is itself an external package, then `d`, and `_`. That
  covers nested external prefixes, a subpackage of an external package, the
  `_` identifier, two versions of one type, and a message beside a service in
  one module. `codegen_snake_merge` differs only in giving both names one snake
  case.
- **bitarray:** one byte of storage. It covers lengths 0 to 8, padding of 0 to
  8 bits, the full-array fast path, and offsets 0 and 1. The round trip uses two
  bytes, which is the smallest storage where a length that is a multiple of 8
  is not the full array.

**Fairness.** Only `bxcan_rx_live` assumes fairness:
`LiveSpec == Spec /\ WF_vars(ReceiveStep)`.

This is justified because `receive` is a plain loop on the caller's thread.
Once called, it keeps calling `can.receive()` until it returns, and nothing
else runs on that thread. No fairness is assumed for the bus (`Arrive`) or for
the application calling `receive`. The loop ends because every step either
returns or pops a frame, and at most `MaxArrivals` frames arrive.

All other properties are safety properties. The drivers are passive, so they
act only when called. Deadlock checking is off where the bounded run simply
ends: the driver waits for a caller, the redundant queue has pushed its last
transfer, and `generate_code` has returned.

## Findings

- **code_bug,** `canadensis_encoding/src/bits.rs:82`: `deserialize_in_place`
  takes its byte-wise fast path for every `bit_length` that is a multiple of 8,
  0 included, and then reads all `BYTES` bytes. For a `bool[<=16]` value of 0 or
  8 bits it reads bits that belong to the next field
  (`bitarray_roundtrip`; the counterexample is the empty array).

- **spec_gap,** `canadensis_codegen_rust/src/lib.rs:558`: the version module is
  named after `to_snake_case` of the type name. That maps distinct DSDL names
  such as `FooBar` and `Foo_Bar` to one module, `foo_bar_1_0`. When both have
  fixed port IDs, two `pub const SUBJECT` land in that module and the generated
  crate does not compile (`codegen_snake_merge`). Nothing in the code or the
  design rules such names out.

## Proofs

TLAPS checks `BxCanDriver_proofs`, `BxCanReceive_proofs`,
`RedundantQueue_proofs`, `BitArray_proofs` and `CodegenLayout_proofs` to the
last leaf.

**Transmit driver.** The inductive invariant is
`IInv == TypeOK /\ TrackerMatchesMailbox /\ FrameAccounting /\ StampIntact`.

- The properties cannot be proved one at a time. The displacement step keeps
  `StampIntact` only because the tracker matched the mailbox
  (`TrackerMatchesMailbox`). A displaced frame is not lost only because it was
  pending in exactly one mailbox (`FrameAccounting`). The tracker stays right
  only because the frame written was not already in a mailbox.
- The preservation lemma has one lemma per action: `CreateIInv`,
  `CompleteIInv`, `TickIInv`, then `DroppedIInv`, `WouldBlockIInv`,
  `IntoFreeIInv` and `DisplaceIInv` under `TransmitIInv`. A common lemma,
  `CleanedFacts`, covers what `clean_expired_frames` leaves.
- The theorems TypeCorrect, TrackerCorrect, NoFrameLost and
  HandedBackStampCorrect follow from it.

**AbortOnlyExpiredHolds** proves `Spec => AbortOnlyExpired` under the hypothesis
`MaxTimeout < ClockModulus \div 2`, which the model-checked instance satisfies.
The argument has three steps:

1. `DueBound` is invariant: every deadline is at most `MaxTimeout` ahead of now.
2. The arithmetic lemmas `ModUnique`, `DivMod` and `ModDiff` give
   `NotGreaterBeforeDue`: if `0 <= d - t < M/2`, then
   `overflow_safe_compare(t mod M, d mod M)` is not `Greater`.
3. So a frame whose deadline is still ahead is never aborted.

The hypothesis is the code's real precondition: the design defines "earlier"
as the half circle behind the reference point, so an instant more than half
the range away is not comparable as the real times are.

**Receive driver.**

- ReceiveTypeCorrect is proved by a case split over the actions and their
  branches.
- FiltersSound proves `Spec => []SubscribedAdmitted`. Both outcomes of
  `apply_filters` admit the new subscriptions, `apply_accept_all` admits
  everything, and no other action touches the filters.
- FifoInOrder proves `Spec => []FifoHoldsUntaken`, the first conjunct of
  `DeliveredInOrder`, from the position-wise invariant `FifoIdx`. It states that `Len(stored) = taken + Len(fifo)` and
  that the FIFO's i-th frame is stored frame `taken + i`. The equation between
  sequences is not inductive as it stands; the index form is.
- DeliveredInOrderHolds proves `Spec => []DeliveredInOrder`. Besides
  `FifoHoldsUntaken` it proves two facts:
  - `DeliveredSub`: `delivered` is that subsequence of the frames taken;
  - `PendingInv`: `pending` is that subsequence of the FIFO.

  The four lemmas `SubseqAppendUavcan`, `SubseqAppendOther`,
  `SubseqTailUavcan` and `SubseqTailOther` cover an arrival and a pop of
  either kind of frame. `SubseqTailUavcan` is the key step. When the FIFO's
  head is a UAVCAN frame, the map sends `pending`'s first frame to place 1,
  because it is increasing and reaches place 1. So the popped frame is the
  head of `pending`. For an overwrite, `ExceptLastIsAppend` turns the
  write over the last frame into dropping it and appending the new one, and
  `SubseqFrontUavcan` and `SubseqFrontOther` show what dropping the newest
  frame does to the subsequence. The map sends `pending`'s last frame to the
  FIFO's last place when that place holds a UAVCAN frame.
- ImplementsChannelHolds proves `Spec => ImplementsChannel`, the refinement
  with `inbox <- pending`, under `TypeOK /\ PendingInv`. It has one case per
  action and branch:
  - an admitted UAVCAN arrival with room is `Offer`;
  - an admitted arrival on a full FIFO is `Overrun`, with the kept inbox as
    the witness;
  - `StartReceive` is `Call`;
  - the empty branch is `Empty`, because an empty FIFO has an empty
    subsequence (`SubseqOfEmpty`);
  - a UAVCAN pop is `Deliver`, by `SubseqTailUavcan`;
  - the overrun branch is `Fail` because `lost` is the overrun flag, and the
    empty and pop branches run only with it clear, as `Empty` and `Deliver`
    require;
  - everything else leaves `pending`, `delivered`, `calling`, `result` and
    `overrun` unchanged.

**Redundant queue.** The inductive invariant is `TypeOK /\ QueueWithinCap`.
`push_frame` appends `Min2(n, Free(j))` frames, which is a natural number only
while no queue is over its capacity. TypeCorrect states both:
`Spec => [](TypeOK /\ QueueWithinCap)`.

WholeTransfersOnEachLinkHolds proves `Spec => []WholeTransfersOnEachLink` on
top of the same invariant. The property is inductive by itself once the
typing is known. A push is split three ways:

- a queue whose `try_reserve` succeeded takes all n frames, and the transfer
  is appended to its list (`WholeAppend` extends the `start` witness by one
  entry);
- a queue whose `try_reserve` failed takes none and its list is unchanged;
- a refused push changes nothing.

A frame the driver takes moves from the queue to the link and leaves their
concatenation as it was (`PopKeepsConcat`).

**BitArray.** EqAgreesWithCmpHolds follows from `EqIffCompareEqual`, a lemma
about the two operators on any two arrays whose lengths are integers: `cmp`
answers Equal only from its third branch, reached with equal lengths and no
differing zipped bit. TypeCorrect supplies the integer lengths.

**Code generator.** `NoCollisionHolds` proves `Spec => []NoCollision` for every
package, every set of package paths and every external-package map, under
`NamingAssumption`:

- package paths are sequences of segments;
- no segment or name is the identifier `_0`;
- `Snake` is injective on names;
- no name is `SUBJECT` or `SERVICE`.

`codegen_snake_merge` shows that the injectivity hypothesis is needed. The
argument has three steps:

1. `PathDeterminesType`: an internal type's module path determines its
   package, its snake-cased name and its version, and so the type. It rests on
   `AppendInjective`, `SeqEqual` and `IdentifierInjective`.
2. `GeneratedItemsOfType`: the items `generate_from_dsdl` pushes for one type
   lie at that type's path and have pairwise distinct names. The proof splits
   over the four cases of kind and fixed port ID.
3. The inductive invariant `IInv` adds to `NoCollision` that every item is an
   item of an internal type of the package already taken off `todo`. This is
   what separates the old items from the new ones in `GenerateFrom`. NoCollision
   alone is not inductive.

Four more theorems cover the code generator:

- **ExternalModuleIsLongestPrefixHolds.** `external_module` finds the longest
  external prefix. The argument is `ExternalModuleLongest`, with `MaxExists`:
  a nonempty bounded set of naturals has a maximum. That lemma is proved by
  well-founded minimality (`WFMin`) on the reflected set, because the
  induction theorems take an operator parameter.
- **GeneratedExactlyInternalHolds.** Its inductive invariant is `CountInv`.
  Each type already generated owns one contiguous block of `ItemCount(k)`
  items. A type still to do, or in an external package, owns none. It rests on
  `MarkerAssumption`: `"none"` is not a path segment, so the `None` result of
  `external_module` is told apart from every module path
  (`NoneIffNotExternal`).
- **TreeModulesHold.** The module tree is exactly the root plus the modules on
  the added items' paths. This is the first conjunct of `TreeHoldsItems`.
- **TreeHoldsItemsHolds.** `Spec => []TreeHoldsItems`, under
  `PathsAssumption`: package paths are sequences of segments, so an item's
  path is one of its own prefixes. The inductive invariant `HoldsInv` adds
  three things to `TreeInv`: the typing `ItemsType`, `added <= Len(items)`,
  and that every module holds a sequence of generated items. It does not
  need the naming facts. Four lemmas on `ItemsAtModule`, for any sequence and
  bound, cover `add_item`:
  - `AtModuleExtend`: the item's own module gets it appended;
  - `AtModuleSkip`: every other module keeps its items;
  - `AtModuleEmpty`: a prefix created now holds nothing. By `NotAModule`, no
    earlier item lies at a module that was not in the tree;
  - `AtModuleZero`: while `generate_code` still runs, no item is counted, so
    the modules stay empty however `items` grows.

What the prover cannot reach, and stays with TLC:

- **Liveness and ENABLED.** `ReceiveReturns` is checked by TLC only.
- **SelectSeq, FlattenSeq and recursive functions.** tlapm treats `SelectSeq`
  as an opaque symbol with no axioms; it cannot even show
  `SelectSeq(<<>>, T) = <<>>`. A recursive function definition becomes a
  `CHOOSE` whose existence the provers cannot establish, since that needs
  induction with an operator parameter. This affects the following
  properties, which stay with TLC:
  - `CompareIsShortlex` and `RoundTrip` (`BitArray`'s weights and bit
    iteration);
  - `NoPanic`, `StreamIsFramedTransfers` and `ReceiverRecoversTransfers`
    (COBS).
- **RECURSIVE operators.** A module that reaches a RECURSIVE operator loses its
  SMT backend, so no theorem is stated there. That rules out `Cobs` and
  `SerialTransmitter`. Of the community modules only `Bitwise` declares one.
  `SequencesExt` does not; `SerialTransmitter` takes `FlattenSeq` from it.
  `DeliveredInOrder`, `TreeHoldsItems` and `WholeTransfersOnEachLink` are
  written with index maps instead of `SelectSeq` and `FlattenSeq`, so the runs
  check the very definitions the theorems state.

## Not modelled

- The UDP transport: only a test and an example are under `src/`.
- The CAN transmitter, receiver and session reassembly, the frame queues, the
  filter optimizer, the serial receiver, the node and plug-and-play: they are
  not under `src/`.
- The rest of the code generator: fields, padding, zero-copy layout,
  serialization code and the `Display` impls. These write Rust source text.
  Their only state is the output string, and no property distinguishes more
  than what `CodegenLayout` keeps.
- `canadensis_udp/examples/receive.rs`: a demonstration loop that polls a
  `UdpReceiver` (not under `src/`) and prints what it gets.
- `try_reserve` of the bxCAN driver. It answers Ok for a single frame without
  looking at the mailboxes, so a reservation does not promise a free mailbox.
  This is listed as a hazard with no property yet, because its caller is not in
  the sources.

## Plan for later sittings

1. Add liveness of `flush`: under weak fairness of `Flush` with a driver that
   eventually accepts, the queue drains.
2. Model the CAN transmitter and reassembly from the design, composed with
   `RedundantQueue` and `BxCanDriver`, and state the end-to-end property that
   transfers are delivered or expire.
3. Add an abstract transmit-deadline specification, and show that
   `BxCanDriver` refines it.
4. Model more of the code generator (array length prefixes, alignment).
