# TLA+ models of gatewayForMulticom

This directory holds TLA+ models of the three programs in this repository
that have real control logic:

* `ndncatchunks2` (`src/csrc/cmd/ndncatchunks2.c`). It is the NDN chunk
  retriever that `spec.md` describes: a sliding window of interests,
  out-of-order buffering, in-order output, an rtt estimate and a hole filler.
* The sensor-network gateway built into `ndnd` (`src/csrc/ndnd/ndnd_main.c`,
  `ndw.h`, `define.h`). Four threads share unsynchronised globals: a UDP
  listener, a topology thread, a worker and the ndnd thread. A SIGALRM
  handler also touches them.
* `ndnbx` (`src/csrc/cmd/ndnbx.c`). A filter that reads an ndnb-encoded file
  in chunks and writes the first element with a given tag.

Every definition is translated from the source. `PROJECT.json` maps each one
to the lines it models, lists the runs and their mutants, and records the
findings and hazards.

## 1. The system and its parts

### ndncatchunks2

All of it runs on one thread. `main` sets up `struct mydata` and calls
`ask_more(0)`. It then runs the NDN library's event loop for 500 ms (the
probe) and, if anything was delivered, until the connection closes. The
library calls back into the program in two ways:

* `incoming_content` is the closure of each of the PIPELIMIT slots. It
  handles every upcall kind:
  * FINAL sets `intdata = -1`;
  * a timeout re-expresses the interest and collapses the window;
  * content is buffered out of order, or written in order and followed by
    a drain of the buffered slots that come next;
  * after either, it tops up the window with at most two `ask_more`s.
* `fill_holes` is a scheduled event. It notices a stall and expresses a
  recovery interest on a throw-away `hole_filled` closure, with an
  exponential backoff.

`update_rtt` arms one probe at a time, and folds the matched sample into
`rtte`.

The library itself (interest table, closure refcounts, the upcall results
OK / ERR / VERIFY / FETCHKEY / REEXPRESS) is not in this repository. The
model keeps exactly what the upcalls rely on.

### The gateway

`gateway_init` starts three threads:

* the listener `usbportListen`;
* the topology thread `topo_management`;
* the worker `worker_thread`.

Only after that does it initialise the mapping table, the tree's check
array, `scope_name`, the 50 s timer, and `top`/`bottom`.

The threads interact as follows:

* **listener → topology thread.** TOPOLOGY frames go through a 128-slot ring
  `queue[top/bottom]` counted by `sem_queue`. The topology thread builds each
  route into a tree (`topo_tree_build`). If the route conflicts with the
  tree, the thread recycles the tree.
* **listener → worker.** DATA frames are copied into the shared `recv_data`
  and flagged with `data_flag`. The worker polls the flag during a 30 s
  window per interest.
* **ndnd thread → worker.** `request_from_backbone("ints/...")` writes
  `scope_name` and posts `sem_interest`.
* **Read-only answers on the ndnd thread.** "location" lists the mapping
  table and "topo" walks the tree.
* **Mapping table.** MAPPING frames set an entry's `expire` to 5. The
  SIGALRM handler counts entries down.

### ndnbx

`ndnbx(path, selector, options)` opens the file (or stdin), looks the
selector up in the DTAG dictionary and sets the library's skeleton decoder
to pause after every token. It then loops: `read()` whatever is available
into a growing buffer, and run the decoder over the bytes not yet decoded,
one token per call. A paused DTAG equal to the selector marks the start
(`token_index`), resets the decoder's `nest` to 1 so that it stops at that
element's CLOSE, and, without `-d`, lets the decoder run at full speed to
that end. With `-d` the first BLOB/UDATA directly inside the element marks
the slice instead. Once the decoder is final the slice is written. An end
of file, a failing `read()` or a decoder error goes to `Finish` with the
status as it is.

## 2. Modules

| Module | Models | State | Actions |
|---|---|---|---|
| `RttEstimator` | `update_rtt` smoothing rule | (none) | the operator `NextRtte(rtte, delta)` |
| `Delivery` | what ndncatchunks2 promises on stdout | `out` (segments written), `outcome` (running / done / failed) | `Write`, `End` |
| `CatChunks` | all of ndncatchunks2's control | `md` (mirrors `struct mydata`), `pending` (bag of the library's pending interests, [closure, name]), `status`, `out` (segments written) | `Arrive(s, kind)`, `TimeoutHole`, `TimeoutSlot`, `FillHolesStalled`, `FillHolesProgress`, `ProbeEnd`, `Disconnect` |
| `TopoTree` | the topology tree and its answer | `tree` = [kids (each node's ptr[] array), check (topo_tree_node_check), rebuild] | `Receive(route)` = one message of topo_management |
| `Gateway` | the four threads, the init order, SIGALRM | ring, semaphores, `recv_data`/`data_flag`, `scope_name`, table, thread pcs | `InitTable`, `ResetQueue`, `AskInts`, `RecvTopo`, `RecvDataStart/End`, `RecvMapping`, `TopoTake`, `TopoProcess`, `WorkerWake/Read/Clear/Answer`, `TickBegin/Load/Store`; the operator `Located` (the "location" answer) |
| `NdnBx` | `ndnbx` and the part of `ndn_skeleton_decode` it relies on | `pc`, the input `file`, `sel`, `-d`, `dtag`, `got` (`c->length`), `d` (the decoder: state, nest, numval, paused token type, token_index, index, pause), `status`, `start`, `end`, `out`, `written` | `OpenFails`, `Open`, `Read`, `ReadFails`, `Decode`, `Write` |
| `FrameReader` | the listener's byte-level frame reassembly | `usbbuf` (bytes, or UNDEF where never written), `total_read`, `start`, `ftype`, `pc`, the peer's `inbox`, history `handled`, `sent` | `Handshake`, `RecvFill`, `RecvHead`, `RecvBody` |

`CatChunks` instantiates `RttEstimator` for `NextRtte`, and instantiates
`Delivery` with a refinement mapping to check that it implements it.
`Delivery` is the abstract contract and translates no code, so
`PROJECT.json` maps none of its definitions.
`Gateway` instantiates `TopoTree` for the tree step. The MC modules (`MC*.tla`) give
the constants values.

### How CatChunks corresponds to the code

* **`Arrive(s, kind)`** is the library receiving one content object named
  `s`.
  * It runs `incoming_content` (`ContentUpcall`) for the slot closure
    `s % PIPELIMIT`, if that closure's interest is pending.
  * It runs `hole_filled` for every pending recovery interest of that name.
  * Interests whose upcall returned anything but VERIFY/FETCHKEY are
    consumed, and a slot closure left unreferenced gets FINAL (`Finalize`).
  * The whole upcall is one step, trailing top-ups and writes included.
    `fwrite` may fail at any block, and `exit(0)`/`exit(1)` are terminal
    statuses.
* The asserts of `ask_more` and `incoming_content` are collected in an `ok`
  field. A failed one makes the status `aborted`.
* The drain loop is the RECURSIVE operator `Drain`.
* **Refinement.** `Delivery` maps `out` to itself and `status` to
  `Outcome`. Both probe and running map to "running". "done" maps to
  "done". "notfound" and "failed" map to "failed". `ImplementsDelivery`
  (= `DV!Spec`) is checked as a temporal property, so every step of
  `CatChunks` is a `Write`, an `End` or a stutter. One drain writes several
  segments, so `Write` appends any number of the next segments in one step.
  A failing `fwrite` writes a prefix of the drain and then ends, so `End`
  may write before it ends.
* Time is abstract:
  * a matched probe draws its sample from `Samples`;
  * `fill_holes` may run between any two upcalls, and its backoff exponent
    is computed exactly;
  * `BackoffBase` (6000000 in the code) is scaled to the sample set.

### How Gateway corresponds to the code

Each thread step that another thread can observe is its own action. Frame
reassembly from the UDP stream is abstracted: a frame is one well-formed
message.

* **DATA.** A DATA frame takes three steps, because the worker reads
  `recv_data` and `data_flag` without a lock:
  * `RecvDataStart` and `RecvDataEnd` are the `memcpy` into `recv_data`,
    location first, then value;
  * `RecvDataFlag` is `pack_data_content` followed by `data_flag = 1`.
  The worker may read the new frame before its flag is raised.
* **The topology thread.** `queue[bottom++]` and the wrap of `bottom` are
  separate steps, as in the code.
* **`InitTable` and `ResetQueue`.** They are the tail of `gateway_init`
  after the threads exist.
* **`EarlyPeer`.** This constant says whether the peer may send before that
  tail has run.
* **SIGALRM.** `refresh_node_mapping_table` is three actions. `TickBegin`
  is the signal (the loop over ids 0..9 starts). `TickLoad` tests
  `expire > 0` and loads it. `TickStore` stores the loaded value minus one.
  The listener's `expire = 5` for the same entry can land between the load
  and the store, as it can in the code.
* **The "location" answer** only reads the table, so it is the operator
  `Located` (the entries with `expire >= 0`), and the properties are stated
  on it.

Variables are grouped by the thread that writes them (`ringVars`,
`topoVars`, `dataVars`, `mapVars`, `askVars`, `workerVars`) for the
UNCHANGED clauses.

History variables (`enq`, `deq`, `sent`, `asked`, `answers`, `age`)
record what the properties talk about. No action reads them.

### How NdnBx corresponds to the code

* A byte is a record: a header byte of a DTAG, BLOB or UDATA token (its
  number, and whether more header bytes follow), the CLOSE byte or a
  payload byte. A header may take several bytes, so `read()` can cut one.
* The decoder is the RECURSIVE operator `Scan`, one byte per step, stopping
  at a pause, at the CLOSE that brings `nest` to 0, on an error or at the
  end of the buffer. It is library code and is not mapped.
* `Decode` is one pass of the inner `while`: the call, the error exit, the
  break, and the two tests (`OnTag`, `OnData`). `offset` always equals
  `d->index` and is not a variable of its own.
* `Read` chooses any chunk size from 1 to what is left; `ReadFails` is a
  `read()` returning -1.
* The properties compare the output with a reference computed from the
  bytes alone (`TagsAt`, `Depth`, `SelFirst`, `SelLast`, `SelData`).

### How FrameReader corresponds to the code

`usbportListen` blocks in `recvfrom` at four places:

* the handshake (`Handshake`);
* the fill loop while fewer than 25 bytes are buffered (`RecvFill`);
* the wait for the rest of a header's 25 bytes (`RecvHead`);
* the wait for the rest of the body (`RecvBody`).

Everything between two `recvfrom`s is one step. That includes the
start-flag search (`Scan`), the type dispatch, the handler's copy (`Handled`)
and the 7-byte carry at the end of a pass (`Carry`). The peer's datagrams
are a fixed stream chosen from `Streams`.

`usbbuf` is an uninitialised stack array. A byte that no `recvfrom` wrote
is UNDEF, and a comparison against it may go either way (`MayBe`,
`MayMatch`, `MayMiss`). A failed `sendto` makes the thread exit
(`SendMayFail`). The handlers' effects are `Gateway`'s; here a handled
frame is its type and the bytes its handler copies.

The reference `FramesIn(s)` is a RECURSIVE definition of the frames in a
byte sequence, written independently of the code's buffer handling.

## 3. Runs

| Run | Expect | What it shows |
|---|---|---|
| `catchunks_pass` | pass | `RtteStaysBounded` (`update_rtt`'s estimate stays in 0..33.75 s for every boundary estimate and sample, 0 to 2^31-1, so its unsigned arithmetic never wraps), `NoAbort` (no assert fires), `ImplementsDelivery` (stdout gets 0, 1, 2, ... in order and exit 0 only after the last segment: `CatChunks` refines `Delivery`), `NoOrphanedSegment` (every outstanding segment is buffered or still asked for), `ProbeNotStranded`, `ClosureBoundToPendingName`, and `Completion` (a running session ends). All of these hold under reordering, duplicates, timeouts, recovery interests and write failure. |
| `catchunks_bad_content` | violation | `Completion`: one ERR upcall stalls the session forever (finding). |
| `topotree_pass` | pass | `CheckMatchesTree` (the check array marks exactly the tree's nodes, with no duplicates) and `TreeIsRouteUnion`. `TreeIsRouteUnion` says that after any sequence of messages, the tree's links are exactly those of the routes received since the last conflict. A conflict is a route that would give a node a second parent, and it wipes the tree. |
| `topotree_response` | violation | `TopoResponseExact`: the "topo" answer repeats `ptr[0]`'s subtree and omits the others (finding). |
| `gateway_pass` | pass | Once init is done, `TopoQueueFifo` holds: the ring gives the topology thread every queued route once, in order, never a NULL slot. This also holds with two routes queued and a third dropped at the full test. `LocatedWereMapped`: the "location" answer lists only nodes that sent a MAPPING frame, so `gateway_init`'s -1 loop overwrites the zeroed table before the ndnd thread runs. `TopoDrained` and `InterestAnswered` also hold. |
| `gateway_early_peer` | violation | `TopoQueueFifo`: a frame queued before `top = bottom = 0` is overwritten, and later a NULL slot is taken (finding). |
| `gateway_torn` | violation | `NoTornReading`: the worker can report the location of one DATA frame with the value of another. |
| `gateway_scope` | violation | `AnswerNamedForInterest`: two interests in a row are both answered under the second name. |
| `gateway_expire` | violation | `ExpireTracksAge`: entries for node ids ≥ 10 never expire. The same property is also broken by two other races; neither has a run of its own. One is the SIGALRM handler's load/store racing the listener's refresh: a refresh is lost, and 4 is listed right after a MAPPING frame. The other, with `EarlyPeer`, is a MAPPING frame wiped by `gateway_init`'s reset. One-off checks with `MapIds = {3}` found both traces. This run reports the shorter id ≥ 10 trace. |
| `ndnbx_pass` | pass | `OutputIsSelection`: what is written is exactly the selected element, or with `-d` exactly its data, however `read()` splits the file. `ElementReadIsWritten`: once the whole element has been read it is written. `ExitStatusReportsTag`: the exit status is 0 exactly when the start tag was read; so on a file cut inside the element ndnbx exits 0 and writes nothing (a hazard). `Termination`: ndnbx always exits. |
| `framereader_pass` | pass | `HandledAreFrames`: every frame the listener hands a handler is, in order, a frame of the peer's stream, with the right bytes. `AllFramesHandled`: unless the thread exited, every frame is handled. This holds for whole frames, and for frames split across datagrams at any point or split after a carried tail. |
| `framereader_faulty` | violation | `HandledAreFrames`: a datagram with two frames loses the second, because the carry keeps only 7 bytes. A frame whose rest arrives after a new header is torn, because the bytes read into `mesg` are not in `usbbuf` (findings). |

Each property of a passing run has a mutant in `PROJECT.json`. A mutant is
a plausible bug in the mapped code (a dropped guard, an off-by-one, a missing
reset, a forgotten `sem_post`), and TLC finds the property violated under it.

## 4. Bounds

### catchunks_pass

* PIPELIMIT = 4, maxwindow = 3, 5 segments. With these, slots wrap around, a
  window of 3 keeps 3 segments in flight, and the final slot differs from the
  slot of segment 0.
* Two content classifications: verified, and unverified (the
  VERIFY-keeps-the-interest path).
* Two samples: one ordinary, one above the 30 s ceiling.
* At most 2 timeouts.
* `WriteMayFail` enabled.
* Result: 34 223 states.

### Other runs

* **`ndnbx_pass`.** Four files: a `ContentObject` with a two-byte first
  header, a `Name` child and a `Content` holding a two-byte BLOB (a nested
  selection); a `Content` at offset 0 with a child before its UDATA (the
  `-d` path past a child); the first file cut inside the payload; a file
  that starts with a CLOSE (decoder error). Three selectors (`Content`,
  `Name`, one not in the dictionary), both modes, and every chunking of the
  reads (620 states). `ReadMax` is 512 as in the code, so all chunkings of
  these files are possible.
* **`framereader_pass`.** Nine streams of DATA, TOPOLOGY and MAPPING frames
  (28, 37 and 25 bytes). Some are whole, some are split at points
  from 3 to 34 bytes in, and some start with the tail of a frame. Together they reach:
  * every wait (fill, head, body);
  * the carry with and without a flag in the last 7 bytes;
  * a header that starts at offset 0 and at a later offset;
  * a failed `sendto`.

  The faulty run uses one stream with two frames in one datagram and a
  torn frame.
* **`topotree_pass`.** Every route of up to three hops over three node ids,
  repeats included, in any order. This covers append, descend, conflict and
  recycling.
* **`gateway_pass`.**
  * Settings: `PTR_MAX` = 3, so the ring holds two routes and the full test
    fires on a third. 4 frames in all, 1 interest, one timer tick. The
    run takes about 40 s.
  * With 4 frames, a ring without the full test overwrites a route not
    yet taken. The run's mutant checks this.
  * One reading and one interest name are enough for the liveness
    properties.
  * The violation runs use `PTR_MAX` = 2, 3 frames and 2 interests. They
    add two readings or interest names, or 5 ticks.
* **`RttEstimator`.** `NextRtte` is explored inside `CatChunks` with
  one ordinary sample and one above the ceiling. `RtteStaysBounded` also
  applies it to every pair of boundary estimates (0, 1, 126..128, around
  30 s and 33.75 s) and samples (up to 2^31-1, the largest TLC integer). With two ordinary samples
  every smoothing step produces a new `rtte`, and the state space of the
  pipeline multiplies beyond reach. The earlier stand-alone runs were
  retired to make room for the frame reader. The divergence they showed
  (the code grows `rtte` by an eighth of the old estimate, not of the
  delta, spec §4.2, and so can overshoot: samples 1000 then 1100 give
  1125) is recorded as a hazard note in `PROJECT.json`.

## 5. Fairness

* **CatChunks.**
  * Weak fairness on `fill_holes` (a scheduled event) and on the end of the
    probe.
  * Strong fairness on the network answering a name that stays asked for
    (`NetworkAnswers`): a retried interest is eventually answered. It is
    written as `[]<>ArriveEnabled(s) => []<><<Arrive(s,"CONTENT")>>_vars`.
  * Nothing makes timeouts or disconnects happen.
* **Gateway.**
  * Weak fairness on the topology thread and the worker, which are woken by
    their semaphores and always end their 30 s window.
  * Weak fairness on the rest of the listener's DATA frame once it started
    (`RecvDataEnd`, `RecvDataFlag`) and on `gateway_init`.
  * Nothing forces the peer to send.
  * `CHECK_DEADLOCK FALSE`: once the bounded environment stops sending,
    every thread blocks in `recvfrom`/`sem_wait`. That is the gateway's
    normal idle state.
* **NdnBx.** Weak fairness on `Open`, `Read`, `Decode` and `Write`: one
  thread always runs its next statement and `read()` on a file returns.
  `OpenFails` and `ReadFails` are not fair: nothing forces a failure.
  `CHECK_DEADLOCK FALSE`: the program exits.
* **FrameReader.** Weak fairness on the four `recvfrom` steps. The stream
  is finite and already sent, so a `recvfrom` with a datagram waiting
  returns. `CHECK_DEADLOCK FALSE`: when the stream is consumed the thread
  blocks in `recvfrom` for good.

## 6. Not modelled

* **Names.** Name encoding (`sequenced_name`, `make_template`) and every
  text formatting. Names are values.
* **The scheduler and reporter.** The NDN library's scheduler and the
  reporter only print.
* **Frame reassembly, partly.** `FrameReader` does not model two things:
  * `recvfrom` returning -1, which `total_read += n` would turn into a
    negative offset;
  * datagrams long enough to overflow the 1 KiB `usbbuf`.

  Both are listed as hazards.
* **Output-only code.** `pack_data_content`, `usb_write`/CRC, `set_opt`,
  `encodedecodetest` and the `ndnr_io.h` declarations: I/O only,
  or declarations.
* **The "topo" answer** is atomic. Walking the tree while the topology
  thread recycles it is a hazard not yet checked: a faithful step-wise walk
  makes `alive` false (a NULL `ptr[0]`) in `gateway_pass` as well, so it
  needs a violation run of its own, and the project holds twelve.
* **Byte counts.** The buffer overflows of `content[1024]` (worker),
  `content_buf[1024]` (location answer) and the 64-byte `scope_name` need
  tens to hundreds of readings, nodes or characters; they are hazard notes.
  `ptr[PTR_MAX]` cannot overflow: the listener zeroes any route id above 100
  and drops the frame (lines 481-489), so a node has at most 101 children.
* **`main` of ndnd after `ndnd_run`** (`thread_flag = 0`, detach, exit):
  shutdown is not modelled; the threads run for the whole behaviour.

* **ndnbx, partly.** ATTR/DATTR/TAG tokens are not in the byte alphabet,
  so the `@bug` of the `-d` test (an attribute value taken as data) is not
  reached; nor is a nested element with the selected DTAG. `write()` is
  modelled as complete; the code ignores its result. `main`'s argument
  checks and `-v` logging are left out.
* **Unverified content in ndncatchunks2.** `incoming_content` asks for
  verification only for the first packet (`pkts_recvd == 0`) and accepts
  unverified content afterwards (`unverified++`). Spec §4.7 says the
  opposite. An earlier run showed this; it was retired for the `ndnbx`
  run, since a single test of the upcall shows it as well.
* **The worker's readings, found but not checked by a run.** The
  listener sets `data_flag = 1` only after `pack_data_content`, well after
  the `memcpy` at line 432. Say the flag of frame A is still set when the
  copy of frame B completes. The worker reads B and clears the flag. Then
  B's own flag is raised, and the worker reads B again. B is reported twice
  and A is lost. A one-off check with two readings found this trace in
  `Gateway`:
  `RecvDataStart, RecvDataEnd, WorkerWake, RecvDataFlag, RecvDataStart,
  RecvDataEnd, WorkerRead, WorkerClear, RecvDataFlag, WorkerRead`.
  The lost-update race at 591 is of the same kind. A property saying "each
  frame is reported at most once" is therefore false of the code. It would
  need a violation run, and all twelve are in use. The earlier count bound
  (at most one reading per published frame) was dropped: it was true, but
  it could not tell a duplicate from a new reading.
* **Heap ownership.** `topo_tree_recycling` frees only the subtree under
  `ptr[0]`; the other subtrees of the head leak. The model keeps the tree
  the code can reach afterwards, which is empty.

## 7. Plan for later work

1. A step-wise `TopoResponse` interleaved with `TopoProcess`, to check the
   use-after-free between the ndnd thread and the topology thread. It needs
   a violation run; the project holds twelve runs, so one would have to be
   folded into another.
2. `recvfrom` returning -1 in `FrameReader`.
3. A violation run for the duplicated/lost reading above, if a run slot is
   freed.
4. A property for the init-order reset of the check array (only observable
   with `EarlyPeer`).
