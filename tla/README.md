# CNNPR: a formal model of the accelerator's hardware

This directory holds TLA+ models of the Verilog in this repository, TLC
configurations that check them on small instances, and TLAPS proofs about them
for every value of their parameters. Paths below are relative to the repository;
`hdl/` stands for `src/fpga/fpga.srcs/sources_1/bd/design_1/hdl/` and `onchip/`
for `src/onchip/src/`.

## 1. The system

CNNPR is an accelerator for sparse convolutional networks in an FPGA beside an ARM
processing system. Three parts of it carry its own logic.

* The **AXI master** (`hdl/`) moves data between external memory and the buffers of
  the processing units. A memory controller requests a transfer (address, size); the
  master turns it into AXI bursts.
* The **on-chip memory controller** (`onchip/`) feeds the PE array. Activations and
  weights are stored sparse, as flag words plus the values whose flag is 1. The
  controller expands them and shows the PE array one row of a kernel at a time
  against one row of activation blocks.

* The **off-chip memory controller** (`hdl/`) walks through the layers of a network: it
  requests coefficients and feature maps from the AXI master in nested loops, requests
  the writes of a layer's results, and reads no layer before the one below is written.

The program is Verilog. The rest of the tree is generated, vendored or unused: Vivado
and SDK outputs, OpenCores DMA engines, dated backups (`3-backup`), earlier versions of
blocks. All of the C in the tree is of that kind, the vendor's start-up code and board
support package around a hello-world program; no protocol of the accelerator is in it.

### Components

| component | source | state it keeps | operations | correct when |
|---|---|---|---|---|
| synchronous FIFO | `hdl/fifo.v` | word counter, two pointers, memory, output register | push, pop, reset, any combination on an edge | it is a bounded queue; counter and pointers agree |
| show-ahead FIFO | `hdl/fifo_fwft.v` | `dout_valid` over a `fifo.v` | push, pop, reset | the oldest word is shown before it is popped; none lost, repeated or hidden |
| AXI master, read side | `hdl/axi_master.v` 235-290, 353-358, 492-552 | request buffer, remaining size, AR registers | take a request, pop it, offer a burst, advance, pass beats on | every taken request becomes exactly its bursts, in order; AR stays stable |
| AXI master, write address side | `hdl/axi_master.v` 140-155, 383-478, 555-697 | write FSM, round robin, words remaining and flush per unit, `wr_ready` | take a request, look at the next unit, offer and accept an address, charge the unit | a burst is issued only for words asked for and written, charged once |
| write burst counter | `hdl/wburst_counter.v` | words written and not issued, two-state FSM | count a word, announce a burst, be charged | it never announces a burst it does not have |
| AXI master, write data side | `hdl/axi_master.v` 713-1001 | two request buffers, two FSMs, read counter, `write_buf`, W registers | read a burst's words from an output buffer, send them | each beat carries the right word of the right unit; nothing overflows; `wr_done` means sent |
| up/down counter | `hdl/counter.v` | a count | increment with overflow, clear | (inside the write data side and the off-chip controller) |
| AXI master wrapper | `hdl/axi_master_wrapper.v` | sticky `wr_done` per master | route a request to its unit's master, gather the pulses | `wr_done` means that every master has sent what it was asked for |
| PL controller and top | `hdl/pl_mem_controller.v`, `hdl/design_1_wrapper.v` | none | one constant read request | - |
| off-chip memory controller | `hdl/mem_controller.v` | read and write FSM, loop counters, addresses, layer indices | start, request a read, request a write, count a layer as written | every request is the one due; a layer is read only after the one below is written; every run ends |
| on-chip controller, weights | `onchip/top/mem_controller.v` 99-302, 565-877 | flag scan, stacks of columns and weights, row counters | read a kernel, scan it, show its rows in turn | the row due is shown, each weight with its column |
| on-chip controller, activations | `onchip/top/mem_controller.v` 121-158, 279-410, 468-554, `onchip/column_parallel.v` | read-ahead row, shown row, addresses per place, column and row index | read a row of blocks ahead, show it | the row that `row_index` names is completely shown |
| on-chip controller, mode 0 | same file, `mode = 0` branches | the whole kernel, flags of a row read ahead and scanned, nine addresses, column and row index | unpack the kernel, read a row's flags, show its activations one by one | kernel complete; each activation of each row shown once, in order, with its column |

### Interactions

Everything is synchronous to one clock: an always block reads the registers as they
were before the edge. So the concurrency is that of many blocks stepping at once, of
registers that lag one or two edges behind what they were computed from, and of
outside parties (slave, controller of the requests, processing units, PE array)
that act on any edge.

* Read path: controller -> `rd_req_buf` (a `fifo.v`) -> `rx_size`, AR -> slave -> R ->
  input buffer.
* Write path: controller -> words remaining per unit; units -> output buffers and
  `wburst_counter`s; round robin -> AW; each accepted address goes into **two**
  request buffers, one that reads the words (`awchannel_req_buf`, a `fifo.v`, into
  `write_buf`, a `fifo_fwft.v`) and one that sends them (`wchannel_req_buf`, a
  `fifo_fwft.v`).
* Off-chip: `read_throttle` joins the read FSM to the index of the layer being
  written; that index moves on the wrapper's `wr_done`; the write FSM starts on the read
  FSM's leaving IDLE and asks the units in turn, each behind the master that its number
  names.
* On-chip: the first row of blocks read starts the kernel scan; the end of the scan
  (`en`) shows the first rows; the PE array's `row_cal_done` asks for the next row of
  the kernel; the end of a kernel (`row_index_count_3`) shows the row of blocks read
  meanwhile and starts reading the next.

### What is hard

* Decisions taken from registered copies: the pop decision of the read side (its
  size arrives two edges later), `wr_ready` (one edge), the charge of an issued burst
  to a unit (one edge, by two different unit registers), `wburst_ready` (many edges).
* Pipelines without back-pressure: words on the way from an output buffer to
  `write_buf` are pushed whatever its flags say; a W burst, once started, assumes that
  its words keep coming.
* Completion computed from three places that a burst passes one after the other.
* Four counters with four different wraps that must agree on which row of the kernel
  is due, for every shape of kernel.
* A row of activations read under the rows of a kernel: time against shape.
* Waiting: the round robin, `rd_ready`, `en`, and the two halves of the on-chip
  controller that start each other, the read and the write side of the off-chip
  controller.
* Completion of a layer told by pulses: sticky bits of several masters, a pulse per
  master for every time it runs empty, and one for every reset.
* Reset of a pipeline in which some registers have no reset branch.
* Addresses three registers behind the layer index they belong to, each loop restarting
  from the loop around it.
* In mode 0, flags and activations of a row found through a block address, a place in the
  block, nine memory addresses and a column counter, none of them reset between rows.

`PROJECT.json` lists these hazards at their lines with the properties that cover them.

## 2. The modules

A step of every model is one rising clock edge. An always block is one operator that
sets the primed registers; `Edge`/`Clock`/`Next` is their conjunction; wires are
unprimed operators. Names are the code's where TLA+ allows it. Operators named
`<Block>_<Fault>` are seeded faults: a plausible bug in that block, used to show that
the property it is paired with in `PROJECT.json` can fail.

| module | models | abstraction |
|---|---|---|
| `BoundedQueue` | promise of a FIFO | words are elements of a set |
| `Fifo` | `fifo.v`, block by block, reset included | - |
| `FifoProofs` | proofs about `Fifo` | |
| `ShowAheadQueue` | promise of a show-ahead FIFO | |
| `FifoFwft` | `fifo_fwft.v` over an instance of `Fifo` | - |
| `FifoFwftProofs` | proofs about `FifoFwft`, from those about `Fifo` | |
| `ReadService` | promise of the read side | requests are records of page, offset and beats left |
| `AxiRead` | read side of `axi_master.v`, reset at any time; slave external | `rd_req_buf` is the `BoundedQueue` that `Fifo` is proved to implement; addresses in beats |
| `AxiReadProofs` | proofs about `AxiRead` | |
| `WriteIssue` | write address side and `wburst_counter.v`, reset included | address offsets in bursts; `awlen` is the constant it always is |
| `WriteData` | write data side, reset included | the three buffers are `BoundedQueue` / `ShowAheadQueue`; a word is its unit and its place modulo `WordMod` |
| `WriteDataProofs` | proofs about `WriteData`: its buffers, and the flow of words through them | |
| `AxiWrite` | `WriteIssue` and `WriteData` on one clock, output buffers, `wr_done`, a reset at any time | |
| `AxiWriteProofs` | proofs about `AxiWrite`: its address half, the words between the halves, and the whole | |
| `WeightStream` | weight side of the on-chip controller, mode 1 | flags as sets of positions; the k-th stored weight is k; what comes from the activation side and from the PE array are parameters of an edge |
| `ActivationStream` | activation side, with `column_parallel.v`, `ram.v`, `ram_flag.v` | places of a block are a parameter (all 9 are alike); the activation of block b is b + 1 |
| `MemController` | both sides on one clock, with the PE array as the testbench drives it | |
| `MemControllerProofs` | proofs about `WeightStream` and `MemController` | |
| `DenseStream` | the on-chip controller in mode 0, with its memories and the PE array as the testbench drives it | flags as sets of positions; an activation is its row and column |
| `DenseStreamProofs` | proofs about `DenseStream` | |
| `OffChip` | `hdl/mem_controller.v`, reset at any time, `axi_master_wrapper.v` with any number of masters | the masters are what `AxiRead` and `AxiWrite` check of them: `rd_ready` comes and goes, a unit is free when its last burst is issued, a pulse follows the last beat; addresses do not wrap |
| `OffChipProofs` | proofs about `OffChip` | |
| `MC...` | instances for TLC | |

Composition: `FifoFwft` instantiates `Fifo`; `AxiRead` and `WriteData` instantiate the
abstract queues; `AxiWrite` extends `WriteIssue` and instantiates `WriteData`;
`MemController` extends `ActivationStream` and `WeightStream` and gives an edge of the
latter its inputs. `OffChip`
stands on what `AxiWrite` is checked for: `wr_ready` speaks of the unit of the next request
(`ReadyIsCurrent`), and `wr_done` follows the last beat of all requests
(`DoneMeansSent`, `RequestEndsInDone`). The three
abstract specifications are used both ways: as what a component is shown to
implement, and as the component inside the next larger model.

**External parties.** The AXI slave accepts and answers when it likes (reads: up to
`MaxOutstanding` bursts, beats in order; writes: WREADY low whenever it likes within
`StallLimit`). The controller requests only while `wr_ready` is up (writes) or any
time, a request without `rd_ready` being lost (reads). Units write while their
output buffer has room. The PE array ends a row as in `mem_controller_tb.v` 176-219:
5 passes over the weights of a row, or one clock for a row without weights; in mode 0
(lines 221-254) a clock per activation. `OffChip`'s units have a layer's results while it
is read, the last of them only after its last read; `start` is given again only after
`done`. The two ROM files that hold a network (`rd_mem_controller.vh`,
`wr_mem_controller.vh`) are not in the repository: `Setups` are the networks.

**Undefined values.** `Fifo` starts with any memory and output register. In
`WeightStream` a `j` past the three fields of `valid_row` selects bits that do not
exist; the model lets the build return anything.

## 3. The runs

| run | instance | properties | what it shows |
|---|---|---|---|
| `fifo` | 4 slots, 2 words, any inputs, any reset | `TypeOK`, `CountIsDistance`, `ImplementsQueue` | `fifo.v` is a bounded queue; a push and a pop at full or empty included |
| `fifo_fwft` | the same | `TypeOK`, `ImplementsShowAhead`, `EventuallyShown` | the output register and the inner FIFO together are a show-ahead queue |
| `axi_read` | bursts of 2, page of 2 bursts, buffer of 2, 3 requests, 2 outstanding | `TypeOK`, `OneRequestAtATime`, `BurstInPage`, `ArStable`, `ImplementsReadService`, `ReadyAgain` | bursts and beats are exactly those asked for, with reset at any time |
| `write_data` | bursts of 3, buffer of 8 with margin 4, 5 bursts ahead, slave stalls without bound | `TypeOK`, `WordFindsRoom` | `write_buf` does not overflow, whatever the slave does and whenever a reset comes |
| `axi_write` | 2 units, bursts of 2, 3 requests of 1 or 2 bursts, output buffers of 4, request buffers of 2 | `BothTypeOK`, `ChargedOnce`, `IssueIsCovered`, `ReadyIsCurrent`, `DoneMeansSent`, `PopFindsWord`, `BeatIsRight`, `RequestEndsInDone` | the whole write side, from request to `wr_done`, with full request buffers and a reset at any time |
| `weight_stream` | all kernels of the served shapes | `WeightTypeOK`, `RowIsRight`, `PairsGoRound`, `StreamStarts` | each row is shown when due, its weights with their columns |
| `mem_controller` | 3 rows of 6 blocks, 2 places, 2 pictures, served kernels of at most 5 weights | `TypeOK`, `RowIsShown`, `EachPairOnce`, `PictureIsStreamed` | the read-ahead keeps up and each weight meets each third column once |
| `dense_stream` | pictures of 8 x 8 of the served shapes, 2 kernels | `TypeOK`, `KernelIsComplete`, `RowIsScanned`, `PictureIsScanned` | the kernel is unpacked in time, each row is scanned completely and in order |
| `off_chip` | 2 units; a network of 3 layers behind 1 master, one of 2 layers behind 2 | `TypeOK`, `ReadIsRight`, `WriteIsRight`, `ReadAfterWrite`, `CountedIsWritten`, `RunEnds` | requests, order of layers and end of a run, with a reset at any time |
| `write_underrun`, `write_flush`, `write_address` | see section 4 | one each | violations |

### Bounds

* FIFOs: 4 slots let each pointer wrap at every fill level; the proofs cover every depth.
* `AxiRead`: `SIZES = 8` makes the size register just wide enough for a full burst,
  a second and a rest; the page of two bursts makes the offset wrap inside a request;
  the three requests are one that wraps, one that starts in mid-page and one for no
  beats. `BURST` 2 has a rest of 1. Requests start at a multiple of `BURST`, as those
  of `pl_mem_controller.v`; only `BurstInPage` needs it.
* `write_data`: `MARGIN` 4 against three words on their way; `MaxAhead` 5 is one more
  than the request buffers hold, so that they overflow if they can.
  `StallLimit = 100` is no limit. A reset may come at any time and last one edge or more.
* `axi_write`: the depths keep the code's relations. `MARGIN` is 8 as in the code,
  `WRITE_BUF_DEPTH` leaves room for two bursts and some stalling below the mark, the
  slave's stalls stop there because of finding 1. `REQ_BUF_DEPTH = 2` is the least depth that
  works here: `wchannel_req_buf` does get full, and no address is accepted while it is (nor
  with 4 requests). With 1 a burst is lost, and `DoneMeansSent` fails: `wr_done` comes
  although a burst that was accepted is never sent. `RequestsFit` (section 5) is what the
  proofs ask for, sufficient for any sizes but cautious: these sizes do not satisfy it.
  `MaxWritten` and `MaxRequests` bound the run and appear in guards. `AWREADY_EDGES` is 1, the
  fastest local AWREADY and so the least time between addresses; the code divides by 21.
  `ADDR_MOD = 1` forgets the address here (finding 3).
  `RESET_EDGES = 3`: a reset lasts three edges or more, and takes the slave and the output
  buffers with it. With 2, `BeatIsRight` fails: `pu_obuf_rd_inc` still holds on the
  first edge, `pu_obuf_rd_inc_d` and `write_buf_push`, which have no reset branch
  (`:970-974`), follow it by one and two, and a word of the time before lands in
  the emptied `write_buf`. `axi_wr_req_d` (`:571`) has no reset branch either and needs two
  edges. No document of the repository says how long reset is held.
* `WordMod = 2` tells a word from the next: a stream that is shifted by one is seen;
  one shifted by two would have been shifted by one before.
* `weight_stream` has no bound: it runs every kernel of the shapes below.
* `mem_controller`: 6 blocks in a row as in the code. Three rows of blocks: the first,
  shown at `en`; one read under a kernel; one whose end is the end. Two places
  with different holes are enough to tell a place's own address from another's; the 9
  places do not interact. Kernels with few weights are the hard ones, since
  the read of 6 blocks must end within them.
* `dense_stream`: 8 columns give 3 blocks in a row, the last one padded, and 3 rows of
  blocks, the last of them cut after two rows: the column counter and each of the nine
  addresses pass over a block boundary, and the flag address wraps over all three places
  of a block. One kernel has a single weight, in the last slot; the other has zeros before,
  between and after its weights.
* `off_chip`: the three read entries have a loop of each depth, a buffer read for each
  pass, two buffers and none (`l_type` 2); the layers are written with 3, 1 and 2 requests:
  more than there are units, one, and all to unit 0. `SEND_EDGES = 5` edges from the issue
  of a last burst to its last beat; the code takes 14 or more. With 1, `CountedIsWritten`
  fails: the pulse of a layer that was sent at once arrives in WR_BUSY of its own last
  request. Two setups, as the constants of a network exclude each other.

**Kernels that are served.** Let n0, n1, n2 be the weights in the three rows of a
kernel. `RowIsRight` holds for n0 >= 2, n1 <= 2, n2 >= 1, and for (1, 0, 1) and
(1, 1, 1), provided one weight lies outside the first column; the testbench's kernel
is (2, 0, 3). For the other shapes `j` and `count_array` wrap at the wrong row or the
first row is loaded before its weights are stored. With a last row of no weights `count_array` meets the bound
of line 840 exactly and stays there; with all weights in the first column `en` never
rises, since the stacked column numbers are all 0, which line 262 reads as nothing
stacked. No document of the repository says which shapes are meant to work.

**Pictures that are served in mode 0.** `RowIsScanned` holds when every row is empty or
has its last column set, no row is full, and the third row of each block has two
activations or more. Otherwise (TLC shows each):

* a row that is not empty and ends before its last column leaves the column counter
  (`:453`) where it is, and the rows after it get wrong columns;
* a third row of a block with 0 or 1 activations is over before the flags of the next
  block arrive (`:361`): the next row is scanned with the flags of this one;
* a full row has the `row_val_num` of an empty one (`:862`, 4 bits minus 1) and raises
  `zero_flag` (`:281`).

A kernel without weights never starts mode 0. The two modes also disagree on the order
of the stored weights: mode 0 pairs the first with the lowest flag, mode 1 with the
highest. The testbench uses one order for the one mode it sets.

**Networks that are served off-chip.** `SetupAssumption` states them; outside it TLC shows:

* with two masters and a layer of 4 requests, each master can run empty and pulse
  between its two requests: `wr_done` comes before the last beat (`CountedIsWritten`);
* with two masters and a layer of 1 request, the second master has nothing to send and
  never pulses: the layer waits for ever (`RunEnds`). So a layer must
  use every master, and at most one of them twice;
* several buffer reads in a pass with a non-zero offset: every RD_CFG_BUFFER of the
  first pass reloads the base (`mem_controller.v:276`), so that every read of the pass is
  of the same address (`ReadIsRight`);
* as many layers must be written as are read: the throttle compares their indices.
* four units or more behind two masters are not in the run: the wrapper routes by the low
  bits of the unit number, while every master's `wr_ready` is that of the unit that the
  high bits name on the edge before.

The write FSM never returns to WR_IDLE: after the last layer it goes to the requests
of layer 0 again and posts them before the next `start`. `RunEnds` and `CountedIsWritten`
hold all the same, for the results come only when the layer is read.

### Fairness

* The clock runs: weak fairness of the clock edge. It is all that `EventuallyShown`,
  `StreamStarts`, `PictureIsStreamed` and `PictureIsScanned` assume; in the last two the
  PE array, as in the testbench, always finishes its passes.
* `ReadyAgain`: the slave in the end accepts an address that stays on offer once it has
  room (`AddressEdge`) and returns the beats it owes into an input buffer that does not
  stay full (`BeatEdge`). AXI obliges it to; the code has no timeout.
* `RequestEndsInDone`: a request ends in `wr_done` or in a reset, under weak fairness of
  `BusyEdge`, an edge outside reset on which the units with
  room write and the slave takes a beat on offer. Without it a unit could withhold the
  words it was asked for and the slave could refuse for ever; the code has no timeout.
* `RunEnds`: weak fairness of `OffChip`'s `BusyEdge`, an edge on which `rd_ready` is up,
  every unit that may issue does and every master moves on. That is `ReadyAgain` of the read
  side and `RequestEndsInDone` of the write side, as one edge.

## 4. Findings

Each is a run in which TLC violates the property.

1. `write_underrun` (`axi_master.v:838`, `:889`). The FSM that reads a burst's words
   leaves AWC_READ when its count reaches AWLEN, without checking that this last read is
   made: if `write_buf` becomes almost full on that very edge, the word is skipped.
   At the real depths (16, 32, margin 8), a slave that stalls long enough brings
   `wvalid` up with nothing in `write_buf`.
2. `write_flush` (`:634`). The rest of a request is flushed as a full burst (`awlen` is
   constant), and `pu_writes_remaining` is decremented through zero.
3. `write_address` (`:470`). AWADDR does not move when an address is accepted; every
   burst of a request goes to the same place. The comment at 467 says otherwise.

## 5. The proofs

Checked by TLAPS, for every value of the constants that satisfies the named
assumptions (`DepthAssumption`: the depth is a positive number; `ReadAssumption`: a
burst is no longer than a page and fits the size register, requests are in range;
`WriteIssueAssumption`: the sizes are positive and the words a unit has written and not
issued fit `write_count`; `WriteDataAssumption`: a burst has two beats or more, the buffers
have slots, the margin fits `write_buf`; `AxiWriteAssumption`: a reset lasts two edges or
more, an output buffer takes a burst; `DenseAssumption`: two columns or more;
`SetupAssumption`: the networks of section 3; `KernelAssumption`: kernels are 3 x 3;
`PictureAssumption`: pictures have rows and places).

* `FifoProofs`. The inductive invariant is `TypeOK /\ CountIsDistance`: the range
  of the counter alone is not enough for the refinement, which needs that the
  write pointer names the slot behind the last word. `ClockPreserves` goes block by
  block. For the refinement, `ContentsStep` computes the contents after an edge: a
  pop shifts the view by one slot (`AheadOfSucc`) and a push writes a slot that no
  other word occupies (`AheadInjective`). Theorems: `TypeCorrect`, `DistanceCorrect`,
  `FifoImplementsQueue`.
* `AxiReadProofs`. The inductive invariant is `TypeOK /\ OneRequestAtATime`; the types
  alone are not inductive, because a size loaded into an `rx_size` that is not
  empty may leave its width, and an offer with `rx_size = 0` has no length.
  `OfferIsStable` follows from it. For `ReadServiceImplemented` a request is at any time
  in one of three phases (in the buffer, just popped, in progress); `PendingPhases`
  gives the abstract queue of requests in each, `SlaveSimulation`, `ClockSimulation` and
  `ResetSimulation` map an edge to a step of `ReadService`. Theorems: `TypeCorrect`,
  `RequestsDoNotOverlap`, `OfferIsStable`, `ReadServiceImplemented`.

* `AxiReadProofs`, `BurstStaysInPage`. `BurstInPage` needs what `ReadAssumption` does not
  say, that pages are whole bursts and requests start at one: it is the assumption
  `AlignedRequests` of the theorem. Then the offset stays a multiple of `BURST` (`StepAligned`)
  and between two multiples there is room for a burst (`RoomForBurst`).
* `FifoFwftProofs`. `FifoProofs` is instantiated with the pop that `fifo_fwft.v` derives from
  the inner FIFO, so nothing about the inner FIFO is proved twice. `EdgeIsSplit` says what
  an edge does to the two places of a word, `ShownThenBuffered` that a refill moves a word
  without changing the queue. Theorems: `TypeCorrect`, `FwftImplementsShowAhead`.
* `AxiWriteProofs`. Every step of the write side is a step of its address half
  (`StepOfIssue`), so the theorems hold in the composition. The invariant `IInv` adds
  `FsmInv` to the types: from the registered decision (`axi_wr_req_d`) over the offer
  (`write_state` 1) to the charge (2) the unit being looked at stays the same and ready
  (`Going => axi_wr_req`). `ChargedOnceHolds` and `ReadyIsCurrentHolds` follow for
  any requests. A reset breaks `FsmInv` for one edge, on which `axi_wr_req_d` shows a
  unit that has just been cleared: `WInv` asks for `IInv` except on that edge and for
  `Cleared` from the first edge of a reset on (`ResetClears`, `ResetSettles`), which needs
  `RESET_EDGES >= 2` (`AxiWriteAssumption`). `IssueIsCoveredHolds` assumes `WholeRequests`, requests of whole
  bursts (finding 2 is what happens otherwise); its invariant `CoverInv` says
  that words remain in whole bursts, that nothing is flushed, and that a counter in READY
  holds a burst.
* `WriteDataProofs`. `RoomInv` bounds the words in `write_buf` by how far a word has got on
  its way: a register further, one word more. `write_buf_almost_full` is one edge old, the
  word is pushed two edges after it is read, so a margin of 3 is enough
  (`WordFindsRoomHolds`; the code has 8). `ChannelInv`, that the W channel is busy exactly
  while it offers a beat, keeps the counter that underflows (`wlast`) at -2 or above,
  and the steps of the show-ahead queues (`WriteBufStep`, `SendRequestsStep`) keep the
  buffers within their memories: `TypeCorrect`. Both for resets of any length.
* `WriteDataProofs`, second part. Why `wvalid` may stay up: nothing checks that the word behind a beat
  is there. A burst is read a word an edge once it is begun, so with a slave that stalls only
  below the mark of `write_buf` (`SteadySlave`) the words stay ahead of the beats.
  `RhythmInv` fixes the registers behind a read, `AccountInv` counts the words owed, in
  `write_buf`, on their way and still to be read, `FeedInv` says that the burst being sent
  is fed, `PaceInv` that the mark is not reached, `OrderInv` to which burst each of these
  words belongs, `PlaceInv` that the words of a unit follow each other without a gap.
  The theorem assumes that no more bursts are ahead of their data than a request buffer
  holds; the next item shows when that is so. It gives `BeatIsRight` and `DataBehindEveryBeat`, which the
  run `write_underrun` refutes for a slave without that bound: the bound is what makes the difference.
* `AxiWriteProofs`, the two halves. `StockInv` joins the address half's counters to what is in the output
  buffers: the words of a unit that were issued and not yet read are all there
  (`PopFindsWordHolds`), and with `CoverInv` and the invariant of `WriteDataProofs` no register leaves
  its range (`BothTypeCorrect`). Both need requests of whole bursts and nothing else.
  `BeatIsRightHolds` and `DoneMeansSentHolds` carry `FlowInv` into the composition.
  Two things are needed for that. `RequestsFit`: neither request buffer is asked whether it has
  room, and they have only because the words behind their entries must lie in the output buffers
  or in `write_buf`, NUM_PU * OUTBUF_DEPTH + WRITE_BUF_DEPTH <= BURST * REQ_BUF_DEPTH; with
  the code's depths (16, 32, bursts of 16) and two units, output buffers of up to 112 words. The
  output buffers are in the processing units, which are not in the repository. `LongReset`: a
  reset of three edges or more, so that `StopInv`, one register more at rest on each edge,
  ends in a state from which the flow starts anew (section 3 says what happens with two), and a
  margin and a `write_buf` that leave the slave some room.
* `OffChipProofs`. `TypeCorrect` needs `ReadRomInv` and `WriteRomInv`: a counter is compared
  with the ROM output, which is an edge behind the layer index, and stays in the loops of
  its layer only because no loop has begun on the edge on which the two differ. The other
  theorems assume `OneMaster`, as built. `PulseInv` follows the one pulse of the master
  from `all_writes_done` over `wr_done_local` to `wr_done_sticky`: when the write FSM is
  in WR_BUSY none is on its way (`Silent`), although one may end just as the
  next request is made, which is why `SEND_EDGES > 1` is assumed; when it waits, the
  pulse is on its way exactly if all is sent. So a pulse seen in
  WR_WAIT_DONE means `Sent` (`CountedOnSent`), which is `CountedIsWritten`; also that of a reset,
  which the write FSM meets in WR_IDLE or WR_RD_CFG. `OwnerInv` says that what is still to
  be sent belongs to the layer being written, `ThrottleInv` that the throttle,
  which lags its indices by one edge, is not caught by either of them moving:
  together they are `ReadAfterWrite`. `NextWriteInv` carries
  address and unit of the next request through a layer, for `WriteIsRight`
  (`NextInTurn`: the counter that wraps is the count of requests modulo the units).
  `ReadIsRightHolds` follows a read from the layer index to the request. Five registers
  lie between, each an edge behind the one before, so early in a layer the address is still
  that of the layer before; nothing in the code waits for it. `TurnInv`
  places the layer being written behind the one being read, `LateInv` says that the ROM's
  output is behind only while no loop has begun and the throttle, which lags as well, still
  holds the request back; `LoopInv` keeps the address of each loop at its count,
  `StreamRequestInv` and `BufferRequestInv` carry address and size to the request on offer.
* `DenseStreamProofs`. `KernelIsCompleteHolds` has no hypothesis: `SerialInv` and `FillInv` derive every
  register of the unpacking from the number of slots filled, and `PhaseInv` ties `en` and the
  state of the rows to that number, so that COMP is reached with 9 slots filled and not with 8.
  `RowIsScannedHolds` and `TypeCorrect` assume `ServedRows`, the pictures of section 3; the run `dense_stream`
  takes its pictures from them. `CountInv` says which row the row counter and the shifts stand
  for, `WaitInv` that between two rows the flags, the column counter and the nine addresses all stand at
  the beginning of the next, `CompInv` that within a row they all stand behind the column shown. The
  data are counted, not enumerated: `Passed` is the number of activations of each place before
  a cell, `StoredIsIt` and `PassedGoes` show that the memory of a place holds the next one at that
  address, `NextColumn` that shifting out the lowest flag finds the next column,
  `FlagsAreRow` and `RowIsSeen` that the flags read from a block are those of the row. Each clause of
  `ServedRows` is used at one place: the last column where the counter wraps (`RowEndsKept`),
  the full row in `WhenRowEnds`, the third row where the flags of the next block are two clocks late.
* `MemControllerProofs`. Mode 1. `KernelsServed`, which all its theorems assume, are the row counts
  of section 3; that a weight lies outside the first column is not needed, since a kernel without
  one starts nothing. `Served`, for the theorems about both sides, adds 6 blocks in a row as in the
  code, and at most 5 rows, since `row_index_signed` has 5 bits. Pictures and places are any.

  Of the weights: `ScanInv` says that for some scan position the flags below it have their columns in
  the stack, each under those of the higher ones (`ScanNext`: one flag further), `StoreInv` that the
  array holds the weights read so far. So both hold a flag at the number of higher flags once `en` has
  come (`KernelIsThere`); the array is then still short of the last weight, for one edge, which only
  the first row could meet. `RowsInv` fixes the four
  registers that count rows by one number, the row due: `Selects` is what `j` may be, which is not the
  next row for kernels with a single weight in the first row, only one that counts as many
  weights. It is the part that needs `KernelsServed`, together with the two wraps (`SelectsNext`,
  `BeforeNext`). `PairInv` ties the pair shown to the clocks of the PE array's pass. For
  `WeightSpec`, where a row may end on any edge, `TurnInv` says the same for some place in
  the row. `RankInRow` and `PairIsLoaded` turn places into flags, `RanksGoRound` the next place into the
  next lower flag: `RowIsRightHolds`, `PairsGoRoundHolds`, `WeightTypeCorrect`.

  Of the activations: the age of a read, 0 to 8 edges, determines all registers behind it (`Age`),
  and `InTime` says how old it is at least in each row of the kernel. That is the whole reason why
  the row is complete when it is shown: the first row of a kernel has a weight and takes the 5
  clocks of its passes, the two others an edge each at least, and with the edges between the rows the
  8 are over (`ShownInTime`).
  `AheadInv` says that the six blocks read last are in `parallel_array_reg`, `CountGrows` and
  `StoredIsIt` that the address of each place is the number of its activations before the block;
  `ShownInv` that the row shown is the one `row_index` names. `TypeCorrect`, `RowIsShownHolds`,
  `EachPairOnceHolds`.

  `IInv` is the inductive invariant of `MemController`, found with TLC on the instance of its run;
  `WeightInv` is that of the weight side alone and shares with it all but the place in the row.

Only model-checked:

* all liveness (`EventuallyShown`, `ReadyAgain`, `RequestEndsInDone`, `StreamStarts`,
  `PictureIsStreamed`, `PictureIsScanned`, `RunEnds`): it needs fairness and ENABLED and is
  beyond the proof system;
* `OffChip` with several masters, except `TypeOK`; the proofs follow the one pulse of one master.

## 6. Not modelled

* `pl_mem_controller.v` and the top level: no state, one constant read request, which is one
  of those `AxiRead` takes (1000 beats from one address, which run through the same window
  several times).
* `d_type`, `pu_id` and `rd_rvalid_size` of the off-chip controller: functions of
  modelled registers, for processing units that are not in the repository.
* The C code, generated or the vendor's (section 1).
* The slave's own AWREADY: `axi_master.v` does not look at it. The slave of the models
  accepts what the local signal accepts.
* The B channel, always ready and never read; the response of the R channel, not read.
* The filling of the on-chip memories before `start`.
* Registers that drive nothing: `pu_wr_addr`, `curr_pu_awaddr`, `arlen_d`, and in mode 1
  `flag_stream_act_1`, `flag_reused`, `n`, `valid_index_dd`.
* The width of a bank's address (`column_parallel.v:36` asks what happens beyond it): a picture
  of 16 x 16 has 6 rows of 6 blocks and a bank at most one activation of each, 36 of the 64
  that 6 bits address. `TypeOK` of `MemController` bounds the address by 6 for each row of blocks.
* Multiplication, and the PE array itself, which is not in the repository.
* Generated, vendored and unused code, as listed in `PROJECT.json`.

## 7. What could follow

* `CountedIsWritten` for several masters.
