# EggNet accelerator: TLA+ models, model checking and proofs

EggNet is a neural network for handwritten digits in an FPGA. Images arrive
by DMA on an AXI stream, pass two convolution layers, each with its memory
controller, and two dense layers, and leave by DMA again; a Linux driver feeds
it and can look into the memories of the layers.

All paths below are relative to `src/`; `NN` stands for
`vivado/NN_IP/EggNet_1.0/src`, `SW` for `vivado/Software/EggDriver/src`, `EXT` for
`python/EggNetExtension/EggNetExtension`.

## 1. Inventory

| Component | Source | State | Operations | Talks to | Hard behaviour | What makes it correct |
|---|---|---|---|---|---|---|
| Block arbiter | `NN/MemCtrl/MemCtrl.vhd` `BlockControl` | state of write and read side, `block_full`, offers, delayed done signals, debug flags | offer, commit, release, enter/leave debug | write and read process, `Dbg_enable_i` | both sides act in one clock on signals that are one clock old | no overwriting, no reading of an incomplete block, no block lost, both sides go on |
| Write process | `MemCtrl.vhd` `DefaultWriteP`, `MemCtrl_AXIS.vhd` | state, pixel counter, address, rest of the bus word | take a block, store a pixel, complete | previous layer, arbiter, port A | bus words wider than a pixel, early or missing `tlast`, abort by debugging | exactly one block is stored between offer and done |
| Read process | `MemCtrl.vhd` `DefaultRead` | state, row, column, address, output vector, line buffer control | take a block, wait for the RAM, send a column, finish | arbiter, port B, line buffer, shift register | latencies of RAM and line buffer, padding, back-pressure | every column of the image once and in order |
| Debug read-out | `MemCtrl.vhd` `DbgMemory` | state, error bit | read a RAM word | AXI-lite slave, port B | enters while an image is received | serves reads, gives the RAM back |
| Block RAM | `NN/bram_vhdl/bram.vhd` | memory, port registers | read, write | memory controller | two clocks of latency | |
| Line buffer | `NN/Fifo_vhdl/fifo_dist_ram.vhd` | memory, `Head`, `Tail`, `Looped`, flags | read, write, reset | read process | read and write in one clock, wrap around | a bounded queue with exact flags |
| Shift register | `NN/MemCtrl/Shiftregister_3x3.vhd` | three columns, the first column of the next row, state | shift, pad left and right | read process, convolution | registered ready, valid never lowered | every 3x3 window once and in order |
| Convolution channels | `NN/Conv_Channel` | products of a window, `start_addition`, result | multiply, sum, clip | shift register, pooling | ready is combinational and low while valid is high | one result per window, only when pooling takes it |
| Max pooling | `NN/Pooling/MaxPooling.vhd` | FIFO of a row, latched pixels, `output_en`, column | store, compare, output | convolution, next layer | works with ready as it was a clock ago; lines end by `tlast` | one pixel per 2x2 patch |
| Serializer | `NN/DenseLayer/serializer.vhd` | pixel, counter, `serialize` | take a pixel, send its channels | pooling, dense layers | toggles its ready, has no buffer | every channel of every pixel sent once |
| Dense layers | `NN/DenseLayer/NN.vhd`, `vectorMultiplier.vhd` | state, counters, accumulators, `do_output` | multiply-accumulate, hand over a layer, output | serializer, AXI master | two layers overlap, weights come a clock late | one sum over all inputs of one image, results in order |
| AXI stream master | `NN/AXI_Stream_Master` | state, `data_cnt`, `data_buf` | take a result, send its words, interrupt | dense layers, DMA | no FIFO; ready is sampled before valid is seen | words in order, once; one interrupt per result |
| AXI-lite slave, debug multiplexer | `NN/AXI-lite`, `NN/Toplevel` | register file, selected layer, debug flags | read, write | driver, all layers | addresses alias, clock crossing | status of the selected layer |
| Driver: DMA | `SW/eggdma.c`, `eggnet.c`, `main.c` | buffers and mutexes of both directions, `img_ptr`, array of results | send an image, wait for interrupts, fetch results, free them | client threads, DMA proxy, UIO device | any number of threads, a pointer read per pixel and set outside the mutex, interrupts counted twice, time-outs | images whole, codes true, results in order |
| Driver: status and debug | `SW/egguio.c`, `eggstatus.c`, `eggnet.c`, `eggnet_core.h` | `selected_layer`, `layer_number` of `network_t` | init, select, read structure, debug, read pixels | AXI-lite slave | a cached selection, polls with time-out, return codes | agrees with the hardware it talks to |
| C extension: convolution | `EXT/cconv.c`, `chelper.h` | loop indices, output array | four passes over an image | Python network | edges and corners apart, macros that take names and bare arguments | the convolution of `core.py` |
| Not part of the running system | `MemCtrl_c2d.vhd`, `shift_register.vhd`, IP cores, `vivado/Software/eggnet`, libuio | | | | | |
| Python network, training, web demo | `python`, `net`, `webapp` | none between calls | | | | |

The repository holds two copies of the driver. `EggDriver` is the later one and
complete; `vivado/Software/eggnet` lacks returns, braces and declarations and does
not compile. The models follow `EggDriver`.

`PROJECT.json` lists all components with their status, and under `hazards` the
places in the code where something may go wrong that a test would hardly reach.

## 2. Plan

1. *(done)* The memory controller: control (`BlockControl`, `BlockWrite`,
   `BlockRead`, `MemCtrl`), then with its data path (`MemCtrlData`), which
   composes it with the line buffer (`StdFifo`) and implements `ImageQueue`;
   proofs for the control and for the line buffer.
2. *(done)* Shift register (`ShiftRegister`, composed in `ConvInput`),
   convolution (`ConvChannel`) and max pooling (`MaxPooling`), composed in
   `ConvPool` as in the test bench and in `ConvLayer` as in the top level.
3. *(done)* `Serializer`, `DenseLayer` and `NeuralNetwork`, `AxisMaster`, composed
   in `OutputPath` as in the top level; proofs of the handovers and of the
   interrupts.
4. *(done)* The driver: `DmaThreads`, the threads around the two DMA buffers, with
   proofs; `DebugDriver`, the status and debug functions over the registers of
   the AXI-lite slave, with proofs.
5. *(done)* `CConv`, the convolution of the C extension; the theorem about
   `CommitsWrittenBlock` without debugging.

6. *(done)* Proofs of what the data path computes: the order of the patches of
   `ConvPool`, the sums, results and words of `OutputPath`, the columns and
   windows of `ConvInput`, and that the memory controller implements `ImageQueue`.

What could follow: `VectorsAreColumns` for a next layer whose stalls the controller
handles, should the code be repaired; `DebugDriver` composed with `MemCtrl`,
once a write reaches `Dbg_enable`.

## 3. Modules

| Module | Models |
|---|---|
| `BlockControl` | the arbiter process |
| `BlockWrite` | the write process, both variants selected by `AXI4_STREAM_INPUT` |
| `BlockRead` | the control of the read process |
| `MemCtrl` | the four processes on one clock, properties, fairness |
| `StdFifo` | the line buffer; `BoundedFifo` is what it promises |
| `MemCtrlData` | `MemCtrl` with pixels, block RAM and line buffer; `ImageQueue` is what it promises |
| `ShiftRegister` | the shift register |
| `ConvInput` | `MemCtrlData` wired to the shift register, for any readiness of the convolution |
| `ConvChannel` | a convolution channel with its kernels |
| `ConvLayer` | `ConvInput` wired to the convolution, as in the top level |
| `MaxPooling` | max pooling with its FIFO (`StdFifo`) |
| `ConvPool` | convolution and max pooling, fed as by the test bench `tb_conv2d_0.vhd` |
| `Serializer` | the serializer |
| `DenseLayer` | a vector multiplier with its weight ROM, counter and accumulators |
| `NeuralNetwork` | two dense layers and the state machine of `NN.vhd` |
| `AxisMaster` | the AXI stream master |
| `OutputPath` | from the pooled pixels to the DMA, wired as in the top level |
| `DmaThreads` | `egg_tx_img`, `egg_rx_img`, `wait_for_interrupt` and `free_results` in any number of threads, and the client that sets `img_ptr` |
| `DebugDriver` | the status and debug functions of the driver, the registers they write and `Dbg_ctrl` |
| `CConv` | `conv2d_3x3` of the C extension |
| `MemCtrlProofs`, `ConvInputProofs`, `StdFifoProofs`, `ConvPoolProofs`, `OutputPathProofs`, `OutputResultsProofs`, `DmaThreadsProofs`, `DebugDriverProofs` | theorems |
| `MC...` | instances for TLC |

**A step of the hardware is a clock edge.** In VHDL a clocked process computes the new values
of its signals from the old values of all signals. The modules do the same:
each process is a step operator, a disjunction with one disjunct per state (and
branch) of its `case`, and `Tick` is the conjunction of the steps of all
processes. The inputs of a clock are parameters of `Tick`, chosen freely. VHDL
*variables* take effect at once, which matters in `StdFifo`, where the write
half of a clock sees the pointers the read half has left. Combinational outputs
(`Ready_o` of the convolution, all outputs of max pooling) are operators of the
registers and of the inputs of the same clock.

**A step of the driver** is what a thread does between two accesses to shared
memory (`DmaThreads`): the copy of a pixel, the blocking `ioctl` of a transfer,
the look at the status it left, `realloc`, the store and the increment of
`result_number` are steps of their own, with a program counter per thread. In
`DebugDriver`, which has one client, a step is a function or the part of it up to
its next register write; `pc` is where the call is or the code it has returned.
A step of `CConv` is the body of the outermost loop of a pass.

**The duties of the network in `DmaThreads`.** The FPGA takes the images in the
order in which they are sent and raises one interrupt with each result; that is
what `ResultsInOrder` and `OneInterruptPerResult` of `OutputPath` say of its last
part. The number read from the UIO device
may be the new interrupts or the total, as the driver uses it as the first and
Linux gives the second.

**What `DmaThreads` assumes of the kernel.** The DMA proxy and the UIO driver are
not in the repository's build. A transmit transfer may time out at any time, and
then the image has not been sent. A receive transfer times out only if no result
has been computed that is not yet fetched; were it to give up earlier, a result
would stay in the FPGA until another interrupt came. The interrupt of the UIO
device is enabled again after each one: `eggnet_core.h:199` declares
`initialize_interrupt` for that, but nothing in the repository defines or calls it.

**Names** are the source's. `wr_state`/`wr_state_axi` and `rd_state` are told
apart by the prefix, as are the variables both processes call `state_cnt` and
`position`. `Head`, `Tail`, `Looped` are lower case in `StdFifo`, since
`Sequences` has operators of the first two names. A block is named after the
arbiter state that serves it; `"01"`, `"10"`, `"00"` of `next_block_*` are
`"BLOCK0"`, `"BLOCK1"` and `Wait`.

**Abstractions.** A pixel is a pair of its image and its index, so that no two
pixels are equal by accident. Channels are not distinguished: all channels of a
layer share the control. What is computed from a window or a patch is data: the
result of a convolution is named by its window, a maximum by the set of its four
pixels. `Status_o` has no influence on the control and is left
out but for `wr_invalid_block` and `dbg_error`. `tlast` is a free bit, since
the controller only reports it. The reset is the initial state. `Dbg_enable_i`
may change at any clock if `Debugging`, which covers any behaviour of the
driver. The address the driver reads in debug mode is any address. A sum of the
dense layers is the sequence of its products, each a pair of an input and the
address of its weight, so that a product that is missing, doubled or of another
image shows; a sum of `CConv` is a set of pairs of offsets. `M_axis_tkeep_o` is
left out.

**Geometry.** `GeometryAssumption` asks for three pixels in a block. With one
pixel `wr_block_done` is never seen low, with two a block is offered again
before the arbiter has seen that it was taken; the generics allow both. The
data run moreover has three columns: with fewer the line buffer is not in step
with the read process. The layers of the network are 28x28 and 14x14.
`OutputPath` asks for two channels, as the serializer sends a pixel of a single
channel twice, for two inputs per dense layer, as a layer with one never ends, and
for a pause of two clocks after a pooled pixel (`MinPause`), which is what max
pooling leaves at least. The network has 24 channels, 1176 and 32 inputs.

**Duties of the client.** `egg_tx_img` reads `network->img_ptr` again for each
pixel (`eggdma.c:97`), and only the client sets that field, before the call and
outside `tx_lock` (`main.c:27`). Threads may use one `network_t`, as those of
`main.c:37` do. `DmaThreads` therefore has `img_ptr` as a variable of each
`network_t`, `NetworkOf` says which one a sender uses, and nothing keeps a sender
from setting the field while another call waits for the mutex or copies. Two such
calls *race*; the history variable `raced` collects them. They may send mixed
images, or one image twice, and still return `EGG_ERROR_NONE`. It is the
client's duty to avoid that: a copy of the `network_t` for each sending thread, or
to wait for the call before. `ImagesIntact` and `CodesAreTrue` are about all
other calls, and say that a race harms nobody but the calls that take part.
The image itself must not change during the call either.

`DmaThreads` starts with an initialised `network_t`.
`free_results` takes no mutex; the client is assumed to call it while no
thread receives. `get_results`, which hands out the array itself, is left out.

## 4. Runs

| Run | Checks | States |
|---|---|---|
| `memctrl_debug` | control, any input, any stall, debugging at any time | 13093 |
| `conv_input` | data path and shift register, without debugging and stalls | 15376 |
| `conv_pool` | convolution and max pooling, any stalls of the next layer | 3569 |
| `std_fifo` | line buffer, with reset, simultaneous read and write | 735 |
| `output_path` | serializer, dense layers and AXI master, any pauses of pooling, any ready of the sink | 16778 |
| `dma_threads` | three senders, two of them with the same `network_t`, one image each, and two receivers | 238385 |
| `debug_completion` | violated: debug mode waits for the image | |
| `debug_reads` | violated: debug mode can be read from | |
| `stalled_windows` | violated: windows in order when the convolution is not always ready | |
| `conv_layer` | violated: results in order in the wiring of the top level | |
| `c_conv` | violated: `conv2d_3x3` is the convolution | |
| `driver_debug` | violated: the layer the driver believes selected is the one shown | |

`memctrl_debug` (2x2 pixels, input from a layer)
: `NoOverwrite`: the block being filled is neither full nor being streamed.
  `StreamsFullBlock`: a streamed block is complete, stays reserved and the
  address is the due one. `ReleasedAfterLastRow`: a block is released once, after
  the row of lower padding. `ReadSideRecovers`: when debugging is switched off for
  good no block stays full forever. `TypeOK` includes that the address stays
  inside the block RAM.

`conv_input` (2x3 pixels, bus words of two pixels, two images)
: `CommitsWrittenBlock`: the arbiter declares full the block that has just been
  stored. `VectorsAreColumns`: each vector of the controller is the due column
  with padding and marks. `WindowsInOrder`: each window of the shift register is
  the one around the due pixel, with zeros outside the image. `IsImageQueue`:
  refinement of `ImageQueue` with capacity two. `EveryImageIsConvolved`: what has
  begun to arrive leaves as windows to its end.

`conv_pool` (4x4 pixels)
: `ResultsAreTaken`: no result of the convolution comes when pooling cannot take
  it. `PatchesInOrder`: each pooled pixel is the maximum of the due patch, and
  `tlast` marks the end of a row of patches. `EveryPatchIsPooled`: it goes on.

`std_fifo` (depth 4, two words)
: `FlagsExact`, and `IsBoundedFifo`: refinement of `BoundedFifo`.

`output_path` (two pixels of two channels, two and five outputs, words of two outputs, two images)
: `ValuesAreTaken`: no stage has a buffer, and none is offered a value it does not
  take. `SumsAreComplete`: a finished layer holds each product of one image once.
  `ResultsInOrder`: the vectors handed to the master are the results of the
  images in order, although the next image is computed while a vector waits.
  `OneInterruptPerResult`: whatever the sink does. `SteadyTransfersAreExact`: a
  sink that stays ready receives the result word by word. `EveryImageHasAResult`:
  it goes on.

`dma_threads` (images of two pixels)
: Two senders set the same `img_ptr`, the third has its own. `ImagesIntact`: a
  transfer carries one image of one caller, but that images of calls that raced
  may be mixed with each other; mixed images are reached. `CodesAreTrue`: a call
  that did not race and returned `EGG_ERROR_NONE` has sent its image once, one
  that returned an error has not. `ResultsInOrder`: results are stored once and
  in order, and none is missing while nobody receives. `StoresFit`: inside the
  array. `EveryResultIsStored`, `EveryCallReturns`: threads go on although
  interrupts are counted twice and transfers time out. The run may stop, since
  each sender sends one image, so deadlock is not checked; that a sender is stuck
  would violate `EveryCallReturns`.

`c_conv` (2x2 to 3x4, one or two channels)
: violated by the smallest image.

`driver_debug` (controllers 1 and 2 of 4, as in the top level)
: violated after two calls.

**Bounds.** No counter of the hardware outlives a block, so the state spaces
are finite without a constraint. Two blocks are what the hardware has. 2x2 is
the smallest geometry with two rows and more than two pixels; 2x3 the smallest
the line buffer is in step for; three pixels in a row are also not a multiple of
the word of two pixels, so that words span rows. Two images are enough to tell
a lost, repeated or overtaken one, as any sequence of the two may arrive. 4x4 has
two rows and two columns of patches, so that pooling passes from one pair of
rows to the next and from one image to the next. Depth four lets both pointers of the FIFO wrap independently.
Five outputs in words of two make a packet of three words with a last one that
is not full, so that first, middle and last word differ. Two channels and two
pixels are the least with a second value of a pixel and a second pixel of an
image. `unannounced` stops at 2, one more than a correct run reaches, and
`transferred` one word beyond a packet. Two threads of each direction are what
a mutex can fail for, and a third sender is needed for one that shares no
`network_t` with two that do. One image per sender is enough: what a call leaves
to the next one (mutex, buffer, status, `img_ptr`) is shared, so that the next
call of another sender meets it; of a sender's own only `i` and `code` remain,
and every call sets both anew. The theorems hold for any number of images. Two
pixels let a copy be interrupted. `Images` bounds the calls of a sender and thus
all counters of `DmaThreads`.

**Fairness.** The clock does not stop: weak fairness of a clock. The previous
layer sends: strong fairness of a clock with `tvalid`. The next layer accepts:
strong fairness of a clock with `tready`. The first is what a clock is, the
other two are the duties of the neighbours on an AXI stream. They are
assumptions about the environment and only the liveness properties use them. In
`MemCtrl` the fair steps are those that leave `Dbg_enable_i` alone: nothing
obliges the driver to write its register, and hardware that is stuck until it
does must not be rescued by the fairness.

In `output_path` pooling gives a pixel again and again while the serializer is
ready, and the sink is ready again and again: strong fairness of both, since the
serializer's ready is not there all the time. In `dma_threads` every thread runs
and the network computes (weak fairness of each); the mutexes need not be fair,
as a sender that holds one has only finitely many calls and a receiver waits for
an interrupt when it is done.

**Disagreements with the documentation.**
`eggnet.h:109` says that the computation of each layer is completed before debug
mode is entered; the arbiter only looks at `wr_block_done`, which is still high
in the clock in which the write process accepts the first pixel of an image
(`MemCtrl.vhd:210`). The unfinished image is never committed. If the process is
then sent back to `START` (`MemCtrl.vhd:505`), `wr_block_done` stays low and the
write side waits for an edge until the next reset.
`MemCtrl.vhd:551` says that the read-out offers the possibility to read the
block RAM; in `DEBUG` the arbiter offers no block (`MemCtrl.vhd:290`), which the
read-out reports as an error for each request (`MemCtrl.vhd:574`).

`tex/documentation/02_conv2d-hw.tex:12` says that the kernel slides over the image
from left to right and top to bottom. The shift register passes ready on a clock
late (`Shiftregister_3x3.vhd:135`): in the clock in which the convolution is not
ready the memory controller moves on and the shift register does not, so that a
column is lost (`stalled_windows`). And a convolution channel is not ready while
its input is valid (`conv_channel_template.vhd:78`), while the shift register
holds valid and waits for ready (`Shiftregister_3x3.vhd:137`): wired together the
first window stays forever and its result is given again and again
(`conv_layer`). The test bench drives the convolution differently, with valid for
one clock after a clock with ready; with it convolution and pooling work, which
is what `conv_pool` shows. The bench also sends `tlast` per line, which pooling
needs to tell its pairs of lines, where the shift register sends it per image.

`egguio.c:110` says *Check if layer is already active*; the field it looks at is
not what the hardware shows (`driver_debug`). The offset `0x12/4` of
`egg_update_channel_select` (`eggnet_core.h:47`) is word 4, which the slave,
decoding two bits, takes for the register of the layer address. The same holds
for the offset 8 of `Dbg_enable`, which was not divided by 4
(`eggnet_core.h:45`), so that no layer is ever asked to debug
(`NoLayerIsDebugged`). A change of the layer that timed out leaves its value
in the register, and a new `network_t` starts with layer 0.

The test of the C extension compares `conv2d_3x3` with the Python convolution
(`EggNetExtension/EggNetExtension/EggNetExtension_test.py:56`). They differ (`c_conv`): the
loop variable `kout_ch` (`cconv.c:227`) hides the parameter of the same name,
which the macro `KERNEL` uses as the number of output channels, and the macro
`DATA_IN` (`chelper.h:81`) does not put its arguments in brackets, so that `i - 1`
as a row is not the row above. Each alone makes the results wrong; with both
corrected in the model `IsConvolution` holds, so that the four passes are right.

**Noticed while reading, not the subject of a run.**

- Driver: `get_network_structure` starts with layer 0, shifts its width by 8 bits
  (`egguio.c:149`) and takes a zero for an error, while the fields hold sizes less
  one; so it fails at the first layer it reads, and `egg_init_network` with it. It
  returns `EGG_ERROR_NONE` only if it has read that there are no layers
  (`StructureStaysEmpty`): when the register still shows a controller that does
  not exist, after a change of the layer that timed out or after
  `egg_update_channel_select(12)`, the number of layers read is 0.
  The reads take the code of `activate_debug_mode` the wrong way round
  (`eggnet.c:257`), and three of them give up when `calloc` succeeds.
  `egg_init_network` overwrites its parameter (`eggnet.c:17`), closing stops at
  the first failure (`eggnet.c:53`), and the thread functions call themselves
  (`eggnet.c:200`, `eggnet.c:220`).
- AXI master: it looks at ready before its valid is visible
  (`AXI_steam_master.vhd:130`); a sink that lowers ready inside a packet loses or
  receives twice a word. Hence the condition of `SteadyTransfersAreExact`. In the
  first packet `tkeep` is 0 for all words but the last.
- Top level: `Running_flag` starts a conjunction with '0'
  (`EggNet_v1_0.vhd:325`), and `Dbg_enable` crosses clocks without a
  synchroniser (`EggNet_v1_0.vhd:348`).
- C extension: the general convolution adds where it should multiply
  (`cconv.c:120`), compares a column with the height (`cconv.c:115`) and does not
  compact its output for a stride; pooling allocates and walks odd sizes
  differently (`cconv.c:44`, `cconv.c:81`).

## 5. Proofs

Proved with TLAPS for every geometry, word width and depth the assumptions
allow:

| Theorem | States | From |
|---|---|---|
| `MemCtrlProofs!TypeCorrect` | `Spec => []TypeOK` | `GeometryAssumption`, `DebuggingAssumption` |
| `MemCtrlProofs!NeverOverwrites` | `Spec => []NoOverwrite` | the same |
| `MemCtrlProofs!StreamsFullBlocks` | `Spec => []StreamsFullBlock` | the same |
| `MemCtrlProofs!ReleasesAfterLastRow` | `Spec => []ReleasedAfterLastRow` | the same |
| `MemCtrlProofs!CommitsTheWrittenBlock` | `Spec => []CommitsWrittenBlock` | the same, and `Debugging = FALSE` |
| `ConvInputProofs!VectorsAreTheColumns` | `InputSpec => []VectorsAreColumns` | as `CommitsTheWrittenBlock`, `Stalls = FALSE` and `LAYER_WIDTH >= 3` |
| `ConvInputProofs!WindowsComeInOrder` | `InputSpec => []WindowsInOrder` | the same |
| `ConvInputProofs!ControllerIsImageQueue` | `InputSpec => IsImageQueue` | as `CommitsTheWrittenBlock`, and `ImagesAssumption`; any stalls |
| `ConvPoolProofs!EveryResultIsTaken` | `Spec => []ResultsAreTaken` | no assumption on the geometry |
| `ConvPoolProofs!PatchesComeInOrder` | `LastPerLine /\ Spec => []PatchesInOrder` | `PatchAssumption`; lines end with `tlast`, as in the test bench |
| `StdFifoProofs!FifoTypes` | `Spec => []TypeOK` | `DepthAssumption` |
| `StdFifoProofs!FifoFlagsExact` | `Spec => []FlagsExact` | the same |
| `StdFifoProofs!FifoIsBoundedFifo` | `Spec => IsBoundedFifo` | the same |
| `OutputPathProofs!NoValueIsLost` | `Spec => []ValuesAreTaken` | the assumptions of `OutputPath` |
| `OutputPathProofs!InterruptsMatchResults` | `Spec => []OneInterruptPerResult` | the same |
| `OutputResultsProofs!LayersComputeOneImage` | `Spec => []SumsAreComplete` | the same |
| `OutputResultsProofs!ResultsComeInOrder` | `Spec => []ResultsInOrder` | the same |
| `OutputResultsProofs!SteadySinkGetsResult` | `Spec => []SteadyTransfersAreExact` | the same |
| `DmaThreadsProofs!ImagesStayIntact` | `Spec => []ImagesIntact` | `ThreadsAssumption`, `NetworksAssumption`, `SizeAssumption` |
| `DmaThreadsProofs!CodesStayTrue` | `Spec => []CodesAreTrue` | the same |
| `DmaThreadsProofs!OwnNetworksSuffice` | every image whole, every code true | the same, and a `network_t` per sender (`OneSenderPerNetwork`) |
| `DmaThreadsProofs!ResultsStayInOrder` | `Spec => []ResultsInOrder` | the same |
| `DmaThreadsProofs!StoresStayInside` | `Spec => []StoresFit` | the same |
| `DmaThreadsProofs!DmaTypesAndMutexes` | types, and one thread between lock and unlock | the same |
| `DebugDriverProofs!NoLayerIsDebugged` | `Spec => []DebugNeverEnabled` | no assumption |
| `DebugDriverProofs!StructureStaysEmpty` | `Spec => []NoLayerIsRead` | layers of at most 256 pixels a line (`SmallLayers`) |

The memory controller's properties are not inductive: whether the arbiter may
offer a block depends on an edge that is on its way. The invariant `IInv` says
for each phase of a block which signals the other process and the arbiter's
delayed copies can hold. For the write process: where it is in the block
(`WriterInBlock`), that `wr_block_done` is low from the first pixel on
(`WordBegun`), what `wr_block_done_R` can be in the clocks after a start and a
completion (`WriterSeen`, `WrittenOnce`), and that the block offered and the
block filled are empty (`OffersEmpty`, `FillsEmpty`). The read process has the
dual parts (`ServesFull`, `ReaderWalk`, `ReaderSeen`, `ReadOnce`). A block of
three pixels or more is needed in `WrittenOnce`: the arbiter sees the start of a
block two clocks late.

The FIFO's invariant adds to types and flags how `head` and `tail` lie to each
other in each lap (`Laps`). The refinement then splits a clock in its read half
(`TakeStock`) and its write half (`AddStock`), each a lemma about the sequence of
stored words.

`ResultsAreTaken` is inductive by itself: pooling that is ready in a clock is in a
state in which it takes a result in the next one too (`ReadyTakesNext`), since it
lowers its ready with `tlast`, before it leaves that state.

`PatchesInOrder` needs to know where each pixel is. At most one window is between
the bench and pooling (`FlightInv`), so the next result is the one of a known
pixel (`Current`). While pooling stores the first row of a pair, the FIFO holds
the pixels of that row from slot 0 on; while it compares the second one, the
rest of the first row lies behind `tail`, its pixel above is on the output of the
FIFO and the two pixels to the left are in the registers (`LineInv`), and
`output_en` tells odd from even columns (`PairInv`). Pooling also writes
pixels of the second row to the FIFO whenever the next layer is ready. That is
harmless, and the invariant says why: the two slots the FIFO has beyond a row
take the first of them, and `Head` wraps around only behind `Tail`. The row ends
with the reset of the FIFO, which takes its cause from `tlast`; hence the
condition `LastPerLine`.

`CommitsWrittenBlock` needs one more conjunct, `SameBlock`: the block the arbiter offers and the block being filled are
the arbiter's block, as it leaves a block only on the edge of `wr_block_done`.
With debugging it also leaves for the debug mode and the conjunct fails, hence
the assumption.

`VectorsAreColumns` and `WindowsInOrder` follow the pixels from the bus to the
windows; their invariant is `DataInv /\ WindowInv` on top of `IInv`. On the write
side a pixel is in one of four places: the rest of a bus word (`BusInv`), the two
registers of port A, or the RAM. `Settled(a)` is what address `a` will hold when
the registers have drained, so that the block being filled has so many pixels of
its image and a complete block all of them (`ContentInv`); `PendingInv` says that
no write still on its way belongs to the block being streamed. On the read side
`Clocks` numbers the clocks of the walk over the rows and everything else is a
function of it: the address and the pixel at port B (`PipeInv`), what is in the
line buffer and on its output (`RowInv`: the pairs from number `Read` to
`Written`), and the vector that leaves (`OutInv`). The product of row and width
is kept opaque outside the lemmas `WalkPosition` and `WalkStep`. `WindowInv` says
which window the shift register shows when vector number `sent` is at its
input. The conditions are those of the code: with a stall the vectors are wrong
(`stalled_windows`), a debug session interrupts the reception, and with fewer
than three columns the line buffer is not in step (the layers of the network
have 28 and 14).

`IsImageQueue` does not need the read side's data, so that it holds with stalls and for
every width. `QueueInv` adds to `CInv` and the write side: an image is received
from its first pixel to the edge of `wr_block_done`, into the block the arbiter
is at (`ReceiveInv`); its first pixel, which names the image in a block, has
arrived before the block can be full (`FirstPixelInv`); and the read side of the
arbiter is at the older of two full blocks, never at none (`SendInv`). A clock
then is a step of the queue with push = the edge of `wr_block_done` and
pop = the edge of `rd_block_done` (`QueueMoves`, `ReceiveMoves`, `SendMoves`).

`ValuesAreTaken` has an invariant per border. Pooling and serializer: ready toggles and is high
again for a clock after a pixel has come; only the pause of pooling keeps a
second one from coming then (`PoolInv`). Serializer and network: an image ends with the last channel
of a pixel (`LastChannel`, the only place where the number of inputs matters), so
that the network, which takes nothing in the clock in which it changes layers,
is not offered anything then (`NetworkInv`). Network and master: the master
shows ready only where it waits for a result, and `do_output` falls with the
result handed over (`HandoverInv`). For `OneInterruptPerResult`, `MasterInv` says in which states of
the master a result is still to be announced.

What the layers compute (`OutputResultsProofs`) rests on knowing to which image
each part belongs: `StreamInv` ties the pixel and channel on their way through
the serializer to the counter of the first layer; `Layer1Inv`, `VectorInv` and
`Layer2Inv` say that the sums of each layer are those of the first so many
products of the image it works at, with the weight that comes a clock late; and
`ImagesInv` that the first layer, the vector between the layers, the second
layer and the vector handed over are at most one image apart (`ImageClock` shows
that they pass images on one by one). `SteadyInv` follows the packet of a sink
that has been ready all along, word by word. `ZeroAssumption` says of the
model's data that the value on an idle bus is none of an image.

In `DmaThreads` both mutexes give an exclusion invariant (`TxExclusive`,
`RxExclusive`). While a call has still to read `img_ptr`, that points to its image,
or to that of a call it raced with (`PointerHeld`, `Mine`). While a thread holds
`tx_lock`, the same is true of the pixels below its index, and of all pixels of what
has been sent (`SentWhole`); what has been
sent is counted per call (`CallsCounted`), which makes the code follow from the
status, a field all threads share. An image that is set anew has not been sent
before, as only images of calls made are in a buffer or in `raced` (`RacedMade`). For the results `Kept` and `Stored` say, for
each place of the holder of `rx_lock`, by how much the array lags behind what the
DMA has delivered.

For `StructureStaysEmpty` the loop over the layers never gets beyond the first
(`FirstLayer`), so that it can only end well at once.

`NoLayerIsDebugged` follows from the offsets: each reaches register 0 or 1
(`Offsets`), and register 2 holds the flag.

**Only model-checked**: the liveness properties (`ReadSideRecovers`,
`EveryImageIsConvolved`, `EveryPatchIsPooled`, `EveryImageHasAResult`,
`EveryResultIsStored`, `EveryCallReturns`), since fairness and ENABLED are beyond
the prover. Every invariant and every refinement of a passing run is a theorem.
`CConv` has no theorem: its property does not hold of the code, and sums are
induction over data.

## 6. Not modelled

- Reset during operation; metastability of signals that cross from the AXI-lite
  clock; the arithmetic of the layers. `conv_input` has no stalls, as with stalls
  its properties do not hold (`stalled_windows`).
- Of the AXI-lite slave the handshake of the bus, which is generated, and
  `Running_flag`; of the AXI master `tkeep`.
- Of the driver: opening and closing devices, libuio (file I/O), the values
  read from the block RAM, `egg_forward`, `get_results`, the thread functions, and
  `main.c`, which uses a `network_t` it has not initialised.
- `MemCtrl_c2d.vhd` and `shift_register.vhd`, which nothing instantiates, the IP
  cores and the older copy of the driver.
- Of the C extension the general convolution, pooling, matrix product and
  activation, and the Python network: loops over numbers, sequential and without
  state, whose tests compare them with each other.
- Training and quantisation scripts and the web demo: no state of their own.

Nearly all lines of the repository are generated or third-party code
(`ps7_init`, headers of the system root, SWIG wrappers, JavaScript libraries). The
system's own logic is the VHDL and the driver, and of that all clocked processes
of the data path and the driver's functions with shared state are modelled.
