# Formal models of the Bluespec primitive library

The repository integrates the Melodica posit arithmetic unit into the Fife
RISC-V core. Both are git submodules whose contents are not part of it; what it
holds is a Bluespec compiler distribution (`src/bsc`), and the code of its own
is the primitive library every compiled design is linked with: the Verilog
modules of `bsc/lib/Verilog` and their simulation twins, the C++ classes
`MOD_*` of `bsc/lib/Bluesim`. Registers, FIFOs, block RAMs, clock and reset
generators and synchronizers between clock domains: what a design relies on and
never tests. This directory models them in TLA+, checks them with TLC and proves
properties of them with TLAPS.

## 1. Inventory

Sizes are lines of the Verilog file or of the C++ class. "Hard" is what a test
bench hardly reaches.

| part | state | operations | hard | correct when |
|---|---|---|---|---|
| `SyncHandshake` (108), `MOD_SyncHandshake` (245) | toggle, two flops each way, last state | send, edges of two clocks, async reset | any interleaving of the clocks, coincident edges | each pulse sampled exactly once; source gets ready again |
| `SyncRegister`, `MOD_SyncReg` | handshake, source and destination words | write, read | unsynchronized word captured while it changes | a one-slot mailbox; the word is settled when loaded |
| `SyncFIFO`, `SyncFIFO0`, `MOD_SyncFIFO` (530) | memory, two Gray counters, their synchronized copies, head register, full and empty flags | enqueue, dequeue, reset | stale copies of pointers, bits captured separately, wrap | a bounded queue; full and empty pessimistic |
| `SyncFIFO1`, `SyncFIFO10` | one word, toggles, two flops each way | enqueue, dequeue, reset | as above with an unsynchronized word | a one-place queue |
| `SyncFIFOLevel`, `SyncFIFOLevel0` (496, 452) | `SyncFIFO` plus counts and two clear handshakes | enqueue, dequeue, clear from either side | a clear racing pointers in flight | a queue; counts err on the safe side |
| `SyncPulse`, `SyncBit`, `SyncBit05/1/15`, `MOD_Sync1/15/2`, `MOD_SyncPulse` | one source flop, one or two destination flops | send, read | missed pulses, negative edges | a value held long enough is seen; none invented |
| `DualPortRam`, `LatchCrossingReg` | memory; flop and latch | write, read | reads between clock edges | the last value written |
| `SyncReset*`, `InitialReset`, `MakeReset*`, `ResetMux`, `ResetEither`, `ResetToBool` (Verilog and `bs_prim_mod_resets.h`, 689) | shift register of hold cycles, request flop | assert, hold, release | assertion between edges, overlapping requests | assertion at once, release after the given cycles |
| `ClockGen`, `ClockDiv`, `MakeClock`, `GatedClock(Div)`, `ClockInverter`, `ClockMux/Select` (Verilog and `bs_prim_mod_clock*.h`) | counter, gate latch, selected input | tick, set value, set gate, select | gate changing with the clock, glitches | no runt pulse, edges announced |
| `FIFO1`, `FIFO2`, `FIFOL1`, `FIFOL2` and their `0` variants | one or two words, flags | enqueue, dequeue, clear, in one cycle | simultaneous operations at the limits | a bounded queue |
| `SizedFIFO`, `SizedFIFOL` and `0` variants (259 each) | ring, head register, flags | as above | ring empty or full with a head loaded | a bounded queue |
| `MOD_Fifo` (507) | array, count, per-cycle snapshot | as above as a sequence of calls in a cycle | order of calls within a cycle | same queue as the Verilog |
| `Counter`, `MOD_Counter` (313) | one word | add, set, in one cycle | order of calls, wrap | the result does not depend on the order |
| `Reg*`, `ConfigReg*`, `CReg*`, `CrossingReg*`, `RegTwo*`, `RevertReg`, wires (Verilog and `bs_prim_mod_reg.h`, 1133) | one word, ports | write, read in one cycle | concurrent registers, order of ports | the last port's write wins; reads see what they should |
| `RegFile`, `RegFileLoad`, `MOD_RegFile` (549) | memory | write, read, load | addresses outside the range, reads at the write | last value written |
| `BRAM1`, `BRAM2`, byte enables, `Load` (Verilog and `bs_prim_mod_bram.h`, 1041) | memory, one or two ports, output registers | put per port | both ports on one address in one cycle; pipelined output | documented collision result |
| wide data, arithmetic primitives (`bs_wide_data.h`, `bs_prim_ops.h`, 1940) | none | pure functions on words | word boundaries, sign, overflow | the arithmetic operation modulo 2^n |
| `RangeTracker`, memory file loading (180) | covered address ranges | add a range | adjoining and overlapping ranges | exact set covered |
| `ProbeCapture`, `ProbeTrigger`, `ProbeValue`, `ProbeMux` (298, 182, 159, 115) | ring of samples, counters; toggles, report under way; side of the multiplexer | command, trigger, new value, acknowledge | inputs that meet at one edge or fall within a report; the ring at its limits | a dump is the newest samples; reports go up whole, none is forgotten |
| `main.v`, `sim_main.cpp` | a time | step | order of the first reset and clock edges | reset spans the first edge |
| kernel interface, VCD, system tasks, VPI headers | none here | declarations of functions in binary libraries | - | - |
| `tcllib`, `exec` | none | build scripts and package loading | - | - |

Components interact through ports only: a compiled design connects an output of
one to an enable of another under a guard (`RDY_`) generated from the
component's own ready outputs. The models take those guards as the condition of
the calls, from the guard methods of the Bluesim classes. `SyncRegister`
and `SyncFIFOLevel` instantiate `SyncHandshake`. Bluesim's
`MOD_SyncReg` has a `MOD_SyncHandshake`, `MOD_SyncFIFO` two, `MOD_MakeReset` a
`MOD_SyncReset`, and `MOD_BRAM` and `MOD_RegFile` the loader of memory files with
its `RangeTracker`. A Bluesim class is called by the code generated for the rules,
by its clock and reset functions, by the kernel's queue of calls at the end of a
time slice and by the dumps of waveforms; what it promises is that a slice of
such calls amounts to the clock edge of its Verilog twin.

## 2. Modules

| module | what it is | source |
|---|---|---|
| `SyncHandshake` | pulse synchronizer | `Verilog/SyncHandshake.v` |
| `SyncMailbox` | abstract one-slot mailbox | what `SyncRegister` promises |
| `SyncRegister` | composes `SyncHandshake` with the data registers | `Verilog/SyncRegister.v` |
| `GrayCode` | pure functions `incrGrayP`, `grayToBinary`, the full test, the index | `Verilog/SyncFIFO.v`, `SyncFIFOLevel.v` |
| `GrayCounter` | pointer and look-ahead of one side, every width | `Verilog/SyncFIFO.v` |
| `BoundedQueue` | abstract bounded queue | what every FIFO promises |
| `QueueStep` | what one clock edge does to the queue a FIFO stands for | inputs and `error_checks` of the FIFOs |
| `FIFOPointers` | positions, words and addresses of pointers | `Verilog/SyncFIFO.v`, `SyncFIFOLevel.v` |
| `SyncFIFO` | queue between clock domains, over any Gray code | `Verilog/SyncFIFO.v` |
| `SyncFIFO1` | one-place queue between clock domains | `Verilog/SyncFIFO1.v` |
| `SyncFIFOLevel` | composes the queue, two `SyncHandshake`s and counts | `Verilog/SyncFIFOLevel.v` |
| `SyncBits` | flops of the bit and pulse synchronizers | `Verilog/SyncBit.v`, `SyncBit1.v`, `SyncBit15.v`, `SyncPulse.v` |
| `SizedFIFO`, `FIFO1`, `FIFO2`, `SizedFIFO0` | queues in one clock domain | `Verilog/` files of these names, the `L` and the `0` forms |
| `ProbeCapture` | logic analyser: ring of samples, trigger, dump | `Verilog/ProbeCapture.v` |
| `SerialProbes` | reports of triggers and values, and the multiplexer they go up through | `Verilog/ProbeTrigger.v`, `ProbeValue.v`, `ProbeMux.v` |
| `ModFifo` | the simulator's queue, as calls within a cycle | `Bluesim/bs_prim_mod_fifo.h` |
| `BluesimReg` | the six register classes and their reset functions | `Bluesim/bs_prim_mod_reg.h`, against `RegN.v`, `RegA.v`, `RegUN.v`, `RegTwoN.v`, `CRegN5.v` |
| `BluesimCounter` | counter with two adders and two setters | `Bluesim/bs_prim_mod_counter.h`, against `Counter.v` |
| `BluesimWire` | wires and probes | `Bluesim/bs_prim_mod_wire.h`, `bs_prim_mod_probe.h` |
| `BluesimBRAM`, `BluesimRegFile` | memories, as calls within a slice | `Bluesim/bs_prim_mod_bram.h`, `bs_prim_mod_regfile.h`, against `BRAM2BE.v`, `RegFile.v` |
| `MemoryStore` | levels of blocks that hold a memory's words; the loader of a file with its range checks | `bs_prim_mod_bram.h`, `bs_range_tracker.h` |
| `PrimOps` | arithmetic on words of every kind of width | `Bluesim/bs_prim_ops.h`, `bs_wide_data.h` |
| `SyncVar` | the proxies that give the value of before a time | `Bluesim/bs_prim_mod_synchronizers.h` |
| `BluesimBits`, `HandshakeClass`, `BluesimSyncReg`, `BluesimSyncFIFO` | the simulator's synchronizers | `Bluesim/bs_prim_mod_synchronizers.h`, against the modules above |
| `BluesimResets` | reset generators, synchronizers and multiplexers | `Bluesim/bs_prim_mod_resets.h`, against `SyncReset*.v`, `MakeReset*.v`, `InitialReset.v`, `ResetMux.v`, `ResetEither.v` |
| `BluesimClocks` | clocks made, gated, inverted, divided and selected | `Bluesim/bs_prim_mod_clockgen.h`, `bs_prim_mod_clockmux.h`, `bs_prim_mod_gatedclock.h`, against the `Verilog` clock modules |
| `MC*` | put several modules side by side for TLC, one active in each behaviour; the other runs check a module as it is, with the values of its `.cfg` | |
| `SyncRegisterProofs` | theorems of the handshake and the register | |
| `FIFOPointersProofs`, `SyncFIFOProofs`, `SyncFIFOLevelProofs` | the Gray code and the arithmetic of positions and addresses; theorems of the counters and of the two queues built on them | |
| `CrossingsProofs` | theorems of `SyncFIFO1`, of the early handshake, of the serial probes and of the logic analyser | |
| `SingleClockProofs` | theorems of the FIFOs of one clock and of `ModFifo`, of registers, counter, wires and memories of Bluesim | |
| `BluesimSyncProofs` | Bluesim's bits, pulse, handshake and register refine the Verilog's, its one-place queue `SyncFIFO1` | |
| `BluesimFIFOProofs` | Bluesim's queue refines `SyncFIFO`; cleared by its source, it holds what was enqueued since | |

### The hardware

**Two clocks.** Clocks of different domains have no relation. A step is an edge
of the source clock, an edge of the destination clock, or both together.
Registers take their old values at an edge (nonblocking assignment), except that
with coincident edges a flop fed from the other domain may capture the value
before or after the edge, each flop and each bit on its own: a simulator gives
the former, hardware either. A word captured without synchronizer flops while it
changes is any value of its type. Metastability is taken to be resolved by the
time the second flop samples the first, which is what two flops are for.
`SyncFIFOLevel` has both readings, by its constant `Skew`, because they differ
there. `SyncBits` has the simulator's only, as it serves as the promise of the
simulator's classes.

**Reset between domains.** `sRST` is asynchronous: `AssertReset` may come between
any two edges and `ReleaseReset` any time later. Edges under reset change nothing
and are not steps. `Init` is the state once the power-up reset is in effect.

**One clock.** A step of `SizedFIFO`, `SizedFIFO0`, `FIFO1` and `FIFO2` is one edge
with any legal inputs: reset, clear, dequeue, enqueue, all together if need be. The
reset is synchronous. The forms with `L` (loopy) have the same registers and
raise `FULL_N` also during a dequeue, which only adds legal inputs; `Legal`
takes them all, and thereby also the inputs of an unguarded FIFO.

**Probes.** `UCLK` carries commands and words, `CLK` the probed values; their
edges are aligned, and `CLK` misses edges, not only while the probes' `DELAY`
stops it. A step is an edge of `UCLK` with or without one of `CLK`. A word that
goes up is its place in the report and the value it belongs to. `ProbeCapture`
leaves out inputs its state does not look at. Its `CTIMER` ticks and
acknowledgements come whenever they like.

**History.** Every FIFO keeps, beside its registers, the `queue` its inputs
amount to, computed from the inputs alone by `QueueStep!After`; the central
property of each is that the registers hold exactly that queue. `ProbeCapture`
keeps the samples that were due, `SerialProbes` a trigger not yet reported, a value
not yet reported and what the last command asked for.

**Callers.** Enables are raised only with the ready output they are guarded
by: `sEN` with `sRDY`, `sENQ` with `sFULL_N`, `dDEQ` with `dEMPTY_N`, `sCLR` with
`sCLR_RDY`. The guards come from the methods of the Bluesim classes (for example
`METH_RDY_send`). `SyncFIFO1` tests its flags itself and is given any inputs;
`SizedFIFO` loses an element enqueued when full, and only that one, which
`Overflow` models.

**Pointers.** A pointer is a position, steps since reset modulo twice the depth,
and `Code` gives the word of a position. `CodeAssumption` lists the four facts
the FIFOs need of that code (words distinct, one bit per step, the full test
compares opposite positions, words of the right width); `SyncFIFOLevel` also
needs every word to be a code, for a clear changes several bits at once. The proofs of
the FIFOs hold for any code with those facts, and `CountersAreCode` is the proof that
the words `incrGrayP` enumerates, `CounterCode`, have them at every width. `GrayCounter`
has the counters themselves, with their parities and `grayToBinary`.

### The simulator

**Slices.** Bluesim has no edge at which all inputs are taken. The kernel runs
the slices of a time one after the other; in a slice the generated code calls
methods of the classes, then the clock functions (`clk`, `clk_src`, `clk_dst`),
then what was queued for the end of the slice, then reset ticks. The kernel is a
binary; its order is taken from the comments of the headers and from what the
classes assume (each module says so at its head). Every module lets the calls of
a slice come in any order that the guards and comments allow, each call changing
the fields at once, and compares at the end of the slice: the fields against the
registers of the Verilog module, which takes the same inputs together. For
`BluesimBits`, `BluesimSyncReg` and `BluesimSyncFIFO` this is a refinement: the
fields, mapped to registers when the slice is over and to those of before it until
then, are a behaviour of `SyncBits`, `SyncHandshake`, `SyncRegister`, `SyncFIFO1`
and `SyncFIFO`.

**Times** are reduced to "now", "before", or the edge of this slice. `SyncVar` has
the value written now and that of before.

**`ModFifo`.** Rules call `deq`, `enq` and `clear` one after the other in a
cycle, in any order the comments of the class allow; `EndCycle` is the end of the
clock edge, with the reset tick after the rules. The history queue moves only
there, all inputs together, as the Verilog does. `type` is a variable chosen at
the start, as it is an argument of the constructor.

**Registers, counter, wires, memories.** The same, with a step per call:
`BluesimReg` has its ports (`METH_setA`, `METH_setB`, numbered writes of the
`CReg`), `BluesimCounter` the four methods, `BluesimBRAM` requests and clock
functions of two ports with byte enables, proxies and the pipeline register,
`BluesimRegFile` writes and reads of the cycle. `reset_type` and the shape of a
memory are chosen at the start.

**Resets.** An assertion or release is a function called with 0 or 1. The kernel's
part is modelled after the comment of `bs_prim_mod_resets.h:14-43`: an event calls
the function, then begins or ends a request of reset ticks; requests are counted
and do not go below none; `reset_at_end_of_timeslice` queues such an event.
A reset coming in changes at the end of a slice, after the queued calls, of which the
one to the reset going out is the first: the kernel orders its events by time and
priority only, so among equals another order is not excluded, and with it
(`AnyOrder`) the classes do not agree with the Verilog.

**Clocks.** A class triggers edges of the clock it makes. The model counts the
rising edges that it triggers in a slice and compares the values of clock and
gate with the latch and the conjunction of the Verilog. The gates coming in
change as the clock falls, as gates do that this library makes.

**Waveforms.** `dump_VCD` writes what differs from a copy (`backing`) that it
updates. The models have the object, the copy and what the waveform shows, with
dumps after any slice, and compare the last with the hardware.

**Numbers.** The operators of `PrimOps` choose their C++ by the width of the
operands: `tUInt8`, `tUInt32`, `tUInt64` or an array of 32-bit words. The widths of
these types are constants, and TLC takes 2, 3 and 6 bits for them; a shift by the
width of the type or more, which C++ leaves undefined, is taken as processors
do it, with the amount modulo the width: unlike a shift that yields 0 it is not
what any caller wants, so an unguarded one shows. The result of
each operator, through every chain of operators on widths up to 8, is compared
with the arithmetic on the number itself. `MemoryStore` has addresses of types that fill
their integer and of narrower ones, promoted to a wider integer as C++ does or not.

**Left out of these modules.** The options `BSV_RESET_FIFO_HEAD` and
`BSV_RESET_FIFO_ARRAY` (they change what an empty FIFO shows), the `initial` blocks'
patterns, messages, checks of parameters, symbol tables. The width of `p3cntr` in
`SizedFIFO` is taken to be wide enough for the depth, as the compiler chooses it.

Operators named `Mut...` are plausible mistakes kept beside the definition they
would replace: each property is run against one of them to see that it notices.

## 3. Runs

| run | instance | states | shows |
|---|---|---|---|
| `register` | 3 values, 4 writes | 229 | the handshake delivers each pulse once and gets ready again; the register implements `SyncMailbox` with its fairness; the word is settled for 2 destination edges when loaded |
| `fifo` | `SyncFIFO` of depth 4, two elements | 44479 | flags pessimistic, queue held, pointers ordered where copies lag by several steps and words have three bits; implements `BoundedQueue` |
| `queues` | `SyncFIFOLevel` of depth 2, all flops alike; `SyncFIFO` of depth 2; Gray counters up to width 6 | 37430 | outside clears the first is a queue, its counts and flags safe, any clears from both sides; elements and room are seen eventually in the second; counters enumerate the Gray code, a bit per step |
| `crossings` | `SyncFIFO1` with 3 words; handshake without `DelayReturn`, 10 pulses; `SerialProbes`; `ProbeCapture` with 3 places | 323286 | `SyncFIFO1` holds its queue, shows only settled words, its flags follow; the early acknowledgement loses no pulse; reports go up whole and none is forgotten; the analyser's samples are true and its dumps exact |
| `single_clock` | `SizedFIFO` and `SizedFIFO0` of depth 4, `FIFO1`, `FIFO2`; `ModFifo` with 3 places; registers, counter, wires, memories | 685186 | each FIFO holds its queue; each class of Bluesim does in a cycle of calls, in any order, what the clock edge does, its answers are steady or of before the edge, its waveform shows the hardware |
| `bluesim_sync` | the classes of two clocks, resets and clocks | 1179669 | they refine the Verilog's synchronizers; resets and clocks they make agree with the Verilog's; waveforms true |
| `arithmetic` | types of 2, 3 and 6 bits, values up to 8 bits; files of up to 6 entries; addresses up to 64 bits | 98805 | every chain of operators computes what Bluespec defines; ranges reported right; the storage has one place per word |
| `level_skew` | `SyncFIFOLevel`, each flop on its own | violation | a cleared element is shown after the clear |
| `modfifo_unguarded` | 2 places, simple, unguarded | violation | `enq` then `deq` of a full FIFO loses the element, `deq` then `enq` keeps it |
| `prim_ops_far` | as `arithmetic`, with shift amounts that have only bit 32 (here 3) set | violation | the shift is done as one by 0 |
| `bluesim_clear` | `BluesimSyncFIFO` cleared from the destination | violation | an element from before the clear is shown after it |
| `reset_ticks` | `MakeReset` | violation | its output reset is asserted while no reset ticks are requested |

**The violations** are disagreements of the code with its comments.

- `level_skew`: a clear sets the enqueue pointer to zero and, in the same edge,
  answers the request. Pointer and answer cross through different flops. If the
  answer is captured one destination edge earlier than the pointer, the
  destination leaves its cleared state while it still sees the old pointer, takes
  the difference for an element and steps its dequeue pointer past the enqueue
  pointer. Simulation never shows it, since a simulator captures old values with
  all flops at coincident edges; run `queues` and the theorems of
  `SyncFIFOLevelProofs` confirm that under this reading nothing is wrong.
- `modfifo_unguarded`: `METH_enq` tests `elems == size` whatever `guard` is, so that
  the two orders of calls called conflict free in its comment differ, and the
  Verilog, which keeps the element, differs from the simulator.
- `prim_ops_far`: `is_clear(33u)` begins at bit 33 although 32 bits are used.
- `bluesim_clear`: the class's handshakes acknowledge before the pulse is sampled,
  those of `SyncFIFOLevel.v` after. With clears from the source only, and neither
  clock more than one edge ahead, `ClearedHoldsQueue` holds; with two edges (`MaxLead` 2)
  it does not.
- `reset_ticks`: `MOD_MakeReset::reset_RST` asserts its submodule's reset by a direct
  call, which requests no ticks, and releases it by a queued one, which ends a
  request.

**Bounds.** `MaxSends` bounds history counters only: the flops of the handshake
return to a former state after two pulses, so a few pulses pass through every
state of the ring. Two values suffice to tell an element lost, doubled or
reordered from one that is not, since no FIFO looks at them; a third is the
reset value in `register` and `crossings`. `EdgeCap` bounds the count of
destination edges at the number the properties ask for. Depth 2 is the code's
minimum and suffices for liveness, where what counts is that a copy follows; at
depth 4, for safety, a synchronized pointer can trail by more than one step, and
the ring of a `SizedFIFO` has three words, not a power of two. Three places of
`ModFifo` separate empty, full and neither when one call moves the level.
`RegPorts` 2 has a write that overrides another; a counter of `CounterBits` 2 wraps
with one addition. The shapes of a BRAM are two words with two ports, one word with
two byte enables and without proxies, and a pipelined one with one port; a register
file has the addresses 1 and 2 of 0 to 3. `SyncReset` holds for `Cycles` 2, and
`MaxTicks` bounds the requests, which only grow when resets overlap. The ratios of
the divider are width, lower and offset with an odd and an even number of counts.
`MaxLead` bounds the edges of one clock between two of the other for the FIFO with
clears only. The ring of `ProbeCapture` has three places, so that a dump stops one
short of them and walks over the wrap; `RunLenMax` 1 fills the run length at every
second tick, `TriggerToDump` 1 has samples between trigger and dump, and reports
of one word have the three kinds of words, first, last and between. `CountMax` 2
stands for 255: none, one and more. Files of six entries can set, leave, revisit and join ranges; two
addresses of the ranges checked lie outside.

**Fairness.** Weak fairness of each clock's edges: a clock keeps ticking. The
source is not obliged to send, the consumer not to dequeue, and nobody to
release the reset, so every liveness property allows for a reset. FIFOs in one
clock domain and the classes of the simulator have no liveness of their own.

**Differences without a property.** Modelling met these as well. The models
leave the cases out by a guard or start from the code's own values; they have
no comment that says which side is meant.

- *Resets.* A `MakeReset` whose `RST` is asserted before the queued release reaches
  its synchronizer keeps that synchronizer asserted. An asynchronous `SyncReset`
  can lose an assertion that comes in the slice of its release. The inputs of
  `ResetMux` start asserted (:487), and `do_select` calls without testing for a
  function (:534).
- *FIFOs.* A reset that ends before the destination had an edge leaves
  `not_empty` of `MOD_SyncFIFO` set. With one place, `dCountReg` is inverted.
- *Registers.* A `RegAligned` constructor leaves `tick_at` uninitialized; a
  `CrossingReg`'s reset tick saves the value just written; `RevertReg` keeps the
  value written.
- *Memories.* `METH_upd` of a register file tests no bounds. Decreasing ranges
  ignore every entry of a file. The address of the loader and a range that fills
  its integer wrap (`bs_range_tracker.h:42`). A collision of equal chunks is warned
  of all the same (BRAM :459-466), and `dump_state` takes the storage to have one
  level (BRAM :737, RegFile :436).
- *Clocks.* `MakeClock` triggers no falling edge when reset while high, and with an
  initial value of 1 its gate is set while the Verilog latch is closed. A
  `ClockDivider` reset while its counter is high misses the first falling edge, and
  a reset triggers edges whatever the gate is (:393); its `PREEDGE` never falls in
  a waveform (:428-430). A gate that opens while the counter is high cuts a pulse
  in the Verilog only. `ClockInverter`'s gate cannot close. `ClockSelect` keeps its
  selection during reset (:188-196) and counts edges of gated clocks; `ClockMux`
  starts with its gates closed until each clock's first edge.
- *Waveforms.* Some fields are compared or copied without being written:
  the reset of `RegAligned`, `sSyncReg` of `SyncBit`, `sDataSyncIn` of `SyncReg`,
  `sRST` of `SyncHandshake`; `OUT_RST` of `SyncReset` falls one edge early (:132).
- *Probes.* `ProbeCapture` resets its countdown to 0, so that the first dump comes
  without the wait (:145); a value that changes twice between ticks is sampled as
  if it had not (:176). `ProbeTrigger` gives a trigger back that comes while the
  last word of a report waits (:134); an external trigger with the count at 0
  wraps it to 255 and enables the probe (:143-146). `ProbeValue` never reports a
  change during a forced report (:119-122), and a command at the edge at which a
  report starts leaves `sentOne` wrong (:100, :112): a disabled probe may report
  once more, or an enabled one be silent with `DELAY` high.

## 4. Theorems

All are for every value of the constants under the modules' `ASSUME`s: the sets of
words do not contain the marks for "no word" and contain the value of reset, widths and
sizes are positive, a pointer code has the facts of `CodeAssumption`, which
`CountersAreCode` proves of the code's own. A theorem that needs more states it as a
hypothesis. About the system there are five: four have a run or a note that shows the
statement false without them, the fifth only says which of two Verilog modules a class
is the twin of. `CountersAreCode` moreover takes index width and depth to fit together,
as `SyncFIFO.v:247-268` checks at the start of a simulation, and the width to be at
least the 1 that its parameter list names. Every invariant below was checked by TLC on the run of
its module before it was proved.

### Between two clocks

- `HandshakeExact`, `EarlyHandshakeExact`, `HandshakeTypes`: `PulseExactlyOnce` alone is
  not inductive. The invariant adds `OneWave`: the flops form a ring, a pulse is one
  change that travels round it, and at most one link of the ring carries a change.
  The number of changes between toggle and last state is `sent - seen`. The first
  holds for both settings of `DelayReturn`, the second for the instance without it.
- `RegisterSettled`, `RegisterImplementsMailbox`, `RegisterTypes`: `RegIInv` adds how
  many destination edges have passed for each place the wave can be in. That gives
  the comment "at least 2 dClks occurred" and that load and write are never at
  one edge, so that no torn value is loaded and each step of the register is a
  `Put`, a `Take`, both or a stutter of the mailbox.
- `OnePlaceHoldsQueue`, `OnePlaceSettled`, `OnePlaceIsQueue`: the same idea for
  `SyncFIFO1`, whose six toggles form the ring; an accepted enqueue needs the
  ring at rest, so it never meets a dequeue, and the count of destination edges
  keeps pace with the change on its way to the destination.
- `CountersAreCode`, `GrayCountersExact`, `GrayOneBitPerStep`: the counters of the code,
  at every width. `From(n, i)` is a number without its `i` low bits, and all follows
  from how it changes: by the next bit (`FromNext`), by one when a carry runs through
  ones (`Carries`), by half of itself when half the code is added (`HalfAway`). A bit of
  the word tells two neighbouring bits of the number apart, so zeros below a place in the
  word of an odd number are ones in the number (`BelowOnes`), which is what the masking
  shifts of `incrGray` look for: it flips the bit of the lowest zero, or the top one when
  the count comes round (`IncrFlips`, `IncrIsNext`, `OneFlip`). Words are told apart from
  the top bit down (`WordsDiffer`), memory indices from the lowest up (`SameIndex`), and
  there are as many words as numbers (`EveryWord`). The library's induction theorems
  cannot be used here; induction is by the least number outside a set (`AllNumbers`), and
  a recursive function such as `grayToBinary` is shown to be the one function that solves
  its equation.
- `FIFOTypes`, `FIFOPointersOrdered`, `FIFOPessimistic`, `FIFOIsQueue`,
  `FIFOHoldsQueue`: the invariant is `PointersOrdered` with the types. From the
  enqueue pointer backwards lie its copies in the destination, the dequeue pointer
  and its copies in the source, in that order, within `Depth` steps. The copies being
  pointers at all rests on one bit changing per step: what a flop captures at a
  coincident edge is then the old word or the new one. Then an enqueue is an append
  to the abstract contents and a dequeue its tail.
- `LevelTypes`, `LevelIsQueue`, `LevelCountsSafe`, `LevelShownIsHeld`: each of the two
  clear handshakes carries a wave in one of six stages, 0 when a clear has just been
  asked for and 5 at rest. `IInv` says that there are stages `s` and `d` with
  `Inv(s, d)`: the flops are those of the stages, what a stage leaves behind holds
  (the pointer of the side that cleared is zero, and by which stage each copy of it
  is), and if the source is at rest and has already cleared for the destination the
  FIFO is ordered as `SyncFIFO` is, except that copies from before the clear, which
  nobody will use, count as the pointer itself. Stages move together with the flops
  (`RingMoves`), so a step of the FIFO is a step of two small counters and one of
  the pointers. The hypothesis is `Skew = FALSE`: with each flop capturing a
  coincident edge on its own, an acknowledgement can overtake a pointer, and run
  `level_skew` shows the consequence.
- `ProbesReport`: the word on offer is the one its counter stands for; a report under
  way has the multiplexer on its side; until its last word goes up `DELAY` keeps
  further triggers away, first by the probe and then by the multiplexer. The
  exceptions that §3 lists as differences are where the property itself excepts them.
- `CaptureIsExact`: the samples of this collection that are not sent yet lie in the
  ring one behind the other, from `memAddr` backwards and around its end (`InRing`), and
  `sampleCount` tells how many; the word on offer and the words sent tell where in the
  dump one is (`Dumps`). While samples are taken, the probe's toggle against the one
  captured is the parity of the changes since the last tick (`Collects`), which is why
  two changes within a tick look like none and the property excepts them.

### In one clock domain

- `TypeCorrect`, `KeepsOrder`, `FlagsTell` for `SizedFIFO`: `RingConsistent` says which
  flag tells the two cases of `head = tail` apart and that the ring is used only
  behind a loaded head register. The contents are compared with the queue place
  by place, so each row of the `casez` becomes a fact about one step of an index
  around the ring, and no induction over the queue is needed.
- `SmallFIFOsHold` for `FIFO1`, `FIFO2` and `SizedFIFO0`, whose registers are their
  invariant.
- `FifoCyclesCompose`, `AnswersStaySteady` for `ModFifo`: in the midst of a cycle the
  array holds what the calls so far make of the queue before the cycle (`Now`), and
  `saved_elems` the level of before. The hypothesis is `guard = TRUE`; run
  `modfifo_unguarded` shows that the order of calls matters without it.
- `RegistersCompose`: of each class, what the calls so far make of the register (`Given`),
  which field keeps the value of before for the readers, and that an asynchronous reset
  holds it all. The hypothesis, `LateInReset = FALSE`, is that no rule writes a
  `RegAligned` after its tick in a synchronous reset, where the class takes the value and
  the Verilog does not.
- `CounterCounts`: the value is the count of before with the calls so far added, modulo
  the width; a `setC` after an addition has to add it again to the new value, which is
  where arithmetic modulo a power of two enters (`OnlyRemainder`).
- `WiresCarry`: valid exactly when set, and with the value it was set to.
- `MemoriesAreEdge`: while the calls of a slice come one by one, what is known of the
  memory before the slice is spread. A word is as it was, or some port has written it
  and has its old value; so each port can still answer from before the edge. A register
  file keeps one word's old value, as it is written once in a cycle.
- `WavesShow`: viewer and copy agree, and after a dump both have the object. For the
  ports of a `CReg` the last port that wrote is found with the least number principle,
  which is a theorem of the library that takes no operator.

### The simulator's synchronizers

- `BitsAreVerilog`, `RegistersAreVerilog`: refinements of `SyncBits`, and of
  `SyncHandshake` and `SyncRegister`, by the mapping of §2: registers of before the
  slice until it is over. The invariant says that the fields are those registers, moved
  by the calls that have come (`Sent`, `Sampled`; `DataMoved`, `SyncSrcMoved`, `SyncDstMoved`), in
  any order and with either side's proxy giving the value of before; or, in reset,
  all at the reset value. For the handshake it also needs `OneWaveIn`, because the
  field `sRDY` is computed at one edge from flops of both sides, where the Verilog
  has a wire. Then the end of a slice is one edge of the Verilog or none. The proof is
  made once for the class with its arguments as parameters (`SyncReg(d, i, D)`).
- `PlacesAreVerilog`, for more than one place: the fields are the registers of when
  the slice began, moved by the calls so far (`PlacesInv`), each side reading the other
  through a proxy. A step of the refinement also needs the guards of the queue it maps
  to, so the invariant carries `PointersOrdered` for the registers, and that the queue is
  as long as the pointers are apart, plus the head. With one place the class is the twin
  of another module, which `OnePlaceIsVerilog` is about: there the six toggles are a
  ring with one wave (`OneInv`), as in `OnePlaceHoldsQueue`, where `s_reset` stands for a
  toggle that the class does not have.
- `ClearedFIFOHoldsQueue`, for more than one place, cleared by its source: the fields
  are again the registers of when the slice began, moved by the calls so far
  (`ClearInv`). The handshake that asks for a clear is a ring with one wave
  (`ClearWave`); while it is on its way the enqueue pointer is zero, and so is, behind
  the wave, each copy of it and at last the dequeue pointer (`Cleared`). The class answers
  an edge before the destination clears, so when the source is ready again the pointers
  are in order only if the destination had that edge meanwhile. This is where the
  hypothesis, `MaxLead \in {0, 1}`, comes in, and the invariant ties the wave to which
  clock is ahead. What is left from before the clear are copies of the dequeue pointer in
  the source: until it has lost them it is full (`Reordered`). The proof of a step looks
  at the end of a slice only, since calls keep what the slice began with.
- `SyncWavesShow`: viewer and copy agree, and after a dump both have the fields; of the
  registers all signals but `sRST`, which the class never copies.

### Checked by TLC only

- Liveness: `PulseArrives`, `ReadyReturns`, `ElementsArrive`, `RoomReturns`, `FlagsFollow`,
  and the fairness of `MailboxRefined`, whose safety is `RegisterImplementsMailbox`.
  The provers do not handle `ENABLED`.
- What is computed by recursion over data: the operators on words (`Computes`), the
  loader's ranges (`MemoriesLoad`).
- `GeneratorsAgree`, which has no parameter that a proof would generalize but the number
  of hold cycles.

## 5. Plan

Done: the queues and handshakes, the simulator's classes against the hardware modules,
the arithmetic, the memory loader, the probes; the proofs of §4. What is left, in this
order:

1. `GeneratorsAgree` for every number of hold cycles;
2. the bypass type of `MOD_Fifo`, `RevertReg`, the access of `BypassWire`,
   `ResetToBool`, gates under `ClockSelect`;
3. `DualPortRam` and `LatchCrossingReg`, reads between clock edges;
4. the waveforms of `MOD_SyncFIFO`, of a BRAM with two ports, of resets and clocks.

## 6. Not modelled

The posit unit and the core (empty submodules), the compiler (binaries), the
Bluesim kernel (a binary library, headers only: its ordering of calls is taken
from how the classes use it), system tasks and VPI declarations, the tables of
symbols a simulation is inspected by, `main.v` and `sim_main.cpp` (a fixed schedule
of the first reset and clock without inputs), `ClockGen` (a waveform given by
parameters), `SyncBit05` (no class of its own), wires that are assignments only, Tcl
and shell scripts (build steps without state of their own).
