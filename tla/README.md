# flyanx: a verification project

flyanx is a small teaching kernel for the i386: three built-in tasks (clock,
idle, a placeholder for the hardware), message passing by rendezvous, three
ready queues, and interrupt handlers that talk to tasks through messages.  This
directory models it in TLA+ from the boot sector to message passing, checks
small instances with TLC, and proves with TLAPS, for every value of the
constants, that message passing is correct, with the clock driver on top of it
and the linked ready queues below, that the loader brings the kernel to its
place whole, and what matters most of the nesting of interrupts, the keyboard
driver, printing and the start of the kernel.

Paths below are relative to `src/` of the repository (`kernel/` is
`src/kernel/`).  `PROJECT.json` maps every definition to the lines it stands
for, and lists the runs, the mutants, the findings and the hazards.

## The system

| part | state it keeps | operations | interacts with |
|---|---|---|---|
| message passing, `kernel/ipc_msg.c` | `flags`, `send_to`, `get_form`, `transfer`, `next_waiter` of each process; `waiters[]` | `sys_call`, `flyanx_send`, `flyanx_receive` | calls `ready`, `unready`; entered from `kernel.asm` with interrupts off |
| scheduling, `kernel/process.c` | `ready_head[]`, `ready_tail[]`, `next_ready`, `curr_proc`, `bill_proc` | `hunter`, `ready`, `unready`, their `lock_` variants | called by message passing and at boot |
| interrupt notification, `kernel/process.c` | `held_head`, `held_tail`, `next_held`, `int_held`, `int_blocked` | `interrupt`, `unhold` | called by handlers and by `restart`; completes a rendezvous by itself |
| kernel entry and exit, `kernel/kernel.asm` | `kernel_reenter`, the kernel stack, the saved registers | `save`, `hwint00`..`15`, `flyanx_386_sys_call`, `level0_sys_call`, `halt`, `restart` | surrounds all of the above |
| interrupt controller, `kernel/i8259.c`, `kernel_386lib.asm` | the two masks, `irq_handler_table` | `interrupt_init`, `put_irq_handler`, `enable_irq`, `disable_irq` | the hwint templates mask and unmask |
| clock driver, `kernel/clock.c` | `ticks`, `next_alarm`, `delay_alarm`, `schedule_ticks`, `last_proc`, `boot_time`, `msg` | `clock_handler` (interrupt), `clock_task` (process), `milli_delay`, `get_rtc_time`, `mktime` | shares its variables between handler and task; answers messages |
| keyboard driver, `kernel/keyboard.c` | the flags of the modifiers, `locks[]`, `esc` | `keyboard_handler`, `make_break`, `map_key`, `setting_led` | prints what is typed |
| boot of the kernel, `kernel/main.c`, `start.c`, `table.c` | process table, stacks, ready queues | `cstart`, `flyanx_main`, `panic` | sets up the initial state of everything else |
| protection, `kernel/protect.c`, `include/protect.h` | `gdt`, `idt`, `tss`, local tables; the registers that designate them | `protect_init`, `init_gate`, `init_segment_desc` | the processor reads them at each interrupt and each return |
| exceptions, `kernel/exception.c`, stubs in `kernel.asm` | a frame on the kernel stack | stubs, `exception_handler` | prints; returns to what faulted |
| console and formatted output, `misc.c`, `printk.c`, `kernel_386lib.asm`, `lib/stdio/vsprintf.c` | `display_position`, a buffer on each printer's stack | `k_printf`, `low_print`, `vsprintf`, `printk` | called by processes, interrupt handlers and exceptions, with interrupts on |
| debug dumps, library | a pager position | `proc_dump`, `map_dump`, string routines | output only |
| boot sector and loader, `src/boot/` | the place in a file, the memory map, page tables | `start_read_file`, `MemChk`, `calMemSize`, `SetupPaging`, `InitKernelFile` | boot sector reads the loader, the loader reads the kernel and jumps to it |

`main.c` of this commit starts the clock task and the idle task only
(`NR_SERVERS` is 0, and nothing creates a user), but `ipc_msg.c` and
`process.c` are written for tasks, servers and users.  The models take the sets
of tasks, servers, users and empty slots as constants: the table of this commit
is one instance, and the runs use larger ones.

### What is hard here

* **Composed calls.** `SEND_REC` blocks its caller as a sender and goes on to
  run `flyanx_receive` for it; two flags, a wait chain, a shared buffer and a
  ready queue have to agree whichever half completes first.
* **Deadlock.** The kernel refuses a send that would close a circle by walking
  along `send_to`; the walk has to be exact, and it has to end.
* **Implicit contracts between routines.** `unready` is right for the head of a
  queue only; `interrupt` touches the ready queues without a lock.
* **Nesting.** Interrupts are on for most of the way out of the kernel.
  `kernel_reenter`, the masks and the held queue are what keeps activations
  apart.
* **Shared variables.** The clock's handler and task, and the keyboard's
  controller and its LED exchange, work on the same state without a protocol.
* **Boundaries.** Counters that wrap at `ULONG_MAX`, which is also "no alarm";
  a calendar table corrected for leap years; registers read while they change;
  a division whose quotient is a byte, in the routine that prints exceptions.
* **Tables read by the processor.** Interrupts are on before the table they go
  through is loaded; descriptors are written by one routine and overwritten by
  another; the process to be resumed is described bit by bit.
* **Printing under interrupts.** The position is loaded at the start of a print
  and stored at its end, and the keyboard handler prints in between, over the
  text that is not finished.
* **The way to the kernel.** FAT entries of twelve bits divided between sectors,
  offsets that wrap, memory maps with holes, and a file that is read next to
  the code that reads it.

`PROJECT.json` lists these as hazards, each at its line and with the properties
that watch it.  Those without a property say why.

## The modules

| module | what it is |
|---|---|
| `Dispatch` | the ready queues as sequences: `Hunter`, `Ready`, `Unready` as operators on records, and the constants for the process table |
| `Ipc` | message passing: every system call and every notifying interrupt as one step, on top of `Dispatch` |
| `MCIpc` | its instance |
| `SeqLemmas` | lemmas on sequences without repetition, and on recursive functions on the naturals |
| `IpcProofs` | the proofs about `Ipc`: its invariants, and what its steps may do |
| `DispatchSpec` | abstract specification of the ready queues |
| `ReadyQueue`, `MCReadyQueue` | the same routines on `ready_head`, `ready_tail` and `next_ready`, refining `DispatchSpec` |
| `ReadyQueueProofs` | the proof of that refinement |
| `Interrupts`, `MCInterrupts` | entry, nesting and exit of the kernel, instruction stretch by instruction stretch, with `interrupt`, `unhold` and the exceptions of processes |
| `InterruptProofs` | the proofs about `Interrupts` |
| `Clock`, `MCClock` | the clock driver running in the kernel of `Ipc` (it extends `Ipc` and replaces `Next`) |
| `ClockProofs` | the proofs about `Clock`, from those of `IpcProofs`, and about `Rtc` |
| `Rtc`, `MCRtc` | how the time is read and converted at boot |
| `Keyboard` | the keyboard handler and the keyboard it listens to |
| `KeyboardProofs` | the proofs about `Keyboard` |
| `Fat12` | reading one file from the floppy in real mode |
| `Boot` | boot sector and loader, from the first sector to the jump into the kernel (it extends `Fat12`) |
| `Segments` | descriptors, gates and selectors, as the kernel writes them and as the processor reads them |
| `Startup`, `MCBoot` | the kernel from that jump to its first process (it extends `Boot` and `Segments`), and the instance of both |
| `StartupProofs` | the proofs about `Fat12`, `Boot` and `Startup` |
| `Format` | `vsprintf` and the formatter of `printk`, as operators |
| `Printing`, `MCPrinting` | `k_printf` and `low_print` under interrupts and exceptions (it extends `Format`) |
| `PrintingProofs` | the proofs about `Printing` |

### Ipc

`sys_call` runs behind an interrupt gate, with interrupts off, so a call is one
step.  `kernel` is a record of the fields the routines use, and every C routine
is an operator from the record before to the record after; this is how
`SendRecCall` runs `ReceiveEffect` on the result of `SendEffect`, in the order
of the code.

* A flag and its process number are one field: `sendTo[p]` is `None` while
  `SENDING` is clear, `getForm[p]` while `RECEIVING` is.  The numbers are read
  only under their flags.  `NO_MAP` is never set.
* `waiters[d]` is the sequence that `waiters[]` and `next_waiter` form.
* `msg[p]` is who wrote the body of the message in `p`'s buffer (its `source`).
  Whether a message was overwritten before it was copied, or went to the wrong
  process, shows in this field alone, so bodies are left out.
* `WouldLock` states the walk at `ipc_msg.c:87-104` by the sets closed under
  `send_to`, which contains no loop and can be reasoned about.
* `Interrupt(task)` is `interrupt()` entered from a process; nested entries
  belong to `Interrupts`.
* The failed assertion of a process that sends to itself and the panics of
  system calls lead to `up = FALSE`, in which nothing runs: they happen at level
  0 with interrupts off, where `down_run` halts for good.  A panic of the clock
  task is another matter (see Clock).

Left out: `IN_OUTBOX` (each process has one buffer), `SEND` to `ANY` by a task
or a server (it indexes the process table with 0x3ea), and what a caller does
with a result (the result never reaches it: `kernel.asm:343-354` drops it, so
every caller may go on in any way).  `waiters[]` is indexed with negative
numbers for tasks (`ipc_msg.c:124`, `:148`); the model gives each task a place
of its own, as the layout of the build does.

### Dispatch, DispatchSpec and ReadyQueue

`Dispatch` says what the routines of `process.c` do to three sequences;
`ReadyQueue` does the same with heads, tails and links, statement by statement,
and keeps the stale values the code leaves behind (`next_ready` of a process
that left, a tail behind an emptied head).  `ImplementsDispatch` is the
refinement: `Queues(mem)` reads the lists as sequences.  Both have the same
contract in their guards, for instance that a process that blocks is the head
of its queue; `ReadyExact` and `Dispatched` of `Ipc` show that system calls and
interrupts keep that contract.  Garbage in a link is the constant `Wild`, so
that following one is a type error instead of luck.

### Interrupts

`frames` is the kernel stack: one record for each activation, with the place it
has reached.  A step is a stretch of instructions that interrupts cannot divide
or whose division makes no difference.  While `ifFlag` is set any unmasked line
may enter.  `save` counts in, `restart` counts out; system calls, the level 0
halt and exceptions enter from processes.  What a handler returns decides
whether its line is unmasked again (`Returns`).  The readiness of the tasks is
reduced to `waiting`, the tasks that would take an interrupt message.
`overlaid` becomes true when a frame is pushed over what it must not touch: an
interrupt while `esp` designates a process table, and an exception with an
error code, whose frame is one word longer than its place.  Nothing is said
about the state after that.

Left out: the non-maskable interrupt, which may enter in the middle of `save`,
and exceptions of the kernel itself, other than the one of `low_print`, which
`Printing` has.

### Clock

The clock task runs inside the kernel of `Ipc`: its places are `init`,
`receive`, `serve`, `reply`, and it is executed only while it is the current
process.  A message it does not know makes it panic (`clock.c:210`), in ring 1
and with interrupts on: it is at `panic` while it prints, and ticks go on.  The
`hlt` it ends with (`kernel.asm:384`) is not for ring 1; it faults, with an
error code, for which the stub goes astray (see Interrupts).  From there on,
`lost`, nothing is known of what the processor does, and nothing is said about
it: the state stays as it is.  `Tick` is `clock_handler` with the branch for
the alarm and the quiet one.  Other processes make any call, or, with `Polite`,
ask the clock by `SEND_REC` only and never fail the assertion of `flyanx_send`.
What an answer contains is left out.  `milli_delay` is two steps, the
assignment and the end of the loop; its callers in the instances are invented,
the kernel has none yet.  `left` is a history variable: the ticks a delay has
still to wait.

### Rtc

A time is six fields; the CMOS clock (external) advances by the calendar, and
the kernel reads the registers one at a time, year first.  `Mktime` follows the
code, its table in days; `Unix` counts the days of every year and month, one
after the other, and is the reference.  `RtcAssumption` keeps the times before
the second in 2038 at which the products of `clock.c:139-151` no longer fit an
`int`.  Read errors during the update cycle of the chip, and its
12-hour mode, are left out.

### Keyboard

The keyboard (external) sends codes for keys that go down, stay down or go up;
the handler takes them later.  Each code carries, for the properties only, the
column of the key map that the keys and locks asked for when it was sent.
`setting_led` is modelled by its effect: when it runs, any number of the
waiting codes may be gone; no run has the keys that start it, because
characters are not the ones typed any more when it does.  Left out: characters
within a column, codes with prefix E0 other than right control and right alt,
and the shift codes that a keyboard itself inserts around the cursor keys while
num lock is on (the driver takes them for real ones).

### Fat12 and Boot

`Fat12` is `readFileFAT12.asm`, which both programs include: the search through
the root directory entry by entry, then sector by sector along the chain of
clusters.  `rd` is a record of its registers and variables.  The FAT is packed
and unpacked as on the disk (`FatByte` builds the bytes, `GetFatEntry` takes
them apart), because that is where the difficulty lies; a sector of a file is
known by its number, and a name by how many bytes of it agree.  A read that
cannot succeed (`Reads`) is repeated for ever, as in the code.  `fs.chain` is
there for the properties only: the clusters of each file in the order in which
the tools wrote it.  The code does not have it and follows the FAT.

`Boot` strings the two readings together with what the loader does: it asks for
the memory map, takes the highest end of it for the size of memory (low words
only, with wrap), builds page tables that map each page to itself, and copies
the segments.  Everything runs alone and in order; the nondeterminism is in
what it finds, a floppy, a memory map and the headers of the kernel
(`Machines`), and in the BIOS, which may refuse the map at any call.

Left out: what is printed, and the buffers for directory and FAT sectors, which
lie below the file.  What is taken for granted is stated in assumptions, which
TLC evaluates on the instance.

* About the floppy (`Formatted`): the root directory has at most one entry for
  each of the two files; the clusters of that file are linked in the FAT up to
  an end mark, and there are just as many of them as its size asks for.  What
  other entries and clusters hold does not matter, nor whether the files are
  there, which is `nofile`.  The code checks none of this: on a chain that is
  longer than the size it would go on writing.
* About the geometry (`Fat12Assumption`, `GeometryAssumption`): the FAT has an
  entry for each cluster and lies on one track, no cluster has a number that
  marks an end, segments and the spaces for files are whole sectors.
* About the memory map: ranges with a base, a length and a type, no more of them
  than the buffer has room for.
* About the kernel (`Linked`): there is a program header, and its segments lie
  inside the file and apart from each other in memory.

The initial states of the other modules
assume that variables without a value in the file are zero, which memory is at
power on; the loader does not clear them.

### Segments and Startup

`Segments` has two halves: what `init_segment_desc` and `init_gate` write, field
by field with the widths of the fields, and how the processor takes the fields
apart again (base, limit, privilege, kind, entry).  Nothing in the second half
is translated from the kernel's macros, so agreement between the halves is
something to check.

`Startup` goes on where `Boot` ends (`place = "entered"`): from the loader's
parameters at 0x700 to the first `restart`.  `at` is the place the kernel has
reached, and a step is one routine or one loop turn of it that an interrupt
could tell from the next.

| state | code |
|---|---|
| `cpu` | `gdtr`, `idtr`, `tr`, `ldtr` of the processor: what `lgdt`, `lidt`, `ltr`, `lldt` loaded last |
| `ptrs`, `gdt`, `idt`, `tss` | the tables of `protect.c`; `gdt` starts as zeros and takes the loader's entries in `CopyGdt` |
| `bootParams` | the double words the loader leaves and `cstart` checks for its magic number |
| `masked`, `irqHandler`, `ifFlag` | the 8259As, `irq_handler_table` and the interrupt flag |
| `table`, `nr`, `stackTop` | `proc_table` with registers and local descriptors, and the loop of `flyanx_main` |
| `ready` | the queues of `Dispatch`, on which the loop calls `ready` and `hunter` |

`Interrupt` is the processor: from `interrupt_init` on the flag is set, and an
unmasked line looks for its gate in whatever `cpu` designates.  Masks are clear
at first, the worst the BIOS may leave.  `Resumable` is what `iretd`
checks of selectors and descriptors.  At the end `HandsOver` states that the
kernel is in an initial state of `Ipc`, with the three tasks of this commit and
no servers (`NR_SERVERS` is 0).  Where the build puts tables, stacks and
handlers are constants; `LayoutAssumption` says that addresses have 32 bits and
that an entry of the process table has room for registers and the local table.
Messages and the loop of `idle_task` are left
out.

### Format and Printing

A format is a sequence of directives, so its parsing is left out; flags,
width and maximum are kept with the conversion, `*` included, and arguments are
taken one by one as directives ask for them.  `Vsprintf` gives the
text and the count that is returned, `Printk` the text of the other formatter.
A character 0 printed with `%c`, which would end the text, is left out.
`Turns` are the turns of the loop of `vsprintf`, a recursive function on the
directives, and so are the loops over digits, messages and cells, so that they
can be reasoned about.  `CallsAssumption` says what the formatters trust their
callers with: an argument on the stack for each that the format asks for, and
strings whose length an int can count.

`Printing` runs the texts.  `active` holds the activations of `k_printf`, the
one that runs last: a process, on top of it the keyboard handler (its line is
masked while it runs), on top of that the handler of a divide error.  Only one
process prints at a time, since nothing takes the processor away from one that
prints.  A step of `low_print` is a character.  Positions are halved bytes.

To find the row at a newline, `low_print` divides AX, the low half of `edi`, and
leaves the high half of `eax` alone.  So a newline stays within a block of 64 KB
(`Block`): in its last row that a byte can count it leads back to its first, and
between that row and the end of the block the division fails.  The handler of
the divide error prints, at the old position, and returns to the division.  The
segment behind `gs` ends at 1 MB, but the page directory of the loader lies
before that (147456 cells behind the start of the screen, `Cells`): a character
stored there goes over the entry that maps the kernel, and the print ends
`derailed`.

A handler that interrupts a print begins where the print began, since the
position is stored at its end only, and goes over the unfinished text; that is
what the code does, and no property denies it.  `from` is where an activation
began.  `extent`, also for the properties, is the end of what was stored by prints
that interrupted no other one; a print that comes round to the first row of its
block goes over older text, and nothing is followed any more (`ComeRound`).

Colours, and where `proc_dump` and `map_dump` stop to wait, are
left out; of the dumps and of the kernel's other messages `BuffersSuffice`, a part
of `FieldsFilled`, compares the longest text with the 160 bytes of the buffer,
in the real sizes.

## The runs

Passing runs (every property has a mutant, listed in `PROJECT.json`, that
breaks it):

| run | instance | what it shows |
|---|---|---|
| `ipc_tasks` | two tasks, a server, a user, an empty slot | exact wait chains, no send cycle, exact lock check, no missed rendezvous, pending messages intact, exact ready queues, dispatching of heads and billing, confinement of users, correct delivery, no overtaking |
| `queue_lists` | three tasks, a server, two users | the lists implement the sequences; tails reach |
| `irq_nesting` | clock and keyboard lines, exceptions, three activations | `kernel_reenter` counts, no handler is entered twice, only the outermost activation touches the ready queues; what was held is looked at by the next tick (liveness) |
| `clock_answers` | clock, two servers, five ticks | every request is answered (liveness); no delay is short |
| `clock_wrap` | clock, a server, a user, ticks wrap after three | the clock keeps what it received until it has answered, with alarms, bad messages and impolite callers |
| `keyboard_typing` | both control and alt keys, a shift key, a letter, four codes waiting | characters are the ones typed; modifiers are tracked by side |
| `boot_kernel` | eight clusters, two sectors of FAT, every order of the kernel's clusters in two directories; four memory maps, two sets of headers; five process slots | both files are found if they are there, are read in order and keep to their space; all memory is mapped; segments lie where they were linked; no interrupt arrives without a gate and a handler; gates lead to their stubs and admit whom they should; tasks can be resumed on stacks of their own; the kernel hands over an initial state of `Ipc`; a kernel that is entered reaches its first process (liveness) |
| `rtc_months` | first and last day of each month of five years, up to three seconds | boot time exact if the clock stands still, never ahead otherwise |
| `printing` | words of five bits, every flag with every conversion; lines of three cells, blocks of thirteen, the page directory in the second; keys typed meanwhile, a newline among them | each print goes on with its own text; whatever interrupts it, it goes behind what was on the screen when it began, and so does the interrupting print, until a line comes round; numbers can be read back; fields have their width; `printk` makes the text of `k_printf` where both know the format, hexadecimal letters apart; prints end, unless the division fails (liveness) |

One type invariant per module is checked, as a part of the property it serves:
`NestingCounted`, `TailsReach`, `ModifiersTracked`, `RequestKept`,
`KernelTypeOK` and `PrintsItsOwn` contain the types of their modules,
`TasksResumable` what selectors designate (`SelectorsReach`).

Runs that end in a violation, each of a statement the source makes about
itself.  The findings in `PROJECT.json` quote the lines.

| run | statement | what happens |
|---|---|---|
| `ipc_blocked` | `int_blocked` holds up an interrupt message | it is recorded and never delivered |
| `irq_table` | `save` starts at the stack top | an interrupt during `restart` pushes into the process table |
| `rtc_february` | converts to a unix timestamp | February of common years is a day early |

### What the models contain and no run reports

The code does more than its comments do not say.  The models follow it, so a
property must not assume otherwise; many points are hazards in `PROJECT.json`.

* `ready` makes a server current when its queue was empty, although a task is
  ready (`process.c:123-125`).
* The tail of the users is not set when a user enters an empty queue
  (`process.c:133-135`).  Only `schedule` reads it, and would lose users for it
  (`process.c:251-256`); it has no caller (`lock_schedule` neither).
* `int_held` is never cleared (`process.c:19-20`): a task is held once since
  boot, later notifications in that situation are dropped.
* `unhold` advances the head in two instructions with interrupts possibly on
  (`process.c:69`), and sees nothing of what is held after its last look
  (`:74`), not even when it clears the tail (`:76`).
* `hwint_slave` masks a line of the master (`kernel.asm:239-241`) and may
  unmask it under a handler of the master.  `HandlerNotNested` holds because
  no line of the slave is enabled.
* `clock_task` answers an alarm as well, and waits for ever for HARDWARE to
  receive (`clock.c:218`); no alarm is ever set, so that takes until `ticks`
  reaches `ULONG_MAX`, after 497 days.  In `clock_wrap` this happens, in
  `clock_answers`, which is about the time before, it does not.
* `sys_time` is never charged (`clock.c:99`), and at the end of a time slice
  nothing is scheduled (`clock.c:115-118`).
* A key that is echoed during a print goes over the text of that print, and the
  print, when it ends, sets the position as if nothing had been echoed
  (`kernel_386lib.asm:26`, `:53`).
* `printk` writes the hexadecimal digits a to f as B to G (`printk.c:61`).
  `PrintkAgrees` has this as the one difference to `k_printf`.
* Both shift keys count as the left one (`keyboard.c:182`), and caps lock
  changes on make and on break (`keyboard.c:218`).  `keyboard_typing` has one
  shift key and no locks for these reasons.

### Bounds

* `Ipc`: no bound but the sets.  Two tasks, a server and a user give chains of
  sends three deep, circles of up to four, and a sender unlinked from the
  middle of a chain; a second user takes the run beyond its five minutes.  The
  theorems below remove the restriction.
* `ReadyQueue`: three tasks let a process leave from the head, come back at the
  tail and meet its former neighbours in another order.
* `Interrupts`: `MaxDepth` = 3 bounds the activations: an interrupt on an
  interrupt on a system call.  Each handler, and `restart` above it, occurs
  under and over each other one.
* `Clock`: `TickMax` stands for `ULONG_MAX`, `ScheduleTicks` = 2 for 13, and
  `LastTick` ends the ticks of a run (where it equals `TickMax` they wrap and
  go on).  In `clock_answers` `LastTick` plus the longest delay stays below
  `TickMax`: within 497 days of boot, that is, no delay reaches `ULONG_MAX`,
  where `milli_delay` would end at once.
* `Keyboard`: `MaxPending` = 4 codes, two keys with prefix.
* `Boot`: sectors of 8 bytes and segments of 3 sectors put a FAT entry across
  two sectors and a file across two segments; kernels of four clusters, of
  six, which just fit, and of seven, which do not.
* `Startup`: addresses of a kernel below 640 KB, one structure across a 64 KB
  boundary, and two slots besides the tasks.
* `Printing`: `Word` = 5 bits give every conversion its extremes (-16, -1, 15)
  and a number of two digits in each base.  `Cols` = 3 and `LastRow` = 3 (for 80
  and 255), `Block` = 13 (for 32768) and `Cells` = 16 (for 147456) give a first
  block with rows that come round and a cell behind them where the division
  fails, and a second one, of which newlines reach every row and come round as
  well, and characters the first row, before the page directory; `Start` = 3 is
  a line below the top, as 480 is six.
* `Rtc`: `MaxSeconds` = 3 passes every field's rollover at each point of the
  reading; years to 2037, the last that `RtcAssumption` admits in full.

`CHECK_DEADLOCK FALSE` is set where the system may stop: `hlt` with every line
masked (`Interrupts`), ticks bounded by `LastTick` (`clock_answers`), a
reading that ends (`Rtc`), and a processor that is lost at the page directory
(`Printing`).

### Fairness

`Ipc`, `ReadyQueue`, `Rtc` and `Keyboard` state safety only and assume none.

* `ClockSpec`: weak fairness of the clock task.  Its steps are enabled only
  while it is the current process, and the processor executes the current
  process.  Nothing is assumed about callers or ticks.
* `FairSpec` of `Interrupts`: at each depth of the stack the kernel gets on
  again and again (strong fairness, since interrupts disable the step below
  them while they run): interrupts do not use up all of the time.  And the
  timer, once its line is unmasked and interrupts are on again and again,
  interrupts.
* `Spec` of `Startup`: weak fairness of the boot programs and of the kernel's
  steps.  Nothing else runs, interrupts return, the BIOS returns, and a sector
  that can be read is read after finitely many tries.
* `PrintingSpec`: weak fairness of `low_print`, and strong fairness of it for a
  process: keys do not come faster than it prints between two of them.

## The proofs

### Message passing

`IpcProofs` proves, for every process table that satisfies the named
assumptions of `Dispatch` and `Ipc`, the state invariants that `ipc_tasks`
checks:

`TypeCorrect`, `WaitersCorrect`, `DeadlockFreeSends`, `LockCheckCorrect`,
`RendezvousComplete`, `PendingIntact`, `QueuesCorrect`, `DispatchCorrect`,
`UsersIsolated`.

The assumptions say that tasks, servers, users and free slots are disjoint and
that IDLE and HARDWARE are tasks (`ProcsAssumption`), that the special values
are no processes (`SlotsAssumption`), which processes are system servers or
take interrupts (`RolesAssumption`), and that the boot queues hold each
schedulable process of their class once (`BootAssumption`).

None of the invariants is inductive alone.  `Inv` (`IpcProofs`) is
`KernelInv(kernel)` and the type of `up`; `KernelInv` adds to the checked
properties what ties them together:

* *halves agree*: who is both sending and receiving does both with the same
  process, which is what `SEND_REC` leaves;
* *idle clean*: IDLE and HARDWARE never block and never are in a queue;
* the current process, unless it is IDLE, is runnable and the head of its
  queue.  This is why `unready` may be used, and it needs exact queues, which
  in turn need it: the circle is broken by one step at a time.

The proof follows the code: a lemma for each routine says what it does to an
arbitrary record that satisfies part of the invariant (`ReadyOk`, `UnreadyOk`,
`HunterOk` for the dispatcher; `TableDeliver`, `TableBlockSend`, `TableTake`,
`TableBlockReceive` for the process table alone; `DeliverOk`, `BlockSenderOk`,
`TakeFromOk`, `BlockReceiverOk` for both together).  `SEND_REC` composes two of
them, which is why they speak of records and not of states.  `NextInv` has one
case for each action.

Acyclicity is stated over sets (each nonempty set of processes has a member
whose destination is outside it), so that it survives a new edge by a set
argument without induction: if the new edge closed a cycle, the set that
witnesses it would contain the destination and be closed under `send_to`, and
the check would have found the caller (`NoCycleClosed`).  `LockCheckCorrect` is
the converse as well: the check refuses nothing that is harmless.

The last part of `IpcProofs` goes from `Inv` to the two action properties of `ipc_tasks`:
`DeliveredRight` (`DeliveryCorrect`) and `NobodyOvertakes` (`NoOvertaking`).
What a send and a receive may do to the table is said once, as `SendShape` and
`ReceiveShape`; `SEND_REC` is one after the other.  Delivery needs
`PendingMessageIntact` from the invariant, order needs that a chain has no
repetition.  The lemmas `SameChain`, `LongerChain` and `ShorterChain` say that
a chain which stays, grows at its end or loses a member keeps its order.

### Interrupts

`InterruptProofs` proves `NestingCorrect` (`NestingCounted`) for any lines,
tasks and `MaxDepth`; `ReadyQueuesCorrect` (`ReadyQueuesExclusive`) for
`MaxDepth <= 256`, because `kernel_reenter` is a byte and 257 activations look
like one; and `HandlersCorrect` (`HandlerNotNested`) for lines of the master,
because the template of the slave masks a line of the master.

The counter says nothing about where activations are, so the invariant
`NestInv` adds `Shape`: what began in a process, and what runs in `restart`, is
the outermost activation; what returns to `restart_reenter` is not; an
activation that has its stack pointer in the process table has none on top of
it, unless it is overlaid.  Exclusion then follows by counting: whoever works on
the ready queues found `kernel_reenter` at 0, so one activation was counted,
and that is the outermost one.

### Keyboard

`KeyboardProofs` proves `ModifiersRight` (`ModifiersTracked`) and
`CharactersRight` (`PrintsWhatWasTyped`) for any number of codes that wait and
any set of keys without lock keys and without both shift keys (`Simple`; with
the locks neither holds, with both shift keys the second does not).  The
invariant reads the waiting codes as a schedule: `DownAt(n, pair, side)` is
what the handler will know of a modifier after the first `n` of them.  After all
of them it knows what is down (`Tracked`), and before each character it knows
what was down when that was typed (`Typed`).  Taking a code moves the schedule
on by one (`HandleShifts`); sending one adds to its end (`SendDecides`) and
leaves the rest alone (`SendLeaves`).

### The clock driver

`ClockProofs` goes on from `IpcProofs`: `ClockImplementsIpc` shows that every
step of the clock task, its handler and its callers is a step of `Ipc` or leaves
the kernel as it is, so every theorem about message passing holds under the
clock driver.  `ClockStep` says of a step at once that it is one of `Ipc`, keeps
`ClockInv` and leaves the message of the clock task alone while that works on
it; `RequestStays` (`RequestKept`) is read off it.  The argument is the one a
reader of `clock.c` has to make: the clock task works on one static buffer, and
while it is neither sending nor receiving nobody writes there (`KeepsMessage`,
lemmas `SendKeeps`, `ReceiveKeeps`, `InterruptKeeps`).

`DelaysLastLong` (`DelayNotShort`) has the hypothesis `NoWrap`: no delay is so
long that it ends behind `TickMax`.  The code does not ensure it: behind
`ULONG_MAX` a delay does end at once.  It is what holds in the first 497
days.  `DelayInv` relates what is left of a delay, the ticks and `delay_alarm`,
and says that only the current process spins, which is why two delays do not
share the one alarm.

### The time at boot

The second part of `ClockProofs` is about `Rtc`: `BootTimeExact`
(`ExactIfStill`) and `BootTimeNotAhead` (`NeverAhead`), for every time of the
assumption and any number of seconds that pass while the registers are read.
The days to a year and to a month are recursive functions; `YearsPass` and
`MonthsPass` give them in closed form, by the least place where they would
differ from it.  `SecondsPass` says that `Succ` counts one second over every
rollover, and stays in the calendar up to 2038, so that the clock, the day, the
hour and the minute never go back.

`Behind` is why a torn reading is late and never early: each prefix of what was
read, taken as a time of that precision, is not after the prefix of the present
time.  It holds for year and month in lexicographic order, from the day on in
the days that `mktime` counts (`DaysTo`), which is where the table, the leap
days and the early Februaries come in (`DaysToDay`, `DaysToGrow`).  It survives
a second (`BehindStays`) and the next register (`BehindReads`); with all six it
says that `mktime` gives no more than the time.  TLC checked `RtcInv` on the
instance of `rtc_months`.

### The ready queues

`ReadyQueueProofs` proves `ListsImplementQueues` (`ImplementsDispatch`) and
`TailsAlwaysReach` (`TailsReach`) for any number of processes.  `ListOf(m, c,
q)` states without recursion that the list of class `c` holds the sequence `q`:
head, links between neighbours, the null pointer behind the last, and the tail,
unless the class is the users'.  `Chain`, what a walk meets, is a recursive
function; that it has one value only, and that it is `q` where `ListOf` holds
(`WalkUnique`, `ChainIs`), is proved from the least place where two solutions
differ (`MinExists` of `SeqLemmas`), since the induction theorems of the library
are out of the provers' reach.  From there on everything is about sequences:
one lemma for each way in which the code changes a list (`PushedList`,
`AppendedList`, `ShortenedList`), one that the other lists stay
(`OtherLists`: no process is in two of them), and one for each routine.

### Printing

`PrintingProofs` proves `BuffersAreOwn` (`PrintsItsOwn`) and `TextStays`
(`OldTextStays`) for every width of a line, greatest quotient, size of a block,
place of the page directory and set of texts, with keys that interrupt prints.
`PrintInv` adds to them who may be on top of whom (`Stacked`: a process prints
first, the keyboard handler on one process at most, an exception only on a
division that fails) and that the position is never before the place where the
first of them began (`NoneBefore`): whoever interrupts it begins there or
behind.  A newline
leads forward unless it comes round, and never out of its block (`RowBelow`,
which rests on the quotients of `Division` and `RowOfCell`).
`ExceptionIsTheEnd` is the
safety part of what `PrintingEnds` says of a divide error, for every parameter:
once its handler has printed, the print below repeats the division for ever.

The larger part of the module is about what is printed: `FieldsAreFilled`
(`FieldsFilled`), `PrintkDoesAgree` (`PrintkAgrees`) and `NumbersAreReadBack`
(`NumbersReadBack`), for every width of a word, every width of a line that is no
greater than the number of rows (80 and 256, `PrintingAssumption`), and all
calls that satisfy `CallsAssumption`.  These are facts about recursive
functions.  That such a function on the naturals has the value its definition
asks for is proved once, from the least place where a partial solution could
not go on (`Recursion`, `Steps` of `SeqLemmas`); `AllSmaller` and `OneByOne` are
induction over a set instead of a predicate, again from the least exception.
With them the proofs are those one would write by hand:

* *Fields.*  `FieldIs` gives the length of a field from that of its sign, its
  text and its filling, `TakenIs` says that the width, the maximum and the
  argument are on the stack.  A field of width 0 takes the same argument with
  the same maximum, so its length is what the text needs.  `BuffersDo` adds up
  the fields of the kernel's own messages, with the real sizes.
* *Numbers.*  A numeral is the quotient's followed by the remainder's digit
  (`NumeralIs`).  A digit to base eight or more stands for at least three bits,
  which is why `8 * sizeof(long) / 3 + 2` characters suffice (`NumeralBits`,
  `DigitsFit`).  `Placed` says how a field is made up: blanks, a sign, zeros,
  the number, blanks (`ZerosBetween`, `BlanksBehind`, `BlanksBefore`, one for
  each order that `string_print` has); what stands before the number reads as
  nothing, what stands behind it changes nothing, and between them the value
  grows digit by digit to the number (`PrefixRead`, `SuffixRead`,
  `NumeralRead`).  It needs that no two digits look the same and none looks like a
  sign (`TablesLegible`).
* *Both formatters.*  `PrintkAgrees` is about characters, strings, and decimal
  and hexadecimal numbers.  By induction over the directives the two texts have
  the same length, differ in letters at most, and leave the same arguments
  (`SameTurn`, `SameText`); for a hexadecimal number that is an induction over
  its digits (`NumeralPaired`), and the texts are equal exactly if it has no
  digit above nine (`PairedAlike`, `Letters`).  By induction over the characters
  their places are the same (`CellsAre`, `SameCursor`), as long as a text fits in
  a line, because then no row is counted past the last one a byte holds.

### The start of the kernel

`StartupProofs` proves, for every layout of the tables that satisfies
`LayoutAssumption`, all handlers and any number of free slots,
`NoEarlyInterrupt` (`InterruptsFindHandlers`), `GatesKeepOut` (`GatesGuarded`),
`TasksReady` (`TasksResumable`), `IpcMayBegin` (`HandsOver`) and `KernelTyped`
(`KernelTypeOK`).

Two lemmas connect the halves of `Segments`: what `init_segment_desc` and
`init_gate` have cut into fields is read back whole (`DescriptorRead`,
`GateRead`).  The invariant `StartInv` says by place what the kernel has done
already: `TablesInv` which entries of `gdt` and `idt` are those the routines
wrote, `CpuInv` which table the processor uses, `LinesInv` which lines may
interrupt and that a handler is there before they may, `ProcsInv` what the
processes filled so far look like.  None of the properties is inductive: that
an interrupt finds its gate is true before `lidt` because every line is masked
(`LinesInv`), and behind it because nothing writes the `idt` again
(`TablesInv`); that a task has its local table holds because the slots of the
`gdt` for them are apart from each other and from those the loader left.
TLC checked `StartInv` on the instance of `boot_kernel`.

`KernelTyped` (`KernelTypeOK`) says that what is written fits into the fields it
is written to.  The type of `gdt` is read off `StartInv`, which determines each
entry by what has been written so far (`GdtTyped`); `TypesInv` adds the types of
the other tables, and the part about the loader comes from the next section.

### The loader

The second half of `StartupProofs` goes back to the programs before the kernel,
for every geometry, floppy, memory map and kernel of the kind described above.

`EntryFound` is about the FAT: `get_fat_entry` returns entry `c`, although it is
packed to twelve bits with its neighbour (`TwelveBits`, `EntryInWord`), its two
bytes may be in two sectors (`FatSector`, `Joined`), and a sector is asked for by
cylinder, head and number (`SectorFound`).

`FilesArrive` (`FileLoaded`) and `FilesKeepApart` (`KeepsToItsSpace`) follow from
`LoadInvariance`, whose invariant `LoadInv` says where the reading stands.  While
the directory is searched, no entry before `wSector` and `di` has the name
(`Sought`), which takes the lemma that `NextItem` leads to the next entry whether
or not the first bytes of the names agree; while the file is read, there is a
position in its chain: `rd.cluster` is the cluster at it, `es:bx` is the place for
that part of the file (`Reading`), and the sectors before it are in memory
(`Loaded`).
`KeepsToItsSpace` is not inductive without it: a file ends within its space
because its size was compared with the space, its chain is just as long as its
size, and the code is at that place of the chain.  Carries from `bx` into `es`
are in the lemma `Advanced`.

`KernelArrives` (`KernelPlaced`) adds `CopyInv`: the segments of the first headers
are where they are linked, and copying the next one leaves them alone because it
is apart from them (`SegmentPlaced`).

`AllMemoryMapped` (`MemoryMapped`) is about the page tables.  `MapInv`
follows the loop of `calMemSize`: what has been looked at ends below the size
found so far.  The hypothesis `TopFree` is real: a range of memory that ends at
4 GB, or goes over it, has a sum that is cut to 32 bits, and the
loader would map too little.  On a PC the BIOS lies there.

### Model-checked only

* Liveness: `RequestsAnswered`, `HeldLookedAt`, `KernelRuns` and `PrintingEnds`,
  since ENABLED is beyond the prover.

## Not modelled

* The non-maskable interrupt and exceptions raised by the kernel itself, other
  than the divide error of `low_print`: where they return to depends on every
  instruction of the kernel.
* The contents of the clock's answers, and the results of calls, which no
  process gets to see.
* `schedule`, `lock_schedule` and `disable_irq`: no caller.  (The result of
  `disable_irq` is computed by `and eax, 1`, which does not set it, contrary to
  its comment.)
* The place at which `proc_dump` and `map_dump` go on, colours, messages.
* System call stubs (they load registers) and `lib/ansi` (pure functions on
  bytes without state).

## Plan

1. *Rendezvous*: an abstract specification of message passing (who waits for
   whom, who has whose message) that `Ipc` implements.
2. *More of the drivers*: the answers of the clock (uptime, time, set time) with
   the wrap of `ticks`; cursor keys and the codes a keyboard inserts itself.
3. *Callers that look at results*: what `kernel.asm:343-354` makes of them.
4. *A second task that interrupts notify*, and the order in which they are.
5. *Proofs*: that the fields of the clock's answers, once modelled, are those of
   one moment; liveness, should the prover come to support ENABLED.
