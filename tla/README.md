# A TLA+ model of p9wl (Wayland compositor over RDP)

The program in `src/` is a headless Wayland compositor (wlroots 0.19) that shows its
screen to one RDP viewer (FreeRDP). This directory holds its specification: TLA+
modules translated from the C code, TLC configurations that check them on small
instances, and theorems that TLAPS proves for every value of the constants.

Run, in this directory:

    tlc -workers 2 -config HandoffSafety.cfg MCFrameHandoff     # any run of PROJECT.json
    tlapm FrameHandoffProofs.tla                                # any *Proofs module

`PROJECT.json` lists the components, the runs, the mutants ("slips", below), the source
lines each definition stands for, the hazards and the theorems.

## 1. The system

### Threads

| thread | runs | code |
|---|---|---|
| main | the Wayland event loop: client commits, output frames, input, shutdown | `main.c`, `wayland/*.c` |
| send | listens for the RDP peer, then takes frames, compares and streams tiles | `draw/send.c`, `draw/scroll.c` |
| drain | the peer's event loop: connection callbacks, the in-flight counter | `draw/send.c` |
| workers | `parallel_for`: scroll detection over the screen's regions | `draw/parallel.c` |

They share `struct server` (`types.h`): the pixel buffers and `pending_buf`,
`active_buf` under `send_lock`/`send_cond`; `running`, `scene_dirty`,
`force_full_frame` and the resize flags read and written with no lock at all; the
RDP state `rdp_ctx` (`pending` and `broken` are atomics, `done_cond` has its lock); the
input ring under its own lock with a pipe that wakes the event loop.

### Components

| component | state | operations | what makes it correct | hard because |
|---|---|---|---|---|
| Frame hand-over (`wayland/output.c`, `draw/send.c`) | `framebuf`, `send_buf[2]`, dirty maps, `pending_buf`, `active_buf`, `prev_framebuf`, flags | `output_frame`, `send_frame`, `send_thread_func`, `p9wl_peer_post_connect` | no buffer is shared, no frame slept over, the viewer ends up with the screen | unlocked flags, buffers that rotate, frames dropped or replaced, a viewer that joins late |
| RDP session and shutdown (`draw/send.c`, `wayland/toplevel.c`) | `rdp_ctx`, the drain thread, the in-flight counter, `running` | accept, `rdp_drain_*`, throttle, stop, `toplevel_destroy` | bounded flight, clean stop, the process exits | a channel that breaks, an accept that fails half-way, a join while the other thread waits |
| Input queue (`input/input.c`, `wayland/wl_input.c`) | the ring, its pipe | init, push, pop, `handle_input_events` | bounded FIFO, nothing slept over | two structures written in one order and read in the other |
| Worker pool (`draw/parallel.c`) | job, `next_idx`, `done_count` | `parallel_for`, `worker_func`, cleanup | each index once, no straggler | workers that sleep through a call and wake in the next |
| Focus and surfaces (`wayland/focus_manager.c`, `toplevel.c`, `popup.c`, `wl_input.c`) | the toplevel list, the popup stack, pointer and keyboard focus, deferred focus | map, unmap, destroy, clicks, motion, keys | keys go to the front window, a drag stays where it is | every client can map, unmap or die between any two user actions |
| Scroll detection (`draw/scroll.c`, `types.h`) | the regions, `prev_framebuf` | `detect_scroll`, `detect_region_scroll`, `apply_scroll_to_prevbuf` | regions are apart, pixels move exactly by the shift, what is shifted or poisoned is sent again | in-place copies whose order matters; it changes what the send thread believes the viewer shows |
| Phase correlation (`draw/phase_correlate.c`) | per-thread FFT resources, the planner's lock | `get_thread_resources`, the destructor, `find_correlation_peak` | one thread at a time in FFTW's planner | allocation that fails half-way, thread destructors |
| Tile compression (`draw/compress.c`) | per-thread match table with generations | `compress_tile_adaptive` and the three encoders | what is written decodes to the tile, inside the buffer | a table that is never cleared, a generation that wraps |
| Startup (`main.c`, `wayland/output.c`, `wayland/client.c`) | the process's resources | `main`, `init_wayland`, `new_output`, `server_cleanup` | a failed start stops the threads before it frees what they use; a viewer that came early is served | the send thread runs before there is a display |
| Toplevel listeners and sub-surfaces (`wayland/toplevel.c`), decorations (`wayland/client.c`) | listeners on objects of wlroots, `tl->subsurfaces` | `new_toplevel`, commits, requests, destroy handlers, `handle_new_decoration` | no listener outlives its object, what is asked is answered, what shows is tracked | four objects destroyed in any order the client likes |
| TLS client (`draw/tls.c`, not in the Makefile) | the context, a connection | `tls_connect`, `tls_verify_pinned`, `tls_write_full`, `tls_read_full` | only a verified server, nothing leaked, buffers whole | partial reads and writes, many ways out |
| Draw helpers, Xwayland, clipboard, key map | little | see section 8 | | |

How they interact: a client's commit marks `scene_dirty` and asks wlroots for a frame;
`output_frame` renders, collects the damage and calls `send_frame`, which swaps
`framebuf` with the free send buffer and signals `send_cond`; the send thread takes the
buffer, compares it (through scroll detection on the worker pool) with `prev_framebuf`,
and sends the changed tiles under `rdp_drain_throttle`; the drain thread serves the peer
and announces progress; its `post_connect` asks for a full frame. Input events
reach the focus manager through the input queue, which also carries the send thread's
wakeups; the last toplevel's destroy handler stops everything.

## 2. The plan

In the order of importance:

1. `Mailbox`, `FrameHandoff` (+ proofs): the hand-over and the abstract mailbox it implements. Done.
2. `RdpSession` (+ proofs), and `Startup` around it (+ proofs, a refinement). Done.
3. `BoundedFifo`, `InputQueue` (+ proofs). Done.
4. `ParallelFor` (+ proofs), and `ScrollDetection` over it and `TileGrid` (+ proofs, a refinement). Done.
5. `FocusManager` (+ proofs of all its properties). Done.
6. `TileCodec`, `Decoration`, `ToplevelLife`, `TlsClient` (+ proofs). Done.
7. `ShiftExact` and `GridSound` for every screen. Done.

Every safety property and every refinement that a passing run checks is a theorem; what is
left to TLC is liveness (section 6) and the properties the code violates (section 5). Open:
the theorems that carry a hypothesis on the environment (`NoRewind`,
`PrevIsWhatViewerShows`) say nothing about the tiles a scroll did not touch, which a finer
invariant could.

The compositions: `Startup` EXTENDS `RdpSession` and drives its actions; `ScrollDetection`
EXTENDS `ParallelFor` and `TileGrid`; `ToplevelLife` EXTENDS `Decoration`. The abstract
specifications: `Mailbox`, `BoundedFifo`, and `RdpSession` and `ParallelFor` themselves.

## 3. The modules and the code

### Mailbox and FrameHandoff

`FrameHandoff` models `output_frame`, `send_frame`, the streaming loop of
`send_thread_func`, `p9wl_peer_post_connect`, `detect_scroll` and
`apply_scroll_to_prevbuf` on whole tiles.

- **Data.** A tile's pixels are the number of the commit that drew them; 0 is `calloc`,
  -1 a tile the viewer never got, -2 the `0xDEADBEEF` poison of a scrolled strip.
  `Stores` are the three pixel allocations, `framebuf` and `send_buf` the pointers to them.
- **Atomicity.** One action is one critical section of `send_lock`, or one access to a
  flag read or written without it. The main thread's frame is `BeginFrame` (the skip test
  and `scene_dirty = 0`), `RenderFrame` (render, copy, commit, collect the damage),
  `DecideToSend` (the throttle against `pending_buf`/`active_buf`), and `SendFrame` or
  `DropFrame`. The send thread's frame is `TakeFrame`, `LatchBuffer` (`send_buf[current_buf]`
  read after the unlock), `StopOnBroken`, `CheckForce` and `ClearForce` (test and reset of
  `force_full_frame`, between which the drain thread may set it), `CompareTiles`,
  `ThrottleReturns`, then for each tile `StreamTile` or, when it cannot be composed
  (`rfx_compose_message` returns FALSE), `LoseTile`: the tile is not sent, but counts as
  sent in `prev_framebuf`; and `ReleaseFrame`.
- **Two kinds of frame event.** `frame_event` is one that main's loop has due: it asked for
  the frame itself, or a timer will come. `idle_frame` is one that the drain thread asked for
  (`ScheduleFrame`, the end of `post_connect`): `wlr_output_schedule_frame` only adds an idle
  source there, which does not wake a main thread asleep in `epoll_wait`. It becomes due when
  the loop turns for another reason (`LoopTurns`), or when something outside the model wakes
  it (`LoopWakes`: a client, a timer, the input pipe), which may never happen.
- **Environment.** Clients commit (`ClientCommit`, `ClientScroll`) or change the scene
  without the code's marking it (`QuietChange`: unmap, destroy, raise). `Events` switches
  on each optional event: the faults `build_state`, `data_ptr`, `compose`, `break`, and `quiet`,
  `shutdown`, `spurious` (a spurious wakeup of `pthread_cond_wait`).
- **Left out.** `Tiles` are at most the `max_tiles` (65536) that the list of work has room for
  (`send.c:539`); a larger screen than 4096 by 4096 pixels would lose the tiles beyond.
  Whether `detect_scroll` finds a scroll pays off is free.
- **Two readings of speed.** With `SlowFrames` a frame is rendered only while no buffer
  is in use. Without it frames come at any speed and may be dropped or replaced.

`Mailbox` is what the double buffer promises: a one-place slot that the writer may
replace, and a reader that keeps what it took undisturbed. `HandoffIsMailbox` is
`Mailbox!Spec` under the mapping *slot = the frame in `pending_buf`*, *reading = the frame
in `active_buf`*, where a frame is its pixels together with its dirty map.

### RdpSession and Startup

`RdpSession` is the rest of `send.c`'s threads and `toplevel_destroy`. A frame is only its
number of tiles. The model keeps what matters for ending: the listener and the steps of the
accept callback with the failure of each, the states of the drain thread (`test`, `event`,
`count`, `broadcast`), the counter `pending`, the throttle's test and wait under its mutex,
and the order of `rdp_drain_stop`. `FrameHandoff` assumes of this part only that the throttle
returns unless the channel broke (`ThrottleReturns`), which is `ThrottleEnds` here.

`Startup` is `main` around it. `stage` is the line main has reached and `made` the set of
resources that exist; `After` is the order of the setup, `MayFail` the steps that end in
`goto cleanup`, `Optional` those main goes on without. The send thread exists from the stage
`thread` on, so that a viewer may connect while there is no display yet (`PostConnect`,
`ScheduleFrame` with its test of `s->output`, which queues `frame_idle` as above), and `new_output` may come before or after.
The clean-up is `DestroyDisplay`, `ServerCleanup` (which stops the send thread as the last
toplevel's handler does), `JoinSendThread` and `Release`.

### BoundedFifo and InputQueue

`InputQueue` has the ring with its `head` and `tail` (one place stays free), the
pipe as a number of bytes, and the event loop's handler as *read the pipe empty, then pop
until the ring is empty*. Several producers push under the lock; a `write` that fails
(`WriteFails`, the code ignores the result) leaves the event in the ring `unheard` until a
later byte is written. `RingIsFifo` says that the ring implements `BoundedFifo` with
`QueueSize - 1` places, where a push that is dropped must be a `Refuse` of a full queue: the count
of refusals is part of the mapping, so that dropping an event while there is room is no stutter.

### ParallelFor, TileGrid and ScrollDetection

`ParallelFor` has `parallel_for`, `worker_func`, `ensure_initialized` and `parallel_cleanup`,
one critical section per action and `fn` as a step outside the lock.

`TileGrid` is the geometry of one axis: tiles, the tiles a damage rectangle marks, the cells
of `detect_scroll`'s grid, the intervals of `compute_scroll_rects`, the shifts
`find_correlation_peak` can report (of the shifts that share a cell of the circular
correlation, the first one visited).

`ScrollDetection` puts the two together. `DetectScroll` lays the grid and calls the pool;
`ParallelFor`'s `RunFn` is split into the steps of `detect_region_scroll` that other threads
can see: getting the thread's FFT resources with the failures of that, `fftw_plan_lock`, the
correlation. Then the send thread moves the pixels of each scrolled region, one `memmove` per
action (`MoveRow`), and poisons what the scroll uncovered. A pixel is named by the place it
had when the frame began, so that `ShiftExact` can say where each one must be. The list of regions is not cut off at
`MAX_SCROLL_REGIONS`, as it is not in the code; regions beyond the array are laid and moved
like the others. That they fit is `RegionsFit`, a property of its own, which the code violates.

### TileCodec

`compress_tile_adaptive` on a tile of `Rows` rows of `RowBytes` bytes: a solid tile, the
direct encoding, the alpha-delta encoding, and the choice between them. `ScanMatch`,
`ScanLiteral` and `RowToken` are one turn of the encoder's loop; `htab` and `current_gen` live
on from tile to tile. The reader of the format is not in `src/`; `DecodeByte` takes each token as the
encoder means it, byte by byte, so that a match may overlap what it produces.

### Decoration, ToplevelLife and TlsClient

`Decoration` is `decoration_data` with the commit listener that waits for the initial commit.
`ToplevelLife` adds the `struct toplevel` with its listeners on `xdg_toplevel`, `xdg_surface`
and `wl_surface`, which wlroots destroys in this order and any of which may go alone; a
surface may get a new role, and then a second struct, while the first one still listens.
Sub-surfaces become current with their parent's commit and are tracked from
`toplevel_commit`. `TlsClient` is a connection of `tls.c`, with OpenSSL taking or giving any
part of a buffer.

### FocusManager

All of it runs in the main thread, so one handler is one action on one record `s`, and
the operators on it are the C functions of the same name (`PointerSet` is
`focus_pointer_set`, `FallbackSurface` is `fallback_surface`, and so on). The order
of commits, unmaps, destructions and user input is free. Coordinates are left out: the
cursor is *over* a set of surfaces (`Areas`), of which the front one is found. A surface
whose `new_toplevel` or `new_popup` fails (no memory, no scene tree, no valid parent) gets no
struct and no configure and can never map: for this module nothing happened. `DismissAll`
destroys the popups that still have their role (section 5 on the others).

### MC modules

The MC modules give sequences, sets, tiles and symmetry that a cfg cannot state.
`MCParts` runs four parts that share no state with another module (`InputQueue`, `TileCodec`,
`ToplevelLife` with `Decoration`, `TlsClient`), one of them at a time, in one instance: a
behaviour chooses its part and stays with it. `RdpSession` and `Startup` are instantiated from
their cfgs.

## 4. The runs

| run | shows | bounds, and why they are enough |
|---|---|---|
| HandoffSafety | ownership, wakeups, `PrevIsViewer`, `ViewerNeverRewinds`, the mailbox | 2 tiles (one may change without the other), 1 commit beyond the first picture, 1 fault (a failed rendering or a tile that cannot be composed), any number of frames; break, shutdown, unmarked scene changes and spurious wakeups anywhere. 5.7 million states. Two buffers in use, a replaced and a dropped frame all occur with one commit, since the first picture, the forced full frame and the commit give three frames |
| HandoffLiveness | `PendingTaken`, `ForceConsumed` (but for a request that lies in the sleeping event loop), `ShutdownCompletes` | 1 tile, 1 commit, break and shutdown |
| HandoffSlow | `DirtyMapSound`, `PoisonIsRepaired`, `PrevCatchesUp` | 3 tiles in one region, shifts up and down, 2 commits, one unreadable buffer, `SlowFrames`. `DirtyMapSound` is about frames before the fault |
| HandoffFindLostFrame | finding 1 | 1 tile, 2 commits |
| HandoffFindScrolled | finding 2 | 2 tiles, 2 commits, no fault, `SlowFrames` |
| Session | seven properties of `Startup` and the session in it | frames of up to 3 tiles over the throttle of 2, every failing step of main (all of `MayFail`) and of the accept, a broken channel, the last toplevel gone at any time. A frame is larger than the throttle, so the counter passes it in every phase |
| SessionFindHang | finding 3 | the session alone, frames of up to 3 tiles, only the channel breaks |
| ScrollDetection | `ExactlyOnce`, `GridSound`, `ShiftExact`, `PlannerSerial`, `CallReturns` | tiles of 2 pixels, screens with two and with three regions (more regions than the 2 workers, so stragglers of one call meet the next), two detections, shifts along x, along y and along both, every allocation failing |
| ScrollFindOverflow | finding 4 | the same, with an array of two places and a screen of three cells |
| Focus | types, `KeysGoToFront`, `DragNeverSwitches`, `PressGoesUnderCursor` | 3 toplevels and 2 popups of which 3 exist at once (surfaces come and go for ever), one button |
| FocusFindHidden | finding 5 | the same with 4 at once |
| Parts | the input queue (`NoLostWakeup`, `RingIsFifo`, `AllTaken`), the tile encoder, a toplevel's listeners, the TLS client | a ring of 4, reads of 2 bytes, 7 pushes by two threads, any write failing: the ring wraps, fills and drops, one drain takes several reads, and the pipe holds 7 bytes and is never full (section 5). Tiles of 3 rows of 5 pixels, 3 of them one after the other over 3 generations and a hash with 3 values, so that entries collide and the generation wraps; 1 surface, 2 structs, 2 sub-surfaces; transfers of 4 bytes in any pieces |

`PrevCatchesUp` (the send thread's idea of the screen ends up right) and `PrevIsViewer` (the
viewer shows what the send thread believes) together say that a viewer catches up when
nothing scrolls, no frame is lost and every tile can be composed; findings 1 and 2 and a lost
tile are what is missing for the rest.

`CHECK_DEADLOCK FALSE` stands where the modelled system does stop: when the clients draw
nothing more, when the process has exited, when the bounds are used up.

### Slips

Just before an operation a module may define a *slip* of it: an operator no action
uses, such as `SignalLost` before `Signalled`. It is the operation as a plausible mistake
would have it (a dropped guard, a missing signal, a swapped order). Put in the operation's
place it makes a property fail, and each property of a passing run has one: this is the
evidence that the property can be broken by the code and is reached by the run's bounds.
`PROJECT.json` pairs each slip with its operation and its property under "mutants".

### Fairness

- `FrameHandoff`: weak fairness of `MainStep` (the event loop runs), of `SendStep` (the
  thread is scheduled; its waits end when their condition holds), of `ScheduleFrame` (the
  second half of `post_connect`, which only queues the frame) and of `ThrottleReturns` while the channel is whole. A
  thread of the operating system runs when it can, and that is all this says.
- `RdpSession`: weak fairness of the three threads, strong fairness of `DrainBroadcast`.
  That step needs a mutex the send thread locks for one test at a time, again and
  again; a mutex that lets a waiter in eventually gives strong and not weak fairness.
- `InputQueue` (`QueueFairness`, in the Parts run): weak fairness of the event loop and of a producer in the middle of a push.
- `Startup`: the same, and weak fairness of main (`MainStep`: its setup, its event loop and its
  clean-up go on) and of `ScheduleFrame` (a callback that was entered returns).
- `LoopWakes` of either module has no fairness: nothing in the code wakes the event loop for
  the frame the drain thread queued. `ForceConsumed` and `ViewerServed` therefore promise the
  viewer its frame only once the request has left the sleeping loop, and `PrevCatchesUp`
  needs none of it, since a commit schedules its frame on main itself.
- `ScrollDetection`: weak fairness of the workers and of the send thread. The plan lock is
  taken a bounded number of times, so a thread that waits for it needs no more.
- Clients, viewers, users and faults owe nothing. `FocusManager`, and the modules of `MCParts`
  but `InputQueue`, have no liveness.

## 5. Findings

Five disagreements between the code and what its comments say, each shown by a run.

1. **A dropped or replaced frame loses its damage** (`HandoffFindLostFrame`,
   `draw/send.c:318`). The damage is settled when `output_frame` commits; the frame that
   held it is dropped or replaced; the next frame's dirty map does not know its tiles,
   and the send thread does not compare tiles outside the map. The viewer keeps
   an old tile until something draws there again.
2. **A scrolled picture is never sent** (`HandoffFindScrolled`, `draw/send.c:513`).
   `apply_scroll_to_prevbuf` moves the pixels of `prev_framebuf`, as the viewer would if it
   were told to; but `write_scroll_commands` has no caller and no copy command leaves the
   process. The tiles that moved compare equal and are skipped, and the viewer keeps the
   unscrolled picture until something else draws there.
3. **The drain thread leaves without a broadcast** (`SessionFindHang`,
   `draw/send.c:78`): a send thread in `rdp_drain_throttle` sleeps for ever when the
   channel breaks, and the exit with it.
4. **More regions than places** (`ScrollFindOverflow`, `draw/scroll.c:210`): `scroll_regions`
   has 128 places, and `detect_scroll` takes one for every cell of 256 by 256 pixels without a
   test. Frame buffers of 8192 by 8192 are accepted; 4096 by 2304 already needs 144.
5. **`mapped` flags stay TRUE after an unmap** (`FocusFindHidden`,
   `wayland/toplevel.c:203`): the keyboard can be handed to a window nobody sees.

### Findings without a run

Seen while modelling; some are already in the models as behaviour, the others are in
code that is not modelled.

- `output.c:224` clears `scene_dirty` before `wlr_scene_output_build_state` can fail.
  The failed frame's damage then waits for the next commit.
- `output.c:204, 212`: rendering is skipped "when the scene hasn't changed", which is taken from
  `scene_dirty`; but a surface that is unmapped (`toplevel.c:203` and `popup.c:62` return before they
  set it), destroyed or raised changes the scene and sets it nowhere. The frame that wlroots
  schedules for the damage is skipped, and a closed popup stays on the viewer's screen until
  something commits. The models have such changes (`QuietChange`).
- `output.c:251-255` says that only damaged rows are copied; the copy at 291-297 takes
  every row. The models have the copy of all rows, which is the safe one.
- `output.c:301`: when the buffer's data cannot be read, the frame is sent from the old
  `framebuf` and its damage is committed all the same.
- `send.c:229`: `wlr_output_schedule_frame` is called from the drain thread. It changes
  wlroots' list of idle sources unlocked, and does not wake the event loop: on an idle screen
  the full frame of a new viewer may not come before something else happens. (The input pipe
  would wake the loop; nothing is pushed to it there.)
- `send.c:574-596`: a tile whose message cannot be composed is not sent, and copied into
  `prev_framebuf` all the same, so that it compares equal until it changes again. The result
  of `SurfaceBits` is ignored in the same way.
- `send.c:539`: the list of work ends at 65536 tiles, and the rest of a larger screen is left out
  of the frame although its damage is settled.
- `input.c:27, 41`: neither a failing `pipe` nor a failing `write` is seen by anyone. If every write fails
  no event is ever taken. The descriptors block, and the write is made under the ring's lock: a
  full pipe would stop main in its next pop. It takes as many unread bytes as the pipe has room
  for (65536 by default).
- Sub-surfaces of sub-surfaces and of popups are never tracked (`check_new_subsurfaces` looks
  at the toplevel's own only), so their commits do not mark the scene either.
- `send.c:285`: a failed accept frees the peer's context but leaves `rdp_ctx.instance`
  set. The listening loop ends as if a peer had been accepted. `LivePeerOnly` and
  `ProcessEnds` except this case (`instance = "freed"`).
- `wl_display_terminate` has no caller: after a broken channel the process lives on, with
  no viewer, until its last toplevel goes.
- `wl_input.c:212` rechecks the deferred focus before the release lowers the button
  count, so the recheck of a drag's last release never runs; the next motion does it.
- `wl_input.c:136`: a release over a surface that is gone or unmapped is not passed to the seat,
  whose button count `focus_pointer_set` takes for a drag (`focus_manager.c:116`): every later focus
  is deferred, and while the pointer has no surface later presses are dropped too. The focus
  model has this; `PressGoesUnderCursor` says where a press is deferred to meanwhile.
- `focus_manager.c:314` destroys the role of every popup in the stack, also of one whose
  `wlr_xdg_popup` wlroots has destroyed already (its parent unmapped): `pd->popup` then dangles.
- `popup.c` reads `popup->seat` in `new_popup`; wlroots 0.19 sets it only at the grab
  request, which comes later, so `has_grab` is FALSE for every popup. `Focus.cfg` still
  has a popup with a grab, to exercise Escape; `FocusFindHidden.cfg` has none.
- No producer of mouse or key events is compiled in (`rdp_handle_mouse` and
  `rdp_handle_keyboard` are never registered); only wakeups are pushed. The focus model
  takes the handlers as the code has them ready.
- `main.c:268` rounds `tiles_x` and `tiles_y` down: the last columns or rows of a screen whose
  size is no multiple of 16 are never compared nor sent (`parse_args` takes any size).
- `phase_correlate.c:199`: in a region wider than 256 pixels shifts that are 256 apart share a
  cell, and the first one visited is reported. The comparison that follows only makes it a
  scroll that is missed.
- A failed start can run into what was never made: `server_cleanup` finishes a keyboard that
  was not initialised (a failure before `wlr_keyboard_init`), and after a failed `calloc` locks
  a mutex that was not initialised and closes descriptor 0.
- When the start fails while a viewer is being accepted, the send thread returns without
  `rdp_drain_stop` (`send.c:399`); the drain thread's `post_connect` may then lock the destroyed
  `send_lock`. `ReleasedAfterJoin` excepts this drain thread, which nobody joins.
- `send.c:367-394`: when the listener cannot be opened, the send thread ends and the process
  stays without a viewer for ever.
- `client.c:42`: the answer to a decoration's first mode request is the only one; a client that
  never requests one gets none. `handle_new_kb_inhibitor` would add its listener a second time.
- `toplevel_request_minimize` and the initial commit activate a window that is not focused.
- `keymap.c` defines `keymap_lookup` with an integer result, `types.h:559` declares a pointer:
  `handle_key` would follow a key code. No producer of keys reaches it.
- `tls.c`: the loops of the full reads and writes spin on `WANT_READ`; `pinned_fp` is logged
  uninitialised when the digest fails.
- `compress.c`: the row copy encodes a length of at least 3, so a tile of 9 pixels' width
  would encode a negative one; callers only pass 16.

## 6. The proofs

TLAPS checks eight modules. They assume what the models assume by name
(`TilesAssumption`, `SizesAssumption`, `SizeAssumption`, `WorkersAssumption` and so on:
types of constants, a ring of at least two entries, one of which stays free, a finite set of
workers), and no fairness. `ScreensAssumption` asks for screens of at least two tiles in each direction,
of which `parse_args` makes sure (640 by 480, `main.c:86,89`).

- **FrameHandoffProofs.** `HandoffInv == TypeOK /\ BufferOwnership /\ NoLostWakeup` is
  inductive. Ownership needs the types, since a buffer index that is not -1 must be 0 or 1,
  and it needs `NoLostWakeup`, without which the send thread could follow `send_buf[-1]`.
  `HandoffInvariant`, `TypesHold`, `BuffersOwned`, `WakeupsKept` follow.
  `HandoffRefinesMailbox` proves the step simulation: `SendFrame` maps to Publish,
  `TakeFrame` to Take, `ReleaseFrame` to Release, and every other step to a stutter.
  The last is where ownership is needed: `RenderFrame` writes `framebuf`'s pixels, which are
  neither the slot's nor the reader's. Each of the other properties has an invariant of
  its own beside `HandoffInv`:
  - `PrevIsWhatViewerShows` proves `PrevIsViewer` when `Shifts = {}` (scroll detection off,
    which a fractional scale makes the code do). With scroll detection `prev_framebuf` really
    differs from the viewer (finding 2), and the tiles that a fault made the viewer miss are
    excepted by name (`lost`). `PoisonRepaired` is what remains: it needs
    no assumption, since a poisoned tile differs from every picture that is drawn
    and therefore stays on the list until it is sent.
  - `NoRewind` orders the pictures on their way, tile by tile: viewer, frame being sent, frame
    that waits, scene (`OrderInv`). It assumes that no client scrolls (a scroll moves old
    pixels to another tile, where they may rightly replace newer ones) and that the rendered picture
    can be read: after a `data_ptr` fault the code does send an old `framebuf`.
  - `DirtyMapsSound` keeps account of where each change is written down (`AccountInv`: the scene's
    damage, the staged bitmap, the frame's map or the list of tiles to send). It assumes
    `SlowFrames`; finding 1 is the counterexample without it.
- **SessionProofs**, of the session: `InFlightBounded` is not inductive: between the throttle and the
  last tile, what bounds the counter is that `pending + left` fits into
  `MaxPending + MaxTiles` (`CountingInv`). `LivePeerOnly` (`DrainToJoin`) needs that a joined
  drain thread is never started again (`DrainInv`) and what each step of the accept has left
  behind when it fails.
  Of the process around it: `StartupIsSession`: each step of main maps to a step of `RdpSession` or to a
  stutter, so that both hold in the whole process (`SessionKept`). `BuffersKept` proves
  `ReleasedAfterJoin`, of the send thread and of the drain thread, for every set of failing steps.
- **InputQueueProofs.** The types and `NoLostWakeup` are inductive together.
  `RingImplementsFifo` rests on two lemmas that give the value of the two modular
  expressions of the code (the next place, and the distance of `tail` from `head`), so that
  no other step mentions the modulus; sequences are then compared place by place. That a push is
  refused only when `QueueSize - 1` events are queued is a lemma of its own (`FullIsFull`).
- **ScrollDetectionProofs**, of the pool. The core is an account: finished indices plus busy workers are
  the indices handed out (`AllAccounted`), each busy worker has an index of its own
  (`OwnIndex`), and an index below `next_idx` that nobody runs has run once (`RanOnce`).
  `EachIndexOnce` and `NoFnAfterReturn` follow, for any finite set of workers.
  Of the detection: `ScrollIsPool` is the step simulation to `ParallelFor`: the FFT
  steps inside `fn` and the send thread's memmoves stutter. `RegionsOnce` is the pool's theorem
  carried over. `PlannerAlone` follows from who holds `fftw_plan_lock` at each place of `fn`.
  Then integer arithmetic for every tile size: `DamageIsMarked`, `CellsApart`
  (two cells of the grid share no pixel, none passes the last whole tile),
  `UncoveredIsExposed` (a pixel of a region that a scroll moves nothing to is poisoned), and on
  top of them two invariants of the running detection:
  - `GridIsSound` proves `GridSound`: the list of regions is what the grid lays, cell by cell, and
    a region's shift stays below its size, on every screen and with any number of regions
    (whether they fit the array is finding 4).
  - `ShiftsExactly` proves `ShiftExact` from `ScrollInv`. `PixelsInv` says what each pixel of
    `prev_framebuf` is while the regions are moved one after the other: in a finished
    region what `ShiftExact` says, in the present one the rows already moved have their new pixels
    and *the others still their old ones*, which is why the order of the rows (upwards or
    downwards with the sign of the shift) matters. `PhaseInv` says that no worker is inside `fn`
    meanwhile, for a worker could find a shift for a region being moved; this is
    the pool's invariant, got through the refinement.
- **FocusManagerProofs.** Everything the Focus run checks, for any number of surfaces and buttons. Its
  lemmas are about the lists (what a search finds, what linking and unlinking change) and
  about each C function in turn.
  - `FocusInv`: the lists link exactly the surfaces that live, each once (`Lists`); a surface with
    a role lies above surfaces with a role, one of them a toplevel (`Rooted`, without
    which the surface in front need not exist); `mapped` and the keyboard name only surfaces that have their
    struct (`MappedInv`); and `KeysInv`. `KeysGoToFront` is not inductive: it says nothing while
    a window is half destroyed, and the keyboard may then stay at that window, but nowhere else
    than there or at the front window. `ListsInStep`, `KeysInFront` follow.
  - `PressUnderCursor` follows the press through `handle_mouse`: recheck, click (which may dismiss
    every popup or raise the window), second look, pointer: there it lands, or there it is
    deferred to while the seat counts a button as held, be it only
    because of a dropped release (section 5). The lemma that does the work says on
    which fields the surface under the cursor depends (`SurfaceDepends`).
  - `DragStays` needs none of this. It rests on a relation each C function keeps between the state it is
    given and the one it leaves (`Holds`: the same buttons, and while one is held the pointer
    is where it was or nowhere), composed along each handler. Which surface a handler chooses
    is left open, so the result holds for any scene and any stacking.
- **PartsProofs**, of a toplevel: `TopInv` adds to the types in which order objects go (`Standing`), that
  a struct is linked to exactly what it must hear of (`LinksOf`), what waits for the
  initial commit and what was tracked at the last one. `NoListenerLeftBehind`, `ShownAreTracked` and
  `RequestsAnswered` follow for any number of structs and sub-surfaces. Of the TLS client: `TlsInv` names what is
  owned at each place of `tls_connect`, and relates the bytes gone to those counted; `OnlyVerified` and
  `BuffersWhole` follow for buffers of any length.
- **TileCodecProofs.** `CodecInv` has six parts: types, the account of the tile (`TokenInv`: what is
  decoded, the token under way and the literals held back make it up), where the encoder is
  and what it found there (`PlaceInv`), the table (`TableInv`: an entry of this generation is
  a position already passed), the room in the buffer (`RoomInv`) and the answer (`AnswerInv`).
  `DecodesToTile`, `StaysInBuffer` and `AnswersTile` follow for every tile, table and hash. The
  assumption on the buffer is that a solid tile fits, since it is written without a test.

- **NumberFacts** holds what several of them need of the natural numbers: a least element of a
  set below a bound, induction up to a bound in the form of a set (`UpTo`; the library's induction
  takes an operator as parameter, which the installed provers cannot do), division with remainder.

Model-checked only: all liveness (`PendingTaken`, `ForceConsumed`, `ShutdownCompletes`,
`PrevCatchesUp`, `ThrottleEnds`, `StopEnds`, `ViewerServed`, `ProcessEnds`, `AllTaken`,
`CallReturns`), since the prover does no fairness and no ENABLED here. The type invariants of
`FrameHandoff`, `InputQueue`, `RdpSession` and `ParallelFor` are proved and not part of
a run. The properties of section 5 are refuted and proved nowhere. No module with a theorem has a RECURSIVE operator.

## 7. What is taken from outside `src/`

- wlroots 0.19: a frame event comes when damage or `wlr_output_schedule_frame` asks for
  it; on a null-buffer commit `surface->mapped` is cleared before the commit handlers
  run; popups lose their role when their parent unmaps; the seat forgets a focused
  surface only when its `wl_surface` is destroyed, and counts pressed buttons. The
  initial commit, which only sends a configure, and wlroots' own popup grabs are left out.
- POSIX threads: mutexes, condition variables with spurious wakeups, a pipe.
- wlroots destroys a toplevel's decoration with it, the `xdg_toplevel` before its `xdg_surface`
  and that before the `wl_surface`, and asserts that no listener is left on any of them.
- The headless backend reports its output while `wlr_backend_start` runs.
- OpenSSL and FFTW: calls that succeed or fail; FFTW's planner is not thread-safe.
- FreeRDP: the callbacks of a peer come in order from `CheckFileDescriptor`, in the drain
  thread; the channel may break at any moment.
- Unlocked accesses to an `int` flag are atomic and seen in program order. In C they are
  data races; every interleaving of single reads and writes is a behaviour of the models,
  values from nowhere are not.

## 8. Not modelled

- Branches no execution reaches: nothing sets `window_changed` or `resize_pending`
  (`output.c:53-189`); `send_timer` is never armed; `rdp_drain_pause` and `rdp_drain_resume` have
  their only calls in the `window_changed` branch; `write_scroll_commands`, `init_draw`,
  `compress_tiles_parallel`, `scroll_init`, `scroll_cleanup`, `rdp_handle_*` and
  `handle_new_kb_inhibitor` have no caller or are never registered; `xwayland.c`'s handlers are
  shadowed by a static one in `main.c:114` that only logs. Modelled although nothing calls
  them: `parallel_cleanup` and the workers' destructors, since the pool's correctness depends on them as soon
  as somebody does; `tls.c`, which is not in the Makefile.
- Floating point: the FFT. Its answer is any shift the search can report, and the cost
  estimate's verdict on it is free; `TileCodec` is run on its own.
- The values of options, the text of logs and fingerprints, the RDP surface commands' bytes,
  configured sizes, coordinates of the pointer.
- Stubs and stateless code: `keymapmod` returns 0, the clipboard copies a buffer.
- Generated headers: `xdg-shell-protocol.h`.
- A second peer accepted within one `CheckFileDescriptor` call, and the failure of
  `pthread_create` in the pool.
