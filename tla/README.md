# Verification of jivelite

jivelite is the controller user interface of Squeezebox systems: a Lua program
over a C core (SDL) that browses and controls players through a media server
(LMS). This directory holds TLA+ modules of its networking, its scheduling and
the C core, TLC configurations that check them on small instances, and TLAPS
proofs for every value of the constants.

## 1. The system

Almost everything runs in one thread. `Framework:eventLoop` goes round the lists
of tasks (coroutines), then runs the network task (`select`), and once per frame
lays out and draws, runs the timers and the UI events. A handler runs to
completion, but handlers call each other and, through `jnt:notify` or
`dispatchEvent`, their listeners in the middle of their own work; and between
two handlers anything else may happen. Beside that thread are the resolver's
(`jive_dns.c`), and other processes: a player that shares memory with the meters,
and the system that may be switched off while settings are written.

The hard behaviour is therefore re-entrancy, state read before and used after a
callback, timers against answers, retries, references counted by hand, marks
that say what must be laid out or drawn again, and arithmetic at its boundaries.

### Networking and scheduling (Lua)

| component | code | state | operations | talks to |
|---|---|---|---|---|
| Comet client | `net/Comet.lua` | connection state, client id, advice, pending and sent requests, subscriptions, callbacks, retry and idle timers | connect, disconnect, subscribe, unsubscribe, request, batches, handshake, reconnect, advice, timers, sinks | two SocketHttp, SlimServer (notifications), the media server |
| SlimServer, connection | `slim/SlimServer.lua` | netstate, isactive, user request queue | connect, disconnect, reconnect, userRequest, request | Comet, Player, SlimDiscovery |
| SlimServer, artwork | `slim/SlimServer.lua` | fetch queue, slot count, icons waiting, task | fetchArtwork, cancel, sinks, task | ArtworkCache, HttpPool, Task, icons |
| ArtworkCache | `slim/ArtworkCache.lua` | table, doubly linked list, byte total | set, get, free | SlimServer |
| SocketHttp | `net/SocketHttp.lua`, `SocketTcp`, `Socket` | send and receive machine, two queues, pumps, socket | fetch, close, pumps | DNS, NetworkThread, RequestHttp |
| RequestHttp, CometRequest | `net/*.lua` | headers, body, sink | sources and sinks of a request | SocketHttp |
| HttpPool, SocketHttpQueue | `net/*.lua` | shared queue, keep-alive timer | queue, t_dequeue, close | SocketHttp |
| DNS | `net/DNS.lua`, `jive_dns.c` | queue of waiting tasks; socket pair and thread, its last failure | toip, tohostname; read, resolve, write | Task, the system's resolver |
| Task lists, event loop | `ui/Task.lua`, `ui/Framework.lua` | one linked list per priority, task states | addTask, removeTask, resume, iterator, eventLoop | every task |
| NetworkThread | `net/NetworkThread.lua` | read and write sockets with task and time-out, subscribers | add, remove, select, time-out, notify | Task, sockets |
| Timer | `ui/Timer.lua` | sorted list of timers | start, stop, restart, run | everyone |
| Player, LocalPlayer | `slim/Player.lua`, `LocalPlayer.lua` | status, current player, rate limiter, sequence numbers | onStage, offStage, status, volume, commands | SlimServer |

### User interface and C core

| component | code | state | operations | talks to |
|---|---|---|---|---|
| Input | `jive_framework.c` | key and mouse state, mask, timers; SDL's queue | process_event, process_timers, once per frame | SDL, dispatch |
| Event dispatch | `jive_framework.c`, `Framework.lua`, `Widget.lua`, `Window.lua`, `Group.lua` | lists of listeners, focus, mouse focus | dispatchEvent, add and remove listeners | applets, widgets |
| Screen, layout, redrawing | `jive_framework.c`, `jive_widget.c`, `jive_window.c`, `jive_utils.c` | window stack, origins of the peers, bounds, dirty region, two buffers | updateScreen, checkLayout, reLayout, reSkin, reDraw, setBounds, show, hide | every widget |
| Images and tiles | `jive_surface.c` | pool of paths, tiles, list of loaded images | load, ref, free, draw | widgets, skins |
| Fonts | `jive_font.c` | list of fonts with counts, SDL_ttf | load, ref, free | widgets, skins |
| Styles and skins | `jive_style.c`, `Widget.lua` | skin, cache, path of every widget | style lookup, setStyle, conversion of values | widgets |
| Widget peers | `jive_label.c` and seven others | fonts and images held | _skin, prepare, __gc | fonts, images |
| Surfaces, drawing | `jive_surface.c`, `resize.c` | offset, clip, pixels | primitives, blits, tiles, resizing | SDL_gfx |
| Widget layout | `jive_group.c`, `jive_menu.c`, `jive_slider.c`, `jive_icon.c`, `jive_widget.c` | bounds | _layout, getPreferredBounds, mouseInside, draw | screen |
| Text | `jive_label.c`, `jive_textarea.c`, `jive_textinput.c`, `Textinput.lua` | lines, scroll offset, cursor, indent | prepare, wordwrap, animate, draw, keys | fonts |
| Event values | `jive_event.c` | a union | new, getters | dispatch |
| Visualizer | `visualizer/*.c` | mapping of the shared memory, ring buffer, set-up of the bars | check, lock, spectrum, vumeter | a player process |
| Files, log, heap | `system.c`, `log.c`, `jive_debug.c` | settings on disk, categories and levels, last inspection | atomicWrite, find_file, logger, setLevel, heap | the system |

Not modelled at all: SlimDiscovery, SlimBrowser, AppletManager, the Lua half of
menus, other applets, skins, platforms and vendored code (section 7).

What makes each correct, in a line:

- **Comet**: no request or subscription is lost or run twice across
  disconnections; it never stops trying on its own; its owner's view agrees.
- **SocketHttp**, **DNS**: answers come in order, each to the one who asked, at
  most once; nobody waits for ever.
- **Artwork**, **ArtworkCache**: slots are given back, no wake-up is lost, an icon
  shows what it was last asked to show; list, table and total agree.
- **Task lists**: they survive changes while they are gone through; no task starves.
- **Input**: a press is reported once, as press or hold; no key sticks.
- **Dispatch**: each listener hears of an event once, until it is consumed.
- **Screen**: what needs layout is found, what changed is drawn, in both buffers.
- **Images, fonts, peers**: nothing used is freed, nothing unused is kept.
- **Styles**: a widget looks as the skin says.
- **Layout, drawing, text**: inside their place, covering it once, all of the text.
- **Visualizer**: nothing unmapped is read or left locked; the last samples are shown.
- **Files**: settings are one version, whole, whatever happens.

`PROJECT.json` lists the components with their status, and under `hazards` each
place where one of them can go wrong in a way a test would hardly reach.

## 2. The modules

A source function that others call in the middle of their work is an operator
from one record to the next, and nested calls are nested applications; an
action is one handler that the event loop runs to completion, or one call of
another thread or process. Operators named `X_Y` beside an operator `X` are
mutations of it: the body a plausible mistake in the code would have. Nothing
refers to them. `PROJECT.json` names, under `map`, the lines behind each
definition. Words marked *history* in a module are not in the program: they
record what a property compares with.

### Networking and scheduling

- **CometClient** - the Comet object and the connection part of its SlimServer
  as a record; each function of `Comet.lua` (except `setEndpoint`) an operator:
  `ToUnconnected` and `ToConnected` are `_state` with the notifications it sends,
  `AddPendingRequests`/`SendPendingRequests` fill and send a batch, `Handshake`,
  `Reconnect`, `HandleAdvice`, `HandleTimer`, `Connected`, `RequestAnswered` the
  functions of those names. The lists of pending, sent and subscribed entries
  are sets: they are in the order of their `reqid`, which only grows.
- **Comet** - the actions: calls of the program, timers, answers, failures; and
  the media server as the environment (external): it hands out client ids,
  executes what it receives, remembers subscriptions per client id, may forget
  a client id. `SocketHttp` is here the FIFO `outbox`/`answers` that survives
  `close()` the way `SocketHttp:close` keeps its queue.
- **HttpChannel** - what SocketHttp promises: a FIFO of requests in which the
  oldest is answered, or a number of the oldest are cancelled.
- **SocketHttp** - the two machines of `SocketHttp.lua` with their queues, the
  pumps registered with the network thread, DNS lookups that cannot be
  withdrawn, and the server's end of the wire. `Close` restarts the send
  machine, which may fail and close again, as the code does. It is shown to
  implement HttpChannel.
- **Dns** - tasks that ask (`toip`, `tohostname`), the socket pair as two queues
  of strings, `dns_resolver_thread` with its errors, the repeated failure, the
  change of `resolv.conf`, and the DNS task that reads string by string and wakes
  the first task of its queue.
- **Artwork** - `fetchArtwork`, `cancelArtwork`, `cancelAllArtwork`,
  `processArtworkQueue`, `_getArtworkThumbSink`, `disconnect` and `free` of the
  SlimServer. `cache` is the mark or picture of each key in the cache of
  compressed pictures, `images` what imageCache has of it: a picture, or the `true`
  that an empty or undecodable one leaves there, which `fetchArtwork` takes for a
  request. `listed` is the set of keys that may have an entry to be evicted; an
  eviction clears whatever its key has by then, also the mark of a request.
- **ArtworkCache** - the cache in detail, link by link. An entry that its key
  has lost stays in the list, so entries are numbered in the order they were
  made. A key loses its entry to another picture or to `set(key, nil)`, which
  `cancelAllArtwork` calls for every key of its queue, loaded or not.
- **Scheduler** - `Task.lua` link by link (`head`, `next` and the state of each
  task) and the passes of the event loop. Whoever executes - the task, its
  error handler, or between two passes the network, timers and UI - may add and
  remove any task; that covers what `NetworkThread`, `DNS` and the artwork do.

### User interface

- **Input** - SDL's queue, `process_timers` and `process_event`. Key codes are
  sets of bits, as `key_mask` uses them; the clock wraps around. `StartFrame` looks
  at the timers, `TakeEvent` takes one event and dispatches what it makes of it,
  `EndFrame` finds the queue empty; keys, buttons, wheel and pushed events come
  between two frames. Listeners do nothing here: what they do is in Events.
- **Events** - `jiveL_dispatch_event` as a walk with an explicit position: the
  global listeners, the widgets of the top window in their order, the window's
  own, the unused ones. Each listener may consume, quit, raise, and add or remove
  listeners of the list that is being walked.
- **Screen** - the peers' three origins are kept as flags, TRUE for "equal to
  jive_origin"; `ReLayout`, `CheckLayout`, `SetBounds` are the functions of those
  names. `UpdateScreen` is a whole frame: skins, layout in up to four rounds,
  drawing, flip. The stack of windows changes as `Window.lua` changes it, with its
  transitions. A window that is not transparent may cover less than the screen:
  context menus do, and draw over a picture of what was below them when they came
  (`_bg`, `Snapped`) and not over the background. `show()` of any window dismisses the
  context menus on top (`Dismissed`); `Brief` windows are transient, `Bare` ones have no
  global widgets. Coordinates are one axis. The walk up the parents in `relayout` is a
  set (`Line`, `RootBelow`), as the order of its marks is of no consequence; the walk
  down in `checkLayout`, where it is, is a recursive function of the depth, in which
  `Each` goes through the children as `iterate` does.
- **Region**, **Repaint** - the rectangles of `jive_utils.c`; and what the dirty
  region promises, with one or two buffers. Screen implements Repaint.
- **ImagePool**, **FontList**, **Peers** - images, tiles and fonts with their
  counts, and for each of the eight kinds of peer which fields it takes and
  releases in `_skin`, `prepare` and `__gc`, in the order of the code.
- **Style** - the path of a widget, the search from the longest path, the cache
  with its marker for nil. **StyleValues** - what each `jive_style_*` getter makes
  of a value of the skin.
- **Surface** - the methods of the Lua class: offset, clip, primitives, blits,
  columns and rows of images, comparison, release, `initSDL`'s choice of a mode.
- **Layout** - `_layout` of groups and menus, slider and icon positions, alignment,
  nine-piece tiles, resizing, nested clips.
- **Measure** - what widgets ask for and tell of themselves: preferred bounds,
  mouse, lines drawn, letters of the wheel, what a group draws.
- **TextLayout** - UTF-8, the lines of a label and how it scrolls, the word wrap.
- **TextInput** - cursor keys and insertion of `Textinput.lua` with the indent that
  `jiveL_textinput_draw` keeps from one frame to the next. The text of an address
  has another length when the most recent input was of another kind (a mouse, keys),
  while the cursor stays (`SwitchInput`, `shrunk`); a resized window moves the cursor
  by 0. Parts of an address are small numbers: its limit of 255 is left out.
- **EventValue** - `Event:new`, the getters and `tostring` over the union, whose
  fields have the width and sign of the C types, with a `lua_Integer` of 32 bits or
  of 64 (`Wide`). Memory that was not written may hold anything.
- **Spectrum** - the set-up of bars and subbands, the logarithmic scale, the ring
  buffer read backwards, the VU meter. Energy is an integer, the transform is
  left out.
- **Visualizer** - `vis_check`, `vis_get_playing`, lock and unlock call by call,
  against a player process that starts, writes, stops and dies.
- **Held** - the three parts that hold what must be given back, FontList, Peers and
  Visualizer, as one specification with the property they share (`HeldIsThere`),
  and an instance of Style for the same widgets.
- **Files** - `system_atomic_write` call by call over names and data in memory and
  on disk, in each of its builds: with and without fsync, with the workaround that
  calls `sync`, and for Windows, which removes the old file before it renames the
  new one; **Log** - `log.c` as a fold over calls, and `jive_find_file`;
  **Heap** - the inspection of `jive_debug.c`.

### Model checking

`MC*.tla` give TLC its instances; Comet needs no more than its cfg files.
**HttpLookups** (SocketHttp and Dns) and **ServerArtwork** (Artwork and
ArtworkCache) put together two parts of one component, and Held has three and
Style: the runs and the proofs are about the same modules. **MCScheduler** has the
task lists and, for `QueueDrains`, the artwork, whose states with two icons and
their liveness would be too many for one run. Parts
that share nothing are checked in one run: a variable (`moves`, or `input.kind`)
that never changes says which part moves, so that the states of the parts add up
and do not multiply. Pure algorithms are checked by a first step that picks every
small input, and an invariant that compares the algorithm's result with a
definition of what it is for.

`*Proofs.tla` hold the proofs (section 6).

## 3. The runs

| run | what it asks | instance |
|---|---|---|
| comet_safety | netstate agrees with the Comet object; nothing is held back or forgotten while connected; what is sent is executed and called back as often as asked for; it stops trying only when told to | 1 subscription, 2 request ids, 4 client ids, batches one deep, 3 disturbances |
| comet_live | a connecting server gets connected or is told to stay away; what was sent is acknowledged or the connection goes | as above, 2 disturbances, no batches |
| comet_lost_subscription | *violated*: a subscription may be lost for ever | 3 client ids, 2 disturbances |
| socket_http | SocketHttp implements HttpChannel; every request ends unless a machine is wedged. Answers of the resolver reach who asked; everyone is answered unless an error is unknown | 4 requests, 2 lookups at a time, 3 faults; or 2 tasks, 2 hosts, 2 requests each |
| dns_wakes | *violated*: a task is woken up with the answer to another's question | as above |
| artwork | slots, wake-ups, marks and icons agree. The cache's list, table and total agree; the least recently used goes first | 2 icons, 2 keys (one remote), 2 slots, queue of 2, 3 faults; or 4 keys, sizes 1, 2 and 4, limit 3, 4 entries |
| scheduler | lists intact; a pass strays only behind a task that took itself off; no task of the best priority starves; the queue of artwork drains | 3 high tasks and 1 low, frames of 3 turns; or 1 icon, 2 keys, 2 slots, queue of 2, 3 faults |
| input | states, mask and timers agree; one report, no hold too early; no key sticks; the end and a hold do not wait for ever | 4 keymap entries, 5 presses, 2 buttons, wheel, queue of 3, clock modulo 5, 3 inputs |
| screen | Screen implements Repaint; the screen heals; what needs layout is found; layouts settle in four rounds | 2 windows, a context menu of one cell, a transient popup, a menu with an item, a global icon, 3 cells, 4 changes |
| resources | images, fonts, peers and shared memory: held is there; drawn from memory; looks as styled; settings survive | 4 files (1 broken), 2 tiles, pool of 4, 2 loaded; 3 fonts (1 missing); 2 widgets of every kind; 3 widgets, 2 styles, 3 skins; 2 blocks, 4 s; 3 writes in 4 builds |
| widgets | layouts fit; what is drawn is where it was asked for; all the text is shown; the text input is sound | every small input, see below; values up to 4 characters |
| values | values are read as given; meters show the last samples; what is asked for suffices; what is seen is acted on; listeners hear once, until consumed | every small input; 6 listeners, 3 events, 2 ticks, 1 change |

**Why the bounds are enough.** *Comet*: a hazard needs one entry that is old and
one that is new, hence two request ids and one name (names do not interact);
a client id is consumed by each handshake, so four let a connection be lost
and renewed three times, and each of the three disturbances (`Disturb`: either
connection failing, the server forgetting a client, a network change, a
refused handshake, the idle timer, the owner's `disconnect` or `reconnect`)
can hit a different phase. *SocketHttp*: four requests let one be received, one
awaited, one sent and one queued. *Dns*: with two tasks and two requests each, one
answer too few is noticed by the next. *Artwork*: the limit of four fetches is
two, so two lost slots starve it; two icons and keys let one change its mind
while the other shares the fetch; three faults are two failed fetches and a picture
that does not decode. That the queue drains needs one icon only, as it is keys that
are queued. *ArtworkCache*: entries of sizes 1, 2 and 4 under
a limit of 3 let one insertion free none, one, two or even itself. *Scheduler*: three
tasks of one priority are needed for a task to remove itself and its successor before a
third. *Input*: three keys whose codes overlap, one of them by its modifier, one
repeatable and one in no entry; three inputs make a chord that is taken apart
across two frames, and with a frame of two the clock wraps within the hold.
*Screen*: the smallest tree with a layout root inside a window, windows that do
not cover the screen, one transparent and one not, and a widget that moves between
windows; three cells
tell apart left, right and both; four changes are two windows shown and hidden
again or a move before, between and after. *ImagePool*: a pool as large as the
number of files and the icon, so that it is full or not; two tiles of two images
with two loaded evict each other's. *Style*: a grandparent exists, and each skin
knows other lengths of path. *Peers*: two widgets share fonts and images, in the
four pairs that cover the eight kinds. *Visualizer*: two blocks, so that the
mapped one is not the named one; four seconds with a limit of one let a block go
stale and a new one be looked for. *Files*: a third write meets what two
interrupted ones left. *Pure algorithms*: up to three children, six items, sizes
from nothing to more than there is, negative origins, every kind of alignment and
fill, texts up to five characters of one and two bytes and one and three wide:
for each of the code's branches some input takes it, and its neighbour takes the
other side. *Dispatch*: two listeners in the global list, so that one removes the
other while it is walked, and one in every other place.

`CHECK_DEADLOCK FALSE` is used where the program may rest: nothing forces a
caller to call, the bounds end every behaviour, and a pure function is finished
once it has its result. The scheduler never rests, and the calls of the artwork and
its cache never end: these runs are checked for deadlock.

**Fairness.** Weak fairness of the steps the event loop itself performs, and of
the answers: timers that are running fire, pumps that are ready run, a request
that was sent is answered (or, in Artwork, ends by the time-out of the network
thread), DNS lookups end, turns of tasks end. In Dns, the thread's steps and the
reading of its answers: a thread is scheduled, a resolver times out. In Input,
`Loop`: the "ui" task runs once per frame and drains the queue. Callers, keys,
failures and the server's whims have none. `TurnComes` takes every turn for one
unit of time and holds for the best priority in use, with as many turns in a
frame as there are such tasks: with fewer, the pass is cut at the same task every
time and the rest starves, and tasks of a lower priority starve when better ones
wake each other. `QueueDrains` supposes that requests for artwork stop at last:
the queue is a stack, and newer ones go first.

**Exceptions that properties name**, because the code has them:
`EveryRequestEnds` excepts a wedged machine, `QueueDrains` lost slots,
`MarksAgree` keys whose last fetch failed (`failed`) or brought an empty picture,
`EveryoneAnswered` an unknown error, `FreesLeastRecent` a cache whose tail was
read, or one in whose list is an entry that its key has lost (`orphaned`), with which
the key's new picture goes;
`HoldNotEarly` and `HoldReported` timers set just before the 32-bit clock wraps;
`NothingStuck` an event lost to a full queue; `Healed` (`exposed`) a window hidden
without a transition while the new top one does not cover the screen (`Window.lua:624`),
a transition that was cut, a video mode that changes under a context menu, and either a
mode or a background under another opaque window that does not fill the screen;
`LayoutSettles` the global widgets, which change parents without telling the new one
(`jive_window.c:387`); `LooksAsStyled` a grandparent's change of style; `HeldIsThere`
fonts that menus, textareas and textinputs forget and the background of icons;
`PoolAgrees` a full pool; `FileSurvives` a power failure in a build without
`HAVE_FSYNC`, which no Makefile of the repository sets, and in the build for Windows the
time between `remove` and `rename`, as the comment at `system.c:349` has it;
`CursorOnValue` and `DrawReadsValue` the address that became shorter under the cursor
(`shrunk`).

Every property of a passing run has a mutant (`PROJECT.json`): a mistake in the
model of a source function that the run then reports.

## 4. Disagreements with the code: runs

1. *A subscription is lost* (`Comet.lua:575`, run comet_lost_subscription).
   `_state(UNCONNECTED)` closes the request connection, whose queue survives;
   batches of the old client id are sent after the new handshake, and their
   acknowledgement removes the renewed subscription from `sent_reqs`. If that one
   is then lost it is not sent again, although `subscribe` promises to.
2. *A task is woken up with another's answer* (`jive_dns.c:248`, run dns_wakes). The
   switch over `h_errno` has no default: nothing is written for any other value,
   the task that asked stays at the head of `dnsQueue`, and from then on everyone
   gets the answer to the question before.

## 5. Seen while modelling

Each is in the model as the code has it, or excluded by name from a property,
or lies in what is left out; none has a run of its own.

*Networking.* The assertion of `_reconnect` is reached by a user request while
the idle time-out's disconnect is under way (`Comet.lua:487`, `:722`). A response
that ends with its connection closes the socket under the next request, whose
machine waits without a pump (`SocketHttp.lua:832`). A fetch of artwork that ends
without chunk and error never gives its slot back (`SlimServer.lua:928`), and a
failed picture is never asked for again (`:926`). A picture that is empty or does not
decode leaves `true` in imageCache (`:889`), which `fetchArtwork` takes for a request
(`:1096`): icons that ask later wait for nobody. An entry that is evicted clears what
its key has got since (`ArtworkCache.lua:113`): a newer picture, or the mark of a
request, which is then made twice. `lru` stays on an entry moved
away from the tail (`ArtworkCache.lua:158`), so that it may be freed first. The
iterator follows the stale link of a task that took itself and its successor off
the list, as `Socket:close` does, and resumes a removed task (`Task.lua:208`);
`Socket.lua` mostly survives it because the task finds its pump gone.
`SlimServer:reconnect` during an idle disconnect ends disconnected, as the
notification still carries `idleTimeoutTriggered`; `unsubscribe(sub, func)` of
the last callback never unsubscribes (`Comet.lua:426`); unsubscriptions sent again
carry the old client id (`:672`); requests do not restart the idle timer, whose
comment says "after the most recent request" (`:793`); `math.random(1000,
interval)` raises below 1000 (`:1040`); the keep-alive timer of `HttpPool` closes
only the first connection (`HttpPool.lua:199`); `connectPlayer` of SlimDiscovery
reads a global that is never set (`SlimDiscoveryApplet.lua:600`) and `and` binds
tighter than `or` at `:264`.

*Input and dispatch.* Timeouts are compared across the wrap of the 32-bit clock
(`jive_framework.c:33`); a queued KEY_UP comes after a later KEY_DOWN (`:1311`); the
right button and the wheel make a MOUSE_PRESS; events are dropped when SDL's queue
is full (`:770`); a listener that pushes an event for each it gets keeps the frame
from ending (`:430`); an error in a global listener swallows the event (`:805`);
a listener that removes itself makes the next one skipped (`:1012`,
`Widget.lua:655`); listeners of one priority are called in no fixed order though
`Framework.lua:638` speaks of a stable sort; mouse focus of groups is kept per class
(`Group.lua:86`); a QUIT of a child without CONSUME is lost (`Window.lua:1899`).

*Screen and styles.* `jive_rect_union` with an empty region extends to the origin;
an error in a draw leaves its region dirty, one in `_layout` is not tried again;
`checkLayout` gives up after four rounds; `setBackground` and `setVideoMode` mark
nothing and rely on the layout, so that under a context menu a new mode leaves the
rim as it was (a new background does not: the picture of what was below hides it);
hiding a popup redraws only the new top window. `show()` reads the top window before
it dismisses the context menus (`Window.lua:347`): the window below them is hidden
without being told, and stays `visible`. A failing function of a
skin counts as 0, or crashes the lookup of a font (`jive_style.c:250`, `:604`), and
so does a hole in an array of formats (`:773`). Image 0 is used although the
comment says it is not (`jive_surface.c:93`); a path may be loaded into two entries;
`setAlpha` acts on shared surfaces. Menus, textareas and textinputs forget a font
when they are skinned again (`jive_menu.c:63`, `jive_textarea.c:62`,
`jive_textinput.c:60`), and icons never free their background.

*Layout and text.* A group's fill may be negative (`jive_group.c:229`), FILL with a
border may equal the marker for nil (`:223`), and hidden widgets count in preferred
bounds (`:488`). Clips wrap at 16 bits; lines, circles and pies are bound otherwise
than documented; comparing empty pictures divides by 0. A label cuts characters of
several bytes where it splits (`jive_label.c:194`), and one that was emptied asks
for its old size (`:170`). A textarea writes one entry beyond its lines
(`jive_textarea.c:641`), may wrap for ever in too little width, and leaves its clip
pushed (`:390`). The wheel of a text input reads before the text
(`jive_textinput.c:384`), and its frame reads beyond an address that became shorter
under the cursor (`:164`, `Textinput.lua:1060`); resizing a window with the cursor at
a character that is not allowed never returns (`Textinput.lua:643`); a menu's preferred
height cuts a partial row; `Font:offset` returns the height. Getters of an event read
the union without its type (`jive_event.c:205`).

*Visualizer, files, log.* A player that stopped while it was paused is not found
again (`visualizer.c:73`); a meter waits for ever if the player dies with the write
lock (`:69`, `:84`); a buffer of size 0 loops for ever (`vumeter.c:35`,
`spectrum.c:398`), no samples divide by 0, a width below one bar loops
(`spectrum.c:178`), 1024 bars overflow (`:297`, `:365`), mono leaves the bars of the
other channel stale (`:544`), and a window longer than the buffer reads samples
twice. The sums of Spectrum have no width: where the code shifts in 32 bits
(`spectrum.c:501`) no property depends on it. With Windows, a kill between `remove` and
`rename` leaves no settings (`system.c:353`). The last path of a search without `;` is
ignored (`system.c:267`).

## 6. The proofs

All are for every value of the constants that the named assumptions allow (`ASSUME`
in the modules, evaluated by TLC): bounds are natural numbers, and a null value is none
of the values it stands beside.

- **CometProofs**: `TypeCorrect` and `NetStateCorrect` (`Spec => []NetStateAgrees`).
  `NetStateAgrees` relates only `state`, `netstate`, `isactive` and the idle flag,
  and is not inductive: the answer to a connect makes the object CONNECTED
  whatever it was. `Consistent` adds what rules that out: an object that awaits
  the answer to a handshake, connect or reconnect is CONNECTING, and one that is
  connected or awaits the answer to a connect has a client id. `Inv` is
  `Good(comet)` (typed and consistent) with the types of the server's tables. For
  each function of CometClient one lemma says that it takes an object to an
  object and one that it keeps it good; the nesting of the lemmas follows the
  nesting of the calls. `_state(UNCONNECTED)` is the exception: it is called by
  `connect` and `disconnect` when the object is *not* consistent, and
  `ToUnconnectedGood` says what it needs instead. Calls, events and answers are
  then proved one by one, and `Invariant` follows.
  `NothingIsLost` (`Spec => []NothingLost`) and `HandledOnceAlways`
  (`Spec => []HandledOnce`) rest on a second invariant, `Served`, because both speak
  of lists that a reconnection empties, refills and sends again. It adds that what
  was sent wants an answer (`Answerable`: or its acknowledgement would never come),
  that a pending request is in no other list and has not been executed
  (`PendingOnly`), and that a request without callback is in one batch
  (`InOneBundle`). Every function either drops requests (`Drops`, `Loses`, which
  compose along the calls) or sends what is pending (`SendPendingOrderly`), where a
  pending request becomes a sent one; no function looks at the whole invariant.
  `StopsCorrect` (`Spec => StopsOnlyWhenTold`): a step from an object that tries leads
  to one that does (`Trying`), to a server that is not connecting, or to the advice
  `none` (`Told`). It needs `Consistent` to be an equivalence: an object is
  CONNECTING only as long as it waits for an answer, so a timer that finds it
  CONNECTING may stop.
- **RepaintProofs**: `RedrawCovers`, `BuffersCorrect`, `ScreenUpToDate`
  (`Spec => []UpToDate`), for any width and pictures, one buffer or two. The visible
  buffer is right because the hidden one was: `HiddenBuffer` adds that it is
  stale at most in what the next frame draws, the region and the frame before's,
  through frames that fail.
- **ScreenProofs**: `ScreenRepaints` (`Spec => RefinesRepaint`), for any finite tree
  of widgets, any bounds, stack and number of calls; with it `ScreenHeals`
  (`Spec => []Healed`) and, from `ScreenUpToDate` of RepaintProofs,
  `ShownIsUpToDate`. `PlaceAssumption` says no more than that a parent has some place,
  on the screen, for each widget. The proof of the refinement rests on one relation
  between two stages of a layout, `Later`: no mark is lost, a widget moves only to where
  its parent may put it, and where a visible one was and is now is marked. It holds of
  `setBounds` (`SetBoundsLater`), and since it is reflexive and transitive, of `_layout`, of
  `checkLayout` at every depth (`CheckLayoutLater`), of a window's four rounds and of
  the windows under a popup (`CheckWindowsLater`), in whatever order widgets are
  visited. A recursive function of natural numbers is unfolded by `StepsExist` and
  `StepsSolve`; induction is over a set of numbers (`Induct`), from `WFMin` of the
  library. The picture then changes only where it is marked (`LayoutMarks`). The
  invariant adds that what is drawn was told that it is visible, or `reDraw` would
  not mark it (`WindowsInv`, kept when windows are taken out of the stack:
  `DeleteIs`, `OnTop`), and that a screen that is wrong, though no mark says so, has
  one of four things ahead (`Coming`): a transition, a new origin, the whole screen
  marked, or its first window; a new origin counts if the windows that are drawn fill
  the screen (`Filled`), because it then marks all of it (`LaidOutLater`). Where they
  do not, `exposed` records it. `show()` takes the context menus away first and so
  takes one stack to another in two steps (`DismissedIs`, `SameWindows`).
- **InputProofs**: `StatesCorrect` (`Spec => []StatesAgree`), for every keymap,
  whatever codes overlap, every clock and length of queue. The states agree not
  only between events but whenever one operator hands its record to the next
  (`Sound`), and every queued event keeps its type (`QueueFits`). The search of the
  keymap is the smallest matching entry, which exists because the order of the
  natural numbers is well-founded (`Smallest`).
  `ReportsCorrect` (`Spec => []ReportsAgree`): one report per chord and click, none
  early. `Timely` adds what was reported for each state a chord may be in and that
  the age of a timer that did not wrap is what the clock has moved since.
  `NeverStuck` (`Spec => []NothingStuck`): no bit stays in the mask. The invariant
  `Accounted` gives every bit an owner, a key that is held or has its KEYUP in the
  queue, and every queued KEYDOWN a KEYUP behind it. It rests on `KeymapOrder`:
  of the entries of one key that a KEYDOWN can find, one further down has no bit that
  one before it lacks. `keymap[]` (`jive_framework.c:84`) is so: RETURN with ALT, which
  is HOME, stands before RETURN, which is GO. A KEYUP takes the first entry of its
  key with a bit in the mask, whatever the modifiers, so in another order it could
  leave the other bits behind.
- **ArtworkProofs**: `ArtworkCorrect`, for any icons, keys and slots: no wake-up is
  lost, marks stand for requests or for fetches that failed, icons wait for what was
  requested or for a picture that was empty, no late picture replaces a newer one.
  Requests without a mark exist (an eviction took it) and are not excluded. It adds
  that an icon waits for nothing but what it was last asked for (`WaitsForAsked`).
  `SlotsCorrect`: every request under way holds a slot. The requests are counted as
  a set of pairs of artwork and number (`UnderWay`), finite because a request needs a
  slot, and one that starts or ends changes its cardinality by one. With both,
  `ArtworkAgreesAlways` (`Spec => []ArtworkAgrees`).
  *The cache from inside*: `CacheCorrect` (`C!Spec => []CacheIntact`) and
  `FreesOldestFirst` (`C!Spec => FreesLeastRecent`), for any keys, limit and sizes
  from one up. `Sound` is the inductive invariant: there is a list of entries that the
  links follow, from the least to the most recently used (`Chained`), that the total
  weighs and beside which are only pictures used since (`Apart`). Two more parts hold
  until the program loses them: every picture of the table is on the list (`Whole`)
  until the tail is read, and everything on the list is in the table (`Current`) until
  then, or until an entry loses its key (`orphaned`), to another picture or to
  `set(key, nil)`. That the total covers the table and that
  set() finds something to free while it is above the limit outlast both. The list of
  the invariant is the witness that each lemma names: a new head (`NewLinked`), a
  shorter list (`TailFreed`, and `LimitIsKept` for the loop), an entry moved to the
  front (`ListedGot`), or one that was not on the list any more (`LostGot`). Recursive
  functions over numbers (`KeepLimit`, `Along`, `SizeOf`) are reasoned about through
  `Recursion` and `Induct`, which rest on the least counterexample.
- **SchedulerProofs**: `ListCorrect` (`Spec => []ListIntact`), for every finite set of
  tasks (`TasksAssumption`). The model walks the links by a recursive function; what
  the walk finds is shown once (`WalkFinds`): an order of the tasks that the links
  follow is what the walk returns. The invariant says that such an order exists
  for each priority (`Ordered`), and each step names the new one: with the task
  in its place, or without it. `StaleCorrect` (`Spec => StaleOnlyBehindRemoved`)
  follows, because the links of an active task lead to an active task.
- **SocketHttpProofs**: `ChannelImplemented` (`Spec => RefinesChannel`), the refinement of
  HttpChannel step by step, for any requests, lookups and failures. The machines
  call each other in the middle of their work, so the lemmas say of each method what
  it does with the requests that wait: takes some from the front with an outcome
  each, or adds one behind. `Good` is the invariant: where the send machine rests
  nothing waits (`SendSide`), and while the receive machine has a pump the responses
  that the server owes are those it expects, in that order (`RecvSide`), so none
  goes to the wrong request (`SocketSound`).
  *Lookups*: `LookupsAnswered` (`AllSpec => []AnswersMatch`). Answers are matched by
  order alone, and each is several strings of which any number has been read, is in
  the socket or still to be written. `DnsInv` says that for some number of lookups
  read in full, the others and then the questions are what the waiting tasks asked,
  in their order (`Matched`), that the strings read are the beginning of the first of
  them (`Half`), and that what follows in the socket and the thread is the rest of it
  and then the others, each cut at its place (`Cuts`, `OnTheWay`). It holds until a
  lookup ends with an error the thread does not know (`silent`), where the code does
  lose its place (section 4).
- **HeldProofs**: `HeldCorrect` (`HeldSpec => []HeldIsThere`), from three invariants,
  one for each part. Fonts (`HeldFontsOpen`): the property is inductive once the types
  are known; the work is in the list that loses an entry in the middle
  (`RemoveAtFacts`). Peers (`HeldPeersCounted`): the fields that hold a resource are a
  finite set of pairs of widget and field; a step changes one peer, so the count
  moves by the number of that peer's own fields (`HoldingMoved`, `PeerStep`). Skinning
  splits what a peer held into freed, forgotten and kept, and what it holds into taken
  and kept; that the same fields are kept on both sides is what makes a tile that
  does not change right. `KindFacts` reads from the eight `_skin` and `__gc` functions
  who can forget what. Shared memory (`MetersLeaveNoLock`): it adds that the player's
  block has the name as long as the player runs (`PlayerNamed`).
  *Styles*: `StylesCorrect` (`S!Spec => []LooksAsStyled`), for a chain of widgets of
  any length (`ChainAssumption`: no widget twice) and any skins. A path is a recursive
  function of what is above a widget; `PathFromAbove` says that it depends on nothing
  else, so what a step changes is below the widgets that it does not skin again.
  *Settings*: `AtomicWrite` (`Spec => []FileSurvives`), for every build and any number
  of writes and interruptions: only the build for Windows can be left without a file,
  and only by a write that was not reported as done (`Named`). The invariant adds which
  file is which (`Apart`: the new file is not what a name stands for, in memory or on
  disk), how far the write is (`Progress`) and, with fsync, that every file a power
  failure may bring back is whole (`Durable`).

Only model-checked: liveness, which needs ENABLED; of Screen, that what needs layout is
found and that four rounds are enough (`DirtyIsFound`, `LayoutSettles`), which speak of
all that a layout leaves behind in a tree; everything that reaches a RECURSIVE operator
(TextLayout, Heap) or whose definition folds along a list or a text (Log, Events,
ImagePool), for which the provers have no induction; the arithmetic of Layout, Surface,
Measure and Spectrum, where bounded inputs say more than a restated formula.

## 7. Not modelled

- *Parts of modelled components*: `setEndpoint` of Comet (a new address), and a
  SlimServer whose address is not known yet (`lastSeen` 0, `SlimServer.lua:684`), whose
  `connect` does nothing; server
  lists, status and credentials of SlimServer; headers, redirects and framing of
  requests; the queue that the two connections of an HttpPool share, and its
  keep-alive; the sockets and subscribers of NetworkThread; the sorted list of
  Timer (timers fire at any moment instead, which allows more); the rate limiter
  and sequence numbers of Player.
- *SlimDiscovery*: its states depend on the server list and the current player.
- *SlimBrowser* (lists loaded in blocks), *Volume and Scanner*: they need the rate
  limiter, sequence numbers and real answers.
- *AppletManager*: loading on demand through services.
- *Menus and windows in Lua* beyond the stack and dispatch: selection, scrolling
  and sorting of items.
- *Platforms*, *skins*, *screen savers and other applets*: calls of the system,
  tables and presentation.
- *Pixels*: formats, alpha, rotation and anti-aliasing; the Fourier transform;
  the rounding of floats.
- *Vendored libraries* (`lib-src/`, `share/lua`, kiss_fft).
