# Formal models of the Vampires plugin

The repository holds an analytics plugin for Nx Meta VMS that lets a person play
a game inside a video stream (`plugin/`), the client that person types into
(`ms_netcat/`), the SDK the plugin is built on (`src/nx/sdk/`, `nx_kit/`), and the
SDK's sample plugins (`samples/`). This directory models its core logic in TLA+,
checks the models with TLC and proves some of the properties with TLAPS.

File names below are relative to the root of the repository. `PROJECT.json` gives,
for each definition that models code, the lines it stands for.

## 1. The system

### Components

| Component | State | Operations | Interacts with |
|---|---|---|---|
| **Vampires**, the game (`plugin/.../vampires.cpp`) | `m_field` (a matrix of item pointers), and the coordinates kept again in each item | constructor/`initGame()`, `movePlayer(dir)`, `moveVampires()` | called by DeviceAgent, in one thread |
| **SocketReader** (`socket_reader.cpp`) | `m_socketFd`, `m_dataFdFuture`, `m_dataFd`, `m_buffer` | `startListening()`, `getChar()`, `clear()`, `closeSocket()` | a detached thread per `startListening()` that accepts one player; the OS; the players |
| **DeviceAgent** of the plugin (`device_agent.cpp`) | `m_socketReader`, `m_vampires`, `m_frameIndex`, the settings | `doSetNeededMetadataTypes()`, `pushCompressedVideoFrame()`, `pullMetadataPackets()`, `settingsReceived()` | called by the Server; calls SocketReader and Vampires |
| **Engine, Integration** of the plugin | none | factories, manifests | the Server |
| **ms_netcat** | a socket | connect, send every key, shut down | SocketReader, over TCP |
| **ConsumingDeviceAgent** (`src/nx/sdk/analytics/helpers`) | `m_mutex`, `m_handler`, `m_settings` | `setHandler()`, `doPushDataPacket()`, `doSetSettings()`, `pushMetadataPacket()`, `pushIntegrationDiagnosticEvent()`, `pushManifest()` | the Server's calls; the derived plugin; its threads; the Server's handler |
| **SDK Engine, Integration** helpers | `m_mutex`, `m_handler`, `m_settings` | as above, and actions | the Server |
| **Reference counting** (`ptr.h`, `i_ref_countable.h`, `ref_countable.h`) | a counter per object | `addRef()`, `releaseRef()`, assignment of `Ptr`, `queryInterface()` | every object that crosses the plugin's boundary |
| **MediaStreamStatistics** of the SDK | a window of frames and the total of their sizes | `onData()`, `reset()`, setters, rates | a thread with frames, others that ask |
| **Containers and helpers of the SDK** (metadata packets, `StringMap`, `SettingsResponse`, UUIDs, `LogUtils`) | values | getters, setters, conversions | everything |
| **nx_kit** | .ini values and their former strings; the redirected streams | reload, print, test, parse | everything |
| **stub: diagnostic_events** | atomic flags, a thread, a mutex and a condition variable; in the DeviceAgent and again in the Engine | settings, event loop, stop | ConsumingDeviceAgent, the Server |
| **stub: events** | the same, and an index into a list of events | settings, needed types, event loop, stop | ConsumingDeviceAgent, the Server |
| **stub: best_shots_and_titles, object_streamer, special_objects, object_detection, motion_metadata** | generators of tracks, counted by frame; a queue of frames; ids by area | frames, settings | ConsumingDeviceAgent |
| **stub: object_actions**, and the actions of special_objects | the object that crosses the picture | frames, `executeAction()` | the Engine helper; the Server, on behalf of a user |
| **stub: taxonomy_features** | as object_detection | manifests of the Engine and of the Device Agent; frames, settings | the Server's taxonomy |
| **stub: settings** | none; the dialog lives in the Server | rules and a builder of a dialog some of whose items are active | ConsumingDeviceAgent, the Engine helper |
| **stub: error_reporting** | the parameters of an .ini file, a frame counter | it fails as it is told to | all helpers of the SDK |
| **stub: http_requests** | a promise per request, the time of the last event | a frame that waits for an answer | the Server's utility provider |
| **settings dialogs** of all plugins | JSON models in `settings_model.h` and the like | read by name in the Device Agents | the Server keeps the values |
| **other stubs and the sample plugin** | little or none | frames, canned answers | ConsumingDeviceAgent |
| **analytics_plugin_ut** (`unit_tests/`) | what it holds of a plugin | a session with each Integration of a plugin library | the library, in place of the Server |
| **nx_kit unit-test framework** (`test.cpp`) | the list of tests, the failures, a temporary directory | a run of all tests | the disk, the exit status |
| **json11** | third party | | |

### What is hard in it

* *The game*: a position is stored twice, the loops over the field have no bounds
  check, distances are compared by an incremental formula, and the order of
  the vampires decides who takes a cell. A wrong state appears only after a long
  sequence of legal calls.
* *The control socket*: connections arrive, close and break between any two steps of
  a frame; the accepting thread is detached and outlives the reader that started it;
  socket numbers are reused; a failed restart of the socket ends the process.
* *Threads and the handler*: plugin threads push at any moment, while the Server
  pulls, replaces the handler, or destroys the agent. Condition variables are
  notified without their mutex in some places.
* *Ownership*: everything that crosses the boundary of the plugin is counted by hand-made
  references; an assignment may delete the owner of what it assigns; Device Agents
  keep plain pointers to Engines, and a library is unloaded under all of them.
* *Tracks*: ids are given to positions, areas, references or cycles, and renewed by
  counters that settings change in the middle; frames may go back, as in an archive.
* *Names typed twice*: a setting, a type, an attribute or an action is declared in a
  JSON text in one file and used by name in another; a dialog may replace itself.
* *nx_kit*: any thread may reload an .ini file which the user edits, while tests tweak
  the values; strings are written with escapes and read back.
* Nothing is persisted, so there is no recovery after a crash to consider.

### What makes each part correct

* Game: the field and the items agree; pushes enter free cells; the border is never
  moved; vampires take the nearest free cell; "lost" and "win" are true of the field.
* Socket: a reader has one source of keys at a time; keys are never attributed
  to another player; a player who disconnects makes room for the next; a connected
  player controls the game.
* Handler: it is not replaced while in use; a batch of packets is not interrupted.
* Event threads: a stop is never lost and nothing is used after the destruction;
  settings and lists of types take effect; the Server's view of prolonged events
  is consistent.
* References: the counter of an object is the number of its owners, and the object dies
  with the last of them; nothing of a plugin outlives its library.
* Tracks: an object is one track for as long as it should be, and no two objects
  share one; each track has its shot; each area with motion has its object.
* Dialogs, taxonomy, actions: what the user sees is what the plugin does; what is
  generated is declared; what is offered is answered.
* nx_kit: the fields have the values that Tweaks have set, and those of the file when
  reloads and Tweaks are over, as long as these keep out of each other's way; what is
  written is read; a run that reports success has run every test.

The full list of hazards, with the line where each bites and the property that would
show it, is in `PROJECT.json`.

## 2. The modules

```
VampiresField ── Vampires ── VampiresRefinement ── MCVampires
      └───────── VampiresGame ───┘ (INSTANCE)
                 VampiresRefinement ── VampiresProofs

SocketReader ── DeviceAgent ── DeviceAgentProofs

ConsumingDeviceAgent ── EventThread ── DiagnosticEvents
                             └──────── StubEvents ──┐
                        ActiveSettings, StubSettings ──── StubProofs

RefCounting ── MCRefCounting        StreamParser ── ObjectStreamer
   │  └── RefCountingProofs         EscapedStrings ── UuidStrings ── TextsProofs
Ownership (INSTANCE)

PartsProofs:   WallPlacement, HttpRequests, SpecialObjects, BestShots, ObjectStreamer,
               MotionMetadata, ObjectDetection, ErrorReporting, ObjectActions,
               DiagnosticEvents (with ConsumingDeviceAgent)
MCIniConfig: IniConfig with its parameters and files
HelpersProofs: IniConfig, TestRunner, StreamStatistics, PluginSession
InductionLemmas: least numbers and recursive functions, for all proofs that need them

MCParts: WallPlacement, BestShots, SpecialObjects, ObjectStreamer, ObjectDetection,
         MotionMetadata, Taxonomy, StubSettings, ActiveSettings, ObjectActions,
         ErrorReporting, HttpRequests, ConsumingDeviceAgent, PluginSession,
         StreamStatistics, MCIniConfig, UuidStrings, TestRunner
```

**VampiresField**: constants, cells, directions, distances, and the placement a game
starts from. `Cursor` is the loop that settles the vampires along the inner ring, as a
function of the number of its iterations.

**Vampires**: the class. `field` is `m_field`, `at` the coordinates inside the items.
The loops are one iteration a step: `BeginMovePlayer`, `ScanWall`, `PushWall`,
`FinishMovePlayer`, `MeetVampire`, `PlayerIsBlocked` are `movePlayer()`;
`BeginMoveVampires`, `CatchPlayer`, `SkipVampire`, `MoveVampire`, `EndMoveVampires` are
`moveVampires()`. `MoveItem` is `moveItem()`, the only writer of both. `std::sort` is
not stable, so vampires at equal distances move in any order. The random placement
of the walls is a choice.

**WallPlacement**: the end of `initGame()`, for which `Vampires` has that choice: the
loop that scales `rand()` to the spaces left and erases a space only when it is not the
last one.

**VampiresGame**: the rules, each call one step, with neither field nor loops: a row
of walls moves as a whole or not at all; each vampire makes at most one step, to the
nearest cell that was free all along; "lost" iff a vampire stood next to the
player; "win" iff all were shut in. **VampiresRefinement** shows that `Vampires`
implements it; its history variable `before` holds the positions at the start of the
running call.

**SocketReader**: the class, its detached threads, and the OS and the players as far
as they can be noticed. A thread knows the number of a socket (`threads[t].fd`),
not the reader; a closed number is reused. `getChar()` is one step, as it does not
block; its cases are `NobodyConnected`, `Receive`, `Reopen`, `ReceiveFails` and
`GetCharThrows` (an exception in a `noexcept` function: the process ends). A byte
carries, as a history, the connection it came from.

**DeviceAgent**: a frame is up to five steps, between which the network moves on:
`PollKey`, `ActOnKey`, `StartOver`, `MoveVampires`, `PullMetadataPackets`. What a move
does to the field is left to `Vampires`; here it may lose or end the game.
`SetNeededMetadataTypes` replaces the reader, or ends the process (`exit(42)`).

**ConsumingDeviceAgent**: the Server's calls do not overlap (the contract of
`i_device_agent.h`), so they are one actor, `server`; the plugin's threads push at any
time. `calling` says which handler each thread is inside. `Lock`, `CallHandler`,
`EndPush` are `pushMetadataPacket()` and `pushIntegrationDiagnosticEvent()`; the
other actions are `setHandler()` and the steps of `doPushDataPacket()`.

**EventThread**: the loop and the end of the thread that `diagnostic_events` (twice) and
`events` run. Each read of a flag is a step of its own. `TimeOut` is the end of
`wait_for()`'s period, or a spurious wake-up.

**DiagnosticEvents**, **StubEvents**: what each plugin generates and when, with the
Server's calls that control it. `DiagnosticEvents` starts with either value of
`generateEvents`, as the DeviceAgent and the Engine differ only in that and in the
period. In `StubEvents` the Server sets the handler before it sends settings,
since `pushManifest()` dereferences it unchecked.

**RefCounting**: `RefCountable`, `Ptr` and `queryInterface()` in several threads. The
counter is atomic and everything else is interleaved: an assignment releases, perhaps
deletes, and only then takes over. A `Ptr` is a local of one thread or the member of an
object. The clients keep the rules that the SDK's classes keep: a thread uses its own
locals and what they own. **Ownership** says what it is for, with neither counters nor
threads: an object lives exactly as long as something refers to it; `RefCounting`
implements it, where a reference is a pointer or one half of an assignment.

**BestShots**: both features (shots, titles) with their tracks and counters; a bounding
box is a number of steps. **SpecialObjects**: the queue that delays frames, the pull that
takes one of them, and the blinking object with its own timer. **StreamParser**,
**ObjectStreamer**: an item of the file is dropped by an error and only loses a value by a
warning; a frame is played when the next one comes; references to tracks get their ids
per creation of the agent or per cycle. **ObjectDetection**: tracks belong to positions
in a list of types and climb until a frame counter renews them. **MotionMetadata**: the
grid is cut into areas, scanned one a step, with ids made for their number.

**Taxonomy**: both manifests of `taxonomy_features` and that of `object_detection` with
their inheritance, omitted and conditional attributes, against the objects that the
code generates under every switch. `KnownMisfits` and `Misnamed` list what does not fit.

**StubSettings**: the dialogs of the plugins and the settings that are read from what
the Server sends: each item with its default and a few choices, each plugin with what it
answers. **ActiveSettings**: the rules of the stub plugin's active items in the Device
Agent and the Engine, the order in which they are applied, and the builder.

**ObjectActions**: objects are sent, an action of the manifest is called on one of
them, perhaps after a newer one has taken its place, and answered with facts: a
message or an address. **ErrorReporting**: each call of the Server at which the plugin
may be told to fail, and the frames.

**HttpRequests**: a frame that sends a request waits on a promise in the handler of that
request, while a thread of the Server executes the handler; both count references
to it, and the text of the answer changes hands. What the code itself does with these two
references is here; that the Server takes one when it is given the handler, and keeps it until
`execute()` has returned, is assumed. A request that is never answered
holds the frame, and with it the Server's calls of the agent, for ever: nothing
in the code limits the wait.

**StreamStatistics**: `MediaStreamStatistics`, where frames come in any order into a sliding
window, and its setters, which do not take the mutex, may come between any two of
the reads of `onData()`.

**PluginSession**: `analytics_plugin_ut` as the Server: the references it holds and those
the plugin's objects hold, through every call; each assertion may fail, and then
destructors release what is held, in their order. Assertions that repeat a question already
asked (`queryInterface()` of an object just obtained, `analytics_plugin_ut.cpp:396`, `:411`, `:412`)
and those inside the test's handlers have no step: in those the test holds what it
holds at the step before, or stays in a call.

**IniConfig**: `reload()` in its steps (the check of the flag and of the file before the
mutex, the reading under it, each field first its default and then its value), the user's
edits, and Tweaks of several threads: the constructor, the two halves of `set()` (the
guard keeps the old value, the field gets the new one), one guard after another, first in,
first out, and the flag at the end. Nothing waits for anything but the mutexes of the code, so
reloads and Tweaks do spoil one another's fields. `altered` and `spoiled` are
history: who has altered a field and what he found there, in turn, and which fields have
lost a value out of turn (`Overwrite`, `Alter`, `PutBack`). **MCIniConfig**: two parameters and
two texts of the file for TLC. **EscapedStrings**:
`toString()`, `decodeEscapedString()` and `parseNameValue()` as functions, over all
short texts. **UuidStrings**: UUIDs as strings, in each format, and read again, one character
damaged. **TestRunner**: programs with tests run one after another on one disk, with
any command line, and any outcome of each test.

**MCParts**: these small components share no state, so one run of TLC covers them: the
part is chosen in `Init`, and the others stand still. Its state space is the sum of
theirs, and not the product.

Operators named after a definition with a suffix or another name, introduced by the
word "mutant" in the comment, are the same definition with a plausible mistake. They
are used in no model; each is there to show that some property would notice it.

## 3. The runs

| Run | Question | Properties |
|---|---|---|
| `vampires_walls` | Do rows of walls move without tearing the field from the items, and is "win" true? | `FieldConsistent`, `PushesIntoEmptyCell`, `HonestResult` |
| `vampires_pair` | Do the loops implement the rules when two vampires get in each other's way? | `TypeOK`, `BorderIntact`, `StepsToNearestCell`, `ImplementsGame` |
| `vampires_order` | Does the closest vampire move first? *No.* | `ClosestMovesFirst` |
| `device_agent` | Are keys attributed correctly while players come and go and the reader is reopened and replaced, and is the next player served? | `OneSource`, `NoKeyOutlivesItsConnection`, `ServedUntilGone`, `NextPlayerIsServed` |
| `device_agent_abort` | Can a player whose connection broke come back? *No.* | `PlayerCanReconnect` |
| `device_agent_replaced` | Does an accepted connection control the game? *Not after a replacement.* | `ConnectedPlayerControls` |
| `diagnostic_events` | Does the thread stop promptly and safely, and heed its setting? | `NoUseAfterDestruction`, `StopIsPrompt`, `SettingTakesEffect` |
| `stub_events` | Is the Server's view of prolonged events consistent across stops and starts? | `KeysAreConsistent`, `NeededEventsCome` |
| `stub_events_empty` | Does an empty list of types stop the events? *No.* | `EmptyListStops` |
| `ref_counting` | Is an object deleted with its last reference, once, and never used again? | `CounterIsOwners`, `NoUseAfterDelete`, `ImplementsOwnership`, `UnownedIsDeleted` |
| `parts` | One question to each small component, below | |
| `tweaks_last` | Does a tweaked field keep its value while the Tweaks lives? *Not if a reload had begun.* | `TweaksLast` |

The properties of `parts`, besides `TypeOK`, the conjunction of the parts' types:

| Property | What it says |
|---|---|
| `WallsApart` | no two walls in one space, whatever `rand()` returns |
| `OneShotPerTrack` | each track gets its best shot, and its title, once, on its frame, even if settings or the edge of the picture take it away before |
| `QueueFollowsFrames` | the queue of delayed frames is no longer than the delay allows, and packets come in the order of frames |
| `OneTrackPerCycle` | objects of one reference are one track in a pass over the stream, and another in the next |
| `TracksOnlyClimb` | between two changes of the settings a track has one type and never jumps down; at a change the history begins anew, so which types keep their ids when the list changes is modelled and not asserted |
| `MotionIsShown` | exactly the areas with motion have objects, of different tracks |
| `GeneratedFits` | objects have only the attributes that their types declare, but for the known misfits |
| `DialogIsSound` | active dialogs hold together, whatever sequence of changes led to them |
| `DialogIsObeyed` | plugins do what their dialogs show, whatever dialogs came between |
| `ActionsAreAnswered` | every action offered answers once, about the chosen object; null parameters are an error |
| `ErrorsAreAsAsked` | settings and frames fail where the .ini file says, and nowhere else |
| `HandlerOutlivesCall`, `BatchIsContiguous` | the handler is safe between the Server and two plugin threads |
| `NothingOutlivesItsOwner` | whatever fails in a session, nothing of the plugin outlives its library, its Engine or its Integration |
| `ReloadsAndTweaksAgree` | reloading is off exactly while there are Tweaks; the last reload leaves in the map what the file says; a field is what the last of its Tweaks has set, or what the map says, unless it is `spoiled` |
| `TextsAreReadBack` | what is written with escapes is read back, and the decoder stays inside its text; UUIDs are read back, and never as another one |
| `RequestsAreAnswered` | each request has one event, of its own answer, and nothing of it is left or used after its end |
| `StatisticsAreRight` | the total is that of the frames kept, the window that of the last frames, and the rates of a regular stream exact |
| `RunIsSound` | success means that every test has run and passed; no two tests share a directory |

### Disagreements between the code and what is said of it

* `vampires.cpp:296` announces "the closest first"; the comparator puts the farthest
  first (`vampires_order`).
* A connection that is reset, rather than closed, is polled at every frame for ever,
  and nobody can connect again (`device_agent_abort`).
* `doSetNeededMetadataTypes()`, called again, drops the reader but not the accepted
  connection: the player stays connected to nobody (`device_agent_replaced`).
* An empty list of needed types should stop `events`; after `stopFetchingMetadata()`
  a `return` is missing and generation starts (`stub_events_empty`). It even
  starts if it had not been running.
* "Re-reading the values is disabled while at least one Tweaks instance exists", and a
  value "will be altered up to the end of this scope" (`ini_config.h:183`, `:190`); but a
  reload asks for the flag once, at its beginning (`ini_config.cpp:435`), nobody waits for
  it, and it overwrites what the Tweaks has set (`tweaks_last`).

Smaller things that no run is devoted to, met while the models were written; the
models have them as the code has them, or exclude them where it is said:

* *taxonomy_features*: two entries of "supportedTypes" are keyed "id" and not
  "objectTypeId" (`device_agent_manifest.h:42` and `:50`; `manifests.md:312`), and five
  kinds of attributes do not fit their declarations (`KnownMisfits`). `toBool()`
  transforms an empty range, so that "True" is not true.
* *special_objects*: with an overall delay, a blinking object that is not in a packet of
  its own is lost; blinking stops after frames have gone back.
* *object_streamer*: after new settings the last frame of the new stream is played first,
  with the old ids; the dialog lists the types of one stream with values of another.
* *Actions*: one for which the manifest declares no parameters is to get null for them
  (`i_action.h:46`); the Engine helper refuses null (`engine.cpp:148`), so that such an action
  never reaches the plugin. `ActionsAreAnswered` says so.
* *object_actions*: the box goes one step beyond the picture before a new track comes.
* *best_shots_and_titles*: a cleared path of an image keeps the old image; many objects
  give negative heights.
* *Settings*: the Engine of the stub plugin keeps no values, so that a hidden text field
  loses its text; some defaults of members differ from those of the dialogs until the
  first settings come; the base class never forgets a setting it has received once.
* *MediaStreamStatistics*: with a limit of frames, a stream that jumps back within the
  window loses its new frames, and not the old ones, until it has caught up.
* *UUIDs*: the letter r is skipped when one is read, and the carriage return is not
  (`uuid_helper.cpp:34`); a sign before a digit is taken.
* *http_requests*: after the frames have gone back nothing is requested until they have
  caught up.
* *.ini*: the guards of Tweaks run first in, first out (`ini_config.h:210`), so a field
  that one Tweaks has set twice is left with the first of the two values; Tweaks on one field that
  end in another order than they were made leave there what one of them had set. A reload
  that had not found the file, before the mutex, clears what another one has read meanwhile from the
  file made since (`ini_config.cpp:438`). Readers see defaults in the middle of a reload.
* *Test framework*: with no test to run it prints "All 0 FAILED" and succeeds; with 256
  failures the exit status is 0 (excluded by `TestAssumption`).
* *Vampires*: `2 * rand() * (spacesLeft - 1)` overflows where RAND_MAX is INT_MAX
  (excluded by `SpaceAssumption`).

### Bounds, and why they are enough

* *Field*: 6x6, that is 4x4 cells inside the border, 3 of them open to walls at first. It is
  smaller than the constructor asserts (7), and sufficient for every case of the
  loops: walls leave the middle and reach the ring, rows of two walls are pushed, a
  vampire can be shut in a corner by three walls (`vampires_walls`; with
  symmetry over walls, which the code tells apart by pointer only), and two
  vampires compete for cells at equal and different distances (`vampires_pair`). The
  theorems hold for every size. A win does not occur in `vampires_pair`, where one
  wall cannot shut in two vampires: that part of the refinement is checked by
  `HonestResult` in `vampires_walls` and proved as `Honesty`.
* *Sockets*: two connections, so that one player can wait while another is served;
  two readers, so that there is one replacement; two socket numbers, so that
  they are reused; two keys, one of which the game ignores; two bytes in flight, so
  that repetitions are dropped. `FramePeriod` is the modulus of `m_frameIndex`, a
  multiple of `speed`: only the remainder matters. In the runs for liveness each
  bound is as small as the property allows.
* *References*: two threads, one with two locals and one with one; two objects with a
  member each, enough for an owner, what it owns, a cycle broken by hand, and a race
  for the last reference. The theorems hold for any number.
* *Walls*: four spaces, up to three walls, nine values of `rand()`: every index is drawn
  at every number of spaces left.
* *Tracks*: a picture is crossed in two or three steps, less than the frames and settings
  explored, so that every track ends, is replaced and is cut off by settings. Two
  objects, or three types, so that positions shift. Times 0 to 3 in any order, with
  delays and periods of 0 and 2. Two streams besides the default one, with every kind of
  item. Two grids and areas of one or two cells, so that areas are cut by the edge,
  exceed the grid, and keep their number but not their shape. Track ids are bounded
  (`MaxTracks`, `MaxStreamIds`, `MaxDetected`, `MaxAreaIds`, `MaxActionTracks`) at more than
  two rounds.
* *Dialogs*: two to four choices per item, one item touched besides those that change the
  dialog (`MaxChoices`): items are read one by one. In the active dialog all sequences of
  changes, with limits of 0, 2 and 3 instead of 0, 42 and 100. *Taxonomy*: each switch
  alone, and all together. *Errors*: one flag and one parameter at a time, every third
  frame of four instead of every hundredth.
* *Requests*: two, so that a frame may send the next one while a thread is still in the
  handler of the last; times that go back, two periods. *Statistics*: up to three frames in
  a window of none, one or two, with and without a limit of two.
* *.ini*: two reloading threads and two tweaking ones, a parameter that is a string and one
  that is not, two texts of the file. Two guards (`MaxGuards`), so that Tweaks overlap on one
  field (`TweakedParams`), or one sets it twice, while reloads go on (part `tweaks`); while the
  user edits the file, one guard (`MaxGuardsAmongEdits`, part `ini`). Any number of both is left
  to the proof. A Tweaks sets the value that is the Tweaks itself, twice the same: whose value is in a
  field is what the properties tell apart. *Strings*: up to four characters out of eleven,
  one of each class that the code tells apart; four are enough for an escape with its
  digits. *Tests*: two programs of two tests on a disk with two free names, five command
  lines. *Session*: two Integrations.
* *Handlers*: two plugin threads and the Server's, three handlers, batches of up to
  three packets.
* *Event threads*: one thread, two handlers, packs of three events (as in the code),
  the whole list of eleven events (as in the code).

### Fairness

* `DeviceAgent`: the Server keeps sending frames while the process lives (WF of
  `Frame`), and each detached thread is scheduled (WF of `EnterAccept` and `Accept`,
  per thread). Nothing is assumed of players, of the network or of the Server's
  other calls.
* Event threads: the thread runs and eventually gets a mutex that is free again and
  again (SF of `LoopStep`). `std::mutex` itself does not promise that; it
  holds because the other holders, frames and settings, come at intervals that are
  long compared with the critical sections. A call the Server has begun
  goes on. `TimeOut` is not fair: `StopIsPrompt` must hold without the period.
  `SettingTakesEffect` and `NeededEventsCome` name the period as a premise (`WF` of
  `Tick`), because notifications may be lost there: `settingsReceived()` notifies
  without the mutex, and the loop reads the flags before it takes the mutex.

* `RefCounting`: a thread that is inside an operation goes on (WF of `GoOn`, per thread).
  Nothing is assumed of what the threads choose to do next.

Deadlock is not checked where the system ends: the process may end, or the agent is
destroyed.

## 4. The proofs

All are checked by TLAPS from the assumptions on the constants alone.

**VampiresProofs** (`SizeAssumption`, `ItemsAssumption`: there is room for the walls and
for the vampires, and items are distinct). The inductive invariant is

    IInv == FieldInv /\ RowInv /\ LoopInv /\ HonestResult

`FieldInv` (types, `FieldConsistent`, `BorderIntact`) is not inductive alone: that a
push moves the right item into a free cell depends on what the scan has seen.
`RowInv` says that the cells between the player and `emptyCell` are walls, and
that `emptyCell` is free once the pushing begins. `LoopInv` says that a vampire that was
skipped is still shut in while nobody has moved, which makes "win" true. The
proof has lemmas on the geometry (a cell ahead is identified by its number, the
incremental distance is exact), on the initial placement (the loop over integral and fractional
parts is a division without an accumulated error, `CursorDivides`, so that no two vampires get
one cell), on
`MoveItem`, and one lemma per action. The theorems are `Invariance`, `TypeCorrectness`,
`Consistency`, `BorderIsSafe`, `PushIsSafe`, `Honesty`, and `Pursuit`, an action property.

`LoopsImplementGame` is the refinement: from `HistoryInv`, which says what the positions
at the start of the running call have to do with those of now (which walls of the row
have moved already, which vampires have and that they took free cells), each step of the
loops is a step of `VampiresGame` or a stutter, and the last one of a call does to the
field what the rules say of the whole call.

**DeviceAgentProofs** (`ReaderAssumption`, `AgentAssumption`), for any numbers of
connections, sockets, readers and keys. The inductive invariant is

    IInv == AgentTypeOK /\ OneSource /\ InboxesApart /\ BufferIsOfPlayer

`InboxesApart` says that what waits in a connection was sent over that connection, and
`BufferIsOfPlayer` that keystrokes wait in the buffer only between `getChar()` and `clear()`,
and are of the connection that is being read. `BufferWith`, the loop that copies received bytes without
repetitions, is a recursive function. The theorems are `AgentIsTyped`,
`ReaderHasOneSource`, `KeysAreOfPlayer` and `PlayersTakeTurns`, an action property.

**PartsProofs**, its last two sections (`ThreadsAssumption`, `EventThreadAssumption`,
`PackAssumption`). About the base class: `HandlerIsSafe` and `BatchIsWhole`, for any number
of threads and handlers; who is calling the handler holds the mutex, and the Server holds it
from the first packet to the last. About the thread: `ThreadIsTyped` and
`DestructionIsSafe`; the invariant adds where the thread and the Server must be to hold
each mutex. Steps of the base class are covered by its own lemmas, cited by name.

**StubProofs**, its first part (the first two of these assumptions): `EventsAreTyped`, `KeysAreInOrder`,
`EventsDestructionIsSafe`. `KeysFollowList` is the strengthening: the keys that are active are
those which the events before the index have started and not finished, wherever in the
list the thread was stopped and started again; `OwnerIsLast` says that the destructor
begins between the calls and ends after the thread.

**StubProofs**, its second part (`SpinAssumption`): `DialogsAreSound`, for any limits and
default of the spin boxes, of a Device Agent and of an Engine. The invariant says that the dialog
is a function of its values, but for the radio button that waits to be hidden:

    ActiveIInv == holder \in {"deviceAgent", "engine"} /\ IsSound(dialog)

`IsSound` gives the whole section: the items of the manifest with the additional ones
at their places (`ItemsOf`), exactly when the values ask for them; and values that are chosen
among what these items offer (`ChoicesAreSound`, `LimitsAreSound`). There is a lemma per rule on
what it makes of a section, one per kind of change (`ComboChange`, `LimitChange`...), and one
per item of the manifest on the dialog made anew (`Stage`), which together say that the rules
applied in turn lead to the same section (`RebuiltIs`).
`DialogIsSound` alone is not inductive: it does not say where the additional items
are, which decides what `insert()` and `erase()` do next.

**StubProofs**, its third part (`TypesAssumption`): `DialogsAreObeyed`, for all 14 dialogs
with any types, streams and number of choices (the bound `MaxChoices` of the run). It rests
on a fact about two texts, the dialog and what is read of it (`DialogsServe`): every setting
that is read has an item, each value that the item offers is read as it is shown
(`ReadsWell`: a limit of a spin box is a number that `stoi()` takes, a policy has a
name that is known), and, in most plugins, no item is without a reader. It is proved one part of a
dialog after another, in the order of the dialog, since parts that share no names fit together (`JoinFits`).
The invariant then follows what is sent:

    DialogIInv == /\ MembersIInv /\ SteadyIInv /\ ModelsIInv
                  /\ ~isReceived => DOMAIN chosen = {}

`MembersIInv`: what is shown can be read, and the members are what it says. `SteadyIInv`: a
dialog that is always the same shows the last choices. `ModelsIInv`: the plugin with two models
has stored every choice and shows what it has stored; with `DialogIsObeyed` alone, an
item that is hidden could come back with any value. The filters of a stream other than the default
one have no item, as the property says; `TypesAssumption` keeps the names of types apart from
those of settings, since members are named by both.

**RefCountingProofs** (`RefAssumption`), for any finite sets of threads, objects and locals.
The inductive invariant is

    IInv == RefTypeOK /\ CounterIsOwners /\ CallsAreSafe

The counter of a living object is the number of pointers to it, plus what the running
operations have added or not yet taken away; `CallsAreSafe` says what each running
operation may rely on: the object that it works on is kept alive by a local that nobody
else writes. There is one lemma per action, and lemmas on how the set of the owners grows
or shrinks by one element. All of it is for clients that keep the rule `MayRead`: who assigns from a member of an object owns that
object by something else than the target. `p = p->next` through a member breaks the rule, and
there `assignConst()` (`ptr.h:118`) would use a deleted object; the getters of
the SDK return pointers by value, so that no code of the repository does. The theorems are
`TypesAreKept`, `CountersAreRight`, `AssignmentIsSafe` (the assignment that releases first does not touch what it has
deleted) and `CountingImplementsOwnership`: the initial states map to initial states of
`Ownership`, and each step to a step or a stutter.

The rest of **PartsProofs** has a theorem for each of nine small components, each from the assumption of
its module, for any values of the constants. What strengthens each property:

| Theorem | Inductive invariant, and what it adds |
|---|---|
| `WallsNeverMeet` | `FreeCells`: which cells the vector still lists, the stale last one included: it can be drawn again only after it was overwritten |
| `AnswersAreGiven` | `HttpIInv`: who holds a reference to each handler at each step, and that the frame waits for its own request |
| `DelayIsBounded` | `SpecialIInv`: the queue increases; different times that increase are far apart when they are many |
| `ShotsAreOnTime` | `ShotIInv`: the counter of a track is the number of its shot less its age, and a track is in the picture until it is too old |
| `TracksFollowCycles` | `StreamIInv`: references that were played have ids, those of former passes are not used again |
| `MotionHasObjects` | `MotionIInv`: there is an id of its own for each area, and the areas scanned so far have their objects; lemmas on the quotients of cells by areas, cut at the edge |
| `TracksClimbOnce` | `DetectIInv`: each type climbs with the track of its place in the list, no two places have one track, and former tracks are not in use |
| `FailuresAreAsAsked` | `ErrorIInv`: only frames that have come have failed |
| `ChoicesAreAnswered` | `ActionIInv`: what the one who chose expects is told, or leads to the page of the object that the request was about |

**HelpersProofs** is about helpers of nx_kit and of the SDK, and the unit test of plugins.
`ReloadsAndTweaksAreSound` (`IniAssumption`), for any numbers of threads, Tweaks, fields and
guards, while the user edits the file:

    IniIInv == /\ IniIsTyped /\ (\A r \in Reloaders : ReloadIsSound(r)) /\ NothingIsRead
               /\ MapIsRead /\ TweaksAreSound /\ FieldsAreSound

`ReloadIsSound` says what a thread still knows of the file which is edited meanwhile.
`FieldsAreSound` is about each field that is not spoiled: the alterations of its Tweaks form a
chain, each has found what the one before it has written, and under them is what the map says
as soon as the running reload, if there is one, has been there (`FieldIsSound`, `IsDone`, `Base`); the
guard of each Tweaks that will run first puts back what that Tweaks has found, and what
a Tweaks is just about to set has not changed since it was read (`GuardsAreSound`). Without the
last the second half of `set()` could not be proved to continue the chain. The property
excepts spoiled fields, and so does the theorem: `TweaksLast` shows that it must.
`SuccessIsTrue` (`TestAssumption`): tests that are over have passed or are recorded
as failed, and the status of a fatal error cannot be 0. `RatesAreRight`
(`StatisticsAssumption`), for any number of frames:

    StatisticsIInv == StatisticsAreTyped /\ WindowIsClosed /\ ReceivedAreKept

The total is a sum, for which there are lemmas (`SizeIsSum`, `SizeOfConcat`); the two binary
searches have a place because the frames are in order; `ReceivedAreKept` says, between
any two steps of `onData()`, that nothing was dropped that should be kept, and that what the
steps so far were to drop is dropped. That the rates of regular frames are
exact needs that a quotient of multiples is the quotient (`QuotientOfMultiples`).

`LibraryOutlivesObjects` (`InstanceAssumption`), for any number of Integrations: what the
test holds is always the first `n` of seven local variables, and perhaps an answer
(`HeldIs`); every counter follows from `n`, the answer and the handlers that were given
(`RefsAre`); a handler is given to an owner that somebody holds or whose destructor runs
(`MembersAre`); and the next call tells `n` (`PointIs`), save where the scopes are being left. That
`NothingOutlivesItsOwner` alone is not inductive is the point: it does not say how many references
are still to be dropped.

**TextsProofs** (`CharAssumption`): `TextsSurvive`, for strings of any length. Here the
invariant is only that the text is a string of bytes; the theorem is about what the operators
compute. The decoder is a function of which the value at a place is computed of one at a
later place (`DecodingIs`), so it exists (`RecursionExists`), and no value of it reads past the
terminating 0 (`DecodedStaysInside`). Each character is read as itself where it is
written (`CharacterIsRead`), *whatever comes after it*: the quotes after a hex sequence and
the three digits of a 0 are what that lemma needs. So from the last character of a literal
backwards each place is read as the rest of the string (`LiteralIsRead`). For UUIDs the digits of strings one after
another are the digits of each (`DigitsJoined`); separators have none; and 31 or 33 digits
are never a UUID (`UuidStringIsRead`).

**InductionLemmas**: a set of numbers that is not empty has a least one (`LeastNumber`) or, up to a
bound, a greatest one, and the function that a recursion describes exists, from the beginning
(`ComputationExists`) or from the end (`RecursionExists`). With them an
induction over data is an argument about the least place where it fails; the theorems
of the library that take the induction hypothesis as an operator are not needed.

For the sake of these proofs some definitions avoid what the provers cannot look into:
`SelectSeq`, folds, concatenation of strings, `@@` and `:>`. Lists that code builds in a loop
are recursive functions or sets instead.

### Only model-checked

* All liveness, and with it fairness: `NextPlayerIsServed`, `StopIsPrompt`,
  `SettingTakesEffect`, `NeededEventsCome`, `UnownedIsDeleted`. Out of reach of the prover.
* `TypeOK` of `parts`. (`AgentTypeOK` and the `TypeOK` of the event threads and of
  RefCounting are proved, and not repeated in the runs.)
* `GeneratedFits`: it is about manifests, that is about constants of the code, which TLC
  covers completely. It builds names by the concatenation of strings, which the provers
  cannot evaluate.

## 5. Not modelled

* Printing the field, object metadata (bounding boxes, colours), logging, manifests.
* Sizes and counts that the settings model accepts but the constructor rejects, or
  that leave no room: `SizeAssumption` excludes them.
* Overflows of `m_frameIndex`.
* Several devices on one port, of which the second ends the Server process.
* The data socket is never closed: the leak of handles is not counted, though
  `ConnectedPlayerControls` shows its effect on the player.
* The image event of `events`, and `m_eventTypeId`, which is written and never read.
* *video_frames*: the check of an
  uncompressed frame, a pure function; the leak and the crash it has on purpose.
* *custom_metadata*, *sdk_features*, the sample plugin: canned answers, without state.
* Containers of the SDK, the size of groups of pictures, other conversions and paths of nx_kit, the output redirector,
  JSON and logging: values, formatting or I/O.
* The registry of objects of `LibContext`, and counters that delegate to another object,
  which nothing in the repository uses.
* The components listed as `not_modelled` in `PROJECT.json`.

## 6. The plan

Done: 1. VampiresField, Vampires; 2. VampiresGame and the refinement; 3. VampiresProofs;
4. SocketReader, DeviceAgent; 5. ConsumingDeviceAgent, EventThread, DiagnosticEvents,
StubEvents and the first proofs about them; 6. RefCounting, its abstract specification
and the proof that it implements it; WallPlacement and its proof; 7. the generators of
tracks, dialogs, actions, taxonomy and errors of the stub plugin; 8. PluginSession;
9. IniConfig, EscapedStrings, UuidStrings, TestRunner; 10. HttpRequests,
StreamStatistics; 11. the refinement `ImplementsGame` and the invariants of DeviceAgent,
StubEvents, IniConfig, TestRunner, StreamStatistics, PluginSession and nine parts proved, and
that texts of any length are read back; 12. active dialogs are sound for any limits, and all
dialogs are obeyed for any types and streams.

To do, in this order:

1. The index of `StringMap` and the first-wins rule of `SettingsResponse`; the check of
   uncompressed frames.

## 7. Running

    tlc -workers 2 -config MCVampiresWalls.cfg MCVampires.tla
    tlc -workers 2 -config DeviceAgent.cfg DeviceAgent.tla
    tlc -workers 2 -config Parts.cfg MCParts.tla
    tlapm VampiresProofs.tla
    tlapm HelpersProofs.tla

Each run is listed in `PROJECT.json` with its module and configuration. The longest
takes two to three minutes.
