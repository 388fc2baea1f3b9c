# psbox: a TLA+ model of the running sandbox

psbox runs desktop programs in sandboxes described by a config. Each sandbox has
a *supervisor* on the host that starts the sandbox, launches commands in it,
follows config changes and hot-plugged devices while it runs, relays its D-Bus
calls to the host, and stops it when nobody uses it. This project models the
parts of psbox in which several threads or processes, the kernel, the host bus, the
compositor and the user act on the same state, and the algorithms on which the
rest depends.

Source paths are relative to the repository's root; `supervisor.rs` and the like
are in `src/src/`. `PROJECT.json` maps each definition to the lines it models.

## Inventory

| Component | State | Operations | Hard behaviour | What makes it correct |
|---|---|---|---|---|
| Launches, idle stop, shutdown (`supervisor.rs`, `sys/cgroup.rs`, `spawn.rs`) | `State::{clients, served, launches, pending_restart}`, a cgroup per launch, the init of the PID namespace | serve a Spawn or Stop request, reserve, create the cgroup, clone, record; sample idleness, remove finished launches; kill and exit | one thread per client, the idle watcher samples without a lock over the whole decision, launches fail at each step, launches race shutdown | a live process is always known to the gateway with its identity; nothing outlives the supervisor; an idle sandbox stops, a used one does not |
| Device nodes (`supervisor.rs`, `devices.rs`, `sys/inotify.rs`) | `State::{devices, unapplied, pending_restart}`, the plan's classes, nodes and links below `/dev`, the inotify queue | watch, rescan, reconcile one device, publish, unpublish, reload the classes | watcher and reloader reconcile at once; events are lost; each mount or link may fail; a device goes while it is published | no node without a record, no link without a node, in the end exactly the granted devices, or a pending restart |
| Gateway, one client (`gateway.rs`) | `Client::{gone, owners, pending, open_requests}`, `PortalState` | forward, hold, register again, relay replies and signals, close | three threads on one client; the portal restarts at any time; the app leaves while calls are under way; the host closes the connection | calls reach only portal instances that know the app's identity, in order, and are answered exactly once; the connection closes when and only when nothing needs it |
| Gateway, map of clients (`gateway.rs`, `identity.rs`) | `Gateway::{clients, creating}` | create on first call, look up the identity, remove on departure or close | the departure is read on another connection than the call; pids are used again | no client stays for an app that has left, and no connection but one that waits for an OpenURI answer; one connection per app, under its own identity |
| Live mounts and reload (`supervisor.rs`, `inject.rs`, `sys/mount.rs`) | `State::{plan, live, unapplied}`, the mount tree, sockets and overlays | mount, umount, refresh, apply, expose a file, attach a socket | mounts stacked at one path and nested below each other; a reload that fails half way; sockets that appear later | after a reload the tree is the plan's, or a restart is pending; live mounts last |
| Plans (`plan.rs`, `spec.rs`) | `Plan` | plan, check, diff | the order of mounts decides what hides what | a diff turns one plan's tree into another's |
| Config watch (`supervisor.rs`, `jsonnet.rs`, `sys/inotify.rs`) | watched directories and files | evaluate, watch what was read, wait, evaluate again | files and directories change while they are evaluated | the last change is always evaluated |
| Host bus connector (`connector.rs`) | helper process, control socket | request with a timeout, replace | a reply later than its caller's deadline; a bus with a new socket | a caller never gets another's reply |
| D-Bus connections (`dbus/conn.rs`) | serials, backlog, buffer, descriptors | authenticate, call, read, write | other messages arrive while a reply is awaited | none is lost or reordered; descriptors stay with their message |
| D-Bus messages (`dbus/value.rs`, `dbus/message.rs`) | none | parse, encode, change arguments | alignment, nesting, both byte orders | a message means the same to its receiver |
| Portal policy (`portal.rs`, `gateway.rs`) | file requests | check a call, translate request paths and file results, filter signals | requests of several apps open at once | an app sees its own requests and only visible files |
| Client and activation (`client.rs`, `cli.rs`, `supervisor.rs`) | units, sockets, the settings file | connect or start, activate, stop, remove an unnamed sandbox | a client connects while the service stops; clients are killed | whoever waits is answered; nothing of an unnamed sandbox is left |
| Title bar proxy: objects (`decorations/proxy.rs`) | ids on both sides, focus | relay, create, delete, hide a bar's input | ids are used again while events are in flight | each id means one object on both sides |
| Title bar proxy: windows (`decorations/proxy.rs`, `frame.rs`) | the bar, geometry, limits, popups | decorate, configure, commit | a bar comes and goes between two commits | what the compositor has takes in the bar exactly when it is there |
| Title bar proxy: outputs (`decorations/proxy.rs`, `scale.rs`) | modes and logical sizes | describe an output | events on two objects and two connections | the bridge's screen is the one its scale gives |
| Title bar proxy: connections (`decorations/wire.rs`, `sys/fd.rs`) | buffers, descriptors | send, write, read | partial writes, a limit of descriptors per write | a queue of messages with their descriptors |
| Installation (`install.rs`, `desktop.rs`) | desktop entries | generate, write, sweep | interruption; configs that do not load; files of others | entries follow the configs; others' files stay |
| Sandbox root, command line (`root.rs`, `cli.rs`, ...) | none, or a single sequence at start | | | formats and system calls: not modelled |

How they interact: the reloader (config watch) changes the plan, then asks the
device part to reconcile; failed removals of mounts and devices are restart
reasons, which the idle watcher reads. The gateway asks the launches which
identity a caller has, by its cgroup. A file the user
chooses in a portal dialog becomes a live mount. The gateway opens host
connections through the connector. The client starts the supervisor through
systemd's socket, whose backlog holds connections until `start` accepts. The title
bar proxy is a process of its own beside the X11 bridge.

## Modules

| Module | What it is |
|---|---|
| `Devices` | device nodes: host, watcher thread, reloader, `reconcile` |
| `Gateway` | one client of the gateway, the host bus and the portal's instances |
| `Lifecycle` | clients, launches, idle watcher, shutdown |
| `MountTree` | mounts as the kernel stacks them, and the operations of `inject.rs` |
| `Plan` | what a config mounts, the checks, `diff` (extends `MountTree`) |
| `SandboxMounts` | reloads, live mounts, sockets, overlays, exposed files (extends `Plan`) |
| `ConfigWatch` | evaluation and inotify watches of the config |
| `Clients` | the gateway's map of clients and the look-up of identities |
| `Connector` | the helper that connects to the host bus |
| `BusConn` | a D-Bus connection's calls, backlog and descriptors |
| `Portal` | the portal policy, request paths and file results |
| `Marshal` | D-Bus messages as bytes |
| `Activation` | clients, systemd and the supervisor's start and end |
| `Install` | desktop entries |
| `ProxyObjects`, `Frames`, `OutputModes` | title bar proxy: ids and input, windows, outputs |
| `MessageQueue`, `Wire` | title bar proxy: what a connection promises, and the bytes and descriptors that implement it |
| `DevicesProofs`, `LifecycleProofs`, `ClientsProofs`, `ProxyObjectsProofs` | theorems about the module each is named after |
| `MountsProofs` | theorem about `SandboxMounts` |
| `GatewayProofs` | theorems about `Gateway` and `Activation` |
| `HostProofs` | theorems about `Connector`, `BusConn`, `Portal` and `Install` |
| `TitlebarProofs` | theorems about `Wire`, `OutputModes` and `Frames` |
| `MCDevices`, `MCWatchers`, `MCGateway`, `MCAnswers`, `MCLifecycle`, `MCLifecycleLive`, `MCMounts`, `MCHost`, `MCTitlebar` | instances for TLC |

Some MC modules hold several modules that share no state, or one module with
several settings of its constants. A variable that never changes (`part`,
`setting` or `kind`) says which of them a behaviour is one of; the others rest in
an initial state, chosen so that they add no states. Each property names state of
one part only, and each part keeps its own fairness. What a property claims of a
part it therefore claims of all behaviours of that part alone.

Each module carries some alternative definitions marked `Mutant`: a definition
changed as a plausible mistake would change it. They are part of no
specification; with one of them in place of the original, the property it is
listed with in `PROJECT.json` is violated, which shows that the property says
something about that code.

### Devices

`host` is the udev database, `events` and `lost` the inotify queue, `devices`,
`unapplied` and `pending` the fields of `State`, `nodes` the mounts at the hidden
names `/dev/.psbox/c<major>-<minor>`, `links` the names in `/dev`. `pc[t]` is
where a thread is in `watch_devices`, `apply` or `reconcile_all`; `step` is where
the holder of the lock `reconciling` is inside `reconcile`, `publish` or
`unpublish`, one step per operation that another thread or the kernel can come
between. With `Failures`, each mount, clone and link may fail, and the watcher
thread may end. `intact` records that nothing has failed yet; a device that goes
while it is being published is not a failure.

Abstractions: an udev entry is a record of its node, its links and the classes it
matches. Several queued events are a count per device, since `reconcile` reads
everything again. The listing of the udev directory is one step. `unlinkat` of a
link in the private `/dev` succeeds. Each device's classes come from its own
entry; that a hidraw node is a gamepad because of another device's entry
(`hid_has_gamepad`) is not modelled. The rest of a reload is one action, or two
when mounts fail.

`RescanRace = FALSE` leaves out executions in which the watcher lists all devices
while a reload runs. Nothing in the code excludes them: with `TRUE`, `OnlyGranted`
is violated (see the known differences), and the constant lets it be checked for
the rest. The other safety properties are checked with the race too, and proved with
it.

### Gateway

One app makes up to `N` calls. `queue` is what the gateway's threads have to read
from the private bus; `outbox` and `inbox` are the host connection in each
direction; `inst`, `log`, `busy`, `requests` are the portal's instances. The
three threads are the reader of the portal connection, the reader of a
`dbus.talk` connection, and `serve_host`. `pc[t]` is where each is between two
locks or sends: `forward` is `Lookup`, then `Hold`, `Route` or `RegisterAgain`,
then `Permit` or `Refuse`, then `Send`; `registered` is `Registered`, `TakeHeld`,
`NextHeld`, `BatchDone` and `HandBack`.

The host bus delivers in order, activates the portal for a message to its
well-known name, refuses a message to an instance that has exited, and answers
what an exiting instance has not. With `MayReplace`, a new portal may take the name
from a running one, which still answers what it has before it exits: the only way in
which a Register is answered by an instance that no longer owns the name, and so the
only one that leads to `HandBack`. Bus and portal are not under `src/`; the model
takes from them what `gateway.rs` relies on.

Abstractions: serials are left out (a message is sent once per connection and one
Register is unanswered at a time); every call expects a reply; a `Request.Close`
names the last OpenURI call's request by its predictable path; file requests are
in `Portal`. The connection is set up in three
steps (`SetUpRegister`, `SetUpMatch`, `SetUpAsk`), during which the app's
departure is not processed, and once the host has closed the connection no second
one is made: both are in `Clients`.

### Lifecycle

Each client makes one Spawn request, served by a thread of its own; the launch is
named after the client. `pc[c]` is where `serve` and `serve_spawn` are. `procs`
counts the live processes in the launch's cgroup. `watch_idle` is cut where it
takes or drops a lock or reads the kernel's state: `Sample`, `RemoveFinished`,
`CheckBusy`, `CheckPending`, `CheckIdle`. Shutdown is called by the watcher, by a
Stop request or a helper that exits, or by the init's exit; it kills the workload,
then the init and with it the PID namespace, then exits.

Time passes in ticks of which `Period` are the watcher's second. Clocks are ages,
capped at the timeout they are compared with, so that no bound on time is needed.
A sample takes no time in itself, but any other step may come between its parts.
`seen` and `quietFor` are history variables: they are read by properties only.

Abstractions: `idle_timeout` does not change during a run; a start that fails is in
`Activation`; Signal requests and the helpers in `infra/` are left out; killed processes are
gone at once; deciding the identity is one step, its duration being that of any
number of ticks.

### MountTree, Plan, SandboxMounts

A mount is named by the paths from the root mount down to it, so that the stacking
of mounts at one path, mounts hidden by later ones, and detaching a mount with
everything on it are what the kernel makes of them. `Plan` translates a config into
an ordered list of mounts (`Plan::build`), checks it, and computes what a reload
detaches and attaches (`diff`). `SandboxMounts` runs that on the tree: `apply`
prepares its mounts, then detaches and attaches them, each of which may fail;
`mount` and `umount` add and remove live mounts; `watch_sockets` chooses a socket,
takes the lock and attaches it; `refresh_overlay` mounts an overlay again on top of
itself; `visible_at` finds the path of a file and `expose` makes it visible. `gen`
is which of several servers or directories a source is, so that a mount of an old
one shows.

`astray` is set by a step that takes down another mount than its record says, attaches
the mount of a plan that has been replaced, or attaches a socket at or above the path of
a live mount; the known differences below say when. The properties say nothing after
it. What is done to several mounts in turn is a fold with a name (`AttachMade`,
`DetachAll`, `PlaceAll`, `RemountAll`, `AttachLive`), so that a lemma can speak of it.

Abstractions: `/usr` stands for the read-only host directories and `/tmp` for the
tmpfs ones; environment, apps and helper programs are left out; each source is one
file, directory or socket.

### ConfigWatch

The config file imports a file in a directory that comes and goes inside another.
An evaluation reads the files one after another while they change; then the thread
adds and removes watches, drains what came, and waits. Inotify watches stay with the
directory, not with its path, and removing one sends an event too. `blind` holds
after one of two cases the code cannot see (known differences).

### Clients, Connector, BusConn

`Clients` has one reader per private bus connection. `client` looks the app up,
waits while another reader creates its connection (`creating`), reads the process
and its cgroup, asks for the identity, connects, and enters it in the map; only the
portal's reader is told of departures. A connection `waits` while an OpenURI call or
request made on it is unanswered, and `held` says that calls are held on it, any of
which may turn out to be an OpenURI call: the departure of an app closes its connection
only if it does not wait (`close_if_done`), and the last answer closes it afterwards.
Which calls wait or are held, and when they are answered, is `Gateway`'s matter and open
here. Pids are used again. `Connector` is one
supervisor call at a time against helper processes that hold the bus's socket as it
was when they started; answers may come after the deadline. `BusConn` is a stream
in pieces, descriptors that arrive with a message's first piece, calls that keep
other messages in the backlog, and the reader's loop.

### Portal, Marshal

`Portal` follows a request from its call to its Response with several apps at once,
whose host segment may be another's private one. It holds the checks, the rewritten
paths, the results of file choosers and, of the table of methods, one entry for each way
in which a call is treated. `Marshal` writes a value as bytes and reads it back, in both
byte orders, with alignment, the limit of depth, headers, and the changes psbox makes.
Its operators are RECURSIVE, so it is for TLC only. What it computes is compared with
the sender's value, over bounded messages.

### Activation, Install

`Activation` has clients that connect to a socket of systemd's, and start the socket
unit when nobody listens; a service that starts, fails or is started too often; the
listen queue that outlives a supervisor; `psbox stop` and `stop --all`. `Install`
has two files and two sandboxes: load, generate, write one by one, sweep; users edit
files between runs, and a run may be cut short anywhere.

### ProxyObjects, Frames, OutputModes, Wire

`ProxyObjects` has the bridge, the proxy and the compositor with a queue of events in
each direction; ids are freed by `delete_id` and used again, and events of a bar are
hidden. `Frames` is one window, its title bar and popup by height, with 32-bit
saturation reduced to `IntMax` and `MAX_SIZE`, the largest size a bar is drawn for, to
`MaxSide`; the size that `configure` passes on to the bridge is not kept. `asked` is a
history variable: the geometry the window is to have without a bar. `OutputModes`
computes what `scale.rs` does from events of both connections. `Wire` writes and reads
bytes in any pieces, with at most `MaxFds` descriptors per write. `Implements` says that
it implements `MessageQueue`, the abstract queue of messages, under the mapping that
reads the descriptors off the messages sent.

## Runs

Passing runs:

| Run | Shows |
|---|---|
| `devices` | `NodeRecorded`, `LinkReady`, `UnappliedPending`: with any operation failing and watcher and reload racing, a node is attached once while it has a record, a name leads to a node, and a node that could not be removed is a restart reason until it is. `OnlyGranted`: when both threads have caught up, a node is there only if granted, or a restart is pending (without the rescan race). `AllPublished`: while nothing has failed, every granted device is then there and complete, and each name it was published with leads to it, whatever events were lost; left out are names that udev gives to another device too, which that device takes over and takes with it (`CompleteLinksExist` below) |
| `watchers` | `StaleGoes`: a device that is unplugged or no longer granted goes or becomes a restart reason. `ConfigFollows`: the config thread comes to rest and has then read what the files say |
| `gateway` | `AnsweredOnce`, `KeptForOpenURI`: with everything that can happen, no call is answered twice, and the connection of an app that has left stays open while the host has an OpenURI call or request of it to answer that it has not closed. `RegisteredFirst`, `InOrder`: an identified connection reaches only instances that accepted it, each in the order of the calls, also when held calls are handed back because the portal changed again |
| `answers` | `AllAnswered`, `LeftCloses`: every call is answered unless the app leaves, and the connection of an app that has left is closed; without `Request.Close`, undecodable replies, replaced portals and a host that closes the connection, for which see below. `Answered`: every client that waits for a sandbox is answered or told that it stopped. `NothingLeft`: nothing of an unnamed sandbox stays behind |
| `lifecycle` | two clients of a sandbox with an idle timeout, or of a task for which a restart may become pending, whose launches fail at any step, with shutdown from every side: `TypeOK` (the client count is the number of requests being served); `LaunchKnown`: a live process has a record with its identity; `CgroupKept`: no launch loses its cgroup before it starts; `NothingSurvives`: the exit leaves no process; `EstablishedKept`: the idle watcher spares whatever its sample began with |
| `lifecycle_live` | `IdleStops`, `FinishedGoes`: for a sandbox with an idle timeout, and for a task, whose timeout is zero, with failures and restart reasons that come and go |
| `mounts` | `ShownAsPlanned`: after any reloads, also ones that fail half way, every path shows what a restart with the running plan would show there, unless a restart is pending or a live mount is over it. `LiveKept`: a recorded live mount is what its path shows. `ExposedSeen`: the path an app gets for a chosen file, be it where the file is visible already or where it was mounted for it, shows that file, writable; left out are paths at or below a mount that a reload could not attach or detach, which `visible_at` still counts as there |
| `host` | `Clients`: `OneConnection`: an app that is there has one open host connection at most, and one at most answers for it, there or gone; `LeftForgotten`: an app that has left has no entry, and no open connection but one that waits for an OpenURI answer; `RightIdentity`. `HostReached` (`Connector`); `BusHeard` (`BusConn`); `ResultsFit` (`Portal`); `MeaningKept` (`Marshal`). `EntriesFollow` (`Install`): a run that nothing disturbs leaves each desktop entry as the configs have it, but for contested ones (`FailedKept` below) |
| `titlebar` | `ObjectsAgree`: an event reaches the object it was sent to, and an id is freed once and before it is used again; `BarInputHidden`: no input of a bar reaches the bridge, and what reaches it is a sequence a client accepts; `BarAccounted`: without a bar, limits and geometry are those the bridge asked for; with one, limits and popups take it in and the geometry is the one the frame set (with the exceptions below); `CommitFits`: a commit under a bar gives a geometry around what the surface shows or the bridge asked for, up to the largest size a bar is drawn for; `ScreenFits`: the bridge's mode is the one the scale gives; `Implements`: the wire implements the queue; `DescriptorsArrive`: a message whose bytes are there has its descriptors |

Runs that end in a violation; each checks what a comment or a document says, and
`findings` in `PROJECT.json` quotes it:

| Run | The code differs |
|---|---|
| `mounts_sockets` | a server that makes its socket and goes before the watcher attaches it leaves a record of an attached socket; when it comes back, replacing the mount that is not there fails, and the socket is never attached |
| `connector_late` | a connector that was just started and does not answer in time is kept, and its late answer is taken by the next caller |
| `lifecycle_waiting` | a task whose start is slow is stopped while its client waits to be accepted |

### Known differences without a run

The modules state the first group too; TLC finds each violated with the constants
described, from those of the module's run.

- `OnlyGranted` (`Failures = FALSE`, `RescanRace = TRUE`): a rescan lists the devices
  before it takes the lock (`supervisor.rs:1618`); one that a reload is publishing,
  and that has gone, is in neither list and stays published.
- `NamesMatchHost` (`Failures = FALSE`, no reload): a published device whose udev
  entry changes and still matches keeps its old names; `supervisor.rs:1627` says
  "so `/dev` matches the host".
- `CompleteLinksExist` (`Failures = FALSE`, one change, no reload): of two devices
  with the same link, the earlier one stays recorded as complete (`supervisor.rs:50`,
  "All links are in place") when the later one has taken the link and gone.
- `FailedKept`: the entry of a config that does not load is written over when another
  sandbox claims the same file, although `install.rs:7` says that "a config that fails to
  load keeps its entries", `install.rs:394` that "Entries of `failed_sandboxes` (configs
  that did not load) ... are kept", and the command itself that "its installed entries are
  kept" (`cli.rs:508`). `EntriesFollow` says nothing of such entries (`Contested`).
- `ClosedAnswersAll` (`HostMayClose = TRUE`): calls held for a Register reply are
  dropped when the host closes the connection (`gateway.rs:572`).
- `KeptForHeld` (`Kinds = {"open"}`, the app may leave, the host does not close): an
  OpenURI call held for a Register reply does not keep the connection open, although
  it is "waiting for an answer" (`gateway.rs:129`).
- `AllAnswered` (`BadReplies = TRUE`): a Register reply that cannot be decoded is
  handed to `relay_reply`, which does not know it; `registering` stays set and portal
  calls are held for ever.
- `LeftCloses` (`Kinds = {"open", "close"}`): a request that the app closes by its
  predictable path before the gateway has read the OpenURI reply is recorded
  afterwards, and no response removes it.
- `LeftCloses` (`MayReplace = TRUE`): when a replaced portal answers an OpenURI call
  after the gateway has read the change of owner, the request is recorded and no
  further change of owner ends it.
- `StopsOnlyIdle` (`MCLifecycleWaiting.cfg`, `IdleTimeout = 2`): a client counted
  after `watch_idle` has read the count is cut off while its identity is decided.
- `IdleLongEnough` (`MCLifecycleWaiting.cfg`, `IdleTimeout = 4`): a launch that
  begins and ends between two samples does not restart the idle timeout.
- `LaunchKnown` (`MCLifecycleWaiting.cfg`, `IdleTimeout = 2`, `ReadFails = TRUE`):
  `cgroup.events` that cannot be read counts as empty, and a running launch loses
  its record and with it its identity.

The second group was met while modelling. The modules model what the code does, and
the properties leave these cases out by an explicit condition (`astray`, `unapplied`,
`blind`, `reused`, `wasFull`, `Dropped`, `sure`, `late`, `steady`), or do not speak of them.

- Mounts: `umount` removes the record of the first live mount at a path and detaches
  the topmost (`supervisor.rs:1431`); mounts beneath an unmounted one go while their
  records stay; a reload that detaches a plan mount covered by a live mount at the
  same path takes the live mount; one that attaches over a live mount leaves a hidden
  copy of it; a forwarded socket that appears is attached over a live mount at its
  path, and hides it; the directories watched for sockets are fixed at the start, and an
  event read with the plan from before a reload is dropped. `visible_at` reads the plan
  and not `unapplied`, so that after a mount could not be attached the path it would have
  given is still handed out, although `supervisor.rs:1814` wants no "path that shows
  something else".
- ConfigWatch: a directory made while an evaluation that missed it runs is not
  watched, and one that was moved away counts as watched at its old path.
- Clients: when the thread for a new host connection cannot be started, the client
  stays with nobody to read its connection. A call of an app that has left, read late on
  a `dbus.talk` connection, opens a second connection for a moment beside one that waits
  for an OpenURI answer; `OneConnection` says so.
- Portal: a file chooser call that expects no reply is not recorded, and its results
  pass unmapped; file requests of a portal that went are not ended.
- Frames: `configure` hides or shows the bar and sends no limits again, so they keep or
  miss its height until they are set; a geometry the bridge asked for under a bar that
  goes before it was drawn reaches the compositor from nobody. ProxyObjects: a `leave`
  of an unknown surface is passed on without one.
- Install: a file the user replaces between the read and the rename is lost; a
  directory that cannot be read is not swept.
- Activation: `is_active` and the connect are two steps, so a request may start a
  sandbox that stopped between them; `psbox sandbox` only queues the job that stops
  its unit; the settings file stays if the client is killed before the supervisor
  has read it; `stop --all` misses a socket unit whose start job is queued.

### Bounds

- *Devices*: two devices that share a link, two node names for one of them, two
  classes; any failures, one host change and one reload, and no rescan that overlaps
  the reload. Two devices are what a link can be disputed by, and the lock is held
  for one at a time. One host change and one reload make every order of event,
  rescan and reload; a device that goes and comes back needs more, and is left to
  the theorems, which hold for any number. `watchers` has one device, since no step
  waits for another device's, and four changes of config files or directories: an
  import made, moved, made again and written.
- *Gateway*: two calls and two portal instances for everything at once; three
  calls over three instances for the order, the least in which a held call is handed
  back before the rest of its batch and before one held since.
- *Lifecycle*: two clients, two processes each (the first and one that outlives
  it). `Period` and the timeouts are one or two ticks: a step can come before and
  after each. Restart reasons change for the task only, and Stop requests and a dying
  init are in `lifecycle` tried with the other one. `lifecycle` uses the symmetry of
  clients; the liveness run does not.
- *Mounts*: five configs (nothing; a share; a share beneath another; the outer one
  changed; an overlay with a share beneath it), two live mounts at two nested paths,
  one socket with two generations, one failing path, one exposed file. `Bounded`
  leaves out states after a mount went astray, trees of more than seven mounts, more
  than one mount that could not be removed, and two live mounts, an exposed file or an
  overlay's change together with socket changes. That no socket is at a live mount's path
  is in the configs, not in `Bounded`.
- *Host*: two apps, two readers, two pids and two connections in all; three requests,
  two host buses and three connectors; three bus messages of up to two pieces; two
  portal clients with two tokens and one file; values nested up to the limit of four
  and one beyond; two sandboxes with one edit after the first run.
- *Activation*: two clients that run a command, one that stops, three starts.
- *Title bar*: two ids of the bridge's, two objects of the compositor's and one the
  server makes, three events under way: enough for an id to be used again while an event
  of its former object is in flight. Heights of zero, of the bar's own and one above it;
  `MaxSide` is the smaller of them, so that clamping changes the other, and `IntMax` one
  above them, so that adding the bar saturates; a geometry the bridge asks for begins at
  1, to differ from the window's own, which begins at 0. Two modes and two logical
  sizes, of which one pair gives a fraction. Three messages of up to two bytes and three
  descriptors, with two descriptors per write.
- Deadlock is not an error in any run: bounded changes and calls are used up, and
  a supervisor that has exited takes no step.

### Fairness

- *Devices*: weak fairness of the two threads together. They are OS threads that
  wait only for the lock, which each holder releases, or for events. Nothing is
  assumed of the host, and a watcher that has died is not assumed to act.
- *ConfigWatch*: weak fairness of its thread, which waits for events only.
- *Gateway*: weak fairness of threads, bus and services together. It includes
  that the portal answers and the user ends a request, so liveness is a statement
  about what the gateway adds: `LeftCloses` would not hold of a user who never
  answers a dialog, and the code does not claim that it does.
- *Lifecycle*: weak fairness of each thread and of time. A child that has reported
  a failure exits, as its next instruction does. Nothing is assumed of clients or
  programs: they may stay for ever.
- *Activation*: weak fairness of systemd (it runs its jobs, starts a service for a
  connection that waits, and notices that one has ended), of the supervisor's start,
  accept loop and end, and of the thread that answers each client. Nothing is assumed
  of clients, or of whoever stops a sandbox.
- The other modules state safety only.

## Proofs

The theorems hold for every value of the constants that the named assumptions allow:
any number of devices, clients, calls, portal instances, readers, connectors,
messages, descriptors, requests, sandboxes, entries, objects, touch points, modes,
sizes and mounts. Each proof has an inductive invariant, a conjunction of named parts at the
head of its section, which TLC checked on the run of its module first, and one lemma
per part or per action. What follows says what the invariant adds to the properties
and why they are not inductive without it.

### Devices

`DevicesProofs`, from `DevicesAssumption`: `TypeCorrect`, `NodesRecorded`,
`LinksReady`, `UnappliedStaysPending`, with failures or without. `StepOK`: the lock
is free exactly when nobody is inside `reconcile`, unpublishing works on a device
that has a record, publishing on one that has none and has been read, and only
recorded names are linked. `LinkOwned`: a link belongs to a device that recorded it
and whose node is not being detached. Without `StepOK`, a node could be attached
twice; without `LinkOwned`, detaching could leave a link of a name the record has
not. `LinkReady` follows from `LinkOwned` and `NodeRecorded`.

`OnlyGrantedHolds` (assuming `~RescanRace`, since with it the property does not
hold) and `AllPublishedHolds` need to say where each change is still remembered
until both threads have caught up. `GrantInv`: a device whose node is there without
being granted is a restart reason, has an event or a lost queue that will bring the
watcher to it, is in the `todo` of a thread, or is in the hands of the lock's
holder, who read it after it changed and will remove it (`StayOK`, with `ReadOK` and
`AimOK` for what the holder knows, `Apart` for the two threads). `PublishInv` says
the same of a device that is granted and not complete (`ComeOK`), and that while
nothing has failed (`intact`) a record is complete once the lock is free
(`CompleteOK`) and no thread's list misses such a device (`MissOK`).

### Lifecycle

`LifecycleProofs`, from `LifecycleAssumption` and, in each theorem, `~ReadFails`
(that `cgroup.events` can be read; without it `LaunchKnown` does not hold):
`TypeCorrect`, `LaunchesKnown`, `CgroupsKept`, `NoneSurvive`, and the action property
`EstablishedKeptHolds`. `PhaseOK` ties the progress of `serve_spawn` to what exists:
no process before the clone, one at most until the program runs, and a record with
`started` unset, which is what keeps the idle watcher away, from the reservation to
`Started`. `KilledOK`: without the init nothing runs, and shutdown has passed the
init only when it is dead; that is why a launch racing the shutdown does not survive.
`SeenOK`: a client of the sample is counted or has a process; if the watcher counted
no clients, all of the sample have ended their requests; and if it found no process
either, none of them is left.

### Gateway

`GatewayProofs`, from `GatewayAssumption`. `AnsweredOnceHolds`: `PlacesOK` says that
a call is in one place at most: with the app, in its reader's queue, in the hands of
one thread, held, in the batch being passed on, pending, or answered.
`RegisteredFirstHolds` adds what the gateway knows of the portal (`Inv2`): the owner
it has recorded is the bus's once the reports under way are read, and calls
are sent only to an owner that has accepted. `InOrderHolds` adds `Inv3`: what was
sent to an instance is older than what is in a batch, that is older than what is
held, and that is older than what the app has still to send, also for calls handed
back. `KeptForOpenURIHolds`, an action property, adds `Inv4`: an OpenURI call that
was sent is pending until its reply is read, and a request the portal has open is in
`open_requests` or will be once that reply is read; `close_if_done` looks at both.

### Clients, Connector, BusConn, Portal, Install

`ClientsProofs`, under `ReadersAssumption` (there is the connection on which
departures are read, and the word for nobody is not a reader's name):
`OneConnectionHolds`, `LeftForgottenHolds`, `RightIdentityHolds`. `LockOK` and
`EntriesOK`: an app that is being set up is set up by one reader, and the entry of
the map is that reader's connection. `OpenOK`: an open connection is in
the map with a reader, or being set up, or kept for an app that has left (`Kept`: it
knows, waits for an OpenURI answer, and has a reader); as long as an app is there, the
connection with a reader is the one in the map. `ServedOK`: no two connections of an app
have readers. `LeftOK`: if an app that has gone has an entry, its
departure is still to be read, or a reader has just made the entry and will ask the
bus. `LookupOK`, `PidsOK`: a launch read through a pid is the app's own if the
process still ran afterwards.

`HostProofs` has the other four. `HostReachedHolds` (`Connector`, no assumption).
`AskedOK`: the supervisor's connector has the request under way in its socket or its
answer, and nothing else, unless it was kept without having answered; one that has
just been started holds the bus's present socket.

`BusHeardHolds` (`BusConn`, under `BusAssumption`: the constants are numbers).
`Carried`: the descriptors that were read and not taken are those of the messages
that have begun and are not taken, in the messages' order. That is why a message
which cannot be decoded must take its own. `Told`: what the reader has had and
what is in the backlog are together what the bus said, in order, so moving one item
from the backlog changes nothing.

`ResultsFitHolds` (`Portal`, no assumption): the results of a request carry its own path
and only files made visible for it. `PendingOwn`: a waiting
call has its own id, so a reply names the call it answers. `ToldRecorded`: a handle
that an app with a file request has been told is recorded under the host's path.
`RecordedOnce`: a connection records a path once, so that a Response finds the right
record.

`EntriesFollowHolds` (`Install`, under `InstallAssumption`: sandboxes are numbers,
whose order is that of their names, and configs ask for nothing, a scratch or a copied
entry). `InstallInv` follows a run that nobody disturbs: what was loaded is the
configs (`LoadedRight`), what was generated is the best of what they ask for, one
body per file, and `notGenerated` is what they ask for that cannot be made
(`GeneratedRight`); while writing, the files settled so far are as they should be and
the rest as before the run (`WrittenRight`). That the first of several sandboxes that
want a file exists, for any set of them, is the lemma `FirstOf`: the library's
well-ordering of the numbers needs no operator parameter.

### Wire, OutputModes, Frames

`TitlebarProofs`, for `Wire` under `WireAssumption` (the constants are numbers):
`DescriptorsArriveHolds`, and `ImplementsHolds`, the refinement of `MessageQueue`.
The invariant lays out all descriptors ever sent in one sequence. `Sent`: each
message's are a segment of it. `Split`: what the other end has read, the writes
in the kernel, and what has not been written are consecutive segments, the
first of which begins with the first message not received. `Paced`: no descriptor is
in a later write than the first byte of its message. `Paced` gives
`DescriptorsArrive`; with `Split` it follows that the descriptors `next` takes are
the message's own, the step `Receive` of the queue. Every other action leaves the
queue as it is, but for `SocketSend`.

`ScreenFitsHolds` (`OutputModes`, under `OutputAssumption`: 0 by 0 is no mode and no
size). `EventsEnd`: for each thing an output tells, the last event that waits, or what
has been read when none waits, is what the compositor has, and a `done` comes after
it. `ModeTold`: the bridge has the mode that was worked out from what has been read, and
once nothing waits it is the one of the scale. `SizeFollows`: a size has been sent or
will be.

`BarAccountedHolds`, and the action property `CommitFitsHolds` (`Frames`, under
`FramesAssumption`: heights are numbers up to `IntMax`, the bridge's geometries have
edges from 0, and `MaxSide` is not 0). The bar comes and goes with `configure`, while
limits, geometry, buffers and popups each reach the compositor by requests of their own.
`LimitsOK`: the limits it has are the bridge's and the bar's height (which once it was
hidden they may have either way). `GeometryOK`: the geometry it has is the last one the
frame set and, until the frame has set one, what was asked for; what was asked for is
what the frame will put back (`asked`). `ShownOK`: the surface shows the buffer attached
to it. `PlaceOK`: a popup was moved down by the bar there was when it was placed.

### ProxyObjects

`ProxyObjectsProofs`, under `ProxyAssumption` (the bounds are numbers):
`ObjectsAgreeHolds` and `BarInputHiddenHolds`. `ObjectsInv` says what may still be under
way. `Agree`: both sides have the same objects but for those that the bridge has done
with, whose `delete_id` is under way. `MessagesOK`: a message on its way to the bridge
is for an object the bridge still has under that id; after an id is freed nothing
more is said of it, so it may be used again (`Apart`). `Closed`: a callback that is done
is freed. `CompOK` and `EventsOK` say of the compositor's objects and events which of
them can be translated. `Below` keeps the numbers in use apart from the next ones.

`InputInv` is about what the pointer and each touch point are on, before the i-th
message or event of a queue (`Begun`, `Open`). `Heard` and `Owed`: the messages on their
way make sense where the bridge reads them, an `enter` before each motion or `leave`,
and a frame after each group, which is owed while `focus` says so. `Sensed`, `Resting`:
the events that the proxy has not read are about the surface that the pointer or point
is on there, so hiding those of the bar never leaves the bridge with half of a pair.

### SandboxMounts

`MountsProofs`, under `MountsAssumption` (paths are sequences of names, nothing is mounted at
the root, and shares are what `spec.rs` makes them): `LiveKeptHolds`, for any tree of
mounts. `MountsInv` says, unless a mount went astray, that the tree can stand in the
kernel (`TreeOK`: it has finitely many mounts, the mounts a mount is on are in it, at
paths above its own) and that each live mount has a place of its own in it (`Placed`): a
mount made of its record at the record's path, such that whatever is mounted over it
(`Hides`) is the place of another live mount. `LiveKept` alone is not inductive: with
one live mount hidden by a second, it says nothing of where the first is when the
second goes.

The argument has three parts. `Top` is a walk down a path, a mount at a time (`IsWalk`);
where it ends depends only on the mounts it passes and the ones that would hide them,
so a live mount with nothing over it is what its path shows (`PlacedKept`). `Attach` adds
one mount on top of that, `Detach` takes it away with all on it and `Replace` exchanges
one, and each leaves the places that are not at or below its path as they are
(`Untouched`). The folds of `SandboxMounts` are the last of a sequence of states, each
of which follows from the one before (`Runs`); the least state that were not as it should
be would follow from one that is, and there is a least one (`LeastOf`), which takes the
place of induction. A reload is then: what is detached or attached leaves the places
of the live mounts that are not `Lost`, and those that are lost get new ones.

### Activation

`GatewayProofs`, under `ActivationAssumption` (there is somebody who runs the
sandbox, and who runs does not stop): `NothingLeftHolds`. `Roles`: what each client may
be doing. `SocketNeeded`: without the socket nothing waits, and no service runs that is
not being stopped. `StoppedForGood`: the socket unit of an unnamed sandbox is stopped
for good only when its owner is gone, so that nobody starts it again, and nothing
listens unless systemd has still to stop it.

### Only model-checked

- Liveness (`StaleGoes`, `ConfigFollows`, `AllAnswered`, `LeftCloses`, `Answered`,
  `IdleStops`, `FinishedGoes`): out of the prover's reach.
- `MeaningKept`: `Marshal` is recursive over its data.
- `ShownAsPlanned`, `ExposedSeen`: the first compares the tree that reloads have left
  with the one a restart would build, at every path, and the second follows a file through
  the binds above it. Both need to know of every mount of the tree what `MountsInv`
  says of the live ones, and what `diff` promises about any two plans. TLC checks them
  for the configs and the bounds of the instance.

## Not modelled

- The sandbox root (`root.rs` and what it calls): one sequence of system calls at the
  start, with nothing beside it; its effect is the kernel's.
- The command line (`cli.rs`), except install, stop and `stop --all`: arguments and
  output.
- The evaluation of configs and the validation of values (`jsonnet.rs`, `spec.rs`):
  a format without state. Which files an evaluation reads is in `ConfigWatch`, what a
  config mounts in `Plan`.
- The start of the title bar proxy and its poll loop, drawing, the keyboard, moves
  and resizes by the user, and requests that only pass through.
- The authentication handshake of `dbus/conn.rs`: one exchange on a fresh connection.
- Signal requests and the relay of the terminal; `hid_has_gamepad`; the portal probe,
  except its result and its duration; the text of desktop entries.

## Plan

What is left:

1. `SandboxMounts`: `ShownAsPlanned` from `MountsInv` extended to the plan's mounts, with
   a lemma on what `Diff` leaves out for two plans; then `ExposedSeen`.
2. `Devices`: `AllPublished` and `OnlyGranted` with a device whose classes depend on
   another's entry, once `hid_has_gamepad` is modelled.
