# Remmina, verified in part

TLA+ models of the concurrent and event-driven core of Remmina, a GTK client for
remote desktops (RDP, VNC, SSH, SFTP, SPICE, X2Go, ...), with TLC runs and TLAPS
proofs. Every definition is translated from the C source; `PROJECT.json` maps it
to the lines it stands for. Paths below are relative to the repository
(`src/src/rcw.c` is the connection window, and so on).

1. [The system](#1-the-system) · 2. [Modules](#2-modules) ·
3. [Runs](#3-runs) · 4. [Proofs](#4-proofs) ·
5. [What the code does otherwise](#5-what-the-code-does-otherwise) ·
6. [Not modelled](#6-not-modelled) · 7. [Plan](#7-plan)

To repeat a run: `tlc -config MasterThreadExec.cfg MasterThreadExec.tla`; to
repeat the proofs: `tlapm ConnectionWindow_proofs.tla`.

## 1. The system

Remmina is one process. GTK belongs to the **main thread**, which runs a GLib main
loop; everything the user does arrives there as a signal. A protocol plugin usually
has a **thread of its own** that talks to the server, and SSH tunnels and file
transfers have theirs. The threads meet in four ways only, and these four are where
the program is hard to test:

* a worker queues an *idle source* and forgets it (`conn_opened`, `conn_closed`,
  `update_align`, the end of a tunnel): the source carries a bare pointer to an
  object that the main thread may have freed by the time it runs;
* a worker calls `remmina_masterthread_exec_and_wait`: it sleeps until the main
  thread has run a function for it, while the main thread may be about to cancel it;
* the main thread cancels a worker (`pthread_cancel`, mostly asynchronous) and joins
  it, or asks it to stop through a flag;
* both read and write flags without a lock (`priv->closed`, `taskid`,
  `thread_abort`, `running`).

Inside the main thread the difficulty is another one: handlers call one another,
nested main loops run in dialogs, and timers and idle sources run between any two
events.

| Component | State it keeps | Operations | Talks to | Hard behaviour | What makes it right |
|---|---|---|---|---|---|
| Main-thread execution (`remmina_masterthread_exec.c`) | the request `d`: function, mutex, condition, `cancelled`, `complete` | exec_and_wait, the idle callback, the cleanup handler | every worker, main loop | cancellation at any instruction | `d` freed once, by the last one that knows it; the caller resumes after its function ran; the main thread never blocks for good |
| Connection lifecycle (`remmina_protocol_widget.c`, `rcw.c`) | protocol widget `gp`, connection object `cnnobj`, `closed`, `user_disconnect`, `has_error`, plugin thread, idle sources | open, opened, closed, close by user, tab or window, error and prompt panels | plugin, window, tunnels | the plugin and the user close at the same time | nobody uses a freed widget; a thread never outlives its tab; an error is never lost with its tab; a close ends |
| Message panels (`rcw.c`, `remmina_protocol_widget.c`) | panels of a page, the visible one, the dialog under way | show, destroy, migrate, dialogs by the main thread (nested loop) and by a plugin thread (condition variable) | window, plugin threads | a panel hides the one somebody waits for | exactly one panel visible, no panel left behind, the user can always answer |
| Connection window (`rcw.c`) | tabs, visible tab, focus, grab flags, the numbers of eight kinds of sources | focus, crossing, toolbar, switch page, view mode, connect, disconnect, close | display server, protocol widgets | timers that grab the keyboard later | no grab without focus nor without a connection; sources die with the window |
| SSH tunnel (`remmina_ssh.c`) | three parallel arrays (channel, socket, buffer), `running`, `thread`, server socket | open (3 kinds), accept, forward, copy, remove, cancel accept, free, announcement of the end | protocol widget, libssh | the owner frees it wherever its thread is | bytes stay with their connection; nothing closed twice; freeing returns and leaves nothing open |
| SFTP transfers (`remmina_sftp_client.c`, `remmina_ftp_client.c`) | rows of tasks, `taskid`, `thread_abort`, the thread's own session | add, claim, transfer file or folder, cancel, resume dialog, destroy | main-thread execution, SSH core | user cancels the task that ends or has just begun | rows go forward; a task that is claimed ends; destruction waits for the thread |
| SSH logins, shells and X11 (`remmina_ssh.c`, `remmina_ssh_plugin.c`) | session, methods tried, shell thread, one list of X11 nodes for all shells | host key, connect, authenticate by each method, open a shell, resize, close | libssh, panels, secrets | partial success, retry after a stale password, a shell that ends while it is closed, addresses that are used again | never authenticated by a method that failed; the end is told; no channel writes to a socket of another |
| RDP (`plugins/rdp`) | `rfi`: instance, thread, UI queue, clipboard, reconnection, lists of pressed keys | connect, reconnect, UI objects, clipboard, keys and buttons, new sizes | FreeRDP, main loop | reconnection racing a close; a synchronous UI request from a cancelled thread; a paste that waits in a nested loop | close answers once; an orphaned session cleans itself up; no key stays pressed |
| VNC (`plugins/vnc`) | event queue with a pipe, thread, drawing source, clipboard and cursor sources, pressed keys | connect, listen, process events, chat, close with timeout | libvncclient, main loop | the thread ends while its close timer waits; sources that outlive the session | the end is signalled once; every event is sent; the key that is released is the one that was pressed |
| X2Go (`plugins/x2go`) | pyhoca-cli as a child, chooser of sessions, embedded window | list, choose, terminate, embed, clean up from four sides | pyhoca-cli, X server | the chooser is open while its rows change | one clean-up; the chosen session is resumed |
| SPICE, GVNC (`plugins/spice`, `plugins/gvnc`) | channels, displays, dialog of the password, queue of keys, transfers | signal handlers of a library | the library | signals after the close, dialogs that outlive the session | opened and closed once; nothing freed is used |
| Plugin manager (`remmina_plugin_manager.c`) | table of plugins, secret plugin, list of available ones, its window | load, register, choose, download | all, a server | downloads while the window is closed | a plugin is there once; the best secret plugin is used |
| Profiles, secrets, preferences (`remmina_file*.c`, `remmina_pref*.c`, `remmina_unlock.c`, `remmina_mpchange.c`) | key files, secret plugin, copies in memory, the primary password with its timer | load, save, delete, unlock, mass change | secret plugin, file system | a failure between file and secret; two writers of one file; a timer between test and use | the password that was saved is the one that is read; what was deleted is forgotten |
| Main window, editor, quick connect (`remmina_main.c`, `remmina_file_editor.c`, `remmina_exec.c`) | list and tree, selection, form of a profile | search, edit, copy, delete, rename, connect, import | files, connections | a file that goes while its row is selected; names that are typed letter by letter | an action is about the row it names; a profile has one file |
| Start and exit (`remmina.c`, `remmina_exec.c`, `remmina_widget_pool.c`) | registered windows, hold flag, kiosk mode, icon | register, unregister, exit | all windows | last window closing while another opens, questions in nested loops | the program can be reached or ends |
| Icon and discovery (`remmina_icon.c`, `remmina_avahi.c`) | icon, autostart file, table of services | show, hide, start, stop, found, gone | desktop, Avahi | a service on two interfaces, a daemon that fails | the table is what is announced; what was chosen for the next start is stored |
| Strings, lists, geometry | pure data | parse, insert, remove, scale | - | boundaries | agree with a reference definition |
| WWW, exec, Python, Telepathy, log, statistics, small widgets | forms, HTTP, D-Bus | - | - | - | - |

`PROJECT.json` lists all of them as components, and as hazards the places that a test
hardly reaches, each at its line, with the properties that watch it.

## 2. Modules

| Module | Models | Main correspondence |
|---|---|---|
| `MainCall` | what exec_and_wait promises | one state per thread: idle, requested, executed, dead |
| `MasterThreadExec` | `remmina_masterthread_exec.c`, statement by statement | `mem` counts the allocations of `d`; `pc[t]` is the caller's position (cancellation points included); `frame`/`stack` are the callbacks under way; `ctxlock` is the lock inside `g_idle_add` |
| `ConnectionLifecycle` | opening to freeing of a connection | one record per connection; the handlers, which call one another, are operators on it (`conn_closed`, `on_disconnect`, `closewin`, `close_check`, `plugin_close`), and the actions say who calls them |
| `MessagePanels` | panels and dialogs | `box` is the GtkBox of the page, `visible` the visible children; `loop` the nested loop of a dialog; `thread`/`setup`/`button` the dialog of a plugin thread |
| `SshTunnel` | one tunnel with its thread | `slots` are the three arrays; `pc` the thread's place among the cancellation points; `hand` what it has accepted and not yet stored; `own` what the main thread did with it |
| `SftpTasks` | one SFTP client with its task thread | `rows` is the task list; the states in `Requests` are waits in exec_and_wait, served when the main thread is in an event loop (this is what `MainCall` promises) |
| `ConnectionWindow` | one window with its tabs | `win` is the private structure; `id[s]`/`run[s]` say whether the window knows the number of a source of kind s, and how many are pending; `seat` is what the display server gave us |
| `PluginSession` | what a plugin promises the protocol widget | started, opened, how often closed |
| `RdpSession` | one session of the RDP plugin: its thread, the UI queue, closing and clean-up | `pc` is the thread's place; `req` the UI object it queues or waits for; `ui` the queue with its idle source and the object being served; `data` whether "plugin-data" of the widget still is the session; `surf`/`buf` the cairo surface and the GDI buffer behind it |
| `RdpInput` | keys and buttons sent to an RDP server | the two kinds of keys of the plugin (scan codes and characters), `pressed_keys`, what is let go at the loss of focus; `server` is what the server holds |
| `RdpLayout` | a new size on its way to an RDP server | the timer that every change starts anew; nothing is sent while the session reconnects |
| `RdpClipboard` | the clipboard of RDP in both directions | `srv_data` with its mutex, the nested loop in which a paste waits, time-outs, the abort at the close, the echo of our own change of the owner; a connection that is lost and made again, with what is dropped meanwhile and what is announced afterwards |
| `ScreenGeometry` | areas, pointer, wheel and monitors of VNC and RDP | the integer arithmetic of one axis; the other is alike |
| `VncSession` | one VNC session | the thread's place, its queue of events and the bytes in the pipe, the sources it leaves, the same code run without a thread, close and clean-up; what the tab calls until it goes |
| `VncInput` | keys, buttons and the wheel sent to a VNC server | list of pressed keys, mask, keymap of the preferences |
| `X2GoSession` | one X2Go session | thread, pyhoca-cli, chooser with its rows and terminations, the plug, the four events that clean up |
| `SpiceSession`, `GvncSession` | sessions of the two plugins that wrap a library | signals of the library in any order with the user's; what the close frees |
| `SshAuth` | one login over SSH | `remmina_ssh_auth` and the loop around it: methods of the server in rounds, partial success, three attempts, the key of the host, a stale stored password |
| `SshShell` | one terminal | login thread, shell thread, the exit callback, resizes, close by either side |
| `X11Channels` | X11 channels of all shells | the list of nodes found by address and thread number, both given out again |
| `ProfileStore` | a profile and its secret | the file, the keyring, and copies in memory, saved as a whole; between two runs the service, the plugin or the key may come or go |
| `Preferences` | the preferences file and its dialog | what the program, a plugin, a colour scheme and the recent list write, each after reading, in runs of the program |
| `MultiPassword` | the mass change of passwords | dialog, delayed search, ticked rows, the source that changes one profile a turn |
| `UnlockDialog` | the primary password | timer, nested dialogs, the static record, early returns |
| `FileEditor` | the editor of a profile | names of files as they are typed, widgets of a protocol, save, copy, connect |
| `MainWindow` | the list of profiles | selection, search, lock, delete, edit, connect to one or several; files that go |
| `QuickConnect` | what is typed or imported | URI or name in the search entry, files and drops, import |
| `FileManager` | the folders of profiles, their groups and the tree of groups | the folder is found anew each time, over two runs; the tree is a function of the names of the groups, part by part |
| `StringList` | the dialog of a list of texts | text and rows as sequences; what was stored against what comes back |
| `ToolbarState` | the one tool bar of a window against its tabs | buttons, their sensitivity, pending idle sources, scaling, the frame |
| `HostKey` | the host key and its shortcuts | keys down at the user, the last key, what each tab's server holds |
| `AppLife` | windows, pool, hold, kiosk mode, end of the program | the pool and the copy that is walked, questions in nested loops, the sources after the end |
| `PluginManager` | plugins, secret plugin, window and downloads | the table, the list from the server, elements that are wrong |
| `TrayIcon`, `ServiceDiscovery` | icon with its autostart file; services found by Avahi | what was chosen and what is stored; callbacks per interface |
| `MCSessions`, `MCHandlers`, `MCComponents` | instances of several modules, side by side | the parts, which values their constants may have, and the properties of all of them (section 3) |
| `ConnectionWindow_proofs`, `RdpSession_proofs`, `ConnectionLifecycle_proofs` | theorems about the module of that name | section 4 |
| `Sessions_proofs`, `Handlers_proofs`, `Components_proofs` | theorems about `MCSessions`, `MCHandlers`, `MCComponents`, that is, about their parts | section 4 |
| `Store_proofs` | theorems about the seven parts of `MCComponents` that store something; it goes on from `Components_proofs`, which has the invariants of four of them | section 4 |

Definitions whose name ends in `_Something` after the name of an action (for example
`rcw_kp_ungrab_NotDelayed`) are *mutants*: the same operation with a plausible bug.
They are not part of any specification; substituting one for the original makes TLC
report the property it is listed with in `PROJECT.json`, which shows that the property
can fail.

**How the modules fit.** `MasterThreadExec` is the one below: it implements
`MainCall`, and `SftpTasks` uses a call as two steps (request, serve) on the strength
of that. `ConnectionLifecycle` treats a plugin as a thread of one of two kinds, as
the plugins are: one that `close_connection` stops before it answers (SFTP, SSH), and
one that is asked to stop and answers later (RDP, VNC). What it takes for granted of a
plugin is `PluginSession`, and `RdpSession`, `VncSession` and `X2GoSession` implement that (proved). An RDP session closed before
it is connected is a third kind: it answers at once and its thread goes on as an
*orphan*. `ThreadHasWidget` is therefore no statement about orphans; `RdpSession` has them.
An X2Go session is opened at most once, then over.
(The VNC plugin may say twice that it is over, when its
thread ends under a close of the user; `ClosedOnce` of that module says that it is in no
other case.)
`ConnectionWindow` sees the signals of `ConnectionLifecycle` as the events Connect and Disconnect of a tab.
`SshTunnel` is opened and freed by the protocol widget. What the input modules
(`VncInput`, `RdpInput`) push into a queue reaches the server in order, on the strength of
`VncSession` and `RdpSession`. `SshShell` takes a login as one step, which `SshAuth` spells out.
`MultiPassword` changes a profile in one step, which `ProfileStore` spells out.

### Points worth knowing when reading them

*MasterThreadExec.* A request has one thread, so `d` is named by its thread. Threads
are of three sorts, after the code: those that some `close_connection` cancels
(`Cancellable`), those of them that set `PTHREAD_CANCEL_ASYNCHRONOUS` (`Async`), and those
whose function runs a nested loop (`Nesting`: only the SFTP task thread, with its
resume dialog, and it is never cancelled). The assumption `ThreadAssumption` states
this and the proof needs it: a cancelled thread with a nested loop could be joined by
the callback that serves it.

*ConnectionLifecycle.* `overlap` is a history variable: it becomes TRUE when the user
acts on a connection that still has a source queued or is not open yet, or when the
plugin ends while the user's close is under way. In those cases the code does use
freed objects (section 5), and `NoFault` says that it happens in one case more only: when
the button of the tab is pressed while the panel asks whether to disconnect, `closewin` removes
the page with `gp` still in it, which frees `gp`, and writes `gp->cnnobj` after that. The field `written` records
that write; it is to memory freed a moment before, so the build may go on, and the model does. The
check of `priv->closed` and the call of the plugin in
`remmina_protocol_widget_close_connection` are two actions, because a plugin thread
may run in between. The stop at the first fault is the program's crash.

*SshTunnel.* Every read of the connection state is an action of the thread, every
place where it may be cancelled is in `Cancellable`. Data is reduced to its owner: a buffer
holds the number of the connection the bytes belong to.

*RdpSession.* `fault` is the program following a null pointer or using a queue that is
destroyed; nothing happens after it. `orphan` and `midscale` are history variables, as
`overlap` is: they name the two situations in which the code does go wrong (section 5).
A UI object is its kind and whether the thread waits for it. The mutex of the queue is
`ui.serving # NoUi`: the main thread holds it while it serves, so `Push` waits. The main
thread dispatches other events only between objects, or in the nested loop in which GTK
asks the owner of the clipboard for its formats (`Dispatching`). `Close` and the two actions
after it are the reading of the flags of the session and what is done on their
strength, because the thread may write them in between. `gdi_resize` always brings a new
buffer: with the old size it does nothing.

*VncSession.* Where no thread can be started the plugin runs the same code from sources of
the main loop, so that part of the actions has two callers. The byte in the pipe and the
event in the queue are separate, since a byte may be read before its event is seen; as long as the library has
data of the server buffered (`sess.buffered`), the pipe is not looked at. The tab outlives the clean-up when a panel tells why
the connection ended (`gp.tab`). Until it goes, `call_feature` may come from the tool bar or from the loss of the focus, and unlike the
handlers of `Input` it tests nothing (`hist.called`).

*RdpClipboard.* The server's list, its answers and its requests are on the `wire`, what the main thread pushes for the thread is in
`events`. `Lose` empties the wire, `Rejoin` sets up the channel again, with a new mutex, and `Resume` brings the next
`monitor_ready`; between the first and the last of them every push is dropped. `again` counts the reconnections and
keeps whether the request waited for was dropped after the channel was new.

*Faults and their names.* In the modules of sessions, logins and windows, `fault` is again
the program using something freed or null, and nothing happens after it. A history record
`hist` keeps the circumstances that matter (an event after the clean-up, a cancellation in
the middle of a removal, a file gone since its row was read, ...); the property about
faults says under which of them alone a fault comes. So a property named `FaultKnown`,
`LoadFaults`, `ExitFaults`, `PluginFaults`, `FreedUse` or `StoreFaults` does two things: it records a
shortcoming of the code (section 5) and it shows that there is no other of its kind.

*ConnectionWindow.* The environment is the display server and the user. It is assumed
that: keys, clicks and toolbar actions reach the window only when it has the focus;
focus events may come twice (GTK sends both a focus and a state event, and
`rcw_state_event` calls the same handlers); a grab may fail; another client
may take the seat at any time, as a whole, and the server tells us by a crossing
event of mode UNGRAB, which does not come while we hold the seat; a connected tab is
closed only through a disconnect (module ConnectionLifecycle). Everything else (crossings, timers,
idle sources, plugin signals, tab and view mode changes) comes in any order.

## 3. Runs

| Run | Question | Instance | States |
|---|---|---|---|
| `mte` | Can cancellation break the rendezvous? Memory, order, refinement of `MainCall`, termination | one plugin thread (cancelled at any point), one SFTP thread with a dialog | 1.6 thousand |
| `life` | Do the closings of plugin, user and window agree? | two connections, each with any profile and either kind of plugin | 1.9 million |
| `window` | Who holds the keyboard, and do the timers end with the window? | two tabs, two sources of a kind; symmetric | 1.5 million |
| `rdp` | Is a session closed and freed once, whoever begins? Are waiting threads answered? Is the surface fresh? Does a close end? | one session, two resizes, two attempts, fair | 34 thousand |
| `sessions` | The other workers: is their end told once, are their sources removed, is what they transfer kept together, does what is asked for end? | six parts, fair (below) | 235 thousand |
| `handlers` | What runs in handlers of a session: do keys and buttons come up again, is the screen right, are logins and locks sound, do clipboards and sessions end well? | 12 parts (below) | 4.9 million |
| `components` | What is outside of a session: one panel visible and the dialog on it, what is stored, what the windows, the plugins and the end of the program know of one another | 13 parts (below) | 1.8 million |
| `life_detach` | (violation) is the widget detached in time? | one connection | - |
| `tunnel_notice` | (violation) does the announcement find the tunnel? | one connection | - |
| `sftp_destroy` | (violation) does the destruction return? | one task, fair | - |
| `vnc_keys` | (violation) is the key released that was pressed? | two keys that the keymap exchanges | - |
| `x2go_resume` | (violation) is the session resumed that was chosen? | two sessions, one terminated before | - |

**Runs of several parts.** `MCSessions`, `MCHandlers` and `MCComponents` put modules side by side
that share no state. A variable (`part`, or `component` in the other two), chosen in the initial state, says
which one a behaviour is about; in the latter two the variables `s1`, `s2`, ... are those of its module. So the
states are the sum of the parts' states, not their product, and a property of the run is the
conjunction of the properties of the parts. Every conjunct has a name in its own module and a
comment there. The constants of the parts are constants of these modules (`SessionBounds`,
`HandlersBounds` and `ComponentBounds` say what they may be), so that the theorems of section 4
are about the very specifications that TLC runs. Fixed are only what the code itself enumerates (the protocols of a URI, the four
folders, the fields of a dialog) and the words of `QuickConnect`, one for each way in which a text can hold the signs that the code
looks for.

| Property of `sessions` | Conjuncts |
|---|---|
| `FaultsKnown` | `VncSession`: ClosedOnce, FaultNeedsLate; `X2GoSession`: FaultKnown; `SshTunnel`: ClosedOnce (exception `torn`: a cancellation in the middle of a removal does make the main thread free a channel twice); `ConnectionLifecycle`: NoFault |
| `SourcesKnown` | `VncSession`: DrawKnown; `RdpLayout`: OneLayoutTimer |
| `TransfersPaired` | `SshTunnel`: Paired, HoleHidesNone, FreedClosesAll, TransferOverBeforeFree; `SftpTasks`: GoneMeansNoThread; `X2GoSession`: ResumesChosen |
| `KeepPromises` | `VncSession`, `X2GoSession`: refinement of `PluginSession`; `SftpTasks`: RowsForward |
| `ClosesEnd` | a close or a free leads to the end (VncSession, X2GoSession, SshTunnel, ConnectionLifecycle) |
| `WorkEnds` | an event of the user is sent, if the library does not have data buffered for ever; a claimed task ends, an ended tunnel is destroyed, a new size reaches the server (VncSession, SftpTasks, SshTunnel, RdpLayout) |

| Property of `handlers` | Conjuncts |
|---|---|
| `HandlersTyped` | TypeOK of the twelve modules |
| `NothingStuck` | `VncInput`, `RdpInput`: KeysListed, ButtonsHeld; `HostKey`: HostKeyStays, HeldOrOdd, GrabAsAsked |
| `ScreenRight` | `ScreenGeometry`: DrawnCovers, PointerReturns, WheelArrives, PrimaryAtOrigin; `ToolbarState`: BarFollows, TogglesTell, ModePossible, ViewonlyTold, FrameRight |
| `LoginsSound` | `SshAuth`: SuccessMeansAccepted, FewAttempts, SessionThere; `SshShell`: FaultKnown, HungKnown, EndIsTold; `X11Channels`: OwnSockets, NodeFound; `UnlockDialog`: LetThrough, DialogThere |
| `SessionsSound` | `RdpClipboard`: NoSelfLock, BusyEnds, KindsKnown, CloseAborts, NoEcho; `SpiceSession`: ClosedOnce, OpenedOnce, EndTold, FreedUse, DialogLasts; `GvncSession`: NoEcho, FaultsKnown, ToldOnce, KeysArrive |

| Property of `components` | Conjuncts |
|---|---|
| `ComponentsTyped` | TypeOK of the thirteen modules |
| `PanelsRight` | `MessagePanels`: OneVisible, NoDuplicates, DialogOnPage |
| `StoreSafe` | `ProfileStore`: PasswordKept, SecretsForgotten, StoreFaults; `MultiPassword`: ChangesTicked, ChangesCounted; `Preferences`: ChoicesKept, PluginValuesKept, ColorsThere, RecentsOnce; `FileManager`: ProfilesKept; `FileEditor`: ProfilesStay, OneFile, NoStaleWidget; `QuickConnect`: UriKept, FileOpened, QuickIsSaved, ImportTold |
| `ListsReturn` | `StringList`: RowsReturn; `FileManager`: TreeRight |
| `AppSound` | `AppLife`: Reachable, AskedToClose, ExitFaults; `TrayIcon`: IconShown, AutostartMeant; `ServiceDiscovery`: TableTrue, OffShowsNothing; `PluginManager`: RegisteredOnce, SecretFirst, PluginFaults, DownloadTold; `MainWindow`: DeletesNamed, RowsMeant, LoadFaults, AsksFirst |

States of the larger parts. In `handlers`: RdpClipboard 2.9 million, ToolbarState 1.17 million, HostKey
663 thousand, SshAuth 82 thousand, GvncSession 19 thousand, SpiceSession 15 thousand, VncInput and RdpInput
14 thousand each, UnlockDialog 13 thousand. In `components`: FileEditor 658 thousand, ProfileStore 481 thousand,
StringList 138 thousand, FileManager 134 thousand, AppLife 95 thousand, Preferences 147 thousand, ServiceDiscovery 49 thousand,
MainWindow 65 thousand, PluginManager 38 thousand; MessagePanels 2.5 thousand, QuickConnect, MultiPassword and
TrayIcon are small. In `sessions`, VncSession has 124 thousand, SftpTasks 78 thousand, SshTunnel 10 thousand and
ConnectionLifecycle (one connection) 1.5 thousand. Most of these modules hold more mutants
than `PROJECT.json` lists: each can be substituted for its original in the same way.

What the properties of the other runs say:

* `NoDangling`, `ReturnIsLast`, `MainNeverStuck`: the two owners of a request agree on
  who frees it; a caller that resumes is the only one left; no dead thread keeps the
  mutex the main thread needs. `CallReturns`: a call ends, unless an asynchronous
  cancellation struck inside `g_idle_add` and left GLib's lock taken.
* `NoFault`, `ThreadHasWidget`, `ClosedTabSaysSo`, `NoSilentClose`: see the
  table of section 1; each relates the plugin's state to the tab's.
* `PanelsRight`: a page with panels shows exactly one, through migration, nested loops and a
  panel that covers a dialog; the panel of a dialog is on the page as long as its answer is awaited.
* `NoGrabUnfocused`, `GrabNeedsConnection`, `SourcesDieWithWindow`, `SwitchFindsTab`:
  neither a held grab nor a timer that would take one survives the loss of the focus,
  nor the last connection; a destroyed window leaves no source but those whose number the
  code overwrites; the delayed half of switch-page finds its tab.
* `KeepsPromise`: the session signals that it is open and that it is over at most once
  and in this order, also when the user closes while the clean-up is queued. `FreedLast`:
  it is freed once, after its thread. `FaultNeedsOrphan`: nothing is followed to a session that
  is gone, unless it was abandoned while connecting. `SurfaceFresh`: no drawing from a
  buffer that `gdi_resize` freed. `SyncAnswered` and `CloseEnds`: the waiting thread
  resumes; a request to close ends the session or is forgotten by a reconnection.

**Bounds.** Two threads are enough for the rendezvous, whose requests share only the
main loop's queue, stack and lock (and the theorems hold for any number). Two
connections show every interference of `rcw_close_all_connections`, which is the only
handler over several. Three panels are the dialog, one shown before and one after.
Two tabs are the visible one and another; the theorems hold for any number. Three
connections make removal from the middle, the end and a list of one differ. Two tasks
let one be claimed while the other is cancelled or added. Two resizes are one
after another, two attempts a failed one before a success; the theorems hold for any number. One update and one progress of an earlier failure may be
in the queue of the session, since they are all alike. `MaxSources`, `MaxConns` and
`MaxTasks` are bounds on requests of the user or the peer, and appear in the guards of
the actions that make those; `ThreadUpdate` allows one update in the queue at a time, since
updates are all alike. Among the parts, two profiles, two groups and two keys are the one at hand and
another; two runs of the program are one that stores and one that reads; a server width of
5 and a widget width of 7 contain every relation of the two that rounding tells apart
(smaller, equal, larger, no common divisor); the clock of `UnlockDialog` goes three times as far as its
time-out. Three servers are one more than the list of recent ones holds, which may also be told to hold none; a profile is called "name", as the code calls
one without a name, or otherwise. `MaxCopies` bounds the copies on the server and the lost connections together. `MaxPressed`, `MaxHeld`, `MaxRows`, `MaxIds`, `MaxUses`, `MaxMessages` and `MaxChans` bound what the
user, a peer or an allocator may do, in the guards of the actions that do it.

**Deadlock** is not checked where a system legitimately stops: all threads cancelled,
all connections closed, the tunnel freed, the widget gone, the session over, the program
ended, the input converted. `window` checks it.

**Fairness.** `mte`: the main loop dispatches, threads are scheduled, a mutex is not
refused for ever (strong fairness of the lock), and a dialog is answered in the end.
`sessions`: threads and the main loop run, a dialog of a transfer is answered, a
thread asked to stop stops; files and folders end, and a call of the network that is tried again and
again comes to an answer (strong fairness of the end of a copy, a listing, a folder, of a
byte of the pipe being seen). That the byte of an event is ever seen needs a premise beside the fairness, stated in `EventsSent`: the
library does not have data of the server buffered for ever, since as long as it has, the code handles that and does not look at the
pipe (`vnc_plugin.c:1143-1144`). It is not assumed that a server answers in time, that anybody connects to a
tunnel or sends through it, nor that the user does anything else. `rdp`: both threads run, what FreeRDP and
the server are asked for comes to an end, and idle sources are dispatched in the end (strong fairness of `Serve`, `Served`
and `Cleanup`: the user does not click so fast that none ever is). No fairness is
assumed of the user in the others.

## 4. Proofs

TLAPS checks the following for *every* value of the constants that the named assumptions
allow. Most of these theorems are about the specifications that the runs check, and name
their properties: the run shows the property on a small instance, and the theorem in general.

**`MasterThreadExec`** (any set of threads, `ThreadAssumption`; the proofs are at the end of the
module). `IInv` says, besides types: a queued request is queued once and
`cancelled` tells exactly whether its thread is dead (`QueueInv`); the thread of a callback
under way is alive, knows it, and is not about to be cancelled, because only the
innermost callback may be one that runs no nested loop, and only nested loops cancel
threads (`FrameInv`); the flags agree with the caller's position (`CallInv`); a thread
with a cancel request is one that is allowed to be cancelled, and dead or being joined
(`CancelInv`). From it: `Typing`, `MemorySafety` (NoDangling), `CallerIsLast`
(ReturnIsLast), `NeverStuck` (MainNeverStuck), and `Refinement`: the rendezvous
implements `MainCall` under the mapping `call` (a request is *executed* when its
function returns, not when the caller learns of it).

**`ConnectionWindow_proofs`** (any set of tabs, any bound of sources). The properties
are not inductive: a grab flag could be set with no focus, or a timer pending whose
number the window lost. `IInv` adds: the window's numbers and the pending sources agree
exactly, but for the two kinds whose number is overwritten (`Booked`); the seat is held
only if one of the two flags says so (`WinOK`), which is what makes the early return of
`rcw_kp_ungrab` harmless; a flag or the number of a grab timer implies focus *and* a
connected tab (`Grabbing`); the visible tab is open. Every function on the
window (`rcw_kp_ungrab`, `rcw_keyboard_grab`, ...) has a lemma that says what it keeps
of this, and the two step lemmas only combine them. Theorems `FocusGuardsGrab`,
`ConnectionGuardsGrab`, `NoStraySource`, `SwitchSafe`, `Typing`.

**`RdpSession_proofs`** (any number of resizes and attempts, `SessionAssumption`). `IInv`
says: what the thread asks for determines where it goes on (`ReqInv`); a session is
connected once and reconnects from there, and an attempt beyond the limit is the last
(`PhaseInv`); the widget has the session exactly until it is told of its end, and only
an orphan or a freed session is without widget (`LifeInv`); the idle source dies with it
(`HandlerInv`); "connected" is the first object ever queued, the object somebody waits for
is the last in the queue, and who has the answer finds the queue empty (`QueueInv`); a
connected session has a surface, unless "connected" is still to come or a resize is
between its two requests (`ScreenInv`). The last two are why destroying the surface never
meets a null pointer. One lemma per conjunct, one case per action. Theorems `Typing`,
`FreedOnceAtTheEnd`, `OnlyOrphansFault`, `SurfaceNeverStale`, and `Refinement`: the session
implements `PluginSession`.

**`ConnectionLifecycle_proofs`** (any set of connections). Every handler works on the record
of one connection, so the invariant is a predicate `Good(r, t, m)` of one record and of what
the main thread has still to do with it (it is among the connections to close, its close
request has passed the check). Its conjuncts: nothing is heard of a plugin before it is
opened, and an unopened tab is in its place (`Opening`); a thread that runs has its tab, has
queued no more than "opened" and one update, and not its end (`Alive`); an end that is queued
is the last source, and the tab is there to receive it, as long as no two closings
overlapped (`Orderly`, `EndShown`); what the main thread is about to do is possible
(`Pending`). There is one lemma per handler or action, and the step lemma only sorts the
connections into the one at hand and the others. Theorems `Typing`, `FaultsOverlap`
(NoFault), `ThreadsHaveWidgets` (ThreadHasWidget), `TabsSaySo` (ClosedTabSaysSo) and
`NothingTakenUnread` (NoSilentClose, an action property).

**`Sessions_proofs`** (any number of events, sessions, tasks and connections, any sizes:
`SessionBounds`). One inductive invariant for each part, and `Invariance` and the theorems after it put
them together: `SessionsTyped` (TypeOK), `SessionsEndOnce` (FaultsKnown), `SourcesStayKnown` (SourcesKnown),
`TransfersStayPaired` (TransfersPaired) and `PromisesKept` (KeepPromises: the refinement of
`PluginSession` by VNC and X2Go, and an action property of the transfers). The part
`Life` is an instance of `ConnectionLifecycle_proofs` with one connection, whose theorems carry over (`LifePart`).

* *SshTunnel.* The properties say that things are not
  mixed up and not closed twice; the invariant has to say which sockets and channels are open
  at each place of the thread. What is open belongs to a slot or is in the hand of the
  thread (`TunnelOwned`); what belongs to a slot is open (`TunnelKept`), but for what the thread is just
  removing or has closed already (`TunnelHasSocket`, `TunnelHasChannel`); a cancellation in the
  middle of a removal leaves only the first direction (`TunnelTorn`), which is enough for the
  freeing to close the rest. Each slot was made by a connection of its own (`TunnelRoom`,
  `TunnelDistinct`); a channel that is missing is found by the pass over the channels before another
  connection is accepted (`TunnelHoles`); the arrays are empty wherever a handler takes them to be
  (`TunnelEmpty`). Two lemmas say what appending a slot and filling a gap with the last one do to
  the arrays, and there is one lemma per kind of step.
* *VncSession.* The invariant follows the thread: before the
  connection is open nothing was signalled, drawn or queued, from there on the thread has its client
  (`VncBefore`, `VncAfter`, `VncPlaceInv`, `VncDrawInv`); once the end was signalled it does not move any more, and
  only then is the queue freed (`VncEndInv`); a close disconnects, and one that begins after the end was
  signalled began while the thread signalled it (`VncCloseInv`); a clean-up that finds nothing on its way leaves a session
  to which only the tab comes back, until it goes (`VncLateInv`).
  The types are shown field by field, since the solver loses itself in large records.
* *X2GoSession.* Four events clean up. The plugin data lives exactly until the end is signalled, and a
  thread that runs has its data (`X2GoLiveInv`); a window is embedded only while the thread waits for it,
  and only then is the session open (`X2GoOpenInv`); as long as no session was terminated the rows of the
  dialog are those of the list, so the path of a row is the row (`X2GoChooseInv`, and a lemma about the filter: the
  number of elements of an interval). The known race of two clean-ups is what `FaultKnown` excepts.
* *SftpTasks.* A row is there exactly for the numbers given out (`SftpRowsInv`); while the thread claims or
  transfers, its task's row is in that state or was removed (`SftpTaskInv`); a dialog is about a row that is
  there (`SftpDialogInv`). From it: a row never goes back, and a client that is gone has no thread.
* *RdpLayout.* Its properties are inductive with its types.

**`Handlers_proofs`** (any keys, buttons, tabs, shells, displays, transfers, texts, sizes of the screen and bounds:
`HandlersBounds`). Theorems `HandlersInvariance`, `NothingSticks` (NothingStuck), `LoginsStaySound` (LoginsSound),
`SessionsStaySound` (SessionsSound), `ScreenStaysRight` (ScreenRight) and `HandlersStayTyped` (HandlersTyped), so every
property of the run. By part:

* *VncInput, RdpInput.* What is remembered was sent: it has passed the keymap, and a button in the mask
  is held by the user or was let go unseen. The lemma `LastTakesPlace` says that
  `g_ptr_array_remove_index_fast` loses no other element, `LeastOf` (a consequence of well-foundedness) that the search for the first
  entry finds one.
* *HostKey.* While the host key is down it was pressed alone and is unused, or another key makes it
  used (`HkHostInv`); a tab that is only viewed holds nothing but what it is known to (`HkViewInv`).
* *SshAuth.* Who is authenticated has nothing left to do (`LoginAuthInv`); a session is missing in the one case in
  which a partial success is followed by a question for a passphrase (`LoginLoopInv`); with one method the method
  stays, and each refusal is counted (`LoginCountInv`). The rounds a server asks for are any sequences of
  sets of methods.
* *SshShell.* Each use of something freed, each lock and each cancellation has left its reason behind
  (`ShellUseInv`); the end is told by the login, by the callback and by one close, never by all
  (`ShellCountInv`, `ShellOnceInv`); who comes to its end has told it or is still to (`ShellToldInv`).
* *X11Channels.* As long as nothing was left behind, the nodes are those of the channels in use, no two
  of the same, each with the descriptor that its channel opened (`X11NodesTrue`).
* *UnlockDialog.* Without a nested call the static record is that of the one call there is
  (`UnlockCallsInv`); a timer that lets a use through knows when the password was given or last used (`UnlockTimerInv`).
* *RdpClipboard.* Until a connection is made again, the main thread has the mutex exactly from its request on and while it serves
  its loop (`ClipWaits`); a request that is waited for is on its way to the server, or its answer back (`ClipBusy`), or was lost with
  the connection (`ClipLost`); as long as nothing odd has happened
  there is one at most, and the data kept has the format last asked for (`ClipOneRequest`,
  `ClipDataFits`); until then, the clipboard is announced only when it is not this widget's (`ClipAnnounced`); a paste stops before the session is freed (`ClipClosing`). Queues are reasoned about through
  `Has` and `Once` (an element is in it; it is in it at most once) and what appending and taking the head do to them.
* *SpiceSession.* The end was not told, or nothing is there that could tell it again (`SpiceEnds`); what is freed is known to
  be (`SpiceFreed`).
* *GvncSession.* Nothing is connected before the opening nor after the close (`GvncStages`); a widget that owns the
  clipboard is not freed (`GvncOwnerLives`).
* *ScreenGeometry.* One area is queued as long as the widget does not show all that the server has sent, it is on the
  widget or the screen, and it covers what is missing (`ScreenInv`). The work is in the arithmetic of `scale_area`: with `W` the width
  of the server, `V` of the widget, pixel `p` is drawn from `p*V div W` up to `((p+1)*V + W-1) div W`, and the area that is scaled,
  widened by one scaled pixel and two or four, begins and ends outside (`ScreenScaledBegins`, `ScreenScaledEnds`) without leaving the
  widget (`ScreenScaledFits`), for any `W` and `V`. Four lemmas about the quotient (`ScreenDivIs`, `ScreenDivBelow`, `ScreenDivAbove`,
  `ScreenDivGrows`) make the nonlinear goals linear: the products are hidden behind names before the solver sees them. From the
  same lemmas, a position that is turned into one of the widget and back is off by at most one pixel and the width of a scaled one.
* *ToolbarState.* That the bar tells the mode of the tab in view is not inductive, since the bar may have been set for another
  tab: `BarTells` and `BarCan` speak of the tab the bar was set for, in view or not, and what the toggles that are on, or can be
  used, say of what its plugin can do. One lemma for setting the bar (`BarSet`), one for a mode given to the tab in view
  (`BarModeChanged`); the other steps leave the modes.

**`Components_proofs`** (any panels, profiles, windows, places, plugins and bounds: `ComponentBounds`). Theorems
`ComponentInvariance`, `PanelsStayRight` (PanelsRight), `AppStaysSound` (AppSound). By part:

* *MessagePanels.* Types, `NoDuplicates` and `OneVisible` are inductive together: the last child of a box without
  duplicates is a panel other than the one removed. Two lemmas about sequences (removal of a position,
  reversal) carry it. `PanelsDInv` adds what the dialogs need: only one of the two kinds is under way at a
  time, and a set-up that is queued has its thread. With it, showing a panel removes none and removing one
  leaves the others, so the panel whose answer is awaited stays.
* *MainWindow.* The file that is selected is the row clicked last, and is there unless one vanished (`MainSelectedInv`); what an
  action has still to do is there, what is to be deleted was named (`MainOpInv`).
* *AppLife.* Exits and questions are a stack of nested loops: every frame but the newest asks (`AppAsking`), the
  depth is bounded (`AppDepth`), a program that nobody can reach is ending, or the source that will see to it
  is queued (`AppSeen`), and an exit has every open window still before it, unless one refused or came late
  (`AppVisited`). The source that looks whether to exit comes before the one that frees the main window (`AppDeleting`).
* *TrayIcon.* The file stays whole until it is lost.
* *ServiceDiscovery.* What the table has is there, or its removal is on its way (`DiscGone`, `DiscFoundTrue`); what is
  there is in the table, known to be missed, or on its way (`DiscComing`). The messages are a queue of any
  order of interfaces; a listing of all places is a sequence without repetition of at most as many as there are (`AllListed`).
* *PluginManager.* The table holds each plugin at most once and a library that registered was loaded (`PlugOnce1`, `PlugKnown`);
  requests and answers together keep within their bound (`PlugRoom`, by cardinality); names are freed only by scripts
  (`PlugFreed`).

**`Store_proofs`** (any profiles, names, passwords, texts, groups, servers and bounds: `ComponentBounds`). Theorems
`StoredInvariance`, `StoreStaysSafe` (StoreSafe), `ListsComeBack` (ListsReturn), and `ComponentsStayTyped` (ComponentsTyped, with
`ComponentInvariance` of `Components_proofs`). The invariants of `ProfileStore`, `MultiPassword`, `FileEditor` and `Preferences` are in
`Components_proofs`, those of the three that read lists and texts here, which keeps either file within a quarter of an hour of
the prover. By part:

* *Lists.* The library's induction takes an operator as a parameter, which no prover here can instantiate; induction over a
  *set* of numbers can be had from `LeastOf` (`UpTo`: what holds of 0 and of the next number with each number holds up to `m`; a list is
  run through in the same way). With it a function that is defined along a list, as the text of the rows or the
  levels of a group are, is shown to exist and to be unique (`RunThere`, `RunsAlike`, `RunIs`), and its value after each element is
  the next step of that before.
* *ProfileStore.* The password that was saved is what a load would give in the world it was saved in, whichever world is there
  now (`StoreLoadedIn` in `StoreInv`); copies in memory were made in the present one.
* *MultiPassword.* While profiles are changed, those done are rows before the one at hand, nothing is searched, and no profile
  has two rows (`ChangeInv`).
* *Preferences.* What the next start would read is what the user chose last, at each point where no program runs or the file
  is not there, unless it is known to be lost (`PrefStoredMeant` in `PrefInv`); an empty colour was written before the colours were read.
* *StringList.* The text is that of the rows last left (`ListInv`). `ListPiecesAre`, `ListTextIs` and `ListValuesAre` say what
  `g_strsplit`, `get_text` and the reading of the rows compute token by token and row by row; together they give back each row that has
  a value, if no cell has the dividing sign.
* *FileManager.* The folder and the groups apart. A tree is right if every node has just the nodes one part longer for its
  children, in order (`FileTreeOk`); adding a node keeps that (`FileNodeAdded`), `FileLevelIs` says what one level of `add_group` adds, and so
  the nodes of a group are those of its parts (`FileNodesAre`), whatever was in the tree.
* *FileEditor.* The file that an editor would delete holds its own profile, one that was never saved, or one that has another
  file too, unless a letter typed or a connection has excused or revived it (`EditFileMeant`, `EditFileKnown`); the widgets that are read for a protocol are there
  (`EditPointersGood`).
* *QuickConnect.* A text has its signs where `strstr` and `strchr` find them first: one lemma for each form of a URI. The
  lemmas are about any sequences of words without those signs; the invariant is about the words of the module.

There are two runs of parts rather than one so that the context in which the prover sees each obligation stays small: it holds
every definition of every instance.

**Only model-checked.**

* Liveness (`CallReturns`, `CloseEnds`, `SyncAnswered`, `ClosesEnd`, `WorkEnds`): it needs ENABLED and fairness, which are out of the
  prover's reach. Every other property of the passing runs is a theorem.
* The five runs that find a violation, which are what they are: a counterexample on a small instance.

The proofs rest on the named assumptions about the constants (`ThreadAssumption`, `SessionAssumption`, `SessionBounds`, `HandlersBounds`,
`ComponentBounds` and the few in the modules themselves), each of which TLC evaluates for the values of the run. They say that bounds are
natural numbers, that a sign the modules use for "none" is no name of a thing, that what a service lists is finite, and what sort a
constant is of. One is more than that: `Cardinality(Places) <= MaxMessages`, so that a listing of all places fits into the queue
whose length the model bounds.

## 5. What the code does otherwise

Five runs show the program doing what its own comments rule out.

* `sftp_destroy`: `remmina_sftp_client_destroy` sleeps in the main thread until the
  task thread has gone ("hopefully the thread is handling things correctly"), while
  that thread may be waiting for the main thread. The application hangs.
* `life_detach`: the close button of a tab frees the widget when `priv->closed` is set,
  before the queued `conn_closed` has run, which then follows a freed pointer.
* `tunnel_notice`: the source that announces the end of a tunnel may run after the
  tunnel was freed, or call a `destroy_func` nobody has set.
* `vnc_keys`: the release of a key looks up the keyval that was sent
  ("When sending key release, try first to find out a previously sent keyval",
  `vnc_plugin.c:1636`) and applies the keymap to it once more; with a keymap that exchanges
  keys, as the default one does, the key that was pressed stays down at the server.
* `x2go_resume`: the chooser of sessions converts the path of the selected row
  ("determines the selected row", `x2go_plugin.c:804`) from one in the filtered list as if
  it were one in the unfiltered list. After a termination has hidden a row another session is
  resumed.

The models reproduce other shortcomings that no text contradicts. Where a property could not hold
because of one, the property names the circumstance under which alone it fails. They are, by place:

* *Threads and dialogs.* A task added at the wrong moment loses its wakeup; a dialog set up for a tab
  that is gone is never answered, nor is one answered before the thread waits.
* *Connection.* The button of the tab, pressed while the panel asks whether to disconnect, frees the widget with the page and then
  writes to it (`rcw.c:3602`, 3616).
* *Window.* A timer whose number is overwritten outlives its window; the end of a background tab clears
  the grab setting of the visible one (`rcw.c:4603`); a tab that moves to another window takes a
  pending source of that one with it (3769). A background tab that connects sets the one tool bar (4553);
  a click before the delayed half of a switch puts a tab in a mode its plugin cannot do
  (1725, 3764); the view-only button shows the state of another tab, or stores an uninitialised
  one (1751-1765). Keys released while the host key is held stay pressed at the server (4322-4325), and
  only the visible tab is told of a loss of focus (3119-3126).
* *RDP.* The thread of an orphan reads "plugin-data" again after a refused logon, or queues
  "connected" into a queue that is gone; a request to close is forgotten when the
  reconnection succeeds; the surface is re-created on a buffer about to be freed when the
  user changes the scale during a resize; a cancelled SSH login after a refused logon is asked for again without
  end. A paste is aborted by the change of owner that the plugin itself caused (`rdp_event.c:974`); a paste that
  timed out stays busy, until the connection is made again; a request made at the end of a reconnection is dropped while the paste
  waits for it (`rdp_event.c:158`); after a reconnection the clipboard is announced to the server even if it is the server's own
  (`rdp_cliprdr.c:208-219`), and the mutex is made anew under a paste that waits; the session may be cleaned up in the nested loop of a paste. One kind of key
  event is sent with fields that nobody set (`rdp_event.c:811`).
* *VNC.* The tab that is left with a panel after the end still calls the plugin: when the window loses the focus, the releases are looked for in
  `pressed_keys`, which the clean-up has freed (`rcw.c:3119-3126`, `vnc_plugin.c:1582-1600`). An event pushed between the last look at the queue and the reading of the pipe waits for
  the next; the chat and the clipboard come back after the clean-up; the end may be signalled twice.
* *X2Go.* The answer to a termination that failed is ignored; a chooser closed without a row polls for
  ever; a double click after a termination resumes another session; the embedded window may go
  after the clean-up (`x2go_plugin.c:1569`); the limit of 20 s is not looked at in the inner loop (2794-2833).
* *SPICE, GVNC.* Keys still queued, and transfers under way, use what the close has freed
  (`spice_plugin.c:227`, 248, 566); another tab chosen while the password is asked for closes the session.
  The handler of the clipboard is never disconnected (`gvnc_plugin.c:713`); cancelled credentials leave the library waiting.
* *SSH.* After a partial success a reconnection uses a session that is null; a shell closed while
  its exit is queued is used after it was freed; its thread may keep a lock for which the main loop then waits; a refused
  shell leaves the connection open; nodes of X11 channels are found by addresses that were used
  before (`remmina_ssh.c:486-605`).
* *Profiles and secrets.* A failure of the keyring is silent; a profile loaded while the keyring was away loses
  its password at the next save; an empty password with a plugin that stores none leaves the secret (`remmina_file.c:765-785`).
  Every letter typed into the name of a profile names its file anew, and every letter after
  the first deletes the file of the name before, whoever wrote it (`remmina_file_editor.c:2219`); the old file is deleted before a save that may fail (2233); a connection that
  uses the old name brings it back. A rename overwrites without asking (`remmina_file.c:115`).
  The folder of profiles is chosen anew at every use, and an old one wins when it appears.
* *Primary password.* An early return leaves the timer stopped; a nested question overwrites the static record of
  the outer one.
* *Preferences.* The first save, before the colours were read, writes empty ones (`remmina_pref.c:879-893`); a
  colour scheme reads the file again and drops lists not yet saved. A "§" in a text of a list loses the rest of it.
* *Main window.* A profile locked by "Require password to connect or edit the profile" (`remmina_file_editor.c:1456`) is edited
  unasked when no primary password is in use (`remmina_main.c:1016-1019`); copying and deleting do ask. Several profiles connected at once are
  asked about if editing is locked, not connecting. `AsksFirst` has these two exceptions. A file that has gone since the list was made gives a null profile (`remmina_main.c:984`, 1015, 1047); a group among
  the rows to delete (1175); a refused unlock leaves its modal question (1187). A URI typed into the quick connect is cut at
  "%" (`remmina_exec.c:260-264`), a dropped one keeps its escapes (`remmina_main.c:1760`).
* *Start and end.* A connection that ends between the test and the end of the program (`remmina_main.c:1959-1969`,
  `remmina_exec.c:147`); the question of the kiosk mode while a copy of the pool is walked. The
  plugin window destroyed with its parent leaves a pointer (`remmina_plugin_manager.c:1394`), a freed name stays in the list of
  plugins (443-458), and one bad element drops the rest of the list (848). The choice of the autostart is lost when
  the dialog closes before the icon was shown (`remmina_pref_dialog.c:283`). A service seen on two interfaces goes
  when it leaves one (`remmina_avahi.c:146-151`); a daemon that failed stays "started".

## 6. Not modelled

External libraries and services: the remote protocols themselves (FreeRDP, libssh, libvncclient, spice, WebKit),
HTTP, D-Bus, ciphers. What the models know of them is how the code calls them and what answers it
provides for. Drawing, wording and layout. The reuse of descriptor numbers by the kernel, and memory reuse
by the allocator except where the code compares addresses (`X11Channels`): a freed object that is used is
a fault, whatever it would read.

Components left out, and why:

* *WWW plugin, exec plugin*: WebKit and a child process do the work; each keeps a flag or two
  on the main thread, and nothing of it is read later by somebody else.
* *Python wrapper*: glue between two object models; its behaviour is that of the interpreter.
* *Telepathy plugin*: D-Bus calls without state.
* *Scheduler*: a timer that sends a report once in a while; one action.
* *Logging, information and statistics*: text for a window or a server. The thread of the downloader,
  which saves the preferences and touches GTK outside the main thread (`remmina_curl_connector.c:165`,
  243), is undefined behaviour at the level of the library, not a protocol between parts.
* *RDP settings and file format*: a form and a table of keys, copied field by field.
* *Small widgets*: key chooser, buttons, entries.
* *External commands*: one function, synchronous. Reading it shows that the pre- and post-commands
  never run: `remmina_ext_exec.c:79-87` reads the command into one variable and formats another, which is still
  null, although `remmina_protocol_widget.c:327` says "Exec precommand before everything else".

Parts of modelled components left out: tabs that move between windows; the browsing of SFTP folders (a table
filled by one call after another); the text of the chat (what its window pushes for the server counts as an event of the user like the others);
the walk of `remmina_ssh_close_all_x11_ch` (`remmina_ssh.c:591-604`), which does not take the mutex of the list of X11 nodes and is one step here
(what it leaves behind is excepted in the properties of `X11Channels`, which say nothing of that race); the encodings and the drawing of the protocols;
the forms of the preferences other than those that store.

## 7. Plan

What would add most next:

1. Tabs that move between windows, as an action of `ConnectionWindow` over two windows, for the source lost at
   `rcw.c:3769`.
2. The browsing of SFTP folders, composed with `SftpTasks` over the session that they share.
3. The second axis of `ScreenGeometry`: the code does the same for both, so the lemmas about the quotient would be cited twice.
4. The plugin that wraps WebKit and the one that runs a child, once more of the program depends on what they keep.
