# EU07 in TLA+

EU07 is a railway simulator: a cab simulator built on the Nebula engine
(`src/eu07`), a multiplayer server (`src/server`), the beginning of a rewrite
(`src/eu07-spt`) and several prototypes. This directory holds a specification
of the parts of it whose correctness depends on the order in which things
happen, TLC runs on small instances, and TLAPS proofs for all instances.

Paths below are relative to `src/`; `simcore/` stands for
`eu07/code/src/simcore/` and its headers in `eu07/code/inc/simcore/`.

## 1. Inventory

### Session server (`server/server.cpp`, `Train.cpp`, `Train.h`, `common.h`)

A console program on DirectPlay 8. DirectPlay calls `DirectPlayMessageHandler`
from a pool of threads; the callbacks of one player are serialised, those of
different players interleave freely.

- State: `g_StartPoints[s].owner` (who stands on which start point of the
  scenery), one `Train` per player (kept by DirectPlay as the player context),
  `g_MaxPlayers`, `g_RequestExit`, and the console line `message` /
  `messageWaiting`. Two critical sections: `g_csPlayerContext`, `g_csMessage`.
- Operations: CREATE_PLAYER (make a Train, claim a start point, send SET_ID,
  tell the newcomer of the others, tell the others of the newcomer),
  RECEIVE (store MOVETO, route MOVETO/EVENT/TRAIN_EVENT to all),
  DESTROY_PLAYER (tell the others, release the point, delete the Train),
  TERMINATE_SESSION, Ctrl-C, the main loop, `StopServer`.
- Interactions: messages to the clients (guaranteed and ordered, or not), the
  player context that only DirectPlay hands out, shared globals.
- Hard: interleaved callbacks; only part of the work is in the critical
  section; a context that DirectPlay does not give yet, or gives just before it
  is deleted; the seat of a player is free before its start point is; shutdown
  waits for callbacks; lost and reordered datagrams.
- Correct when: a start point has one train and a train one start point; points
  come back; everybody learns of everybody, SET_ID first; the server ends.

### Simulation events (`simcore/nsimevent*`, `nse*`, `nstateholder*`, `nworld*`)

The wiring of a cab and of a scenery: events launch events after a delay, run
script commands, set the states of levers and buttons; a state launches an
event. All in the frame loop's thread.

- State: `nWorld::eventsQueue` (a multimap of times to events), `simTime`,
  `momentary` (the button to release); per event `queueIterator`, `inQueue`,
  `refNext`/`nextDelay`; per holder `state`, `eventsMap`, `momentary`.
- Operations: `exec`, `execnow`, `abort`, `setlaunchevent`, `addstate`,
  `setstate`, `changestate`, `setmomentary`, `releasemomentary`, `setsimtime`;
  `CheckQueue` each frame; stops and starts of trains; events of the network.
- Hard: reentrancy. An event that `CheckQueue` runs may insert, remove or run
  any event, itself included, and change the state whose change launched it. A
  stale iterator given to `erase` is undefined behaviour.
- Correct when: queue and iterators agree; an event rings once per launch, late
  and in order; frames end; repeating events repeat; a held button is released,
  unless another is pressed meanwhile: there is one `momentary`.

### Network client (`eu07/code/src/network/ndplayclient_main.cc`)

- State: a message queue filled by DirectPlay's threads and drained by
  `Update` in the frame loop, `netTrains` by DPNID, the local DPNID, the time
  of the last report.
- Operations: `connect`, `disconnect`, the handler (268-434),
  `ProcessPendingMessages` (482-595), `SendEvent`, `SendTrainEvent`, `Update`.
- Interactions: the server, through guaranteed and other messages; vehicles
  (`SetTrack`, `GetMiddleTrackAndDistance`); events (`Execute`).
- Hard: the id, the queue and the trains outlive a connection; there is no case
  for DESTROY_PLAYER; names need not be unique; events are echoed to their sender.
- Correct when: a simulator never makes a train of itself, and comes to show
  the train of whoever joins after it.

### Tracks, axles, vehicles (`simcore/ntrack*`, `trkfoll*`, `ndynamic*`)

- State: what each end of a track is connected to and whether an axle turns
  round there; track, distance and direction of each axle; which axle is
  primary; the list and the count of the vehicles of each track.
- Operations: connect (loading, a thrown switch), `SetTrack`, `Move` (each axle
  on its own, over any number of joints), `Flip`, `SetDir`,
  `GetMiddleTrackAndDistance` (which moves an axle there and back), deletion.
- Hard: nothing ties the axles of a vehicle together; switches change under it;
  only one track of a joint may know of it; the primary mark moves.
- Correct when: the axles keep their places on the body, reports say where the
  vehicle is, the count of a track covers its list.

### Undo of the scenery editor (`editor/src/undo.cpp`, `callbacks.c`)

- State: files `editor_tmp/tmp<n>.bscn`, a lock file, two counters in each editor.
- Operations: `init`, `store`, `perform`, `clear_lock`; quitting, exporting.
- Hard: two editors in one directory; an editor that dies or exports and leaves
  its lock; saves and removals that fail, at the limit of `MAX_FILES`.
- Correct when: one editor works on the files; what the counters enclose is on
  the disk, unless the system refused to write it; the files of a dead editor
  stay; undo is a bounded stack.

### Remote server (`eu07/code/src/kernel`: `nremoteserver`, `nipc*`, `nthread`)

`nobs_main.cc` opens it (72), triggers it in every frame (359) and closes it (84).

- State: the list of miniservers (one per connection ever made, and one that
  waits), their sockets, the message list, a context (current object) per
  connection, the listener thread with two events and `stop_thread`.
- Operations: `Open`, `Trigger` (poll all sockets, answer the commands, run and
  answer each message), `Close`; the loop of the listener; a shell connecting,
  sending, leaving; a script selecting or deleting an object.
- Hard: the listener and the frame loop share sockets without a lock; the thread
  sits in `accept()` when it is to end; events signalled early; shells that
  leave; the current object of one shell deleted by the script of another.
- Correct when: every answer reaches the one who asked, in its own current
  object or, if that is gone, the kernel's; who waits is answered; `Close` returns.

### Left aside

`eu07-spt`, `eventsTest`, `Device`: prototypes of a rewrite (see Not modelled).
`mover/` (physics on floating point numbers), the rest of the editor (GTK,
geometry), Nebula's graphics, audio, input and scripting (vendored, device I/O),
OpenSceneGraph, OpenThreads, Producer, Tcl, Xerces (third party), `OSGExp`,
`TestXML`, `TclConsole`, and all assets.

## 2. Plan

| order | module | what | state |
|---|---|---|---|
| 1 | `StartPointPool`, `SessionServer` | the server and the promise it makes about start points | done, proved |
| 2 | `PrintSlot`, `MessageSlot` | the console line | done, proved |
| 3 | `Timers`, `SimEvents` | events, holders, the queue | done, proved |
| 4 | `Session` | a simulator's client composed with `SessionServer` | done, proved |
| 5 | `TrackFollowers` | tracks, switches, axles, vehicles | done, proved; what crosses one-way joints in part |
| 6 | `UndoStack`, `Undo` | undo of the editor | done, proved |
| 7 | `RemoteServer` | threads, sockets and shells of the kernel | done, proved in part |
| 8 | signals and timetables of `nDynamic` | which events a stop launches | open |

`Session` EXTENDS `SessionServer` and adds the client to it; `StartPointPool`,
`PrintSlot`, `Timers` and `UndoStack` are the abstract specifications which the
module beside them implements. The `*_proofs` modules and `SimEvents_refinement`
hold the proofs, the `MC*` modules the instances.

Still open: row 8, and what an axle does that walks back over a joint only one
track has, which is left to TLC (section 6).

## 3. The modules

### SessionServer

`pc[p]` is the point the callback of player `p` has reached, and each action is
one access to state that other threads see, so every interleaving of callbacks
at the grain of the code is explored.

| action | code (`server.cpp`) |
|---|---|
| `Join` | DirectPlay admits up to `dwMaxPlayers` = `g_MaxPlayers+1`, the host among them (430) |
| `IgnoreCreate` / `NewTrain` | 217-268: `GetClientInfo` fails for a player that has left already, or a Train is made |
| `EnterPlayerLock` ... `LeavePlayerLock` | 581-596 and 299-303 |
| `FindStartPoint`, `ClaimStartPoint` | the search 583-584, the taking 586-591 |
| `SendSetId` | 599-607; `trackID` is uninitialised if no point was free |
| `EnumPlayers`, `SkipPlayer`, `FetchContext`, `TellAbout`, `EndWorldState` | 609-645, one player at a time |
| `Announce`, `ReturnFromCreate` | 271, 281: only now does DirectPlay have the context |
| `ReceiveMoveTo`, `RouteMoveTo`, `ReceiveEvent` | 327-352, 680-729 |
| `Destroy`, `SendDestroy`, `ReleaseStartPoint`, `DeleteTrain` | 284-303 |
| `CrashOnRelease` | 301 with `sp == NULL` |
| `PrintMessage`, `RequestExit`, `StopServer`, `EndMain` | 176-194, 105-109, 316-325, 455-468 |

DirectPlay is external and modelled as this code relies on it: callbacks of one
player in order; guaranteed messages in order; the rest lost or reordered;
`GetPlayerContext` NOTREADY until CREATE_PLAYER returns (the server's own
`DisplayPlayers` says so at 507-515); a departed player is out of the session
before its DESTROY_PLAYER callback runs; `Close` disconnects everyone and
waits for callbacks. The order in which the enumeration lists players is left
open. Severe errors of DirectPlay (`EnumPlayersAndGroups` failing at 617, out
of memory) are not modelled. The second `GetClientInfo` (241-244) can fail as the
first does; both leave the context NULL and are `IgnoreCreate`.

Positions are abstract: the track of a start point, `Moved` (whatever the
client reported), `Unplaced`, or `Garbage`.

`StartPointPool` is the abstract view: first free point, one per player, kept
until given back. It is refined with the identity on `owner`.

### MessageSlot

`Message()` and the printing loop taken apart, the copy and the `puts` in two
halves so that a torn line would show. `PrintSlot` is the abstract slot; its
`slot` is the buffer while `messageWaiting`, `printed` is the main thread
between `puts` and the reset. `SessionServer` uses the one-step view of it.
Accesses to the plain `bool` are taken in program order: opaque calls lie
between them, and the compiler of that time (Visual C++) does not move them.

### SimEvents

`stack` is the call stack of the single thread: one step runs the innermost
call up to its next call or its return. Frames: the rest of an event's commands
(`nSECommands::Execute`, then the launch in `nSimEvent::Execute`), the end of
`SetState`, the end of `ReleaseMomentary`, the loop of `CheckQueue`. The queue
is a set of `<<time, event>>`; entries with equal times are taken in any order.
The stored iterator is the time of its entry, 0 once the entry is erased. `ask` stands for any boolean
command of another object (`getbutton`). `nSEStateHolder` is an event whose
body is one `setstate`. `nSESwitch`, `nSESetMatrix`, sounds and animations only touch the
scene graph: their bodies are empty.

The buttons of a cab are the momentary holders. `pressed` is the one slot nWorld
has for them: the end of a `SetState` puts its holder there, the end of
`ReleaseMomentary` clears it. `Forgotten` is a button that is down, named by no
slot and not about to be put there: the next release passes it by. The code
forgets one whenever another is pressed while it is held (`303e_ctrl.tcl:82,87`
make two), and nothing in the repository denies it.

`Timers` is the abstract view: armed moments, each rings once, after its
moment, earliest first. Its variables are mapped from `queue` (`Due`), `simTime`
and the loop variable `ev` of `CheckQueue` (`Bottom`).

### Session

One simulator with its client, and the server; the other players are on the
server's side only. Each connection the simulator makes is a player of its own
(`Mine`), as it is to the server, while `queue`, `self` and `netTrains` go on.

| action | code (`ndplayclient_main.cc`) |
|---|---|
| `Connect` | 119-200, when the server is done with the last connection (a bound) |
| `LoseConnection` | 257-263, 286-295: any part of what was sent has been pushed; the queue is not cleared |
| `HandleSetId` | 511-517; with an uninitialised track, `SetTrack` may assert |
| `AddTrain` / `IgnoreTrain` | 518-553: the name is not taken, the id is new and not the own one, there is such a track |
| `IgnoreDestroyed` | no case of the switch |
| `ServerStep` | any step of `SessionServer!Callback` |

The front of the queue between the threads is `FrontOfQueue`: of what is left of earlier
connections, then of what the server has sent on this one. Handling a message is
one step, since the loop holds the lock `PushMessage` waits for. MOVETO, EVENT
and TRAIN_EVENT are not composed: they change neither the id nor the trains.
The script at 542 is taken to succeed.

### TrackFollowers

`Walk` is the loop of `TTrackFollower::Move` as a recursive function: `Aim` is
its `s`, `Beyond` how far that is off the track, `Crossed` one turn of the loop
and `Stopped` its three ends. The other operations are compositions of it. Distances are integers. A
call is one step: no track has a script that could run in the middle (`Script1`,
`Script2` are never set). A failed `n_assert` halts the model. Two things follow
from the code that the model shows and no statement of the repository denies: a
vehicle heading for the beginning of its track reports a negative distance, which
`Init` walks from the beginning of the track and so off it; and
`GetMiddleTrackAndDistance` of a vehicle that trails a switch leaves its axle on
the other branch. `~nDynamic` unlinks the vehicle but leaves the count, and
`nMCDynamic::SetTrack` (712-718), which ignores the distance, is not modelled.

### Undo

One step is what happens between two moments at which another editor sees the
disk or this one may die: `CreateLock`, `RemoveLeftover` (one file), `Store`
(the oldest is removed), `Save` (the file is written, or torn). A scenery is a
model value. Both counters start again with each editor; the files do not. In
`UndoStack` the stack is what the counters of the holder enclose.

The system may refuse a removal or a save. `init` does not look at the result of
`remove` (97) and ends with the file in place (`EndInit`), `store` warns (160-163)
and counts on; `saveToFile` looks at no state of its stream, so that a full disk
goes unnoticed: the counter goes up over a file that is torn, old or missing
(`Recorded`). `refused` remembers these files, for the properties only: the code
does not know them. `RecordsOnDisk` bounds the others by `MAX_FILES`; nothing
bounds those the system will not remove.

A known divergence is not a run of its own: `core/editor.h:68-69` promises that
`saveToFile` and `loadFromFile` return true on success, yet a scenery without
points is saved as a header only (`core/editor.cpp:1066`) that `loadFromFile`
(923) refuses: undo then ends the editor (`PerformFails`).

### RemoteServer

Two threads, `main` and `lis`, whose values are points of the code; sockets are
what was sent and not received (`up`, `down`), who hung up and who closed. Of
the POSIX build: events are semaphores and the destructor joins. Under Win32 it
waits 500 ms and then deletes what a live thread may still use.

| action | code (`kernel/`) |
|---|---|
| `ThreadStarted`, `CreateMiniServer`, `Listen`, `Accept`, `SetNonBlocking`, `Check`, `While`, `ThreadHarakiri` | `n_listener_tfunc` (`nipcserver.cc` 17-57) and `nIpcMiniServer::Listen` |
| `Open`, `Opened` | `nIpcServer` 127-179, `nThread` 19-65 |
| `Trigger`, `PollNothing`, `PollBlocks`, `PollReads`, `PollAborts`, `PollEnds`, `EndPoll` | `nIpcServer::Poll` 225-245, one `nIpcMiniServer::Poll` per step |
| `PollQueues`, `PollAnswers`, `PollIgnores` | what `nIpcMiniServer::Poll` does with a text: 100-141 |
| `Answer`, `EndTrigger` | `nRemoteServer::Trigger` 212-306, one message per step |
| `InCwd`, `RunMsg`, `AnswerMsg` | `GetClientCwd` with its fallback (148-166), the script, `SetClientCwd`; `nIpcServer::AnswerMsg` |
| `Close`, `WakeUp`, `Join`, `DeleteServer` | `nRemoteServer::Close`, `~nIpcServer`, `~nThread` |
| `Connect`, `Greet`, `SendMsg`, `Receive`, `Leave` | `nIpcClient`, `main` of `nremoteshell.cc` |

A text is a script, a script without its terminating zero, or a line that begins
with `~`. `~handshake` and `~close` are answered in `Poll`; `~handshake` without
a port ends the program by `n_error` (a lone `~` ends it as well, in a
`strcmp(NULL)`, and is the same to the shells); any other such line is ignored.
Of a script the model keeps whether it selects or deletes an object. An object
deleted by one shell makes the `nRef` of all others that are in it `None`, and
`GetClientCwd` then puts them into the kernel's current object, the root. `here`
is what a shell may expect: its own selections, and the root once its object has
been deleted.

What the comments say and the code does differ in three places that have no run of
their own, as the runs below hold against other statements:

- `nipcminiserver.cc:57` says "non-blocking recv". `PollBlocks` is a `recv` on a socket
  that was accepted and is not yet in nonblocking mode: the frame loop stands
  still until that shell types something. `Answered` names this state.
- Line 118 says of a wrong port name that the connection is shut down. `~false` is sent,
  and the `false` that `Poll` returns is looked at by nobody: the socket stays
  open, after `~close` too.
- An ignored `~` line gets no answer, and the shell waits for one for ever.
  `Answered` exempts it.

Abstractions: a `recv` gets one message and all of it (a shell sends lines of up to
2048 bytes into a buffer of 4096 and waits for each answer); the objects a
script may select lie side by side and are not made again. Not modelled:
`Broadcast` and `Disconnect` (no callers), SIGPIPE for a send to a shell that left.

## 4. Runs

| run | bounds | states | what it shows |
|---|---|---|---|
| `session_safety` | 3 players, 2 start points, no reports, no exit, symmetry | 0.5 million | type, exclusive and agreeing start points, refinement of the pool, denial only by a pending departure, order of SET_ID and CREATE_PLAYER, departures told |
| `session_liveness` | 2 players, 2 points, MOVETO and EVENT, exit at any time, 1 datagram per client | 0.13 million | departures are handled, the server ends |
| `world_state` | as `session_safety` | - | violation, see findings |
| `use_after_delete` | as `session_safety` | - | violation, see findings |
| `message_slot` | 3 threads, 2 lines | 10 thousand | no torn, lost or repeated line; no caller waits |
| `sim_events` | 3 events, a lever, 2 buttons, delays 0-2, time up to 3 | 0.7 million | queue and iterators, ringing, frames end, repetition, which button is forgotten |
| `session` | one simulator with 2 connections, one other player, 2 start points | 86 thousand | no train of oneself, later players are seen |
| `undo` | 2 editors, 2 sceneries, `MAX_FILES` 3, files 0-3, refused removals and saves, symmetry | 1.4 million | one editor at work, records on disk, leftovers kept, a bounded stack |
| `tracks` | 3 tracks (4, 2, 4), a switch and a loop, 1 vehicle of 2 axles, moves of -2, 2, 4 | 16 thousand | vehicles stay whole, moving ones keep what their hindmost axle reaches, reports are exact, counts cover lists |
| `track_flip` | as `tracks` | - | violation, see findings |
| `remote` | 2 shells, 2 and 1 texts, scripts, commands and a broken message, 2 objects, one of which is deleted | 0.6 million | own answers only, in the own object; who waits is answered; `Close` returns |
| `remote_hang` | as `remote` | - | violation, see findings |

Why the bounds are enough:

- Start points are contended with two players; the third plays the one that
  already left, the one that connects while two others do, and the newcomer
  that is denied. Reports never touch start points, so the safety run leaves
  them out and the liveness run has them. The session counts the host beside
  `MaxPlayers`, hence three players over two points also covers a full session.
- Two threads show every race between writers, the third one a queue for the
  critical section.
- The events are wired as `eu07/scripts/utilities.tcl` and
  `eu07/dynamic/pkp/eu07/303e_ctrl.tcl` do it: a key that repeats while held and
  moves a lever, a clock that relaunches itself, two momentary buttons, one set
  by an event (a click launches `push`), one by a key; the second starts the
  repeating key as it is pressed, and letting either go runs `clock`. `MaxTime`
  only stops frames that would pass it; `setsimtime 0` goes back, so a run goes on for ever and a pending entry may be overtaken by the
  clock in both directions.

- `session`: losing a connection and connecting again once shows every message
  that an old connection leaves behind; the other player joins before, between
  and after, and both names are equal for the simulator's own connections, so
  that a new player of a taken name occurs too.
- `undo`: two editors show every race for the lock and for the directory; with
  three records the ring is full, drops its oldest, and is undone to empty.
  Whether a removal or a save is refused, and what it leaves, is open at each.
  `LastFile` only stops a directory that would grow for ever.
- `tracks`: the straight branch is as long as the distance of the two axles, so that
  whenever one of them is on it the other is on a neighbour, at either end; the
  loop turns the vehicle round over joints of either kind without end. Lengths and moves are even and offsets odd, so no axle stops
  exactly at a joint, where a place has two names. `MaxCount` bounds a count
  that every deletion leaves one too high.
- `remote`: two shells, of which one asks twice, show answers for the wrong
  one, in the wrong object and after leaving; the second tries every command, or
  deletes the object the first is in, wants to go to, or has left; closing and
  the abort happen at any point.

Deadlock is checked in `message_slot`, `sim_events` and `undo`. The session may
really stop (everybody gone, the server ended or crashed), as may the remote
server (closed) and the tracks (halted), so their runs do not check it.

Each property of a passing run has a mutant: a variant of one action, beside it
in the module, with a plausible slip (lock not taken, owner not reset, entry
removed after the event ran, ...) for which TLC finds the property violated.

### Findings

1. **World state is incomplete.** Lines 566-567 and 267 promise a CREATE_PLAYER
   for every connected player. Line 638 skips those whose context is not there
   yet. A player that has broadcast its own CREATE_PLAYER (271) and has not
   returned (281) is skipped by a newcomer that was not in the session at the
   broadcast: the newcomer never hears of it. `WorldStateComplete` is violated.
   What does hold is `EarlierKnowsLater`: the earlier player knows the later.
2. **A deleted Train is read.** `SendWorldStateToNewPlayer` fetches another
   player's Train at 634 and reads it at 640 outside `g_csPlayerContext`; the
   DESTROY_PLAYER callback deletes it at 302. `NoUseAfterDelete` is violated.

3. **Flip leaves the axles' distances wrong.** `trkfoll.h:27` says that `dDist` is
   the position relative to the middle of the vehicle. `Flip` negates `dDist`,
   moves the axle by twice that and negates its direction: one turn too many.
   `DistanceIsFromMiddle` is violated; the next report is of a place outside the
   vehicle, and a second flip moves the axles three times as far apart.
4. **Close can hang.** `nipcserver.cc:59-68` says that `n_listener_wakeup` gets the
   listener out of `accept()`. The constructor waits for `ThreadStarted` (22)
   only, which comes before the first `listen()`. A `Close` in between is refused
   by the port, and `pthread_join` waits for a thread in `accept()`.
   `WakeupWakes` is violated under fairness of both threads. From the first
   `listen()` on, `CloseReturns` holds.

Also modelled, without a statement in the repository to hold against it: a
newcomer denied a start point while a departure is pending gets an
uninitialised track in SET_ID, and line 301 dereferences its `sp == NULL` when
it leaves.

## 5. Fairness

- `SessionServer!FairSpec`: weak fairness of each callback, because DirectPlay's
  threads keep running; weak fairness suffices for the critical section in the
  run, since a finite number of players enters it twice each. Strong fairness
  of `Destroy`: a departed player has a finite backlog of messages, after which
  DESTROY_PLAYER is delivered (the model does not count the backlog). Weak
  fairness of the main thread's loop. No fairness for joining, leaving, sending
  or Ctrl-C.
- `MessageSlot!FairSpec`: weak fairness of each thread inside `Message()` and
  strong fairness of entering, as threads come back to the critical section
  for ever and Windows critical sections do not starve a waiter for ever. None
  for the main thread: `CallReturns` holds even if nothing is printed.
- `SimEvents!FairSpec`: weak fairness of the innermost call: a thread runs on.
  None for frames or inputs. `FrameEnds` presumes a scenery whose launches
  without delay form no cycle; with one the code recurses without end.

- `Session!FairSessionSpec`: weak fairness of each callback and of the frame
  loop's drain. Nothing about joining and leaving. `LaterIsSeen` needs no more.
- `RemoteServer!FairSpec`: weak fairness of the main thread (the frame loop
  triggers again and again) and of the listener; strong fairness of creating a
  miniserver, for which the listener needs the lock of the list that the frame
  loop takes and releases in every frame; weak fairness of a shell that has
  connected: it goes on to send its handshake, takes an answer that is there,
  and notices a closed connection. None for typing, leaving or closing.
- `Undo` and `TrackFollowers` have no liveness property: everything there
  happens when a user or a script says so.

## 6. Proofs

All theorems hold for every value of the constants under the assumptions named
in the modules (`ServerAssumption`, `NoTrainAssumption`, `SessionAssumption`, `SlotAssumption`,
`SceneryAssumption`, `UndoAssumption`, `TracksAssumption`, `RemoteAssumption`):
finitely many start points and vehicles, holders with finitely many states, at
least one of them, sentinels that are not players, editors or tracks, delays
that are natural numbers, tracks longer than 0, `MAX_FILES` of at least 2, and
for `Session` the bound that nobody reports. `Denied`, `OnlyForAnother` and
`ReportIsExact` have a hypothesis of their own, `SceneryCount < 1000`, `ReleaseIsQuiet`
and `Straddles`, without which they are false; those about walking back in
`TrackFollowers_proofs` have one about the joints on the way.

**`SessionServer_proofs`**: `TypeCorrect`, `Agreement`, `Exclusive`,
`ImplementsPool`, and of the messages `SetIdFirst`, `EarlierIsAlwaysTold`,
`DepartureIsAlwaysTold` and `Denied`. Agreement is not inductive: a claim is only safe
because no other callback has changed the owners since the search. The
inductive invariant adds

- `Mutex`: the callback whose `pc` is in the section holds the lock;
- `TrainLifetime`: which `pc` values have a Train;
- `NotYetPlaced`: a Train has no point before the claim, and the point that was
  found is still the first free one when it is claimed;
- `Released`: between release and deletion a Train names a point that is free;
- `ThreadData`: the types of a callback's locals at the points that use them.

Actions that touch none of these are discharged together by `QuietMove`.
Exclusiveness follows from agreement and `Mutex`: the one train that may name a
foreign point is that of the lock holder between 301 and 302, and nobody
claims then. The refinement needs that the claimant owns nothing, which is
`NotYetPlaced` with agreement.

The messages need a second invariant on top of it, `MailInv`, that relates
`roster`, the callbacks and what is in the inboxes:

- `SetIdSent`: past `SendSetId` a client has its id, so that whoever broadcasts
  its own CREATE_PLAYER does so to an inbox with a SET_ID in it;
- `EarlierIsTold`: whoever was in the session before a player that has made its
  broadcast has been told of it. `Table` says that a seat is taken once and by
  players whose callback runs, so the broadcast misses nobody earlier;
- `GoneIsTold`: whoever has been told of a departed player, or is about to tell
  itself of it, has been told of the departure. That needs what a newcomer still
  has to go through as well: the list it took may name a player whose departure
  is broadcast while it goes through it, and then it hears of that first.
  `OnlyCreated` keeps those out that were not created yet.

`Delivery` says once what one more message changes. `Denied` is about a step: the
search found nobody's point free, so each point has an owner, and if all owners
and the newcomer were connected the session held more players than seats
(by the pigeonhole principle; `StartPointAgreement` makes the owners distinct).
It needs `SceneryCount < 1000`: of a larger scenery the server reads no point
at all and still admits players, so it denies everybody.

**`Session_proofs`**: `SessionServes`, `ClientTypeCorrect`, `NeverOwn`.
`SessionServes` shows that each step of the composition is a step of the server
or leaves it alone; every theorem above so holds of a session.
The simulator compares ids at 525 with the id it has *when it handles* a
message, which may come from an earlier connection. `ConnectionInv` is about the
server: one connection is in use, and what it is sent names no other connection
of the simulator. `ClientInv` is about the queue: for each CREATE_PLAYER of an
own player still in it, the id in force when the loop comes to it is that
player's (`InForce`: the last SET_ID before it, or `self` if there is none). Losing a
connection appends part of an inbox to the queue, in which by
`SetIdBeforeOwnCreate` a SET_ID comes first or has been handled.

**`MessageSlot_proofs`**: `TypeCorrect`, `WritersExcluded`, `ImplementsSlot`. The
invariant relates the holder of the lock, the flag and the main thread: while
the flag is set nobody is between the check and the store, and the main thread
leaves `look` only while it is set. The refinement also needs that the two
halves agree whenever the flag is set or about to be.

**`SimEvents_proofs`**: `QueueAndIteratorsAgree`, `TypeCorrect`, `Repeats`,
`OnlyForAnother`. `QueueIndexed` is proved from a
pointwise form (an entry is in the queue exactly if its event is in the queue
at that time) with the types of queue, iterators, launches and stack. `Execute`
and `RemoveFromQueue` keep it (`ExecuteKeeps`, `RemoveKeeps`) whoever calls them. `TypeCorrect` adds that
the state of a holder is never negative: `ChangeState` takes the last entry of the
`eventsMap`, which exists as the map is finite and never empty (`Largest`, from the
well-foundedness of strict subsets), and clamps or rotates to it.

`Repeats` rests on `Kept`: an event that relaunches itself is in the queue, or its
body is on the stack and the launch at its end is still to come. `CheckQueue`
pushes the body in the step that erases the entry, whatever the event calls
happens above its frame, and nothing else takes the entry away unless it puts a
later one in its place. No fairness is needed: it is a promise about the queue.

`OnlyForAnother` is about the steps after which a button is down that no slot names.
Only the returns of `SetState` and of `ReleaseMomentary` change the slot, and whoever
changes a state leaves its `SetState` on the stack (`StepShows`); so the button was
in the slot. A `SetState` that returns puts another button there that is down. That
`ReleaseMomentary` forgets none needs `CalmRelease`: while it is on the stack, the
button it lets go is still in the slot and up, since above it there are only the
`SetState` it called and events that set nothing (`Calm`, by position on the stack;
`CalmPushed`, `CalmPopped`). This is where the hypothesis is used: `ReleaseIsQuiet`
says that there is a set of events, closed under what its members launch at once, that
holds the release events of the buttons and whose members set no holder. The
scripts keep to it: what `release_styczniki` and `release_czuwak` run are sounds,
animations, `fuse` and `czuwak_reset` (`eu07/dynamic/pkp/eu07/303e_ctrl.tcl:72-90`),
and `releasemomentary` is called from input maps only (131-136, 182). Any number
of buttons may be down at once and events may set them. A release that
presses another button would forget that one (`nworld_main.cc:327`).

**`SimEvents_refinement`**: `ImplementsTimers`. `QueueIndexed` makes the armed
moments the stored iterators (`DueIs`), so an insertion arms, an erasure
disarms, and the first entry of the queue is the earliest moment. `rung` is
read from the loop of `CheckQueue`, which can only be the outermost call
(`Outermost`): whatever an event calls while it rings happens above it and
leaves `rung` alone (`CallsAbove`, `ReturnAbove`), and the only step that sets
it is the loop taking its next event.

**`Undo_proofs`**: `TypeCorrect`, `OneAtWork`, `RecordsKept`, `LeftoversStay`,
`ImplementsStack`. The inductive invariant says that an editor at work holds the
lock (`OneEditorAtWork` follows, as the lock names one), that its counters are in
order, that every file from `najstarszy` to `najmlodszy` is whole unless the system
refused to write it, and that the files that exist, but for those the system refused
to remove or write, lie in a window of `MAX_FILES` numbers, which bounds their
number although undo removes none. The refinement takes the files of the window
as the stack: removing the oldest is `DropOldest`, a save that succeeds `Record`,
one that fails unseen a `Record` of `Lost`, one that fails seen a stutter, and
undo `TakeBack`.

**`TrackFollowers_proofs`**: `TypeCorrect` (an axle is always on a track, within
its length, or the program has halted: `Place` looks, as `SetCurrentTrack` does)
and `CountsCover`. The invariant is that a linked node is linked on the track of
the primary axle; the count of a track then loses one only with a vehicle of its
list.

Of `Walk` it is first shown that there is such a function at all: how far an axle
would come beyond its track falls at every joint it crosses (`CrossedType`; tracks
are longer than 0), and a function defined by descent on a natural number exists
(`DefinedByDescent`: if not, there is a least number where it fails). From
the equation of `Walk` follows what the rest needs (`WalkOn`, `RollOn`): to walk
on the same way is to walk the sum at once, over whatever joints, one-way or
turning. An axle that is where the hindmost one comes to by d is, when it has moved by s,
where the hindmost one comes to by d + s, which is s and then d: hence `Together` (the
property `MovesTogether`), and `MovesWhole`, the part of `WholeUntilCut` that is about
`Move`. `ReportIsExact` says the same of a report: the axles behind the middle walk
on past it to those in front. It supposes `Straddles` (axles on both sides of the
middle; with all of them in front, the way back to the middle may lead over a
joint that does not lead forth) and `MiddleAgreed` (every axle finds the
middle at the same place, which a switch thrown under the vehicle can
prevent, and a middle exactly at a joint, which then has two names).

To walk back is another matter: an axle comes back to where it was only over
joints that both of their tracks have (`TwoWay`; `Known(joint)` is the layout
without the others, and a walk on it is a walk on the whole: `RollOverPart`).
`WalkReturns` goes again by descent: at the least counterexample the rest of the
way returns by minimality, which leaves the axle beside the joint, and
`CrossBack` takes it over. An axle exactly at the end of a track and about to
leave it is the exception: it comes back under the name the place has on the
other track. So `HasWay` asks for a way to go before the joint, and `SetsOff`
gives every axle a name that has one (`Beside`). From this follows `RollSum`: to
walk x and then y is to walk x + y for any two integers, if the end is not at a
joint (`Inside`). By cases on which of x, y and x + y go which way it is
`RollOn` or `RollBack`. `RollTurned` adds that an axle which is turned round
walks backwards what it walked forwards. With them:

- `SetDownWhole`: however its dDist lie, a vehicle put on a track by `SetTrack`
  stands in one piece; `FlippedWhole`: so does one that is flipped, as it
  stood; `AskedUnmoved`: `GetMiddleTrackAndDistance`, which moves an axle there
  and back, changes nothing at all. Each supposes that the walks of this one
  operation lead over `Known(joint)` and that the axles are off the joints where
  they begin and end, and shows also that no `n_assert` fails.
- `WholeOverKnown`: the property `WholeUntilCut`, of every run whose operations on
  vehicles in one piece are of that kind (`GoesOverKnown`). Nothing is asked of
  `Move`, of operations that fail, or of the layout, which has a one-way joint at
  every switch; of `Throw`, that the joint it changes is not between the axles.
  In the instance vehicles so are set down, turned and asked across the joint
  of `main` and `left` that turns axles round, and the switch is thrown before one.
- `ReportOnKnownIsExact`: what `ForwardReportIsExact` says, of a vehicle which
  stands on `Known(joint)` (`StandsOnKnown`) and whose middle is on it too;
  `ForwardOnKnown`: the property itself, given `Straddles` and that whatever stands
  forward in one piece does so on known joints. That the axles agree on
  the middle, which `ReportIsExact` supposes, is not needed here.

Without `Inside` and `Known` these are not true: an axle at a joint is told from
its neighbours by its name only, and one that walked back over the joint of a
thrown switch is on the other branch.

**`RemoteServer_proofs`**: `TypeCorrect` and `AnswersAreMine`. A message
is answered to the miniserver of its id, in the object of the context of that
id, so the invariant follows each shell's one message: a shell has one connection,
in the backlog or in one miniserver (`OneConnection`); what it asked is in its
socket, in `msgList` or answered, in one place only, and nothing is under way
while it does not wait (`OneMessage`); and the context of its miniserver, through the
fallback of `GetClientCwd`, is where the shell may expect to be (`OwnCwd`, until `Close`
deletes the contexts). A deletion by any shell takes `here` and `refCwd` of all the
others along in one step, to the root and to `None`, which the fallback makes equal.
`Shape` keeps ids within the list and the miniserver the listener is about to fill
empty and in the root. `OwnKept` states once what a step of others may do, and the
steps of the shell itself are proved each for themselves. `AnswerIsMine` is then
about the one step that puts an answer into a socket.

Only model-checked: `WholeUntilCut` and `ForwardReportIsExact` where an axle walks
from elsewhere or back over a joint that only one track has, or a switch is
thrown between the axles. In the instance, with one switch and two axles, the
vehicle then still trails; this is not claimed of every layout. All liveness and everything
under fairness is beyond the prover as well.

## 7. Not modelled

Of the modelled parts: wide character conversion and buffer sizes;
`DisplayPlayers` (never called); torn reads of the pair `trackID`/`dist`; deletion
of events while they are queued; holders without a state of 0 or more; rotation
and clamping of negative state tables; fractions of simulation time (times are
natural numbers, the code only compares and adds them); MOVETO and the two
event messages in the composition with the client; the report timer; couplings,
collisions, signals, timetables, segments' geometry; a send to a shell that left.

Not at all:

- `eu07-spt/src/events`: the rewrite of events has one program, in which a receiver
  sends one event to itself and nothing reacts. (`LocalManager::update` looks up
  the sender where it means the receiver, 106, which that program cannot tell.)
- `eventsTest`, `Device`: prototypes, sequential, with a test program each.
- `eu07-spt/src/core/MovementPath.cpp`: no program loads a scenery with it.
- `mover/`: physics on floating point numbers, out of TLC's reach.
- The editor beyond undo: user interface and geometry, sequential.
- Rendering, audio, input and scripting of Nebula, and third-party code.
