# securedisplay: TLA+ models, checks and proofs

securedisplay drives displays from a central proxy.  Every display and every
control page keeps a websocket to the proxy; the proxy forwards JSON events
between them by name or by group, relays NTP queries, and each display steers a
browser with the events it gets.  This directory holds TLA+ modules of the
parts of the program (at `../src`) whose correctness depends on interleavings,
with TLC configurations that check them on small instances and TLAPS proofs
that hold for every instance.

## 1. Inventory

| part | state | operations | what is hard |
|---|---|---|---|
| connection table, `pkg/proxy/connectionmanager.go`, `ws.go` | `wsConns`: name to connection; the open sockets; one handler goroutine per request | `addWSConn`, `getWSConn`, `closeWSConn`, the read loop, the deferred close | `addWSConn` takes the lock three times; handlers of one name overlap; late clean-ups |
| sender channel and workers, same file | `senderChannel` (capacity 100), `numWorkers` goroutines, `workerWG` | `start`, `worker`, `send`, `close` | reordering, back-pressure, stalled peers, closing a channel that is in use, `Add` inside the goroutine |
| groups, same file | `groups`: group to slice of names | `AddToGroup`, `RemoveFromGroup`, the range in `send` | unlocked reads of a slice that is edited in place, the discarded result of `slices.DeleteFunc` |
| echo, templates, start and stop, `pkg/proxy/server.go` | `echoConns`, `templates`, the HTTP server | `echo`, `addEchoConn`, `closeEchoConn`, `getTemplate`, `Start`, `Stop` | `Stop` holds a mutex while it waits; unlocked template map |
| NTP relay, `pkg/proxy/ntpraw.go` | a UDP socket per query | one query, the first packet that comes back, 5 s limit | a slow query holds up its handler; late packets; the reply goes to a name |
| display communication, `pkg/client` | `ntpConn` (a channel), `recFunc`, `wg`, the websocket | `Start` (reader), `NTP`, `ntpConn.Read/Write/Close`, `Send`, `Stop` | the unsynchronised field `ntpConn`, time-outs that race answers, stale answers |
| browser, `pkg/browser` | chromedp contexts, a semaphore, a temp directory | `Startup`, `Run`, `Tasks`, `Navigate`, `Evaluate`, `Close` | checks outside the semaphore, tasks that outlive their time-out, death of the browser |
| player, `pkg/genericplayer` | status loop | `Run`, `event`, `Close` | polls the browser every second beside the events |
| events, `pkg/event` | none | `GetData` | text of NTP errors is decoded as base64 |
| old client, `pkg/client0` | `wsGroup`: group to websocket, without a lock; a channel per websocket | `Set/Get/Delete/SendGroupWebsocket`, `readPump`, `writePump` | used by no program (so `PROJECT.json` lists no hazards of it); a pump's exit deletes by name; a sender may wait for a pump that is gone |

Not code with state of its own: `pkg/browser0` (every method panics),
`pkg/player0` (an interface), the configuration files, and the web pages with a
third-party script.

How they interact: a handler (`ws.go`) reads an event and either changes the
groups, queries NTP, or calls `send`, which puts one job per destination into
the channel; a worker takes the job, resolves the name in the table and writes
to the connection.  On the display, the reader goroutine hands NTP answers to
`main` and everything else to the player, which evaluates it in the browser.

What makes each part correct:

* table: a name resolves to one connection, which is open and served; nobody
  but a successor or its own handler takes a connection's name away; what is
  displaced is closed and its handler ends;
* channel: every accepted job is handled once, in an order that is nearly that
  of acceptance; nothing blocks for ever while a worker is free; shutdown
  drains the channel, ends, and does not panic;
* groups: a group is a set of names, and a send reaches each member once;
* display: the hand-over of an NTP answer neither blocks nor kills the reader,
  start and stop always end;
* echo connections: the list is exact, each is closed once it is done with or
  the proxy stops, and stopping ends;
* template cache: a template once kept is kept, and the cache does no harm;
* browser: a slow or hanging Chrome neither kills the display nor blocks it,
  and a Chrome that died is replaced (it is not: see below);
* session: whoever is in a group has asked for it, and gets what is sent to the
  group as long as it keeps its name, also when it went and came back; an NTP
  answer goes to who asked, and answers that question (unless somebody has
  attached to a group called like the asker: groups and connections share one
  space of names, and `send` looks among the groups first);
* old client: what a channel accepted is written once and in order; the entry
  of a group is the websocket in use, and no other.

## 2. Plan

Done, in this order, the part every event passes first:

1. `Directory`, `Registry` with proofs: the connection table.
2. `Dispatch` with proofs: channel, workers, shutdown.
3. `Membership`, `Groups`: groups and fan-out.
4. `Communication` with proofs: the display's end.
5. `Delivery`: `Registry` and `Dispatch` composed with `sendWS`.
6. `Server`: echo connections, close handlers and `Stop`; `Templates`.
7. `Browser`: the browser with the player's callers.
8. `Session` with proofs: the handlers' events, with the table (`Registry`),
   a group (the abstract `Membership`) and the NTP queries put together.
9. `Pumps` with proofs: the old client.
10. The display's start in `Communication`; proofs of the safety of `Server`,
    `Templates` and `Browser`.
11. Proofs about `Groups`, in particular that it implements `Membership`, and
    about `Delivery`, with its relation to `Registry` and `Dispatch`.

Next: the shutdown properties of `Dispatch` (`DrainedAtReturn`, `CleanStop`,
`BoundedReordering`) as theorems of `Delivery`, where writes are real and two
writers may end the process; the safety half of `GoodbyeHeard` and of
`StopReturns` in `Server`.

## 3. Modules

### Connection table: Directory, Registry, RegistryProofs

`Directory` is the promise: a name has at most one holder, and a connection has
one tenure.  `Registry` has one action per critical section of a handler.

| action | code |
|---|---|
| `Upgrade` | `ws()` up to the call of `addWSConn` |
| `Lookup`, `Evict`, `Store` | the three sections of `addWSConn` |
| `ReadFails` | `ReadJSON` returns an error and the loop ends |
| `Cleanup` | the deferred `closeWSConn` |

`closeWSConn` compares `RemoteAddr()`, an interface with a pointer of the
accepted socket in it, so it compares identity.  The history variable `raced`
collects the names for which two handlers were inside `addWSConn` at once.  It
is what the exact statement of the leak needs: `LeakOnlyByRace` says that a
connection outside the table is closed *unless* its name is in `raced`, and the
run `registry_closed` shows that with a race it may stay open: its own
handler's `closeWSConn` takes it for "already closed".  The consequences are an
open socket whose client goes on sending, and a display whose `Stop` waits for
its 10 s time-out.

Refinement: `holder` is `wsConns`, `retired` are the admitted connections that
are not in it.  `Store` is `Register`, an effective `closeWSConn` is `Release`.

### Channel and workers: Dispatch, DispatchProofs

Jobs are numbered by the order in which the channel accepts them.

| action | code |
|---|---|
| `Send` | a handler calls `send`; as many jobs as the target has members |
| `Enqueue`, `EnqueuePanics` | `senderChannel <-`, on the open and on the closed channel |
| `Start`, `Receive`, `Finish`, `Leave` | a worker's `Add`, one round of its `range`, the return of `sendWS`, `Done` |
| `CloseChannel`, `Wait`, `Wake`, `Exit` | `Stop`, and in it `close()` |

`Wait` and `Wake` follow `sync.WaitGroup`: a `Wait` that was released panics if
the counter is not 0 when it runs again.  The moment inside the last `Done`
during which an `Add` panics itself is part of `Wake`: both end the process.

The properties say what the design gives and what it does not.  `ExactlyOnce`
holds across the shutdown.  Order is *not* kept with several workers:
`BoundedReordering` gives the bound.  `DrainedAtReturn` and `CleanStop` say
exactly when the late `Add` does harm: only in a proxy that is stopped before
its workers have run at all.  `Served` and `StopReturns` say
that stalled peers do harm only as a whole set that occupies every worker
(or one worker, for the shutdown).

### Delivery, DeliveryProofs

`Delivery` instantiates `Registry` (as `Table`) and `Dispatch` (as `Channel`)
and joins them: the handlers of the one are the senders of the other, and what
`Dispatch` leaves open, `sendWS`, is filled in.

| action | code |
|---|---|
| `TableRuns`, `Dial`, `ReadFails` | the steps of `Registry`; a handler in `send` reads nothing |
| `Send`, `Enqueue`, `EnqueuePanics` | those of `Dispatch`, with the destinations; the panic unwinds to the deferred `closeWSConn` |
| `Lookup`, `NoDestination` | `getWSConn` in `sendWS`, and its error |
| `Begin`, `Written`, `WriteFails`, `Panic` | `WriteJSON`: entered, and its three ends |
| `WorkerMoves`, `Shutdown` | the other steps of `Dispatch` |

A write fails if the connection was closed, if the peer vanished, after a ping
to it timed out (the library then refuses further writes), or if two workers
were inside (`torn`).  The history `held` keeps for every job whom the table
gave for its destination between acceptance and end; in its terms
`FreshTarget` and `LostForAReason` say what a client may expect while
displays reconnect.  `Freed` is why stalled displays do not exhaust the
workers for ever: reconnecting closes the connection in which the worker is
stuck.  If it was overwritten in the race of `Registry` nothing does, hence
the exception.

### Groups: Membership, Groups, GroupsProofs

`Membership` is a set that names join and leave, one operation at a time: a
name is in when its attach ends, and out when its detach begins.  `Groups` has Go's slices: the
arrays that were allocated, the header in the map, the headers that sends
copied.  `slices.DeleteFunc` moves one name per step.  Since a send does not
lock, a read of a slot that is being written, or of a header that is being
assigned, is a data race: such a read may also return `Garbled`, and a lookup
during an assignment may end the process (`LookupFatal`).

`ImplementsMembership` is the surprise of this part: although `RemoveFromGroup`
throws the new length away, the group stays right, because `DeleteFunc` clears
the tail (since Go 1.22; `go.mod` says 1.25).  What remains is an empty slot
per detach, for ever, and a job for the empty name per slot and send: the slice
grows with every attach that follows a detach.  `ExactFanOut` says when a send
is exact: if no detach overlapped it; attaches never disturb it.  A send that
overlaps a detach may skip or double names that neither came nor went, and may
reach a name that attached after the send began (TLC finds it when the
exceptions are dropped from `OnlyMembers`).

### Sessions: Session, SessionProofs

`Session` is the loop of `ws()`.  The steps of `addWSConn` and `closeWSConn`
are those of `Registry` (as `Table`); a handler that is busy (`doing`) reads
nothing.  A group is abstract here: a set (`members`) out of which a send reads
every name once, unless a detach overlaps it, which is what `Groups` shows of
the code.  So is the way of a job: it goes to whoever has the name when a
worker looks, as in `Delivery`.

| action | code |
|---|---|
| `Handles` | the handler's steps of `Registry` |
| `Attach`, `Detach` | those cases of the switch; events of another source are refused and change nothing |
| `SendBegins` | the default case, for one event to the name of the group, which is observed to its last write |
| `SendTo`, `IsGroup`, `SendJob`, `SendSkips`, `SendEnds` | `send`, of events, answers and errors alike: the look among the groups, one job for a connection or one per name; `SendSkips` is what a detach meanwhile does to the slice |
| `Serve` | `sendWS` |
| `Query`, `Receive`, `Expire`, `Reply` | `ntpFunc`: dial and write, read, an error or the deadline; the outcome is sent to the query's source |
| `QueryRefused` | a query with another source: the error is sent to the name it claims |

An answer to any query so far may be the first packet at a socket, any number
of times or never: so packets get lost, late and doubled.

The name of the group (`Group`) is any name, also that of a connection.  Before
the first attach there is no such group, and what is sent to the name goes to
the connection; after it, to those who attached, for ever (an emptied group
stays a group).  The connection of that name then gets neither events nor the
answers to its own NTP queries, unless it has attached itself.  `AnswerFits`
says so: an answer goes to the asker, to one that took its name, or, if the
asker is called like the group, to names that attached.  It allows a wrong
answer only when a UDP port was used twice.  Errors have no such protection:
`QueryRefused` addresses them to any name.

`OnlyAttached` is the other half: nobody gets the group's event whose name no
connection of that name ever attached, however detaches move the names under
the send and whoever takes over a name.  It is what the test of the source in
the code is for (the slip `AttachSource` leaves it out).

The histories `joined` and `robbed` say who attached, and whose name a
*namesake* has detached since: that is the only way into trouble.  A handler
whose connection was replaced goes on with the events it has buffered, and its
late detach throws the returned display out of its group (`robbed`); TLC shows
it when `robbed` is left out of `GroupReached`.  On the other side, a handler
that ends leaves its name in the groups, and that is what makes a display that
comes back get the group's events without attaching again: under the slip
`HandlesForgets`, where it cleans up, the late end of the first handler takes
the second one's membership away.

### Old client: Pumps, ClientProofs

One group, with the websockets that are registered for it one after the other.

| action | code |
|---|---|
| `SetGroupWebsocket` | that function, and the start of the pumps that the comments describe |
| `Call`, `GetGroupWebsocket`, `SendGroupWebsocket` | `SendGroupWebsocket`: the look into the map, the wait for room in the channel |
| `ReadFails`, `ReaderDeletes`, `ReaderCloses` | `readPump`: the first error, `DeleteGroupWebsocket` (twice), the deferred close |
| `WriterTakes`, `WriterOpens`, `WriterAdds`, `WriterFlushes` | `writePump`: a message, `NextWriter` and the length of the channel, the queued messages, `w.Close` |
| `PingFails`, `WriterDeletes`, `WriterCloses` | its returns |
| `Fatal` | two goroutines in the unlocked map, one of them writing |
| `Breaks` | the peer or the network |

`ClientProofs` has the proofs of both clients, the display's and the old one, so
the definitions of `Pumps` have names of their own (`PumpsInit`, `PumpsNext`,
`PumpsSpec`, `pumpVars`, `readPump` and `writePump` for the places of the two
goroutines); likewise those of `Templates` (`CacheInit`, `CacheSpec`, `stage`)
in `ServerProofs`, which proves about both halves of `server.go`.

`InOrder` is why one message may be put together of several: `len(cws.send)`
is read once, and nobody else takes from the channel.  `Settled` says when the
deletes by name are harmless: when the pumps of all other websockets of the
group are gone.  Before that, the end of a displaced one unregisters its
successor (TLC shows it without that condition).  `Unregistered` and `Flows`
are about a websocket at its end: it leaves the map, though `writePump` does
not delete it after a failed ping, because `readPump` does; but its channel
keeps what is in it, and whoever is waiting for room there waits for ever.

### Display: Communication, ClientProofs

`main` is the goroutine of `cmd/display/main.go` from `Start()` on, through
`Attach`, `NTP()`, the start of the browser (`Launch`, whose panics run the
deferred `Stop`) and `Stop()`; a signal that comes before the browser is up
ends the process at once (`Killed`).  `reader` is the goroutine of `Start()`.  `ReceiveAnswer` and `ChooseChannel` are the two
looks at `comm.ntpConn`; `CloseReceiver` and `ClearReceiver` the two statements
of `RemoveNTPReceiver`.  The proxy is the environment: it answers the query at
most once, at any time; `StaleAnswer` is the answer to the query of an earlier
connection of the same name, which can still be queued when a display
reconnects, or to that of another display which is called like the group of
this one (section 3, Sessions).  `ReadPanics` is the websocket library's panic at the 1000th read
of a failed connection, to which the reader's `continue` leads after a reset.

`HandOverSafe` says that the races do harm only with an answer that is late or
stale; without these exceptions TLC shows both the panic (closed channel) and
the reader blocked for ever (nil channel, or the first channel that nobody
reads).  It also says that the channel is closed once, though `Close` is called
twice.

### Server, Templates, ServerProofs

`Server` is about `echoConnsMu`.  Handlers hold it for a step (`AddEchoConn`,
`Goodbye`, `Leave`), `Stop` holds it throughout (`Locked`).

| action | code |
|---|---|
| `Dial` | `upgrade()`, in `echo` or `ws` |
| `AddEchoConn`, `Echo`, `IOFails`, `Leave` | `echo()`: entry, loop, errors, deferred close; for a display, the deferred `closeWSConn` |
| `Displaced` | `addWSConn` of a successor closes a display's connection |
| `CloseFrame`, `Goodbye` | the handler given to `SetCloseHandler`, for all websockets |
| `WriteBegins`, `WriteEnds`, `JobFails` | the workers, as far as `Stop` waits for them |
| `Page` | a request for a page |
| `Listen`, `ListenEnds`, `ListenFails` | the goroutine of `Start`; a failure is only logged |
| `Signal`, `Drained`, `CloseAll`, `Shutdown`, `Wait`, `Exit` | `Stop` |

The close handler is also installed on displays.  So the handler of a display
that says goodbye during `Stop` waits for the lock, before it can close the
connection in the write to which a worker, for whom `Stop` waits, is stuck:
all three wait until the peer cuts the line.  `GoodbyeHeard` and `StopReturns`
name this as their exception.  A handler that enters `echo` late waits for
`Stop`, too, and nobody closes its connection (`ListExact`).

Of the connection table `Server` has only what matters to `Stop`: the handler
of a display closes its connection when it ends, or leaves it open, if the
table has another one under the name (`CloseWSConn`; when that happens is the
subject of `Registry` and of the run `registry_closed`).  So `ListExact`
promises a closed connection after the handler's return for `/echo` only.

`Templates` has `getTemplate` with the map access split in two (`stage = "write"`
is the time during which the runtime may notice a concurrent access).

### Browser, BrowserProofs

`main`, `reader` and `poller` are the three goroutines of the display that call
the browser; a restarted browser is a new context with a number of its own.

| action | code |
|---|---|
| `CheckNil`, `CheckErr`, `CheckErrPanics` | `IsRunning`, for `Evaluate`, `Navigate` and `Tasks` |
| `CloseTest`, `CloseCancel`, `CloseCancelPanics`, `CloseForget` | `Close`, from `IsRunning` |
| `Startup`, `Listen`, `ListenPanics` | `Startup` |
| `Acquire`, `Spawn`, `Timeout`, `RunEnds` | `Tasks` and `Run` |
| `RunReads`, `RunPanics`, `PageLoads` | the goroutines that these start |
| `Evaluate` | an event, or a poll of the player |
| `Launch`, `ChromeDies` | chromedp and Chrome |

`HarmlessWhileAlive` says that time-outs alone do no harm.  Once Chrome has
died by itself they do: without the exception TLC shows the display crash on a
`TaskCtx` or a cancel function that another caller has just set to nil, and a
restarted browser cancelled by a late `Close`.  `GoneForGood` and `LostForGood`
say that the code's restart does not give the display back: `Evaluate`
returns an error before `Tasks` can restart, and what `Tasks` does restart is
never navigated.

## 4. Runs

| run | bounds | shows |
|---|---|---|
| `registry` | 3 connections of one name, 1 of another | two handlers that overlap and a third that displaces the survivor; a second name for cross-talk |
| `registry_closed` | the same | the message "already closed" is wrong (a finding) |
| `dispatch` | 2 workers, 2 handlers, channel of 2, 4 jobs, jobs 2 and 3 stalled | a full channel, blocked senders, both workers busy, shutdown at any point |
| `groups` | 3 names, one of which sends; 4 slots | arrays of capacity 1, 2 and 4, a detach of the first, a middle and the last name, attaches after it |
| `delivery` | 2 workers, channel of 1, 2 jobs; a display with 2 connections, one of which may vanish, and a sender | replacement between look-up and write, two workers in one connection |
| `delivery_live` | 1 worker, channel of 1, 3 jobs, 2 stalled connections of a display that sends to itself, shutdown at any point | a worker stuck, a full channel, the sender itself displaced while it waits, or sending to the closed channel |
| `server` | 2 echo connections, 1 stalled display, 1 worker, 1 job | every order of arrival, goodbye, cut and stop |
| `templates` | 3 requests, 2 pages and a missing one, with and without debug | overlapping writes of one and of two entries |
| `browser` | 2 contexts | death before, during and after everything, a restart, and a late `Close` of the new browser; time-outs that get every caller out |
| `communication` | 2 stale answers, 2 other events | one stale answer to end `Read` and one to jam the reader |
| `session` | a display with 2 connections and one with 1; a group called like the first; 3 events, 2 queries, 2 ports | attach, reconnect and send, or attach, displaced detach and send; a second query at the port of the first; an answer that goes to the group. The connections of the first display are interchangeable, and so are the ports: symmetry, sound as only invariants are checked |
| `pumps` | 2 websockets, 2 callers, channel of 1, 2 messages each | a full channel with a second caller waiting, a batch of two, both pumps of the displaced one at the successor's entry |

Senders of `Groups` only read what they share, so one shows what any number
can see.  The code's capacity of 100 and its number of workers are parameters:
the proofs hold for all, and the runs need only a channel that gets full and
empty and workers that overtake each other.  The proofs about
`Session` are for any number of displays, connections and ports; the run has
the smallest group with a member besides the one it is called like.

Every property of a passing run has a mutant: a slip that a programmer could
make, kept next to the definition that it replaces (comments that start with
"Slip:"), under which TLC finds the property violated.  The type invariants of `Server`, `Templates`, `Browser`,
`Communication`, `Session` and `Pumps` are in no run: they are proved.

## 5. Fairness

Goroutines that can run are scheduled, and mutexes are held for a few
statements only: weak fairness of each handler's and worker's steps.  In
`Dispatch`, a write returns unless the peer has stopped reading (`Unread`):
that is an assumption about the peers, since the code sets no deadline.  In
`Delivery` a write to a stalled peer need not return before the proxy has
closed the connection; a read of a connection that the proxy has closed
returns.  `Registry` is checked for safety only, without fairness.  In `Server` a worker's write ends unless the peer is stalled;
pages may take for ever, the 5 seconds of `Shutdown` pass.  In `Browser` timers
fire, goroutines run, and Chrome owes nothing; the semaphore serves its waiters
in order of arrival (`semaphore.Weighted` keeps a list), which strong fairness
of `Acquire` stands for.  In `Communication` timers fire; the proxy need not
answer nor hang up.  `Session` is
checked for safety only, without fairness.  In `Pumps` reads,
pings and writes have their deadlines, so that each pump goes on, and a call
goes on when the channel has room.  No fairness is assumed of clients, signals
or shutdown.

## 6. Proofs

`tlapm` checks every module `*Proofs.tla` without exception.  They assume only
the `ASSUME`s of the modules: each connection has a name and is not the mark for
"none", the set of workers is finite and not empty, the capacity is a positive
number, the bounds are numbers.

| module | theorems about |
|---|---|
| `RegistryProofs` | `Registry`: 3 invariants, who displaces whom, `Directory` implemented |
| `DispatchProofs` | `Dispatch`: 3 invariants, the state at the return of `close`, clean stops |
| `GroupsProofs` | `Groups`: 3 invariants, `Membership` implemented |
| `DeliveryProofs` | `Delivery`: 4 invariants, `Registry` implemented, `Dispatch` implemented up to a crash |
| `ServerProofs` | `Server` and `Templates`: the list, the warm cache |
| `BrowserProofs` | `Browser`: harmless looks, what is gone or lost stays so |
| `ClientProofs` | `Communication` and `Pumps`: hand-over, order, entries |
| `SessionProofs` | `Session`: who is reached, who else may be, and answers |

Each has one inductive invariant `IInv` (`CacheIInv`, `PumpsIInv` for the second
specification of a module), which a run of TLC found to be true of every state
before it was proved; lemmas with what each action does to the variables; one
lemma per action and part of the invariant; and the theorems last.

* `Registry`.  The leak is excluded by `AloneOk`: while no two handlers of a
  name overlapped, the one inside `addWSConn` sees at most the entry it found,
  and none after evicting it, so that its `Store` overwrites nothing.  With
  `FoundOk` and `AddingOpen` this makes the safety properties inductive; the
  refinement of `Directory` follows from the same invariant.
* `Dispatch`.  The buffer holds consecutive numbers (`QueueOk`), so what left
  it is `1..Taken`; hands and finished jobs partition that (`TakenOk`).  For a
  finished job j some worker's hand is empty or past j (`AheadOk`), so only
  the others can hold what j overtook: that bounds the reordering.  The counter
  of the wait group is the number of running workers (`CountOk`).
* `Groups`.  `TypeOK` and the properties are far from inductive: nothing in
  them says what is in the arrays.  `HeadersOk` and `Written` say that the
  entry and the newest array agree up to the entry's length, that the joining
  name is next, and that nothing but empty slots follows: this is why an
  `append` in place cannot be seen through any header handed out before, and
  why an `append` that moves loses no name.  `Members` and `Moving` describe a
  `DeleteFunc` half-way: all slots but one (`shift.to`, which `Kept` leaves
  out) hold each member once, and that one holds the leaving name or a copy of
  the name in the slot before it.  With `DetachDone`, which clears the tail, the slots that
  remain after the last move hold the members once: the new length is not
  needed.  `Ranged` is what a send may rely on while no detach touches its
  array, and gives `ExactFanOut`; `Reads` is what it may rely on in any case, and gives
  `OnlyMembers`.  The refinement maps `members` to the slots of the entry
  without empty ones and the name that is leaving; `Members` shows it equal to
  the history of the calls (`belongs`), so that a move of `DeleteFunc` is a stutter,
  the last step of an attach a join and the first of a detach a leave.
* `Delivery`.  `Registry` and `Dispatch` share the program counter of a handler
  that is in `send` (`SendsOk`: it is in its read loop), and the table changes
  under the jobs.  `Current` bridges the two: the holder of a job's destination
  is in the job's `held` as long as it is not finished.  Hence what a worker
  looks up is fresh (`AimOk`), and stays so however late it writes.  If the
  write fails because the connection was closed, then the table has another holder
  by now, as what it has is open (`RegisteredIsLive`), and `Current` puts this
  one in `held`, too: the event was owed to more than one connection, and
  `LostForAReason` asks nothing.  What is known of the channel is that of
  `Dispatch` (`QueueOk`, `HandOk`, `TakenOk`, `CountOk`): the composition may
  stop it by a panic, but not lose a job.  Every step is one of `Registry` or
  leaves the table alone (`DeliveryImplementsRegistry`: the panic in `send` is
  a failed read to the table), and one of `Dispatch`, or leaves the channel
  alone, or is the panic of two writers (`DeliveryImplementsDispatch`: `Crash`,
  which `Dispatch` lacks, so `Delivery` does not implement it as it stands).
* `Communication`.  Without time-out and stale answers the one answer is owed,
  on its way, or with the reader, never two of these (`OneAnswer`), and only
  while `main` is in `Read` (`Waiting`).
* `Server`.  `ListExact` is kept by every step together with `Unlisted`: a
  connection of `/echo` that is not yet, or no longer, on the list is touched
  by nobody but its own handler.  `RemoveAtFacts` and its companions say what removing
  the first occurrence does to a sequence without repetitions.
* `Templates`.  A request goes to "parse" only for a page that the cache lacks,
  and writes only a page that exists; so a warm cache stays warm and a dead
  process was cold.
* `Browser`.  Before Chrome dies the one context is not done, so no look sends
  a caller into `Close` or `Startup` (`Calm`).  What is gone or lost stays so
  whatever the goroutines do that were left behind.
* `Session`.  Two arguments, of the group and of the answers.  Whoever is owed
  the event is served, in the jobs, or ahead of the one sender (`OwedOk`,
  `SendOk`), since the group is exactly who joined and was not robbed
  (`MembersExact`, part of the invariant).  What is on its way is addressed to
  a name that attached, or to the asker's (`BoundFor`), and no attachment is
  ever undone in `attached`.  Whoever
  asks has a latest query, whose port no later one has (`AskingOk`), so what
  arrives there answers it or an earlier one; and whoever asked has been
  admitted, so it never gets its name back once it has lost it.
* `Pumps`.  What is written, open and queued are three stretches of 1, 2, ...
  that follow each other (`Stretches`); a pump at a delete has seen the end of
  its own connection (`Ended`).

Only model-checked are the liveness properties (`Served`, `StopReturns`,
`Freed`, `DisplacedEnds`, `GoodbyeHeard`, `CallsReturn`, `NTPReturns`,
`StopEnds`, `Unregistered`, `Flows`): they need fairness and
`ENABLED`, for which the prover has no rule here.  Every safety property that a run
checks is proved, apart from `AlreadyClosed`, which is false.

## 7. Not modelled

What is in an NTP packet, TLS, flags and configuration, page templates and
scripts, logging: data, or sequential.  `removeWSConn`,
`RemoveFromGroups`, `removeEchoConn` and the functions of `server.go` whose
names start with an underscore are never called, nor are `MouseClick`,
`Screenshot` and `player.Close`; the browser is closed only from inside
`IsRunning`.  Pings appear only in what a timed-out one does to later writes:
their handlers do nothing.  That two tasks which timed out may run in Chrome
beside a third is in `Browser`; what they do to one another in the page is not,
nor is the race of `Evaluate` on the value that a late task stores.  In
`pkg/client0` the log of the browser and the calls handed on to a player are
left out: nothing calls them, and no player implements the interface; nobody
closes a websocket's channel, so that branch of `writePump` is never taken.

Met while reading, and too certain to need a model:

* every effective detach leaves an empty slot in the group's slice for ever,
  and a job for the empty name per send (section 3, Groups);
* each poll of a hanging browser leaves a goroutine behind for ever;
* a display whose proxy hung up, or whose name was taken, never reconnects: its
  reader ends and everything else goes on;
* the flag `-name` of the display is parsed and never applied
  (`cmd/display/config.go`, the switch in `loadConfig`);
* `num_workers = 0` is accepted, and then the 101st event blocks its handler.
