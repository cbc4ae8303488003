# A verification of clapier and garenne

clapier is an HTTP server that feeds a 2006 Nabaztag:tag rabbit; garenne is the
program the rabbit runs, in Metal, on a single-threaded virtual machine without
an operating system. This directory holds TLA+ models of both, the TLC
configurations that check them on small instances, and proofs that hold for
every instance.

## The system

| part | state it keeps | operations | what it talks to |
|---|---|---|---|
| garenne TCP (`garenne/net/tcp.mtl`) | `_tcp_conns`, one record per connection: state, `snd_nxt`, `rcv_nxt`, the one segment in flight, a queue of chunks, a pending close, the window | `tcp_input`, `tcp_write`, `tcp_close`, `tcp_connect`, `tcp_send`, `tcp_set_rwnd`, the 100 ms timer | the radio below (`netSend`, `netCb`), one callback per connection above |
| garenne HTTP server (`http/server.mtl`) | `_hsrv_reqs`, a buffer and a done mark per connection | the callback `_hsrv_ev` | TCP, from inside its callback |
| garenne HTTP client, audio (`http/client.mtl`, `audio.mtl`) | request records in `tcp_user`; buffer queue, marks, `_aud_conn`, playback state | `http_get`, `http_stream`, `audio_play`, `audio_stop`, the codec's callback | TCP, the codec |
| scheduler (`tasks.mtl`) | `_tasks` | `task_start_ex`, one pass of `task_scheduler` | every periodic part |
| receive path (`net/rx.mtl`, `arp.mtl`, `icmp.mtl`, `udp.mtl`, `ctl.mtl`) | duplicate filter, ARP cache, counters | `wire_rx` | TCP, the watchdog (counters), the control commands |
| link watchdog (`net/link.mtl`) | last reception, last reassociation, failures | `_link_watch`, `link_reassoc`, `reboot_soon` | the radio driver, the receive counters |
| organs (`ears.mtl`, `button.mtl`, `leds.mtl`, `choreo.mtl`, `app.mtl`) | ear records, button machine, the running score | polled tasks, `ears_goto`, `choreo_play` | audio edges, control commands |
| choreography codec (`chor.mtl`, `crates/clapier-chor`) | none | `encode_cdl`, `chor_parse` | the pilot page writes, the rabbit parses |
| pilot page (`crates/clapier`, `rabbit-say.sh`) | temporary and installed files of the overlay | `dance_post`, `ctl_post`, `say_post` | the control port of a rabbit, the file system, a browser |
| content and life of clapier (`crates/clapier-vl`, `main.rs`) | three trees of files; the socket on the log port | `respond`, start, roll call, graceful shutdown | the rabbits, people who install files, another clapier |
| fleet register (`crates/clapier-fleet`) | a list of entries: MAC, address, last pulse, last status | `seen_http`, `pulse`, `status` under one lock | HTTP handlers, the UDP listener, the poller |
| burrow (`crates/clapier`) | the `bc.jsp` of each rabbit in the overlay; no state in memory but the register and the journal | adoption, deployment | the file system, the rabbits |

What is hard here is never one function but what meets it: acknowledgements of
an older connection of the same ports, FINs that cross, callbacks that write
from inside the handler that called them, a table with six slots and clients
that vanish, a clock that wraps, a poller that files an answer under an address
that has changed hands, two requests that adopt the same rabbit, a dance that is
installed while another is fetched, a clapier that starts before the last one
has let go of its port. `PROJECT.json`
lists these hazards at their lines.


### What makes each part correct

- **TCP.** One segment in flight, and the acknowledgement that frees it is its
  own; whatever is queued has something in flight that will pull it; the FIN is
  last; a close reported as orderly means the peer has read everything; a
  segment nobody acknowledges is given up; the table keeps its cap.
- **HTTP server.** A request is answered once, from exactly the bytes the rabbit
  acknowledged; an entry lives exactly as long as its connection.
- **Client and audio.** Every chunk of a song is queued once, in order, into
  the song it belongs to; a closed window reopens; `audio_stop` ends the stream
  it found, in whatever state.
- **Scheduler.** A task that is killed while a pass runs is not run again; one
  that is started in a pass is not lost; statuses survive the tasks that change
  them.
- **Receive path.** A frame heard twice is handled once, and a frame heard once
  is handled; the cache never maps a gateway to another host's answer.
- **Watchdog.** Silence ends, in bounded time, in a reboot; a rabbit that was
  just heard is not rebooted; the ladder is climbed in its order.
- **Organs.** An ear stops where it was sent, and its zero is the double gap; a
  score that is replaced leaves no timer of the old one.
- **Codec.** What the pilot encodes is what the rabbit plays, in order and on
  time.
- **Pilot.** A rabbit plays a whole file, installed for it, no older than the
  command that asked for it; a browser is told what happened; no form waits for
  ever on a rabbit.
- **Content and life.** A request is answered by the first layer that has the
  file; a socket that hears nothing is found out; only a peer that stops half way can
  hold a shutdown.
- **Fleet.** An entry tells of one rabbit, the one that lives at its address,
  and there is one entry per rabbit.
- **Burrow.** A rabbit is served a whole brain or none; one that finds its
  burrow empty and can be adopted is.

## The modules

| module | what it models | on what it rests |
|---|---|---|
| `GarenneTcpConn` | the connection record of `tcp.mtl`, frames, `_tcp_send_rel`, the queue, `tcp_write`, `tcp_close` | |
| `GarenneHttpServer` | `server.mtl`: the callback and its entry | extends `GarenneTcpConn` |
| `GarenneTcp` | the receiving half of `tcp.mtl` and the timer, callbacks inside | extends `GarenneHttpServer` |
| `GarenneServer` | the tables, the timer task, the peers and the air; specification and properties | extends `GarenneTcp` |
| `HttpExchange` | the abstract exchange the server promises | |
| `GarenneServerProofs` | theorems about `GarenneServer` | extends `GarenneServer`, TLAPS |
| `ClapierFleetProofs` | theorems about `ClapierFleet` | extends `ClapierFleet`, TLAPS |
| `ClapierServeProofs` | theorems about `ClapierServe` and the lookup | extends `ClapierServe`, TLAPS |
| `GarenneLinkProofs` | theorems about `GarenneLink` | extends `GarenneLink`, TLAPS |
| `ClapierBurrowProofs` | theorems about `ClapierBurrow` | extends `ClapierBurrow`, TLAPS |
| `ClapierPilotProofs` | theorems about `ClapierPilot` | extends `ClapierPilot`, TLAPS |
| `GarenneAudioProofs` | theorems about `GarenneAudio` | extends `GarenneAudio`, TLAPS |
| `GarenneOrgansProofs` | theorems about `GarenneDance`, the parser and `GarenneEars` | extends both, TLAPS |
| `GarenneAudio` | `audio.mtl`, the stream of `http/client.mtl`, and what they use of `tcp.mtl`: the active open, the window, the close | |
| `GarenneLink` | `link.mtl`, the driver and the control commands that reach it | |
| `ClapierFleet` | the register of `clapier-fleet`, the handler, listener and poller of `clapier` that write it, the rabbits and their leases | |
| `ClapierBurrow` | adoption and serving of `bc.jsp`, `deploy-garenne.sh`, on files that are inodes | |
| `ClapierChor` | `encode_cdl` of `clapier-chor`: from the tokens of a choreography to bytes | |
| `GarenneChor` | `chor_parse` of `chor.mtl`: from bytes to the steps of a score | |
| `GarenneDance` | encoder, parser and player (`choreo.mtl`) composed: from the text to leds and ears | extends both |
| `GarenneEars` | `ears.mtl`: one ear, its calibration and its moves, and the ear itself | |
| `ClapierPilot` | the forms of the pilot page, the gate before the control port, the rabbit's answer and its fetch of what was installed | |
| `ClapierContent` | `clapier-vl`: how a path is looked for in three layers | |
| `ClapierServe` | `main.rs` and the pulse listener's socket: start, roll call, serving, shutdown | extends `ClapierContent` |
| `MC...` | one per specification: the definitions and model values its configurations name | extends it |

`PROJECT.json` ("map") gives, for every definition that models code, the lines it
stands for. Definitions whose comment starts with "Mutant:" are deliberate bugs
that are part of no specification; each is paired there with the property that
catches it.

### The server

The interpreter is single-threaded: `tcp_input`, a tick or a call from above
runs to its end. So a handler is a *function* of the machine of one connection,
a record of `conn` (the record of `_tcp_conns`), `out` (the segments given to
the driver) and `up` (the entry of `_hsrv_reqs`), and the layering of the
modules follows the calls: the server's callback is called by `AckIn`, `DataIn`
and `Die` at the point where the code calls `_tcp_event`, and calls `TcpWrite`
and `TcpClose` back from inside. That is why the server sits *between* the two
halves of TCP. A whole handler, with every call it makes, is one step.

| action of `GarenneServer` | code |
|---|---|
| `RxUnknown` | `tcp_input` on a connection not in the table: `_tcp_accept` |
| `RxKnown` | `tcp_input` on one that is: RST, `_tcp_ack_in`, order check, `_tcp_data_in`, `_tcp_fin_in` |
| `Tick` | one pass of `_tcp_timer` over whichever connections have waited `TCP_RTO_MS` |
| `Peer...` | the other end, external, an ordinary TCP as the rabbit expects it |

`CLOSED` stands for the absence of a record. Sequence numbers are integers
modulo `SeqMod` (the code keeps 2^32 in strings of four bytes and adds halves
with a carry). A chunk is a sequence of units, a request a sequence of what its
lines are: `status`, `other`, `notget`, `garbage`, then `header` text and
`blank`. `said` and `ended` in the entry are history: they record what the
server wrote and how its last connection ended.

The air is a set per direction of every segment ever sent. A step may deliver
any of them at any time and leaves it there; this is loss, delay, reordering and
duplication at once, across the successive connections of one address and port.

Bounds: `MaxEmbryos` is how often a peer's SYN is accepted (it is what ends the
behaviours that would otherwise reopen for ever); `PeerConnect` happens once per
peer. `Iss` gives our first sequence numbers, so that a connection can wrap, and
two connections of one peer can lie side by side in sequence space; `StreamsApart`
says that they do not overlap ("Known limits").

### The audio stream

| action of `GarenneAudio` | code |
|---|---|
| `audio_play`, `Stop` | the control commands: `audio_stop`, then `http_stream` with `tcp_connect` and `tcp_set_rwnd` |
| `RxSynAck`, `Rx`, `RxReset` | `tcp_input` in SYN_SENT, in order and out of order, on a RST, each with the callback it ends in |
| `Tick` | one pass of `_tcp_timer`: windows announced, ARP asked again, segments that waited too long |
| `Feed`, `PlayedOut` | `_aud_cb`, called by the codec, which is armed exactly while the state is AUD_PLAY |
| `SrvHear`, `SrvAck`, `SrvSend` | clapier and its kernel, external: they send within the window they were told |

Here a handler maps the machine of *all* connections: the callbacks of the
stream know no connection, so what one connection delivers ends in the player of
another. That is also why this module does not extend `GarenneTcp`, whose
handlers see one connection, and states TCP again from the side of the client:
nothing is ever queued, the SYN, the request and the FIN are the only segments
to be acknowledged, and sequence numbers (which `GarenneServer` wraps) are
positions in the response. For the same reason one pass of the timer is one
function of the whole table: the turn of a connection touches its own records
only, and those that give up end the player's stream, which is one thing whether
one of them does or several.

A unit is one segment of the response: its header, its body, its FIN. `acks`
is the set of acknowledgements in the air; one that tells the server nothing
beyond what it knows is left out, since it is as good as lost. `fed`, `crossed`
and `broken` are history: what the codec took of a song, whether a play has ever
found an older stream alive, and whether the last stream ended in an error.
`crossed` is the premise of what the code promises of one song, and its negation
is the finding `audio_stale`.

### The link watchdog

| action of `GarenneLink` | code |
|---|---|
| `Watch` (`Probe`, `Reassociate`, `GiveUp`, `Rest`) | one run of `_link_watch`, with `link_decide` |
| `CtlReassocTask`, `link_reassoc` | the task `ctl.mtl` schedules; the blocking scan is time that passes inside the step |
| `CtlReassoc`, `CtlReboot`, `ButtonReboot` | the commands and the long press, until their deferred tasks run |
| `Reboot` | `reboot_soon`'s task; every variable starts over |
| `Pass` | a unit of time in which nothing was due |
| `Drive`, `Hear` | the radio driver and a frame that parses, external |

Time is counted in a unit the configuration chooses, and read through `time_ms`,
a signed word that wraps: the virtual machine's integers have 31 bits.
`silence`, `steady` and `probed` are history, what an observer outside would
have noted. `uptime` is no variable of the code but the clock under its word.
"scanning" and "connecting" are treated alike by every line of `link.mtl`, so
one of the two stands for both in the configurations.

### The fleet register

`seen_http`, `pulse` and `status` are the methods of `Fleet`; each is called
under the lock, so each is one step, and what comes between a request's arrival
and its filing, a pulse's sending and its hearing, or a poll's question, answer
and filing, are steps of their own. `Snapshot` is `snapshot` as the poller uses it:
sorted by MAC, nameless entries left out. Instead of the moments and texts an
entry holds, the model holds *whose* they are: that is all the properties tell
apart. `Move` is a change of lease, to an address nobody else holds, off, or to
one its holder has lost (which puts that one off). `Speaking` rabbits run a
garenne whose pulses carry the MAC, the others an older one.

### The burrow

Names point to inodes, and a copy writes through its descriptor: that is what
makes a rename during a copy visible. `Ask`, `Look`, `Read`, `AdoptOpen`,
`Copy`, `AdoptRename`, `AdoptFail` are the steps of `serve_content`, `respond` and
`AppState::adopt`, one per system call that another process or handler can slip
between; `Crash` kills clapier between any two, `HangUp` drops a handler where it
awaits (a copy does not await, so it is not dropped there). `DeployOpen`, `Copy`,
`DeployMove`, `DeployStop`, `Rollback` are `deploy-garenne.sh --rabbit`.
`overlapped` and `excused` are history: whether two copies were ever under way
at once, and whether a handler's refusal has a reason outside of it.

### The dance

`encode_cdl` and `chor_parse` are functions, and so are their parts: `Words` and
`WellFormed` say what a text must be, `Ticks` and `Delay` how a frame becomes a
delay in units of the frame's duration, `Chunk` what an action becomes in bytes;
`Command` is one turn of the parser's loop, from its position and what it has
gathered to the next. How a text is cut into tokens, and numbers read, is left
out: a text is the sequence of its tokens. A frame's bytes are the code's.

| action of `GarenneDance` | code |
|---|---|
| `Dance` | a form's text, encoded by clapier, fetched and parsed (`_ctl_chor_done`) |
| `PlayFile` | the `chor` command on a file of the library, whatever is in it |
| `Salute` | `choreo_salute`, the score built in |
| `cho_task` | one pass of `_cho_task`: all steps that are due, and the end |

Each of the first three ends in `choreo_play`, which replaces the running score.
`text`, `played` and `plays` are history. Installing and fetching the file is the
business of `ClapierPilot`; the breathing nose, and the commands that set a led
or an ear by hand, are left out.

### The ears

| action of `GarenneEars` | code |
|---|---|
| `Pass`, `Late` | one pass of `_ears_task`: `_ear_tick`, `_ear_on_holes`, `_ear_cal_hole`, `_ear_arrive` |
| `Goto` | `ears_goto`, at some moment between two passes |
| `Hand`, `Jam` | hands that turn an ear by a hole, and what holds it, external |

The two ears share nothing, so one is modelled. The ear itself (`hole`, `ahead`,
and how long the way to the next holes is, one gap being double) is external and
turns exactly while the code drives it. `delta`, `since` and `next` are
differences of the times and counts the code keeps. `trusted` is history: the zero
was found, and kept, under the conditions `KnowsItsPlace` states.

### The pilot

| action of `ClapierPilot` | code |
|---|---|
| `dance_post`, `ctl_post`, `say_post` | the three forms, up to their first await: `encode_cdl`'s verdict, `vet_ctl`, the speech script's own check |
| `Open`, `Write`, `Rename`, `Fail` | `create_dir_all`, `fs::write` to the temporary file and `fs::rename`, or the first of them that fails |
| `Send`, `Hear`, `Timeout` | `ctl_send`: the datagram, its answer, its three seconds |
| `HangUp`, `Crash` | the browser closes the connection, clapier dies |
| `Run`, `Lose`, `Look`, `Read`, `FetchFails` | the rabbit runs the command, then fetches the file from clapier, in two looks |

A form is a process of its own, and an inode bears the name of the form that
created it. A write handed to the blocking pool goes on when its handler was
dropped: `detached` forms still write. `got`, `installs`, `floor` and `crossed` are
history: what a fetch brought, who has installed each file, how far that list was
when a command was sent, and whether two writers of one file were ever under way
at once. `got` tells a file that is empty from nothing fetched yet (`Unfed`), so a
rabbit that fetches what was only just opened counts. `crossed` is a premise of `PlaysWhatWasSent`, for the same reason as
`overlapped` in the burrow: all dances of a rabbit share one temporary file.

### The content and the life of clapier

| action of `ClapierServe` | code |
|---|---|
| `Work` (`Begin`, `TryOverlay`, `TryBase`, `TryIndex`, `Listing`, `Read`) | `respond`, one step from one await to the next |
| `Accept`, `Complete`, `Leave` | the first bytes of a request have come (`receiving`); the rest of its head and of its form, so that its handler is called; its peer has read the answer, or hung up at any moment |
| `Start`, `Bind`, `Signal`, `Stop`, `Kill` | `main`: arguments checked, the web port bound, the signal, the graceful shutdown; any other end |
| `Join`, `RollCall`, `Silence`, `Break` | `listen_pulses` and `log_socket_verified`: a socket, the probe it should hear, the pause after one that does not, an error |
| `Bury`, `Change` | the kernel closes a dead process's socket; files come and go, external |

One path is modelled, and what bears its name in each layer; of the `m` parameter
its shape (`rabbit_id`), of the path what `resolve` refuses. That a socket bound
next to a dead one may be deaf is what the comment of `log_socket_verified`
observed of the kernel; the model takes it as something that may happen.
`since`, `haunted` and `unlucky` are history: what each layer has had under the name
since a request came, how many binds of a listener were made next to a corpse, and
whether a roll call failed a socket that hears.

## The runs

| run | question | bounds |
|---|---|---|
| `server` | Can any interleaving of data, acks, FINs, RSTs, repeats and ticks break the machine, lose or answer twice a request, or close early? Does the server implement `HttpExchange`? | 1 peer, 2 connections of it, `SeqMod` 16 |
| `server_live` | Does every exchange end, and is what nobody acknowledges given up? | 1 peer, 1 connection |
| `audio` | Does the codec get the song, whole and in order? Does the window hold the sender back, and never for ever? | 2 plays, songs of 1 and 5 segments |
| `audio_stale` | Is what is played the song asked for last? (violated) | 2 plays, songs of 1 segment |
| `link` | Is silence bounded, is the reboot never rash, is the ladder climbed in order? | up to 19 units after a boot |
| `fleet` | What can a register filed under addresses say that is wrong? | 2 rabbits, 2 addresses, 1 move |
| `fleet_live` | Does the register recover when leases settle? | 2 rabbits, 2 addresses, 2 moves, no poller |
| `burrow` | What protects a rabbit from half a brain, and from being sent away? | 2 handlers and the operator, copies of 2 writes |
| `dance` | Is what the rabbit plays what the text asks for? Does every dance end in the idle look? | texts of up to 4 actions at 7 rates, files of 5 free bytes, 3 steps to a score |
| `ears` | Is an ear where it believes to be? Is one given up only when it is jammed? | 5 holes, 3 commands, hands, jams or late passes |
| `pilot` | Does a rabbit play what was sent, and is the browser told the truth? | 2 forms, 2 rabbits |
| `serve` | Is a request answered by the right layer, whatever changes under it? Is a deaf socket found out, what can hold a shutdown? | 1 request and 2 changes of files, any tree and command line; 2 processes, 2 requests, 2 attempts |

### Server

- `OneInFlight`, `NeverStalls`, `FinIsLast`: the stop-and-wait discipline across
  every handler, including those that write from inside a callback.
- `TableFollowsConns`: no way to end a connection leaves or drops an entry.
  That neither table outgrows the cap (`TablesBounded`) needs many peers to be
  worth asking, and is proved instead.
- `NoRequestByteLost`: `rcv_nxt` and the server's buffer agree with the peer's
  request until it is answered. Segments of the peer's are never longer than
  what it still has to say, and may be of any length.
- `OrderlyCloseDelivered` is an action property: in the step in which the server
  hears CLOSED, the peer has read all that was said. In the code it holds because
  only an ack of `snd_nxt` itself frees a segment; the mutant takes any ack.
- `IsAnExchange` is refinement: `said`, `got` and `eof` of the peer behave as
  `HttpExchange` allows. An answer after the end, a second answer, or an end
  before the answer was read would break it.
- `InFlightResolves`, `ExchangeEnds`: below, under fairness.

Why these bounds. A second embryo of the same peer is what makes acks of an
earlier connection arrive in a later one; a third adds nothing of a new kind,
because a segment is either of the current connection or not. Our first sequence
numbers start at 14 modulo 16, so the first connection wraps within its answer,
and lie 5 apart, so that the second connection's range meets the end of the
first one's. The long answer has two chunks: the queue is non-empty while one is
in flight, and empties while the close is pending. `MaxReq` 2 lets a request be
completed by its second unit, be followed by more after its blank line, or, in
`server`, outgrow the limit before its blank line (three units, a 400).
`MaxRetries` 1 lets a segment be repeated and then given up. The six slots, the
MSS and the retransmission count of the code change none of this; the theorems
hold for every value of them.

### Audio

- `PlayedAsSent`: what the codec took and will take is the song from its first
  unit, none lost, repeated or out of place.
- `CapIsForOutlaws`: `AUDIO_MAX_BUF` is never met by a server that minds the
  window. `AudioAssumption` says why the code's numbers allow it: what may
  arrive behind the high mark is the segment that crosses it and one window.
- `StreamBehindPlayer`: the player lets go of a connection that ends, in
  whatever way, and never waits for a stream that is not there.
- `ShutWindowReopens`: while the window is shut the codec runs, and has enough
  queued to come below the low mark: the two never wait for each other. It is the
  safety half of "a song ends"; the other half is the announcement, which a
  timer sends once and nobody repeats.
- `PlayedWhole` is an action property: the step in which playback ends of itself
  comes after every unit of the body, unless the stream broke.

Why these bounds. `AUDIO_MAX_BUF` is exactly `AUDIO_BUF_HIGH` + 1 + `AUDIO_WND`,
so the cap would be met by one unit too many, and 5 units are what a sender who
were not held back would need; the prebuffer is 2, so that a song of 1 unit (or
the page of 1 unit that says there is none) ends before it. Two plays are what
makes streams cross. The first song is short to keep the run small: whatever its
length, a stale chunk is a chunk. `MaxRetries` 1 lets an ARP question and a SYN be
repeated and then given up.

### Link

- `SilenceBounded`: `silence <= WorstSilence`, which the module states from the
  constants alone: 18 units here, against `LastMs` 19 so that a violation would
  fit. It is a claim about the *whole* ladder: the driver may say what it likes,
  the grace may start when it will, commands may come in a burst.
- `NoRashReboot`: the watchdog's own reboot comes no sooner than a grace after
  the last frame, although hand-made reassociations count as failures.
- `LadderInOrder`: with a driver that kept claiming to be connected, the radio
  is not declared dead before a probe was sent.

Why these bounds. The unit is about 10 s for probe, dead, spacing and grace
(30, 90, 10 and 20 s become 2, 3, 1 and 2 with their order kept), the look is
once per unit instead of every 2 s, and a scan takes 0 or 1 unit. `MaxFails` 2 is
`LINK_REBOOT_AFTER`. The run follows
19 units after each boot, with a word of 42 units, so no age wraps: what happens
when one does, on the rabbit after 12.4 days, is under "Known limits".

### Fleet

- `OneNamelessPerAddress`: rabbits known by pulse alone are listed once.
- `SpokenPulseIsItsOwn`: a pulse that names its rabbit is never shown under
  another, whatever stale request moves the entry.
- `WhileLeasesLast`: until a lease changes, every entry tells of one rabbit only.
  After one, statuses and nameless pulses are filed under whoever has the
  address; the code keeps nothing that could tell.
- `SettledIsListed`: after the last move, a speaking rabbit is listed at its
  address for good.

Why these bounds. Two rabbits and two addresses are the least that lets an
address be handed over, and one move the least that makes what is in flight
stale (one pulse and one request per rabbit, one poll round); the live run has
two moves, so that one can come back. The live run leaves the poller out
(`--poll-secs 0`): a status touches neither MAC nor address. Both rabbits may
end up off, where nothing happens any more, so that run does not ask about
deadlock.

### Burrow

- `WholeWhileAlone`: as long as no two copies overlapped, what is published and
  served is whole, through crashes in mid-copy and stale temporary files.
- `NoVain404`: a request is refused only for a reason: its copy failed, a
  rollback came, or copies met.

Why these bounds. Two handlers and an operator give every pair of writers that
the code has (two adoptions, an adoption and a deployment); copies of two writes
are the least that can be half done; two acts of the operator allow a deployment
and a rollback, or two deployments. Two inodes beyond the writers suffice, one
for each name, and the model never runs out of them.

### Dance

- `PlayedAsAsked`: the steps played are the text's actions in the order of their
  frames, each within half a unit of its frame's moment whatever was rounded
  before it, each with the led, the colour or the angle it asks for. A text the
  encoder refuses plays nothing.
- `IdleLooksIdle`: a rabbit that plays nothing breathes with dark leds, however
  scores replaced one another.
- `EveryDanceEnds`: whatever is in the file, the score ends.

Why these bounds. Seven rates include those whose frame does not last a whole
number of hundredths; frames 255 and 300 do not fit the byte of a delay; texts of
four actions exceed `CHOR_MAX_STEPS`, three here. A pass may be 130 ms late, more
than a frame at ten per second. Files of a header and five bytes of every code
hold commands cut anywhere.

### Ears

- `KnowsItsPlace`: an ear at rest or on its way, that believes to know its
  place, is there: through commands that change its mind, turns across the wide
  gap, touches at rest, late passes on the way. Its premises are the cases in
  which the code cannot know: see "Known limits".
- `OnlyJammedBreaks`: no lateness, no command and no hand makes the code give up
  an ear that turns.
- `EveryMoveEnds`: the ear arrives or is given up.

Why these bounds. Five holes are four narrow gaps and a wide one: three to average,
and one that must not pass for the wide one (the rabbit has 17). A narrow gap takes
190 ms, near those of the code's own tests (`t_organs.mtl:51`) and no multiple of the
period, so passes see holes up to three quarters of a period late; ears are left 50 or
100 ms before a hole, so a calibration may begin close before one or half a gap away;
commands come 20 ms after a pass, so holes are pending when they do. A late pass is 1600
ms late, more than a stall and several holes. Target 6 wraps.

### Pilot

- `PlaysWhatWasSent`: what a rabbit plays of a command is one whole file,
  installed for it, no older than what its burrow held when the command left.
- `ToldTruly`: a refused form leaves nothing; an answer shown is this form's, and
  came after the file was there.
- `GateHolds`: whatever is typed, the rabbit understands the command it gets, and
  its volume stays above the floor.
- `EveryFormAnswered`, under fairness.

Why these bounds. Two forms are the least that share a temporary file, an address
or an answer, and two rabbits the least that lets one's file reach the other; a
form of any kind, for any burrow and any address, covers all pairs.

### Serve

- `AnswersTheTree`: `respond` looks at the three layers one await after the other,
  while people change them; its answer is what `Lookup` says of a tree whose layers
  are each as they were at some moment since the request came. So a file that stayed
  is never passed over for a deeper one, and nothing is served that was gone before.
  `Torn` is the one exception: what the base tree loses between a look and the read
  becomes a 404 or a listing. On files nobody touched only one answer is left.
- `DeafOnlyIfHaunted`: a listener that takes itself for hearing is deaf only if a
  corpse lay on the port at each of its binds, or a hearing socket failed a roll
  call by bad luck (after the last attempt the socket is taken unverified).
- `ComesToRest`: the roll call ends; and if a shutdown does not, one and the same
  peer holds it from some moment on, by not finishing its request or not taking its
  answer (`Held`). Not a handler, not the listener, nor peers that take turns.

Why these bounds. `MCSpec` starts in two scenes, each in states that `Spec`
reaches, and stays in it (`InScene`). *Files* is one clapier that serves any
tree on any command line: a request makes five looks at most, and two changes
can put a file behind it and take away one that was ahead, or undo each other.
*Handover* has two processes and no change of files, since no file decides what
the listener or the shutdown does, and two requests, so that one may be held
while the other ends; with one it could not be told apart whether it is always
the same. Two attempts stand for the code's five: one that is repeated, one that
is the last before the unverified one.

### Fairness

- `FairTimer`: `tcp_init` starts `_tcp_timer` every 100 ms and nothing stops it;
  a connection whose segment stays in flight comes due. This is all that
  `InFlightResolves` assumes: the peer may be silent for ever.
- `FairAir` (that the air delivers and the peer listens) is not assumed but the
  *premise* of `ExchangeEnds`, whose conclusion also allows what the code reports
  as an error.
- `FairPulses`: a rabbit pulses every two seconds, and of a pulse sent again and
  again one is heard. `FairHandler`: a request in progress ends.
- Weak fairness of `cho_task` and of an ear's `Pass`: `choreo_init` and `ears_init`
  start their tasks and nothing stops them.
- Weak fairness of a form's `Handler`: calls to the file system return and the
  three seconds of `ctl_send` pass. Nothing is asked of the rabbit.
- `Fairness` of `ClapierServe`: the runtime takes the steps of handlers, listener
  and shutdown that it can take. Nothing is asked of who signals, nor of peers:
  `axum::serve` (`main.rs:154-159`) installs no timer, so one may leave its request
  unfinished or its answer unread for ever (`Complete` and `Leave` have no fairness).
  Connections that have said nothing, or are idle between two requests, are closed
  on the signal and not modelled.

## What disagrees with the documents

- `audio_stale`: the callbacks of the stream do not ask whose chunk it is. A
  stopped stream goes on delivering until its connection has ended (or, stopped
  before it was established, to its very end, since `tcp_close` does nothing
  then), and what it delivers after the next `play` is queued into that song;
  its end is taken for the end of that song. `audio.mtl:186` promises the path
  that was asked for.

### Known limits

Places where the code does less than a reader may expect. No run shows them, and
the properties above are stated so that they hold beside them.

- Our first sequence number is the clock in milliseconds (`tcp.mtl:85-88`), while a
  stream counts bytes. If a peer's SYN is repeated by the air once its connection
  is over, and is accepted fewer milliseconds after the first than the answer has
  bytes, the new connection begins inside the stream of the old one. What was sent
  on one may then be in order on the other, and so establish an embryo that has
  acknowledged and dropped what the air repeated of the request. `StreamsApart`
  excludes it, and excludes no more than that: 5 is the least distance it allows in
  the instance of `server`, and with 2, 3 or 4 instead TLC finds `NoRequestByteLost`
  violated.
- Only a segment in flight is timed: an established connection whose peer says
  nothing keeps one of six slots until the rabbit reboots, and "above the cap we
  stay silent and let the client retry" (`tcp.mtl:268`) then lets nobody in.
- The moment of the last reassociation is never forgotten, and its age becomes
  negative half a turn of the clock later (`link.mtl:127`): for 12.4 days the
  watchdog sees itself within the grace and does nothing.
- A pulse from a new address opens a second entry with the same MAC
  (`clapier-fleet/src/lib.rs:157`); the register is then not "one entry per
  rabbit" (line 1).
- Two adoptions of one rabbit at once share a temporary file (`clapier/src/lib.rs:75`):
  the second empties what the first is about to publish, although the comment of
  `adopt` says the rabbit "never fetches half a brain". `WholeWhileAlone` shows that,
  of a source that is whole, overlapping copies are the only way. The same holds of
  two dances installed for one rabbit at once. A build that rewrites the
  `garenne.bin` an adoption is copying would be another way; it is not modelled.
- A request looks for `bc.jsp`, finds none, and `adopt` copies and renames without
  looking again (`clapier/src/lib.rs:497-505`): what an operator has installed within
  the time of that copy is replaced, although `src/README.md:51-52` and
  `src/CHANGELOG.md:90` say a `bc.jsp` in the overlay always wins. `ClapierBurrow` has
  this interleaving; its properties ask that what stays is whole.
- A shutdown waits without limit for a peer that does not finish its request or does
  not take its answer (`main.rs:154-159`); `ComesToRest` shows that nothing else holds it.
- A calibration that begins close before a hole takes the short rest of a gap
  into its average (`ears.mtl:73-88`), and the third normal gap may then pass for the
  wide one: a false zero. `KnowsItsPlace` excepts it, and a pass that comes late
  while an ear calibrates, a hand that holds a driven ear, and a touch that no
  pass had seen when a command came. The next touch recalibrates.
- The status page says of a rabbit that it was not seen yet once its requests have
  left the journal of 200 (`clapier/src/lib.rs:546-553`).
- A second signal is not heard while clapier drains; a tree named on the command
  line is looked for at the start only.

## What is proved

`GarenneServerProofs` proves, for every finite set of peers, every cap, modulus,
number of retransmissions, window, request limit and response length, that
`Spec` implies always `TypeOK`, `OneInFlight`, `NeverStalls`, `FinIsLast`,
`TableFollowsConns` and `TablesBounded`. It assumes `TcpAssumption`,
`HsrvAssumption` and `ServerAssumption`: that the constants have their types,
that `SeqMod` is at least 2, that responses are not empty.

The argument is one inductive invariant,

    IInv == TypeOK /\ (\A p \in Peers : MachineOK(Machine(p))) /\ Cardinality(Live) <= MaxConns

The properties as stated are not inductive. `MachineOK` adds to them, for one
connection, that a listening socket never holds an active open (so the branch
of `tcp_input` for SYN_SENT is dead), that an embryo has nothing queued (so the
ack that establishes it may leave the queue alone), and that what is closed or
half closed has nothing in flight (so the timer does not touch it).

Because handlers are functions, each has one lemma that says what it keeps of
`MachineOK`, from the operators up: `SendRelOK`, `SendAckOK`, `TxqKickOK`,
`TcpWriteOK`, `TcpCloseOK`, `HsrvDataOK`, `DieOK`, `AckInOK`, `DataInOK`,
`FinInOK`, `InputOK`, `RetransmitOK`, `AcceptOK`. Some states in the middle of a
handler violate `NeverStalls` (the ack has been taken, the queue not yet pulled),
so the lemmas of the inner operators assume `Shape` alone and the outer ones
restore `Pulled`. `LeaveOK` lifts a handler to the table, `CapOK` counts the
table, and one lemma per group of actions (`RxOK`, `TickOK`, `PeerStepOK`,
`PeerRxOK`) gives `NextOK`, from which `Invariance` follows; the six theorems
project `IInv`.

The second half of the module proves `NoRequestByteLost`, `OrderlyCloseDelivered`
and `IsAnExchange`, the refinement, which relate the rabbit to its peers and to all
that is still in the air. They have one hypothesis more, `StreamsApart`, which is
tight (see "Known limits") and which the instances of the runs satisfy
(`MCStreamsApart`). The invariant is `IInv /\ Talks`; for one peer, `Talk` says:

- whatever either side ever sent and may still arrive is known (`Asked`, `Acks`,
  `Told`): openings, pieces of the request at their own place, acknowledgements of
  no more than was read, one unit of one answer at its place, the FIN behind all
  of it. A segment never leaves the air, so this bounds every repeat and reordering;
- either the peer has heard of no connection (`Unheard`), or it reads the stream of
  one embryo, which by now is in the table (`Present`) or gone (`Past`), maybe with
  a later embryo in its place that it will never open;
- of a connection that is in the table, what was said is what left and what is queued,
  and the peer is at most the one unit in flight behind (`Writes`); what the rabbit
  expects next of the peer is as far into the request as its buffer is (`Takes`).

A number in the air selects its place only because sequence numbers less than a
modulus apart differ (`SeqAddApart`, `Places`); `StreamsApart` turns that into: an
acknowledgement of an old connection never covers what is in flight on a new one.
Each handler has a lemma again (`FlowKick` to `FlowInput`, on an open connection;
`EmbryoInput`, `PastInput`, `UnheardInput`), `TalkInput`, `TalkAccept` and
`TalkRetransmit` put them together, `TalkSays`, `TalkSynAck` and `TalkTake` are the
peer's, and `TalksNext` is the step. It says besides what a step may show of the
exchange (`Acts`), and from that the refinement follows (`ActsRefine`).

`ClapierFleetProofs` proves, for every set of rabbits and addresses and every
bound on the moves, that the register keeps `OneNamelessPerAddress`,
`SpokenPulseIsItsOwn` and `WhileLeasesLast`. It assumes `NamesAssumption`. The
inductive invariant is

    IInv == Typed /\ OneNamelessPerAddress /\ SpokenPulseIsItsOwn /\ Settled /\ WhileLeasesLast

The first two hold whatever moves. `WhileLeasesLast` alone is not inductive: a
datagram in flight from an address that is not its sender's would break it.
`Settled` says what is in flight before the first move: leases are distinct, and
pulses, requests and the poll's answer come from the address of who sent them.
The lemmas go from the entries of a sequence (`First`, the entry a method picks;
what an update, a removal or an append does to each of the properties) to one
lemma per method, and from there to the actions that call it.

`ClapierServeProofs` proves two properties of the life of a clapier, for every set of
processes and requests, every command line and every number of attempts. It
assumes `ContentAssumption` and `ServeAssumption`. They have nothing in common,
and each has its own invariant:

- `AnswersTheTree`, from `ContentInv == ContentTyped /\ \A r : Watched(r) /\ Learned(r)`.
  The lookup looks at a layer at a time, with an await between two; `Learned` says,
  step by step, what each layer a request has passed was like when it passed it,
  which is among what the layer has had `since` the request came (`Watched`: what it
  has now is too). A change of the files only adds to that, so what was learned
  survives it (`KeepsLearned`), and `BaseDecides` puts the looks together into one
  tree that `Lookup` would have answered so.
- `DeafOnlyIfHaunted`, from `EarInv == EarTyped /\ \A i : Counted(i)`. `Counted`
  counts: unless luck failed it, a socket that is deaf or was dropped was bound
  next to a corpse, so binds and haunted binds go together; and a deaf socket is
  heard of only as the last one, which no roll call verifies.

`GarenneLinkProofs` proves the three properties of the watchdog for every cadence,
threshold, grace, number of attempts and length of a scan. Two assumptions are
made of the constants, `TimesAssumption` and `MarginsAssumption`; the code's
satisfy both, the second (which only `LadderInOrder` needs) as long as no scan takes
68 s. `NoWrap`, that the machine has been up for less than half a turn of its
clock, is a hypothesis of each theorem and no assumption: nothing in the code
ensures it, and after a wrap the properties are false ("Known limits").
The proof first puts each look in terms of the time since boot (`Clock`, `Look`),
where a signed word hides nothing, and gives the products of the invariants
(`Scans`, `Toll`) names and laws of their own. The invariant is

    IInv == Typed /\ Awaiting /\ Looked /\ Budget        and, for LadderInOrder, Rungs

`Awaiting` bounds the silence until the look that notes the last frame, with the
scans that were asked for by hand; `Budget` says, after it, that whatever is the
cause of the next delay (a radio that is not dead yet, or a grace) the rungs that
remain fit before `WorstSilence`; `Looked`, that a failure counted is of an attempt
made after the last frame, which is what makes a watchdog's reboot never rash;
`Rungs`, that on a steady link that was not probed the next look comes in time.
Proving it corrected the bound: a frame may come just after a look, *and* the
driver may say it is trying until just after another, so `WorstSilence` counts the
look's period twice. The instance checked was too small to tell.

`ClapierBurrowProofs` proves `TypeOK`, `WholeWhileAlone` and `NoVain404` for every
finite set of requests, any length of a copy and any number of deployments, from
`BurrowAssumption`. The invariant is

    IInv == Typed /\ Lone /\ Undisturbed /\ WholeWhileAlone /\ Filled /\ NoVain404

Until two copies meet there is one writer at most, and the temporary file is its
own and holds what it has copied so far (`Lone`); nobody writes what is published,
nor what was when a reader opened it (`Undisturbed`: an inode lives as long as its
descriptor); who looks again after an adoption finds a brain, or the operator took
it away (`Filled`). That two names never share a file needs a free inode for each
new file: a pigeonhole argument (`FreeInode`).

`ClapierPilotProofs` proves `TypeOK`, `PlaysWhatWasSent`, `ToldTruly` and `GateHolds`
for any number of forms and rabbits and any commands a button may send, from
`PilotAssumption`. The invariant is

    IInv == Typed /\ Homes /\ Staged /\ Vetted /\ Tidied /\ PlaysWhatWasSent

`Homes`: every name and every descriptor is of a file of its own place, and no
reader holds the file a writer is given, so forms for two rabbits never meet in
one file. `Staged`: how far a form has come bounds what it may have left behind.
`Vetted`: what is on its way to a rabbit has passed the gate, or is one of
clapier's own commands. `Tidied`: per place, until two writers of it meet, who
writes is alone, and every reader holds a file that was installed, no older than
its command. `PlaysWhatWasSent` itself is carried along: it speaks of what a fetch
brought long ago, and holds because what was installed stays on the list.

`GarenneAudioProofs` proves the five properties of the audio stream for every song,
mark, window and number of retransmissions that `AudioAssumption` allows; of the
numbers it asks only that the prebuffer and the low mark lie at or below the high
one, and that one segment and one window fit between the high mark and the cap, as
the code's do. The invariant is

    IInv == Typed /\ Fresh(Machine, plays) /\ Behind(Machine, plays) /\ (~crossed => Single(Machine, plays, fed))

`Fresh`: a play that did not happen has left nothing in the air. `Behind` holds
whatever streams cross, and is `StreamBehindPlayer` and `ShutWindowReopens` made
inductive: the player's connection is the last one opened, and a prebuffer that is
not full has shut no window. `Single` is about one stream alone: all that was heard
is its song, and the account of its connection (`Account`) balances. This is where the
difficulty is: the units heard, the units acknowledged and the queue move in
different steps, and acknowledgements that announce an old window stay in the air. So
the account bounds every *edge*, the end of any window the server knows or may
still learn of (`Edges`): none lies further than a window beyond what came, and
once the window is shut none lies further than the queue, as it is now, leaves
below the cap. `CapIsForOutlaws` follows.
As for the server, handlers are functions, and each has lemmas; but here they are
stated with four relations between the machine before and after: `Calm` and
`Quiet` (nothing the stream would notice), `TookOne` (a unit came), `Ended`
(connections are gone and the player knows). What keeps the invariant is proved
of the relations, once; of a handler only which relation it is.

`GarenneOrgansProofs` proves eight theorems a reader should know of.
`EveryFileIsAScore` is about the parser alone: whatever bytes a file holds,
`chor_parse` makes nothing of it or a score of at most `CHOR_MAX_STEPS` + 5 steps, moves of leds and ears that exist in the order of
time, and an end that nothing follows. The parser is a recursive function of the
number of its passes, and no induction theorem can be cited for it; the proof takes
the least number of passes that would go wrong, which well-foundedness of the
naturals gives (`LeastIn`). First it does so for the function itself: whether a
recursive function has the values its definition says is a theorem too (`LoopRuns`).
What a pass keeps is `Parsing`: the moves gathered are in order, none later than the
parser's time, four beyond the cap at most.

`FilesAreBytes` and `ReadAsAsked` are about the encoder. The first: all that
`encode_cdl` writes is bytes. No delay is negative, because the moments of the sorted
frames rise (`MomentsRise`), and none is cut, because what exceeds 255 units the
encoder refuses (`DelaysFit`); the tempo, the angles in teeth and the palette fit
(`TempoIsAByte`, `AnActionIsBytes`). What may not fit is a file's size in its four
bytes, which the code casts without a look. `FilesFit`, that no text makes a file of
four gigabytes, is the hypothesis of what follows, and the run evaluates it
(`MCFilesFit`).

`ReadAsAsked`: the score `chor_parse` makes of the file of a text is what the text
asks for. Two loops meet there, and neither has an induction theorem that could be
cited, so each claim is a least counterexample's. For the encoder it says where the
bytes of each action lie and at which unit of the delays the parser will be when it
comes to them (`DanceIsLaid`): a frame's delay is counted from the rounded moment of
the last one, not from the last delay, which is why half a unit (`MomentIsClose`) is
the error of the last frame too. For the parser it says what a pass makes of one
action (`ActionPass`) and, along the file, of all of them up to the cap (`Along`,
`DancePasses`); what it gathers is already in order and its sort moves nothing.

`TypeOK` and `IdleLooksIdle` of the player rest on `EveryFileIsAScore`. The invariant
`IInv` adds to them that what is left to play is nothing or `Playable`, moves and then
their end. `PlayedAsAsked` rests on `ReadAsAsked`; its invariant is

    DanceInv == IInv /\ WholeScore

`WholeScore`: what was fired of a text and what is left to play are together the
text's score. A text that replaces another replaces both. These three are proved
for every set of texts and files, every cap of the parser and every delay of a pass.

The ear's two invariants are proved too. `OnlyJammedBreaks` is proved for every
number of holes, period of the task and delay of a pass, from `GapsInTime`: two gaps, as wide as the widest, take no
longer than `EARS_STALL_MS`. This is about the motor and not in the code; the run's
numbers satisfy it. The invariant is

    EarInv == EarTyped /\ HoleInTime /\ OnlyJammedBreaks

`HoleInTime`: for an ear that turns, what it has waited and what is left to the next
hole add up to two gaps at most, as long as no hole waits to be counted. A hole that
passed in a late pass is counted before the wait is looked at, which is why no bound
on the delay is needed.

`KnowsItsPlace` is proved for every number of holes, gap, period, delay, command and
touch, from `GapsTell`: an average is made of three gaps or more
(`EARS_CAL_MIN_GAPS`), and a narrow gap takes some four periods and a third. This too
is about the motor: the 190 ms of the run and the 200 ms of the code's tests satisfy
it (177 ms suffice), and something of the kind is needed. With seven holes 124 ms
apart, TLC finds a calibration that began half a gap before a hole and takes a narrow
gap for the wide one. The invariant is

    PlaceInv == PlaceTyped /\ Timing /\ KnowsItsPlace

`Timing` is the account of a calibration. What a pass times is not a gap: it sees a
hole up to a period late (`Lag`), so the gap it measures is off by how late this hole
was seen, and by how late the last one was. The first is the rest of a gap, half of
one at the least. `Paced` says how small these make the average, after one gap, two
and more: with three it is at least 23/32 of a gap, less what the periods and the
divisions take, and stays so with every further gap, wide or narrow (`Averaged`).
Three quarters beyond that is more than a narrow gap as a pass measures it, so what
passes for the wide gap is the wide gap, and the hole that ends it is the zero. From
there on the proof is arithmetic modulo the number of holes (`ModPlus`): the holes
the sensor counts are those the ear went by, through moves, late passes and commands.

Only model-checked: everything that needs fairness (`InFlightResolves`,
`ExchangeEnds`, `SettledIsListed`, `EveryDanceEnds`, `EveryMoveEnds`,
`EveryFormAnswered`, `ComesToRest`) is beyond this prover, as is
`ENABLED`. Every invariant that the passing runs check is the subject of a theorem.

## What is not modelled

- `http_get`, which buffers a small document and hands it over when its stream
  ends; the scheduler; the receive path; the button, the breathing leds and
  `app.mtl`, which moves leds and ears on the edges of the audio. Planned, below.
- How a choreography's text is cut into tokens; `choreo_stop`, which nothing calls.
- Whether a song ends: playback makes progress only if the codec asks, the radio
  lets one of several announcements of the window through, and the server's
  kernel probes a window that stays shut. `audio` checks what the code owes to
  that (`ShutWindowReopens`, `StreamBehindPlayer`).
- What ends a stream stopped while its window was shut: the FIN is acknowledged,
  nothing is timed in FIN_WAIT_2, and the window stays shut; only the server's
  patience ends the connection.
- The journal (a ring of the last 200 requests under one lock) and the pages drawn
  from it and from the register: nothing is decided by them.
- Byte layouts: headers, checksums, the text of pages. `link_apply_server` and
  the gratuitous ARP, which keep no state the watchdog reads.
- Configuration and identity, read once at boot; the flasher and the remote,
  sequential tools; the vendored compiler and simulator.

## Plan

In this order, each with its MC module, its run and its proofs:

1. `GarenneRx`: the duplicate filter and the ARP cache; a peer that stamps every
   datagram alike. Two stamps, two hosts, a gateway.
2. `GarenneTasks`: the list a pass walks while tasks start and kill each other.
   Three tasks. It justifies what `FairTimer` assumes.
3. The rest of the organs: the button's machine and `app.mtl`, on top of
   `GarenneAudio` and `GarenneDance`; `http_get`.
4. The flasher's upload, against the boot loader's form.

Theorems worth proving next are those of the modules above.
