# OpenVPN management codec: a verification project

TLA+ models of the Rust workspace `openvpn-mgmt-codec`, checked with TLC on small
instances and, for the core, proved with TLAPS for every value of the constants.
The models are written from the source under `src/`; paths and line numbers in
`PROJECT.json` ("map") say which code each definition stands for.

## 1. Inventory

The OpenVPN management interface is a line protocol. A client writes commands; the
server answers them one at a time, in order, and may send notifications (`>...`)
between any two lines of its answers. Nothing in an answer names its command.

    commands  -->  encoder --push kind--> expected_queue
                                               |  peek / pop
    bytes --> FrameDecoder --frames--> OvpnCodec decode --messages--> EventStream --> session / UI / CLI
               (>CLIENT: block)         (multi_line_buf)               (stash)

| component | source | state | operations |
|---|---|---|---|
| `FrameDecoder` | `openvpn-mgmt-frame/src/decoder.rs` | the `>CLIENT:` block being accumulated; banner seen | `decode`: one line in, one frame, nothing, or an error out |
| encoder primitives | `openvpn-mgmt-frame/src/encoder.rs` | none | `wire_safe`, `escape`, `quote`, `write_line`, `write_block` |
| `OvpnCodec` | `openvpn-mgmt-codec/src/codec.rs` | queue of expected response kinds; lines of the multi-line answer being collected; the frame decoder | `encode`, `decode` |
| `OvpnCommand` | `openvpn-mgmt-codec/src/command.rs` | none | `expected_response`, parsing, start-up sequences |
| notification and response parsers | `codec.rs`, `parsed_response.rs`, `status.rs`, `version_info.rs`, `timestamp.rs`, `crv1_*.rs` | none | text to typed values |
| `EventStream`, `ManagementSink` | `openvpn-mgmt-codec/src/split.rs` | stash of skipped notifications | `poll_next`, `recv_response`, `drain_notifications`, one send per command |
| `ManagementSession` | `openvpn-mgmt-codec/src/session.rs` | sink and stream | one send-and-receive method per command |
| `ConnectionActor` | `openvpn-mgmt-ui/src/actor.rs` | idle, connecting, starting up, connected; the two channels | `event_loop`, `run_connection` |
| `App` | `openvpn-mgmt-ui/src/main.rs` | connection state, session data, console history | `update`, one arm per message |
| `ThroughputHistory` | `openvpn-mgmt-ui/src/chart.rs` | last counters, window of samples | push a byte count |
| view, style, completions | `openvpn-mgmt-ui/src` | none | presentation |
| CLI | `openvpn-mgmt-cli/src/main.rs` | connected or not | one select loop |

Interactions. Encoding and decoding share one `OvpnCodec` inside a `Framed`: encode
pushes to the queue that decode pops. After `split` the two halves belong to
different tasks (or arms of a `select!`), so any interleaving of encode and decode
calls is possible. Session and UI consume the messages and decide for themselves
which of them are answers. UI and actor talk over two bounded channels.

What is hard here, and what makes each part correct:

* **FrameDecoder** – a block of notifications spans lines and can be broken by a line
  that is not UTF-8 or by the entry limit. A block is delivered whole with the last
  value of every key, or not at all; nothing is delivered that was not sent.
* **OvpnCodec** – answers are matched by counting. The k-th reply is the whole answer to
  the k-th command whatever was pipelined and interleaved; after an error the queue
  and the server come back in step; no message is put together from two answers.
* **EventStream / session** – which message is "the" answer: a banner, a password prompt
  or the answer to an abandoned call must not be taken for it; notifications skipped
  while waiting are neither lost nor reordered.
* **Actor / App** – a start-up timeout racing a late answer, a reconnect timer racing the
  user, events of an old connection arriving in a new one, two bounded channels. When
  nothing is on its way App and actor agree, and the user's last wish has been done.
* **Wire** – arguments hold spaces, quotes, line ends and END. Every command is one
  request to the server, with the arguments it was given, and what is typed, shown and
  sent is the same command.
* **Parsers and dashboard** – separators that also occur in the last field, four layouts
  of one status, answers that are told apart only by their contents. What the UI shows is
  what the daemon has said.

The full list of hazards, each at its line, is in `PROJECT.json`.

## 2. Modules

| module | what it is |
|---|---|
| `FrameDecoder` | `decoder.rs`. State `clientNotification`, `seenInfo`; `FrameOf(l)` is the frame a line gives, `FrameStep` the decoder's own state after it |
| `OvpnCodec` | `codec.rs` over `FrameDecoder`. `Encode(c)`, and `DecodeLine` with one action per arm of `decode` |
| `Pipeline` | client, codec and server with the byte stream between them; the specification, its invariants and liveness |
| `FaultyPipeline` | what holds of the pipeline whatever goes wrong: the inductive invariant `FaultInv` |
| `OrderlyPipeline` | the pipeline with a server that answers in kind: the inductive invariant `PipelineInv`, what makes a pipeline `Faultless`, the refinement mapping |
| `CommandChannel` | the abstract specification: requests answered and delivered in order |
| `PipelineClaims` | what docs, comments and tests say and the code does not do |
| `Session` | `session.rs` and `split.rs` over `Pipeline`: methods that send and then wait, the stash, dropped futures |
| `OrderlySession` | the session over the orderly pipeline: the inductive invariant `SessionInv` |
| `Connection` | `actor.rs` and the part of `main.rs` that drives it: App, actor, both channels, timers, startup sequence, one management connection after the other |
| `ConnectionSafety` | what holds of App, actor and channels at every moment: the inductive invariant `ConnectionInv` |
| `Texts` | texts as sequences of atoms, and the operations of `str` the code uses |
| `Wire` | `encode`, `wire_safe`, `escape`, `quote`, `write_block`; `from_str` with its lexer; a server that reads the bytes |
| `Console` | over `Wire`: where the UI's commands come from and what the console shows of them |
| `Notifications` | `codec.rs` from `parse_notification_from_frame` on: a payload becomes a typed value or `Simple` |
| `Responses` | `parsed_response.rs`, `version_info.rs`, `status.rs`, `crv1_*.rs`, `timestamp.rs` |
| `Dashboard` | over the parsers: a daemon that reports and answers, and what the App and `chart.rs` make of it |
| `MCPipeline`, `MCFaults`, `MCSession`, `MCConnection`, `MCWire`, `MCDashboard` | the instances for TLC |
| `FaultProofs`, `ReplyProofs` | the proofs about the pipeline |
| `SessionProofs` | the proofs about the session |
| `ConnectionProofs`, `WishProofs` | the proofs about App and actor |
| `TextProofs` | folds over texts: what is left of a text, what is written and read again, what a list keeps |
| `WireProofs` | the proofs about the bytes and the server that reads them |
| `DashboardProofs` | the proofs about log, its dates, chart and client list |

How state and actions correspond to the code. A *line* is a record: its class (the part
of its text `decode` branches on), the key if it is an ENV line, and, for the
properties only, which answer it belongs to. Its text is its *identity*, its position in
the stream. The stream keeps every line and `read` counts those decoded, so a message is
the list of identities of its lines. The codec's fields keep their names
(`expected_queue` is `expectedQueue`); `replies`, `events` and `failures` are the history
of what `decode` returned. One `Decode` step is one line through both decoders: the loops
with `continue` in `decoder.rs` and `codec.rs` only move to the next line, with no state
held in between other than the fields.

Commands are the variants of `OvpnCommand` up to the response kind: the three sets
`MultiLineCommands`, `SilentCommands`, `LineCommands` are the arms of
`expected_response`. `SendRejected` is `encode` in strict mode returning the error of
`wire_safe`, after the push. Only commands written as one line are rejected that way
before anything is written; `write_block`, which may leave part of a block in the output
buffer, is in `Wire`.

The server is external. It answers the commands in the order it receives them, as
`expected_response` and the tests in `openvpn-mgmt-codec/tests` expect, may refuse a
multi-line command with `ERROR:`, sends one-line notifications between any two lines,
sends a `>CLIENT:` block without interruption (`decoder.rs` relies on OpenVPN's
atomicity here), and closes the connection on `exit` and `quit`. `pkcs11-id-get` it answers with
`>PKCS11ID-ENTRY:` and nothing else (`message.rs:505`).

`Session` gives the client of `Pipeline` the methods of `ManagementSession` and those of
`EventStream`. `Call(c)` sends; if the method waits, `call` is the place of its command in
`sent`, and the `Receive...` actions poll the transport one line at a time, one action
for each thing `recv_response` can find: nothing yet, a notification (into the stash), a
reply, another response (banner, prompt, token entry), an error, `None`. `Cancel` drops
the future between two polls. `results` is the history of what methods returned;
`abandoned` counts the answers still owed to methods that are gone, which is what decides
whose answer comes next. `NextStashed`, `NextPolled` and `NextNone` are `poll_next`, with
the stash first. `Framed` is external: after an error of `decode` it gives one `None` and
then goes on (`errored`). The commands are those `ManagementSink` and `ManagementSession`
have methods for, each with the answer its helper waits for (`WantedTag`) and whether it
waits at all. The parsing of an answer into a typed value is in `Responses`: it neither
reads nor changes state.

`Connection`. `phase` is where the actor's task is: the idle loop, dialling, between two
startup commands, waiting for the answer to one, in the select loop, or gone. `commands`
and `events` are the two channels; `blocked` holds the event the actor is awaiting room
for, and while it does the actor takes no step. `send_actor` is `CanSend`/`SendActor` or
`OnActorGone`, whatever the reason for the failure. A handler of `App::update` is one
action, except the refresh, whose six sends may be interleaved with the actor taking them
(`refresh` counts what is left). `SendAndRecord` and `RecordParseError` are the two arms
of `SendCommand`: a line that parses is sent, recorded and waited for, and the console
history is trimmed; one that does not is recorded with its error and nothing else. Such an
entry (`parsed` is false) may still take the answer the entry before it waits for, which is
shown under the last one. The codec is the abstract `CommandChannel`: each command
owed is answered by one message, in order, at any time. `wish`, `fresh`, `session`,
`late` and `alone` are history for the properties.

`Wire`. A text is a sequence of atoms: a word is one, and so is every character that
lexer, escaping or framing tell apart. A command is variant, arguments and body. A line
is made of pieces – a literal or the Display of a value, a bare text, a quoted one – so
`Forms` is the match of `encode` as a table. The address of a kill is a piece of its own:
only its ip goes through `wire_safe`, its protocol is written as it is, and that may be any
text (`TransportProtocol::Unknown`). `Rules` is the match of `from_str`, and `Protocol` the
one conversion there that is no identity: `TCP` is read and displayed as `tcp`. `Encode` and
`EncodeRejected` append to `wire`; `ServerReads` takes a line and decides with the lexer
whether it opens, continues or closes a block. The server is external; its lexer is the
one `next_token` says it follows. `Console` adds `SendCommand` and the operations tab.

`Notifications` and `Responses` hold one operator per parser. An optional field and a
result that may fail are sequences of at most one element. `Dashboard` makes the daemon:
states, clients, counters; a report is put on paper as the daemon writes it, parsed, and
handled in one step, and `told` keeps what it meant and what the codec made of it.

## 3. Runs

| run | cfg | what it shows |
|---|---|---|
| `pipeline` | `Pipeline.cfg` | two of `pid`, `status`, `quit` in flight, answers of 0 to 2 lines some of them empty, one notification or block (2 ENV lines, 2 keys) anywhere: replies match, blocks are whole, nothing is invented, the refinement, and that every command is answered |
| `pipelineFaults` | `PipelineFaults.cfg` | lines that are not UTF-8 inside and between answers and blocks, malformed notifications, a rejected command, limits of 2 lines and 0 entries: the invariant of all of it (`FaultInv`), back in step (`BackInStep`), never mixed (`NeverMixed`) |
| `blockFaults` | `BlockFaults.cfg` | three notifications or blocks over an entry limit of 1, garbage inside and between: what is intact is delivered once, in order |
| `session` | `Session.cfg` | two methods (a history of `log`, `state` or `echo`; one that expects `SUCCESS:`; `exit`) with a dropped future, a rejected command, a server that hangs up, and two notifications, prompts or lines that are not UTF-8: the invariant, own answers, expected kinds, replies that match until the first failure, no notification lost, every method returns |
| `sessionBanner` | `SessionBanner.cfg` | violation: the banner is the answer to the first method |
| `silentVersion` | `SilentVersion.cfg` | violation: `version 3` then `status` |
| `rejectedCommand` | `RejectedCommand.cfg` | violation: a rejected command then `status` |
| `connection` | `Connection.cfg` | three presses (Connect, Disconnect, Reconnect, VerbReset, Refresh) and a command line that parses or does not, or two of each, a fault and a prompt or odd line in any order, channels of 2, a history of one, a startup of three commands: the invariant, App and actor agree, connections do not overlap, wishes are done, nothing waits for ever |
| `channelFull` | `ChannelFull.cfg` | violation: a Connect and at most six presses of Refresh during a startup fill the channel of 32 and the App gives up a living actor |
| `wire` | `Wire.cfg` | every command with texts that hold a space, quote, backslash, line feed, END or nothing, protocols known, unknown and in upper case, 13 bodies, typed lines and the operations tab, both modes, a second command behind each |
| `rawProtocol` | `RawProtocol.cfg` | violation: a kill by address whose unknown protocol holds a line end is two requests |
| `dashboard` | `Dashboard.cfg` | three reports or answers in two sessions, three states, two clients, counters that stand, grow and start again, every notification with awkward and malformed payloads, windows of 2 and 1 |

Properties.

* `RepliesMatch` – the k-th reply has the form of the server's answer to the k-th
  command and all of its lines, in order, and no others.
* `MatchUntilFailure` – the same as long as `decode` has returned no error and no command
  was rejected, with lines that are not UTF-8 and limits that may be met.
* `ImplementsChannel` – `RepliesMatch` as a refinement of `CommandChannel`: the n-th delivery
  happens after the n-th answer is complete and delivers it.
* `BackInStep` – when nothing is outstanding the queue is empty and no line is held,
  also after errors (rejected commands apart, which is finding `rejectedCommand`).
* `NeverMixed` – no message mixes lines of two answers, even after an error in the
  middle of an answer.
* `EventsComplete`, `NothingInvented`, `BlocksWhole` – notifications come through once,
  in order, at once and whole, and none is made up. The second fails when a block is
  broken (section 6), the first still holds then.
* `FaultInv`, `SessionInv`, `ConnectionInv`, `WireInv`, `DashboardInv` – the inductive
  invariants of section 4. Each is checked where the most can go wrong, and contains the type invariant of its module.
* `EveryCommandAnswered` – liveness, below.
* `OwnAnswer` – a method returns the answer to its own command; if n earlier methods were
  given up before their answers came (dropped, failed, or ended by a prompt), that of the
  command n places before, never any other. Stated for sessions without decode errors and
  rejections (`clean`); those are findings of the pipeline.
* `KindMatches` – a method that follows none given up gets a reply of the kind it waits
  for, or an error. `NoSurprise` says it of everything that is no notification, which the
  banner refutes.
* `NothingLost` – the notifications handed out and those in the stash are together
  exactly the ones decoded, once each and in wire order, through replies, errors, dropped
  futures, `drain_notifications` and `next` in any order. No exception for faults.
* `CallReturns` – liveness: a method that waits returns (with an answer, an error or
  `ConnectionClosed`) or is dropped, faults included.
* `AppAgrees`, `LastWish` – when no command, event or timer is on its way, the state
  shown is the actor's and the user's last press has been done. Presses that overlap an
  attempt still under way are exempt from the second: the reconnect timer and the press
  race there, and the code lets either win.
* `OneAtATime`, `FreshSession`, `OwnResponse` – the events tell of whole connections, one
  after the other; a session begun with Connect shows nothing of an older one; a response
  shown under a command sent alone is that command's.
* `StartupInOrder` – no startup command before the answer to the last, until a wait has
  gone on without its answer (`late`), after which late answers do end the wrong waits.
* `ConnectingEnds`, `DisconnectTaken` – liveness: the App does not stay in Connecting and
  a Disconnect does not wait for ever. `GivenUpWhenExited` is refuted by `channelFull`.
* `OneRequestEach` – the server reads one request per command and none made of two
  (`RequestPerCommand`); `ArgumentsWhole` – with the arguments that were given. Both are
  about what is `Intact`, and `Intact` names the three ways out of it that `encode` has: a
  block rejected in the middle in strict mode, a line sent as it was typed that opens a
  block, and a protocol with a line end. `rawProtocol` refutes `RequestPerCommand` without
  it; section 6 has the line that opens a block.
* `ParsedBack`, `OnlyTyped`, `LabelsTell` – a line sent and typed again is the same line,
  the server reads no word the user has not typed, and what the console shows is what was
  sent. All three but for the case of a kill's protocol (`Reread`), which `from_str` lowers.
  A bare argument that is no word is exempt (`Lexable`): `kill`, `needok` and others write
  names without quotes. So are the toggles, whose label has no mode, and a denial whose
  reason is no word, shown without quotes.
* `Understood` – a notification means to the codec what the daemon meant, malformed ones
  are kept whole. `FormatsAgree` – the four status layouts and the two of states tell the
  same. `ChallengeAnswered` – a challenge's state comes back as issued. `DatesRight` – an
  entry of the log has the date of its timestamp.
* `StateShown`, `AnswersShown`, `ClientsShown`, `WindowIsTail`, `LogIsTail` – what is
  shown is what the daemon has said last, in this session. Two exemptions name where
  answers are told apart by contents and cannot be: a client whose name begins with
  "help", and a state the codec does not know. Log and chart are compared with what the
  codec has heard, which `Understood` says is what was meant.

Bounds. Two commands are the least number for which matching can go wrong; every
position of a notification relative to both answers is reached. `MaxBody` 2 gives an
empty answer, an answer of one line and one where a line follows a held line; in
`pipelineFaults` `MaxBody` 3 goes over the limit of 2 lines, `MaxEnvEntries` 0 or 1 is
met by the first or second entry. Three events in `blockFaults` allow a broken block, an
intact one after it, and a line of garbage anywhere else. In `session` two methods, one
dropped future and two things that are no reply are enough for a stale answer to be met
by a later method, for a stashed notification to be overtaken by one on the wire, and for
an error in the middle of an answer. In `connection` three presses give Connect,
Disconnect or Reconnect, and one that overlaps; channels of 2 are filled by a refresh of
two commands and by the answers of a startup, so both sides block or fail; a startup of
three commands has one whose late answer meets another's wait. Presses and lines together
are at most four (`MaxInputs`). Two lines are one more than the history of one, so a command
is trimmed away while its answer is on its way, and a line that does not parse exceeds the
limit. In `wire` two commands
show what the first leaves open; each text meets each place. In `dashboard` three
reports give two differences for a window of 1, two log entries and one pushed out, an
announcement, a new session and a second one; notices are checked in every state but
reported only last, by an idle daemon, which nothing they do depends on. The dates are
those around leap days and the turn of the century.

Deadlock is not checked: a client with nothing to send and a server with nothing to say
may both stop.

Fairness. `WF(Decode)`: the reader of the `Framed` polls until no complete line is left
in the buffer (`SplitStream` and the session, UI and CLI loops do). `WF(Answer)` and
`WF(CloseBlock)`: the server goes on with an answer or a block that it has begun; the
code cannot do without it and has no timer of its own below the UI. Nothing is assumed
of the client's sends or of notifications. In `session`, `WF(Receive)`: the future of a
method is polled by the executor until it is ready (until it is dropped, which may happen
at any time and need not), and the same two of the server.

## 4. Proofs

Every theorem is about the specification with its constants arbitrary: any commands,
answers, limits, channel capacities, history lengths and bounds. The assumptions on the
constants are `FrameAssumption`, `CodecAssumption`, `PipelineAssumption`,
`SessionAssumption`, `ConnectionAssumption`, `WireAssumption`, `ConsoleAssumption` and
`DashboardAssumption`, which only give types, which commands there are and which kinds of
messages are answers, and those named below. A theorem with a hypothesis names it.

### The pipeline, whatever goes wrong

Module `FaultProofs`. Lines that are not UTF-8, malformed
notifications, both limits, rejected commands, answers without a last line and a server
that closes are all allowed.

| theorem | hypothesis | says |
|---|---|---|
| `TypeCorrect` | | types of all variables |
| `FaultInvariant` | | `FaultInv` |
| `NoEventLost` | | `EventsComplete` |
| `AnswersNeverMixed` | | `NeverMixed` |
| `NoEventInvented` | `CleanBlocks`: no garbled line in place of a notification | `NothingInvented` |
| `BlocksAreWhole` | `RoomyBlocks`: and the entry limit is never met | `BlocksWhole` |
| `StepRegained` | `AllAnswered`: no `version` below 4, no `pkcs11-id-get` | `BackInStep` |

The hypotheses cannot be dropped: section 6 and the runs `silentVersion` and
`rejectedCommand` show what happens without them. The conclusions do not speak of the
decoder's state in the middle of a block or an answer, so `FaultInv` has one part for each:

* `BlockInv` – blocks in the stream are framed by header and END (`BlocksFramed`), and the
  block the decoder accumulates is the one it is in, or a header before it that a garbled
  line has broken off (`OpenBlockKnown`). From this, an intact block is never merged into
  another and each event delivered begins later than the one before.
* `WholeInv` – if no line of a block is garbled, the open block of the decoder is exactly
  that of the server, and its entries are those of the lines so far.
* `MixInv` – an END lies between the lines of any two answers (`BodiesApart`), and the
  lines held back have come since the last END (`HeldSinceEnd`). An error clears or keeps
  them, but never moves them over an END.
* `CountInv` – the queue is always that of the *last* commands sent, and of none whose
  answer has been decoded (`QueueOfLast`). Errors and odd lines take kinds from its front;
  that it is a suffix is all that survives, and is enough for `BackInStep`.

### The pipeline until something goes wrong

Module `ReplyProofs`, under `OrderlyAssumption`: every command is
answered, in kind, and no notification is malformed. Garbled lines, limits and rejections
are still there; the claim is about the time before the first of them counts.

* `PipelineInvariant`, `RepliesInOrder` (`MatchUntilFailure`), and under `Faultless`
  `RepliesAlwaysMatch` (`RepliesMatch`). That the next reply will match needs to know what
  the queue holds and what lines are held. `PipelineInv` adds
  - of the server: every line fits its command (`LinesFit`), answers come in order and
    end with their terminal line (`ServerProgress`, `LinesOrdered`), none is skipped and
    no line of one is (`LinesDense`, `ServedDense`);
  - of the client: the queue is exactly the kinds of the commands without a reply
    (`QueueAligned`), lines decoded belong to replies given or are held (`LinesBehind`),
    lines to come belong to replies to come (`LinesAhead`), held lines are the first ones
    of the current answer (`BufCurrent`).

  A server step only appends a line, so every fact about the earlier stream is carried
  over and the new line is checked against `ServerInv`. A client step decodes one line:
  `CurrentLine` shows that a line of an answer always belongs to the first command without
  a reply, `HeldComplete` that at END the held lines are all of the answer.
* `PipelineImplementsChannel` (under `Faultless`) – the refinement: `Send` is `Ask`, the
  last line of an answer (or the silence of `quit`) is `Answer`, the decoding of the
  terminal line is `Deliver`, everything else stutters.

### The session

Module `SessionProofs`, under `OrderlyAssumption` and `EntryAssumption` (no
`>PKCS11ID-ENTRY:` unasked).

* `SessionTypeCorrect`, `NoNotificationLost` (`NothingLost`) – through answers, errors,
  dropped futures and a server that goes away.
* `SessionInvariant`, `OwnAnswerReturned`, `KindsMatch` – `AnswersCounted` is the argument:
  until something fails, the replies so far and the answers owed to methods that were given
  up are together all commands but the one waited for. So the next reply is the answer to
  the command as many places back as methods were given up, and `PipelineInv` says which
  kind it has.
* `SessionAddsNoFault` – every step of the session is one of the pipeline, or leaves its
  variables alone, or is the server going away, which keeps `FaultInv` too.

### App and actor

Modules `ConnectionProofs` (which ends with the agreement of App and actor) and
`WishProofs`, from `ConnectionAssumption` alone. `ConnectionInvariant` is the conjunction `ConnectionInv`; its
parts are proved one after the other, each using those before it.

| theorem | property | part of `ConnectionInv` it rests on |
|---|---|---|
| `ConnectionsOneAtATime`, `StartupAnsweredInOrder` | `OneAtATime`, `StartupInOrder` | `OrderInv` |
| `ConnectionTypeCorrect` | `TypeOK` | `OrderInv` |
| `AppAlwaysAgrees` | `AppAgrees` | `AgreeInv` |
| `LastWishDone` | `LastWish` | `HeardInv`, `WishInv` |
| `SessionIsFresh` | `FreshSession` | `HeardInv`, `FreshInv` |
| `OwnResponseShown` | `OwnResponse` | `ResponseInv` |

`ConnectionTypeCorrect` bounds the console history as far as the code does: no entry of a
command that was sent is past the limit. Entries of lines that do not parse may be.

* `OrderInv` – each event on its way is of a connection that was dialled, the last of them
  of the current one while it lasts (`EventsTold`), and what may be owed in each phase
  (`StartupOwed`). An event is appended at the end of what is on its way whether it finds
  room or waits for it (`EmitAppends`), so one lemma serves all steps that emit.
* The *moves*. Everything after `OrderInv` asks of a step of the actor or its transport
  only what it does to the two channels, the phase and what is owed. `ActorMoves` and
  `TransportMoves` show that each of their sixteen actions is one of nine moves
  (`StaysMove`, `DialMove`, `MessageMove`, `EndMove` and so on); the invariants are then
  proved of the moves.
* `AgreeInv` – `AppAgrees` speaks only of rest. What holds on the way there is `NewsComes`:
  if no event on its way tells of a change, a wrong state on the screen has a command or a
  timer that will correct it.
* `HeardInv` – after a Disconnected, every message on its way is announced by a Connected;
  so it is while the App is disconnected. It follows that a Connect pressed when no
  connection is to come finds the actor idle (`SettledIdle`).
* `WishInv` – how the last press will be done: off, by a Disconnect on its way; on, by a
  timer, by a Connect behind which only queries follow, or by the connection there is. The
  critical point is that the connection there is *ends before* the Connect is taken
  (`EndsBefore`): the select loop would end the connection and lose the Connect.
* `FreshInv` – until the App has heard of the connection it asked for, only ends of earlier
  ones are before the Connected and nothing is shown; then all that comes is of it.
* `ResponseInv` – the answer awaited under a command sent alone is the first reply on its
  way, or the first owed, or its command is on its way behind Disconnects only, or was lost
  with the actor.

### The wire

Modules `TextProofs` and `WireProofs`, for every text, body, protocol, typed line and field,
without a hypothesis. What the theorems say is said of what is `Intact`: section 3, the
finding `rawProtocol` and section 6 show that it cannot be said of more.

| theorem | property | says |
|---|---|---|
| `WireInvariant` | `WireInv` | the bytes are those of the commands, and the server is where they say |
| `RequestsAreCommands` | `OneRequestEach` | one request per command, none of the bytes of two |
| `ArgumentsAreRead` | `ArgumentsWhole` | the arguments are read as they were given |

`WireInv` has three parts, about the time while all is intact: the
bytes on the wire are what `encode` wrote of the commands, each from its place on
(`WireOfCommands`); the requests so far are those of the first commands
(`RequestsOfCommands`); and the server stands at the beginning of a command, or behind the
header and some lines of the body of one (`Reading`). A step of `encode` appends bytes and
moves nothing. A step of the server takes the bytes up to the next line end, and that these
are one line of the command it is in is what the lemmas about texts say:

* nothing `encode` puts in a line ends it, because `wire_safe` has been over every text but
  the protocol of a kill, which is what `Splits` is about, and the rest are words and
  numbers; and no line of a body is END after `write_block`
  has put its space before it;
* the lexer undoes `quote`: from an opening quote it gives back what `escape` was given,
  atom by atom, and it takes a word for itself up to the space after it.

Lexer, `escape` and `wire_safe` are folds, and what a fold gives for every text needs an
induction over the text. The library's induction theorems cannot be instantiated here;
instead a fold is the last value of a *run* (`RunExists`, `ValueFacts`), and an induction
is the least counterexample in a set of numbers (`UpTo`) or prefixes (`ByAppend`).

### Log, chart and client list

Module `DashboardProofs`, from `DashboardAssumption` and, for the dates,
`TimesAssumption`, that the daemon's timestamps are numbers: windows of any size, any
states, clients, growth and texts. What a text is read as does not matter, so no parser is
expanded; the claims are about what the codec has heard.

* `LogIsWindow` (`LogIsTail`) – `LogInv` adds that the chosen index stays inside the log.
  When a full log moves on, its first entry is no longer in it, so the claim about the
  choice ends exactly there (`LogOfReport`).
* `ChartIsWindow` (`WindowIsTail`) – `ChartInv` adds what `ThroughputHistory` remembers
  between two counts: nothing until the first of the session, and then the values of the
  last (`LastCount`). A new count is next to that one and to no other, so the windows of
  samples and of pairs of counts move together (`ChartOfCount`).
* `ClientsAreShown` – `ClientsShown` wherever `Understood` holds, that is, as long as the
  parsers read the reports as they were meant, which the run checks. `ListInv` says of
  what was *heard* where each entry of the list was announced (`ListFollows`), and that a
  client whose announcement still counts is in it. A report leaves both alone, appends an
  entry, or takes those of one client away; for the last, `WithoutKeeps` says of the fold
  that removes them what stays and in which order.
* `DaysAreDates` – `days_to_ymd` is right for every day since 1970, not only those of the
  run: the month is one, the day is in it (`LengthOf`), and the days of the years, leap
  years counted, and months before the date are the timestamp's day (`IsDay`). A day is an
  era, a century, four years, a year and a day of a year that begins with March (`DayAt`),
  of which the last century, four years and day may be longer; that this is what the
  algorithm's quotients give is `YearOfEra`, and its month `MonthOfYear`. That the
  calendar counts the same days is `LeapsCounted` and `MonthsBefore`, by induction over
  years and months, and `DayIsDay`.
* `DatesAreRight` (`DatesRight`) – in every log entry, wherever `Understood` holds.
  `DateInv` says that an entry has the date made of its report, however far the log has
  moved on.
* `DashboardInvariant` (`DashboardInv`) – all of it with the types.

`StepKinds` reduces the daemon's and the user's actions to the four that matter: a report,
an answer, a choice, a new session.

### Only model-checked

* Liveness (`EveryCommandAnswered`, `CallReturns`, `ConnectingEnds`, `DisconnectTaken`):
  outside the prover's reach.
* `ParsedBack`, `OnlyTyped` and `LabelsTell`: they go through `from_str`, which compares
  with some eighty literals, and no prover here knows that a literal is a string.
* `Understood`, `StateShown`, `AnswersShown`, `FormatsAgree` and `ChallengeAnswered`: they
  say what the parsers make of particular texts, which TLC computes.

## 5. Not modelled

* Bytes below a line: `Framed` reads, `\r`, the password prompt without a newline, which
  is recognised or not according to how reads split the bytes (`decoder.rs:115`).
* `frame_decoder_accumulating`, which only selects a log warning in `encode`, and the
  builder methods of `OvpnCodec`, whose limits are constants here.
* `connection_sequence` of the library (`command.rs:1083`), a builder the UI does not use.
* In the UI: tabs, forms, themes, key bindings, clipboard, the drawing of the chart,
  command completion.
* The CLI: one select loop over terminal input and the framed stream. Its use of the codec
  is what `Pipeline` models, its parsing of lines is `from_str` in `Wire`; the rest prints.
* Which error a parser returns, and texts below a word: atoms stand for names, and a name
  holds no comma in a status of format 1 or 2.

## 6. Where code and documentation part

The findings have a run each. Others met while modelling:

* An ENV entry over the limit: `codec.rs:489-491` says that the frame decoder has reset
  itself on an error, but `decoder.rs:166` returns with the block still open; the
  remaining entries go on into it and its END delivers it truncated.
* A line that is not UTF-8 inside a `>CLIENT:` block drops the block (`decoder.rs:134`);
  the next ENV line opens one under the event name ENV (`decoder.rs:235`), against
  `tests/decoder_recovery.rs:3-5`.
* `pkcs11_id_get` (`session.rs:401`) waits for `SUCCESS:`; its answer is decoded to
  `Pkcs11IdEntry`, so the method always returns `UnexpectedResponse`.
* `from_str` says that "commands that cannot be represented as a single line (multi-line
  bodies like `rsa-sig`, `client-auth` config lines, `certificate` PEM) are parsed with
  comma-separated lines in the argument position" (`command.rs:560-562`). Only
  `client-auth` is: `certificate a,b` falls through to `Raw` and is sent as one line
  (`command.rs:1057`), which opens a block at the server that nothing closes.
* Raw mode: "any non-empty input is accepted (sent as `Raw`)" (`main.rs:137`,
  `message.rs:224-225`); empty input is accepted too, and a line `from_str` knows is sent
  parsed.
* `SelectionUp` says newest-first, "up" = older = higher index (`main.rs:530`); the newest
  entry has the highest index.
* `detect_separator` says it checks the first line; it checks every line
  (`status.rs:207-224`).
* The console line of a toggle lacks its mode, that of `client-deny` its quotes. The kill
  button sends what is in its field as a common name (`kill TCP:a:7`); its console line
  typed again is a kill by address, sent as `kill tcp:a:7`.
* `MAX_COMMAND_HISTORY` (`main.rs:45`) is no bound of the console history: a line that does
  not parse is pushed without the trim (`main.rs:466-472`), so a run of such lines goes over
  it until a line that parses is entered.
* A line that does not parse, entered while an answer is awaited, gets that answer:
  `awaiting_command_response` stays set and the last entry takes it (`main.rs:466-472`).

## 7. What could follow

1. `FrameReader`: bytes, read boundaries and the unterminated prompt.
2. `connection_sequence` and the CLI loop.
