# voicsh: a TLA+ model of the dictation pipeline, its daemon and what surrounds them

voicsh records speech, cuts it into chunks, transcribes them and types the
text into the focused window.  This directory holds TLA+ modules for the parts
of it that run concurrently, fail half-way or keep state over time, the TLC
runs that check them, and machine-checked proofs that most of the checked
invariants hold for every value of the constants.

## The system

| part | source | state | operations | modelled in |
|---|---|---|---|---|
| pipeline threads | `pipeline/orchestrator.rs`, `pipeline/station.rs` | `running`, five or six threads, bounded channels, the drain thread, `result_rx` | start, `stop()`, the loop of a station, the audio poll | `Pipeline`, `TextStream` |
| microphone | `audio/capture.rs`, `pipeline/vad_station.rs` | the stream, its callback count, the buffer; level history, threshold, silence counter | start with a probe, replace the stream, read, stop; adapt, warn | `Microphone` |
| detector and chunker | `audio/vad.rs`, `pipeline/vad_station.rs`, `pipeline/adaptive_chunker.rs`, `pipeline/chunker_station.rs` | detector state, silence and speech start, ring buffer, growing chunk | a frame, flush | `Segmentation` |
| text stations | `pipeline/transcriber_station.rs`, `correction/*`, `pipeline/post_processor.rs`, `pipeline/sink.rs` | the shared allow-list, `caps_active` | filter, correct, obey a voice command, write | `TextPath`, `Correction` |
| recognisers | `stt/*` | loaded models | transcribe, choose among several answers | `Correction`; whisper itself is a parameter |
| injection | `inject/injector.rs`, `inject/portal.rs`, `pipeline/sink.rs` | clipboard, portal session, broken flag, keys held, restore token | copy and paste, type, press a shortcut, reconnect | `Injection` |
| focused window | `inject/focused_window.rs` | a flag for each backend, the login's bus address | detect, reset | `FocusedWindow` |
| daemon | `daemon/mod.rs`, `daemon/handler.rs` | pipeline mutex, config, transcriber, allow-list | load, start, stop, cancel, toggle, status, set_language, set_model, set_correction, a signal | `Daemon` |
| IPC server | `ipc/server.rs`, `ipc/client.rs` | permits, one task per connection, broadcast receivers | accept, refuse, answer, follow | `Daemon`, `Extension` |
| panel indicator | `gnome/voicsh@voic.sh/extension.js` | connection, stream, timer, what it shows | enable, disable, connect, read a line, reconnect, a command | `Extension` |
| config file, commands | `config.rs`, `main.rs`, `cli.rs`, `app.rs` | the file, what a process read of it | set, use, record, daemon | `Setup` |
| model store | `models/*` | files in the cache | look up, resolve, download | `Catalog`, `Setup` |
| auto-tuning | `init.rs`, `inject/environment.rs` | probe result, candidates, the two saves | init, auto-tune | `Catalog`, `Setup` |
| output, latency report, diagnostics, benchmark, installers, build script | | | | not modelled |

How they interact.  A command opens a connection to the daemon, whose task
takes the pipeline mutex and starts or stops a pipeline.  A pipeline is a row
of threads joined by bounded crossbeam channels: audio -> VAD -> chunker ->
transcriber -> (correction) -> (post-processor) -> sink -> drain.  The audio
thread uses `try_send` and drops frames when the VAD is behind; every other
thread blocks.  Nothing but `running` and the closing of channels tells a
thread to end.  The daemon's settings reach a running pipeline through a
shared `RwLock` (the allow-list) and a new one through the config and the
loaded transcriber.  Pipeline threads send events over a crossbeam channel to
a bridge thread, which broadcasts them to the follow clients; the panel
indicator is one.  The sink asks for the focused window, which decides the
paste key, and sends keys through the portal session that all recordings of a
daemon share, or through programs.  The commands that prepare all this are
processes of their own and meet only in the config file and the directory of
models.

What is hard here: the end of a pipeline (stop, end of file, dead microphone,
panic, failed start) with every channel full; the drain thread, which reacts
to `running` before the stations have drained; two tasks in the handlers at
the same time; a follower's snapshot against its subscription; callbacks of
the indicator that outlive `disable()`; the clock that the chunker reads when
it gets to a frame; state that lives between texts; a portal call that fails
in the middle of a text or of a key sequence; flags and addresses that outlive
the login they were found in; files that processes read, change and write
without a lock, and downloads that end early.  `PROJECT.json` lists each of
these hazards at its line.

What makes each part correct:

- pipeline: texts in spoken order, no audio twice, none lost while nobody
  stops it, a result that later text does not contradict, an end for whoever
  waits.
- microphone: samples once and in order, also across a replaced stream; a
  threshold that tells speech from noise; where levels are shown, one warning
  for each silence.
- segmentation: no speech lost or repeated, the silence before a word kept,
  cuts in pauses, no chunk held back.
- text: each transcription ends in one place for a reason of its own, capitals
  where they were ordered, a change of a text always visible as such.
- injection: what the sink reports was typed whole and in order, with the keys
  of its own shortcut and no others, with the paste key of the window, from a
  clipboard that still holds it; a new login is survived.
- daemon: one microphone, no forgotten pipeline, settings that agree, an
  answer for every command.
- indicator: one chain of callbacks, the truth when it is caught up and nothing
  it was told came in the wrong order or was lost, and it comes back.
- setup: settings survive other commands, model files are whole or known
  spoilt, the tuned model fits the machine and is the best that is fast.

## Modules

- `TextStream`: what a pipeline promises to those who only see speech go in and
  text come out: sets of frames are written in spoken order, never twice, never
  before they were heard, and nothing after the end.
- `Pipeline`: the threads.  `Stations` is the number of threads behind the
  audio thread; a message is the set of frames it was made from.  A station is
  the loop of `run_station`: `Recv`, then `Forward` / `Drop` / `Feed` /
  `SinkWrite` for what `process()` may return, then `Send` (which waits for
  room) or `SendFail` (receiver gone), `Disconnected`, `Flush` and `End` for
  `shutdown()`, `Crash` for a panic.  Channel ends are derived from the threads
  that hold them (`Connected`, `ReceiverAlive`), among them the clones of
  `chunk_tx` in the VAD's gauge and in the chunker.  `Audio...` is the polling
  thread, `Drain...` the drain thread, `Stop` .. `Detach` are the steps of
  `PipelineHandle::stop()`.
- `Microphone`: `Start`, `Alive`, `Doubt`, `Replace` are the steps of `start()`
  with its wait for a callback; `Callback` is the sound system's thread, `Frame`
  the poll that empties the buffer and, with it, the work of the VAD station on
  one frame: `Adjusted` threshold, and `CheckNoAudio` under `show_levels` (the
  verbosity; both values are tried).  Levels are a scale of a few steps.
- `Segmentation`: the microphone gives one frame per unit of time, so
  `Len(heard)` is the clock.  `Detect` is `VadStation::process`, `Feed` is
  `ChunkerStation::process` with `AdaptiveChunker::feed`; they read the clock
  when they take a frame, and may be up to `Slack` frames late.
- `Correction`: pure operators: the choice among several recognisers' answers
  (`Best`), the correction station a recording can start with (`Stations`: any
  build, any of the files missing), the dispatch by language (`Engine`), the
  conditions and the outcome of a correction (`Corrections`).
- `TextPath`: `Transcribe`, `Correct`, `Command`, `Write` / `WriteFails` are the
  `process()` of the four stations, `SetLanguage` the write of the live
  allow-list.  Words, commands and what a corrector may make of a word are
  parameters.
- `FocusedWindow`: `Probe`, `Skip`, `Answered`, `Refused`, `Glitch`, `Nameless`,
  `GiveUp` go through the five backends of a detection, one subprocess a step;
  the user changes the focus, or logs out and in again while the process keeps
  the old bus address.
- `Injection` (extends `FocusedWindow`): a sink takes a transcription (`Take`),
  detects, and delivers its events: `Copy`, then the tries of `Tries` in order.
  `Stroke` sends one key event through a portal session, `CallFails` fails one
  in the middle; `Refresh`, `Connect`, `Grant`, `Deny`, `Breaks` are the one
  reconnect.  `slipped`, `brokenBy` and the records of `job` are history.
- `Daemon`: one action per stretch of a handler between two awaits.  The tokio
  mutex is the queue `line`; a config lock is one step.  The process loads,
  serves, is signalled, exits and may be started again.  `transcriber` is what
  `create_transcriber` made of a configured name: its models, resolved by
  `ResolveForLanguage` of `Catalog` for the language of that moment (one, or two
  with fan-out), while config and status keep the name as it was given.  `raced`
  is history: the settings whose last changes overlapped.
- `Extension`: `Accept` .. `Leave` are the server's task for a follow client,
  with its broadcast receiver (`unread`, of `Capacity` events, the rest counted
  as lag) and the lines under way (`wire`); `Opened`, `NotOpened`, `ReadLine`,
  `Eof`, `ReadFails`, `Reconnect` are the callbacks and the timer of the
  indicator, `Ask` .. `CommandFails` a command; `Crash` / `Restart` the daemon,
  `Disable` / `Enable` the screen lock.  The daemon is what can be told about
  it: `Change` is `update_config`, which gives the config lock back, and `Tell`
  the event that its caller emits afterwards; any number of commands may be
  between the two (`untold` counts them for each value), so events may come in
  another order than the changes.  `Chat` stands for the events that set nothing
  the indicator keeps, which take room in a receiver all the same.
- `Catalog`: pure operators: the catalog with its aliases and variants, which
  model a language needs, the arithmetic of auto-tuning (`Candidates`, `Fits`,
  `Ranked`, `Viable`), the recommended backend.
- `Setup` (extends `Catalog`): a process is a command; loading the config,
  truncating the file and writing it are steps of their own, a download writes
  block by block under the final name, `Kill` ends a process anywhere.
  `settled`, `overlap`, `spoilt` and `tuned` are history.
- `MC...`: instances for TLC.
- `...Proofs`: theorems about the module of that name, see below.

Definitions named `Wrong...` beside a definition are slips that a programmer
could make there; they show that a property can fail, and nothing uses them.

## Runs

| run | bounds | properties | question |
|---|---|---|---|
| `pipeline_safety` | five stations, channels of one message, four frames, panics of three stations, a stop at any moment | `TypeOK`, `InOrder`, `NoLossWhileRunning`, `TruncationOnly`, `ResultIsFinal`, `Delivers` | order, loss, finality of the result; `Pipeline` implements `TextStream` |
| `pipeline_live` | a file of three frames, a gauge, a station that may panic | `FileDrained`, `StopReturns`, `SourceEndDrains` | `stop()` returns, the end of the audio ends the stations, a file that ends by itself loses nothing but what the full channel of the VAD cost it |
| `microphone` | eight sounds of three loudnesses, a window of five levels, bursts of two | `TypeOK`, `SamplesOnce`, `Adapts`, `WarnsOnce` | what reaches the detector, how it judges it, and when it warns |
| `segmentation` | ten frames, stations up to one frame late | `TypeOK`, `SpeechKept`, `CutInPause`, `NotHeldBack` | what is cut where |
| `text_path` | three chunks of 15 kinds, one or two models, every corrector, three allow-lists | `TypeOK`, `Accounted`, `CapsScope`, `Provenance` | fate, capitals, provenance |
| `injection` | two sinks, three windows, six set-ups, three upsets | `TypeOK`, `TypedInOrder`, `CleanKeys`, `PasteFits`, `PasteIsOurs`, `SurvivesRelogin` | what is typed where, with which keys held |
| `daemon_commands` | three connections, two models, two languages, fan-out | `TypeOK`, `OneMicrophone`, `SettingsAgree`, `CommandsAnswered` | mutual exclusion, settings, answers |
| `extension` | two connections, a receiver of one event, two lines under way, two changes or other events, one fault | `TypeOK`, `OneChain`, `IndicatorRight`, `Reconnects` | does the indicator follow, once, and the truth |
| `setup` | two commands of thirteen, seven models of two blocks, four beginnings, one fault | `TypeOK`, `SettingsKept`, `FilesWhole`, `TunedWell` | what overlapping commands leave behind |
| `stop_loss` | | `GracefulStop` is violated | |
| `text_commands` | | `CommandsTakeEffect` is violated | |
| `prompt_leak` | | `PassedUnchanged` is violated | |

The last three refute a comment or a page of the documentation; `PROJECT.json`
quotes each under "findings":

- `stop_loss`: `stop()` promises five seconds for what is in flight, but the
  drain thread ends with `running`; then the sink's send fails, it leaves its
  loop, and so do the stations before it.
- `text_commands`: "new line", "tab" and all key commands are filtered out as
  empty texts.
- `prompt_leak`: a corrector with nobody to ask returns what it was given, which
  is not the text but the prompt with the probabilities.

Six properties name an exception, because the code promises no more.
`FileDrained` excepts the frames that `try_send` dropped (`overrun`), which are
kept apart from those a station discards, and says that the beginning of a file
is never among them.  `SettingsAgree` excepts a setting whose last changes
overlapped (config and allow-list, or transcriber and config, are two locks).
`IndicatorRight` excepts a setting whose overlapping changes were told in the
other order (`Settled`), until the next change, and what a follower lost when it
lagged, unless the newest event told it again (`Heard`).  `SettingsKept` excepts
two saves at one instant and a kill in the middle of one.  `FilesWhole` excepts
files whose download was cut off or met another of the same file.  `CleanKeys`
excepts a call that failed inside a sequence and two sinks at once.  The
exceptions are history variables, set in the step that causes them, so the
properties still say what happens in every other behaviour, and that these
are the only causes.

Why the bounds are enough.  Channels of one message are full as soon as the
next thread waits, so every pair of neighbours blocks in every combination; a
greater capacity only delays that.  The chunker needs two frames for a chunk
and one more behind it; three or four frames give two texts under way and one
in the making.  In `Segmentation` the durations are scaled to a maximum of six
frames, so ten frames hold a full chunk with its onset and the start of the
next; the order of the constants is that of the code (the post-speech silence
exceeds the smallest gap of the table).  In `Microphone` eight sounds fill the
window of five and push three levels out of it, and the patience of two fits
into it twice.  In `TextPath` three texts are needed for a word between two
caps commands.  In `Injection` two sinks are what `stop()` can leave at a time
(the next recording's and the one it gave up on); three upsets allow a new
login, a failing call and a second failure in the reconnect.  In `Daemon` three
connections are needed for a toggle between another's start and a stop; two of
them change the language, one the model and the correction, so each pair of
commands that share a lock meets.  Its two models are one with a multilingual
variant and that variant, and with fan-out each of them loads two recognisers,
so the loaded models differ from the configured name.  In `Extension` two connections are the one
that is being closed and the next; a receiver of one event overruns while a
snapshot is taken, and two changes are what may be told in the wrong order.  The
setting starts with one of its two values: they may be renamed in any behaviour.
In `Setup` two commands are what a race on a file needs, and
two blocks make a file that is begun, half written and whole; one of its
machines has too little memory and one too little disk for a model that would
otherwise be chosen.

`CHECK_DEADLOCK FALSE` stands where the system stops by itself: a pipeline
whose threads have ended, a recording that was flushed, commands that have run.

## Fairness

`Pipeline` assumes weak fairness of each thread's steps: operating-system
threads run, `process()` returns, and a blocked send or receive wakes up when it
can proceed.  The audio source is not assumed to deliver anything, no panic is
assumed to happen or not, and nobody is assumed to call `stop()` except where a
property says so.  `stop()` itself is a thread with timeouts, so it is fair
too.  `Daemon` assumes weak fairness of each task that is past its first step:
tokio polls what is ready, its mutex is served first come first served, and
downloads, model loading and `handle.stop()` return (the last is
`StopReturns` of `Pipeline`).  Connections need not arrive, and no signal need
come.  `Extension` assumes it of each task of the server, of each callback and
timer of the main loop of GNOME Shell, of a stop that was begun and of the event
that follows a change, and of the restart of a crashed daemon
(`Restart=on-failure` in the unit that `systemd.rs` writes).  Recordings,
changes, commands, crashes and screen locks need not happen, and `Reconnects`
assumes that the extension stays enabled from some point on.

## Also met while modelling

Where the code does something a reader may not expect, and no document says
otherwise or a run for it would repeat another's question:

- Pipe mode calls `stop()` right after `start()` (`app.rs:143`, against the
  comment at `app.rs:77`), and so reads little of its input.
- The drain thread ignores a disconnection (`orchestrator.rs:351`): after the
  stations have ended it waits for `running`, which after a failed start nobody
  resets.
- The audio thread drops frames of a file, too, when the VAD falls behind
  (`orchestrator.rs:416`), without a count or a message.
- Chunk duration and silence are measured by the clock when frames are processed
  (`adaptive_chunker.rs:137`): frames that waited count as no time.
- `set_language` changes the allow-list, not the transcriber a recording is
  started with (`handler.rs:315`), and is not saved.  The next `set_model` loads a
  model for the new language.  Two at the same time may leave the config and the
  allow-list different, or tell the changes in the other order
  (`handler.rs:49`).
- `--no-download` falls back to any installed model in a session (`app.rs:524`);
  the daemon says that it does (`daemon/mod.rs:314`) and loads the path of the
  first all the same.
- "Ensures a multilingual model is used when language is not English" says
  `catalog.rs:386` of `resolve_model_for_language`, which knows an English model by
  the suffix ".en" alone: the quantized ones (`base.en-q5_1`, `tiny.en-q8_0` and
  their like, `english_only` in the catalog) and `small.en-tdrz` are loaded for any
  language, though the catalog has `base-q5_1` beside them.  So no property says
  that a loaded model knows its language.
- `Shutdown` answers Ok and stops nothing (`handler.rs:857`).  The client gives
  up after 5 s (`ipc/client.rs:10`) while a stop may take 6 s.
- A second daemon takes the socket of the first (`ipc/server.rs:92`), whose exit
  then removes the second's; nothing looks for a running one.  A daemon whose
  socket cannot be bound goes on until a signal (`daemon/mod.rs:247`).
- Correction: hybrid with an empty whitelist corrects no other language, though
  `config.rs:114` says empty means all; with the `t5` backend, and with hybrid in
  a build without SymSpell, T5 gets the texts of every listed language, and
  `symspell` with "auto" uses the English dictionary for the others; the other
  languages' text is rebuilt from raw tokens, so a stripped annotation may
  return; a text of up to five bytes is replaced without the divergence check
  (`correction/station.rs:94`).
- With several models an annotation may win the fan-out over a text.
- The sink trims a text's end before it appends a space (`sink.rs:245`): a line
  break becomes a space.
- The portal's restore token is saved before the keyboard is found to be
  granted; `Shell.Eval` with no focused window is flagged as broken.
- The noise gate changes only detector events that nobody reads (`vad.rs:203`).
- A microphone that delivers nothing never triggers the warning of a silent
  one: empty reads make no frames (`orchestrator.rs:397`); an error of the
  stream is only printed.  At the default verbosity no microphone does: the check
  is made only where levels are shown (`vad_station.rs:156`).
- The indicator: a failed command shows "disconnected" while it goes on
  following; `disable()` leaves callbacks that reconnect.

## Proofs

TLC checks the instances above; the theorems hold for every value of the
constants that meets the named assumptions.  Each `...Proofs` module has an
inductive invariant `IInv` (or one for each theorem), which TLC checked on the
run of the component before it was proved, one lemma for each action, and the
theorems at its end.  What each of them says, and why the property needs more
than itself to be inductive:

- `PipelineProofs`, for every number of stations, capacity and number of frames.
  `TypeCorrect`; `OrderCorrect` (`InOrder`): `Ordered` puts everything under way
  into one row, from what the drain and sink hold back to the frames not yet
  heard, and a step moves a message one place along or removes it, so the row
  stays sorted.  `NothingLost` (`NoLossWhileRunning`): `Draining`, while nobody
  stopped the pipeline and no thread panicked a station may end only behind all
  its predecessors, so no send can fail.  `Implements` (`Delivers`): the
  refinement of `TextStream`; each step of a thread writes, closes or hears
  something of `TextStream`, or none of these.  `ResultCounts` (`ResultIsFinal`):
  `Reported`, the sink sends its count when it has ended, and what `stop()` took
  is that count.  `FileToItsEnd` (`FileDrained`): `Cascade`, undisturbed threads
  end in the order of the pipeline, and the first not before the end of the file;
  `Early`, while the first frames of the channel's capacity are heard the channel
  has room, so none of them is dropped.
  `LostFromTheEnd` (`TruncationOnly`): `Truncating`, what can still be written was
  spoken before anything lost, and nothing is lost while all threads run.
- `DaemonProofs`, for any number of connections and whatever they may send.
  `TypeCorrect` includes the discipline of the mutex; `MicrophoneSafe`
  (`OneMicrophone`): `Handles` says what the task inside has made of the recording
  so far, `Quiet` that a process that does not serve has no tasks.
  `CopiesAgree` (`SettingsAgree`): between the two writes of a setting exactly one
  task is halfway and carries the value the other copy is to get; a model comes
  with what `create_transcriber` makes of it for any function that resolves names.
- `ExtensionProofs`, for any number of connections, faults and changes.
  `TypeCorrect`; `OneChainOnly` (`OneChain`): until it is disabled the extension
  waits for one connection, one line or one timer.  `IndicatorShows`
  (`IndicatorRight`): what is shown, with the lines and events under way read to
  their end (`After`), is what the daemon told last, whatever order its commands
  emitted in; a snapshot in the making is one more place on that way, and a
  receiver that lost events still ends with the newest.
- `MicrophoneProofs`, for any loudness scale, window and burst.  `SamplesKept`:
  what was taken and the buffer are one row with the count of callbacks.
  `ThresholdAdapts` (`Adapts`): the history is the last levels, the threshold the
  one that belongs to it, and with enough quiet or loud levels in the window the
  percentile of it is a quiet one.  `OneWarning` (`WarnsOnce`): where levels are
  shown, the counter is the length of the silence that ends here.
- `SegmentationProofs`, for any durations, table of gaps and lateness.
  `NoSpeechLost` (`SpeechKept`), `CutsAtPauses`, `ChunksInTime`: a chunk is an
  unbroken run with a first and a last loud frame (`Piece`), and while it grows
  the two clocks of the chunker agree with these frames, unless a station was
  late; `RequiredGap` never grows with the duration.
- `TextPathProofs`, for any words, tables, correctors, answers and number of chunks.
  `NothingVanishes` (`Accounted`), `CapitalsScoped` (`CapsScope`), `ChangesTold`
  (`Provenance`): the numbers of what waits at a station are beyond those of
  what waits behind it; what the books say of a text is where it is; what it
  says about itself is true of its transcription at every station; `caps_active`
  is what the last toggle left.
- `SetupProofs`, for any catalog, jobs, machines and number of processes.
  `SettingsStay` (`SettingsKept`): of processes that save one is between load and
  write, or it is noted, and what it will write is what is settled with its
  change.  `FilesSound` (`FilesWhole`): a file that is not spoilt has one writer,
  whose blocks so far are good.  `TuningChoosesWell` (`TunedWell`): every
  candidate leaves room in memory and on the disk; the models still to try are
  sorted, and hold all that are better and not known to be slow.

- `InjectionProofs`, for any windows, transcriptions, set-ups, number of sinks and
  of upsets.  `TypeCorrect`; `TypedWhole` (`TypedInOrder`): `Telling`, for each
  event and backend, whether it is done, under way, failed or still to come, and
  that what was typed is the part of the line of keys behind the sink.
  `KeysAreClean` (`CleanKeys`): `Held`, while nothing slipped at most one sink has
  keys pressed, in a session of the present bus, and they are exactly those its
  position in the line leaves pressed.  `PasteKeyFits` (`PasteFits`): `Looking`, a
  detection that nothing disturbed still has ahead of it all backends that can
  name the window and are not flagged, and one that is over was told the name by
  one of them.
  `PastesOurText` (`PasteIsOurs`): `Ours`, what a sink copied is on the clipboard
  until somebody else copies.  `LoginSurvived` (`SurvivesRelogin`): `Fresh`,
  between the refresh of the address and `connect()` only a new login parts them.

The assumptions are what the code fixes or checks before: sizes of channels and
windows are positive (`PipelineAssumption`, `MicrophoneAssumption`), the table of
gaps is sorted (`TableAssumption`), a line can hold a greeting
(`ExtensionAssumption`), names in the catalog are unique and an older name stands
for one of them (`CatalogAssumption`), a command names a model the command
line lets through (`SetupAssumption`), a corrected text is a text and the names
of correctors are not languages (`CorrectionAssumption`), phrases have one of the
known effects (`TextPathAssumption`), a transcription has an event and a shortcut
is modifiers and one other key (`InjectionAssumption`), the windows GNOME lists
are the windows there are (`FocusedWindowAssumption`).  TLC evaluates each of them in the run of
its module.

The prover has no induction over data with a predicate of one's own.  Where a
proof needs it, it argues by the least counterexample: `Least` (every set of
naturals that is not empty has a least member) follows from the library's
theorem that strict inclusion of finite sets is well-founded.

Attempts that failed changed the model.  `Provenance` called a text unchanged when its words were those that
were heard, but a correction and a configured phrase may change a word there
and back: it now says that the text tells of the change.  A configured phrase
may stand for nothing, which `Phrasebook` now has.  The order of the chunker's
table turned out to be needed for `CutInPause` and is now an assumption.
`PasteFits` was false for a reset of the flags during a detection, which takes
five upsets: a backend that refused before the reset and is asked again after it
answers before one that could have named the window all along.  Both name it
rightly; the history of a detection now counts those that are asked again.

Only model-checked: everything that must eventually happen (`StopReturns`,
`SourceEndDrains`, `CommandsAnswered`, `Reconnects`), since liveness under
fairness is beyond the proof system, and the three violations.  Every other
property of a run is a theorem.

## Plan

1. Lemmas for the liveness properties that are safety: in `Pipeline`, that a
   thread which waits has a neighbour that can move; in `Daemon`, that somebody
   holds the mutex while anybody waits.
2. `InjectionProofs` is long because each backend's delivery is argued on its
   own; `UseTool`, `ToolFails` and `Stroke` extend the same line of keys and could
   share one lemma.

## Coverage

Every row of the map names the lines its definition translates.  About half of
the repository's lines are tests inside the source files, which nothing here
models; of the other half the map covers somewhat less than one line in two.
What is left is what the next section names.

## Not modelled

- Audio samples: mixing, resampling, the WAV format and the choice of a device.
  A sound is a level, the parts that depend on it are in `Microphone`.
- Texts as characters: tables of phrases and voice commands, the stripping of
  annotations, the 40 % edit distance.  A text is one of a few, and what the
  tables make of it is a parameter.
- JSON and TOML as formats, paths, permissions of the socket, the size limit of a
  command, the socket of two daemons at a time.
- Application modes beyond what `Pipeline` and `Setup` say of them: they build a
  pipeline and call `stop()`.
- The download of dictionaries and of the correction model's three files: a
  download like the others (`Setup`), whose failure `Correction` has.
- The menus of the indicator; the cache of toolkits, which only a log and a menu
  show; the rendering of output, configuration, latency and diagnostics; the
  benchmark's measurements beyond the factor `Setup` takes from them.
- Installers and the build script: they write files and call other programs.
