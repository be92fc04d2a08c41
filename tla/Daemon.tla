------------------------------- MODULE Daemon -------------------------------
(***************************************************************************)
(* The daemon of src/daemon: the state its connections share, and one task *)
(* per connection that runs a command step by step between its awaits, from *)
(* the start of the process to a signal that ends it.  Extension has what  *)
(* the clients are told.                                                   *)
(*                                                                         *)
(* The pipeline mutex is a tokio mutex, so its waiters are served in the   *)
(* order they came: it is the sequence of the tasks that want it, its head *)
(* the holder.  The config mutex is never held across an await: a use of   *)
(* it is one step.  A recording is the Pipeline module seen from outside.  *)
(*                                                                         *)
(* A client waits five seconds and gives up; its connection's task runs on.*)
(* What it then tries again comes on another connection.                   *)
(***************************************************************************)
EXTENDS Integers, Sequences, FiniteSets

CONSTANTS
  Clients,     \* connections that send commands
  May,         \* May[c]: the commands connection c may send
  Models, Languages,
  FanOut,      \* the setting fan_out, which no command changes
  Resolve(_, _),      \* resolve_model_for_language (see Catalog)
  EnglishOf(_),       \* english_variant (see Catalog)
  Correctors,  \* the correction models
  Symspell     \* the correction backend is symspell, of no model

Queued == {"start", "stop", "cancel", "toggle", "status"}
Commands == Queued \cup {"set_language", "set_model", "set_correction"}

Automatic == "auto"
None == "none"

ASSUME DaemonAssumption ==
  /\ May \in [Clients -> SUBSET Commands]
  /\ Automatic \in Languages /\ Models # {} /\ Correctors # {}
  /\ Symspell \in BOOLEAN /\ FanOut \in BOOLEAN
  /\ None \notin Models
  /\ \A m \in Models : EnglishOf(m) \in Models \cup {None}
  /\ \A m \in Models, l \in Languages : Resolve(m, l) \in Models

VARIABLES
  daemon,      \* the process: "off", "loading", "serving" or "closing"
  line,        \* the pipeline mutex: the tasks that want it, the holder first
  recording,   \* the mutex holds Some(handle)
  mics,        \* pipelines whose audio thread was started and not yet stopped
  config,      \* the settings: model, language, allowed languages, correction
  transcriber, \* what create_transcriber loaded, and for which language
  allowed,     \* the live list of languages the pipeline lets through
  raced,       \* history: settings whose last changes overlapped
  pc, job      \* each connection's place in the handler, and its locals

settings == <<config, transcriber, allowed, raced>>
shared == <<daemon, recording, mics, settings>>
vars == <<line, shared, pc, job>>

Settings == [model : Models, language : Languages, allowed : SUBSET Languages,
             correcting : BOOLEAN, corrector : Correctors]

(* What a config file may say: its list of languages is its own.            *)
FromFile == {s \in Settings : Automatic \notin s.allowed}

(* The locals of a handler: gone when it has answered. *)
NoJob == [op |-> "none", config |-> CHOOSE s \in Settings : TRUE]

(* The allow-list that belongs to a language setting: empty lets all pass. *)
AllowList(l) == IF l = Automatic THEN {} ELSE {l}

-----------------------------------------------------------------------------
(* create_transcriber *)

(* The model names it loads for a setting of model and language, which are  *)
(* seldom the setting's own: fan_out wants an English model besides.        *)
Recognisers(m, l) ==
  LET resolved == Resolve(m, l)
  IN  IF FanOut THEN {resolved, EnglishOf(resolved)} ELSE {resolved}

(* "(English variant)" not found: an error. *)
Loadable(s) == None \notin Recognisers(s.model, s.language)

Created(s) == [language |-> s.language, models |-> Recognisers(s.model, s.language)]
NoTranscriber == [language |-> Automatic, models |-> {}]

-----------------------------------------------------------------------------
(* The pipeline mutex, and a task's place *)

Wait(c) == line' = Append(line, c)
Holds(c) == line # <<>> /\ Head(line) = c
Release == line' = Tail(line)

At(c, label) == pc[c] = label
Goto(c, label) == pc' = [pc EXCEPT ![c] = label]
Answer(c) == Goto(c, "idle") /\ job' = [job EXCEPT ![c] = NoJob]

(* A connection is accepted, and its command read. *)
Accepted(c, op) == daemon = "serving" /\ At(c, "idle") /\ op \in May[c]

-----------------------------------------------------------------------------
(* Definitions named Wrong... are slips a programmer could make in the code *)
(* the next definition models; with one of them in its place, TLC finds the *)
(* property violated that PROJECT.json pairs it with.                       *)

(* run_daemon: the file's settings, and a model loaded before the socket.   *)
Load ==
  /\ daemon = "off" /\ daemon' = "loading"
  /\ config' \in FromFile
  /\ UNCHANGED <<line, recording, mics, transcriber, allowed, raced, pc, job>>

Serve ==
  /\ daemon = "loading" /\ daemon' = "serving"
  /\ Loadable(config)
  /\ transcriber' = Created(config) /\ allowed' = config.allowed /\ raced' = {}
  /\ UNCHANGED <<line, recording, mics, config, pc, job>>

LoadFails ==
  /\ daemon = "loading" /\ daemon' = "off"
  /\ UNCHANGED <<line, recording, mics, settings, pc, job>>

(* SIGTERM or SIGINT: no connection is accepted any more. *)
Signal ==
  /\ daemon = "serving" /\ daemon' = "closing"
  /\ UNCHANGED <<line, recording, mics, settings, pc, job>>

(* The process ends: a task is dropped at its await, and stop() has none.   *)
Exit ==
  /\ daemon = "closing" /\ \A c \in Clients : ~At(c, "stopping")
  /\ daemon' = "off"
  /\ line' = <<>> /\ recording' = FALSE /\ mics' = 0
  /\ transcriber' = NoTranscriber /\ allowed' = {} /\ raced' = {}
  /\ pc' = [c \in Clients |-> "idle"] /\ job' = [c \in Clients |-> NoJob]
  /\ UNCHANGED config

Init ==
  /\ daemon = "off" /\ line = <<>> /\ recording = FALSE /\ mics = 0
  /\ config \in FromFile
  /\ transcriber = NoTranscriber /\ allowed = {} /\ raced = {}
  /\ pc = [c \in Clients |-> "idle"]
  /\ job = [c \in Clients |-> NoJob]

-----------------------------------------------------------------------------
(* Commands that look at the recording: they queue up for the mutex *)

Ask(c, op) ==
  /\ Accepted(c, op) /\ op \in Queued
  /\ Goto(c, "waiting") /\ Wait(c)
  /\ job' = [job EXCEPT ![c].op = op]
  /\ UNCHANGED shared

Turn(c, op) == At(c, "waiting") /\ Holds(c) /\ job[c].op = op

(* The rest of the status comes from the config. *)
Status(c) ==
  /\ Turn(c, "status")
  /\ Answer(c) /\ Release
  /\ UNCHANGED shared

(* is_recording() keeps the mutex it has looked through. *)
WrongPeek(c) ==
  /\ Turn(c, "toggle")
  /\ job' = [job EXCEPT ![c].op = IF recording THEN "stop" ELSE "start"]
  /\ Goto(c, "decided")
  /\ UNCHANGED <<line, shared>>

(* toggle_recording: is_recording() looks and gives the mutex back, ...     *)
Peek(c) ==
  /\ Turn(c, "toggle")
  /\ job' = [job EXCEPT ![c].op = IF recording THEN "stop" ELSE "start"]
  /\ Goto(c, "decided") /\ Release
  /\ UNCHANGED shared

(* ... and the chosen command queues up for it again.                       *)
AskAgain(c) ==
  /\ At(c, "decided")
  /\ Goto(c, "waiting") /\ Wait(c)
  /\ UNCHANGED <<shared, job>>

(* "Already recording", "Not recording": an error, and nothing changes.     *)
Refuse(c) ==
  /\ \/ Turn(c, "start") /\ recording
     \/ (Turn(c, "stop") \/ Turn(c, "cancel")) /\ ~recording
  /\ Answer(c) /\ Release
  /\ UNCHANGED shared

(* No check for a recording: its handle is overwritten. *)
WrongCopyConfig(c) ==
  /\ Turn(c, "start")
  /\ job' = [job EXCEPT ![c].config.correcting = config.correcting]
  /\ Goto(c, "starting")
  /\ UNCHANGED <<line, shared>>

(* start_recording keeps the mutex from here to its answer.  Of its copy of *)
(* the config the steps to come look at one setting.                        *)
CopyConfig(c) ==
  /\ Turn(c, "start") /\ ~recording
  /\ job' = [job EXCEPT ![c].config.correcting = config.correcting]
  /\ Goto(c, "starting")
  /\ UNCHANGED <<line, shared>>

(* The pipeline gets a handle on the loaded model of now. *)
TakeTranscriber(c) ==
  /\ At(c, "starting")
  /\ Goto(c, IF job[c].config.correcting THEN "building" ELSE "opening")
  /\ UNCHANGED <<line, shared, job>>

(* build_correction_station: it may download, and may come to nothing.      *)
BuildCorrection(c) ==
  /\ At(c, "building")
  /\ Goto(c, "opening")
  /\ UNCHANGED <<line, shared, job>>

StartPipeline(c) ==
  /\ At(c, "opening")
  /\ recording' = TRUE /\ mics' = mics + 1
  /\ Answer(c) /\ Release
  /\ UNCHANGED <<daemon, settings>>

(* An early return keeps the mutex. *)
WrongStartFails(c) ==
  /\ pc[c] \in {"starting", "opening"}
  /\ Answer(c)
  /\ UNCHANGED <<line, shared>>

(* No audio device, or the pipeline does not start. *)
StartFails(c) ==
  /\ pc[c] \in {"starting", "opening"}
  /\ Answer(c) /\ Release
  /\ UNCHANGED shared

(* stop_recording and cancel_recording take the handle out of the mutex ... *)
TakeHandle(c) ==
  /\ (Turn(c, "stop") \/ Turn(c, "cancel")) /\ recording
  /\ recording' = FALSE
  /\ Goto(c, "stopping")
  /\ UNCHANGED <<daemon, line, mics, settings, job>>

(* ... and give it back when handle.stop() returned.                        *)
Stopped(c) ==
  /\ At(c, "stopping")
  /\ mics' = mics - 1
  /\ Answer(c) /\ Release
  /\ UNCHANGED <<daemon, recording, settings>>

-----------------------------------------------------------------------------
(* handle_set_language: the setting, then the live allow-list.  The loaded  *)
(* model stays, and goes on with the language it was loaded for.            *)

(* A command begins to change both copies of a setting: it overlaps with    *)
(* another that has changed only one, or it makes an older overlap good.    *)
Changing(setting, halfway) ==
  raced' = IF \E c \in Clients : At(c, halfway) THEN raced \cup {setting}
           ELSE raced \ {setting}

SetLanguage(c, l) ==
  /\ Accepted(c, "set_language")
  /\ config' = [config EXCEPT !.language = l, !.allowed = AllowList(l)]
  /\ job' = [job EXCEPT ![c].config.allowed = AllowList(l)]
  /\ Goto(c, "sharing") /\ Changing("language", "sharing")
  /\ UNCHANGED <<daemon, line, recording, mics, transcriber, allowed>>

ShareLanguage(c) ==
  /\ At(c, "sharing")
  /\ allowed' = job[c].config.allowed
  /\ Answer(c)
  /\ UNCHANGED <<daemon, line, recording, mics, config, transcriber, raced>>

-----------------------------------------------------------------------------
(* handle_set_error_correction and handle_set_correction_model: one lock.   *)

correctionRest == <<daemon, line, recording, mics, transcriber, allowed, raced, pc, job>>

SetErrorCorrection(c, on) ==
  /\ Accepted(c, "set_correction")
  /\ config' = [config EXCEPT !.correcting = on]
  /\ UNCHANGED correctionRest

SetCorrectionModel(c, m) ==
  /\ Accepted(c, "set_correction") /\ ~Symspell
  /\ config' = [config EXCEPT !.corrector = m]
  /\ UNCHANGED correctionRest

-----------------------------------------------------------------------------
(* handle_set_model *)

SetModel(c, m) ==
  /\ Accepted(c, "set_model")
  /\ job' = [job EXCEPT ![c].config.model = m]
  /\ Goto(c, "fetching")
  /\ UNCHANGED <<line, shared>>

(* Downloaded, or installed already: the model is loaded for a copy of the  *)
(* config, of which its languages matter; in between they may change.       *)
Fetched(c) ==
  /\ At(c, "fetching")
  /\ job' = [job EXCEPT ![c].config.language = config.language,
                        ![c].config.allowed = config.allowed]
  /\ Goto(c, "loading")
  /\ UNCHANGED <<line, shared>>

ModelFails(c) ==
  /\ pc[c] \in {"fetching", "loading"}
  /\ Answer(c)
  /\ UNCHANGED <<line, shared>>

Swap(c) ==
  /\ At(c, "loading") /\ Loadable(job[c].config)
  /\ transcriber' = Created(job[c].config)
  /\ Goto(c, "configuring") /\ Changing("model", "configuring")
  /\ UNCHANGED <<daemon, line, recording, mics, config, allowed, job>>

(* The copy of the config is written back. *)
WrongConfigureModel(c) ==
  /\ At(c, "configuring")
  /\ config' = [config EXCEPT !.model = job[c].config.model, !.language = job[c].config.language,
                            !.allowed = job[c].config.allowed]
  /\ Answer(c)
  /\ UNCHANGED <<daemon, line, recording, mics, transcriber, allowed, raced>>

ConfigureModel(c) ==
  /\ At(c, "configuring")
  /\ config' = [config EXCEPT !.model = job[c].config.model]
  /\ Answer(c)
  /\ UNCHANGED <<daemon, line, recording, mics, transcriber, allowed, raced>>

-----------------------------------------------------------------------------
Handle(c) ==
  \/ Status(c) \/ Peek(c) \/ AskAgain(c) \/ Refuse(c)
  \/ CopyConfig(c) \/ TakeTranscriber(c) \/ BuildCorrection(c)
  \/ StartPipeline(c) \/ StartFails(c)
  \/ TakeHandle(c) \/ Stopped(c)
  \/ ShareLanguage(c)
  \/ Fetched(c) \/ ModelFails(c) \/ Swap(c) \/ ConfigureModel(c)

Request(c) ==
  \/ \E op \in Queued : Ask(c, op)
  \/ \E l \in Languages : SetLanguage(c, l)
  \/ \E on \in BOOLEAN : SetErrorCorrection(c, on)
  \/ \E m \in Correctors : SetCorrectionModel(c, m)
  \/ \E m \in Models : SetModel(c, m)

Next ==
  \/ Load \/ Serve \/ LoadFails \/ Signal \/ Exit
  \/ \E c \in Clients : Request(c) \/ Handle(c)

Spec == Init /\ [][Next]_vars

(* tokio polls every task that is ready; downloads, model loading and       *)
(* handle.stop() end (see Pipeline for the latter).                         *)
FairSpec == Spec /\ \A c \in Clients : WF_vars(Handle(c))

-----------------------------------------------------------------------------
(* Properties *)

Labels == {"idle", "waiting", "decided", "starting", "building", "opening", "stopping",
           "sharing", "fetching", "loading", "configuring"}

(* Places whose task has the mutex: start_recording and stop_recording keep *)
(* it, whatever they await.                                                 *)
Inside == {"starting", "building", "opening", "stopping"}

(* The type invariant, and the discipline of the mutex: a task is in its    *)
(* line exactly while its handler wants it, and only the head is inside.    *)
TypeOK ==
  /\ daemon \in {"off", "loading", "serving", "closing"}
  /\ line \in Seq(Clients)
  /\ \A i, j \in DOMAIN line : line[i] = line[j] => i = j
  /\ \A c \in Clients :
       /\ pc[c] \in Inside \cup {"waiting"} <=> \E i \in DOMAIN line : line[i] = c
       /\ pc[c] \in Inside => Holds(c)
  /\ recording \in BOOLEAN /\ mics \in Nat
  /\ config \in Settings /\ allowed \in SUBSET Languages
  /\ transcriber \in [language : Languages, models : SUBSET Models]
  /\ raced \subseteq {"language", "model"}
  /\ pc \in [Clients -> Labels]
  /\ job \in [Clients -> [op : Commands \cup {"none"}, config : Settings]]

(* No two pipelines listen at once, and none is forgotten: the microphone   *)
(* is on exactly while the mutex holds its handle, whatever starts, stops   *)
(* and toggles come together, and off when the daemon is.                   *)
OneMicrophone ==
  /\ mics <= 1
  /\ line = <<>> => (recording <=> mics = 1)
  /\ daemon \in {"off", "loading"} => mics = 0

AllIdle == \A c \in Clients : At(c, "idle")

LoadedFor(m, t) == t.models = Recognisers(m, t.language)

(* When no command is under way, what is loaded is what create_transcriber  *)
(* makes of the configured model for the language that was set when it was  *)
(* loaded (set_language loads nothing, so the configured language may be    *)
(* another by now), and the pipeline filters by the languages of the        *)
(* config.  The exception: the last commands for that setting ran at the    *)
(* same time, for each setting has two copies and no lock that holds both.  *)
SettingsAgree ==
  AllIdle /\ daemon = "serving" =>
    /\ "model" \in raced \/ LoadedFor(config.model, transcriber)
    /\ "language" \in raced \/ allowed = config.allowed

(* Every command is answered or its connection ends with the daemon, though *)
(* they queue for one mutex, held as long as a correction model takes to    *)
(* download or a pipeline to stop.                                          *)
CommandsAnswered == \A c \in Clients : ~At(c, "idle") ~> At(c, "idle")
=============================================================================
