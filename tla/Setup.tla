-------------------------------- MODULE Setup --------------------------------
(***************************************************************************)
(* The commands that prepare the program and the files they share: the     *)
(* config file (src/config.rs) and the directory of downloaded models      *)
(* (src/models/download.rs).  Each command is a process of its own, with   *)
(* no lock between them: `config set`, `models use`, `models install`,     *)
(* `init` and `auto-tune` (src/init.rs), a recording session (src/app.rs)  *)
(* and the start of the daemon (src/daemon/mod.rs) may overlap and may be  *)
(* killed at any step.                                                     *)
(*                                                                         *)
(* A file on disk is its blocks; a download writes them one by one under   *)
(* the final name, and the name existing is all that "installed" means.    *)
(***************************************************************************)
EXTENDS Catalog, TLC

CONSTANTS
  Procs,        \* commands that may run at the same time
  Jobs,         \* what a command may be asked to do, and the machine it finds:
                \* [desktop, tools, disk, ram, rtf]
  Measured,     \* real-time factors a benchmark may measure
  AtFirst,      \* [cfg, have]: the config file and the models of a beginning
  Env,          \* VOICSH_...: the settings the environment overrides
  Blocks,       \* blocks of a model file
  MaxCommands, MaxFaults

Default == [model |-> "base", language |-> Automatic, backend |-> Automatic, fan_out |-> FALSE]
Keys == DOMAIN Default
Commands == {"set", "use", "install", "tune", "init", "record", "daemon"}
Config == [model : ModelName, language : STRING, backend : Backends, fan_out : BOOLEAN]

Override(c, o) == [k \in Keys |-> IF k \in DOMAIN o THEN o[k] ELSE c[k]]

(* Models are named as they are offered; another name is the path of a file. *)
(* A default, and what overrides a setting, is of its type.                 *)
ASSUME SetupAssumption ==
  /\ Default \in Config
  /\ \A j \in Jobs :
       /\ j.cmd \in Commands
       /\ j.cmd = "set" /\ j.key = "model" => j.value \in ModelName
       /\ j.cmd \in {"use", "install"} => j.model \in ModelName
       /\ j.cmd \in {"record", "daemon"} => Override(Default, j.cli) \in Config
  /\ Override(Default, Env) \in Config
  /\ \A first \in AtFirst : first.cfg \in Seq(Config) /\ Len(first.cfg) <= 1
  /\ Blocks \in Nat \ {0} /\ MaxCommands \in Nat /\ MaxFaults \in Nat

VARIABLES
  cfg,          \* the config file: <<its settings>>, or <<>>: absent or empty
  disk,         \* disk[m]: the blocks of model m's file, or Absent
  pc, job,      \* each process: where it is, and what it was asked
  change,       \* the setting it is about to save: [key, value]
  conf,         \* the settings it has loaded
  fetch,        \* the download under way: [file, next, clean, linked]
  queue,        \* models it has still to try, or to load
  tuning,       \* auto-tuning: its machine, what it tries, what was too slow
  opened,       \* models loaded, or to be loaded by the daemon
  settled,      \* the settings all completed commands asked for
  overlap,      \* two commands were saving at once, or one was killed saving
  spoilt,       \* files some download left in part, or two wrote at once
  tuned,        \* what auto-tuning chose, with what it knew
  commands, faults

files == <<cfg, disk>>
locals == <<job, change, conf, fetch, queue, tuning, opened>>
history == <<settled, overlap, spoilt, tuned>>
vars == <<files, pc, locals, history, commands, faults>>

Absent == <<>>
Names == {m.name : m \in Offered}
Whole == [b \in 1..Blocks |-> "good"]
Blank == [b \in 1..Blocks |-> "hole"]
NoFetch == [file |-> None, next |-> 0, clean |-> TRUE, linked |-> FALSE]
NoTuning == [stage |-> None, slow |-> {}]

(* is_model_installed: the path exists. *)
Installed(n) == disk[ResolveName(n)] # Absent

(* No file, or an empty one: every value at its default. *)
Effective == IF cfg = <<>> THEN Default ELSE Head(cfg)

At(p, label) == pc[p] = label
Goto(p, label) == pc' = [pc EXCEPT ![p] = label]
Writing(p, f) == pc[p] = "stream" /\ fetch[p].linked /\ fetch[p].file = f

Fetch(p, n) ==
  /\ fetch' = [fetch EXCEPT ![p] = [NoFetch EXCEPT !.file = ResolveName(n)]]
  /\ Goto(p, "fetch")

Save(p, key, value) ==
  /\ change' = [change EXCEPT ![p] = [key |-> key, value |-> value]]
  /\ Goto(p, "load")

(* The command ends, well or with an error. *)
Exit(p) == Goto(p, "idle") /\ UNCHANGED locals

-----------------------------------------------------------------------------
Init ==
  /\ \E first \in AtFirst :
       /\ cfg = first.cfg
       /\ disk = [n \in Names |-> IF n \in first.have THEN Whole ELSE Absent]
  /\ pc = [p \in Procs |-> "idle"]
  /\ job = [p \in Procs |-> [cmd |-> None]]
  /\ change = [p \in Procs |-> [key |-> None, value |-> None]]
  /\ conf = [p \in Procs |-> Default]
  /\ fetch = [p \in Procs |-> NoFetch]
  /\ queue = [p \in Procs |-> <<>>]
  /\ tuning = [p \in Procs |-> NoTuning]
  /\ opened = [p \in Procs |-> <<>>]
  /\ settled = Effective /\ overlap = FALSE /\ spoilt = {}
  /\ tuned = {}
  /\ commands = 0 /\ faults = 0

Start(p, j) ==
  /\ At(p, "idle") /\ commands < MaxCommands
  /\ commands' = commands + 1
  /\ job' = [job EXCEPT ![p] = j]
  /\ tuning' = [tuning EXCEPT ![p] = NoTuning]
  /\ opened' = [opened EXCEPT ![p] = <<>>]
  /\ UNCHANGED <<files, conf, queue, history, faults>>

(* handle_config_command, handle_models_command, main: what each begins with *)
Begin(p, j) ==
  CASE j.cmd = "set"     -> Save(p, j.key, j.value) /\ UNCHANGED fetch
    [] j.cmd = "use"     -> /\ InCatalog(j.model)
                            /\ Save(p, "model", ResolveName(j.model)) /\ UNCHANGED fetch
    [] j.cmd = "install" -> Fetch(p, j.model) /\ UNCHANGED change
    [] j.cmd \in {"tune", "init", "record", "daemon"} ->
         Goto(p, j.cmd) /\ UNCHANGED <<change, fetch>>

Command(p) == \E j \in Jobs : Start(p, j) /\ Begin(p, j)

-----------------------------------------------------------------------------
(* The config file: set_value_by_path and update_model load it, change one  *)
(* value and write it whole.  save() is fs::write: truncate, then write.    *)

Saving(p) == pc[p] \in {"truncate", "write"}

(* The value is saved without a look at its type. *)
WrongValid(c) == c.key \in Keys

(* A value its type does not take: nothing is written. *)
Valid(c) ==
  CASE c.key = "backend" -> c.value \in Backends
    [] c.key = "fan_out" -> c.value \in BOOLEAN
    [] OTHER -> c.value \in STRING

(* The settings are loaded as a session loads them, with the environment.   *)
WrongLoadConfig(p) ==
  /\ At(p, "load") /\ Valid(change[p])
  /\ conf' = [conf EXCEPT ![p] = [Override(Effective, Env) EXCEPT ![change[p].key] = change[p].value]]
  /\ overlap' = (overlap \/ \E q \in Procs \ {p} : Saving(q))
  /\ Goto(p, "truncate")
  /\ UNCHANGED <<files, job, change, fetch, queue, tuning, opened,
                 settled, spoilt, tuned, commands, faults>>

LoadConfig(p) ==
  /\ At(p, "load") /\ Valid(change[p])
  /\ conf' = [conf EXCEPT ![p] = [Effective EXCEPT ![change[p].key] = change[p].value]]
  /\ overlap' = (overlap \/ \E q \in Procs \ {p} : Saving(q))
  /\ Goto(p, "truncate")
  /\ UNCHANGED <<files, job, change, fetch, queue, tuning, opened,
                 settled, spoilt, tuned, commands, faults>>

Rejected(p) ==
  /\ At(p, "load") /\ ~Valid(change[p])
  /\ Exit(p)
  /\ UNCHANGED <<files, history, commands, faults>>

Truncate(p) ==
  /\ At(p, "truncate")
  /\ cfg' = <<>>
  /\ Goto(p, "write")
  /\ UNCHANGED <<disk, locals, history, commands, faults>>

(* A tuning that saved its model is done; init goes on from the backend.    *)
Write(p) ==
  /\ At(p, "write")
  /\ cfg' = <<conf[p]>>
  /\ settled' = [settled EXCEPT ![change[p].key] = change[p].value]
  /\ tuned' = IF tuning[p].stage # None
              THEN tuned \cup {[tuning[p] EXCEPT !.stage = change[p].value]}
              ELSE tuned
  /\ Goto(p, IF job[p].cmd = "init" /\ tuning[p].stage = None THEN "tune" ELSE "idle")
  /\ UNCHANGED <<disk, locals, overlap, spoilt, commands, faults>>

-----------------------------------------------------------------------------
(* download_model *)

(* What follows a download, or the file being there already. *)
Arrived(p) ==
  /\ Goto(p, CASE job[p].cmd = "install" -> "idle"
               [] job[p].cmd \in {"tune", "init"} -> "bench"
               [] job[p].cmd = "record" -> "open"
               [] job[p].cmd = "daemon" -> "pick")
  /\ fetch' = [fetch EXCEPT ![p].linked = FALSE]
  /\ opened' = IF job[p].cmd = "daemon"
               THEN [opened EXCEPT ![p] = Append(@, fetch[p].file)] ELSE opened
  /\ UNCHANGED <<job, change, conf, queue, tuning>>

AlreadyThere(p) ==
  /\ At(p, "fetch") /\ Installed(fetch[p].file)
  /\ Arrived(p)
  /\ UNCHANGED <<files, history, commands, faults>>

(* Not in the catalog, no network, a status that is no success.             *)
CannotFetch(p) ==
  /\ At(p, "fetch") /\ ~Installed(fetch[p].file)
  /\ InCatalog(fetch[p].file) => faults < MaxFaults
  /\ faults' = IF InCatalog(fetch[p].file) THEN faults + 1 ELSE faults
  /\ Exit(p)
  /\ UNCHANGED <<files, history, commands>>

Respond(p) ==
  /\ At(p, "fetch") /\ ~Installed(fetch[p].file) /\ InCatalog(fetch[p].file)
  /\ Goto(p, "create")
  /\ UNCHANGED <<files, locals, history, commands, faults>>

(* File::create: a new file, or the one another download has just begun,    *)
(* cut to nothing.                                                          *)
Create(p) ==
  /\ At(p, "create")
  /\ disk' = [disk EXCEPT ![fetch[p].file] = Blank]
  /\ spoilt' = IF Installed(fetch[p].file) THEN spoilt \cup {fetch[p].file} ELSE spoilt
  /\ fetch' = [fetch EXCEPT ![p].linked = TRUE, ![p].next = 1]
  /\ Goto(p, "stream")
  /\ UNCHANGED <<cfg, job, change, conf, queue, tuning, opened,
                 settled, overlap, tuned, commands, faults>>

(* The next block arrives, sound or not; it reaches the file the process    *)
(* has open, which may have lost its name.                                  *)
Chunk(p, block) ==
  /\ At(p, "stream") /\ fetch[p].next <= Blocks
  /\ block = "bad" => faults < MaxFaults
  /\ faults' = IF block = "bad" THEN faults + 1 ELSE faults
  /\ fetch' = [fetch EXCEPT ![p].next = @ + 1, ![p].clean = @ /\ block = "good"]
  /\ disk' = IF fetch[p].linked
             THEN [disk EXCEPT ![fetch[p].file][fetch[p].next] = block] ELSE disk
  /\ UNCHANGED <<cfg, pc, job, change, conf, queue, tuning, opened, history, commands>>

(* The process ends in the middle of a download: the file stays.            *)
Abandon(p) ==
  spoilt' = IF pc[p] = "stream" /\ fetch[p].linked THEN spoilt \cup {fetch[p].file} ELSE spoilt

ConnectionLost(p) ==
  /\ At(p, "stream") /\ fetch[p].next <= Blocks /\ faults < MaxFaults
  /\ faults' = faults + 1
  /\ Abandon(p) /\ Exit(p)
  /\ UNCHANGED <<files, settled, overlap, tuned, commands>>

Verified(p) ==
  /\ At(p, "stream") /\ fetch[p].next > Blocks /\ fetch[p].clean
  /\ Arrived(p)
  /\ UNCHANGED <<files, history, commands, faults>>

(* The mismatch is reported and the file stays. *)
WrongMismatch(p) ==
  /\ At(p, "stream") /\ fetch[p].next > Blocks /\ ~fetch[p].clean
  /\ Exit(p)
  /\ UNCHANGED <<files, history, commands, faults>>

(* The checksum does not match: the file of that name goes, and who else    *)
(* has it open writes to a file without a name.                             *)
Mismatch(p) ==
  /\ At(p, "stream") /\ fetch[p].next > Blocks /\ ~fetch[p].clean
  /\ LET f == fetch[p].file IN
       /\ disk' = [disk EXCEPT ![f] = Absent]
       /\ spoilt' = spoilt \ {f}
       /\ fetch' = [q \in Procs |->
            IF Writing(q, f) THEN [fetch[q] EXCEPT !.linked = FALSE] ELSE fetch[q]]
  /\ Goto(p, "idle")
  /\ UNCHANGED <<cfg, job, change, conf, queue, tuning, opened,
                 settled, overlap, tuned, commands, faults>>

-----------------------------------------------------------------------------
(* init and auto-tune *)

Language(p) == job[p].language
Machine(p) == job[p].machine

(* run_full_init: the backend this desktop needs is saved before tuning.    *)
InitBackend(p) ==
  /\ At(p, "init")
  /\ Save(p, "backend", RecommendBackend(Machine(p).desktop, Machine(p).tools))
  /\ UNCHANGED <<files, job, conf, fetch, queue, tuning, opened, history, commands, faults>>

(* run_init: the probe model is fetched ...                                 *)
Tune(p) ==
  /\ At(p, "tune")
  /\ tuning' = [tuning EXCEPT ![p] = [stage |-> "probe", slow |-> {}, viable |-> {},
                                      language |-> Language(p), machine |-> Machine(p)]]
  /\ Fetch(p, Probe(Language(p)))
  /\ UNCHANGED <<files, job, change, conf, queue, opened, history, commands, faults>>

(* benchmark_model cannot load what is not whole: tuning ends.              *)
BenchFails(p) ==
  /\ At(p, "bench") /\ disk[fetch[p].file] # Whole
  /\ Exit(p)
  /\ UNCHANGED <<files, history, commands, faults>>

Try(p, models) ==
  /\ queue' = [queue EXCEPT ![p] = Tail(models)]
  /\ Fetch(p, Head(models).name)
  /\ UNCHANGED change

Settle(p, n) == Save(p, "model", n) /\ UNCHANGED <<queue, fetch>>

(* ... and measured; the best of what seems fast enough is tried first.     *)
BenchProbe(p) ==
  /\ At(p, "bench") /\ disk[fetch[p].file] = Whole /\ tuning[p].stage = "probe"
  /\ \E reached \in BOOLEAN :
       LET m == Machine(p)
           viable == Viable(reached, job[p].quantized, Language(p), m.ram, m.disk, m.rtf)
       IN  /\ IF viable = <<>> THEN Settle(p, fetch[p].file) ELSE Try(p, viable)
           /\ tuning' = [tuning EXCEPT ![p].stage = "recommended", ![p].viable = ToSet(viable)]
  /\ UNCHANGED <<files, job, conf, opened, history, commands, faults>>

(* verify_or_fallback: alternatives need more headroom than the first.      *)
Alternatives(p) ==
  Kept(queue[p], {m \in Offered : EstimatedBelow(70, m, Probe(Language(p)), Machine(p).rtf)})

FastEnough(p, measured) ==
  IF tuning[p].stage = "recommended" THEN measured <= 100 ELSE measured < 100

(* The slow model's alternatives are tried from the worst up. *)
WrongBenchModel(p, measured) ==
  /\ At(p, "bench") /\ disk[fetch[p].file] = Whole
  /\ tuning[p].stage \in {"recommended", "alternative"}
  /\ IF FastEnough(p, measured)
     THEN Settle(p, fetch[p].file) /\ UNCHANGED tuning
     ELSE /\ tuning' = [tuning EXCEPT ![p].stage = "alternative", ![p].slow = @ \cup {fetch[p].file}]
          /\ IF Alternatives(p) = <<>> THEN Settle(p, Probe(Language(p)))
             ELSE Try(p, Reverse(Alternatives(p)))
  /\ UNCHANGED <<files, job, conf, opened, history, commands, faults>>

BenchModel(p, measured) ==
  /\ At(p, "bench") /\ disk[fetch[p].file] = Whole
  /\ tuning[p].stage \in {"recommended", "alternative"}
  /\ IF FastEnough(p, measured)
     THEN Settle(p, fetch[p].file) /\ UNCHANGED tuning
     ELSE /\ tuning' = [tuning EXCEPT ![p].stage = "alternative", ![p].slow = @ \cup {fetch[p].file}]
          /\ IF Alternatives(p) = <<>> THEN Settle(p, Probe(Language(p)))
             ELSE Try(p, Alternatives(p))
  /\ UNCHANGED <<files, job, conf, opened, history, commands, faults>>

-----------------------------------------------------------------------------
(* A recording session, and the start of the daemon *)

(* load_config: the file, then the environment, then the command line.      *)
Settings(p) == Override(Override(Effective, Env), job[p].cli)

(* app.rs create_transcriber: two models only for a language not yet known. *)
SessionModels(c) ==
  LET model == ResolveForLanguage(c.model, c.language)
      en == EnglishVariant(model)
  IN  IF c.fan_out /\ c.language = Automatic /\ en \notin {None, model}
      THEN <<model, en>> ELSE <<model>>

(* daemon/mod.rs create_transcriber: two models whatever the language.      *)
DaemonModels(c) ==
  LET model == ResolveForLanguage(c.model, c.language)
  IN  IF c.fan_out THEN <<model, EnglishVariant(model)>> ELSE <<model>>

(* run_record_command: a portal that was asked for must answer, before any  *)
(* model is looked at; connect_portal tries one in automatic mode only.     *)
StartSession(p) ==
  /\ At(p, "record")
  /\ conf' = [conf EXCEPT ![p] = Settings(p)]
  /\ queue' = [queue EXCEPT ![p] = SessionModels(Settings(p))]
  /\ \/ Goto(p, "pick")
     \/ Settings(p).backend = "portal" /\ Goto(p, "idle")
  /\ UNCHANGED <<files, job, change, fetch, tuning, opened, history, commands, faults>>

StartDaemon(p) ==
  /\ At(p, "daemon")
  /\ conf' = [conf EXCEPT ![p] = Settings(p)]
  /\ queue' = [queue EXCEPT ![p] = DaemonModels(Settings(p))]
  /\ Goto(p, "pick")
  /\ UNCHANGED <<files, job, change, fetch, tuning, opened, history, commands, faults>>

(* find_any_installed_model: the first of the catalog.                      *)
AnyInstalled ==
  LET first == SelectInSeq(Builtin, LAMBDA m : Installed(m.name))
  IN  IF first = 0 THEN None ELSE Builtin[first].name

(* The next model: at hand, or fetched.                                     *)
Pick(p) ==
  /\ At(p, "pick") /\ queue[p] # <<>> /\ Head(queue[p]) # None
  /\ Installed(Head(queue[p])) \/ ~job[p].no_download
  /\ Fetch(p, Head(queue[p]))
  /\ queue' = [queue EXCEPT ![p] = Tail(@)]
  /\ UNCHANGED <<files, job, change, conf, tuning, opened, history, commands, faults>>

(* load_single_model under --no-download: any model will do, or none.       *)
PickAnother(p) ==
  /\ At(p, "pick") /\ job[p].cmd = "record" /\ queue[p] # <<>>
  /\ ~Installed(Head(queue[p])) /\ job[p].no_download
  /\ IF AnyInstalled = None THEN Exit(p)
     ELSE /\ fetch' = [fetch EXCEPT ![p] = [NoFetch EXCEPT !.file = AnyInstalled]]
          /\ queue' = [queue EXCEPT ![p] = Tail(@)]
          /\ Goto(p, "open")
          /\ UNCHANGED <<job, change, conf, tuning, opened>>
  /\ UNCHANGED <<files, history, commands, faults>>

(* The daemon under --no-download: it says it uses another model and loads  *)
(* the path of the first one; of the English variant it asks nothing.       *)
PickRegardless(p) ==
  /\ At(p, "pick") /\ job[p].cmd = "daemon" /\ queue[p] # <<>> /\ Head(queue[p]) # None
  /\ ~Installed(Head(queue[p])) /\ job[p].no_download
  /\ IF opened[p] = <<>> /\ AnyInstalled = None THEN Exit(p)
     ELSE /\ opened' = [opened EXCEPT ![p] = Append(@, ResolveName(Head(queue[p])))]
          /\ queue' = [queue EXCEPT ![p] = Tail(@)]
          /\ UNCHANGED <<pc, job, change, conf, fetch, tuning>>
  /\ UNCHANGED <<files, history, commands, faults>>

(* Fan-out without an English variant is an error of the daemon.            *)
NoVariant(p) ==
  /\ At(p, "pick") /\ queue[p] # <<>> /\ Head(queue[p]) = None
  /\ Exit(p)
  /\ UNCHANGED <<files, history, commands, faults>>

(* WhisperTranscriber::new of a session: each model as it was picked.       *)
Open(p) ==
  /\ At(p, "open")
  /\ IF disk[fetch[p].file] # Whole THEN Exit(p)
     ELSE /\ opened' = [opened EXCEPT ![p] = Append(@, fetch[p].file)]
          /\ Goto(p, IF queue[p] = <<>> THEN "idle" ELSE "pick")
          /\ UNCHANGED <<job, change, conf, fetch, queue, tuning>>
  /\ UNCHANGED <<files, history, commands, faults>>

(* The daemon loads when all its models were looked for; loaded or not, its *)
(* start is over, and what follows is Daemon.tla's.                         *)
OpenAll(p) ==
  /\ At(p, "pick") /\ job[p].cmd = "daemon" /\ queue[p] = <<>>
  /\ Exit(p)
  /\ UNCHANGED <<files, history, commands, faults>>

-----------------------------------------------------------------------------
(* Ctrl-C, or worse, at any step. *)
Kill(p) ==
  /\ pc[p] # "idle" /\ faults < MaxFaults
  /\ faults' = faults + 1
  /\ Abandon(p) /\ Exit(p)
  /\ overlap' = (overlap \/ At(p, "write"))
  /\ UNCHANGED <<files, settled, tuned, commands>>

Change(p) == LoadConfig(p) \/ Rejected(p) \/ Truncate(p) \/ Write(p)
Download(p) ==
  \/ AlreadyThere(p) \/ CannotFetch(p) \/ Respond(p) \/ Create(p)
  \/ \E block \in {"good", "bad"} : Chunk(p, block)
  \/ ConnectionLost(p) \/ Verified(p) \/ Mismatch(p)
AutoTune(p) ==
  \/ InitBackend(p) \/ Tune(p) \/ BenchFails(p) \/ BenchProbe(p)
  \/ \E measured \in Measured : BenchModel(p, measured)
Load(p) ==
  \/ StartSession(p) \/ StartDaemon(p) \/ Pick(p) \/ PickAnother(p)
  \/ PickRegardless(p) \/ NoVariant(p) \/ Open(p) \/ OpenAll(p)

Next == \E p \in Procs :
          Command(p) \/ Change(p) \/ Download(p) \/ AutoTune(p) \/ Load(p) \/ Kill(p)

Spec == Init /\ [][Next]_vars

-----------------------------------------------------------------------------
(* Properties *)

Labels == {"idle", "load", "truncate", "write", "fetch", "create", "stream",
           "init", "tune", "bench", "record", "daemon", "pick", "open"}

(* The type invariant; a file is only ever in blocks that were asked for.   *)
TypeOK ==
  /\ cfg \in Seq(Config) /\ Len(cfg) <= 1
  /\ DOMAIN disk = Names
  /\ \A n \in Names : disk[n] = Absent \/ disk[n] \in [1..Blocks -> {"hole", "good", "bad"}]
  /\ pc \in [Procs -> Labels]
  /\ \A p \in Procs : conf[p] \in Config /\ fetch[p].next \in 0..(Blocks + 1)
  /\ settled \in Config /\ overlap \in BOOLEAN /\ spoilt \subseteq Names
  /\ commands \in 0..MaxCommands /\ faults \in 0..MaxFaults

(* config.rs:375 "without clobbering other user settings": what was set     *)
(* stays set, whatever ran since, though an init saves twice with minutes   *)
(* between; only two saves at the same instant, or a kill in the middle of  *)
(* one, can lose a setting.  No override of the environment or the command  *)
(* line ever gets into the file.                                            *)
SettingsKept ==
  ~overlap /\ (\A p \in Procs : ~At(p, "write")) => Effective = settled

(* A model file is whole and verified, or is being written, or was left by  *)
(* a download that was cut off or that ran into another of the same file.   *)
FilesWhole ==
  \A f \in Names : disk[f] # Absent /\ disk[f] # Whole /\ f \notin spoilt =>
    \E p \in Procs : Writing(p, f)

(* What auto-tuning saves: a model that knows the language and, by          *)
(* filter_candidates' own terms, leaves room in memory and on the disk of   *)
(* the machine, such that every better one that seemed fast enough was      *)
(* measured too slow or had no headroom; or the probe when nothing is left. *)
TunedWell ==
  \A t \in tuned :
    LET chosen == Info(t.stage)
        better == {m \in t.viable : AdjustedQuality(m, t.language) > AdjustedQuality(chosen, t.language)}
    IN  /\ t.language # English => ~chosen.en
        /\ t.stage \notin t.slow \/ t.stage = Probe(t.language)
        /\ \/ t.stage = Probe(t.language)
           \/ /\ \E m \in t.viable : m.name = t.stage
              /\ chosen.size * 12 < t.machine.ram * 10 /\ chosen.size + 100 < t.machine.disk
        /\ \A m \in better :
             m.name \in t.slow \/ ~EstimatedBelow(70, m, Probe(t.language), t.machine.rtf)

=============================================================================
