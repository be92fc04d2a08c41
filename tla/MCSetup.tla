------------------------------ MODULE MCSetup ------------------------------
(***************************************************************************)
(* Instances of Setup for TLC: a catalog of five models, two more that     *)
(* HuggingFace offers, and the jobs that meet in one run.                  *)
(***************************************************************************)
EXTENDS Setup

Model(name, stem, size, quality, en, quantized) ==
  [name |-> name, stem |-> stem, size |-> size, quality |-> quality,
   en |-> en, quantized |-> quantized]

MCBuiltin ==
  << Model("tiny.en", "tiny", 75, 2500, TRUE, FALSE),
     Model("tiny", "tiny", 75, 2500, FALSE, FALSE),
     Model("base.en", "base", 142, 4500, TRUE, FALSE),
     Model("base", "base", 142, 4500, FALSE, FALSE),
     Model("large-v3-turbo", "large-v3-turbo", 1624, 9500, FALSE, FALSE) >>
MCRemote ==
  << Model("small.en-tdrz", "small.en-tdrz", 465, 6500, TRUE, FALSE),
     Model("base-q5_0", "base-q5_0", 57, 4320, FALSE, TRUE) >>
MCAlias == ("large" :> "large-v3-turbo")

Symmetry == Permutations(Procs)

NoOverride == [k \in {} |-> Automatic]
PortalEnv == ("backend" :> "portal")

Config0(model, language) ==
  [model |-> model, language |-> language, backend |-> Automatic, fan_out |-> TRUE]
Set(key, value) == [cmd |-> "set", key |-> key, value |-> value]
Use(model) == [cmd |-> "use", model |-> model]
Install(model) == [cmd |-> "install", model |-> model]
On(desktop, tools, ram, disk_, rtf) ==
  [desktop |-> desktop, tools |-> tools, ram |-> ram, disk |-> disk_, rtf |-> rtf]
TuneFor(cmd, language, quantized, machine) ==
  [cmd |-> cmd, language |-> language, quantized |-> quantized, machine |-> machine]
Run(cmd, cli, no_download) == [cmd |-> cmd, cli |-> cli, no_download |-> no_download]

MCJobs ==
  { Set("backend", "xdotool"), Set("language", "fr"),
    Use("large"), Use("base.en"), Install("base"),
    TuneFor("init", "en", FALSE, On("gnome", {"ydotool"}, 4000, 500, 10)),
    TuneFor("init", "fr", FALSE, On("unknown", {}, 4000, 5000, 95)),
    TuneFor("tune", "fr", TRUE, On("wlroots", {"portal"}, 160, 5000, 40)),
    Run("record", NoOverride, FALSE), Run("record", "language" :> "en", TRUE), Run("record", NoOverride, TRUE),
    Run("daemon", NoOverride, FALSE), Run("daemon", NoOverride, TRUE) }

MCAtFirst ==
  { [cfg |-> <<>>, have |-> {}],
    [cfg |-> <<Config0("base.en", Automatic)>>, have |-> {"tiny", "tiny.en", "base.en"}],
    [cfg |-> <<Config0("base.en", Automatic)>>, have |-> {"base.en"}],
    [cfg |-> <<Config0("large", "fr")>>, have |-> {m.name : m \in ToSet(MCBuiltin)}] }
=============================================================================
