------------------------------- MODULE Catalog -------------------------------
(***************************************************************************)
(* What the program knows of the speech models: the built-in catalog       *)
(* (src/models/catalog.rs), the models HuggingFace offers besides          *)
(* (src/models/remote.rs), and the arithmetic by which auto-tuning chooses *)
(* among them (src/init.rs).  Everything here is a pure operator.          *)
(*                                                                         *)
(* A model is a record: its name; its stem, the name without an ".en" at   *)
(* its end; its size in MB; its quality in ten-thousandths (tier times     *)
(* quantization); en, whether it knows English only; quantized.  Real-time *)
(* factors are in hundredths, so that thresholds compare as integers.      *)
(***************************************************************************)
EXTENDS Integers, Sequences, FiniteSets, SequencesExt

CONSTANTS
  Builtin,      \* MODELS: the catalog, in its order
  Remote,       \* what fetch_remote_models lists besides
  Alias         \* resolve_name: older names of models

Automatic == "auto"
English == "en"
None == "none"

Offered == ToSet(Builtin) \cup ToSet(Remote)
ModelName == {m.name : m \in Offered} \cup DOMAIN Alias

(* A name stands for one model, an older name for one of the catalog.  The  *)
(* models the code names are there.                                         *)
ASSUME CatalogAssumption ==
  /\ Builtin \in Seq(Offered) /\ Remote \in Seq(Offered)
  /\ \A m \in Offered : m.size \in Nat \ {0} /\ m.quality \in Nat /\ m.en \in BOOLEAN
  /\ \A i, j \in DOMAIN (Builtin \o Remote) :
       (Builtin \o Remote)[i].name = (Builtin \o Remote)[j].name => i = j
  /\ \A n \in DOMAIN Alias :
       /\ \A m \in Offered : m.name # n
       /\ \E m \in ToSet(Builtin) : m.name = Alias[n]
  /\ {"tiny.en", "tiny"} \subseteq {m.name : m \in ToSet(Builtin)}
  /\ \A m \in Offered : m.name = "tiny" => ~m.en

ResolveName(n) == IF n \in DOMAIN Alias THEN Alias[n] ELSE n

(* get_model *)
InCatalog(n) == \E m \in ToSet(Builtin) : m.name = ResolveName(n)

Info(n) == CHOOSE m \in Offered : m.name = ResolveName(n)

(* strip_suffix(".en"), and ends_with(".en"): small.en-tdrz has no suffix,  *)
(* though it knows English only.                                            *)
Stem(n) == IF n \in DOMAIN Alias THEN n ELSE Info(n).stem
HasSuffix(n) == Stem(n) # n

(* multilingual_variant and english_variant: None, or a name of the catalog *)
MultilingualVariant(n) ==
  IF InCatalog(Stem(n)) THEN ResolveName(Stem(n)) ELSE None

EnglishVariant(n) ==
  LET found == {m \in ToSet(Builtin) : m.stem = Stem(n) /\ m.stem # m.name}
  IN  IF found = {} THEN None ELSE (CHOOSE m \in found : TRUE).name

NeedsMultilingual(l) == l # English /\ l # ""

ResolveForLanguage(n, l) ==
  IF NeedsMultilingual(l) /\ HasSuffix(n) /\ MultilingualVariant(n) # None
  THEN MultilingualVariant(n)
  ELSE n

-----------------------------------------------------------------------------
(* Automatic-tuning *)

Probe(l) == IF l = English THEN "tiny.en" ELSE "tiny"

(* estimate_rtf(probe) < limit, without the division. *)
EstimatedBelow(limit, m, probe, rtf) == rtf * m.size < limit * Info(probe).size

(* The elements of S, x before y when <<x, y>> is in R: what a sort returns.*)
Nth(S, R, k) == CHOOSE x \in S : Cardinality({y \in S : <<y, x>> \in R}) = k - 1
InOrder(S, R) == [k \in 1..Cardinality(S) |-> Nth(S, R, k)]

(* filter and collect: those of the sequence that are in S. *)
Kept(s, S) ==
  LET places == {i \in DOMAIN s : s[i] \in S}
      order == InOrder(places, {p \in places \X places : p[1] < p[2]})
  IN  [k \in DOMAIN order |-> s[order[k]]]

(* fetch_remote_models: HuggingFace's list, or nothing without a network. *)
Listed(reached) == IF reached THEN Remote ELSE <<>>

(* collect_all_candidates: the catalog whole, whatever the flag says; what  *)
(* HuggingFace adds, without the quantized unless asked for.                *)
Candidates(reached, allowQuantized) ==
  Builtin \o Kept(Listed(reached),
                  {m \in Offered : (allowQuantized \/ ~m.quantized) /\ ~InCatalog(m.name)})

(* The memory the machine has is not asked for. *)
WrongFits(m, l, ram, disk, probe, rtf) ==
  /\ m.size + 100 < disk
  /\ EstimatedBelow(90, m, probe, rtf)
  /\ l # English => ~m.en

(* filter_candidates *)
Fits(m, l, ram, disk, probe, rtf) ==
  /\ m.size * 12 < ram * 10
  /\ m.size + 100 < disk
  /\ EstimatedBelow(90, m, probe, rtf)
  /\ l # English => ~m.en

AdjustedQuality(m, l) == m.quality * (IF l = English /\ m.en THEN 105 ELSE 100)

(* rank_by_quality: best first, and the catalog's order among equals. *)
Ranked(s, l) ==
  LET quality(i) == AdjustedQuality(s[i], l)
      before == {p \in (DOMAIN s) \X (DOMAIN s) :
                   \/ quality(p[1]) > quality(p[2])
                   \/ quality(p[1]) = quality(p[2]) /\ p[1] < p[2]}
      order == InOrder(DOMAIN s, before)
  IN  [k \in DOMAIN s |-> s[order[k]]]

Viable(reached, allowQuantized, l, ram, disk, rtf) ==
  Ranked(Kept(Candidates(reached, allowQuantized),
              {m \in Offered : Fits(m, l, ram, disk, Probe(l), rtf)}), l)

-----------------------------------------------------------------------------
(* Desktop environments: recommend_backend *)

Backends == {Automatic, "portal", "wtype", "ydotool"}

(* The first of the wanted tools that is there, else a default. *)
FirstOf(wanted, tools, default) ==
  LET there == Kept(wanted, tools)
  IN  IF there = <<>> THEN default ELSE Head(there)

RecommendBackend(desktop, tools) ==
  CASE desktop = "gnome"   -> FirstOf(<<"portal", "ydotool">>, tools, "portal")
    [] desktop = "kde"     -> FirstOf(<<"wtype", "portal", "ydotool">>, tools, "wtype")
    [] desktop = "wlroots" -> FirstOf(<<"wtype", "ydotool">>, tools, "wtype")
    [] desktop = "unknown" -> FirstOf(<<"wtype", "ydotool", "portal">>, tools, "wtype")
=============================================================================
