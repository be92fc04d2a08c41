------------------------------ MODULE MCDaemon ------------------------------
(***************************************************************************)
(* Instances of Daemon for TLC: who may send what.  Every two commands     *)
(* that meet at the mutex may come from two connections, two toggles and   *)
(* two changes of the language included; the model and the correction are  *)
(* changed by one connection.  One model is English-only, and one is its   *)
(* multilingual variant, which is loaded for it unless the language is "en"*)
(***************************************************************************)
EXTENDS Daemon
CONSTANTS c1, c2, c3

MayCommand ==
  [c \in Clients |->
     CASE c = c1 -> {"start", "status", "toggle", "set_language"}
       [] c = c2 -> {"stop", "cancel", "set_language"}
       [] c = c3 -> {"toggle", "set_model", "set_correction"}]

Model(name, stem) ==
  [name |-> name, stem |-> stem, size |-> 1, quality |-> 1, en |-> name # stem,
   quantized |-> FALSE]

SmallCatalog ==
  INSTANCE Catalog WITH
    Builtin <- <<Model("tiny.en", "tiny"), Model("tiny", "tiny")>>,
    Remote <- <<>>, Alias <- <<>>

MCResolve(m, l) == SmallCatalog!ResolveForLanguage(m, l)
MCEnglishVariant(m) == SmallCatalog!EnglishVariant(m)
=============================================================================
