----------------------------- MODULE MCTextPath -----------------------------
(***************************************************************************)
(* Instances of TextPath for TLC: one word of each kind, and a corrector    *)
(* that takes a word for another word or for a command.  The long word is   *)
(* the one whose form with the probability is within the 40 %.              *)
(***************************************************************************)
EXTENDS TextPath

Spoken == {"hello", "tap", "understand", "um", "thanks", "period", "tab",
           "allcaps", "endcaps", "deleteword"}
MCWords == Spoken \cup {"tape", ".", "-", "understand[0.40]"}

MCNoted == [w \in MCWords |-> w \o "[0.40]"]

MCNear ==
  [w \in MCWords |->
     CASE w = "tap" -> {"tape", "tab"}
       [] w = "understand" -> {"understand[0.40]"}
       [] w \notin {"tap", "understand"} -> {}]
MCSuggest ==
  [w \in MCWords |-> IF w = "tap" THEN {"tape", "tab", "hello"} ELSE {w}]

English_ ==
  [w \in MCWords |->
     CASE w = "period" -> "insert"
       [] w = "tab" -> "blank"
       [] w = "allcaps" -> "caps_on"
       [] w = "endcaps" -> "caps_off"
       [] w = "deleteword" -> "keys"
       [] w \notin {"period", "tab", "allcaps", "endcaps", "deleteword"} -> "say"]
MCBuiltin == ("en" :> English_)
MCInserted == ("period" :> ".")
MCCustom == ("um" :> "-")

MCPhrases == ("en" :> {"hello"}) @@ ("he" :> {"thanks"})
MCFillers == ("en" :> {"um"})
MCOverrides == ("en" :> {})

Answer(w, l, c, d) == [word |-> w, language |-> l, confidence |-> c, doubt |-> d]
Plain(w) == <<Answer(w, "en", 2, "none")>>

(* Every word as it is meant, one of each kind the filters drop, and two    *)
(* models that disagree, or fail.                                           *)
MCUtterances ==
  {Plain(w) : w \in {"period", "tab", "allcaps", "endcaps", "deleteword"}}
    \cup { <<Answer("tap", "en", 1, "enough")>>, <<Answer("tap", "he", 1, "some")>>,
           <<Answer("um", "en", 1, "none")>>, Plain("um"), Plain("thanks"),
           <<Answer("understand", "", 1, "none"), Answer("allcaps", "en", 0, "none")>>,
           <<Error, Answer("hello", "en", 1, "some")>>,
           <<Answer("[music]", "en", 1, "none"), Answer("hello", "en", 1, "none")>>,
           <<Error, Answer("", "", 0, "none")>>, << >> }
MCLists == {{}, {"en"}, {"he"}}

(* For the prompts that get through. *)
Doubtful == {<<Answer("understand", "en", 1, "enough")>>}
=============================================================================
