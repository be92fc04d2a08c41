---------------------------- MODULE DaemonProofs ----------------------------
(***************************************************************************)
(* Theorems about Daemon, for any number of connections, whatever each of  *)
(* them may send, and any models and languages:                            *)
(*   TypeCorrect       the type invariant: the discipline of the mutex     *)
(*   MicrophoneSafe    one microphone, on exactly while its handle is kept *)
(*   CopiesAgree       the two copies of a setting agree                   *)
(***************************************************************************)
EXTENDS Daemon, TLAPS

USE DaemonAssumption

-----------------------------------------------------------------------------
(* The inductive invariants *)

Wants(c) == pc[c] \in Inside \cup {"waiting"}
In(q, c) == \E i \in DOMAIN q : q[i] = c
Unique(q) == \A i, j \in DOMAIN q : q[i] = q[j] => i = j

Transcribers == [language : Languages, models : SUBSET Models]
Job == [op : Commands \cup {"none"}, config : Settings]

(* TypeOK in two halves: the types, ... *)
Types ==
  /\ daemon \in {"off", "loading", "serving", "closing"}
  /\ line \in Seq(Clients)
  /\ recording \in BOOLEAN /\ mics \in Nat
  /\ config \in Settings /\ transcriber \in Transcribers /\ allowed \in SUBSET Languages
  /\ raced \subseteq {"language", "model"}
  /\ pc \in [Clients -> Labels]
  /\ job \in [Clients -> Job]

(* ... and the discipline of the mutex. *)
Discipline ==
  /\ Unique(line)
  /\ \A c \in Clients : Wants(c) <=> In(line, c)
  /\ \A c \in Clients : pc[c] \in Inside => Holds(c)

(* What a task inside the mutex has made of the recording so far: before a  *)
(* start nothing is on, during a stop the handle is out and the microphone  *)
(* still on, and when nobody is inside the handle tells.                    *)
Starting == {"starting", "building", "opening"}
Handles ==
  /\ \A c \in Clients : pc[c] \in Starting => ~recording /\ mics = 0
  /\ \A c \in Clients : At(c, "stopping") => ~recording /\ mics = 1
  /\ (\A c \in Clients : pc[c] \notin Inside) => mics = IF recording THEN 1 ELSE 0

(* A process that does not serve has no tasks and records nothing. *)
Quiet ==
  daemon \in {"off", "loading"} =>
    AllIdle /\ line = <<>> /\ ~recording /\ mics = 0

(* Between the two writes of a setting exactly one task is halfway, and it  *)
(* carries the value the other copy is to get.                              *)
LanguageHalfway ==
  daemon = "serving" /\ "language" \notin raced =>
    /\ \A c, d \in Clients : At(c, "sharing") /\ At(d, "sharing") => c = d
    /\ \A c \in Clients : At(c, "sharing") => job[c].config.allowed = config.allowed
    /\ (\A c \in Clients : ~At(c, "sharing")) => allowed = config.allowed

ModelHalfway ==
  daemon = "serving" /\ "model" \notin raced =>
    /\ \A c, d \in Clients : At(c, "configuring") /\ At(d, "configuring") => c = d
    /\ \A c \in Clients : At(c, "configuring") => LoadedFor(job[c].config.model, transcriber)
    /\ (\A c \in Clients : ~At(c, "configuring")) => LoadedFor(config.model, transcriber)

-----------------------------------------------------------------------------
(* The queue of a mutex *)

(* A task that is not in a line of tasks goes to its end: no task is in it  *)
(* twice, and the head stays.                                               *)
LEMMA Joining ==
  ASSUME NEW S, NEW q \in Seq(S), NEW c \in S, Unique(q), ~In(q, c)
  PROVE  /\ Append(q, c) \in Seq(S)
         /\ Unique(Append(q, c))
         /\ \A d \in S : In(Append(q, c), d) <=> In(q, d) \/ d = c
         /\ Append(q, c) # <<>>
         /\ q # <<>> => Head(Append(q, c)) = Head(q)
<1>1. \A i \in DOMAIN Append(q, c) :
        Append(q, c)[i] = IF i = Len(q) + 1 THEN c ELSE q[i]
  OBVIOUS
<1>2. DOMAIN Append(q, c) = DOMAIN q \cup {Len(q) + 1} /\ Len(q) \in Nat
      /\ DOMAIN q = 1 .. Len(q)
  OBVIOUS
<1>3. Unique(Append(q, c))
  BY <1>1, <1>2 DEF Unique, In
<1>4. \A d \in S : In(Append(q, c), d) <=> In(q, d) \/ d = c
  BY <1>1, <1>2 DEF In
<1>5. q # <<>> => Head(Append(q, c)) = Head(q)
  OBVIOUS
<1>6. Append(q, c) \in Seq(S) /\ Append(q, c) # <<>>
  OBVIOUS
<1>7. QED
  BY <1>3, <1>4, <1>5, <1>6

(* The head leaves the line: it is in it no more, everyone else still is.   *)
LEMMA Leaving ==
  ASSUME NEW S, NEW q \in Seq(S), Unique(q), q # <<>>
  PROVE  /\ Tail(q) \in Seq(S)
         /\ Unique(Tail(q))
         /\ \A d \in S : In(Tail(q), d) <=> In(q, d) /\ d # Head(q)
<1>1. /\ Tail(q) \in Seq(S) /\ Len(q) \in Nat \ {0}
      /\ DOMAIN q = 1 .. Len(q) /\ DOMAIN Tail(q) = 1 .. Len(q) - 1
      /\ Head(q) = q[1]
  OBVIOUS
<1>2. \A i \in DOMAIN Tail(q) : Tail(q)[i] = q[i + 1] /\ i + 1 \in DOMAIN q
  BY <1>1
<1>3. Unique(Tail(q))
  BY <1>1, <1>2 DEF Unique
<1>4. ASSUME NEW d \in S
      PROVE  In(Tail(q), d) <=> In(q, d) /\ d # Head(q)
  <2>1. ASSUME In(Tail(q), d) PROVE In(q, d) /\ d # Head(q)
    <3>1. PICK i \in DOMAIN Tail(q) : Tail(q)[i] = d
      BY <2>1 DEF In
    <3>2. q[i + 1] = d /\ i + 1 \in DOMAIN q /\ 1 \in DOMAIN q /\ i + 1 # 1
      BY <1>1, <1>2, <3>1
    <3>3. QED
      BY <1>1, <3>2 DEF In, Unique
  <2>2. ASSUME In(q, d), d # Head(q) PROVE In(Tail(q), d)
    <3>1. PICK i \in DOMAIN q : q[i] = d
      BY <2>2 DEF In
    <3>2. i # 1 /\ i - 1 \in DOMAIN Tail(q)
      BY <1>1, <2>2, <3>1
    <3>3. Tail(q)[i - 1] = d
      BY <1>1, <1>2, <3>1, <3>2
    <3>4. QED
      BY <3>2, <3>3 DEF In
  <2>3. QED
    BY <2>1, <2>2
<1>5. QED
  BY <1>1, <1>3, <1>4

-----------------------------------------------------------------------------
(* The type invariant *)

LEMMA HeldLine ==
  ASSUME line \in Seq(Clients), NEW c \in Clients, Holds(c)
  PROVE  line # <<>> /\ Tail(line) \in Seq(Clients)
  BY DEF Holds

LEMMA NoJobType == NoJob \in Job
<1>1. PICK m \in Models, t \in Correctors : TRUE
  OBVIOUS
<1>2. [model |-> m, language |-> Automatic, allowed |-> {}, correcting |-> FALSE, corrector |-> t] \in Settings
  BY DEF Settings
<1>3. (CHOOSE s \in Settings : TRUE) \in Settings
  BY <1>2
<1>4. QED
  BY <1>3 DEF NoJob, Job

(* create_transcriber loads models of the catalog, or fails. *)
LEMMA CreatedType ==
  ASSUME NEW s \in Settings, Loadable(s)
  PROVE  /\ Created(s) \in Transcribers
         /\ LoadedFor(s.model, Created(s))
<1>1. s.model \in Models /\ s.language \in Languages
  BY DEF Settings
<1>2. Resolve(s.model, s.language) \in Models
  BY <1>1
<1>3. EnglishOf(Resolve(s.model, s.language)) \in Models \cup {None}
  BY <1>2
<1>4. Recognisers(s.model, s.language) \in SUBSET Models
  BY <1>2, <1>3 DEF Loadable, Recognisers
<1>5. QED
  BY <1>1, <1>4 DEF Created, Transcribers, LoadedFor

LEMMA InitTypes == Init => Types
<1> SUFFICES ASSUME Init PROVE Types
  OBVIOUS
<1>1. config \in Settings /\ transcriber \in Transcribers /\ allowed \in SUBSET Languages
  BY DEF Init, FromFile, Settings, NoTranscriber, Transcribers
<1>2. pc \in [Clients -> Labels] /\ job \in [Clients -> Job]
  BY NoJobType DEF Init, Labels
<1>3. line \in Seq(Clients)
  BY DEF Init
<1>4. QED
  BY <1>1, <1>2, <1>3 DEF Init, Types

(* An answer, and a step to a place, keep the types. *)
LEMMA AnswerTypes ==
  ASSUME Types, NEW c \in Clients, Answer(c)
  PROVE  pc' \in [Clients -> Labels] /\ job' \in [Clients -> Job]
  BY NoJobType DEF Types, Answer, Goto, Labels

LEMMA RequestTypes ==
  ASSUME Types, NEW c \in Clients, Request(c)
  PROVE  Types'
<1> USE DEF Types, Goto, Labels, shared, settings
<1>1. CASE \E op \in Queued : Ask(c, op)
  BY <1>1 DEF Ask, Wait, Job, Commands
<1>2. CASE \E l \in Languages : SetLanguage(c, l)
  <2>1. PICK l \in Languages : SetLanguage(c, l)
    BY <1>2
  <2>2. AllowList(l) \in SUBSET Languages
    BY DEF AllowList
  <2>3. config' \in Settings /\ job' \in [Clients -> Job]
    BY <2>1, <2>2 DEF SetLanguage, Settings, Job
  <2>4. raced' \subseteq {"language", "model"}
    BY <2>1 DEF SetLanguage, Changing
  <2>5. QED
    BY <2>1, <2>3, <2>4 DEF SetLanguage
<1>3. CASE \E on \in BOOLEAN : SetErrorCorrection(c, on)
  BY <1>3 DEF SetErrorCorrection, correctionRest, Settings
<1>4. CASE \E m \in Correctors : SetCorrectionModel(c, m)
  BY <1>4 DEF SetCorrectionModel, correctionRest, Settings
<1>5. CASE \E m \in Models : SetModel(c, m)
  <2>1. PICK m \in Models : SetModel(c, m)
    BY <1>5
  <2>2. job' \in [Clients -> Job]
    BY <2>1 DEF SetModel, Job, Settings
  <2>3. QED
    BY <2>1, <2>2 DEF SetModel
<1>6. QED
  BY <1>1, <1>2, <1>3, <1>4, <1>5 DEF Request

LEMMA HandleTypes ==
  ASSUME Types, Discipline, Handles, NEW c \in Clients, Handle(c)
  PROVE  Types'
<1> USE DEF Types, Goto, Labels, shared, settings
<1>1. CASE Status(c) \/ Refuse(c) \/ StartFails(c) \/ ModelFails(c)
  BY <1>1, AnswerTypes, HeldLine DEF Status, Refuse, StartFails, ModelFails, Turn, Release,
     Discipline, Inside
<1>2. CASE Peek(c)
  BY <1>2, HeldLine DEF Peek, Turn, Release, Job, Commands, Queued
<1>3. CASE AskAgain(c)
  BY <1>3 DEF AskAgain, Wait
<1>4. CASE CopyConfig(c)
  BY <1>4 DEF CopyConfig, Job, Settings
<1>5. CASE TakeTranscriber(c) \/ BuildCorrection(c)
  BY <1>5 DEF TakeTranscriber, BuildCorrection
<1>6. CASE StartPipeline(c)
  BY <1>6, AnswerTypes, HeldLine DEF StartPipeline, Release, Discipline, Inside, At
<1>7. CASE TakeHandle(c)
  BY <1>7 DEF TakeHandle
<1>8. CASE Stopped(c)
  BY <1>8, AnswerTypes, HeldLine DEF Stopped, Release, Discipline, Inside, At, Handles
<1>9. CASE ShareLanguage(c)
  BY <1>9, AnswerTypes DEF ShareLanguage, Job, Settings
<1>10. CASE Fetched(c)
  <2>1. job[c] \in Job /\ config \in Settings
    OBVIOUS
  <2>2. /\ [job[c].config EXCEPT !.language = config.language, !.allowed = config.allowed]
             \in Settings
        /\ job[c].op \in Commands \cup {"none"}
    BY <2>1 DEF Job, Settings
  <2>3. job' = [job EXCEPT ![c] =
                  [job[c] EXCEPT !.config =
                     [job[c].config EXCEPT !.language = config.language,
                                           !.allowed = config.allowed]]]
    BY <1>10, <2>1 DEF Fetched, Job, Settings
  <2>4. job' \in [Clients -> Job]
    BY <2>1, <2>2, <2>3 DEF Job
  <2>5. QED
    BY <1>10, <2>4 DEF Fetched
<1>11. CASE Swap(c)
  <2>1. raced' \subseteq {"language", "model"}
    BY <1>11 DEF Swap, Changing
  <2>2. transcriber' \in Transcribers
    BY <1>11, CreatedType DEF Swap, Job
  <2>3. QED
    BY <1>11, <2>1, <2>2 DEF Swap
<1>12. CASE ConfigureModel(c)
  BY <1>12, AnswerTypes DEF ConfigureModel, Job, Settings
<1>13. QED
  BY <1>1, <1>2, <1>3, <1>4, <1>5, <1>6, <1>7, <1>8, <1>9, <1>10, <1>11, <1>12 DEF Handle

LEMMA ProcessTypes ==
  ASSUME Types, Load \/ Serve \/ LoadFails \/ Signal \/ Exit
  PROVE  Types'
<1> USE DEF Types, Labels, shared, settings
<1>1. CASE Load
  BY <1>1 DEF Load, FromFile
<1>2. CASE Serve
  <2>1. transcriber' \in Transcribers /\ allowed' \in SUBSET Languages
    BY <1>2, CreatedType DEF Serve, Settings
  <2>2. QED
    BY <1>2, <2>1 DEF Serve
<1>3. CASE LoadFails \/ Signal
  BY <1>3 DEF LoadFails, Signal
<1>4. CASE Exit
  <2>1. pc' \in [Clients -> Labels] /\ job' \in [Clients -> Job]
    BY <1>4, NoJobType DEF Exit
  <2>2. line' \in Seq(Clients)
    BY <1>4 DEF Exit
  <2>3. transcriber' \in Transcribers /\ allowed' \in SUBSET Languages
    BY <1>4 DEF Exit, NoTranscriber, Transcribers
  <2>4. QED
    BY <1>4, <2>1, <2>2, <2>3 DEF Exit
<1>5. QED
  BY <1>1, <1>2, <1>3, <1>4

-----------------------------------------------------------------------------
(* The discipline of the mutex *)

(* A task that goes from place to place with the line as it is. *)
LEMMA Moving ==
  ASSUME Types, Discipline, NEW c \in Clients, NEW l \in Labels, Goto(c, l),
         line' = line,
         Wants(c) <=> l \in Inside \cup {"waiting"},
         l \in Inside => Holds(c)
  PROVE  Discipline'
<1>1. \A d \in Clients : pc'[d] = IF d = c THEN l ELSE pc[d]
  BY DEF Goto, Types
<1>2. \A d \in Clients : Wants(d)' <=> Wants(d)
  BY <1>1 DEF Wants
<1>3. \A d \in Clients : Holds(d)' <=> Holds(d)
  BY DEF Holds
<1>4. \A d \in Clients : In(line', d) <=> In(line, d)
  OBVIOUS
<1>5. QED
  BY <1>1, <1>2, <1>3, <1>4 DEF Discipline

(* A task that queues up: who is inside still holds the mutex. *)
LEMMA Queuing ==
  ASSUME Types, Discipline, NEW c \in Clients, ~Wants(c), Goto(c, "waiting"), Wait(c)
  PROVE  Discipline'
<1>1. \A d \in Clients : pc'[d] = IF d = c THEN "waiting" ELSE pc[d]
  BY DEF Goto, Types
<1>2. \A d \in Clients : Wants(d)' <=> Wants(d) \/ d = c
  BY <1>1 DEF Wants
<1>3. /\ Unique(line') /\ line' # <<>>
      /\ \A d \in Clients : In(line', d) <=> In(line, d) \/ d = c
      /\ line # <<>> => Head(line') = Head(line)
  BY Joining DEF Wait, Types, Discipline
<1>4. \A d \in Clients : Holds(d) => Holds(d)'
  BY <1>3 DEF Holds
<1>5. \A d \in Clients : pc'[d] \in Inside => pc[d] \in Inside
  BY <1>1 DEF Inside
<1>6. QED
  BY <1>2, <1>3, <1>4, <1>5 DEF Discipline

(* The holder gives the mutex back: nobody is inside then. *)
LEMMA Releasing ==
  ASSUME Types, Discipline, NEW c \in Clients, Holds(c), Release,
         NEW l \in Labels \ (Inside \cup {"waiting"}), Goto(c, l)
  PROVE  /\ Discipline'
         /\ \A d \in Clients : pc'[d] \notin Inside
<1>1. \A d \in Clients : pc'[d] = IF d = c THEN l ELSE pc[d]
  BY DEF Goto, Types
<1>2. \A d \in Clients : Wants(d)' <=> Wants(d) /\ d # c
  BY <1>1 DEF Wants
<1>3. /\ Unique(line')
      /\ \A d \in Clients : In(line', d) <=> In(line, d) /\ d # c
  BY Leaving DEF Release, Types, Discipline, Holds
<1>4. \A d \in Clients : pc'[d] \notin Inside
  BY <1>1 DEF Discipline, Holds
<1>5. QED
  BY <1>2, <1>3, <1>4 DEF Discipline

LEMMA RequestDiscipline ==
  ASSUME Types, Discipline, NEW c \in Clients, Request(c)
  PROVE  Discipline'
<1>1. CASE \E op \in Queued : Ask(c, op)
  <2>1. ~Wants(c)
    BY <1>1 DEF Ask, Accepted, At, Wants, Inside
  <2>2. QED
    BY <1>1, <2>1, Queuing DEF Ask
<1>2. CASE \E l \in Languages : SetLanguage(c, l)
  BY <1>2, Moving DEF SetLanguage, Accepted, At, Wants, Inside, Labels
<1>3. CASE \/ \E on \in BOOLEAN : SetErrorCorrection(c, on)
           \/ \E m \in Correctors : SetCorrectionModel(c, m)
  <2>1. UNCHANGED <<line, pc>>
    BY <1>3 DEF SetErrorCorrection, SetCorrectionModel, correctionRest
  <2>2. QED
    BY <2>1 DEF Discipline, Wants, Holds, In, Unique
<1>4. CASE \E m \in Models : SetModel(c, m)
  BY <1>4, Moving DEF SetModel, Accepted, At, Wants, Inside, Labels
<1>5. QED
  BY <1>1, <1>2, <1>3, <1>4 DEF Request

LEMMA HandleDiscipline ==
  ASSUME Types, Discipline, NEW c \in Clients, Handle(c)
  PROVE  Discipline'
<1>1. CASE Status(c) \/ Refuse(c) \/ StartFails(c) \/ StartPipeline(c) \/ Stopped(c)
  <2>1. Holds(c) /\ Release /\ Goto(c, "idle")
    BY <1>1 DEF Status, Refuse, StartFails, StartPipeline, Stopped, Turn, Answer, At,
       Discipline, Inside
  <2>2. QED
    BY <2>1, Releasing DEF Labels, Inside
<1>2. CASE Peek(c)
  BY <1>2, Releasing DEF Peek, Turn, Labels, Inside
<1>3. CASE AskAgain(c)
  BY <1>3, Queuing DEF AskAgain, At, Wants, Inside
<1>4. CASE CopyConfig(c) \/ TakeHandle(c)
  <2>1. Holds(c) /\ line' = line /\ Wants(c)
    BY <1>4 DEF CopyConfig, TakeHandle, Turn, At, Wants
  <2>2. QED
    BY <1>4, <2>1, Moving DEF CopyConfig, TakeHandle, Labels, Inside
<1>5. CASE TakeTranscriber(c)
  <2>1. Holds(c) /\ line' = line /\ Wants(c)
    BY <1>5 DEF TakeTranscriber, At, Wants, Discipline, Inside
  <2>2. \E l \in {"building", "opening"} : Goto(c, l)
    BY <1>5 DEF TakeTranscriber
  <2>3. QED
    BY <2>1, <2>2, Moving DEF Labels, Inside
<1>6. CASE BuildCorrection(c)
  <2>1. Holds(c) /\ line' = line /\ Wants(c)
    BY <1>6 DEF BuildCorrection, At, Wants, Discipline, Inside
  <2>2. QED
    BY <1>6, <2>1, Moving DEF BuildCorrection, Labels, Inside
<1>7. CASE ShareLanguage(c) \/ ModelFails(c) \/ ConfigureModel(c)
  <2>1. line' = line /\ ~Wants(c) /\ Goto(c, "idle")
    BY <1>7 DEF ShareLanguage, ModelFails, ConfigureModel, At, Wants, Inside, Answer
  <2>2. QED
    BY <2>1, Moving DEF Labels, Inside
<1>8. CASE Fetched(c) \/ Swap(c)
  <2>1. line' = line /\ ~Wants(c) /\ \E l \in {"loading", "configuring"} : Goto(c, l)
    BY <1>8 DEF Fetched, Swap, At, Wants, Inside
  <2>2. QED
    BY <2>1, Moving DEF Labels, Inside
<1>9. QED
  BY <1>1, <1>2, <1>3, <1>4, <1>5, <1>6, <1>7, <1>8 DEF Handle

LEMMA ProcessDiscipline ==
  ASSUME Types, Discipline, Load \/ Serve \/ LoadFails \/ Signal \/ Exit
  PROVE  Discipline'
<1>1. CASE Load \/ Serve \/ LoadFails \/ Signal
  <2>1. UNCHANGED <<line, pc>>
    BY <1>1 DEF Load, Serve, LoadFails, Signal
  <2>2. QED
    BY <2>1 DEF Discipline, Wants, Holds, In, Unique
<1>2. CASE Exit
  BY <1>2 DEF Exit, Discipline, Wants, Inside, In, Unique
<1>3. QED
  BY <1>1, <1>2

-----------------------------------------------------------------------------
(* The microphone *)

(* With a task at the head that is not inside, nobody is inside. *)
LEMMA NobodyInside ==
  ASSUME Discipline, NEW c \in Clients, Holds(c), pc[c] \notin Inside
  PROVE  \A d \in Clients : pc[d] \notin Inside
  BY DEF Discipline, Holds

(* A step outside the mutex, or from one place inside to another before the *)
(* microphone is on.                                                        *)
LEMMA Elsewhere ==
  ASSUME Types, Handles, NEW c \in Clients, NEW l \in Labels, Goto(c, l),
         UNCHANGED <<recording, mics>>,
         \/ pc[c] \notin Inside /\ l \notin Inside
         \/ pc[c] \in Starting /\ l \in Starting
  PROVE  Handles'
<1>1. \A d \in Clients : pc'[d] = IF d = c THEN l ELSE pc[d]
  BY DEF Goto, Types
<1>2. \A d \in Clients : pc'[d] \in Starting <=> pc[d] \in Starting
  BY <1>1 DEF Inside, Starting
<1>3. \A d \in Clients : pc'[d] \in Inside <=> pc[d] \in Inside
  BY <1>1 DEF Inside, Starting
<1>4. \A d \in Clients : At(d, "stopping")' <=> At(d, "stopping")
  BY <1>1 DEF Inside, Starting, At
<1>5. QED
  BY <1>2, <1>3, <1>4 DEF Handles

LEMMA RequestHandles ==
  ASSUME Types, Handles, NEW c \in Clients, Request(c)
  PROVE  Handles'
<1>1. CASE \E op \in Queued : Ask(c, op)
  BY <1>1, Elsewhere DEF Ask, Accepted, At, Inside, Labels, shared
<1>2. CASE \E l \in Languages : SetLanguage(c, l)
  BY <1>2, Elsewhere DEF SetLanguage, Accepted, At, Inside, Labels
<1>3. CASE \/ \E on \in BOOLEAN : SetErrorCorrection(c, on)
           \/ \E m \in Correctors : SetCorrectionModel(c, m)
  <2>1. UNCHANGED <<recording, mics, pc>>
    BY <1>3 DEF SetErrorCorrection, SetCorrectionModel, correctionRest
  <2>2. QED
    BY <2>1 DEF Handles, At
<1>4. CASE \E m \in Models : SetModel(c, m)
  BY <1>4, Elsewhere DEF SetModel, Accepted, At, Inside, Labels, shared
<1>5. QED
  BY <1>1, <1>2, <1>3, <1>4 DEF Request

LEMMA HandleHandles ==
  ASSUME Types, Discipline, Handles, NEW c \in Clients, Handle(c)
  PROVE  Handles'
<1>1. CASE Status(c) \/ Peek(c) \/ Refuse(c) \/ StartFails(c)
  <2>1. Holds(c) /\ Release /\ UNCHANGED <<recording, mics>>
    BY <1>1 DEF Status, Peek, Refuse, StartFails, Turn, Discipline, Inside, shared
  <2>2. \E l \in {"idle", "decided"} : Goto(c, l)
    BY <1>1 DEF Status, Peek, Refuse, StartFails, Answer
  <2>3. \A d \in Clients : pc'[d] \notin Inside
    BY <2>1, <2>2, Releasing DEF Labels, Inside
  <2>4. mics = IF recording THEN 1 ELSE 0
    <3>1. CASE pc[c] \in Inside
      BY <1>1, <3>1 DEF Status, Peek, Refuse, StartFails, Turn, At, Inside, Handles, Starting
    <3>2. CASE pc[c] \notin Inside
      BY <2>1, <3>2, NobodyInside DEF Handles
    <3>3. QED
      BY <3>1, <3>2
  <2>5. QED
    BY <2>1, <2>3, <2>4 DEF Handles, Inside, Starting, At
<1>2. CASE AskAgain(c) \/ ShareLanguage(c) \/ Fetched(c) \/ ModelFails(c) \/ Swap(c)
           \/ ConfigureModel(c)
  <2>1. pc[c] \notin Inside /\ UNCHANGED <<recording, mics>>
    BY <1>2 DEF AskAgain, ShareLanguage, Fetched, ModelFails, Swap, ConfigureModel, At,
       Inside, shared
  <2>2. \E l \in {"idle", "waiting", "loading", "configuring"} : Goto(c, l)
    BY <1>2 DEF AskAgain, ShareLanguage, Fetched, ModelFails, Swap, ConfigureModel, Answer
  <2>3. QED
    BY <2>1, <2>2, Elsewhere DEF Inside, Labels
<1>3. CASE TakeTranscriber(c) \/ BuildCorrection(c)
  <2>1. pc[c] \in Starting /\ UNCHANGED <<recording, mics>>
    BY <1>3 DEF TakeTranscriber, BuildCorrection, At, Starting, shared
  <2>2. \E l \in Starting : Goto(c, l)
    BY <1>3 DEF TakeTranscriber, BuildCorrection, Starting
  <2>3. QED
    BY <2>1, <2>2, Elsewhere DEF Starting, Labels
<1>4. CASE CopyConfig(c) \/ TakeHandle(c)
  <2>1. \A d \in Clients : pc[d] \notin Inside
    BY <1>4, NobodyInside DEF CopyConfig, TakeHandle, Turn, At, Inside
  <2>2. mics = IF recording THEN 1 ELSE 0
    BY <2>1 DEF Handles
  <2>3. CASE CopyConfig(c)
    <3>1. \A d \in Clients : pc'[d] = IF d = c THEN "starting" ELSE pc[d]
      BY <2>3 DEF CopyConfig, Goto, Types
    <3>2. ~recording' /\ mics' = 0
      BY <2>2, <2>3 DEF CopyConfig, shared
    <3>3. QED
      BY <2>1, <3>1, <3>2 DEF Handles, Inside, Starting, At
  <2>4. CASE TakeHandle(c)
    <3>1. \A d \in Clients : pc'[d] = IF d = c THEN "stopping" ELSE pc[d]
      BY <2>4 DEF TakeHandle, Goto, Types
    <3>2. ~recording' /\ mics' = 1
      BY <2>2, <2>4 DEF TakeHandle, settings
    <3>3. QED
      BY <2>1, <3>1, <3>2 DEF Handles, Inside, Starting, At
  <2>5. QED
    BY <1>4, <2>3, <2>4
<1>5. CASE StartPipeline(c) \/ Stopped(c)
  <2>1. Holds(c) /\ Release /\ Goto(c, "idle")
    BY <1>5 DEF StartPipeline, Stopped, Answer, At, Discipline, Inside
  <2>2. \A d \in Clients : pc'[d] \notin Inside
    BY <2>1, Releasing DEF Labels, Inside
  <2>3. mics' = IF recording' THEN 1 ELSE 0
    BY <1>5 DEF StartPipeline, Stopped, Handles, Starting, At
  <2>4. QED
    BY <2>2, <2>3 DEF Handles, Inside, Starting, At
<1>6. QED
  BY <1>1, <1>2, <1>3, <1>4, <1>5 DEF Handle

LEMMA ProcessHandles ==
  ASSUME Types, Handles, Load \/ Serve \/ LoadFails \/ Signal \/ Exit
  PROVE  Handles'
<1>1. CASE Load \/ Serve \/ LoadFails \/ Signal
  <2>1. UNCHANGED <<recording, mics, pc>>
    BY <1>1 DEF Load, Serve, LoadFails, Signal
  <2>2. QED
    BY <2>1 DEF Handles, At
<1>2. CASE Exit
  BY <1>2 DEF Exit, Handles, Starting, Inside, At
<1>3. QED
  BY <1>1, <1>2

(* A task that is not idle is there only while the process serves or closes. *)
LEMMA QuietStep ==
  ASSUME Types, Quiet, Next
  PROVE  Quiet'
<1>1. CASE Load \/ Serve \/ LoadFails \/ Signal
  BY <1>1 DEF Load, Serve, LoadFails, Signal, Quiet, AllIdle, At
<1>2. CASE Exit
  BY <1>2 DEF Exit, Quiet, AllIdle, At
<1>3. ASSUME NEW c \in Clients, Request(c) PROVE Quiet'
  BY <1>3 DEF Request, Ask, SetLanguage, SetErrorCorrection, SetCorrectionModel, SetModel,
     Accepted, correctionRest, shared, Quiet
<1>4. ASSUME NEW c \in Clients, Handle(c) PROVE Quiet'
  <2>1. ~At(c, "idle")
    BY <1>4 DEF Handle, Status, Peek, AskAgain, Refuse, CopyConfig, TakeTranscriber,
       BuildCorrection, StartPipeline, StartFails, TakeHandle, Stopped, ShareLanguage,
       Fetched, ModelFails, Swap, ConfigureModel, Turn, At
  <2>2. daemon' = daemon
    BY <1>4 DEF Handle, Status, Peek, AskAgain, Refuse, CopyConfig, TakeTranscriber,
       BuildCorrection, StartPipeline, StartFails, TakeHandle, Stopped, ShareLanguage,
       Fetched, ModelFails, Swap, ConfigureModel, shared
  <2>3. QED
    BY <2>1, <2>2 DEF Quiet, AllIdle
<1>5. QED
  BY <1>1, <1>2, <1>3, <1>4 DEF Next

-----------------------------------------------------------------------------
(* The two copies of a setting *)

(* A connection's step touches no other connection's place and locals. *)
LEMMA OneTask ==
  ASSUME Types, NEW c \in Clients, Request(c) \/ Handle(c)
  PROVE  /\ \A d \in Clients \ {c} : pc'[d] = pc[d] /\ job'[d] = job[d]
         /\ daemon' = daemon
<1> USE DEF Types, Goto, Answer, shared, settings
<1>1. CASE Request(c)
  BY <1>1 DEF Request, Ask, SetLanguage, SetErrorCorrection, SetCorrectionModel, SetModel,
     correctionRest
<1>2. CASE Status(c) \/ Peek(c) \/ AskAgain(c) \/ Refuse(c) \/ CopyConfig(c)
           \/ TakeTranscriber(c) \/ BuildCorrection(c)
  BY <1>2 DEF Status, Peek, AskAgain, Refuse, CopyConfig, TakeTranscriber, BuildCorrection
<1>3. CASE StartPipeline(c) \/ StartFails(c) \/ TakeHandle(c) \/ Stopped(c)
  BY <1>3 DEF StartPipeline, StartFails, TakeHandle, Stopped
<1>4. CASE ShareLanguage(c) \/ Fetched(c) \/ ModelFails(c) \/ Swap(c) \/ ConfigureModel(c)
  BY <1>4 DEF ShareLanguage, Fetched, ModelFails, Swap, ConfigureModel
<1>5. QED
  BY <1>1, <1>2, <1>3, <1>4 DEF Handle

(* The steps of the other commands: neither copy of the setting changes,    *)
(* and the task is not between the two.                                     *)
LEMMA LanguageKept ==
  ASSUME Types, LanguageHalfway, NEW c \in Clients,
         \A d \in Clients \ {c} : pc'[d] = pc[d] /\ job'[d] = job[d],
         ~At(c, "sharing"), ~At(c, "sharing")',
         UNCHANGED <<daemon, allowed>>, config'.allowed = config.allowed,
         "language" \in raced' <=> "language" \in raced
  PROVE  LanguageHalfway'
<1>1. \A d \in Clients : At(d, "sharing")' <=> At(d, "sharing")
  BY DEF At
<1>2. \A d \in Clients : At(d, "sharing") => job'[d] = job[d]
  OBVIOUS
<1>3. QED
  BY <1>1, <1>2 DEF LanguageHalfway

LEMMA ModelKept ==
  ASSUME Types, ModelHalfway, NEW c \in Clients,
         \A d \in Clients \ {c} : pc'[d] = pc[d] /\ job'[d] = job[d],
         ~At(c, "configuring"), ~At(c, "configuring")',
         UNCHANGED <<daemon, transcriber>>, config'.model = config.model,
         "model" \in raced' <=> "model" \in raced
  PROVE  ModelHalfway'
<1>1. \A d \in Clients : At(d, "configuring")' <=> At(d, "configuring")
  BY DEF At
<1>2. \A d \in Clients : At(d, "configuring") => job'[d] = job[d]
  OBVIOUS
<1>3. QED
  BY <1>1, <1>2 DEF ModelHalfway

LEMMA RequestAgrees ==
  ASSUME Types, LanguageHalfway, ModelHalfway, NEW c \in Clients, Request(c)
  PROVE  LanguageHalfway' /\ ModelHalfway'
<1> USE DEF Types, Goto, Answer, shared, settings
<1>1. CASE \E op \in Queued : Ask(c, op)
  <2>1. /\ ~At(c, "sharing") /\ ~At(c, "sharing")'
        /\ ~At(c, "configuring") /\ ~At(c, "configuring")'
        /\ UNCHANGED shared
    BY <1>1 DEF Ask, Accepted, At
  <2>2. QED
    BY <2>1, OneTask, LanguageKept, ModelKept
<1>2. ASSUME NEW l \in Languages, SetLanguage(c, l) PROVE LanguageHalfway' /\ ModelHalfway'
  <2>1. ModelHalfway'
    <3>1. ~At(c, "configuring") /\ ~At(c, "configuring")'
      BY <1>2 DEF SetLanguage, Accepted, At
    <3>2. UNCHANGED transcriber /\ config'.model = config.model
      BY <1>2 DEF SetLanguage, Settings
    <3>3. "model" \in raced' <=> "model" \in raced
      BY <1>2 DEF SetLanguage, Changing
    <3>4. QED
      BY <3>1, <3>2, <3>3, OneTask, ModelKept
  <2>2. CASE \E d \in Clients : At(d, "sharing")
    BY <1>2, <2>1, <2>2 DEF SetLanguage, Changing, LanguageHalfway
  <2>3. CASE \A d \in Clients : ~At(d, "sharing")
    <3>1. \A d \in Clients : At(d, "sharing")' <=> d = c
      BY <1>2, <2>3 DEF SetLanguage, At
    <3>2. job'[c].config.allowed = AllowList(l) /\ config'.allowed = AllowList(l)
      BY <1>2 DEF SetLanguage, Settings, Job
    <3>3. QED
      BY <2>1, <3>1, <3>2 DEF LanguageHalfway
  <2>4. QED
    BY <2>2, <2>3
<1>3. CASE \/ \E on \in BOOLEAN : SetErrorCorrection(c, on)
           \/ \E m \in Correctors : SetCorrectionModel(c, m)
  <2>1. UNCHANGED correctionRest /\ config'.allowed = config.allowed
        /\ config'.model = config.model
    BY <1>3 DEF SetErrorCorrection, SetCorrectionModel, Settings
  <2>2. QED
    BY <2>1 DEF correctionRest, LanguageHalfway, ModelHalfway, At
<1>4. CASE \E m \in Models : SetModel(c, m)
  <2>1. /\ ~At(c, "sharing") /\ ~At(c, "sharing")'
        /\ ~At(c, "configuring") /\ ~At(c, "configuring")'
        /\ UNCHANGED shared
    BY <1>4 DEF SetModel, Accepted, At
  <2>2. QED
    BY <2>1, OneTask, LanguageKept, ModelKept
<1>5. QED
  BY <1>1, <1>2, <1>3, <1>4 DEF Request

LEMMA HandleAgrees ==
  ASSUME Types, LanguageHalfway, ModelHalfway, NEW c \in Clients, Handle(c)
  PROVE  LanguageHalfway' /\ ModelHalfway'
<1> USE DEF Types, Goto, Answer, shared, settings
<1>1. CASE Status(c) \/ Peek(c) \/ AskAgain(c) \/ Refuse(c) \/ CopyConfig(c)
           \/ TakeTranscriber(c) \/ BuildCorrection(c) \/ StartPipeline(c) \/ StartFails(c)
           \/ TakeHandle(c) \/ Stopped(c) \/ Fetched(c) \/ ModelFails(c)
  <2>1. /\ ~At(c, "sharing") /\ ~At(c, "sharing")'
        /\ ~At(c, "configuring") /\ ~At(c, "configuring")'
    BY <1>1 DEF Status, Peek, AskAgain, Refuse, CopyConfig, TakeTranscriber, BuildCorrection,
       StartPipeline, StartFails, TakeHandle, Stopped, Fetched, ModelFails, Turn, At
  <2>2. UNCHANGED settings
    BY <1>1 DEF Status, Peek, AskAgain, Refuse, CopyConfig, TakeTranscriber, BuildCorrection,
       StartPipeline, StartFails, TakeHandle, Stopped, Fetched, ModelFails
  <2>3. QED
    BY <2>1, <2>2, OneTask, LanguageKept, ModelKept
<1>2. CASE ShareLanguage(c)
  <2>1. ModelHalfway'
    <3>1. ~At(c, "configuring") /\ ~At(c, "configuring")'
      BY <1>2 DEF ShareLanguage, At
    <3>2. QED
      BY <1>2, <3>1, OneTask, ModelKept DEF ShareLanguage
  <2>2. LanguageHalfway'
    <3>1. \A d \in Clients : At(d, "sharing")' <=> At(d, "sharing") /\ d # c
      BY <1>2 DEF ShareLanguage, At
    <3>2. QED
      BY <1>2, <3>1 DEF ShareLanguage, LanguageHalfway
  <2>3. QED
    BY <2>1, <2>2
<1>3. CASE Swap(c)
  <2>1. LanguageHalfway'
    <3>1. ~At(c, "sharing") /\ ~At(c, "sharing")'
      BY <1>3 DEF Swap, At
    <3>2. "language" \in raced' <=> "language" \in raced
      BY <1>3 DEF Swap, Changing
    <3>3. QED
      BY <1>3, <3>1, <3>2, OneTask, LanguageKept DEF Swap
  <2>2. CASE \E d \in Clients : At(d, "configuring")
    BY <1>3, <2>1, <2>2 DEF Swap, Changing, ModelHalfway
  <2>3. CASE \A d \in Clients : ~At(d, "configuring")
    <3>1. \A d \in Clients : At(d, "configuring")' <=> d = c
      BY <1>3, <2>3 DEF Swap, At
    <3>2. LoadedFor(job'[c].config.model, transcriber')
      BY <1>3, CreatedType DEF Swap, Job
    <3>3. QED
      BY <2>1, <3>1, <3>2 DEF ModelHalfway
  <2>4. QED
    BY <2>2, <2>3
<1>4. CASE ConfigureModel(c)
  <2>1. config'.allowed = config.allowed /\ config'.model = job[c].config.model
    BY <1>4 DEF ConfigureModel, Settings
  <2>2. LanguageHalfway'
    <3>1. ~At(c, "sharing") /\ ~At(c, "sharing")'
      BY <1>4 DEF ConfigureModel, At
    <3>2. QED
      BY <1>4, <2>1, <3>1, OneTask, LanguageKept DEF ConfigureModel
  <2>3. ModelHalfway'
    <3>1. \A d \in Clients : At(d, "configuring")' <=> At(d, "configuring") /\ d # c
      BY <1>4 DEF ConfigureModel, At
    <3>2. QED
      BY <1>4, <2>1, <3>1 DEF ConfigureModel, ModelHalfway
  <2>4. QED
    BY <2>2, <2>3
<1>5. QED
  BY <1>1, <1>2, <1>3, <1>4 DEF Handle

LEMMA ProcessAgrees ==
  ASSUME Types, Quiet, LanguageHalfway, ModelHalfway,
         Load \/ Serve \/ LoadFails \/ Signal \/ Exit
  PROVE  LanguageHalfway' /\ ModelHalfway'
<1>1. CASE Serve
  <2>1. \A c \in Clients : pc'[c] = "idle"
    BY <1>1 DEF Serve, Quiet, AllIdle, At
  <2>2. LoadedFor(config'.model, transcriber')
    BY <1>1, CreatedType DEF Serve, Types
  <2>3. QED
    BY <1>1, <2>1, <2>2 DEF Serve, LanguageHalfway, ModelHalfway, At
<1>2. CASE Load \/ LoadFails \/ Signal \/ Exit
  BY <1>2 DEF Load, LoadFails, Signal, Exit, LanguageHalfway, ModelHalfway
<1>3. QED
  BY <1>1, <1>2

-----------------------------------------------------------------------------
(* The theorems *)

IInv == Types /\ Discipline /\ Handles /\ Quiet /\ LanguageHalfway /\ ModelHalfway

LEMMA IInvInit == Init => IInv
<1> SUFFICES ASSUME Init PROVE IInv
  OBVIOUS
<1>1. \A c \in Clients : pc[c] = "idle"
  BY DEF Init
<1>2. Discipline
  BY <1>1 DEF Init, Discipline, Unique, In, Wants, Inside
<1>3. Handles /\ Quiet
  BY <1>1 DEF Init, Handles, Quiet, Starting, At, AllIdle
<1>4. LanguageHalfway /\ ModelHalfway
  BY DEF Init, LanguageHalfway, ModelHalfway
<1>5. QED
  BY <1>2, <1>3, <1>4, InitTypes DEF IInv

LEMMA IInvStep == IInv /\ [Next]_vars => IInv'
<1> SUFFICES ASSUME IInv, [Next]_vars PROVE IInv'
  OBVIOUS
<1>1. CASE Load \/ Serve \/ LoadFails \/ Signal \/ Exit
  <2>1. Next
    BY <1>1 DEF Next
  <2>2. QED
    BY <1>1, <2>1, ProcessTypes, ProcessDiscipline, ProcessHandles, QuietStep, ProcessAgrees
       DEF IInv
<1>2. ASSUME NEW c \in Clients, Request(c) PROVE IInv'
  <2>1. Next
    BY <1>2 DEF Next
  <2>2. QED
    BY <1>2, <2>1, RequestTypes, RequestDiscipline, RequestHandles, QuietStep, RequestAgrees
       DEF IInv
<1>3. ASSUME NEW c \in Clients, Handle(c) PROVE IInv'
  <2>1. Next
    BY <1>3 DEF Next
  <2>2. QED
    BY <1>3, <2>1, HandleTypes, HandleDiscipline, HandleHandles, QuietStep, HandleAgrees
       DEF IInv
<1>4. CASE UNCHANGED vars
  BY <1>4 DEF vars, shared, settings, IInv, Types, Discipline, Unique, In, Wants, Holds,
     Handles, At, Quiet, AllIdle, LanguageHalfway, ModelHalfway
<1>5. QED
  BY <1>1, <1>2, <1>3, <1>4 DEF Next

LEMMA IInvCorrect == Spec => []IInv
<1>1. Init => IInv
  BY IInvInit
<1>2. IInv /\ [Next]_vars => IInv'
  BY IInvStep
<1>3. QED
  BY <1>1, <1>2, PTL DEF Spec

(* The pipeline mutex of DaemonState as tokio keeps it: a task is in its    *)
(* line once and exactly while its handler wants the mutex, and only the    *)
(* head is past the await; an answer leaves no lock behind.                 *)
THEOREM TypeCorrect == Spec => []TypeOK
<1>1. IInv => TypeOK
  <2> SUFFICES ASSUME IInv PROVE TypeOK
    OBVIOUS
  <2>1. Types /\ Discipline
    BY DEF IInv
  <2>2. QED
    BY <2>1 DEF Types, Discipline, Unique, In, Wants, Job, Transcribers, TypeOK
<1>2. QED
  BY <1>1, IInvCorrect, PTL

(* start_recording, stop_recording, cancel_recording and toggle_recording   *)
(* from any number of connections: never two pipelines, and none left       *)
(* listening without a handle.                                              *)
THEOREM MicrophoneSafe == Spec => []OneMicrophone
<1>1. IInv => OneMicrophone
  <2> SUFFICES ASSUME IInv PROVE OneMicrophone
    OBVIOUS
  <2>1. mics <= 1
    BY DEF IInv, Types, Handles, Inside, Starting, At
  <2>2. ASSUME line = <<>> PROVE recording <=> mics = 1
    <3>1. \A c \in Clients : pc[c] \notin Inside
      BY <2>2 DEF IInv, Discipline, Holds
    <3>2. QED
      BY <3>1 DEF IInv, Handles, Types
  <2>3. QED
    BY <2>1, <2>2 DEF IInv, Quiet, OneMicrophone
<1>2. QED
  BY <1>1, IInvCorrect, PTL

(* handle_set_language and handle_set_model write two places without a lock *)
(* over both: when nothing is under way, these agree unless the last        *)
(* changes overlapped.                                                      *)
THEOREM CopiesAgree == Spec => []SettingsAgree
<1>1. IInv => SettingsAgree
  BY DEF IInv, LanguageHalfway, ModelHalfway, SettingsAgree, AllIdle, At
<1>2. QED
  BY <1>1, IInvCorrect, PTL
=============================================================================
