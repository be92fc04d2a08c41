------------------------------ MODULE Extension ------------------------------
(***************************************************************************)
(* The panel indicator (src/gnome/voicsh@voic.sh/extension.js) following   *)
(* the daemon (handle_follow_client in src/ipc/server.rs): a connection    *)
(* opened by a callback, a line read by a callback, a timer that connects  *)
(* again, and commands on connections of their own that may fail.  GNOME   *)
(* disables and enables an extension, for example when the screen locks,   *)
(* while callbacks are outstanding; the daemon may crash and be restarted. *)
(*                                                                         *)
(* The daemon is its state and the events about it; Daemon has the steps   *)
(* of its commands.  The language and the model are told alike: a setting. *)
(* A connection is a number, free again when both ends have forgotten it.  *)
(***************************************************************************)
EXTENDS Integers, Sequences, FiniteSets

CONSTANTS
  Conns,       \* bound: connections at a time
  Settings,    \* values of the setting
  Unknown,     \* null: the indicator was not told
  Capacity,    \* events the broadcast keeps for one receiver
  Wire,        \* bound: lines under way on one connection
  Faults,      \* which of "crash", "refuse", "lock" may happen
  MaxFaults,   \* bound: how many of them
  MaxChanges   \* bound: changes of the daemon's state, and other events

None == 0

ASSUME ExtensionAssumption ==
  /\ IsFiniteSet(Conns) /\ Conns \subseteq Nat \ {None}
  /\ Unknown \notin Settings
  /\ Capacity \in Nat \ {0} /\ Wire \in Nat \ {0, 1}   \* a greeting is two lines
  /\ Faults \subseteq {"crash", "refuse", "lock"}
  /\ MaxFaults \in Nat /\ MaxChanges \in Nat

VARIABLES
  up,         \* the daemon runs and its socket takes connections
  recording,  \* DaemonState.pipeline holds a handle
  setting,    \* one of DaemonState.config
  busy,       \* a stop has taken the handle and holds the mutex
  untold,     \* per value: changes to it whose event is still to be emitted
  srv,        \* the server's end of a connection
  unread,     \* the broadcast receiver of a connection
  lagged,     \* it lost events: "no", "pending", "reported"
  snap,       \* is_recording as get_status has read it for a connection
  wire,       \* lines written and not yet read by the extension
  enabled,    \* between enable() and disable()
  opening,    \* connections whose connect_async is outstanding
  reading,    \* connections whose read_line_async is outstanding
  failing,    \* read callbacks that will report an error: cancelled, or pending
  follow,     \* _followConnection, _followReader and _followCancellable
  known,      \* _reconnectId is set
  leaked,     \* reconnect timers nobody knows the id of
  connected,  \* _connected
  view,       \* _recording and _language, or _modelName
  asking,     \* a command: "no", "sent", or "lost" with its connection
  snubbed,    \* history: a command failed since the last connection
  locked,     \* history: disable() was called
  last,       \* history: the value the last event about the setting told of
  latest,     \* history: the key of the last event
  faults, changes  \* counters for the bounds

daemon == <<up, recording, setting, busy, untold, last, latest, changes>>
server == <<srv, unread, lagged, snap>>
indicator == <<connected, view, snubbed>>
follower == <<enabled, opening, reading, failing, follow, known, leaked, locked>>
client == <<follower, asking>>
vars == <<daemon, server, wire, indicator, client, faults>>

Blank == [recording |-> FALSE, setting |-> Unknown]

Fault(f) == f \in Faults /\ faults < MaxFaults /\ faults' = faults + 1

(* A connection neither end knows any more. *)
Forgotten(c) == c \notin opening \cup reading /\ c # follow
Unused == {c \in Conns : srv[c] = "none" /\ Forgotten(c)}

-----------------------------------------------------------------------------
(* The daemon's state and its events *)

(* Definitions named Wrong... are slips a programmer could make in the code *)
(* the next definition models; with one of them in its place, TLC finds the *)
(* property violated that PROJECT.json pairs it with.                       *)

(* The follower subscribes after it was sent the snapshot. *)
WrongSubscribed(c) == srv[c] = "streaming"

Subscribed(c) == srv[c] \in {"recording", "setting", "streaming"}

(* The channel keeps one event more than its capacity. *)
WrongFull(c) == Len(unread[c]) > Capacity

Full(c) == Len(unread[c]) >= Capacity

(* send() keeps the newest Capacity events for each receiver. *)
Emit(key, value) ==
  /\ unread' = [c \in Conns |->
       IF ~Subscribed(c) THEN unread[c]
       ELSE Append(IF Full(c) THEN Tail(unread[c]) ELSE unread[c], <<key, value>>)]
  /\ lagged' = [c \in Conns |->
       IF Subscribed(c) /\ Full(c) THEN "pending" ELSE lagged[c]]
  /\ latest' = key
  /\ UNCHANGED <<srv, snap, wire, indicator, client, faults>>

Changes == changes < MaxChanges /\ changes' = changes + 1

StartRecording ==
  /\ up /\ ~recording /\ ~busy /\ Changes
  /\ recording' = TRUE
  /\ Emit("recording", TRUE)
  /\ UNCHANGED <<up, setting, busy, untold, last>>

(* The handle is taken, and the mutex held until the pipeline has stopped.  *)
StopRecording ==
  /\ up /\ recording /\ Changes
  /\ recording' = FALSE /\ busy' = TRUE
  /\ UNCHANGED <<up, setting, untold, last, latest, server, wire, indicator, client, faults>>

Stopped ==
  /\ up /\ busy
  /\ busy' = FALSE
  /\ Emit("recording", FALSE)
  /\ UNCHANGED <<up, recording, setting, untold, last, changes>>

Untold(v) == untold[v] > 0

(* update_config changes the setting under its lock and gives the lock      *)
(* back: another command may change it before the event is emitted, which   *)
(* names the value of its own command.                                      *)
Change(v) ==
  /\ up /\ Changes
  /\ setting' = v
  /\ untold' = [untold EXCEPT ![v] = @ + 1]
  /\ UNCHANGED <<up, recording, busy, last, latest, server, wire, indicator, client, faults>>

Tell(v) ==
  /\ up /\ Untold(v)
  /\ untold' = [untold EXCEPT ![v] = @ - 1]
  /\ last' = v
  /\ Emit("setting", v)
  /\ UNCHANGED <<up, recording, setting, busy, changes>>

(* Levels, transcriptions, the progress of a download: the extension keeps  *)
(* nothing of them, but they fill the broadcast.                            *)
Chat ==
  /\ up /\ Changes
  /\ Emit("other", TRUE)
  /\ UNCHANGED <<up, recording, setting, busy, untold, last>>

(* The daemon dies; what it had written is still there to be read.          *)
Crash ==
  /\ up /\ Fault("crash")
  /\ up' = FALSE /\ busy' = FALSE /\ untold' = [v \in Settings |-> 0]
  /\ srv' = [c \in Conns |-> IF srv[c] = "none" THEN "none" ELSE "gone"]
  /\ unread' = [c \in Conns |-> <<>>]
  /\ asking' = IF asking = "sent" THEN "lost" ELSE asking
  /\ UNCHANGED <<recording, setting, last, latest, changes, lagged, snap, wire, indicator, follower>>

(* systemd starts it again, with the settings of the file.                  *)
Restart ==
  /\ ~up /\ up' = TRUE
  /\ recording' = FALSE /\ setting' \in Settings
  /\ last' = setting' /\ latest' = "none"
  /\ UNCHANGED <<busy, untold, changes, server, wire, indicator, client, faults>>

-----------------------------------------------------------------------------
(* handle_follow_client *)

serverRest == <<daemon, indicator, client>>

(* A permit, the command, and the subscription before the snapshot. *)
Accept(c) ==
  /\ srv[c] = "queued"
  /\ srv' = [srv EXCEPT ![c] = "recording"]
  /\ lagged' = [lagged EXCEPT ![c] = "no"]
  /\ UNCHANGED <<serverRest, unread, snap, wire, faults>>

(* MAX_CONNECTIONS reached: the stream is dropped. *)
Refuse(c) ==
  /\ srv[c] = "queued" /\ Fault("refuse")
  /\ srv' = [srv EXCEPT ![c] = "gone"]
  /\ UNCHANGED <<serverRest, unread, lagged, snap, wire>>

ReadRecording(c) ==
  /\ srv[c] = "recording" /\ ~busy
  /\ snap' = [snap EXCEPT ![c] = recording]
  /\ srv' = [srv EXCEPT ![c] = "setting"]
  /\ UNCHANGED <<serverRest, unread, lagged, wire, faults>>

(* The rest of the status, and the first lines to the client. *)
Greet(c) ==
  /\ srv[c] = "setting"
  /\ snap' = [snap EXCEPT ![c] = FALSE]
  /\ wire' = [wire EXCEPT ![c] =
       <<<<"recording", snap[c]>>, <<"setting", setting>>>>]
  /\ srv' = [srv EXCEPT ![c] = "streaming"]
  /\ UNCHANGED <<serverRest, unread, lagged, faults>>

Write(c) ==
  /\ srv[c] = "streaming" /\ Len(wire[c]) < Wire
  /\ \/ /\ lagged[c] = "pending"
        /\ lagged' = [lagged EXCEPT ![c] = "reported"]
        /\ wire' = [wire EXCEPT ![c] = Append(@, <<"other", TRUE>>)]
        /\ UNCHANGED unread
     \/ /\ lagged[c] # "pending" /\ unread[c] # <<>>
        /\ wire' = [wire EXCEPT ![c] = Append(@, Head(unread[c]))]
        /\ unread' = [unread EXCEPT ![c] = Tail(@)]
        /\ UNCHANGED lagged
  /\ UNCHANGED <<serverRest, srv, snap, faults>>

(* A write fails, or the end was closed on both sides: nobody reads it.     *)
Leave(c) ==
  /\ srv[c] # "none" /\ Forgotten(c)
  /\ srv' = [srv EXCEPT ![c] = "none"]
  /\ unread' = [unread EXCEPT ![c] = <<>>]
  /\ lagged' = [lagged EXCEPT ![c] = "no"]
  /\ snap' = [snap EXCEPT ![c] = FALSE]
  /\ wire' = [wire EXCEPT ![c] = <<>>]
  /\ UNCHANGED <<serverRest, faults>>

-----------------------------------------------------------------------------
(* The extension: _connectFollow, _readFollowLine, _scheduleReconnect *)

clientRest == <<daemon, server, enabled, asking, locked, faults>>

SetDisconnected == connected' = FALSE /\ view' = Blank

(* connect_async on a connection of its own. *)
Connect == opening' = opening \cup {CHOOSE c \in Unused : \A d \in Unused : c <= d}

(* The server's socket takes the connection before the server does. *)
Opened(c) ==
  /\ c \in opening /\ up
  /\ opening' = opening \ {c}
  /\ srv' = [srv EXCEPT ![c] = "queued"]
  /\ follow' = c /\ reading' = reading \cup {c}
  /\ connected' = TRUE /\ snubbed' = FALSE
  /\ UNCHANGED <<daemon, unread, lagged, snap, wire, view, enabled, failing, known,
                 leaked, asking, locked, faults>>

(* A connection refused is given up. *)
WrongNotOpened(c) ==
  /\ c \in opening /\ ~up
  /\ opening' = opening \ {c}
  /\ SetDisconnected
  /\ UNCHANGED <<clientRest, wire, snubbed, reading, failing, follow, known, leaked>>

(* _scheduleReconnect: one timer that it knows of is enough. *)
NotOpened(c) ==
  /\ c \in opening /\ ~up
  /\ opening' = opening \ {c}
  /\ SetDisconnected /\ known' = TRUE
  /\ UNCHANGED <<clientRest, wire, snubbed, reading, failing, follow, leaked>>

(* The timer answers SOURCE_CONTINUE, and goes off again and again. *)
WrongReconnect ==
  /\ known \/ leaked > 0
  /\ asking # "lost" /\ failing = 0 /\ Unused # {}
  /\ leaked' = IF known THEN leaked + 1 ELSE leaked
  /\ known' = FALSE
  /\ Connect
  /\ UNCHANGED <<clientRest, wire, indicator, reading, failing, follow>>

(* A timer that was leaked also clears the id of the one that is known.  A  *)
(* second has passed since it was set: a command lost and a read that       *)
(* failed before have been reported.                                        *)
Reconnect ==
  /\ known \/ leaked > 0
  /\ asking # "lost" /\ failing = 0 /\ Unused # {}
  /\ \/ known /\ leaked' = leaked
     \/ leaked > 0 /\ leaked' = IF known THEN leaked ELSE leaked - 1
  /\ known' = FALSE
  /\ Connect
  /\ UNCHANGED <<clientRest, wire, indicator, reading, failing, follow>>

(* _closeFollow and _scheduleReconnect, in a callback that was one of       *)
(* callbacks: the other one's read is cancelled and will report it.         *)
Lose(callbacks) ==
  /\ reading' = callbacks \ {follow}
  /\ follow' = None /\ known' = TRUE
  /\ SetDisconnected
  /\ UNCHANGED <<clientRest, wire, snubbed, opening, leaked>>

Cancelled(callbacks) == IF follow \in callbacks THEN 1 ELSE 0

(* A line is handled, and the next one is read: of the connection that is   *)
(* followed now.  It has one read outstanding: a second one fails.          *)
ReadLine(c) ==
  /\ c \in reading /\ wire[c] # <<>>
  /\ wire' = [wire EXCEPT ![c] = Tail(@)]
  /\ LET line == Head(wire[c])
     IN  view' = IF line[1] = "other" THEN view ELSE [view EXCEPT ![line[1]] = line[2]]
  /\ reading' = IF follow = None THEN reading \ {c} ELSE (reading \ {c}) \cup {follow}
  /\ failing' = IF follow \in reading \ {c} THEN failing + 1 ELSE failing
  /\ UNCHANGED <<clientRest, connected, snubbed, opening, follow, known, leaked>>

(* EOF: the daemon closed the connection. *)
Eof(c) ==
  /\ c \in reading /\ wire[c] = <<>> /\ srv[c] = "gone"
  /\ Lose(reading \ {c})
  /\ failing' = failing + Cancelled(reading \ {c})

ReadFails ==
  /\ failing > 0
  /\ Lose(reading)
  /\ failing' = failing - 1 + Cancelled(reading)

-----------------------------------------------------------------------------
(* Commands: the menu and the shortcut *)

commandRest == <<daemon, server, wire, follower>>

Ask ==
  /\ enabled /\ asking = "no"
  /\ asking' = IF up THEN "sent" ELSE "lost"
  /\ UNCHANGED <<commandRest, indicator, faults>>

(* What it does to the daemon are the daemon's actions. *)
Answered ==
  /\ asking = "sent"
  /\ asking' = "no"
  /\ UNCHANGED <<commandRest, indicator, faults>>

(* _sendCommand takes any failure for a daemon that is gone. *)
CommandFails ==
  /\ \/ asking = "lost" /\ UNCHANGED faults
     \/ asking = "sent" /\ Fault("refuse")
  /\ asking' = "no"
  /\ SetDisconnected /\ snubbed' = TRUE
  /\ UNCHANGED commandRest

-----------------------------------------------------------------------------
(* enable and disable *)

Disable ==
  /\ enabled /\ Fault("lock")
  /\ enabled' = FALSE /\ locked' = TRUE
  /\ reading' = reading \ {follow} /\ failing' = failing + Cancelled(reading)
  /\ follow' = None /\ known' = FALSE
  /\ UNCHANGED <<daemon, server, wire, indicator, opening, leaked, asking>>

(* Every field is set anew: what is outstanding is forgotten, not ended.    *)
Enable ==
  /\ ~enabled /\ Unused # {}
  /\ enabled' = TRUE
  /\ SetDisconnected /\ snubbed' = FALSE
  /\ follow' = None /\ known' = FALSE
  /\ leaked' = IF known THEN leaked + 1 ELSE leaked
  /\ Connect
  /\ UNCHANGED <<daemon, server, wire, reading, failing, asking, locked, faults>>

-----------------------------------------------------------------------------
Init ==
  /\ up = TRUE /\ recording \in BOOLEAN /\ setting \in Settings
  /\ busy = FALSE /\ untold = [v \in Settings |-> 0]
  /\ last = setting /\ latest = "none"
  /\ srv = [c \in Conns |-> "none"]
  /\ unread = [c \in Conns |-> <<>>] /\ wire = [c \in Conns |-> <<>>]
  /\ lagged = [c \in Conns |-> "no"] /\ snap = [c \in Conns |-> FALSE]
  /\ enabled = FALSE /\ opening = {} /\ reading = {} /\ failing = 0
  /\ follow = None /\ known = FALSE /\ leaked = 0
  /\ connected = FALSE /\ view = Blank
  /\ asking = "no" /\ snubbed = FALSE /\ locked = FALSE /\ faults = 0 /\ changes = 0

Serve(c) == Accept(c) \/ ReadRecording(c) \/ Greet(c) \/ Write(c) \/ Leave(c)
Callback(c) == Opened(c) \/ NotOpened(c) \/ ReadLine(c) \/ Eof(c)

Next ==
  \/ StartRecording \/ StopRecording \/ Stopped \/ Chat
  \/ \E v \in Settings : Change(v) \/ Tell(v)
  \/ Crash \/ Restart
  \/ \E c \in Conns : Serve(c) \/ Refuse(c) \/ Callback(c)
  \/ Reconnect \/ ReadFails
  \/ Ask \/ Answered \/ CommandFails
  \/ Enable \/ Disable

Spec == Init /\ [][Next]_vars

(* The main loop runs every callback and timer that is due, tokio every     *)
(* task that is ready, and systemd restarts the daemon (Restart=on-failure).*)
Fairness ==
  /\ \A c \in Conns : WF_vars(Serve(c)) /\ WF_vars(Callback(c))
  /\ WF_vars(Reconnect) /\ WF_vars(ReadFails) /\ WF_vars(CommandFails)
  /\ WF_vars(Stopped) /\ WF_vars(Restart)
  /\ \A v \in Settings : WF_vars(Tell(v))

FairSpec == Spec /\ Fairness

-----------------------------------------------------------------------------
(* Properties *)

TypeOK ==
  /\ {up, recording, busy, enabled, known, connected, snubbed, locked} \subseteq BOOLEAN
  /\ setting \in Settings /\ last \in Settings /\ untold \in [Settings -> Nat]
  /\ latest \in {"none", "recording", "setting", "other"}
  /\ srv \in [Conns -> {"none", "queued", "recording", "setting", "streaming", "gone"}]
  /\ \A c \in Conns : Len(unread[c]) <= Capacity /\ Len(wire[c]) <= Wire
  /\ lagged \in [Conns -> {"no", "pending", "reported"}]
  /\ snap \in [Conns -> BOOLEAN]
  /\ view \in [recording : BOOLEAN, setting : Settings \cup {Unknown}]
  /\ opening \subseteq Conns /\ reading \subseteq Conns /\ follow \in Conns \cup {None}
  /\ failing \in Nat /\ leaked \in Nat /\ faults \in 0..MaxFaults /\ changes \in 0..MaxChanges
  /\ asking \in {"no", "sent", "lost"}

(* What will call back next, and go on with the follow connection. *)
Chains == Cardinality(opening) + Cardinality(reading) + failing + leaked
            + (IF known THEN 1 ELSE 0)

(* Until it is disabled for the first time, the enabled extension waits for *)
(* exactly one thing: a connection, a line, or a timer.  So it never stops  *)
(* following, and never follows twice.                                      *)
OneChain == enabled /\ ~locked => Chains = 1

CaughtUp ==
  /\ follow # None /\ srv[follow] = "streaming"
  /\ unread[follow] = <<>> /\ wire[follow] = <<>> /\ reading = {follow} /\ failing = 0
  /\ ~snubbed

(* Every change of the setting has been told, the one that counts last.     *)
Settled == last = setting /\ \A v \in Settings : ~Untold(v)

(* A follower that lost events still got the newest one. *)
Heard(c, key) == lagged[c] = "no" \/ latest = key

(* An indicator that has read all it was told shows the daemon's state,     *)
(* across crashes, restarts, refused connections and screen locks.  It may  *)
(* be wrong only about a setting whose overlapping changes were told in the *)
(* other order, and after a lag about what the newest event does not tell   *)
(* of.  Without a connection it shows none.                                 *)
IndicatorRight ==
  enabled =>
    /\ CaughtUp =>
         /\ connected
         /\ ~busy /\ Heard(follow, "recording") => view.recording = recording
         /\ Settled /\ Heard(follow, "setting") => view.setting = setting
    /\ follow = None => ~connected

(* Whatever was lost, the extension follows the daemon again and stays.     *)
Reconnects == <>[]enabled => <>[](connected \/ snubbed)
=============================================================================
