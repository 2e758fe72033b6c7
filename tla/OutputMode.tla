----------------------------- MODULE OutputMode -----------------------------
(***************************************************************************)
(* How the Desktop Client moves between its Output Modes: System, Direct   *)
(* ALSA (with the sound card leased from PipeWire) and Adaptive System     *)
(* Rate (with a sample rate forced on PipeWire), and how the listener's    *)
(* level travels between mpv and the output device on the way              *)
(* (desktop/core/src/lib.rs, playback.rs, adaptive_system_rate.rs,         *)
(* exclusive_output.rs, processing.rs).                                    *)
(*                                                                         *)
(* A volume is an attenuation in steps, 0 being full volume, so that the   *)
(* product of two volumes in the code is a sum here.  What may fail is in  *)
(* `broken': every call that needs it fails until it is mended.  The       *)
(* commands that change the mode or the volume hold the processing lock,   *)
(* so one of them runs at a time; the event thread does not take it.       *)
(***************************************************************************)
EXTENDS Integers, FiniteSets

CONSTANTS
    Cards,          \* raw ALSA devices
    Rates,          \* sample rates of the sources, 0 not among them
    Faulty,         \* what may break: "mpv", "rate", "disk", "sink", "card", "listing", "busy"
    MaxLevel,       \* the quietest level a listener chooses
    MaxCommands,    \* commands given
    MaxFaults,      \* things that break
    MaxStarts,      \* starts after an exit or a kill
    MaxExits        \* exits of mpv

NoDevice == "none"
NoRate == 0
NoVolume == -1

VARIABLES
    app,        \* "off", "starting" or "running"
    player,     \* mpv's process: "up" or "gone"
    out,        \* the output: session's mode, mpv's route, card lease, rate
    processing, \* ProcessingController, in memory
    settings,   \* ... and its file
    mpvVolume,  \* the volume mpv applies
    volume,     \* the Playback Session's volume
    held,       \* AppState.device_attenuation
    record,     \* its file
    sink,       \* what the hand-offs took from the system output
    card,       \* ... and from the leased sound card
    command,    \* the command that holds the processing lock
    chosen,     \* history: the level the listener last chose
    spared,     \* history: the known cases in which a promise is not kept
    broken,     \* what fails at present
    counts      \* commands, faults, starts and exits so far

vars == <<app, player, out, processing, settings, mpvVolume, volume, held, record,
          sink, card, command, chosen, spared, broken, counts>>

volumeVars == <<mpvVolume, volume, processing, settings>>
deviceVars == <<held, record, sink, card>>
historyVars == <<chosen, spared>>

NoCommand == [op |-> "none", at |-> "rest", card |-> NoDevice, was |-> "system",
              wasCard |-> NoDevice, took |-> {}]
SystemOutput == [mode |-> "system", card |-> NoDevice, route |-> "auto", lease |-> FALSE,
                 rate |-> NoRate, enabled |-> FALSE, marker |-> FALSE, failing |-> FALSE, stuck |-> FALSE]

Works(thing) == thing \notin broken
MpvAnswers == player = "up" /\ Works("mpv")
Quieter(a, b) == IF a + b > 2 * MaxLevel THEN 2 * MaxLevel ELSE a + b

Ok(o) == [ok |-> TRUE, out |-> o]
Failed(o) == [ok |-> FALSE, out |-> o]

-----------------------------------------------------------------------------
(* adaptive_system_rate.rs, under the controller's lock.                    *)

Marked(o) ==
    IF Works("disk") THEN Ok([o EXCEPT !.marker = TRUE, !.enabled = TRUE]) ELSE Failed(o)

EnableController(o) == Marked(o)

ApplySourceRate(o, rate) ==
    IF ~o.enabled THEN Ok(o)
    ELSE IF Works("rate") THEN Ok([o EXCEPT !.rate = rate]) ELSE Failed(o)

ResetForRecovery(o) == ApplySourceRate(o, NoRate)

Disable(o) ==
    IF ~o.enabled THEN Ok(o)
    ELSE LET reset == ResetForRecovery(o)
         IN  IF ~reset.ok \/ ~Works("disk") THEN Failed(reset.out)
             ELSE Ok([reset.out EXCEPT !.marker = FALSE, !.enabled = FALSE])

-----------------------------------------------------------------------------
(* RealMpvProcess::configure_output and the card lease.                     *)

\* A lease that cannot be released is kept, so that the next attempt retries.
Released(o) ==
    IF Works("card") THEN [o EXCEPT !.lease = FALSE, !.stuck = FALSE] ELSE [o EXCEPT !.stuck = o.lease]

RestoreSystem(o) ==
    LET o2 == Released(IF MpvAnswers THEN [o EXCEPT !.route = "auto"] ELSE o)
    IN  IF MpvAnswers /\ ~o2.lease THEN Ok(o2) ELSE Failed(o2)

\* A lease that is still held serves again, whichever card is asked for.
Leased(o) == IF o.lease \/ Works("card") THEN Ok([o EXCEPT !.lease = TRUE]) ELSE Failed(o)

ConfigureDirect(o, c) ==
    IF ~MpvAnswers THEN Failed(o)
    ELSE IF ~Leased(o).ok THEN Failed(RestoreSystem(o).out)
    ELSE Ok([Leased(o).out EXCEPT !.route = c])

-----------------------------------------------------------------------------
(* The Output Mode commands of PlaybackController.                          *)

EnableAdaptive(o, rate) ==
    LET marked == EnableController(o)
        routed == RestoreSystem(marked.out)
        applied == ApplySourceRate(routed.out, rate)
    IN  IF ~marked.ok THEN marked
        ELSE IF ~routed.ok THEN Failed(Disable(routed.out).out)
        ELSE IF ~applied.ok THEN Failed(Disable(applied.out).out)
        ELSE Ok([applied.out EXCEPT !.mode = "adaptive"])

Fallback(o, rate) ==
    LET disabled == Disable(o)
        routed == RestoreSystem(disabled.out)
    IN  IF ~disabled.ok THEN disabled
        ELSE IF routed.ok THEN Ok([routed.out EXCEPT !.mode = "system"])
        ELSE IF o.mode = "adaptive" THEN Failed(EnableAdaptive(routed.out, rate).out)
        ELSE Failed(routed.out)

SafeSystem(o) == [RestoreSystem(o).out EXCEPT !.mode = "system"]

RestoreRoute(o, previous, rate) ==
    LET back == CASE previous.mode = "direct" -> ConfigureDirect(o, previous.card)
                  [] previous.mode = "adaptive" -> EnableAdaptive(o, rate)
                  [] OTHER -> RestoreSystem(o)
    IN  IF back.ok THEN [back.out EXCEPT !.mode = previous.mode] ELSE SafeSystem(back.out)

\* The raw devices can be listed and the chosen one is among them.
IsListed == Works("listing")

\* The card is chosen, Adaptive System Rate is turned off, and mpv must show
\* a format on the card; otherwise the previous route is put back.
SelectDirect(o, c, rate) ==
    LET disabled == Disable(o)
        direct == ConfigureDirect(disabled.out, c)
        restored == RestoreRoute(direct.out, o, rate)
    IN  IF ~IsListed THEN Failed(o)
        ELSE IF ~disabled.ok THEN disabled
        ELSE IF direct.ok /\ Works("busy")
             THEN Ok([direct.out EXCEPT !.mode = "direct", !.card = c])
        ELSE Ok([restored EXCEPT !.card = IF restored.mode = "direct" THEN o.card ELSE c])

RestoreNative(o, mode, c, rate) ==
    CASE mode = "direct" /\ c # NoDevice -> SelectDirect(o, c, rate).out
      [] mode = "adaptive" -> EnableAdaptive(o, rate).out
      [] OTHER -> Fallback(o, rate).out

-----------------------------------------------------------------------------
(* ProcessingController and its application to mpv.                         *)

Key(p) == IF p.mode = "direct" /\ p.card # NoDevice THEN p.card ELSE "system"
WithVolume(p, v) == [p EXCEPT !.volume = v, !.remembered = [@ EXCEPT ![Key(p)] = v]]

Saved(p) == Works("disk") /\ processing' = p /\ settings' = p
NotSaved == ~Works("disk") /\ UNCHANGED <<processing, settings>>

\* update_processing_locked: saved, applied to mpv, and taken back when mpv
\* does not follow.
UpdateSucceeds(p) == Saved(p) /\ MpvAnswers /\ mpvVolume' = p.volume /\ volume' = p.volume
UpdateFails == ~(Works("disk") /\ MpvAnswers) /\ UNCHANGED volumeVars
Update(p) == UpdateSucceeds(p) \/ UpdateFails

-----------------------------------------------------------------------------
NewProcessing == [mode |-> "system", card |-> NoDevice, volume |-> MaxLevel,
                  remembered |-> [k \in Cards \cup {"system"} |-> NoVolume]]

Init ==
    /\ app = "running" /\ player = "up" /\ out = SystemOutput
    /\ processing = NewProcessing
    /\ settings = processing
    /\ mpvVolume = MaxLevel /\ volume = MaxLevel /\ chosen = MaxLevel
    /\ held = {} /\ record = {} /\ sink = 0 /\ card = 0
    /\ command = NoCommand /\ spared = {} /\ broken = {}
    /\ counts = [commands |-> 0, faults |-> 0, starts |-> 0, exits |-> 0]

\* A command takes the processing lock; a change of the mode first returns the
\* device's volume.
Begin(op, c) ==
    /\ app = "running" /\ command.op = "none"
    /\ counts.commands < MaxCommands
    /\ counts' = [counts EXCEPT !.commands = @ + 1]
    /\ command' = [op |-> op, at |-> "return", card |-> c, was |-> processing.mode,
                   wasCard |-> processing.card, took |-> {}]
    /\ UNCHANGED <<app, player, out, volumeVars, deviceVars, historyVars, broken>>

Goto(at) == command' = [command EXCEPT !.at = at]
Finish == command' = NoCommand

\* return_device_volume, first half: mpv takes the device's attenuation on
\* top of its own volume.
ReturnToMpv ==
    /\ command.at = "return"
    /\ \/ /\ held = {}
          /\ Goto("device")
          /\ UNCHANGED <<volumeVars, held, spared>>
       \/ \E h \in held :
            LET p == WithVolume(processing, Quieter(processing.volume, h.level)) IN
            /\ \/ UpdateSucceeds(p) /\ UNCHANGED spared
               \/ /\ ~(Works("disk") /\ MpvAnswers)
                  /\ Saved(p) \/ NotSaved
                  /\ UNCHANGED <<mpvVolume, volume>>
                  /\ spared' = IF command.op # "exit" \/ ~Works("disk") THEN spared \cup {"level"} ELSE spared
            /\ held' = {}
            /\ command' = [command EXCEPT !.at = "device", !.took = {h}]
    /\ UNCHANGED <<app, player, out, record, sink, card, chosen, broken, counts>>

\* The attenuation the command took off goes back to the device that has it.
UndoOnDevice ==
    /\ command.at = "device"
    /\ \E undone \in BOOLEAN :
         /\ undone = (\A h \in command.took : h.route = "card" \/ Works("sink"))
         /\ sink' = IF undone /\ (\E h \in command.took : h.route = "sink")
                    THEN sink - (CHOOSE h \in command.took : TRUE).level ELSE sink
         /\ Goto(IF undone THEN "forget" ELSE "keep")
    /\ UNCHANGED <<app, player, out, volumeVars, held, record, card, historyVars, broken, counts>>

AfterReturn == CASE command.op = "exit" -> "drop" [] command.op = "start" -> "player" [] OTHER -> "switch"

\* Mutant: the record goes even though the device kept the attenuation.
SettleRecordForgets ==
    /\ command.at \in {"forget", "keep"}
    /\ record' = IF command.took = {} \/ ~Works("disk") THEN record ELSE {}
    /\ Goto(AfterReturn)
    /\ UNCHANGED <<app, player, out, volumeVars, held, sink, card, historyVars, broken, counts>>

\* The record goes once the device has its volume back.  Otherwise it stays
\* for the next start, which must leave mpv alone.
SettleRecord ==
    /\ command.at \in {"forget", "keep"}
    /\ record' = IF command.took = {} \/ ~Works("disk") THEN record
                 ELSE IF command.at = "forget" THEN {}
                 ELSE {[route |-> h.route, level |-> h.level, restored |-> TRUE] : h \in command.took}
    /\ spared' = IF command.took = {} \/ Works("disk") THEN spared ELSE spared \cup {"record", "level"}
    /\ Goto(AfterReturn)
    /\ UNCHANGED <<app, player, out, volumeVars, held, sink, card, chosen, broken, counts>>

\* The card's own volume comes back when PipeWire takes it again.
TakenBack(o) == card' = IF o.lease THEN card ELSE 0

\* ... and a card that stays leased keeps what was handed to it before.
KeepsTheCardQuiet == spared' = IF card' > 0 THEN spared \cup {"quieter"} ELSE spared

\* The playback half of a mode command, and the way its failure is answered.
Switch(rate) ==
    /\ command.at = "switch"
    /\ LET result == CASE command.op = "direct" -> SelectDirect(out, command.card, rate)
                       [] command.op = "exclusive" -> SelectDirect(out, command.card, rate)
                       [] command.op = "adaptive" -> EnableAdaptive(out, rate)
                       [] OTHER -> Fallback(out, rate)
           kept == CASE command.op = "direct" -> result.out.card = command.card
                     [] command.op = "exclusive" -> result.out.mode = "direct"
                     [] OTHER -> TRUE
           back == Fallback(result.out, rate)
       IN  \/ /\ result.ok /\ kept
              /\ out' = result.out /\ TakenBack(result.out) /\ Goto("persist")
           \/ /\ result.ok /\ ~kept /\ command.op = "exclusive" /\ back.ok
              /\ out' = back.out /\ TakenBack(back.out) /\ Goto("give up")
           \/ /\ result.ok /\ ~kept /\ command.op = "exclusive" /\ ~back.ok
              /\ out' = back.out /\ TakenBack(back.out) /\ Finish
           \/ /\ ~result.ok \/ (~kept /\ command.op = "direct")
              /\ out' = result.out /\ TakenBack(result.out) /\ Finish
    /\ KeepsTheCardQuiet
    /\ UNCHANGED <<app, player, volumeVars, held, record, sink, chosen, broken, counts>>

\* The preference is saved, or the earlier mode is put back.
Persist(rate) ==
    /\ command.at = "persist"
    /\ LET next == CASE command.op = "normal" -> [processing EXCEPT !.mode = "system"]
                     [] command.op = "adaptive" -> [processing EXCEPT !.mode = "adaptive"]
                     [] OTHER -> [processing EXCEPT !.mode = "direct", !.card = command.card]
           undone == IF command.op \in {"normal", "direct"}
                     THEN RestoreNative(out, command.was, command.wasCard, rate)
                     ELSE Fallback(out, rate).out
       IN  \/ /\ Saved(next)
              /\ Goto(IF command.op \in {"normal", "direct"} THEN "remember" ELSE "hand off")
              /\ UNCHANGED <<out, card>>
           \/ /\ NotSaved
              /\ out' = undone /\ TakenBack(undone)
              /\ IF command.op = "exclusive" THEN Goto("give up") ELSE Finish
    /\ KeepsTheCardQuiet
    /\ UNCHANGED <<app, player, mpvVolume, volume, held, record, sink, chosen, broken, counts>>

\* Exclusive Output that could not be had is saved as Normal Output.
GiveUpExclusive ==
    /\ command.at = "give up"
    /\ Saved([processing EXCEPT !.mode = "system"]) \/ NotSaved
    /\ Finish
    /\ UNCHANGED <<app, player, out, mpvVolume, volume, deviceVars, historyVars, broken, counts>>

\* The volume last used on the chosen route comes back.
RestoreRemembered ==
    /\ command.at = "remember"
    /\ LET v == processing.remembered[Key(processing)] IN
       \/ v \in {NoVolume, processing.volume} /\ UNCHANGED <<volumeVars, chosen>>
       \/ /\ v \notin {NoVolume, processing.volume}
          /\ Update(WithVolume(processing, v))
          /\ chosen' = IF processing' = processing THEN chosen ELSE v
    /\ Finish
    /\ UNCHANGED <<app, player, out, deviceVars, spared, broken, counts>>

-----------------------------------------------------------------------------
(* hand_off_volume_to_device: the device, its record, then mpv.             *)

HandOffRoute == IF processing.mode = "direct" THEN "card" ELSE "sink"

HandOffToDevice ==
    /\ command.at = "hand off"
    /\ IF processing.volume > 0 /\ Works(HandOffRoute)
       THEN /\ sink' = IF HandOffRoute = "sink" THEN sink + processing.volume ELSE sink
            /\ card' = IF HandOffRoute = "card" THEN card + processing.volume ELSE card
            /\ held' = {[route |-> HandOffRoute, level |-> processing.volume]}
            /\ Goto("record") /\ UNCHANGED app
       ELSE /\ Finish /\ app' = "running"
            /\ UNCHANGED <<held, sink, card>>
    /\ UNCHANGED <<player, out, volumeVars, record, historyVars, broken, counts>>

\* A record kept for an absent output is overwritten.
RecordHandOff ==
    /\ command.at = "record"
    /\ record' = IF Works("disk") THEN {[route |-> h.route, level |-> h.level, restored |-> FALSE]
                                        : h \in held} ELSE record
    /\ spared' = spared \cup (IF record # {} THEN {"record"} ELSE {})
                        \cup (IF Works("disk") THEN {} ELSE {"record", "level"})
    /\ Goto("mpv")
    /\ UNCHANGED <<app, player, out, volumeVars, held, sink, card, chosen, broken, counts>>

HandOffFromMpv ==
    /\ command.at = "mpv"
    /\ Update(WithVolume(processing, 0))
    /\ spared' = IF processing' = processing THEN spared \cup {"quieter"} ELSE spared
    /\ Finish
    /\ app' = "running"
    /\ UNCHANGED <<player, out, deviceVars, chosen, broken, counts>>

\* desktop_playback_set_volume.
SetVolume(v) ==
    /\ app = "running" /\ command.op = "none"
    /\ counts.commands < MaxCommands
    /\ counts' = [counts EXCEPT !.commands = @ + 1]
    /\ Update(WithVolume(processing, v))
    /\ chosen' = IF volumeVars' = volumeVars THEN chosen
                 ELSE IF held = {} THEN v
                 ELSE Quieter(v, (CHOOSE h \in held : TRUE).level)
    /\ UNCHANGED <<app, player, out, deviceVars, command, spared, broken>>

-----------------------------------------------------------------------------
(* The event thread, which does not take the processing lock.               *)

\* The decoder reports the rate of its source; a rate that cannot be forced
\* is reset, and the failure is published in a step of its own.
DecoderRate(rate) ==
    /\ app = "running" /\ player = "up" /\ ~out.failing
    /\ out.mode = "adaptive" /\ out.rate # rate
    /\ LET applied == ApplySourceRate(out, rate) IN
       out' = IF applied.ok THEN applied.out
              ELSE [ResetForRecovery(applied.out).out EXCEPT !.failing = TRUE]
    /\ UNCHANGED <<app, player, volumeVars, deviceVars, command, historyVars, broken, counts>>

\* A command or the end of a Track moves to a source of another rate.
SourceRate(rate) ==
    /\ app = "running" /\ out.mode = "adaptive" /\ out.rate # rate
    /\ LET applied == ApplySourceRate(out, rate) IN
       out' = IF applied.ok THEN applied.out ELSE ResetForRecovery(applied.out).out
    /\ UNCHANGED <<app, player, volumeVars, deviceVars, command, historyVars, broken, counts>>

PublishDecoderFailure ==
    /\ app = "running" /\ out.failing
    /\ out' = [out EXCEPT !.mode = "system", !.failing = FALSE]
    /\ UNCHANGED <<app, player, volumeVars, deviceVars, command, historyVars, broken, counts>>

\* The card has the listener's level, or is about to take it.
LevelIsOnCard == card > 0 \/ command.op \in {"exclusive", "start"}

\* mpv reports an error: the forced rate is reset, a card is given back.
MpvError ==
    /\ app = "running" /\ MpvAnswers
    /\ LET reset == IF out.mode = "adaptive" THEN ResetForRecovery(out) ELSE Ok(out)
           routed == RestoreSystem(reset.out)
           next == IF ~reset.ok \/ out.mode # "direct" THEN reset.out
                   ELSE IF routed.ok THEN [routed.out EXCEPT !.mode = "system"] ELSE routed.out
       IN  /\ next # out
           /\ out' = next /\ TakenBack(next)
           /\ spared' = IF next.route # out.route /\ LevelIsOnCard THEN spared \cup {"level"} ELSE spared
    /\ UNCHANGED <<app, player, volumeVars, held, record, sink, command, chosen, broken, counts>>

MpvExits ==
    /\ app = "running" /\ player = "up" /\ counts.exits < MaxExits /\ command.op # "exit"
    /\ player' = "gone"
    /\ counts' = [counts EXCEPT !.exits = @ + 1]
    /\ UNCHANGED <<app, out, volumeVars, deviceVars, command, historyVars, broken>>

\* The restarted mpv has the session's volume and the system's output; the
\* lease of the one it replaces is released when that is dropped.
Recover(rate) ==
    /\ app = "running" /\ player = "gone" /\ command.op # "exit"
    /\ LET reset == ResetForRecovery(out)
           applied == ApplySourceRate(reset.out, rate)
           next == [Released(applied.out) EXCEPT !.route = "auto"]
       IN  \/ /\ reset.ok /\ applied.ok /\ Works("mpv")
              /\ player' = "up" /\ mpvVolume' = volume
              /\ out' = next /\ TakenBack(next)
              /\ spared' = IF out.route # "auto" /\ LevelIsOnCard THEN spared \cup {"level"} ELSE spared
           \/ /\ player' = "lost" /\ UNCHANGED <<mpvVolume, card, spared>>
              /\ out' = reset.out
    /\ UNCHANGED <<app, volume, processing, settings, held, record, sink, command, chosen, broken, counts>>

-----------------------------------------------------------------------------
(* Leaving, being killed, starting again.                                   *)

\* Quit: Adaptive System Rate is turned off and mpv is shut down before the
\* device's volume is returned.
Quit ==
    /\ app = "running" /\ command.op = "none"
    /\ command' = [NoCommand EXCEPT !.op = "exit", !.at = "return"]
    /\ out' = LET disabled == Disable(out)
              IN  IF disabled.ok THEN Released(disabled.out) ELSE disabled.out
    /\ player' = IF Disable(out).ok THEN "gone" ELSE player
    /\ TakenBack(out')
    /\ UNCHANGED <<app, volumeVars, held, record, sink, historyVars, broken, counts>>

\* The state is dropped: the controller and the process clean up what is left.
Dropped(o) ==
    LET reset == ResetForRecovery(o)
    IN  [Released(reset.out) EXCEPT !.enabled = FALSE,
            !.marker = IF o.enabled /\ reset.ok /\ Works("disk") THEN FALSE ELSE @,
            !.mode = "system", !.card = NoDevice, !.route = "auto", !.failing = FALSE]

Drop ==
    /\ command.at = "drop"
    /\ app' = "off" /\ player' = "gone" /\ Finish
    /\ out' = [Dropped(out) EXCEPT !.lease = FALSE, !.stuck = FALSE] /\ card' = 0
    /\ UNCHANGED <<volumeVars, held, record, sink, historyVars, broken, counts>>

\* A kill leaves the files, the forced rate and the system output's volume.
\* The guard that leases the card restores it.
Kill ==
    /\ app # "off"
    /\ app' = "off" /\ player' = "gone" /\ command' = NoCommand
    /\ out' = [SystemOutput EXCEPT !.rate = out.rate, !.marker = out.marker]
    /\ held' = {} /\ card' = 0
    /\ spared' = spared \cup (CASE command.at \in {"record", "forget", "keep"} -> {"record", "level"}
                              [] command.at \in {"device", "mpv"} -> {"quieter"}
                              [] OTHER -> {})
    /\ UNCHANGED <<volumeVars, record, sink, chosen, broken, counts>>

\* AppState::start: a marked rate is reset, the settings are read, and what a
\* hand-off left is returned to mpv before the device gets it back.
Start ==
    /\ app = "off" /\ counts.starts < MaxStarts
    /\ counts' = [counts EXCEPT !.starts = @ + 1]
    /\ out.marker => Works("rate") /\ Works("disk")
    /\ settings.mode = "adaptive" => Works("disk")
    /\ app' = "starting"
    /\ out' = IF out.marker THEN SystemOutput ELSE out
    /\ processing' = [settings EXCEPT !.mode = IF @ = "adaptive" THEN "system" ELSE @]
    /\ settings' = processing'
    /\ command' = [NoCommand EXCEPT !.op = "start", !.at = "level", !.took = record]
    /\ UNCHANGED <<player, mpvVolume, volume, deviceVars, historyVars, broken>>

RestoreLevel ==
    /\ command.at = "level"
    /\ \/ (\A r \in command.took : r.restored) /\ UNCHANGED <<processing, settings, spared>>
       \/ \E r \in command.took :
            /\ ~r.restored
            /\ Saved(WithVolume(processing, Quieter(processing.volume, r.level))) \/ NotSaved
            /\ spared' = IF Works("disk") THEN spared ELSE spared \cup {"level"}
    /\ Goto("device")
    /\ UNCHANGED <<app, player, out, mpvVolume, volume, deviceVars, chosen, broken, counts>>

\* mpv starts, a saved Exclusive Output is opened again or given up, and the
\* processing settings are applied before anything plays.
StartPlayer(c, rate) ==
    /\ command.at = "player" /\ Works("mpv")
    /\ player' = "up"
    /\ mpvVolume' = processing.volume /\ volume' = processing.volume
    /\ \/ /\ processing.mode # "direct"
          /\ UNCHANGED <<out, processing, settings>>
          /\ Finish /\ app' = "running"
       \/ /\ processing.mode = "direct" /\ Works("card") /\ Works("busy") /\ IsListed
          /\ out' = [out EXCEPT !.mode = "direct", !.card = c, !.route = c, !.lease = TRUE]
          /\ Saved([processing EXCEPT !.card = c])
          /\ Goto("hand off") /\ UNCHANGED app
       \/ /\ processing.mode = "direct" /\ ~(Works("card") /\ Works("busy") /\ Works("listing") /\ Works("disk"))
          /\ UNCHANGED out
          /\ Saved([processing EXCEPT !.mode = "system"]) \/ NotSaved
          /\ IF Works("disk") THEN Finish /\ app' = "running" ELSE Goto("hand off") /\ UNCHANGED app
    /\ spared' = IF processing.mode = "direct" /\ ~Works("disk") THEN spared \cup {"level"} ELSE spared
    /\ UNCHANGED <<deviceVars, chosen, broken, counts>>

StartFails ==
    /\ command.at = "player" /\ ~Works("mpv")
    /\ app' = "off" /\ Finish
    /\ UNCHANGED <<player, out, volumeVars, deviceVars, historyVars, broken, counts>>

Break(thing) ==
    /\ Works(thing) /\ counts.faults < MaxFaults
    /\ counts' = [counts EXCEPT !.faults = @ + 1]
    /\ broken' = broken \cup {thing}
    /\ UNCHANGED <<app, player, out, volumeVars, deviceVars, command, historyVars>>

Mend ==
    /\ broken # {} /\ broken' = {}
    /\ UNCHANGED <<app, player, out, volumeVars, deviceVars, command, historyVars, counts>>

Next ==
    \/ \E op \in {"direct", "exclusive"}, c \in Cards : Begin(op, c)
    \/ \E op \in {"normal", "adaptive"} : Begin(op, NoDevice)
    \/ \E v \in 0..MaxLevel : SetVolume(v)
    \/ ReturnToMpv \/ UndoOnDevice \/ SettleRecord
    \/ \E rate \in Rates : Switch(rate) \/ Persist(rate) \/ DecoderRate(rate)
                           \/ SourceRate(rate) \/ Recover(rate)
    \/ GiveUpExclusive \/ RestoreRemembered
    \/ HandOffToDevice \/ RecordHandOff \/ HandOffFromMpv
    \/ PublishDecoderFailure \/ MpvError \/ MpvExits
    \/ Quit \/ Drop \/ Kill \/ Start \/ RestoreLevel \/ StartFails
    \/ \E c \in Cards, rate \in Rates : StartPlayer(c, rate)
    \/ \E thing \in Faulty : Break(thing)
    \/ Mend

Spec == Init /\ [][Next]_vars

-----------------------------------------------------------------------------
Heard == mpvVolume + (IF out.route = "auto" THEN sink ELSE card)
Audible == app = "running" /\ player = "up"

\* The types of the variables.
TypeOK ==
    /\ app \in {"off", "starting", "running"} /\ player \in {"up", "gone", "lost"}
    /\ out.mode \in {"system", "direct", "adaptive"} /\ out.rate \in Rates \cup {NoRate}
    /\ out.route \in Cards \cup {"auto"}
    /\ {processing.volume, settings.volume, mpvVolume, volume, chosen} \subseteq 0..(2 * MaxLevel)
    /\ Cardinality(held) \leq 1 /\ Cardinality(record) \leq 1
    /\ broken \subseteq Faulty

\* A rate forced on PipeWire is never left behind: while there is one, the
\* marker that makes the next start reset it is on disk, and a running client
\* still has the mode enabled that will take it back
\* (adaptive_system_rate.rs, enable, disable, recover_startup_if_marked).
ForcedRateIsTakenBack ==
    out.rate # NoRate => out.marker /\ (app = "running" => out.enabled)

\* The card is leased only while mpv plays to it: no failed switch, error or
\* restart of mpv leaves PipeWire without its sound card, unless the release
\* itself failed
\* (playback.rs, configure_output, restore_system_output).
LeaseFollowsRoute ==
    out.lease /\ player = "up" => out.route # "auto" \/ out.stuck

\* Nothing plays louder than the listener chose, not even between two steps
\* of a switch, except after the losses README lists
\* (lib.rs, hand_off_volume_to_device, return_device_volume).
NeverLouder ==
    Audible => Heard >= chosen \/ "level" \in spared

\* What a hand-off took from the system output is remembered by the running
\* client or recorded for its next start, so it cannot add up across starts
\* (lib.rs, DeviceAttenuationRecord, recover_left_device_attenuation).
AttenuationIsAccountedFor ==
    command.op = "none" /\ "record" \notin spared =>
        LET owners == IF held # {} THEN held ELSE record
        IN  sink = IF \E h \in owners : h.route = "sink"
                   THEN (CHOOSE h \in owners : TRUE).level ELSE 0

\* At rest the listener hears the level they chose, whatever modes, faults,
\* kills and starts came before, or that level below an attenuation whose
\* output was absent when it was to be undone (lib.rs, returned_volume).
LevelIsKept ==
    Audible /\ command.op = "none" /\ spared = {} =>
        LET absent == IF out.route = "auto" /\ \E r \in record : r.restored /\ r.route = "sink"
                      THEN (CHOOSE r \in record : TRUE).level ELSE 0
        IN  Heard = chosen + absent
=============================================================================
