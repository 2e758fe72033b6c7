----------------------------- MODULE MediaTool -----------------------------
(***************************************************************************)
(* Media Inspection of an M4A file (server/src/inspect/m4a.rs): the        *)
(* inspecting thread runs ffprobe and ffmpeg one after the other, threads  *)
(* of its own capture what they print, and the inspection may be cancelled *)
(* at any moment.  A tool that prints into a full pipe waits until somebody *)
(* reads, and one that prints into a closed pipe dies.                     *)
(***************************************************************************)
EXTENDS Integers, FiniteSets

CONSTANTS
  MaxPrint,     \* blocks a tool prints on its standard output
  MaxErrors,    \* blocks a tool prints on its standard error
  Pipe,         \* blocks a pipe holds
  ProbeLimit,   \* PROBE_OUTPUT_LIMIT_BYTES
  CoverLimit,   \* MAX_ARTWORK_SIZE_BYTES + 1
  ErrorLimit    \* ERROR_OUTPUT_LIMIT_BYTES

VARIABLES
  file,         \* the file inspected
  stage,        \* what the inspection is about to do or is doing
  child,        \* the tool of this stage
  pipe,         \* blocks in its two pipes
  reader,       \* the threads that capture, and what they kept
  cancelled,    \* the caller gave up
  issues,       \* the failures met so far
  cover,        \* the artwork: none, taken, or left out with a warning
  sound,        \* the tools that ended well and were heard to their end
  result        \* what the inspection returned

vars == <<file, stage, child, pipe, reader, cancelled, issues, cover, sound, result>>

\* What the tools find: pictures attached, sound credit atoms, one audio stream.
Files == [covers : 0 .. 2, credits : BOOLEAN, audio : BOOLEAN]

Tools == {"probe", "artwork", "decode", "measure"}
Streams == {"out", "err"}
NoChild == [state |-> "none", left |-> [s \in Streams |-> 0], total |-> 0, fails |-> FALSE]
NoReader == [s \in Streams |-> [state |-> "none", kept |-> 0, truncated |-> FALSE]]

Init ==
  /\ file \in Files
  /\ stage = "hash"
  /\ child = NoChild
  /\ pipe = [s \in Streams |-> 0]
  /\ reader = NoReader
  /\ cancelled = FALSE /\ issues = {} /\ cover = "none" /\ sound = {} /\ result = "none"

Running == result = "none"

Cancel == ~ cancelled /\ Running /\ cancelled' = TRUE
          /\ UNCHANGED <<file, stage, child, pipe, reader, issues, cover, sound, result>>

----------------------------------------------------------------------------
(* The tools                                                               *)

\* spawn: the tool starts with empty pipes; a capturing thread reads each,
\* except the output of the decoder, which the inspection reads itself.
Start(tool, n, e, fails) ==
  /\ child' = [state |-> "running", left |-> [out |-> n, err |-> e], total |-> n, fails |-> fails]
  /\ pipe' = [s \in Streams |-> 0]
  /\ reader' = [s \in Streams |-> [state |-> "reading", kept |-> 0, truncated |-> FALSE]]
  /\ stage' = tool
  /\ UNCHANGED <<file, cancelled, issues, cover, sound, result>>

\* ffprobe and ffmpeg print what they have to say and exit.
Writes(s) ==
  /\ child.state = "running" /\ child.left[s] > 0
  /\ IF reader[s].state = "closed"
     THEN child' = [child EXCEPT !.state = "exited", !.fails = TRUE] /\ UNCHANGED pipe
     ELSE /\ pipe[s] < Pipe
          /\ pipe' = [pipe EXCEPT ![s] = @ + 1]
          /\ child' = [child EXCEPT !.left[s] = @ - 1]
  /\ UNCHANGED <<file, stage, reader, cancelled, issues, cover, sound, result>>

Exit ==
  /\ child.state = "running" /\ \A s \in Streams : child.left[s] = 0
  /\ child' = [child EXCEPT !.state = "exited"]
  /\ UNCHANGED <<file, stage, pipe, reader, cancelled, issues, cover, sound, result>>

Limit(s) == IF s = "err" THEN ErrorLimit
            ELSE IF stage = "probe" THEN ProbeLimit
            ELSE IF stage = "artwork" THEN CoverLimit ELSE MaxPrint

CaptureUntilFull(s) ==
  /\ reader[s].state = "reading" /\ (stage # "decode" \/ s = "err")
  /\ \/ /\ pipe[s] > 0 /\ reader[s].kept < Limit(s)
        /\ pipe' = [pipe EXCEPT ![s] = @ - 1]
        /\ reader' = [reader EXCEPT ![s].kept = @ + 1]
     \/ /\ pipe[s] = 0 /\ child.state \in {"exited", "killed"}
        /\ reader' = [reader EXCEPT ![s].state = "done"] /\ UNCHANGED pipe
  /\ UNCHANGED <<file, stage, child, cancelled, issues, cover, sound, result>>

\* capture: what exceeds the limit is read all the same and thrown away.
Capture(s) ==
  /\ reader[s].state = "reading" /\ (stage # "decode" \/ s = "err")
  /\ \/ /\ pipe[s] > 0
        /\ pipe' = [pipe EXCEPT ![s] = @ - 1]
        /\ reader' = [reader EXCEPT ![s] =
             IF @.kept < Limit(s) THEN [@ EXCEPT !.kept = @ + 1]
             ELSE [@ EXCEPT !.truncated = TRUE]]
     \/ /\ pipe[s] = 0 /\ child.state \in {"exited", "killed"}
        /\ reader' = [reader EXCEPT ![s].state = "done"] /\ UNCHANGED pipe
  /\ UNCHANGED <<file, stage, child, cancelled, issues, cover, sound, result>>

----------------------------------------------------------------------------
(* The inspection                                                          *)

Return(r) == result' = r /\ stage' = "returned"

\* hash_and_rewind; a cancelled inspection ends here.
Hash ==
  /\ stage = "hash" /\ Running
  /\ IF cancelled
     THEN Return("cancelled") /\ UNCHANGED <<file, child, pipe, reader, cancelled, issues, cover, sound>>
     ELSE \E n \in 0 .. MaxPrint, e \in 0 .. MaxErrors, f \in BOOLEAN : Start("probe", n, e, f)

\* What the next step is once a stage is through: the failures of metadata,
\* artwork and audio are told together.
Joined(found) ==
  /\ issues' = found
  /\ Return(IF found = {} THEN "accepted" ELSE IF "cancelled" \in found THEN "cancelled" ELSE "failed")

\* run: kills the tool when the inspection is cancelled.
KillsTheChild == child' = [child EXCEPT !.state = "killed"]

\* A run that ended without an answer: probe returns, artwork goes on to the
\* audio, measure ends the audio.
WithoutAnswer(why) ==
  CASE stage = "probe" -> /\ issues' = issues \cup {why}
                          /\ Return(IF why = "cancelled" THEN "cancelled" ELSE "failed")
    [] stage = "artwork" -> /\ issues' = IF why = "cancelled" THEN issues \cup {why} ELSE issues
                            /\ stage' = "audio" /\ UNCHANGED result
    [] OTHER -> Joined(issues \cup {why})

RunCancelled ==
  /\ stage \in Tools \ {"decode"} /\ cancelled
  /\ child.state \in {"running", "exited"}
  /\ KillsTheChild
  /\ WithoutAnswer("cancelled")
  /\ UNCHANGED <<file, pipe, reader, cancelled, cover, sound>>

\* The tool's exit was seen and both capturing threads have ended.
Ended == child.state = "exited" /\ \A s \in Streams : reader[s].state = "done"

\* artwork::validate: an image of one block more than allowed is refused.
FitsCover(n) == n > 0 /\ n < CoverLimit

Heard == IF ~ child.fails /\ reader["out"].kept = child.total THEN {stage} ELSE {}

\* An inspection can be cancelled after the exit was seen as well, and the
\* answer is then taken all the same.
RunEnded ==
  /\ stage \in Tools \ {"decode"} /\ Ended
  /\ child' = [child EXCEPT !.state = "none"]
  /\ IF child.fails THEN WithoutAnswer(IF stage = "probe" THEN "container" ELSE "audio")
     ELSE CASE stage = "probe" ->
                 \* validate_streams, read_structured_credits, normalize
                 IF reader["out"].truncated \/ ~ file.audio
                 THEN issues' = issues \cup {"container"} /\ Return("failed")
                 ELSE /\ issues' = IF file.credits THEN issues ELSE issues \cup {"metadata"}
                      /\ stage' = IF file.covers = 1 THEN "cover" ELSE "audio"
                      /\ UNCHANGED result
            [] stage = "artwork" -> stage' = "audio" /\ UNCHANGED <<issues, result>>
            [] OTHER -> Joined(IF reader["out"].kept = 0 THEN issues \cup {"audio"} ELSE issues)
  /\ cover' = IF stage = "probe" /\ file.covers = 2 THEN "warned"
              ELSE IF stage # "artwork" THEN cover
              ELSE IF ~ child.fails /\ FitsCover(reader["out"].kept) THEN "taken" ELSE "warned"
  /\ sound' = sound \cup Heard
  /\ UNCHANGED <<file, pipe, reader, cancelled>>

Extract ==
  /\ stage = "cover" /\ Running
  /\ \E n \in 0 .. MaxPrint, e \in 0 .. MaxErrors, f \in BOOLEAN : Start("artwork", n, e, f)

Decode ==
  /\ stage = "audio" /\ Running
  /\ \E n \in 0 .. MaxPrint, e \in 0 .. MaxErrors, f \in BOOLEAN : Start("decode", n, e, f)

\* decode_to_end reads the decoder's progress line by line and looks at the
\* cancellation with each; saving the progress may fail as well.
ReadProgress ==
  /\ stage = "decode" /\ reader["out"].state = "reading" /\ pipe["out"] > 0
  /\ pipe' = [pipe EXCEPT !["out"] = @ - 1]
  /\ \E saved \in BOOLEAN :
       IF cancelled \/ ~ saved
       THEN /\ reader' = [reader EXCEPT !["out"].state = "closed"]
            /\ child' = [child EXCEPT !.state = IF @ = "running" THEN "killed" ELSE @]
            /\ issues' = issues \cup {IF cancelled THEN "cancelled" ELSE "progress"}
       ELSE /\ reader' = [reader EXCEPT !["out"].kept = @ + 1]
            /\ UNCHANGED <<child, issues>>
  /\ UNCHANGED <<file, stage, cancelled, cover, sound, result>>

EndOfProgress ==
  /\ stage = "decode" /\ reader["out"].state = "reading"
  /\ pipe["out"] = 0 /\ child.state = "exited"
  /\ reader' = [reader EXCEPT !["out"].state = "done"]
  /\ UNCHANGED <<file, stage, child, pipe, cancelled, issues, cover, sound, result>>

\* child.wait, the thread of the error output, then the verdict.
DecodeEnded ==
  /\ stage = "decode" /\ reader["out"].state \in {"done", "closed"}
  /\ child.state \in {"exited", "killed"} /\ reader["err"].state = "done"
  /\ child' = [child EXCEPT !.state = "none"]
  /\ LET found == IF cancelled THEN issues \cup {"cancelled"}
                  ELSE IF reader["out"].state = "closed" THEN issues
                  ELSE IF child.fails \/ reader["out"].kept = 0 THEN issues \cup {"audio"}
                  ELSE issues
     IN  IF cancelled \/ reader["out"].state = "closed" \/ child.fails \/ reader["out"].kept = 0
         THEN Joined(found)
         ELSE issues' = found /\ stage' = "bytes" /\ UNCHANGED result
  /\ sound' = sound \cup Heard
  /\ UNCHANGED <<file, pipe, reader, cancelled, cover>>

Measure ==
  /\ stage = "bytes" /\ Running
  /\ \E n \in 0 .. MaxPrint, e \in 0 .. MaxErrors, f \in BOOLEAN : Start("measure", n, e, f)

Inspect == Hash \/ RunCancelled \/ RunEnded \/ Extract \/ Decode \/ ReadProgress
             \/ EndOfProgress \/ DecodeEnded \/ Measure
Tool == Exit \/ \E s \in Streams : Writes(s)
Threads == \E s \in Streams : Capture(s)

Next == Cancel \/ Inspect \/ Tool \/ Threads

\* The operating system runs the three; whether the caller cancels is open.
Fairness ==
  /\ WF_vars(Inspect) /\ WF_vars(Exit)
  /\ \A s \in Streams : WF_vars(Writes(s)) /\ WF_vars(Capture(s))

Spec == Init /\ [][Next]_vars /\ Fairness

----------------------------------------------------------------------------
TypeOK ==
  /\ file \in Files
  /\ stage \in Tools \cup {"hash", "cover", "audio", "bytes", "returned"}
  /\ child.state \in {"none", "running", "exited", "killed"}
  /\ \A s \in Streams : pipe[s] \in 0 .. Pipe /\ reader[s].kept \in 0 .. MaxPrint + MaxErrors
  /\ issues \subseteq {"cancelled", "container", "metadata", "audio", "progress"}
  /\ result \in {"none", "accepted", "failed", "cancelled"}

\* A file is accepted only when every tool it took ended well and all it
\* printed was read, and a cover is taken only whole: no answer is made of
\* output cut off at a limit, by a crash of the tool or by the cancellation.
AcceptedIsHeard ==
  /\ result = "accepted" => {"probe", "decode", "measure"} \subseteq sound
  /\ cover = "taken" => "artwork" \in sound

\* However the inspection ends, no tool it started is left running.
ToolsAreGone == ~ Running => child.state # "running"
=============================================================================
