----------------------------- MODULE StatusScript -----------------------------
(***************************************************************************)
(* The status script and the parser of its output:                         *)
(* src/crates/sbm_parser/src/script.rs, as the agent runs them             *)
(* (src/monitor/src/monitoring/monitoring.rs) over the directory of custom *)
(* commands.                                                               *)
(*                                                                         *)
(* The script prints, for each command, a line that names the section and  *)
(* then what the command prints.  Both go down one stream, which the       *)
(* parser cuts into sections again.  A built-in command prints straight    *)
(* into it; a custom command's output is captured, cut to a maximum and    *)
(* encoded into one line.  The directory may be replaced while the script  *)
(* goes through it.                                                        *)
(***************************************************************************)
EXTENDS Naturals, Sequences, FiniteSets, SequencesExt

CONSTANTS
  Manifest,      \* keys of the built-in commands, in the table's order
  Extended,      \* the ones of the extended function
  Disabled,      \* the sets of keys that may be disabled
  BuiltInOutputs,\* what a built-in command prints: [lines, open]
  CustomOutputs, \* what a custom command prints: a sequence of lines
  MaxOutput,     \* lines that are kept of it
  Strays,        \* names of files that pass the script's test and do not decode
  Directories,   \* contents of the directory: sets of [order, name]
  NoDirectory,   \* no directory
  NoSection,     \* no section
  MaxInstalls    \* bound on replacements of the directory

VARIABLES
  disabled,  \* ScriptOptions.disabled
  cmd_dir,   \* the directory of custom commands
  bak,       \* the installer's backup of it
  installs,  \* how often it was replaced
  func,      \* the function that runs: 1 and 2 of EXTENDED_FUNCS, or 3
  base,      \* which of the two directories the function reads
  to_run,    \* what it has still to print
  stream,    \* its stdout: lines, and whether the last is unterminated
  segments,  \* ScriptExecution.segments
  ran        \* what each function ran; history

scriptVars == <<disabled, cmd_dir, bak, installs, func, base, to_run, stream,
                segments, ran>>
directoryVars == <<cmd_dir, bak, installs>>

-------------------------------------------------------------------------------
(* Lines of the stream.  A line that is appended to an unterminated one is *)
(* not a line of its own.                                                  *)

Text(t) == <<"text", t>>
cmd_marker(k) == <<"builtin", k>>
custom_cmd_marker(n) == IF n \in Strays THEN <<"undecodable", n>> ELSE <<"custom", n>>

(* What a built-in command prints does not look like a marker. *)
Said == {line \in UNION {ToSet(o.lines) : o \in BuiltInOutputs} : line[1] = "text"}

ASSUME ScriptAssumption ==
  /\ Len(Manifest) \in Nat /\ IsInjective(Manifest)
  /\ Extended \subseteq ToSet(Manifest)
  /\ \A o \in BuiltInOutputs : o.lines \in Seq(Said) /\ o.open \in BOOLEAN /\ (o.open => o.lines # <<>>)
  /\ \A k \in ToSet(Manifest) : NoSection # cmd_marker(k)
  /\ \A f \in UNION Directories : NoSection # custom_cmd_marker(f.name)
  /\ \A d \in Directories : \A f, g \in d : f.order = g.order => f = g

(* Mutant: what a custom command prints goes into the stream as it is. *)
Printed(lines) == lines

(* base64 makes one line of whatever there is. *)
Captured(lines) == <<<<"encoded", lines>>>>

Echoed(s, line) ==
  [lines |-> IF s.open THEN Append(Front(s.lines), <<"glued", Last(s.lines), line>>)
             ELSE Append(s.lines, line),
   open |-> FALSE]

Followed(s, lines, open) == [lines |-> s.lines \o lines, open |-> open]

-------------------------------------------------------------------------------
(* parse_script_segments *)

IsCustom(section) == section # NoSection /\ section[1] = "custom"

(* Inside a custom section only another custom section may begin. *)
marker_key(line, allow_builtin) ==
  IF \/ line[1] = "custom"
     \/ line[1] = "builtin" /\ allow_builtin
  THEN line ELSE NoSection

(* A custom section's output is decoded when it is one encoded line. *)
Decoded(section, buf) ==
  IF IsCustom(section) /\ Len(buf) = 1 /\ buf[1][1] = "encoded" THEN buf[1][2] ELSE buf

Flushed(p) ==
  IF p.current = NoSection THEN p.result
  ELSE Append(p.result, [key |-> p.current, output |-> Decoded(p.current, p.buf)])

ParsedLine(p, line) ==
  LET key == marker_key(line, ~IsCustom(p.current))
  IN IF key # NoSection THEN [result |-> Flushed(p), current |-> key, buf |-> <<>>]
     ELSE IF p.current # NoSection THEN [p EXCEPT !.buf = Append(@, line)]
     ELSE p

Parsed(lines) ==
  LET parsed[n \in 0 .. Len(lines)] ==
        IF n = 0 THEN [result |-> <<>>, current |-> NoSection, buf |-> <<>>]
        ELSE ParsedLine(parsed[n - 1], lines[n])
  IN parsed[Len(lines)]

parse_script_segments(lines) == Flushed(Parsed(lines))

(* collect_metrics: the first section of a key counts. *)
SectionOf(key) ==
  LET at == CHOOSE i \in DOMAIN segments :
              /\ segments[i].key = key
              /\ \A j \in 1 .. i - 1 : segments[j].key # key
  IN segments[at].output

custom_cmd_outputs == SelectSeq(segments, LAMBDA s : IsCustom(s.key))

-------------------------------------------------------------------------------
(* build_script *)

segment_list(extended) ==
  {i \in DOMAIN Manifest : (Manifest[i] \in Extended) = extended /\ Manifest[i] \notin disabled}

InDirectory(b) == IF b = "dir" THEN cmd_dir ELSE bak

(* What the function has to print: its commands in the table's order, then *)
(* for the status function the files of the directory: `"$d"/*` is         *)
(* expanded once, in the order of the file names.                          *)
unix_command(f, b) ==
  LET there == InDirectory(b)
  IN {[kind |-> "builtin", order |-> i, name |-> Manifest[i]] : i \in segment_list(f = 1)}
     \cup (IF f = 2 /\ there # NoDirectory
           THEN {[kind |-> "file", order |-> g.order, name |-> g.name] : g \in there} ELSE {})

Before(c, d) ==
  \/ c.kind = "builtin" /\ d.kind = "file"
  \/ c.kind = d.kind /\ c.order < d.order

NewStream == [lines |-> <<>>, open |-> FALSE]

ScriptInit ==
  /\ disabled \in Disabled
  /\ cmd_dir \in Directories \cup {NoDirectory}
  /\ bak = NoDirectory
  /\ installs = 0
  /\ func = 0
  /\ base = "dir"
  /\ to_run = {}
  /\ stream = NewStream
  /\ segments = <<>>
  /\ ran = [f \in 1 .. 2 |-> <<>>]

(* The next function of EXTENDED_FUNCS starts. *)
Starts ==
  /\ func < 2
  /\ to_run = {}
  /\ func' = func + 1
  /\ base' = IF cmd_dir # NoDirectory THEN "dir" ELSE "bak"
  /\ to_run' = unix_command(func', base')
  /\ stream' = NewStream
  /\ UNCHANGED <<disabled, cmd_dir, bak, installs, segments, ran>>

Comes(c, kind) == c \in to_run /\ c.kind = kind /\ \A d \in to_run \ {c} : Before(c, d)

(* A section is whole when its marker and the one that follows it begin a  *)
(* line and can be read.                                                   *)
LastEnds(run, ends) ==
  [i \in DOMAIN run |-> [run[i] EXCEPT !.whole = @ /\ (ends \/ i < Len(run))]]

Ran(key, output, whole, ends) ==
  ran' = [ran EXCEPT ![func] =
            Append(LastEnds(@, ends), [key |-> key, output |-> output, whole |-> whole])]

(* What the function printed is parsed when it succeeded. *)
Recorded(rest, s) ==
  /\ to_run' = rest
  /\ IF rest = {}
     THEN /\ segments' = segments \o parse_script_segments(s.lines)
          /\ stream' = NewStream
     ELSE stream' = s /\ UNCHANGED segments

(* echo <marker>, and the command. *)
RunsBuiltIn ==
  /\ \E c \in to_run, o \in BuiltInOutputs :
       LET key == cmd_marker(c.name)
       IN /\ Comes(c, "builtin")
          /\ Ran(key, o.lines, ~stream.open /\ ~o.open, ~stream.open)
          /\ Recorded(to_run \ {c}, Followed(Echoed(stream, key), o.lines, o.open))
  /\ UNCHANGED <<disabled, directoryVars, func, base>>

(* [ -f "$f" ] || continue *)
IsThere(c) ==
  /\ InDirectory(base) # NoDirectory
  /\ \E g \in InDirectory(base) : g.order = c.order /\ g.name = c.name

(* The marker, the command under its time limit, and what it printed; no   *)
(* temporary file, no output.                                              *)
RunsFile ==
  /\ \E c \in to_run :
       LET key == custom_cmd_marker(c.name)
           begins == ~stream.open /\ c.name \notin Strays
       IN /\ Comes(c, "file")
          /\ IsThere(c)
          /\ \/ \E o \in CustomOutputs :
                  LET kept == SubSeq(o, 1, IF Len(o) < MaxOutput THEN Len(o) ELSE MaxOutput)
                  IN /\ Ran(key, kept, begins, begins)
                     /\ Recorded(to_run \ {c},
                                 Followed(Echoed(stream, key), Captured(kept), FALSE))
             \/ /\ Ran(key, <<>>, begins, begins)
                /\ Recorded(to_run \ {c}, Echoed(stream, key))
  /\ UNCHANGED <<disabled, directoryVars, func, base>>

SkipsFile ==
  /\ \E c \in to_run :
       /\ Comes(c, "file")
       /\ ~IsThere(c)
       /\ Recorded(to_run \ {c}, stream)
  /\ UNCHANGED <<disabled, directoryVars, func, base, ran>>

(* A command that makes the script fail or run out of time: nothing of the *)
(* function is recorded.                                                   *)
FunctionFails ==
  /\ to_run # {}
  /\ to_run' = {}
  /\ stream' = NewStream
  /\ ran' = [ran EXCEPT ![func] = <<>>]
  /\ UNCHANGED <<disabled, directoryVars, func, base, segments>>

-------------------------------------------------------------------------------
(* install_custom_cmds_script, run by the app: the directory moves aside,  *)
(* the new one moves in, and the old one goes.                             *)

MovesDirAside ==
  /\ cmd_dir # NoDirectory
  /\ bak = NoDirectory
  /\ installs < MaxInstalls
  /\ bak' = cmd_dir
  /\ cmd_dir' = NoDirectory
  /\ installs' = installs + 1
  /\ UNCHANGED <<disabled, func, base, to_run, stream, segments, ran>>

MovesDirIn ==
  /\ cmd_dir = NoDirectory
  /\ bak # NoDirectory
  /\ cmd_dir' \in Directories
  /\ UNCHANGED <<disabled, bak, installs, func, base, to_run, stream, segments, ran>>

RemovesBak ==
  /\ cmd_dir # NoDirectory
  /\ bak # NoDirectory
  /\ bak' = NoDirectory
  /\ UNCHANGED <<disabled, cmd_dir, installs, func, base, to_run, stream, segments, ran>>

ScriptNext ==
  \/ Starts
  \/ RunsBuiltIn
  \/ RunsFile
  \/ SkipsFile
  \/ FunctionFails
  \/ MovesDirAside
  \/ MovesDirIn
  \/ RemovesBak

ScriptSpec == ScriptInit /\ [][ScriptNext]_scriptVars

-------------------------------------------------------------------------------
(* Properties *)

Finished == func = 2 /\ to_run = {}

(* Whatever a custom command prints, lines that look like markers          *)
(* included, every section whose own marker and the next one begin a line  *)
(* and can be read comes out with exactly the command's output under its   *)
(* own key; and when all are such, the sections are what was run, in that  *)
(* order, and nothing else (parse_script_segments, unix_custom_cmds).      *)
SectionsAreExact ==
  LET all == ran[1] \o ran[2]
  IN Finished =>
       /\ \A i \in DOMAIN all : all[i].whole =>
            /\ all[i].key[1] = "builtin" => SectionOf(all[i].key) = all[i].output
            /\ \E j \in DOMAIN segments :
                 segments[j] = [key |-> all[i].key, output |-> all[i].output]
       /\ (\A i \in DOMAIN all : all[i].whole) =>
            segments = [i \in DOMAIN all |-> [key |-> all[i].key, output |-> all[i].output]]
=============================================================================
