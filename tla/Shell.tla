-------------------------------- MODULE Shell --------------------------------
(***************************************************************************)
(* The shell (demos/shell/shell.c): a line editor, and commands that run   *)
(* as threads of their own on the words of the line, which stay where the  *)
(* shell has them.  A character stands for itself and a name is one        *)
(* character long.  Each read gives one key, as from a keyboard.  What the *)
(* commands print is left out, and so are ps and ls, which do as little to *)
(* the threads as echo.                                                    *)
(***************************************************************************)
EXTENDS UserThreadInfo, Sequences, SequencesExt

CONSTANTS
    Letters,             \* the characters of lines, a space among them
    MAX_CMD_LINE,
    MAX_CMD_LINE_PARTS

VARIABLES
    cmd_line,    \* state.cmd_line
    pos,         \* state.pos
    parts,       \* where in cmd_line the words start
    frame,       \* the function that each thread runs, its arguments and where it is
    line         \* history: the line as the user sees it

shell == <<cmd_line, pos, parts, frame, line>>
shellVars == <<infoVars, shell>>

NUL == "NUL"
Space == " "

ASSUME ShellAssumption ==
    MAX_CMD_LINE \in Nat \ {0} /\ MAX_CMD_LINE_PARTS \in Nat \ {0} /\ NUL \notin Letters

run == <<"r">>
help == <<"h">>
quit == <<"q">>
Builtins == {run, help, quit}
Programs == {<<"e">>}

\* A thread that runs the function called name on argc words from the argv-th
\* on.  At "load" it runs the loader, which has the function's arguments.
Frame(name, argc, from, place) ==
    [name |-> name, argc |-> argc, argv |-> from, place |-> place, tid |-> INVALID_THREAD]
NoFrame == Frame(<<>>, 0, 0, "nowhere")

ShellInit ==
    /\ InfoInit
    /\ cmd_line = [i \in 1 .. MAX_CMD_LINE |-> NUL]
    /\ pos = 0
    /\ parts = <<>>
    /\ frame = [t \in Tids |-> IF t = 0 THEN Frame(<<>>, 0, 0, "reading") ELSE NoFrame]
    /\ line = <<>>

----------------------------------------------------------------------------
(* Words.                                                                  *)

\* The string at place i: up to the next NUL.  Past cmd_line comes pos, 0.
StringAt(i) ==
    LET n == SelectInSubSeq(cmd_line, i, MAX_CMD_LINE, LAMBDA c : c = NUL)
    IN  SubSeq(cmd_line, i, IF n = 0 THEN MAX_CMD_LINE ELSE n - 1)

\* What is found up to character i, from what is found before it: the parts that
\* have ended and the start of the last one.  A space ends one unless it is empty.
AfterChar(cmd, i, found) ==
    IF cmd[i] # Space THEN found
    ELSE [starts |-> IF i # found.start THEN Append(found.starts, found.start) ELSE found.starts,
          start |-> i + 1]

PartsFound(cmd) ==
    LET found[i \in 0 .. Len(cmd)] ==
            IF i = 0 THEN [starts |-> <<>>, start |-> 1] ELSE AfterChar(cmd, i, found[i - 1])
    IN  found

\* Where the parts start.
split_cmd_line(cmd) ==
    LET found == PartsFound(cmd)[Len(cmd)]
    IN  IF found.start <= Len(cmd) THEN Append(found.starts, found.start) ELSE found.starts

\* argv[n] of thread t.
argv(t, n) == StringAt(parts[frame[t].argv + n + 1])

----------------------------------------------------------------------------
(* command_loop.                                                           *)

ShellIsAt(place) == AtStage("work") /\ frame[current].place = place
GoOn(place) == frame' = [frame EXCEPT ![current].place = place]
Stop(status) == Exit(status) /\ UNCHANGED <<info, shell>>

handle_char(c) ==
    /\ ShellIsAt("reading")
    /\ pos < MAX_CMD_LINE
    /\ cmd_line' = [cmd_line EXCEPT ![pos + 1] = c]
    /\ pos' = pos + 1
    /\ line' = Append(line, c)
    /\ UNCHANGED <<infoVars, parts, frame>>

handle_backspace ==
    /\ ShellIsAt("reading")
    /\ pos # 0
    /\ pos' = pos - 1
    /\ line' = Front(line)
    /\ UNCHANGED <<infoVars, cmd_line, parts, frame>>

\* Ctrl-C.
handle_end_of_text ==
    /\ ShellIsAt("reading")
    /\ pos' = 0
    /\ line' = <<>>
    /\ UNCHANGED <<infoVars, cmd_line, parts, frame>>

\* Enter, up to the search for the command.  What was typed has no NUL in it.
\* A part too many is written past the end of parts before the assert.
handle_return ==
    /\ ShellIsAt("reading")
    /\ LET cmd == SubSeq(cmd_line, 1, pos)
           starts == split_cmd_line(cmd)
       IN  IF Len(starts) > MAX_CMD_LINE_PARTS
           THEN /\ kernel' = "undefined"
                /\ UNCHANGED <<id, state, family, permissions, stage, current, config, info, shell>>
           ELSE /\ cmd_line' = [i \in 1 .. MAX_CMD_LINE |->
                                  IF i = pos + 1 \/ (i <= pos /\ cmd_line[i] = Space)
                                  THEN NUL ELSE cmd_line[i]]
                /\ pos' = 0
                /\ parts' = starts
                /\ GoOn(IF starts = <<>> THEN "prompt" ELSE "command")
                /\ UNCHANGED <<infoVars, line>>

\* Ctrl-D, and the escape key: the arrows, which are read as three characters,
\* are skipped, all else fails an assert.
Leave ==
    /\ ShellIsAt("reading")
    /\ \E status \in {"exit0", "exit1"} : Stop(status)

\* The end of handle_return.  parts is gone with do_command.
Prompt ==
    /\ ShellIsAt("prompt")
    /\ pos' = 0
    /\ parts' = <<>>
    /\ line' = <<>>
    /\ frame' = [frame EXCEPT ![0] = Frame(<<>>, 0, 0, "reading")]
    /\ UNCHANGED <<infoVars, cmd_line>>

----------------------------------------------------------------------------
(* Commands.                                                               *)

\* add_named_thread_with_args and add_thread_from_file_with_args.  Without a
\* slot the caller goes on at the given place.
AddCommand(name, argc, from, place, otherwise) ==
    /\ \/ \E t \in Tids :
            /\ Create(t)
            /\ frame' = [frame EXCEPT ![t] = Frame(name, argc, from, place),
                                      ![current].place = "adopt", ![current].tid = t]
       \/ /\ \A t \in Tids : ~SlotIsFree(t)
          /\ GoOn(otherwise)
          /\ UNCHANGED infoVars
    /\ UNCHANGED <<cmd_line, pos, parts, line>>

do_command ==
    /\ ShellIsAt("command")
    /\ LET name == StringAt(parts[1])
       IN  \/ name \in Builtins /\ AddCommand(name, Len(parts), 0, "start", "prompt")
           \/ name \in Programs /\ AddCommand(name, Len(parts), 0, "load", "prompt")
           \/ /\ name \notin Builtins \cup Programs
              /\ GoOn("prompt")
              /\ UNCHANGED <<infoVars, cmd_line, pos, parts, line>>

\* Mutated: the new thread gets the words of the run.
RunCommandOwnWords ==
    /\ ShellIsAt("start")
    /\ frame[current].name = run
    /\ LET own_argv == frame[current].argv
           argc == frame[current].argc
       IN  IF argc < 2
           THEN GoOn("return") /\ UNCHANGED <<infoVars, cmd_line, pos, parts, line>>
           ELSE AddCommand(argv(current, 1), argc - 1, own_argv,
                           IF argv(current, 1) = run THEN "start" ELSE "load", "return")

\* run: its arguments without the first one.  A run of run needs no file.
RunCommand ==
    /\ ShellIsAt("start")
    /\ frame[current].name = run
    /\ LET own_argv == frame[current].argv
           argc == frame[current].argc
       IN  IF argc < 2
           THEN GoOn("return") /\ UNCHANGED <<infoVars, cmd_line, pos, parts, line>>
           ELSE AddCommand(argv(current, 1), argc - 1, own_argv + 1,
                           IF argv(current, 1) = run THEN "start" ELSE "load", "return")

\* Mutated: the new thread is not made the child of this one.
AdoptNone ==
    /\ ShellIsAt("adopt")
    /\ GoOn("yield")
    /\ UNCHANGED <<infoVars, cmd_line, pos, parts, line>>

Adopt ==
    /\ ShellIsAt("adopt")
    /\ SetChild(CURRENT_THREAD, frame[current].tid)
    /\ RefreshingCall
    /\ GoOn("yield")
    /\ UNCHANGED <<cmd_line, pos, parts, line>>

\* The shell comes back to its prompt, a run to its end.
YieldToCommand ==
    /\ ShellIsAt("yield")
    /\ YieldTo(frame[current].tid)
    /\ SwitchingCall
    /\ GoOn(IF current = 0 THEN "prompt" ELSE "return")
    /\ UNCHANGED <<cmd_line, pos, parts, line>>

\* load_elf restarts the thread in the program, or exits without the file.
load_elf ==
    /\ ShellIsAt("load")
    /\ IF frame[current].name \in Programs
       THEN /\ Restart({})
            /\ RefreshingCall
            /\ GoOn("start")
            /\ UNCHANGED <<cmd_line, pos, parts, line>>
       ELSE Stop("exit1")

\* help and the programs print and return, quit does not.
Command ==
    /\ ShellIsAt("start")
    /\ frame[current].name # run
    /\ IF frame[current].name = quit THEN Stop("exit0")
       ELSE GoOn("return") /\ UNCHANGED <<infoVars, cmd_line, pos, parts, line>>

\* The rest of thread_start.
CommandEnds ==
    /\ kernel = "up"
    /\ frame[current].place = "return"
    /\ \/ CleanupThread /\ Other /\ UNCHANGED frame
       \/ SetFinished /\ Other /\ UNCHANGED frame
       \/ YieldAsm /\ OtherSwitch /\ frame' = [frame EXCEPT ![current] = NoFrame]
    /\ UNCHANGED <<cmd_line, pos, parts, line>>

ShellNext ==
    \/ Start /\ UNCHANGED shell
    \/ \E c \in Letters : handle_char(c)
    \/ handle_backspace \/ handle_end_of_text \/ handle_return \/ Leave \/ Prompt
    \/ do_command \/ RunCommand \/ Adopt \/ YieldToCommand \/ load_elf \/ Command \/ CommandEnds
    \/ Halted /\ UNCHANGED <<info, shell>>

ShellSpec == ShellInit /\ [][ShellNext]_shellVars

----------------------------------------------------------------------------
(* Properties.                                                             *)

\* The shell prompts and reads only when the command and whatever it started
\* have ended, also when there were not enough slots for all of it.
PromptComesLast ==
    kernel = "up" /\ current = 0 /\ frame[0].place \in {"prompt", "reading"} =>
        \A t \in Tids \ {0} : SlotIsFree(t)

WordStarts(text) ==
    {i \in DOMAIN text : text[i] # Space /\ (i = 1 \/ text[i - 1] = Space)}

\* The word that starts at i: up to a space or the end.
WordAt(text, i) ==
    LET end == CHOOSE j \in i .. Len(text) :
                    /\ \A k \in i .. j : text[k] # Space
                    /\ j = Len(text) \/ text[j + 1] = Space
    IN  SubSeq(text, i, end)

\* The words of a line, in their order.
WordsOf(text) ==
    LET starts == WordStarts(text)
        nth(n) == CHOOSE i \in starts : Cardinality({j \in starts : j <= i}) = n
    IN  [n \in 1 .. Cardinality(starts) |-> WordAt(text, nth(n))]

\* As long as a command runs it finds its own name and the words after it of the
\* line that the user saw, and before it there were only runs.
CommandsGetTheirWords ==
    kernel = "up" => \A t \in Tids \ {0} : frame[t] # NoFrame =>
        LET found == [n \in 1 .. frame[t].argc |-> argv(t, n - 1)]
            words == WordsOf(line)
            skipped == Len(words) - Len(found)
        IN  /\ found # <<>>
            /\ IsSuffix(found, words)
            /\ Head(found) = frame[t].name
            /\ ToSet(SubSeq(words, 1, skipped)) \subseteq {run}
=============================================================================
