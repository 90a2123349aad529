------------------------------- MODULE Shell ------------------------------
(***************************************************************************)
(* shell/shell.c from the entered line on: dispatch, variable expansion,    *)
(* pipelines over kernel/proc/pipe.c, the for loop, the builtins with the   *)
(* environment table, and loader_exec's search for a program.              *)
(*                                                                         *)
(* A line is a sequence of tokens, a string a sequence of words; the words  *)
(* are abstract and what they denote (a path, a PATH list, a number) is     *)
(* given by constants.  Messages on the screen are left out.  The shell is  *)
(* one task: its steps interleave only with those of the app it waits for.  *)
(***************************************************************************)
EXTENDS Integers, SequencesExt, FiniteSetsExt

CONSTANTS Lines,                        \* what may be entered
          EnvMaxVars, MaxSegments, MaxArgs, PipeBufSize, ArgvArea,
          LoopGuard,                    \* the 100000 of run_for_loop
          Dirs,                         \* the directories, as component sequences
          NameOf, PathOf,               \* a directory's path as a word, and a word as a path
          PathList,                     \* a word as the directories of a PATH
          Programs,                     \* <<directory, name>> of every .pexe
          Explicit,                     \* a word with a slash as <<directory, name>>
          IntMax,                       \* the largest int
          AppWords,                     \* what apps write
          Truncated                     \* the names env_set cannot store whole, and what it stores

VARIABLES env_table, cwd, wm_default,
          pipe_buf, pipe_on, stdin_data, stdin_pos,
          pc, segs, stage, loop,
          prev,                         \* history: what the previous stage wrote
          seen,                         \* history: what this app has read from stdin
          given,                        \* history: the stdin text among this app's arguments
          set                           \* history: what setenv and the shell last gave each variable

envVars == <<env_table, set>>
pipeVars == <<pipe_buf, pipe_on>>
stdinVars == <<stdin_data, stdin_pos>>
ctlVars == <<segs, stage, loop>>
appVars == <<seen, given>>
vars == <<envVars, cwd, wm_default, pipeVars, stdinVars, ctlVars, appVars, prev, pc>>

Nothing == <<>>
NoLoop == [on |-> FALSE]

(***************************************************************************)
(* The environment table.  A name longer than ENV_NAME_MAX - 1 is compared  *)
(* whole and stored truncated.                                             *)
(***************************************************************************)
Slots == 1 .. EnvMaxVars
Unused == [used |-> FALSE]
Holds(t, i, n) == t[i].used /\ t[i].name = n
Find(t, n) == {i \in Slots : Holds(t, i, n)}

EnvHas(t, n) == Find(t, n) # {}
EnvGet(t, n) == IF EnvHas(t, n) THEN t[Min(Find(t, n))].val ELSE Nothing

Stored(n) == IF n \in DOMAIN Truncated THEN Truncated[n] ELSE n


EnvSet(t, n, v) ==
    LET free == {i \in Slots : ~t[i].used}
    IN  IF EnvHas(t, n) THEN [t EXCEPT ![Min(Find(t, n))].val = v]
        ELSE IF free = {} THEN t
        ELSE [t EXCEPT ![Min(free)] = [used |-> TRUE, name |-> Stored(n), val |-> v]]

EnvUnset(t, n) == IF EnvHas(t, n) THEN [t EXCEPT ![Min(Find(t, n))] = Unused] ELSE t

\* What a table of EnvMaxVars entries should hold after the same calls.
Assign(m, n, v) == IF n \in DOMAIN m \/ Cardinality(DOMAIN m) < EnvMaxVars THEN (n :> v) @@ m ELSE m
Unassign(m, n) == [k \in DOMAIN m \ {n} |-> m[k]]

SetVar(n, v) == env_table' = EnvSet(env_table, n, v) /\ set' = Assign(set, n, v)
UnsetVar(n) == env_table' = EnvUnset(env_table, n) /\ set' = Unassign(set, n)

CWD == <<"CWD">>
VER == <<"VER">>
PATH == <<"PATH">>
Version == <<"GannetOS">>

\* shell_init
InitialVars == <<<<PATH, <<"/bin:/usr">>>>, <<VER, Version>>, <<CWD, <<NameOf[Nothing]>>>>>>

Init ==
    /\ env_table = FoldLeft(LAMBDA t, v : EnvSet(t, v[1], v[2]), [i \in Slots |-> Unused], InitialVars)
    /\ set = FoldLeft(LAMBDA m, v : Assign(m, v[1], v[2]), <<>>, InitialVars)
    /\ cwd = Nothing /\ wm_default = Nothing
    /\ pipe_buf = Nothing /\ pipe_on = FALSE
    /\ stdin_data = FALSE /\ stdin_pos = 0
    /\ pc = "prompt" /\ segs = Nothing /\ stage = 0 /\ loop = NoLoop
    /\ prev = Nothing /\ seen = Nothing /\ given = Nothing

(***************************************************************************)
(* Expansion, splitting and paths                                          *)
(***************************************************************************)
ResolveVar(n) == IF n = <<"TIME">> THEN <<"clock">> ELSE EnvGet(env_table, n)

ExpandVars(tokens) ==
    FlattenSeq([i \in DOMAIN tokens |->
                  IF tokens[i][1] = "var" THEN ResolveVar(<<tokens[i][2]>>) ELSE <<tokens[i][2]>>])

\* dispatch's split on | outside (( )), which drops what follows the last
\* segment there is room for.
Segments(words) ==
    LET Step(a, w) ==
          IF w = "|" /\ a.depth = 0 THEN [a EXCEPT !.done = Append(@, a.cur), !.cur = Nothing]
          ELSE [a EXCEPT !.cur = Append(@, w),
                         !.depth = IF w = "((" THEN @ + 1 ELSE IF w = "))" THEN Max({0, @ - 1}) ELSE @]
        all == FoldLeft(Step, [done |-> Nothing, cur |-> Nothing, depth |-> 0], words)
        parts == IF all.cur = Nothing THEN all.done ELSE Append(all.done, all.cur)
    IN  SubSeq(parts, 1, Min({Len(parts), MaxSegments}))

\* A string that is no known path is a relative one that leads nowhere.
AsPath(text) ==
    IF Len(text) = 1 /\ text[1] \in DOMAIN PathOf THEN PathOf[text[1]] ELSE [from |-> "cwd", comps |-> <<"?">>]

ResolvePath(text) ==
    LET p == AsPath(text)
        Step(r, c) == IF c = "." THEN r
                      ELSE IF c = ".." THEN SubSeq(r, 1, Max({0, Len(r) - 1}))
                      ELSE Append(r, c)
        base == CASE p.from = "root" -> Nothing [] p.from = "home" -> <<"home">> [] OTHER -> cwd
    IN  FoldLeft(Step, base, p.comps)

PathText(dir) == IF dir \in DOMAIN NameOf THEN <<NameOf[dir]>> ELSE <<"?">>

(***************************************************************************)
(* run_segment's arguments: each a string.  A path command's first operand  *)
(* is made absolute; the piped-in text is one more argument.               *)
(***************************************************************************)
PathCmds == {"ls", "cat", "rm", "mkdir", "rmdir", "write"}

SplitArgs(words) == [i \in 1 .. Min({Len(words), MaxArgs}) |-> <<words[i]>>]

WithPath(a) ==
    LET cmd == a[1][1]
        b == IF cmd = "ls" /\ Len(a) = 1 THEN Append(a, PathText(cwd)) ELSE a
        at == IF cmd = "rmdir" /\ Len(b) > 2 /\ b[2] = <<"-r">> THEN 3 ELSE 2
    IN  IF cmd \in PathCmds /\ Len(b) > 1 THEN [b EXCEPT ![at] = PathText(ResolvePath(b[at]))] ELSE b

Words == IF loop.on THEN ExpandVars(loop.body) ELSE segs[stage]

\* dispatch's local stdin_data: none in a loop body or a first stage, pipe_buf
\* itself after that.
PipedIn == ~loop.on /\ stage > 1

Argv ==
    LET a == SplitArgs(Words)
        b == WithPath(a)
    IN  IF a = Nothing THEN a
        ELSE IF PipedIn /\ Len(b) < MaxArgs THEN Append(b, pipe_buf) ELSE b

Arg(i) == Argv[i]
Cmd == Arg(1)[1]
Argc == Len(Argv)

(***************************************************************************)
(* pipe.c.  pipe_buf is the text up to its NUL; stdin_data points at it or  *)
(* is NULL.                                                                *)
(***************************************************************************)
Captured(text) == SubSeq(pipe_buf \o text, 1, Min({Len(pipe_buf) + Len(text), PipeBufSize - 1}))

\* What the shell and the apps do with output while pipe_active().
Emit(text) ==
    /\ pipe_buf' = IF pipe_on THEN Captured(text) ELSE pipe_buf
    /\ UNCHANGED pipe_on

StdinRest == IF stdin_data THEN SubSeq(pipe_buf, stdin_pos + 1, Len(pipe_buf)) ELSE Nothing

(***************************************************************************)
(* dispatch                                                                *)
(***************************************************************************)
\* A line that is only a variable is shown; one that expands to nothing is done.
EnterCommand ==
    /\ pc = "prompt"
    /\ \E l \in Lines :
         /\ l.kind = "line"
         /\ LET shown == Len(l.tokens) = 1 /\ l.tokens[1][1] = "var"
                s == Segments(ExpandVars(l.tokens))
            IN  IF shown \/ s = Nothing THEN UNCHANGED <<pc, segs, stage>>
                ELSE pc' = "begin" /\ segs' = s /\ stage' = 1
    /\ UNCHANGED <<envVars, cwd, wm_default, pipeVars, stdinVars, loop, appVars, prev>>


\* pipe_set_stdin, and pipe_begin for every stage but the last.
Begin ==
    /\ pc = "begin" /\ pc' = "stage"
    /\ stdin_data' = (stage > 1) /\ stdin_pos' = 0
    /\ IF stage < Len(segs) THEN pipe_buf' = Nothing /\ pipe_on' = TRUE ELSE UNCHANGED pipeVars
    /\ UNCHANGED <<envVars, cwd, wm_default, ctlVars, appVars, prev>>

\* pipe_end, and on to the next stage.
End ==
    /\ pc = "end" /\ ~loop.on
    /\ LET more == stage < Len(segs)
       IN  /\ pc' = (IF more THEN "begin" ELSE "prompt")
           /\ stage' = (IF more THEN stage + 1 ELSE 0)
           /\ segs' = (IF more THEN segs ELSE Nothing)
           /\ pipe_on' = FALSE
           /\ prev' = (IF more THEN pipe_buf ELSE Nothing)
    /\ UNCHANGED <<envVars, cwd, wm_default, pipe_buf, stdinVars, loop, appVars>>

(***************************************************************************)
(* run_for_loop                                                            *)
(***************************************************************************)
EnterFor ==
    /\ pc = "prompt"
    /\ \E l \in Lines :
         /\ l.kind = "for"
         /\ loop' = [on |-> TRUE, var |-> l.var, val |-> l.start, op |-> l.op, end |-> l.end,
                     step |-> l.step, body |-> l.body, guard |-> 0]
    /\ pc' = "loop"
    /\ UNCHANGED <<envVars, cwd, wm_default, pipeVars, stdinVars, segs, stage, appVars, prev>>

WrapInt(v) == ((v + IntMax + 1) % (2 * IntMax + 2)) - (IntMax + 1)

Continues(op, a, b) ==
    CASE op = "<" -> a < b [] op = ">" -> a > b [] op = "<=" -> a <= b
      [] op = ">=" -> a >= b [] op = "==" -> a = b [] op = "!=" -> a # b

\* Mutant: the guard is not counted.
MutLoopTest ==
    /\ pc = "loop"
    /\ IF Continues(loop.op, loop.val, loop.end)
       THEN /\ SetVar(loop.var, <<ToString(loop.val)>>)
            /\ pc' = "stage" /\ UNCHANGED loop
       ELSE pc' = "prompt" /\ loop' = NoLoop /\ UNCHANGED envVars
    /\ UNCHANGED <<cwd, wm_default, pipeVars, stdinVars, segs, stage, appVars, prev>>

LoopTest ==
    /\ pc = "loop"
    /\ IF loop.guard < LoopGuard /\ Continues(loop.op, loop.val, loop.end)
       THEN /\ SetVar(loop.var, <<ToString(loop.val)>>)
            /\ loop' = [loop EXCEPT !.guard = @ + 1]
            /\ pc' = "stage"
       ELSE pc' = "prompt" /\ loop' = NoLoop /\ UNCHANGED envVars
    /\ UNCHANGED <<cwd, wm_default, pipeVars, stdinVars, segs, stage, appVars, prev>>

LoopStep ==
    /\ pc = "end" /\ loop.on
    /\ pc' = "loop"
    /\ loop' = [loop EXCEPT !.val = WrapInt(@ + loop.step)]
    /\ UNCHANGED <<envVars, cwd, wm_default, pipeVars, stdinVars, segs, stage, appVars, prev>>

(***************************************************************************)
(* run_segment: the builtins                                               *)
(***************************************************************************)
InStage == pc = "stage"
Builtin(cmds) == InStage /\ Argc > 0 /\ Cmd \in cmds /\ pc' = "end"
restVars == <<stdinVars, ctlVars, appVars, prev>>

EmptySegment ==
    /\ InStage /\ Argc = 0 /\ pc' = "end"
    /\ UNCHANGED <<envVars, cwd, wm_default, pipeVars, restVars>>

\* These write to the screen even in a pipeline.
ScreenCmd ==
    /\ Builtin({"clear", "help", "inodes"})
    /\ UNCHANGED <<envVars, cwd, wm_default, pipeVars, restVars>>

AllVars == FlattenSeq([i \in Slots |-> IF env_table[i].used THEN env_table[i].name \o env_table[i].val ELSE Nothing])

Report ==
    CASE Cmd = "ver" -> (IF EnvHas(env_table, VER) THEN EnvGet(env_table, VER) ELSE Version) \o <<"NL">>
      [] Cmd = "pwd" -> PathText(cwd) \o <<"NL">>
      [] Cmd = "getenv" -> IF Argc < 2 THEN Nothing ELSE EnvGet(env_table, Arg(2)) \o <<"NL">>
      [] Cmd = "printenv" -> AllVars

ReportCmd ==
    /\ Builtin({"ver", "pwd", "getenv", "printenv"})
    /\ Emit(Report)
    /\ UNCHANGED <<envVars, cwd, wm_default, restVars>>


Cd ==
    LET dir == IF Argc > 1 THEN ResolvePath(Arg(2)) ELSE Nothing
    IN  /\ Builtin({"cd"})
        /\ IF dir \in Dirs
           THEN cwd' = dir /\ SetVar(CWD, PathText(dir))
           ELSE UNCHANGED <<cwd, envVars>>
        /\ UNCHANGED <<wm_default, pipeVars, restVars>>

Setenv ==
    /\ Builtin({"setenv"})
    /\ IF Argc < 2 \/ Arg(2) \in {CWD, VER} THEN UNCHANGED envVars
       ELSE IF Argc >= 3 THEN SetVar(Arg(2), Arg(3)) ELSE UnsetVar(Arg(2))
    /\ UNCHANGED <<cwd, wm_default, pipeVars, restVars>>

\* wm_command.  /etc/wm_default is read and written whole; a manager that is
\* started runs to its end within the step.
Wm ==
    /\ Builtin({"wm"})
    /\ wm_default' = (IF Argc >= 3 /\ Arg(2) = <<"default">> THEN Arg(3) ELSE wm_default)
    /\ Emit(CASE Argc >= 2 /\ Arg(2) = <<"start">> /\ (Argc >= 3 \/ wm_default # Nothing) -> Nothing
              [] Argc = 2 /\ Arg(2) = <<"default">> /\ wm_default # Nothing -> wm_default \o <<"NL">>
              [] OTHER -> <<"message">>)
    /\ UNCHANGED <<envVars, cwd, restVars>>

Builtins == {"clear", "help", "inodes", "ver", "pwd", "getenv", "printenv", "cd", "setenv", "wm"}

(***************************************************************************)
(* loader_exec and the app it starts                                       *)
(***************************************************************************)
PathDirs ==
    LET v == EnvGet(env_table, PATH)
    IN  IF Len(v) = 1 /\ v[1] \in DOMAIN PathList THEN PathList[v[1]] ELSE Nothing

\* The directories tried, in order: the current one first unless PATH names it.
SearchOrder == IF cwd \in Range(PathDirs) THEN PathDirs ELSE <<cwd>> \o PathDirs

\* A name with a slash in it is tried as it stands and nowhere else.
Found ==
    LET tried == IF Cmd \in DOMAIN Explicit THEN {Explicit[Cmd]}
                 ELSE {<<d, Cmd>> : d \in Range(SearchOrder)}
    IN  tried \cap Programs

External == InStage /\ Argc > 0 /\ Cmd \notin Builtins

NotFound ==
    /\ External /\ Found = {}
    /\ pc' = "end"
    /\ UNCHANGED <<envVars, cwd, wm_default, pipeVars, restVars>>

\* try_exec copies the arguments into the app's own memory, as far as they fit.
StartApp ==
    /\ External /\ Found # {}
    /\ pc' = "app"
    /\ given' = (IF PipedIn THEN SubSeq(Last(Argv), 1, Min({Len(Last(Argv)), ArgvArea})) ELSE Nothing)
    /\ seen' = Nothing
    /\ UNCHANGED <<envVars, cwd, wm_default, pipeVars, stdinVars, ctlVars, prev>>

\* sys_read_stdin with room for one word, or for all.
AppReads ==
    /\ pc = "app" /\ StdinRest # Nothing
    /\ \E n \in {1, Len(StdinRest)} :
         /\ seen' = seen \o SubSeq(StdinRest, 1, n)
         /\ stdin_pos' = stdin_pos + n
    /\ UNCHANGED <<envVars, cwd, wm_default, pipeVars, stdin_data, ctlVars, given, prev, pc>>

AppWrites ==
    /\ pc = "app" /\ pipe_on
    /\ \E w \in AppWords : Emit(<<w>>)
    /\ UNCHANGED <<envVars, cwd, wm_default, stdinVars, ctlVars, appVars, prev, pc>>

AppExits ==
    /\ pc = "app" /\ pc' = "end"
    /\ seen' = Nothing /\ given' = Nothing
    /\ UNCHANGED <<envVars, cwd, wm_default, pipeVars, stdinVars, ctlVars, prev>>

ShellStep ==
    \/ Begin \/ End \/ LoopTest \/ LoopStep
    \/ EmptySegment \/ ScreenCmd \/ ReportCmd \/ Cd \/ Setenv \/ Wm \/ NotFound \/ StartApp

Next == EnterCommand \/ EnterFor \/ ShellStep \/ AppReads \/ AppWrites \/ AppExits

Spec == Init /\ [][Next]_vars

\* The shell's task is scheduled, and every app ends.
FairSpec == Spec /\ WF_vars(ShellStep) /\ WF_vars(AppExits)




\* Every line ends: no pipeline and no loop, wrong-way ones included, keeps the prompt.
PromptReturns == (pc # "prompt") ~> (pc = "prompt")
===========================================================================
