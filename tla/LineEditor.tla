---------------------------- MODULE LineEditor ---------------------------
(***************************************************************************)
(* shell/shell.c's line editor, called by the keyboard interrupt, against   *)
(* the main loop of kernel.c that runs the entered line, and loader.c's     *)
(* switch of the keyboard to raw mode around each program it runs.  The     *)
(* cursor on the screen is left out.                                       *)
(*                                                                         *)
(* The main loop runs with interrupts enabled: pc names its next store.     *)
(***************************************************************************)
EXTENDS Keyboard, FiniteSetsExt, TLC

CONSTANTS CmdBufSize,                   \* CMD_BUF_SIZE
          HistorySize,                  \* HISTORY_SIZE
          Keys,                         \* the scancodes that arrive
          KeysAt, EnterAt,              \* when keys, and Enter, arrive outside raw mode
          Programs,                     \* of "app", "wm": what a command may run
          StrayF12,                     \* F12 is also pressed when no WM is running
          MaxAccepted                   \* bound on the keys one program is sent

VARIABLES buf, buf_len, buf_cur, cmd_pending,
          history, history_count, history_next, history_browse, history_saved_line,
          pc, kind,                     \* the main loop, and the program it runs
          peek,                         \* kb_raw_getchar's c, between its two steps
          got,                          \* history: the keys the program has read
          asked                         \* history: F12 was pressed since this WM was started

lineVars == <<buf, buf_len, buf_cur>>
histVars == <<history, history_count, history_next, history_browse, history_saved_line>>
shellVars == <<lineVars, histVars, cmd_pending>>
progVars == <<kind, peek, got, asked>>
conVars == <<kbVars, shellVars, progVars, pc>>

NUL == "NUL"
None == -1
Cells == 0 .. (CmdBufSize - 1)

Init ==
    /\ KbInit
    /\ buf = [i \in Cells |-> NUL] /\ buf_len = 0 /\ buf_cur = 0 /\ cmd_pending = FALSE
    /\ history = [i \in 0 .. (HistorySize - 1) |-> <<>>]
    /\ history_count = 0 /\ history_next = 0 /\ history_browse = None
    /\ history_saved_line = <<>>
    /\ pc = "idle" /\ kind = "none" /\ peek = "" /\ got = <<>> /\ asked = FALSE

\* The C string in b: up to the first NUL.
CString(b) ==
    LET end == Min({i \in Cells : b[i] = NUL} \cup {CmdBufSize})
    IN  [i \in 1 .. end |-> b[i - 1]]

(***************************************************************************)
(* shell_handle_char                                                       *)
(***************************************************************************)
Slot(i) == (i + HistorySize) % HistorySize


HistoryPush(line) ==
    IF line = <<>> \/ (history_count > 0 /\ history[Slot(history_next - 1)] = line)
    THEN UNCHANGED <<history, history_count, history_next>>
    ELSE /\ history' = [history EXCEPT ![history_next] = line]
         /\ history_next' = Slot(history_next + 1)
         /\ history_count' = Min({history_count + 1, HistorySize})

EnterLine ==
    LET b == [buf EXCEPT ![buf_len] = NUL]
    IN  /\ buf' = b
        /\ HistoryPush(CString(b))
        /\ history_browse' = None
        /\ cmd_pending' = TRUE
        /\ UNCHANGED <<buf_len, buf_cur, history_saved_line>>

\* The loop that closes the gap left by the character at position i.
Remove(i) == [j \in Cells |-> IF j \in i .. (buf_len - 2) THEN buf[j + 1] ELSE buf[j]]

Backspace ==
    IF buf_cur > 0
    THEN /\ buf' = Remove(buf_cur - 1)
         /\ buf_len' = buf_len - 1
         /\ buf_cur' = buf_cur - 1
         /\ UNCHANGED <<histVars, cmd_pending>>
    ELSE UNCHANGED shellVars


Insert(c) ==
    LET opened == [j \in Cells |-> IF j \in (buf_cur + 1) .. buf_len THEN buf[j - 1] ELSE buf[j]]
    IN  IF buf_len < CmdBufSize - 1
        THEN /\ buf' = [opened EXCEPT ![buf_cur] = c]
             /\ buf_cur' = buf_cur + 1
             /\ buf_len' = buf_len + 1
             /\ UNCHANGED <<histVars, cmd_pending>>
        ELSE UNCHANGED shellVars

ShellHandleChar(c) ==
    CASE c = "NL" -> EnterLine
      [] c = "BS" -> Backspace
      [] OTHER -> Insert(c)

(***************************************************************************)
(* shell_handle_key                                                        *)
(***************************************************************************)
MoveTo(cur) == buf_cur' = cur /\ UNCHANGED <<buf, buf_len, histVars, cmd_pending>>

\* set_line_from_history over the buffer b: no NUL is stored after the line.
SetLine(b, line) ==
    LET n == Min({Len(line), CmdBufSize - 1})
    IN  /\ buf' = [j \in Cells |-> IF j < n THEN line[j + 1] ELSE b[j]]
        /\ buf_len' = n
        /\ buf_cur' = n

Recalled(browse) == history[Slot(history_next - 1 - browse)]

HistoryUp ==
    IF history_count = 0 THEN UNCHANGED shellVars
    ELSE LET first == history_browse = None
             b == IF first THEN [buf EXCEPT ![buf_len] = NUL] ELSE buf
             browse == IF first THEN 0 ELSE Min({history_browse + 1, history_count - 1})
         IN  /\ history_saved_line' = IF first THEN CString(b) ELSE history_saved_line
             /\ history_browse' = browse
             /\ SetLine(b, Recalled(browse))
             /\ UNCHANGED <<history, history_count, history_next, cmd_pending>>

HistoryDown ==
    IF history_browse = None THEN UNCHANGED shellVars
    ELSE /\ history_browse' = history_browse - 1
         /\ SetLine(buf, IF history_browse = 0 THEN history_saved_line ELSE Recalled(history_browse - 1))
         /\ UNCHANGED <<history, history_count, history_next, history_saved_line, cmd_pending>>

Delete ==
    IF buf_cur < buf_len
    THEN /\ buf' = Remove(buf_cur)
         /\ buf_len' = buf_len - 1
         /\ UNCHANGED <<buf_cur, histVars, cmd_pending>>
    ELSE UNCHANGED shellVars

ShellHandleKey(key) ==
    CASE key = "left"  -> MoveTo(IF buf_cur > 0 THEN buf_cur - 1 ELSE buf_cur)
      [] key = "right" -> MoveTo(IF buf_cur < buf_len THEN buf_cur + 1 ELSE buf_cur)
      [] key = "home"  -> MoveTo(0)
      [] key = "end"   -> MoveTo(buf_len)
      [] key = "up"    -> HistoryUp
      [] key = "down"  -> HistoryDown
      [] key = "del"   -> Delete

(***************************************************************************)
(* The keyboard interrupt                                                  *)
(***************************************************************************)
Moment == IF pc # "idle" THEN pc ELSE IF cmd_pending THEN "pending" ELSE "prompt"
InWm == kind = "wm"

Typed(sc) ==
    /\ ~raw_mode => Moment \in (IF sc = "enter" THEN EnterAt ELSE KeysAt)
    /\ raw_mode => Len(accepted) < MaxAccepted
    /\ sc = "f12" => StrayF12 \/ InWm

KeyInterrupt ==
    \E sc \in Keys :
      /\ Typed(sc)
      /\ KeyboardHandler(sc)
      /\ IF IsChar(sc) /\ ~raw_mode THEN ShellHandleChar(Ascii(sc))
         ELSE IF IsShellKey(sc) THEN ShellHandleKey(sc)
         ELSE UNCHANGED shellVars
      /\ asked' = (asked \/ sc = "f12")
      /\ UNCHANGED <<kind, peek, got, pc>>

(***************************************************************************)
(* The main loop: shell_run_pending_command, one store at a time           *)
(***************************************************************************)
Goto(from, to) == pc = from /\ pc' = to

\* dispatch reads the line, which has no $ to expand, into its own storage.
Dispatch ==
    /\ cmd_pending
    /\ pc = "idle" /\ pc' = (IF buf_len = 0 THEN "len0" ELSE "command")
    /\ buf' = [buf EXCEPT ![buf_len] = NUL]
    /\ UNCHANGED <<kbVars, buf_len, buf_cur, histVars, cmd_pending, progVars>>

\* The last program of the line, or a builtin, has ended.
CommandDone == Goto("command", "len0") /\ UNCHANGED <<kbVars, shellVars, progVars>>

ResetLen ==
    /\ Goto("len0", "cur0")
    /\ buf_len' = 0
    /\ UNCHANGED <<kbVars, buf, buf_cur, histVars, cmd_pending, progVars>>
ResetCur ==
    /\ Goto("cur0", "print")
    /\ buf_cur' = 0
    /\ UNCHANGED <<kbVars, buf, buf_len, histVars, cmd_pending, progVars>>
PrintPrompt == Goto("print", "clear") /\ UNCHANGED <<kbVars, shellVars, progVars>>
ClearPending ==
    /\ Goto("clear", "idle")
    /\ cmd_pending' = FALSE
    /\ UNCHANGED <<kbVars, lineVars, histVars, progVars>>

(***************************************************************************)
(* try_exec and wm_try_exec: raw mode on, the program, raw mode off, and    *)
(* for a window manager wm_stop_ack.                                       *)
(***************************************************************************)
StartProgram ==
    /\ Goto("command", "raw_tail")
    /\ \E k \in Programs : kind' = k
    /\ got' = <<>> /\ asked' = FALSE
    /\ SetRawMode(TRUE)
    /\ UNCHANGED <<shellVars, peek>>
RawTail == pc = "raw_tail" /\ pc' = "raw_head" /\ ResetTail /\ UNCHANGED <<shellVars, progVars>>
RawHead == pc = "raw_head" /\ pc' = "inside" /\ ResetHead /\ UNCHANGED <<shellVars, progVars>>

\* kb_raw_getchar for an app (which waits in it), kb_raw_getchar_nonblocking for
\* a window manager (which does without): the read, then the store.
GetcharRead ==
    /\ pc = "inside" /\ peek = "" /\ ~RawEmpty
    /\ peek' = RawPeek
    /\ UNCHANGED <<kbVars, shellVars, kind, got, asked, pc>>
GetcharTake ==
    /\ peek # ""
    /\ got' = Append(got, peek) /\ peek' = ""
    /\ RawAdvance
    /\ UNCHANGED <<shellVars, kind, asked, pc>>

AppExits ==
    /\ kind = "app" /\ peek = ""
    /\ Goto("inside", "unraw_tail")
    /\ SetRawMode(FALSE)
    /\ UNCHANGED <<shellVars, progVars>>

\* Mutant: the manager acknowledges the request instead of leaving its loop.
MutWmTurn ==
    /\ InWm /\ peek = ""
    /\ pc = "inside" /\ WmStopAck
    /\ UNCHANGED <<shellVars, progVars, pc>>

\* The window manager's loop: tiled's while (!should_quit()), its quit_ack, and
\* the return that follows.
WmTurn ==
    /\ InWm /\ peek = ""
    /\ pc = "inside" /\ pc' = (IF wm_stop_requested THEN "quit_ack" ELSE "inside")
    /\ UNCHANGED <<kbVars, shellVars, progVars>>
WmQuitAck == Goto("quit_ack", "leaving") /\ WmStopAck /\ UNCHANGED <<shellVars, progVars>>
WmReturns == Goto("leaving", "unraw_tail") /\ SetRawMode(FALSE) /\ UNCHANGED <<shellVars, progVars>>

UnrawTail == pc = "unraw_tail" /\ pc' = "unraw_head" /\ ResetTail /\ UNCHANGED <<shellVars, progVars>>
UnrawHead ==
    /\ pc = "unraw_head" /\ pc' = (IF InWm THEN "stop_ack" ELSE "command")
    /\ ResetHead
    /\ kind' = (IF InWm THEN "wm" ELSE "none")
    /\ UNCHANGED <<shellVars, peek, got, asked>>

StopAck == Goto("stop_ack", "command") /\ kind' = "none" /\ WmStopAck /\ UNCHANGED <<shellVars, peek, got, asked>>

MainLoop ==
    \/ Dispatch \/ CommandDone \/ ResetLen \/ ResetCur \/ PrintPrompt \/ ClearPending
    \/ RawTail \/ RawHead \/ GetcharTake
    \/ WmTurn \/ WmQuitAck \/ WmReturns \/ UnrawTail \/ UnrawHead \/ StopAck

Next == KeyInterrupt \/ MainLoop \/ StartProgram \/ GetcharRead \/ AppExits

Spec == Init /\ [][Next]_conVars

\* Interrupts end, so task 0 goes on; no key and no program need ever come.
FairSpec == Spec /\ WF_conVars(MainLoop)


Text(from, to) == [i \in 1 .. Max({0, to - from}) |-> buf[from + i - 1]]
Busy == pc \notin {"idle", "cur0", "print", "clear"}
MaxLine == CmdBufSize - 1

Editor == INSTANCE EditLine WITH
    Char <- Chars, MaxPast <- HistorySize,
    left <- Text(0, Min({buf_cur, buf_len})),
    right <- Text(buf_cur, buf_len),
    past <- [i \in 1 .. history_count |-> Recalled(i - 1)],
    at <- history_browse + 1,
    kept <- history_saved_line,
    due <- IF cmd_pending /\ pc = "idle" THEN <<CString(buf)>> ELSE <<>>,
    busy <- Busy


\* A program reads the keys typed to it in order, none twice, none from before
\* its start: what it has read and what the ring still holds is what the ring took.
KeysInOrder == pc = "inside" => got \o RawHeld = accepted


\* F12 always brings a running window manager back to the command loop.
StopHonoured == (pc = "inside" /\ InWm /\ wm_stop_requested) ~> (pc = "command")
===========================================================================
