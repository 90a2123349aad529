----------------------------- MODULE EditLine ----------------------------
(***************************************************************************)
(* What the shell's line editor promises the person typing: a line with a   *)
(* cursor in it, the lines entered before, and a line that, once entered,   *)
(* is the line that is run.  LineEditor implements this.                   *)
(***************************************************************************)
EXTENDS Integers, Sequences

CONSTANTS Char,                         \* what can be typed
          MaxLine,                      \* the longest line
          MaxPast                       \* how many entered lines are remembered

VARIABLES left, right,                  \* the line, before and after the cursor
          past,                         \* the remembered lines, newest first
          at,                           \* the remembered line on show, 0 for none
          kept,                         \* the unfinished line put aside while at > 0
          due,                          \* <<>>, or <<the entered line that is to run>>
          busy                          \* a command is running

vars == <<left, right, past, at, kept, due, busy>>

Line == left \o right

Init ==
    /\ left = <<>> /\ right = <<>>
    /\ past = <<>> /\ at = 0 /\ kept = <<>>
    /\ due = <<>> /\ busy = FALSE

\* Only the line or the cursor in it changes.
Edit ==
    /\ \/ /\ Len(Line) < MaxLine
          /\ \E c \in Char : left' = Append(left, c)
          /\ UNCHANGED right
       \/ /\ left # <<>>
          /\ left' = SubSeq(left, 1, Len(left) - 1)
          /\ UNCHANGED right
       \/ /\ right # <<>>
          /\ right' = Tail(right)
          /\ UNCHANGED left
    /\ UNCHANGED <<past, at, kept, due, busy>>

\* One to the left or right, or to either end.
Move ==
    /\ left' \o right' = Line
    /\ Len(left') \in {Len(left) - 1, Len(left) + 1, 0, Len(Line)}
    /\ UNCHANGED <<past, at, kept, due, busy>>

Show(l) == left' = l /\ right' = <<>>

Older ==
    /\ past # <<>>
    /\ at' = IF at < Len(past) THEN at + 1 ELSE at
    /\ kept' = IF at = 0 THEN Line ELSE kept
    /\ Show(past[at'])
    /\ UNCHANGED <<past, due, busy>>

Newer ==
    /\ at > 0
    /\ at' = at - 1
    /\ Show(IF at = 1 THEN kept ELSE past[at - 1])
    /\ UNCHANGED <<past, kept, due, busy>>

\* An empty line, or one equal to the newest, is not remembered again.
Remember(l) ==
    IF l = <<>> \/ (past # <<>> /\ past[1] = l) THEN past
    ELSE SubSeq(<<l>> \o past, 1, IF Len(past) < MaxPast THEN Len(past) + 1 ELSE MaxPast)

Enter ==
    /\ due = <<>> /\ ~busy
    /\ due' = <<Line>>
    /\ past' = Remember(Line)
    /\ at' = 0
    /\ UNCHANGED <<left, right, kept, busy>>

Start ==
    /\ due # <<>>
    /\ due' = <<>> /\ busy' = TRUE
    /\ UNCHANGED <<left, right, past, at, kept>>

\* The command ends; what was typed meanwhile is dropped.
Finish ==
    /\ busy /\ busy' = FALSE
    /\ Show(<<>>)
    /\ UNCHANGED <<past, at, kept, due>>

Next == Edit \/ Move \/ Older \/ Newer \/ Enter \/ Start \/ Finish

Spec == Init /\ [][Next]_vars
===========================================================================
