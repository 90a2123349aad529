----------------------------- MODULE Keyboard ----------------------------
(***************************************************************************)
(* kernel/drivers/keyboard/keyboard.c: the scancode decoder, the ring that *)
(* feeds programs in raw mode, and the F12 stop flag.  The handler runs     *)
(* behind an interrupt gate, so one scancode is one step; everything else   *)
(* runs with interrupts enabled, so each store to a shared field is a step. *)
(*                                                                         *)
(* A scancode is named by its key.  The modules that extend this one say    *)
(* what shell_handle_char and shell_handle_key do.                         *)
(***************************************************************************)
EXTENDS Integers, Sequences

CONSTANTS RawSize                       \* KB_RAW_BUF_SIZE

VARIABLES shift_held, caps_on, extended,
          raw_mode, raw_buf, raw_head, raw_tail,
          wm_stop_requested,
          accepted                      \* history: the keys the ring took since it was last emptied

ringVars == <<raw_buf, raw_tail, accepted>>
decodeVars == <<shift_held, caps_on, extended>>
kbVars == <<decodeVars, ringVars, raw_mode, raw_head, wm_stop_requested>>

RawSlots == 0 .. (RawSize - 1)

\* scancode_ascii and scancode_ascii_shift: <<plain, shifted>>.
KeyTable ==
    [letter |-> <<"a", "A">>, digit |-> <<"1", "!">>, space |-> <<" ", " ">>,
     backspace |-> <<"BS", "BS">>, enter |-> <<"NL", "NL">>]
AsciiKeys == DOMAIN KeyTable
ExtKeys == {"left", "right", "up", "down", "home", "end", "del"}
Chars == {"a", "A", "1", "!", " ", "BS", "NL"}

KbInit ==
    /\ shift_held = FALSE /\ caps_on = FALSE /\ extended = FALSE
    /\ raw_mode = FALSE
    /\ raw_buf = [i \in RawSlots |-> ""] /\ raw_head = 0 /\ raw_tail = 0
    /\ wm_stop_requested = FALSE
    /\ accepted = <<>>

\* Caps lock inverts shift for letters only.
UseShift(key) == IF caps_on /\ key = "letter" THEN ~shift_held ELSE shift_held
Ascii(key) == KeyTable[key][IF UseShift(key) THEN 2 ELSE 1]

Next1(i) == (i + 1) % RawSize

\* Mutant: a full ring takes the key all the same.
MutRawPush(c) ==
    /\ raw_buf' = [raw_buf EXCEPT ![raw_tail] = c]
    /\ raw_tail' = Next1(raw_tail)
    /\ accepted' = Append(accepted, c)

RawPush(c) ==
    IF Next1(raw_tail) # raw_head
    THEN /\ raw_buf' = [raw_buf EXCEPT ![raw_tail] = c]
         /\ raw_tail' = Next1(raw_tail)
         /\ accepted' = Append(accepted, c)
    ELSE UNCHANGED ringVars

\* A scancode that is a key of its own, one that has a character, and one that
\* is an arrow or edit key for the shell.
Plain(sc) == sc # "f12" /\ ~extended
IsChar(sc) == Plain(sc) /\ sc \in AsciiKeys
IsShellKey(sc) == sc \in ExtKeys /\ extended /\ ~raw_mode

\* keyboard_handler, but for its calls of shell_handle_char and shell_handle_key.
KeyboardHandler(sc) ==
    /\ UNCHANGED <<raw_mode, raw_head>>
    /\ wm_stop_requested' = (wm_stop_requested \/ sc = "f12")
    /\ extended' = (IF sc = "f12" THEN extended ELSE sc = "ext")
    /\ shift_held' = (IF Plain(sc) /\ sc = "shift" THEN TRUE
                      ELSE IF Plain(sc) /\ sc = "shift_release" THEN FALSE ELSE shift_held)
    /\ caps_on' = (IF Plain(sc) /\ sc = "caps" THEN ~caps_on ELSE caps_on)
    /\ IF IsChar(sc) /\ raw_mode THEN RawPush(Ascii(sc)) ELSE UNCHANGED ringVars

\* kb_set_raw_mode: three stores, each of which an interrupt may follow.
SetRawMode(on) == raw_mode' = on /\ UNCHANGED <<decodeVars, ringVars, raw_head, wm_stop_requested>>
ResetTail ==
    /\ raw_tail' = 0 /\ accepted' = <<>>
    /\ UNCHANGED <<decodeVars, raw_buf, raw_mode, raw_head, wm_stop_requested>>
ResetHead == raw_head' = 0 /\ UNCHANGED <<decodeVars, ringVars, raw_mode, wm_stop_requested>>

\* The ends of kb_raw_getchar and kb_raw_getchar_nonblocking: the read of
\* raw_buf, and the store that frees the slot.
RawEmpty == raw_head = raw_tail
RawPeek == raw_buf[raw_head]
RawAdvance == raw_head' = Next1(raw_head) /\ UNCHANGED <<decodeVars, ringVars, raw_mode, wm_stop_requested>>

WmStopAck == wm_stop_requested' = FALSE /\ UNCHANGED <<decodeVars, ringVars, raw_mode, raw_head>>

\* What the ring holds, oldest first.
RawHeld == [i \in 1 .. ((raw_tail - raw_head) % RawSize) |-> raw_buf[(raw_head + i - 1) % RawSize]]
===========================================================================
