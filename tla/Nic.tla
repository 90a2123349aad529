-------------------------------- MODULE Nic --------------------------------
(***************************************************************************)
(* The receive ring of the RTL8139: the card writes frames into rx_buffer  *)
(* and rtl8139_receive takes them out.  The ring has RingSize units of 4   *)
(* bytes (8192 bytes); because RCR_WRAP is set the card lets a frame that  *)
(* starts near the end run on into Headroom more units, and starts the     *)
(* next one at its end modulo RingSize.                                    *)
(***************************************************************************)
EXTENDS Integers, Sequences

CONSTANTS
    RingSize,       \* 8192 bytes
    Headroom,       \* 16 + 1500 bytes
    Sizes,          \* units a frame takes, its header and checksum included
    MaxFrames       \* bound on the frames that arrive

VARIABLES
    rx_buffer,      \* what each unit holds: a frame's header, or anything else
    rx_read_offset, \* rtl8139.c: rx_read_offset
    written,        \* the card's write offset
    capr,           \* the read offset the card was last told
    arrived,        \* frames the card has stored
    received        \* frames rtl8139_receive has returned

vars == <<rx_buffer, rx_read_offset, written, capr, arrived, received>>

RxBufSize == RingSize + Headroom

Data == [number |-> 0, size |-> 0]

Init ==
    /\ rx_buffer = [u \in 0..RxBufSize-1 |-> Data]
    /\ rx_read_offset = 0
    /\ written = 0
    /\ capr = 0
    /\ arrived = 0
    /\ received = <<>>

----------------------------------------------------------------------------
(* The card.  BUFE is set when it has nothing between CAPR and its own     *)
(* offset; it keeps a frame only if there is room before CAPR.             *)

Bufe == written = capr

Room == IF Bufe THEN RingSize ELSE (capr - written) % RingSize

CardStores(size) ==
    /\ arrived < MaxFrames
    /\ size < Room
    /\ arrived' = arrived + 1
    /\ rx_buffer' = [u \in DOMAIN rx_buffer |->
           IF u = written THEN [number |-> arrived', size |-> size]
           ELSE IF u \in written+1 .. written+size-1 THEN Data
           ELSE rx_buffer[u]]
    /\ written' = (written + size) % RingSize
    /\ UNCHANGED <<rx_read_offset, capr, received>>

----------------------------------------------------------------------------
\* rtl8139_receive: the frame at the read offset, then the offset moves past
\* it.  A unit that is no header reads as a frame of any length.
Receive ==
    /\ ~Bufe
    /\ LET f == rx_buffer[rx_read_offset]
       IN  \E size \in IF f = Data THEN Sizes ELSE {f.size} :
               /\ rx_read_offset' = (rx_read_offset + size) % RxBufSize
               /\ capr' = rx_read_offset' % RingSize
               /\ received' = Append(received, f.number)
    /\ UNCHANGED <<rx_buffer, written, arrived>>

Next == Receive \/ \E size \in Sizes : CardStores(size)

Spec == Init /\ [][Next]_vars

----------------------------------------------------------------------------
\* The driver returns the frames the card stored, each once and in order:
\* its read offset wraps where the card's write offset does, as the comment
\* at rtl8139.c:284-288 says it must.
FramesInOrder == \A k \in DOMAIN received : received[k] = k
=============================================================================
