------------------------------ MODULE Keyboard ------------------------------
(***************************************************************************)
(* drivers/keyboard.c: the decoder of scan codes and the ring between the  *)
(* interrupt handler and the event loop, as operators on the static        *)
(* variables of the driver; and the bytes a keyboard sends.                *)
(*                                                                         *)
(* A byte is a key code and the release bit, or the prefix Extended.  A    *)
(* character is the key and whether the shifted table gave it; keys        *)
(* without a character are in Silent.  One layout is modelled.             *)
(***************************************************************************)
EXTENDS Integers, Sequences

CONSTANTS
  BufferSize,   \* KEYBOARD_BUFFER_SIZE
  Letters,      \* key codes whose character is a letter
  Silent        \* key codes without one

LeftShift == "left_shift"
RightShift == "right_shift"
Control == "control"
Alt == "alt"
CapsLock == "caps_lock"
Extended == [code |-> "E0", up |-> TRUE]

Down(code) == [code |-> code, up |-> FALSE]
Up(code) == [code |-> code, up |-> TRUE]

keyboard_init ==
  [left |-> FALSE, right |-> FALSE, control |-> FALSE, alt |-> FALSE,
   caps |-> FALSE, prefix |-> FALSE,
   buffer |-> [i \in 0 .. BufferSize - 1 |-> <<>>], head |-> 0, tail |-> 0, dropped |-> 0]

keyboard_has_pending(k) == k.head # k.tail

enqueue_character(k, character) ==
  LET next == (k.head + 1) % BufferSize
  IN  IF next = k.tail THEN [k EXCEPT !.dropped = @ + 1]
      ELSE [k EXCEPT !.buffer[k.head] = character, !.head = next]

(* A key that is neither a modifier nor released. *)
Typed(k, code) ==
  LET shift == k.left \/ k.right
  IN  IF code \in Silent \/ k.control \/ k.alt THEN k
      ELSE enqueue_character(k, <<code, shift # (k.caps /\ code \in Letters)>>)

(* Mutant of Prefixed: what follows a prefix is decoded like any byte. *)
PrefixedPlain(k, byte) ==
  CASE byte.code = LeftShift  -> [k EXCEPT !.left = ~byte.up, !.prefix = FALSE]
    [] byte.code = Control    -> [k EXCEPT !.control = ~byte.up, !.prefix = FALSE]
    [] byte.code = Alt        -> [k EXCEPT !.alt = ~byte.up, !.prefix = FALSE]
    [] OTHER                  -> [k EXCEPT !.prefix = FALSE]

(* The byte after a prefix: only the right Control and Alt count. *)
Prefixed(k, byte) ==
  CASE byte.code = Control -> [k EXCEPT !.control = ~byte.up, !.prefix = FALSE]
    [] byte.code = Alt     -> [k EXCEPT !.alt = ~byte.up, !.prefix = FALSE]
    [] OTHER               -> [k EXCEPT !.prefix = FALSE]

(* Any other byte. *)
Plain(k, byte) ==
  CASE byte.code = LeftShift  -> [k EXCEPT !.left = ~byte.up]
    [] byte.code = RightShift -> [k EXCEPT !.right = ~byte.up]
    [] byte.code = Control    -> [k EXCEPT !.control = ~byte.up]
    [] byte.code = Alt        -> [k EXCEPT !.alt = ~byte.up]
    [] byte.code = CapsLock   -> [k EXCEPT !.caps = IF byte.up THEN @ ELSE ~@]
    [] OTHER                  -> IF byte.up THEN k ELSE Typed(k, byte.code)

(* keyboard_irq_handler with the byte it reads from port 0x60. *)
keyboard_irq_handler(k, byte) ==
  IF byte = Extended THEN [k EXCEPT !.prefix = TRUE]
  ELSE IF k.prefix THEN Prefixed(k, byte) ELSE Plain(k, byte)

(* keyboard_read_char: the load of the character, then the store of the    *)
(* tail.                                                                   *)
FirstCharacter(k) == k.buffer[k.tail]
AdvanceTail(k) == [k EXCEPT !.tail = (k.tail + 1) % BufferSize]

(* The characters waiting in the ring, oldest first. *)
Waiting(k) ==
  [i \in 1 .. (k.head - k.tail) % BufferSize |-> k.buffer[(k.tail + i - 1) % BufferSize]]

-----------------------------------------------------------------------------
(* The keyboard (external): the bytes of pressing or releasing a key while *)
(* held is the set of keys that are down.  A grey key such as an arrow     *)
(* sends a prefix, and while a shift is held it wraps itself in a fake     *)
(* release and press of that shift.                                        *)
Grey(key) == key \in {"right_control", "right_alt", "arrow"}

CodeOf(key) ==
  CASE key = "right_control" -> Control
    [] key = "right_alt"     -> Alt
    [] OTHER                 -> key

Wrapped(key, held) == key = "arrow" /\ LeftShift \in held

PressBytes(key, held) ==
  IF Wrapped(key, held) THEN <<Extended, Up(LeftShift), Extended, Down(key)>>
  ELSE IF Grey(key) THEN <<Extended, Down(CodeOf(key))>> ELSE <<Down(key)>>

ReleaseBytes(key, held) ==
  IF Wrapped(key, held) THEN <<Extended, Up(key), Extended, Down(LeftShift)>>
  ELSE IF Grey(key) THEN <<Extended, Up(CodeOf(key))>> ELSE <<Up(key)>>

=============================================================================
