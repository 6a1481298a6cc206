--------------------------------- MODULE Kbd ---------------------------------
(***************************************************************************)
(* The keyboard driver (kbd.c): kbdgetc turns the scan codes of key        *)
(* presses and releases, some of them behind an E0 prefix, into characters *)
(* and keeps the modifiers in shift.  The keyboard sends a code at a time, *)
(* so an interrupt may find half of an event.                              *)
(***************************************************************************)
EXTENDS Naturals, Sequences, FiniteSets

CONSTANTS
    Keys,       \* keys of the keyboard: <<scan code, is it sent behind E0?>>
    MaxDown     \* keys held down at a time

\* What the constants have to satisfy.
KbdAssumption == \A k \in Keys : k[1] \in 0..127 /\ k[2] \in BOOLEAN

VARIABLES
    shift,      \* kbdgetc's static variable, as the set of its bits
    down,       \* the keys that are down
    wire,       \* codes sent and not yet read
    char        \* what kbdgetc returned last

vars == <<shift, down, wire, char>>

E0 == 224
shiftcode(d) ==
    CASE d \in {29, 157} -> {"CTL"} [] d \in {42, 54} -> {"SHIFT"} [] d \in {56, 184} -> {"ALT"}
      [] OTHER -> {}
togglecode(d) ==
    CASE d = 58 -> {"CAPSLOCK"} [] d = 69 -> {"NUMLOCK"} [] d = 70 -> {"SCROLLLOCK"} [] OTHER -> {}

\* charcode[shift & (CTL|SHIFT)][d] for the letter A (code 30), with the caps lock
\* exchanging upper and lower case.
charcode(s, d) ==
    CASE d # 30 -> "none"
      [] "CTL" \in s -> "^A"
      [] OTHER -> IF ("SHIFT" \in s) # ("CAPSLOCK" \in s) THEN "A" ELSE "a"

Codes(k, d) == (IF k[2] THEN <<E0>> ELSE <<>>) \o <<d>>
Press(k) ==
    /\ wire = <<>> /\ k \notin down /\ Cardinality(down) < MaxDown
    /\ down' = down \cup {k} /\ wire' = Codes(k, k[1])
    /\ UNCHANGED <<shift, char>>
ReleaseKey(k) ==
    /\ wire = <<>> /\ k \in down
    /\ down' = down \ {k} /\ wire' = Codes(k, k[1] + 128)
    /\ UNCHANGED <<shift, char>>

\* Mutant of Released: the escape is not cleared when a key goes up.
Released_escaped(data) == shift \ shiftcode(data)

\* A key goes up: its modifier and the escape are cleared.
Released(data) ==
    shift \ (shiftcode(IF "E0ESC" \in shift THEN data ELSE data % 128) \cup {"E0ESC"})

\* Mutant of Toggled: toggle keys switch on but not off.
Toggled_on(s, d) == s \cup togglecode(d)

Toggled(s, d) == (s \cup togglecode(d)) \ (s \cap togglecode(d))

\* A key goes down: with the escape pending its code is the extended one.
Pressed(data) ==
    LET d == IF "E0ESC" \in shift THEN data + 128 ELSE data
        s == Toggled((shift \ {"E0ESC"}) \cup shiftcode(d), d)
    IN shift' = s /\ char' = charcode(s, d)

kbdgetc ==
    /\ wire # <<>> /\ wire' = Tail(wire)
    /\ LET data == Head(wire)
       IN \/ data = E0 /\ shift' = shift \cup {"E0ESC"} /\ char' = "none"
          \/ data # E0 /\ data >= 128 /\ shift' = Released(data) /\ char' = "none"
          \/ data < 128 /\ Pressed(data)
    /\ UNCHANGED down

Init == shift = {} /\ down = {} /\ wire = <<>> /\ char = "none"
Next == kbdgetc \/ \E k \in Keys : Press(k) \/ ReleaseKey(k)
Spec == Init /\ [][Next]_vars

------------------------------------------------------------------------------
(* Properties *)

\* When every code has been read, the escape is gone and no modifier is on
\* without a key for it being down: none gets stuck, the keys on the right (sent
\* behind E0) included.
NoStuckModifier ==
    wire = <<>> =>
        shift \subseteq {"CAPSLOCK", "NUMLOCK", "SCROLLLOCK"} \cup UNION {shiftcode(k[1]) : k \in down}

\* Caps lock changes at every press of its key, and at nothing else.
CapsToggles ==
    ("CAPSLOCK" \in shift') # ("CAPSLOCK" \in shift) <=> wire # wire' /\ wire # <<>> /\ Head(wire) = 58
==============================================================================
