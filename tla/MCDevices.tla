------------------------------ MODULE MCDevices ------------------------------
(***************************************************************************)
(* Instances for TLC of the parts that meet interrupts: spinlocks, the     *)
(* clock, console input, keyboard and screen.  The module extends that of  *)
(* the locks and instantiates the others.  A behaviour is one of one       *)
(* instance, which component names; the variables that it does not have    *)
(* keep one value.                                                         *)
(***************************************************************************)
EXTENDS Spinlock, Sequences, TLC

CONSTANTS a, noone

VARIABLES
    component, killed,
    buf, r, w, e, lock, place, n, copied, result,
    ticks, tickslock, c, gone, since,
    crt, reg, idx, todo, pc, pos, text,
    shift, down, wire, char

\* Two readers, a ring of three characters and indices that wrap at six.
Input == INSTANCE Console WITH Letters <- {a}, INPUT_BUF <- 3, Word <- 6, MaxRead <- 2, NoOne <- noone

\* Two sleepers and a counter that wraps at five.
Clock == INSTANCE Ticks WITH Null <- noone, Word <- 5

\* Two rows of three characters, printed by one CPU.
Cga == INSTANCE Screen WITH COLS <- 3, ROWS <- 2, BASE <- 4, Texts <- {<<"a", "newline">>, <<"b">>}, SMP <- FALSE

\* Both Shift and Ctrl keys, right Alt, Caps Lock and A; four down at a time.
Keyboard == INSTANCE Kbd WITH MaxDown <- 4,
    Keys <- {<<42, FALSE>>, <<54, FALSE>>, <<29, FALSE>>, <<29, TRUE>>, <<56, TRUE>>, <<58, FALSE>>, <<30, FALSE>>}

ASSUME
    /\ Input!ConsoleAssumption /\ Clock!TicksAssumption /\ SpinlockAssumption
    /\ Cga!ScreenAssumption /\ Keyboard!KbdAssumption

inputVars == <<buf, r, w, e, lock, place, n, copied, result>>
clockVars == <<ticks, tickslock, c, gone, since>>
cgaVars == <<crt, reg, idx, todo, pc, pos, text>>
keyVars == <<shift, down, wire, char>>
DevicesVars == <<component, killed, inputVars, clockVars, vars, cgaVars, keyVars>>

NoInput == buf = 0 /\ r = 0 /\ w = 0 /\ e = 0 /\ lock = 0 /\ place = 0 /\ n = 0 /\ copied = 0 /\ result = 0
NoClock == ticks = 0 /\ tickslock = 0 /\ c = 0 /\ gone = 0 /\ since = 0
NoCga == crt = 0 /\ reg = 0 /\ idx = 0 /\ todo = 0 /\ pc = 0 /\ pos = 0 /\ text = 0
NoKeys == shift = 0 /\ down = 0 /\ wire = 0 /\ char = 0

DevicesInit ==
    /\ Init
    /\ \/ component = "input" /\ Input!Init /\ NoClock /\ NoCga /\ NoKeys
       \/ component = "clock" /\ Clock!Init /\ NoInput /\ NoCga /\ NoKeys
       \/ /\ killed = 0
          /\ \/ component = "locks" /\ NoInput /\ NoClock /\ NoCga /\ NoKeys
             \/ component = "cga" /\ Cga!Init /\ NoInput /\ NoClock /\ NoKeys
             \/ component = "keyboard" /\ Keyboard!Init /\ NoInput /\ NoClock /\ NoCga

DevicesNext ==
    /\ UNCHANGED component
    /\ \/ component = "input" /\ Input!Next /\ UNCHANGED <<clockVars, vars, cgaVars, keyVars>>
       \/ component = "clock" /\ Clock!Next /\ UNCHANGED <<inputVars, vars, cgaVars, keyVars>>
       \/ component = "locks" /\ Next /\ UNCHANGED <<killed, inputVars, clockVars, cgaVars, keyVars>>
       \/ component = "cga" /\ Cga!Next /\ UNCHANGED <<killed, inputVars, clockVars, vars, keyVars>>
       \/ component = "keyboard" /\ Keyboard!Next /\ UNCHANGED <<killed, inputVars, clockVars, vars, cgaVars>>

DevicesSpec == DevicesInit /\ [][DevicesNext]_DevicesVars

DevicesSymmetry == Permutations(Procs) \cup Permutations(Cpus)

-----------------------------------------------------------------------------
(* Properties.  Exclusive of Spinlock is unchanged; the others are the         *)
(* properties of the other modules where they apply.                          *)

\* Editing touches only the line being typed, complete input reaches the readers once
\* and in order, across the ends of the ring and of the indices, and each ^D makes
\* exactly one call return 0 (consoleintr, consoleread).
IsLineQueue ==
    /\ component = "input" => Input!Abstract!Init
    /\ [][component = "input" => [Input!Abstract!Next]_(Input!Abstract!vars) /\ Input!EofOnce]_DevicesVars

\* sys_sleep(n) returns when n ticks have gone by and not before, also when the
\* counter goes round, and a killed process does not sleep through a tick.
ReturnsWhenDue ==
    /\ [](component = "clock" => Clock!KillSeen)
    /\ [][component = "clock" => Clock!ReturnsWhenDue]_DevicesVars

\* Between characters the screen shows what a terminal would, and cgaputc's pos is a
\* cell of the screen whenever it is used.
ScreenShows == component = "cga" => Cga!ScreenShows /\ Cga!CursorOnScreen

\* The modifiers follow the keys: none is on without a key for it being down, and caps
\* lock changes at every press of its key and at nothing else (kbdgetc).
ModifiersFollow ==
    /\ [](component = "keyboard" => Keyboard!NoStuckModifier)
    /\ [][component = "keyboard" => Keyboard!CapsToggles]_DevicesVars
=============================================================================
