------------------------------ MODULE Keyboard ------------------------------
(***************************************************************************)
(* The keyboard driver, core/src/keyboard.c, with the scan code table,     *)
(* core/src/scan_code.c, the PS/2 controller, the keyboard behind it, and  *)
(* the screen its interrupt handler writes to.                             *)
(*                                                                         *)
(* KBD_init talks to the keyboard by polling, with interrupts off.  The    *)
(* keyboard answers a command before the driver's next read, as QEMU's     *)
(* does: recv_kbd_byte does not wait.  Bytes are named by what they mean.  *)
(***************************************************************************)
EXTENDS Vga, Sequences, SequencesExt, FiniteSets

CONSTANTS
  Keys,          \* keys with a character
  Shifts,        \* the shift keys
  MAX_KBD_RESEND,
  MaxEvents,     \* bound: keys pressed and released
  MaxPrints      \* bound: characters printed by the kernel at boot

\* The character of a key, without and with shift.
sc_map == [k \in Keys |-> <<k[1], k[2]>>]

Backspace == <<"backspace">>
Release == <<"release">>       \* RELEASED_SCODE
Ack == <<"ack">>
Resend == <<"resend">>
Pass == <<"pass">>             \* KBD_SELF_TEST_PASS
Config == <<"config">>

ASSUME KeyboardAssumption ==
  /\ \A k \in Keys : k[1] \in Glyphs \cup {"\n"} /\ k[2] \in Glyphs \cup {"\n"}
  /\ Keys \cap (Shifts \cup {Backspace, Release, Ack}) = {}
  /\ Shifts \cap {Backspace, Release, Ack} = {}
  /\ MAX_KBD_RESEND \in Nat \ {0} /\ {MaxEvents, MaxPrints} \subseteq Nat

VARIABLES
  obf, data,                     \* the controller's output buffer
  config,                        \* its configuration byte
  replies, scans, param, set,    \* the keyboard: what it will send, its mode
  latch, unmasked, IF_, in_isr,  \* IRQ 1 and the processor
  pc, todo, num_resend,          \* KBD_init
  shift_pressed, prev_scode_release,   \* kbd_state
  held, shifting, typed,         \* history variables: keys down, shift, what
  shown, events, prints,         \* the keys mean; calls of vga.c; counts
  settled, early                 \* history variables: an interrupt has been
                                 \* served; a key was touched before that

controller == <<obf, data, config>>
keyboard == <<replies, scans, param, set>>
irq == <<latch, unmasked, IF_, in_isr>>
driver == <<pc, todo, num_resend>>
kbd_state == <<shift_pressed, prev_scode_release>>
history == <<held, shifting, typed, shown, events, prints, settled, early>>
vars == <<vga, controller, keyboard, irq, driver, kbd_state, history>>

Bits == {"p1_interrupt", "p2_interrupt", "p1_clock_off", "p2_clock_off", "translation"}

\* After the firmware: any configuration, an old byte in the output buffer.
Init ==
  /\ VgaInit
  /\ obf \in BOOLEAN /\ data = Pass
  /\ config \in {{"p1_interrupt", "translation"}, {"p1_clock_off"}, Bits}
  /\ replies = <<>> /\ scans = <<>> /\ param = FALSE /\ set \in {1, 2}
  /\ latch = FALSE /\ unmasked = FALSE /\ IF_ = 0 /\ in_isr = FALSE
  /\ pc = "disable" /\ todo = <<>> /\ num_resend = 0
  /\ shift_pressed = FALSE /\ prev_scode_release = FALSE
  /\ held = {} /\ shifting = FALSE /\ typed = <<>> /\ shown = <<>> /\ events = 0 /\ prints = 0
  /\ settled = FALSE /\ early = FALSE

-----------------------------------------------------------------------------
(* The controller and the keyboard.                                        *)

Loadable == "p1_clock_off" \notin config /\ ~obf /\ replies \o scans # <<>>

\* The next byte, replies first, enters the output buffer and raises IRQ 1;
\* the interrupt controller remembers the edge even if the line is masked.
Load ==
  /\ Loadable
  /\ obf' = TRUE /\ data' = Head(replies \o scans)
  /\ replies' = IF replies # <<>> THEN Tail(replies) ELSE <<>>
  /\ scans' = IF replies # <<>> THEN scans ELSE Tail(scans)
  /\ latch' = (latch \/ "p1_interrupt" \in config)
  /\ UNCHANGED <<vga, config, param, set, unmasked, IF_, in_isr, driver, kbd_state, history>>

\* What the keyboard does with a byte written to it: a command again, instead
\* of its parameter, is either refused or started over.
Obey(b) ==
  CASE b = "reset" ->
         replies' = <<Ack, Pass>> /\ scans' = <<>> /\ param' = FALSE /\ set' = 2
    [] b = "set_scan_code" ->
         /\ \/ replies' = replies \o <<Ack>> /\ param' = TRUE
            \/ param /\ replies' = replies \o <<Resend>> /\ param' = FALSE
         /\ UNCHANGED <<scans, set>>
    [] b = "two" ->
         /\ replies' = replies \o <<IF param THEN Ack ELSE Resend>>
         /\ param' = FALSE /\ set' = IF param THEN 2 ELSE set
         /\ UNCHANGED scans

\* A key goes down (again, if it repeats), or up.  The driver keeps one flag for
\* all the shift keys: shift is what the last of them to move says, so with two
\* held and one let go it is off, until a shift key goes down or repeats.
Key(k, down) ==
  /\ events < MaxEvents /\ (down \/ k \in held)
  /\ events' = events + 1
  /\ held' = IF down THEN held \cup {k} ELSE held \ {k}
  /\ shifting' = IF k \in Shifts THEN down ELSE shifting
  /\ scans' = scans \o (IF down THEN <<k>> ELSE <<Release, k>>)
  /\ typed' = IF ~down \/ k \in Shifts THEN typed
              ELSE Append(typed, IF k = Backspace THEN "backspace"
                                 ELSE sc_map[k][IF shifting THEN 2 ELSE 1])
  /\ early' = (early \/ ~settled)
  /\ UNCHANGED <<vga, controller, replies, param, set, irq, driver, kbd_state, shown, prints, settled>>

-----------------------------------------------------------------------------
(* KBD_init.                                                               *)

At(step) == pc = step /\ ~Loadable
Read == data' = data /\ obf' = FALSE

DisablePorts ==
  /\ At("disable")
  /\ config' = config \cup {"p1_clock_off", "p2_clock_off"} /\ pc' = "flush"
  /\ UNCHANGED <<vga, obf, data, keyboard, irq, todo, num_resend, kbd_state, history>>

flush_buff ==
  /\ At("flush")
  /\ IF obf THEN Read /\ UNCHANGED pc ELSE pc' = "config" /\ UNCHANGED <<obf, data>>
  /\ UNCHANGED <<vga, config, keyboard, irq, todo, num_resend, kbd_state, history>>

\* Mutant: the interrupt of the first port is not turned on.
get_good_config_byte_silent(c) ==
  (c \cup {"p2_clock_off"}) \ {"p1_interrupt", "p2_interrupt", "p1_clock_off", "translation"}
get_good_config_byte(c) ==
  (c \cup {"p1_interrupt", "p2_clock_off"}) \ {"p2_interrupt", "p1_clock_off", "translation"}

\* The configuration byte comes back through the output buffer.
write_good_config_byte ==
  /\ At("config")
  /\ config' = get_good_config_byte(config) /\ data' = Config
  /\ latch' = (latch \/ "p1_interrupt" \in config)
  /\ pc' = "enable"
  /\ UNCHANGED <<vga, obf, keyboard, unmasked, IF_, in_isr, todo, num_resend, kbd_state, history>>

EnablePort ==
  /\ At("enable")
  /\ config' = config \ {"p1_clock_off"}
  /\ todo' = <<"reset", "set_scan_code", "two">> /\ pc' = "send"
  /\ UNCHANGED <<vga, obf, data, keyboard, irq, num_resend, kbd_state, history>>

\* send_kbd_byte: reset_kbd, then the two bytes of set_kbd_scan_code_2.
Send ==
  /\ At("send")
  /\ Obey(Head(todo))
  /\ num_resend' = 0 /\ pc' = "ack"
  /\ UNCHANGED <<vga, controller, irq, todo, kbd_state, history>>

\* Mutant: the result of the self test is not read.
AfterAck_no_test(sent) == IF sent = "two" THEN "register" ELSE "send"
AfterAck(sent) == IF sent = "reset" THEN "self_test" ELSE IF sent = "two" THEN "register" ELSE "send"

\* Mutant: resends are not counted.
verify_kbd_ack_forever ==
  /\ At("ack") /\ Read
  /\ IF data # Ack
       THEN Obey(Head(todo)) /\ UNCHANGED <<pc, todo>>
       ELSE pc' = AfterAck(Head(todo)) /\ todo' = Tail(todo) /\ UNCHANGED keyboard
  /\ UNCHANGED <<vga, config, irq, num_resend, kbd_state, history>>
\* One turn of verify_kbd_ack's loop, and the assertion after it: three
\* resends are one too many even if the last is answered.
verify_kbd_ack ==
  /\ At("ack") /\ Read
  /\ CASE data # Ack /\ num_resend < MAX_KBD_RESEND ->
            /\ Obey(Head(todo))
            /\ num_resend' = num_resend + 1 /\ UNCHANGED <<pc, todo>>
       [] num_resend = MAX_KBD_RESEND ->
            pc' = "halted" /\ UNCHANGED <<keyboard, num_resend, todo>>
       [] OTHER ->
            /\ pc' = AfterAck(Head(todo)) /\ todo' = Tail(todo)
            /\ UNCHANGED <<keyboard, num_resend>>
  /\ UNCHANGED <<vga, config, irq, kbd_state, history>>

\* Mutant: set_kbd_scan_code_2 is not called.
SelfTest_only_reset ==
  /\ At("self_test") /\ Read
  /\ pc' = IF data = Pass THEN "register" ELSE "halted"
  /\ UNCHANGED <<vga, config, keyboard, irq, todo, num_resend, kbd_state, history>>

\* The second byte reset_kbd expects.
SelfTest ==
  /\ At("self_test") /\ Read
  /\ pc' = IF data = Pass THEN "send" ELSE "halted"
  /\ UNCHANGED <<vga, config, keyboard, irq, todo, num_resend, kbd_state, history>>

\* register_kbd_isr and IRQ_enable_index.
Register ==
  /\ At("register")
  /\ unmasked' = TRUE /\ pc' = "ready"
  /\ UNCHANGED <<vga, controller, keyboard, latch, IF_, in_isr, todo, num_resend, kbd_state, history>>

IRQ_start ==
  /\ pc = "ready"
  /\ IF_' = 1 /\ pc' = "run"
  /\ UNCHANGED <<vga, controller, keyboard, latch, unmasked, in_isr, todo, num_resend, kbd_state, history>>

\* kernel_main's messages, before and after KBD_init.
Printk(c) ==
  /\ pc \in {"disable", "ready"} /\ prints < MaxPrints
  /\ VGA_display_char(c)
  /\ prints' = prints + 1
  /\ UNCHANGED <<controller, keyboard, irq, driver, kbd_state, held, shifting, typed, shown, events, settled, early>>

-----------------------------------------------------------------------------
(* The interrupt.                                                          *)

Deliver ==
  /\ IF_ = 1 /\ latch /\ unmasked
  /\ latch' = FALSE /\ IF_' = 0 /\ in_isr' = TRUE
  /\ UNCHANGED <<vga, controller, keyboard, unmasked, driver, kbd_state, history>>

\* What the handler does with a byte s: changes of the shift state, or a call
\* of vga.c, or nothing.
\* Mutant: the release of any key turns shift off.
ShiftState_any(s) ==
  IF prev_scode_release
    THEN prev_scode_release' = FALSE /\ shift_pressed' = FALSE
    ELSE prev_scode_release' = (s = Release) /\ shift_pressed' = (shift_pressed \/ s \in Shifts)
ShiftState(s) ==
  IF prev_scode_release
    THEN prev_scode_release' = FALSE /\ shift_pressed' = (shift_pressed /\ s \notin Shifts)
    ELSE prev_scode_release' = (s = Release) /\ shift_pressed' = (shift_pressed \/ s \in Shifts)

\* For a byte that is not in sc_map, the search runs past the end of the table
\* and finds anything.
char_from_scode(s) ==
  IF s \in Keys THEN {sc_map[s][IF shift_pressed THEN 2 ELSE 1]} ELSE Glyphs \cup {"\n", "\r"}

\* Mutant: an interrupt without a byte shows what was read last.
Calls_ack(s) ==
  IF prev_scode_release \/ s \in Shifts \cup {Release} THEN {<<>>}
  ELSE IF s = Backspace THEN {<<"backspace">>}
  ELSE {<<c>> : c \in char_from_scode(s)}
Calls(s) ==
  IF prev_scode_release \/ s \in Shifts \cup {Release, Ack} THEN {<<>>}
  ELSE IF s = Backspace THEN {<<"backspace">>}
  ELSE {<<c>> : c \in char_from_scode(s)}

\* kbd_isr_handler, isr_helper's end of interrupt and iretq.
kbd_isr_handler ==
  /\ in_isr /\ Read
  /\ ShiftState(data)
  /\ \E call \in Calls(data) :
       /\ CASE call = <<>> -> UNCHANGED vga
            [] call = <<"backspace">> -> VGA_backspace_char
            [] OTHER -> VGA_display_char(call[1])
       /\ shown' = shown \o call
  /\ in_isr' = FALSE /\ IF_' = 1 /\ settled' = TRUE
  /\ UNCHANGED <<config, keyboard, latch, unmasked, driver, held, shifting, typed, events, prints, early>>

KBD_init ==
  \/ DisablePorts \/ flush_buff \/ write_good_config_byte \/ EnablePort
  \/ Send \/ verify_kbd_ack \/ SelfTest \/ Register

Next ==
  \/ KBD_init \/ IRQ_start
  \/ \E c \in Glyphs \cup {"\n", "\r"} : Printk(c)
  \/ Load \/ Deliver \/ kbd_isr_handler
  \/ \E k \in Keys \cup Shifts \cup {Backspace}, down \in BOOLEAN : Key(k, down)

Spec == Init /\ [][Next]_vars

\* The kernel boots, the controller passes on what the keyboard sends, and the
\* interrupt is taken and served.
FairSpec ==
  /\ Spec
  /\ WF_vars(KBD_init) /\ WF_vars(IRQ_start)
  /\ WF_vars(Load) /\ WF_vars(Deliver) /\ WF_vars(kbd_isr_handler)
-----------------------------------------------------------------------------
(* Properties.                                                             *)

\* What the handler has shown is what was typed so far: the keys in order, each
\* once, in the case of the moment it was pressed, however long its bytes waited.
\* (For keys touched once the interrupt left over from KBD_init has been served.)
ShownAsTyped == ~early => IsPrefix(shown, typed)

\* Every key typed reaches the screen: whenever the typing stops, as it does at
\* MaxEvents at the latest, what was typed is shown in the end.
TypedIsShown == []<>(Len(shown) >= Len(typed) \/ early)

\* Unless a key is touched meanwhile, no assertion of KBD_init fails, each
\* answer of the keyboard is taken for the command it answers, and none is left
\* behind for the interrupt handler to take for a key.
HandshakeClean ==
  ~early =>
    /\ pc # "halted"
    /\ pc = "ready" => ~obf /\ replies = <<>> /\ ~param /\ set = 2

\* KBD_init ends, whatever is typed: resending is bounded.
KBD_initEnds == <>(pc \in {"run", "halted"})

\* README.md:15, "Figure out why getting eroneous keyboard IRQ right after
\* enabling IRQs": the answers KBD_init polled left the line's request latched.
\* That interrupt comes once, before any key's, and what the handler reads again
\* is the last answer, which it ignores; every other one has a byte to read.
ErroneousIrqOnce == in_isr /\ ~obf => early \/ (~settled /\ data = Ack)
=============================================================================
