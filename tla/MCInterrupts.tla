---------------------------- MODULE MCInterrupts ----------------------------
(* An interrupt on its way through the controllers and isr_helper, and one  *)
(* on its way through the stubs and the stacks: two parts that share no     *)
(* variable.  A behaviour is of one of them, the other does not move.       *)
EXTENDS Interrupts, IsrEntry

\* The kernel's two drivers, keyboard and serial port, and a third on the
\* second controller; the timer asks for service and has no driver.
DriverLines == <<1, 4, 9>>

\* Two device interrupts and the three exceptions with stacks of their own.
\* Program and device handlers touch memory that may be mapped on demand; the
\* page fault handler works in memory that is, but may violate protection.
ExceptionsOf ==
  [v \in {0, 8, 13, 14, 33, 36} |->
     CASE v \in {0, 33, 36} -> {13, 14} [] v = 14 -> {13} [] v = 13 -> {8} [] OTHER -> {}]

VARIABLE part   \* the part a behaviour is of

MCInit == Init /\ EntryInit /\ part \in {"controllers", "entry"}

MCNext ==
  /\ UNCHANGED part
  /\ \/ part = "controllers" /\ Next /\ UNCHANGED entry_vars
     \/ part = "entry" /\ EntryNext /\ UNCHANGED vars

MCSpec ==
  /\ MCInit /\ [][MCNext]_<<vars, entry_vars, part>>
  /\ WF_vars(Serve) /\ SF_vars(Deliver)
=============================================================================
