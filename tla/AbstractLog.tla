---------------------------- MODULE AbstractLog ----------------------------
(***************************************************************************)
(* What the Log promises of print functions: one stack, never empty, of    *)
(* functions with their languages, and for every Log object the function   *)
(* that was on top when the object was created.                            *)
(***************************************************************************)
EXTENDS Sequences, Naturals

CONSTANTS Logs, Printers, GlobalPrinter, NoPrinter

VARIABLES
  defaults,  \* the stack, its top last
  printers   \* the printer of each Log object

vars == <<defaults, printers>>

Init ==
  /\ defaults = <<GlobalPrinter>>
  /\ \E some \in SUBSET Logs : printers = [l \in Logs |-> IF l \in some THEN GlobalPrinter ELSE NoPrinter]

PushDefault(f) == defaults' = Append(defaults, f) /\ UNCHANGED printers

PopDefault ==
  /\ defaults' = IF Len(defaults) = 1 THEN <<GlobalPrinter>> ELSE SubSeq(defaults, 1, Len(defaults) - 1)
  /\ UNCHANGED printers

Create(l) ==
  /\ printers[l] = NoPrinter
  /\ printers' = [printers EXCEPT ![l] = defaults[Len(defaults)]]
  /\ UNCHANGED defaults

Destroy(l) ==
  /\ printers[l] # NoPrinter
  /\ printers' = [printers EXCEPT ![l] = NoPrinter]
  /\ UNCHANGED defaults

Next ==
  \/ \E f \in Printers : PushDefault(f)
  \/ PopDefault
  \/ \E l \in Logs : Create(l) \/ Destroy(l)

Spec == Init /\ [][Next]_vars
=============================================================================
