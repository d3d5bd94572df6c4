----------------------------- MODULE SafeUpgrade -----------------------------
(***************************************************************************)
(* What a device owes the user who upgrades its firmware: it has one       *)
(* image installed, starts nothing else, and an upgrade replaces the image *)
(* in a single step.  Power may be lost at any time.                       *)
(***************************************************************************)
CONSTANT
  Versions    \* images there are

VARIABLES
  installed,  \* the image the device will start, as a set of one
  running     \* the image it has started: that set, or none

vars == <<installed, running>>

Init == installed \in {{v} : v \in Versions} /\ running = {}

Start == running = {} /\ running' = installed /\ UNCHANGED installed

Stop == running # {} /\ running' = {} /\ UNCHANGED installed

(* Only a running image can upgrade the device, which then restarts. *)
Upgrade ==
  /\ running # {} /\ running' = {}
  /\ installed' \in {{v} : v \in Versions}

Next == Start \/ Stop \/ Upgrade

Spec == Init /\ [][Next]_vars
============================================================================
