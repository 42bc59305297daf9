---------------------------- MODULE AtomicPolicy ----------------------------
(***************************************************************************)
(* What the transactions of the store promise.  There is one official      *)
(* policy.  A change is offered under a fresh number, one at a time, and   *)
(* is decided once: the offered policy becomes official, or nothing does.  *)
(***************************************************************************)
EXTENDS Integers

CONSTANTS Policy, None

VARIABLES
  official,   \* the policy in force, None for none
  offers,     \* the undecided change, if any
  last        \* the number of the latest change

aVars == <<official, offers, last>>

AInit == official = None /\ offers = {} /\ last = 0

Offer(c) ==
  /\ offers = {}
  /\ last' = last + 1
  /\ offers' = {[number |-> last + 1, policy |-> c]}
  /\ UNCHANGED official

Accept ==
  /\ \E o \in offers : official' = o.policy
  /\ offers' = {}
  /\ UNCHANGED last

Withdraw ==
  /\ offers # {}
  /\ offers' = {}
  /\ UNCHANGED <<official, last>>

ANext == (\E c \in Policy \cup {None} : Offer(c)) \/ Accept \/ Withdraw

ASpec == AInit /\ [][ANext]_aVars
============================================================================
