--------------------------- MODULE PublicIpWatch ---------------------------
(***************************************************************************)
(* The public address watcher, scripts/network/public-ip-watch.sh: a timer *)
(* and an operator run it, concurrently, to reload the firewall and call a *)
(* hook when the address of the WAN changes.  The transaction it starts is *)
(* the one of module Suite; here it succeeds or fails.                     *)
(***************************************************************************)
EXTENDS Integers

CONSTANTS
  Process,     \* the runs that may be alive together
  Timer,       \* the one the systemd timer starts
  None,        \* no address, no process
  Address,     \* public IPv4 addresses
  MaxWan,      \* bound: addresses the WAN has, one after another
  WanAt,       \* WanAt[i]: the i-th of them
  MaxFailures, \* bound: lookups, reloads and hooks that fail, processes killed
  MaxManual    \* bound: runs an operator starts

ASSUME WatchAssumption ==
  /\ Timer \in Process
  /\ None \notin Process \cup Address
  /\ MaxWan \in Nat \ {0}
  /\ WanAt \in [1..MaxWan -> Address]
  /\ MaxFailures \in Nat
  /\ MaxManual \in Nat

Epoch == 1..MaxWan
Steps == {"idle", "start", "discover", "ddns", "read", "decide", "reload", "hook", "save",
          "orphan reload", "orphan hook"}
Modes == {"run", "force", "dry-run", "check"}

VARIABLES
  wan,        \* how often the WAN has changed, plus one
  stateFile,  \* the address in STATE_FILE
  savedAt,    \* when the address of the state file was observed
  lock,       \* whose open file holds the flock on LOCK_FILE
  pc, mode,   \* of each run
  seen,       \* current_ip, by the time it was observed
  previous,   \* previous_ip
  told,       \* the address the hook was last given
  failures, manual

run  == <<pc, mode, seen, previous>>
vars == <<wan, stateFile, savedAt, lock, run, told, failures, manual>>

TypeOK ==
  /\ wan \in Epoch
  /\ stateFile \in Address \cup {None}
  /\ savedAt \in Epoch \cup {0}
  /\ lock \in Process \cup {None}
  /\ pc \in [Process -> Steps]
  /\ mode \in [Process -> Modes]
  /\ seen \in [Process -> Epoch]
  /\ previous \in [Process -> Address \cup {None}]
  /\ told \in Address \cup {None}
  /\ failures \in 0..MaxFailures
  /\ manual \in 0..MaxManual

Init ==
  /\ wan = 1
  /\ stateFile = None
  /\ savedAt = 0
  /\ lock = None
  /\ pc = [p \in Process |-> "idle"]
  /\ mode = [p \in Process |-> "run"]
  /\ seen = [p \in Process |-> 1]
  /\ previous = [p \in Process |-> None]
  /\ told = None
  /\ failures = 0
  /\ manual = 0

current(p) == WanAt[seen[p]]
Fail == failures < MaxFailures /\ failures' = failures + 1
Step(p, from, to) == pc[p] = from /\ pc' = [pc EXCEPT ![p] = to]
\* The file description goes with the last process that has it open.
Unlock(p) == lock' = IF lock = p THEN None ELSE lock
Exit(p, from) == Step(p, from, "idle") /\ Unlock(p)
----------------------------------------------------------------------------
\* systemd does not start the unit again while it runs.
StartTimer ==
  /\ Step(Timer, "idle", "start")
  /\ mode' = [mode EXCEPT ![Timer] = "run"]
  /\ UNCHANGED <<wan, stateFile, savedAt, lock, seen, previous, told, failures, manual>>

StartManual(p, m) ==
  /\ p # Timer
  /\ manual < MaxManual
  /\ manual' = manual + 1
  /\ Step(p, "idle", IF m = "check" THEN "discover" ELSE "start")
  /\ mode' = [mode EXCEPT ![p] = m]
  /\ UNCHANGED <<wan, stateFile, savedAt, lock, seen, previous, told, failures>>

\* Faulty variant: the exit status of flock is not looked at.
AcquireAnyway(p) ==
  /\ Step(p, "start", "discover")
  /\ lock' = IF lock = None THEN p ELSE lock
  /\ UNCHANGED <<wan, stateFile, savedAt, mode, seen, previous, told, failures, manual>>

\* flock -n: the address and the state are read only once the lock is held.
Acquire(p) ==
  /\ lock = None
  /\ Step(p, "start", "discover")
  /\ lock' = p
  /\ UNCHANGED <<wan, stateFile, savedAt, mode, seen, previous, told, failures, manual>>

Busy(p) ==
  /\ lock # None
  /\ Step(p, "start", "idle")
  /\ UNCHANGED <<wan, stateFile, savedAt, lock, mode, seen, previous, told, failures, manual>>

\* Faulty variant: the failure of the detector is not looked at.
DiscoverNothing(p) ==
  /\ Step(p, "discover", "ddns")
  /\ \E s \in {0, wan} : seen' = [seen EXCEPT ![p] = s]
  /\ UNCHANGED <<wan, stateFile, savedAt, lock, mode, previous, told, failures, manual>>

Discover(p) ==
  /\ Step(p, "discover", "ddns")
  /\ seen' = [seen EXCEPT ![p] = wan]
  /\ UNCHANGED <<wan, stateFile, savedAt, lock, mode, previous, told, failures, manual>>

\* Enough of the name servers answer with the address.
Verified(p) ==
  /\ Step(p, "ddns", "read")
  /\ UNCHANGED <<wan, stateFile, savedAt, lock, mode, seen, previous, told, failures, manual>>

\* No valid answer from the detector, or too few servers agree: retried by the next run.
LookupFails(p) ==
  /\ Fail
  /\ Exit(p, "discover") \/ Exit(p, "ddns")
  /\ UNCHANGED <<wan, stateFile, savedAt, mode, seen, previous, told, manual>>

ReadSaved(p) ==
  /\ Step(p, "read", "decide")
  /\ previous' = [previous EXCEPT ![p] = stateFile]
  /\ UNCHANGED <<wan, stateFile, savedAt, lock, mode, seen, told, failures, manual>>

\* --check, --dry-run: nothing is changed.
Report(p) ==
  /\ mode[p] \in {"check", "dry-run"}
  /\ Exit(p, "decide")
  /\ UNCHANGED <<wan, stateFile, savedAt, mode, seen, previous, told, failures, manual>>

\* The first run only records the address.
Initialise(p) ==
  /\ mode[p] = "run"
  /\ previous[p] = None
  /\ Exit(p, "decide")
  /\ stateFile' = current(p)
  /\ savedAt' = seen[p]
  /\ UNCHANGED <<wan, mode, seen, previous, told, failures, manual>>

Unchanged(p) ==
  /\ mode[p] = "run"
  /\ previous[p] = current(p)
  /\ Exit(p, "decide")
  /\ UNCHANGED <<wan, stateFile, savedAt, mode, seen, previous, told, failures, manual>>

Change(p) ==
  /\ \/ mode[p] = "force"
     \/ mode[p] = "run" /\ previous[p] \notin {None, current(p)}
  /\ Step(p, "decide", "reload")
  /\ UNCHANGED <<wan, stateFile, savedAt, lock, mode, seen, previous, told, failures, manual>>

\* The candidate was validated, applied and confirmed by the external verifier;
\* the hook is started.
Reloaded(p) ==
  /\ Step(p, "reload", "hook")
  /\ told' = current(p)
  /\ UNCHANGED <<wan, stateFile, savedAt, lock, mode, seen, previous, failures, manual>>

\* Faulty variant: the lock is dropped once the hook is done.
HookedUnlocked(p) ==
  /\ Step(p, "hook", "save")
  /\ Unlock(p)
  /\ UNCHANGED <<wan, stateFile, savedAt, mode, seen, previous, told, failures, manual>>

Hooked(p) ==
  /\ Step(p, "hook", "save")
  /\ UNCHANGED <<wan, stateFile, savedAt, lock, mode, seen, previous, told, failures, manual>>

\* Either of them or the write fails: set -e ends the run and the state file stays.
ActionFails(p) ==
  /\ Fail
  /\ Exit(p, "reload") \/ Exit(p, "hook") \/ Exit(p, "save")
  /\ UNCHANGED <<wan, stateFile, savedAt, mode, seen, previous, told, manual>>

SaveAddress(p) ==
  /\ Exit(p, "save")
  /\ stateFile' = current(p)
  /\ savedAt' = seen[p]
  /\ UNCHANGED <<wan, mode, seen, previous, told, failures, manual>>
----------------------------------------------------------------------------
\* The WAN gets its next address.
WanChanges ==
  /\ wan < MaxWan
  /\ wan' = wan + 1
  /\ UNCHANGED <<stateFile, savedAt, lock, run, told, failures, manual>>

\* Faulty variant: the lock is a file that the process would have removed.
KilledLocked(p) ==
  /\ Fail
  /\ pc[p] # "idle"
  /\ Step(p, pc[p], "idle")
  /\ UNCHANGED <<wan, stateFile, savedAt, lock, mode, seen, previous, told, manual>>

\* TimeoutStartSec of the unit, or a signal to the whole group.
Killed(p) ==
  /\ Fail
  /\ pc[p] # "idle"
  /\ Exit(p, pc[p])
  /\ UNCHANGED <<wan, stateFile, savedAt, mode, seen, previous, told, manual>>

\* Faulty variant: the commands do not inherit the descriptor.
ShellKilledUnlocked(p) ==
  /\ p # Timer
  /\ Fail
  /\ Step(p, "reload", "orphan reload") \/ Step(p, "hook", "orphan hook")
  /\ Unlock(p)
  /\ UNCHANGED <<wan, stateFile, savedAt, mode, seen, previous, told, manual>>

\* Only the shell of an operator's run dies: the command it was waiting for has
\* inherited descriptor 9 and keeps the lock.
ShellKilled(p) ==
  /\ p # Timer
  /\ Fail
  /\ Step(p, "reload", "orphan reload") \/ Step(p, "hook", "orphan hook")
  /\ UNCHANGED <<wan, stateFile, savedAt, lock, mode, seen, previous, told, manual>>

OrphanEnds(p) ==
  /\ Exit(p, "orphan reload") \/ Exit(p, "orphan hook")
  /\ UNCHANGED <<wan, stateFile, savedAt, mode, seen, previous, told, failures, manual>>

Proceed(p) ==
  \/ Acquire(p) \/ Busy(p) \/ Discover(p) \/ Verified(p) \/ ReadSaved(p)
  \/ Report(p) \/ Initialise(p) \/ Unchanged(p) \/ Change(p)
  \/ Reloaded(p) \/ Hooked(p) \/ SaveAddress(p) \/ OrphanEnds(p)

Next ==
  \/ StartTimer
  \/ WanChanges
  \/ \E p \in Process :
       \/ Proceed(p) \/ LookupFails(p) \/ ActionFails(p) \/ Killed(p) \/ ShellKilled(p)
       \/ \E m \in Modes : StartManual(p, m)

Spec == Init /\ [][Next]_vars

\* The timer goes on firing, and a process that is not killed runs on.
FairSpec == Spec /\ WF_vars(StartTimer) /\ \A p \in Process : WF_vars(Proceed(p))
----------------------------------------------------------------------------
\* Reloads and hooks never overlap, not even with one whose shell was killed
\* (lines 269-277: the descriptor is inherited).
OneAtATime ==
  \A p, q \in Process :
    /\ pc[p] \in {"reload", "hook", "orphan reload", "orphan hook"}
    /\ pc[q] \in {"reload", "hook", "orphan reload", "orphan hook"}
    => p = q

\* A run acts on the state file as it still is: none works from a value another
\* run has replaced (the comment at lines 266-268).
FreshState ==
  \A p \in Process :
    pc[p] \in {"decide", "reload", "hook", "save"} /\ mode[p] # "check" => previous[p] = stateFile

\* An older observation never replaces a newer one.
NeverBackwards == [][savedAt' >= savedAt]_vars

\* Once the address stays, the state file gets it, through failures, kills and
\* runs that find the lock taken.
Converges == <>[](stateFile = WanAt[wan])

\* A change whose hook was called and that was not recorded is retried until it
\* is (docs/automation/public-ip-watch.md, "una ejecución posterior
\* reintentará el flujo"): no run finds the address unchanged before.
Retried == [][\A p \in Process : Unchanged(p) => told \in {None, stateFile}]_vars
============================================================================
