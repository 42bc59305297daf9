------------------------ MODULE PublicIpWatchProofs ------------------------
(***************************************************************************)
(* The lock of the watcher orders observations, decisions and writes.      *)
(***************************************************************************)
EXTENDS PublicIpWatch, TLAPS

Working == Steps \ {"idle", "start"}
Observed == {"ddns", "read", "decide", "reload", "hook", "save"}

\* A run past flock holds the lock, but for --check, which only reports; it works
\* from the state file as it is, with an address observed no earlier than the saved, nor later than now.
Sound(p) ==
  /\ seen[p] <= wan
  /\ mode[p] = "check" => pc[p] \in {"idle", "discover", "ddns", "read", "decide"}
  /\ pc[p] \in Working /\ mode[p] # "check" =>
       /\ lock = p
       /\ pc[p] \in Observed => savedAt <= seen[p]
       /\ pc[p] \in {"decide", "reload", "hook", "save"} => previous[p] = stateFile

Inv == TypeOK /\ savedAt <= wan /\ \A p \in Process : Sound(p)

\* The watcher starts with its types, nothing running.
LEMMA WatchInit == Init => Inv
  BY WatchAssumption DEF Init, Inv, TypeOK, Sound, Working, Observed, Epoch, Steps, Modes

\* A step of one run moves that run.
LEMMA Moves ==
  ASSUME TypeOK, NEW p \in Process, NEW from, NEW to \in Steps, Step(p, from, to)
  PROVE  /\ pc' \in [Process -> Steps]
         /\ pc[p] = from /\ pc'[p] = to
         /\ \A q \in Process \ {p} : pc'[q] = pc[q]
  BY DEF TypeOK, Step

\* An exit ends it, and releases the lock if it is its own.
LEMMA Exits ==
  ASSUME TypeOK, NEW p \in Process, NEW from, Exit(p, from)
  PROVE  /\ pc' \in [Process -> Steps] /\ lock' \in Process \cup {None}
         /\ pc[p] = from /\ pc'[p] = "idle"
         /\ \A q \in Process \ {p} : pc'[q] = pc[q] /\ (lock = q => lock' = q)
<1>1. "idle" \in Steps
  BY DEF Steps
<1> QED
  BY <1>1, Moves DEF Exit, Unlock, TypeOK

\* What a run has observed is an address, seen no later than now.
LEMMA WatchType == TypeOK /\ [Next]_vars => TypeOK'
<1> SUFFICES ASSUME TypeOK, [Next]_vars PROVE TypeOK'
  OBVIOUS
<1>0. /\ "start" \in Steps /\ "discover" \in Steps /\ "ddns" \in Steps /\ "read" \in Steps
      /\ "decide" \in Steps /\ "reload" \in Steps /\ "hook" \in Steps /\ "save" \in Steps
      /\ "orphan reload" \in Steps /\ "orphan hook" \in Steps /\ "idle" \in Steps
  BY DEF Steps
<1>a. Timer \in Process /\ MaxFailures \in Nat /\ MaxManual \in Nat
  BY WatchAssumption
<1>b. \A p \in Process : current(p) \in Address
  BY WatchAssumption DEF current, TypeOK, Epoch
<1>c. Fail => failures' \in 0..MaxFailures
  BY <1>a DEF Fail, TypeOK
<1>1. CASE StartTimer
  BY <1>1, <1>0, <1>a, Moves DEF StartTimer, TypeOK, Modes
<1>2. CASE WanChanges
  BY <1>2, WatchAssumption DEF WanChanges, TypeOK, run, Epoch
<1>3. ASSUME NEW p \in Process, NEW m \in Modes, StartManual(p, m) PROVE TypeOK'
  <2>1. pc' \in [Process -> Steps]
    BY <1>3, <1>0, Moves DEF StartManual
  <2>2. mode' \in [Process -> Modes]
    BY <1>3 DEF StartManual, TypeOK
  <2>3. manual' \in 0..MaxManual
    BY <1>3, <1>a DEF StartManual, TypeOK
  <2> QED
    BY <1>3, <2>1, <2>2, <2>3 DEF StartManual, TypeOK
<1>4. ASSUME NEW p \in Process, Acquire(p) PROVE TypeOK'
  <2>1. pc' \in [Process -> Steps]
    BY <1>4, <1>0, Moves DEF Acquire
  <2>2. lock' \in Process \cup {None}
    BY <1>4 DEF Acquire, TypeOK
  <2> QED
    BY <1>4, <2>1, <2>2 DEF Acquire, TypeOK
<1>5. ASSUME NEW p \in Process, Busy(p) PROVE TypeOK'
  <2>1. pc' \in [Process -> Steps]
    BY <1>5, <1>0, Moves DEF Busy
  <2> QED
    BY <1>5, <2>1 DEF Busy, TypeOK
<1>6. ASSUME NEW p \in Process, Discover(p) PROVE TypeOK'
  <2>1. pc' \in [Process -> Steps]
    BY <1>6, <1>0, Moves DEF Discover
  <2>2. seen' \in [Process -> Epoch]
    BY <1>6 DEF Discover, TypeOK
  <2> QED
    BY <1>6, <2>1, <2>2 DEF Discover, TypeOK
<1>7. ASSUME NEW p \in Process, Verified(p) PROVE TypeOK'
  <2>1. pc' \in [Process -> Steps]
    BY <1>7, <1>0, Moves DEF Verified
  <2> QED
    BY <1>7, <2>1 DEF Verified, TypeOK
<1>8. ASSUME NEW p \in Process, ReadSaved(p) PROVE TypeOK'
  <2>1. pc' \in [Process -> Steps]
    BY <1>8, <1>0, Moves DEF ReadSaved
  <2>2. previous' \in [Process -> Address \cup {None}]
    BY <1>8 DEF ReadSaved, TypeOK
  <2> QED
    BY <1>8, <2>1, <2>2 DEF ReadSaved, TypeOK
<1>9. ASSUME NEW p \in Process, Change(p) PROVE TypeOK'
  <2>1. pc' \in [Process -> Steps]
    BY <1>9, <1>0, Moves DEF Change
  <2> QED
    BY <1>9, <2>1 DEF Change, TypeOK
<1>10. ASSUME NEW p \in Process, Reloaded(p) PROVE TypeOK'
  <2>1. pc' \in [Process -> Steps]
    BY <1>10, <1>0, Moves DEF Reloaded
  <2>2. told' \in Address \cup {None}
    BY <1>10, <1>b DEF Reloaded, TypeOK
  <2> QED
    BY <1>10, <2>1, <2>2 DEF Reloaded, TypeOK
<1>11. ASSUME NEW p \in Process, Hooked(p) PROVE TypeOK'
  <2>1. pc' \in [Process -> Steps]
    BY <1>11, <1>0, Moves DEF Hooked
  <2> QED
    BY <1>11, <2>1 DEF Hooked, TypeOK
<1>12. ASSUME NEW p \in Process, Report(p) PROVE TypeOK'
  <2>1. pc' \in [Process -> Steps] /\ lock' \in Process \cup {None}
    BY <1>12, Exits DEF Report
  <2> QED
    BY <1>12, <2>1 DEF Report, TypeOK
<1>13. ASSUME NEW p \in Process, Initialise(p) PROVE TypeOK'
  <2>1. pc' \in [Process -> Steps] /\ lock' \in Process \cup {None}
    BY <1>13, Exits DEF Initialise
  <2>2. stateFile' \in Address \cup {None} /\ savedAt' \in Epoch \cup {0}
    BY <1>13, <1>b DEF Initialise, TypeOK
  <2> QED
    BY <1>13, <2>1, <2>2 DEF Initialise, TypeOK
<1>14. ASSUME NEW p \in Process, Unchanged(p) PROVE TypeOK'
  <2>1. pc' \in [Process -> Steps] /\ lock' \in Process \cup {None}
    BY <1>14, Exits DEF Unchanged
  <2> QED
    BY <1>14, <2>1 DEF Unchanged, TypeOK
<1>15. ASSUME NEW p \in Process, SaveAddress(p) PROVE TypeOK'
  <2>1. pc' \in [Process -> Steps] /\ lock' \in Process \cup {None}
    BY <1>15, Exits DEF SaveAddress
  <2>2. stateFile' \in Address \cup {None} /\ savedAt' \in Epoch \cup {0}
    BY <1>15, <1>b DEF SaveAddress, TypeOK
  <2> QED
    BY <1>15, <2>1, <2>2 DEF SaveAddress, TypeOK
<1>16. ASSUME NEW p \in Process, OrphanEnds(p) PROVE TypeOK'
  <2>1. pc' \in [Process -> Steps] /\ lock' \in Process \cup {None}
    BY <1>16, Exits DEF OrphanEnds
  <2> QED
    BY <1>16, <2>1 DEF OrphanEnds, TypeOK
<1>17. ASSUME NEW p \in Process, LookupFails(p) PROVE TypeOK'
  <2>1. pc' \in [Process -> Steps] /\ lock' \in Process \cup {None}
    BY <1>17, Exits DEF LookupFails
  <2> QED
    BY <1>17, <2>1, <1>c DEF LookupFails, TypeOK
<1>18. ASSUME NEW p \in Process, ActionFails(p) PROVE TypeOK'
  <2>1. pc' \in [Process -> Steps] /\ lock' \in Process \cup {None}
    BY <1>18, Exits DEF ActionFails
  <2> QED
    BY <1>18, <2>1, <1>c DEF ActionFails, TypeOK
<1>19. ASSUME NEW p \in Process, Killed(p) PROVE TypeOK'
  <2>1. pc' \in [Process -> Steps] /\ lock' \in Process \cup {None}
    BY <1>19, Exits DEF Killed
  <2> QED
    BY <1>19, <2>1, <1>c DEF Killed, TypeOK
<1>20. ASSUME NEW p \in Process, ShellKilled(p) PROVE TypeOK'
  <2>1. pc' \in [Process -> Steps]
    BY <1>20, <1>0, Moves DEF ShellKilled
  <2> QED
    BY <1>20, <2>1, <1>c DEF ShellKilled, TypeOK
<1>21. CASE UNCHANGED vars
  BY <1>21 DEF vars, run, TypeOK
<1> QED
  BY <1>1, <1>2, <1>3, <1>4, <1>5, <1>6, <1>7, <1>8, <1>9, <1>10, <1>11, <1>12, <1>13, <1>14, <1>15, <1>16, <1>17, <1>18, <1>19, <1>20, <1>21 DEF Next, Proceed

\* What another run does leaves a run sound, unless it writes the state file
\* without the lock.
LEMMA Others ==
  ASSUME NEW p \in Process, NEW q \in Process \ {p}, Sound(q),
         pc'[q] = pc[q], mode'[q] = mode[q], seen'[q] = seen[q], previous'[q] = previous[q],
         lock = q => lock' = q, wan' = wan, UNCHANGED <<stateFile, savedAt>> \/ lock = p
  PROVE  Sound(q)'
  BY DEF Sound

\* Every step keeps a run sound: only the holder of the lock writes the state
\* file, and it observes after it got the lock.
LEMMA WatchStep == Inv /\ [Next]_vars => Inv'
<1> SUFFICES ASSUME Inv, [Next]_vars PROVE savedAt' <= wan' /\ \A q \in Process : Sound(q)'
  BY WatchType DEF Inv
<1>0. /\ TypeOK /\ Timer \in Process /\ savedAt <= wan /\ savedAt \in Int /\ wan \in Int
      /\ \A q \in Process : Sound(q) /\ seen[q] \in Int
  BY WatchAssumption DEF Inv, TypeOK, Epoch
<1>s. /\ "start" \in Steps /\ "discover" \in Steps /\ "ddns" \in Steps /\ "read" \in Steps
      /\ "decide" \in Steps /\ "reload" \in Steps /\ "hook" \in Steps /\ "save" \in Steps
      /\ "orphan reload" \in Steps /\ "orphan hook" \in Steps /\ "idle" \in Steps
  BY DEF Steps
<1>1. CASE StartTimer
  <2>1. /\ pc[Timer] = "idle" /\ pc'[Timer] = "start" /\ \A q \in Process \ {Timer} : pc'[q] = pc[q]
        /\ mode'[Timer] = "run" /\ \A q \in Process \ {Timer} : mode'[q] = mode[q]
    BY <1>0, <1>1, <1>s, Moves DEF StartTimer, TypeOK
  <2>2. Sound(Timer)'
    BY <1>0, <1>1, <2>1 DEF StartTimer, Sound, Working
  <2>3. \A q \in Process \ {Timer} : Sound(q)'
    BY <1>0, <1>1, <2>1, Others DEF StartTimer
  <2> QED
    BY <1>0, <1>1, <2>2, <2>3 DEF StartTimer
<1>2. CASE WanChanges
  <2>1. \A q \in Process : Sound(q)'
    BY <1>0, <1>2 DEF WanChanges, run, Sound
  <2> QED
    BY <1>0, <1>2, <2>1 DEF WanChanges, run
<1>3. ASSUME NEW p \in Process, NEW m \in Modes, StartManual(p, m)
      PROVE  savedAt' <= wan' /\ \A q \in Process : Sound(q)'
  <2>1. /\ pc[p] = "idle" /\ (m # "check" => pc'[p] = "start") /\ (m = "check" => pc'[p] = "discover")
        /\ \A q \in Process \ {p} : pc'[q] = pc[q]
    BY <1>0, <1>3, <1>s, Moves DEF StartManual
  <2>2. mode'[p] = m /\ \A q \in Process \ {p} : mode'[q] = mode[q]
    BY <1>0, <1>3 DEF StartManual, TypeOK
  <2>3. Sound(p)'
    BY <1>0, <1>3, <2>1, <2>2 DEF StartManual, Sound, Working
  <2>4. \A q \in Process \ {p} : Sound(q)'
    BY <1>0, <1>3, <2>1, <2>2, Others DEF StartManual
  <2> QED
    BY <1>0, <1>3, <2>3, <2>4 DEF StartManual
<1>4. ASSUME NEW p \in Process, Acquire(p)
      PROVE  savedAt' <= wan' /\ \A q \in Process : Sound(q)'
  <2>1. pc[p] = "start" /\ pc'[p] = "discover" /\ \A q \in Process \ {p} : pc'[q] = pc[q]
    BY <1>0, <1>4, <1>s, Moves DEF Acquire
  <2>3. Sound(p)'
    BY <1>0, <1>4, <2>1, WatchAssumption DEF Acquire, Sound, Working, Steps, Observed
  <2>5. \A q \in Process \ {p} : Sound(q)'
    BY <1>0, <1>4, <2>1, Others, WatchAssumption DEF Acquire
  <2> QED
    BY <1>0, <1>4, <2>3, <2>5 DEF Acquire
<1>5. ASSUME NEW p \in Process, Busy(p)
      PROVE  savedAt' <= wan' /\ \A q \in Process : Sound(q)'
  <2>1. pc[p] = "start" /\ pc'[p] = "idle" /\ \A q \in Process \ {p} : pc'[q] = pc[q]
    BY <1>0, <1>5, <1>s, Moves DEF Busy
  <2>3. Sound(p)'
    BY <1>0, <1>5, <2>1 DEF Busy, Sound, Working, Steps, Observed
  <2>5. \A q \in Process \ {p} : Sound(q)'
    BY <1>0, <1>5, <2>1, Others DEF Busy
  <2> QED
    BY <1>0, <1>5, <2>3, <2>5 DEF Busy
<1>6. ASSUME NEW p \in Process, Discover(p)
      PROVE  savedAt' <= wan' /\ \A q \in Process : Sound(q)'
  <2>1. pc[p] = "discover" /\ pc'[p] = "ddns" /\ \A q \in Process \ {p} : pc'[q] = pc[q]
    BY <1>0, <1>6, <1>s, Moves DEF Discover
  <2>2. seen'[p] = wan /\ \A q \in Process \ {p} : seen'[q] = seen[q]
    BY <1>0, <1>6 DEF Discover, TypeOK
  <2>3. Sound(p)'
    <3>1. wan' = wan /\ savedAt' = savedAt /\ lock' = lock /\ mode' = mode
      BY <1>6 DEF Discover
    <3>2. mode[p] # "check" => lock = p
      BY <1>0, <2>1 DEF Sound, Working, Steps
    <3> QED
      BY <1>0, <2>1, <2>2, <3>1, <3>2, SMTT(30) DEF Sound
  <2>5. \A q \in Process \ {p} : Sound(q)'
    BY <1>0, <1>6, <2>1, <2>2, Others DEF Discover
  <2> QED
    BY <1>0, <1>6, <2>3, <2>5 DEF Discover
<1>7. ASSUME NEW p \in Process, Verified(p)
      PROVE  savedAt' <= wan' /\ \A q \in Process : Sound(q)'
  <2>1. pc[p] = "ddns" /\ pc'[p] = "read" /\ \A q \in Process \ {p} : pc'[q] = pc[q]
    BY <1>0, <1>7, <1>s, Moves DEF Verified
  <2>3. Sound(p)'
    BY <1>0, <1>7, <2>1 DEF Verified, Sound, Working, Steps, Observed
  <2>5. \A q \in Process \ {p} : Sound(q)'
    BY <1>0, <1>7, <2>1, Others DEF Verified
  <2> QED
    BY <1>0, <1>7, <2>3, <2>5 DEF Verified
<1>8. ASSUME NEW p \in Process, ReadSaved(p)
      PROVE  savedAt' <= wan' /\ \A q \in Process : Sound(q)'
  <2>1. pc[p] = "read" /\ pc'[p] = "decide" /\ \A q \in Process \ {p} : pc'[q] = pc[q]
    BY <1>0, <1>8, <1>s, Moves DEF ReadSaved
  <2>2. previous'[p] = stateFile /\ \A q \in Process \ {p} : previous'[q] = previous[q]
    BY <1>0, <1>8 DEF ReadSaved, TypeOK
  <2>3. Sound(p)'
    BY <1>0, <1>8, <2>1, <2>2 DEF ReadSaved, Sound, Working, Steps, Observed
  <2>5. \A q \in Process \ {p} : Sound(q)'
    BY <1>0, <1>8, <2>1, <2>2, Others DEF ReadSaved
  <2> QED
    BY <1>0, <1>8, <2>3, <2>5 DEF ReadSaved
<1>9. ASSUME NEW p \in Process, Change(p)
      PROVE  savedAt' <= wan' /\ \A q \in Process : Sound(q)'
  <2>1. pc[p] = "decide" /\ pc'[p] = "reload" /\ \A q \in Process \ {p} : pc'[q] = pc[q]
    BY <1>0, <1>9, <1>s, Moves DEF Change
  <2>3. Sound(p)'
    BY <1>0, <1>9, <2>1 DEF Change, Sound, Working, Steps, Observed
  <2>5. \A q \in Process \ {p} : Sound(q)'
    BY <1>0, <1>9, <2>1, Others DEF Change
  <2> QED
    BY <1>0, <1>9, <2>3, <2>5 DEF Change
<1>10. ASSUME NEW p \in Process, Reloaded(p)
      PROVE  savedAt' <= wan' /\ \A q \in Process : Sound(q)'
  <2>1. pc[p] = "reload" /\ pc'[p] = "hook" /\ \A q \in Process \ {p} : pc'[q] = pc[q]
    BY <1>0, <1>10, <1>s, Moves DEF Reloaded
  <2>3. Sound(p)'
    BY <1>0, <1>10, <2>1 DEF Reloaded, Sound, Working, Steps, Observed
  <2>5. \A q \in Process \ {p} : Sound(q)'
    BY <1>0, <1>10, <2>1, Others DEF Reloaded
  <2> QED
    BY <1>0, <1>10, <2>3, <2>5 DEF Reloaded
<1>11. ASSUME NEW p \in Process, Hooked(p)
      PROVE  savedAt' <= wan' /\ \A q \in Process : Sound(q)'
  <2>1. pc[p] = "hook" /\ pc'[p] = "save" /\ \A q \in Process \ {p} : pc'[q] = pc[q]
    BY <1>0, <1>11, <1>s, Moves DEF Hooked
  <2>3. Sound(p)'
    BY <1>0, <1>11, <2>1 DEF Hooked, Sound, Working, Steps, Observed
  <2>5. \A q \in Process \ {p} : Sound(q)'
    BY <1>0, <1>11, <2>1, Others DEF Hooked
  <2> QED
    BY <1>0, <1>11, <2>3, <2>5 DEF Hooked
<1>12. ASSUME NEW p \in Process, Report(p)
      PROVE  savedAt' <= wan' /\ \A q \in Process : Sound(q)'
  <2>1. /\ pc[p] = "decide" /\ pc'[p] = "idle"
        /\ \A q \in Process \ {p} : pc'[q] = pc[q] /\ (lock = q => lock' = q)
    BY <1>0, <1>12, Exits DEF Report
  <2>3. Sound(p)'
    BY <1>0, <1>12, <2>1 DEF Report, Sound, Working, Steps
  <2>5. \A q \in Process \ {p} : Sound(q)'
    BY <1>0, <1>12, <2>1, Others DEF Report
  <2> QED
    BY <1>0, <1>12, <2>3, <2>5 DEF Report
<1>13. ASSUME NEW p \in Process, Initialise(p)
      PROVE  savedAt' <= wan' /\ \A q \in Process : Sound(q)'
  <2>1. /\ pc[p] = "decide" /\ pc'[p] = "idle"
        /\ \A q \in Process \ {p} : pc'[q] = pc[q] /\ (lock = q => lock' = q)
    BY <1>0, <1>13, Exits DEF Initialise
  <2>3. Sound(p)'
    BY <1>0, <1>13, <2>1 DEF Initialise, Sound, Working, Steps
  <2>4. lock = p /\ savedAt' = seen[p] /\ seen[p] <= wan
    BY <1>0, <1>13, <2>1 DEF Initialise, Sound, Working, Steps
  <2>5. \A q \in Process \ {p} : Sound(q)'
    BY <1>0, <1>13, <2>1, <2>4, Others DEF Initialise
  <2> QED
    BY <1>0, <1>13, <2>3, <2>5, <2>4 DEF Initialise
<1>14. ASSUME NEW p \in Process, Unchanged(p)
      PROVE  savedAt' <= wan' /\ \A q \in Process : Sound(q)'
  <2>1. /\ pc[p] = "decide" /\ pc'[p] = "idle"
        /\ \A q \in Process \ {p} : pc'[q] = pc[q] /\ (lock = q => lock' = q)
    BY <1>0, <1>14, Exits DEF Unchanged
  <2>3. Sound(p)'
    BY <1>0, <1>14, <2>1 DEF Unchanged, Sound, Working, Steps
  <2>5. \A q \in Process \ {p} : Sound(q)'
    BY <1>0, <1>14, <2>1, Others DEF Unchanged
  <2> QED
    BY <1>0, <1>14, <2>3, <2>5 DEF Unchanged
<1>15. ASSUME NEW p \in Process, SaveAddress(p)
      PROVE  savedAt' <= wan' /\ \A q \in Process : Sound(q)'
  <2>1. /\ pc[p] = "save" /\ pc'[p] = "idle"
        /\ \A q \in Process \ {p} : pc'[q] = pc[q] /\ (lock = q => lock' = q)
    BY <1>0, <1>15, Exits DEF SaveAddress
  <2>3. Sound(p)'
    BY <1>0, <1>15, <2>1 DEF SaveAddress, Sound, Working, Steps
  <2>4. lock = p /\ savedAt' = seen[p] /\ seen[p] <= wan
    BY <1>0, <1>15, <2>1 DEF SaveAddress, Sound, Working, Steps
  <2>5. \A q \in Process \ {p} : Sound(q)'
    BY <1>0, <1>15, <2>1, <2>4, Others DEF SaveAddress
  <2> QED
    BY <1>0, <1>15, <2>3, <2>5, <2>4 DEF SaveAddress
<1>16. ASSUME NEW p \in Process, OrphanEnds(p)
      PROVE  savedAt' <= wan' /\ \A q \in Process : Sound(q)'
  <2>1. /\ pc'[p] = "idle"
        /\ \A q \in Process \ {p} : pc'[q] = pc[q] /\ (lock = q => lock' = q)
    BY <1>0, <1>16, Exits DEF OrphanEnds
  <2>3. Sound(p)'
    BY <1>0, <1>16, <2>1 DEF OrphanEnds, Sound, Working, Steps
  <2>5. \A q \in Process \ {p} : Sound(q)'
    BY <1>0, <1>16, <2>1, Others DEF OrphanEnds
  <2> QED
    BY <1>0, <1>16, <2>3, <2>5 DEF OrphanEnds
<1>17. ASSUME NEW p \in Process, LookupFails(p)
      PROVE  savedAt' <= wan' /\ \A q \in Process : Sound(q)'
  <2>1. /\ pc'[p] = "idle"
        /\ \A q \in Process \ {p} : pc'[q] = pc[q] /\ (lock = q => lock' = q)
    BY <1>0, <1>17, Exits DEF LookupFails
  <2>3. Sound(p)'
    BY <1>0, <1>17, <2>1 DEF LookupFails, Sound, Working, Steps
  <2>5. \A q \in Process \ {p} : Sound(q)'
    BY <1>0, <1>17, <2>1, Others DEF LookupFails
  <2> QED
    BY <1>0, <1>17, <2>3, <2>5 DEF LookupFails
<1>18. ASSUME NEW p \in Process, ActionFails(p)
      PROVE  savedAt' <= wan' /\ \A q \in Process : Sound(q)'
  <2>1. /\ pc'[p] = "idle"
        /\ \A q \in Process \ {p} : pc'[q] = pc[q] /\ (lock = q => lock' = q)
    BY <1>0, <1>18, Exits DEF ActionFails
  <2>3. Sound(p)'
    BY <1>0, <1>18, <2>1 DEF ActionFails, Sound, Working, Steps
  <2>5. \A q \in Process \ {p} : Sound(q)'
    BY <1>0, <1>18, <2>1, Others DEF ActionFails
  <2> QED
    BY <1>0, <1>18, <2>3, <2>5 DEF ActionFails
<1>19. ASSUME NEW p \in Process, Killed(p)
      PROVE  savedAt' <= wan' /\ \A q \in Process : Sound(q)'
  <2>1. /\ pc'[p] = "idle"
        /\ \A q \in Process \ {p} : pc'[q] = pc[q] /\ (lock = q => lock' = q)
    BY <1>0, <1>19, Exits DEF Killed
  <2>3. Sound(p)'
    BY <1>0, <1>19, <2>1 DEF Killed, Sound, Working, Steps
  <2>5. \A q \in Process \ {p} : Sound(q)'
    BY <1>0, <1>19, <2>1, Others DEF Killed
  <2> QED
    BY <1>0, <1>19, <2>3, <2>5 DEF Killed
<1>20. ASSUME NEW p \in Process, ShellKilled(p)
      PROVE  savedAt' <= wan' /\ \A q \in Process : Sound(q)'
  <2>1. /\ pc[p] \in {"reload", "hook"} /\ pc'[p] \in {"orphan reload", "orphan hook"}
        /\ \A q \in Process \ {p} : pc'[q] = pc[q]
    BY <1>0, <1>20, <1>s, Moves DEF ShellKilled
  <2>3. Sound(p)'
    BY <1>0, <1>20, <2>1 DEF ShellKilled, Sound, Working, Steps, Observed
  <2>5. \A q \in Process \ {p} : Sound(q)'
    BY <1>0, <1>20, <2>1, Others DEF ShellKilled
  <2> QED
    BY <1>0, <1>20, <2>3, <2>5 DEF ShellKilled
<1>21. CASE UNCHANGED vars
  BY <1>0, <1>21 DEF vars, run, Sound
<1> QED
  BY <1>1, <1>2, <1>3, <1>4, <1>5, <1>6, <1>7, <1>8, <1>9, <1>10, <1>11, <1>12, <1>13, <1>14, <1>15, <1>16, <1>17, <1>18, <1>19, <1>20, <1>21 DEF Next, Proceed

\* Neither do reloads and hooks overlap, nor does a run work from a state file
\* that another one has replaced (public-ip-watch.sh 266-277).
THEOREM WatchSafe == Spec => [](TypeOK /\ OneAtATime /\ FreshState)
<1>1. Inv => TypeOK /\ OneAtATime /\ FreshState
  BY DEF Inv, Sound, OneAtATime, FreshState, Working, Steps
<1> QED
  BY <1>1, WatchInit, WatchStep, PTL DEF Spec

\* The state file only moves on to newer observations (public-ip-watch.sh 279-321).
THEOREM WatchForward == Spec => NeverBackwards
<1>1. Inv /\ [Next]_vars => [savedAt' >= savedAt]_vars
  <2> SUFFICES ASSUME Inv, Next PROVE savedAt' >= savedAt
    BY DEF vars
  <2>1. ASSUME NEW p \in Process, Initialise(p) \/ SaveAddress(p) PROVE savedAt' >= savedAt
    <3>1. pc[p] \in {"decide", "save"} /\ mode[p] # "check" /\ savedAt' = seen[p]
      BY <2>1 DEF Initialise, SaveAddress, Exit, Step, Inv, Sound
    <3> QED
      BY <3>1, WatchAssumption DEF Inv, TypeOK, Sound, Epoch, Working, Observed, Steps
  <2>2. ASSUME UNCHANGED savedAt PROVE savedAt' >= savedAt
    BY <2>2, WatchAssumption DEF Inv, TypeOK, Epoch
  <2>3. (\E p \in Process : Initialise(p) \/ SaveAddress(p)) \/ UNCHANGED savedAt
    BY DEF Next, Proceed, StartTimer, WanChanges, StartManual, Acquire, Busy, Discover, Verified,
           ReadSaved, Report, Unchanged, Change, Reloaded, Hooked, OrphanEnds, LookupFails,
           ActionFails, Killed, ShellKilled
  <2> QED
    BY <2>1, <2>2, <2>3
<1> QED
  BY <1>1, WatchInit, WatchStep, PTL DEF Spec, NeverBackwards
============================================================================
