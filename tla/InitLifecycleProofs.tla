------------------------- MODULE InitLifecycleProofs -------------------------
(***************************************************************************)
(* Proofs about InitLifecycle, for any number of calls and whatever fails: *)
(* a container that is gone leaves no unit behind, containerd is told each *)
(* event once, a Create that succeeded knows its pid, and the exit status  *)
(* containerd is told is the one the workload ended with.                  *)
(***************************************************************************)
EXTENDS InitLifecycle, TLAPS

Callers == Starters \union Deleters \union Waiters

\* The client calls Start, Delete and Wait only when Create has returned.
Settled == scenario.order # "early"

\* The labels of the goroutines that will still kill the unit if the container is being
\* deleted, and of those that will still release it.
KillLabels == {"su_do", "su_clean", "su_again", "su_job", "su_check", "su_pid1", "su_loop1",
               "su_pid2", "su_loop2", "su_stop", "su_release", "su_rdel1", "su_rdel2",
               "su_ok", "su_err", "s_abandon", "d_stop"}
RefLabels == KillLabels \union {"s_release", "d_runc", "d_wait", "d_finish", "d_release"}

\* A goroutine is at one of these only if it has marked the container itself.
MarkedLabels == {"d_stop", "d_runc", "d_wait", "d_finish", "d_release", "d_ok", "d_err"}

Units == [st : {"absent", "starting", "running", "dead"}, code : Nat,
          real : Nat, ref : BOOLEAN, job : {"none", "done", "failed"},
          helper : {"gone", "handoff", "rewriting"}]
Reads == pStates \union {NoObs}

\* Whatever is observed of the process has the form of a pState.
Observed ==
    /\ state \in pStates /\ file \in Reads /\ recorded \in Reads /\ signals \subseteq Reads
    /\ obs \in [Handlers -> Reads]

\* The types the argument needs.
Types ==
    /\ pc = [h \in Handlers |-> pc[h]]
    /\ unit \in Units /\ deleting \in BOOLEAN /\ tracked \in BOOLEAN
    /\ Observed

\* Until Create has returned nobody else is under way, and only its own Delete marks.
CreateAlone ==
    /\ pc["create"] \notin {"ok", "failed"} => \A h \in Callers : pc[h] = "new"
    /\ pc["create"] \notin MarkedLabels \union {"ok", "failed"} => ~deleting

\* A Create that fails has recorded an exit, so that its Delete is not refused.
Failing ==
    /\ pc["create"] \in {"c_fail2", "c_untrack", "d_check"} => Exited(state)
    /\ pc["create"] \notin {"d_set", "refused"}

\* Only who has marked the container takes it away.
Marked == \A h \in Handlers : pc[h] \in MarkedLabels => deleting
Gone == tracked \/ deleting \/ pc["create"] \in {"new", "d_check", "d_mark"}

\* While a container is marked, somebody is still going to release its unit and somebody
\* is going to kill it.
WillRelease == deleting /\ unit.ref => \E h \in Handlers : pc[h] \in RefLabels
WillKill == deleting /\ ~BusErrors /\ Alive => \E h \in Handlers : pc[h] \in KillLabels

RInv == /\ Settled /\ Types /\ CreateAlone /\ Failing /\ Marked /\ Gone
        /\ WillRelease /\ WillKill
-----------------------------------------------------------------------------
(***************************************************************************)
(* What is observed of the process, and that its exit is never forgotten.  *)
(***************************************************************************)
\* CopyTo (state.go:393-414) keeps an exit known to either side.
LEMMA CopyToExit ==
    ASSUME NEW s \in pStates, NEW other \in pStates
    PROVE  /\ CopyTo(s, other) \in pStates
           /\ Exited(other) \/ Exited(s) => Exited(CopyTo(s, other))
<1> DEFINE at == IF other.exitedAt = 0 THEN s.exitedAt ELSE other.exitedAt
           code == IF other.exitCode = 0 THEN s.exitCode ELSE other.exitCode
           known == code > 0 \/ toStatus(other.status) = "STOPPED" \/ at > 0
           r == CopyTo(s, other)
<1>1. r \in pStates
  BY DEF CopyTo, pStates
<1>2. toStatus("") # "STOPPED"
  BY DEF toStatus, Created, Running, Stopped
<1>3. \/ r = other /\ ~Exited(s)
      \/ r.exitedAt = at /\ r.exitCode = code /\ r.status = other.status
         /\ (toStatus(s.status) # "STOPPED" \/ ~Exited(s))
      \/ r.exitedAt = at /\ r.exitCode = code /\ r.status = s.status
         /\ (~known \/ Exited(s))
  BY <1>2 DEF CopyTo, pStates, Exited
<1>4. /\ s.exitedAt \in Nat /\ s.exitCode \in Nat
      /\ other.exitedAt \in Nat /\ other.exitCode \in Nat
  BY DEF pStates
<1> HIDE DEF r
<1>5. Exited(other) => Exited(r)
  BY <1>3, <1>4 DEF Exited
<1>6. Exited(s) => Exited(r)
  BY <1>3, <1>4 DEF Exited
<1>7. QED
  BY <1>1, <1>5, <1>6 DEF r

\* So does applyState (process.go:363-386), in every phase.
LEMMA MergedExit ==
    ASSUME NEW ph, NEW st \in pStates, NEW s \in pStates
    PROVE  /\ merged(ph, st, s) \in pStates
           /\ Exited(st) \/ Exited(s) => Exited(merged(ph, st, s))
<1> DEFINE in == IF beforeRunning(ph) /\ toStatus(s.status) = "RUNNING"
                 THEN [s EXCEPT !.status = "created"] ELSE s
<1>1. in \in pStates
  BY DEF pStates, Statuses, Created
<1>2. Exited(s) => Exited(in)
  <2>1. in.exitedAt = s.exitedAt /\ in.exitCode = s.exitCode
    BY DEF pStates
  <2>2. toStatus(s.status) = "STOPPED" => in = s
    OBVIOUS
  <2> HIDE DEF in
  <2>3. QED
    BY <2>1, <2>2 DEF Exited
<1>3. merged(ph, st, s) = CopyTo(in, st)
  BY DEF merged
<1> HIDE DEF in
<1>4. QED
  BY <1>1, <1>2, <1>3, CopyToExit

\* What a step makes of the observations.
GoesOn == Observed' /\ (Exited(state) => Exited(state'))

\* Nothing is read of a unit, and nothing it signals, that is not a pState.
LEMMA UnitSays ==
    ASSUME unit \in Units
    PROVE  /\ UnitReads \subseteq Reads
           /\ \A c \in Nat : DeathSignals(c) \subseteq Reads
<1>1. \A at \in Nat, c \in Nat, pid \in Nat, st \in Statuses :
         Obs(at, c, pid, st) \in pStates
  BY DEF Obs, pStates
<1>2. {"dead", "failed", "running", "other", "exited"} \subseteq Statuses
  BY DEF Statuses, Running, Stopped
<1>3. unit.code \in Nat /\ unit.st \in {"absent", "starting", "running", "dead"}
  BY DEF Units
<1>4. UnitReads \subseteq Reads
  <2>1. CASE unit.st = "absent"
    <3>1. Obs(0, 0, 0, "dead") \in pStates
      BY <1>1, <1>2
    <3>2. QED
      BY <2>1, <3>1 DEF UnitReads, Reads, Alive
  <2>2. CASE Alive
    <3>1. \A pid \in {0, 1}, st \in {"running", "other"} : Obs(0, 0, pid, st) \in pStates
      BY <1>1, <1>2
    <3>2. QED
      BY <2>2, <3>1 DEF UnitReads, Reads, Alive
  <2>3. CASE unit.st = "dead"
    <3>1. \A st \in {"dead", "failed"} : Obs(0, unit.code, 0, st) \in pStates
      BY <1>1, <1>2, <1>3
    <3>2. QED
      BY <2>3, <3>1 DEF UnitReads, Reads, Alive
  <2>4. QED
    BY <1>3, <2>1, <2>2, <2>3 DEF Alive
<1>5. \A c \in Nat : DeathSignals(c) \subseteq Reads
  BY <1>1, <1>2 DEF DeathSignals, Reads
<1>6. QED
  BY <1>4, <1>5

\* A read is stamped when it is terminal.
LEMMA StampedRead ==
    ASSUME NEW s \in Reads
    PROVE  Stamped(s) \in Reads
BY DEF Stamped, Reads, pStates

\* Merging an observation.
LEMMA SetStateGoes ==
    ASSUME Types, NEW h, NEW s \in pStates, SetState(h, s)
    PROVE  /\ state' \in pStates
           /\ Exited(state) \/ Exited(s) => Exited(state')
<1>1. state \in pStates /\ state' = merged(phase, state, s)
  BY DEF Types, Observed, SetState
<1>2. QED
  BY <1>1, MergedExit

-----------------------------------------------------------------------------
(***************************************************************************)
(* The steps as the argument sees them: who moves from which label to      *)
(* which, and what becomes of the mark, the map and the unit.              *)
(***************************************************************************)
Moves(h, a, b) == pc[h] = a /\ Goto(h, b)
Still == UNCHANGED <<deleting, tracked>>
Static == Still /\ UNCHANGED unit /\ GoesOn

\* The unit may die, and nothing else happens to it.
MayDie == /\ unit' \in Units /\ unit'.ref = unit.ref
          /\ \/ unit'.st = unit.st
             \/ unit'.st = "dead" /\ Alive

\* A step that observes nothing.
LEMMA NothingSeen ==
    ASSUME Types, UNCHANGED <<state, file, recorded, signals, obs>>
    PROVE  GoesOn
BY DEF Types, Observed, GoesOn

\* A branch only looks.
LEMMA BranchMove ==
    ASSUME Types, NEW h, NEW a, NEW STATE c, NEW STATE b, Branch(h, a, c, b)
    PROVE  Moves(h, a, b) /\ Static /\ c
BY NothingSeen DEF Branch, Moves, Static, Still, At, shimVars, own, sysdVars, procVars

\* Moving the phase changes nothing the argument is about,
LEMMA AdvanceMove ==
    ASSUME Types, NEW h, NEW a, NEW b, NEW n, Advance(h, a, n, b)
    PROVE  Moves(h, a, b) /\ Static
BY NothingSeen DEF Advance, Moves, Static, Still, At, shimVars, own, sysdVars

\* nor does sending an event,
LEMMA SendsMove ==
    ASSUME Types, NEW h, NEW a, NEW b, NEW e, Sends(h, a, e, b)
    PROVE  Moves(h, a, b) /\ Static
BY NothingSeen DEF Sends, Moves, Static, Still, At, shimVars, own, sysdVars, procVars

\* nor does merging an observation, but for the exit it may be,
LEMMA SetsMove ==
    ASSUME Types, NEW h, NEW a, NEW b, NEW s \in pStates, Sets(h, a, s, b)
    PROVE  Moves(h, a, b) /\ Static /\ (Exited(s) => Exited(state'))
<1>1. /\ Moves(h, a, b) /\ Still /\ UNCHANGED <<unit, file, recorded, signals, obs>>
      /\ SetState(h, s)
  BY DEF Sets, Moves, Still, At, shimVars, own, sysdVars
<1>2. state' \in pStates /\ (Exited(state) \/ Exited(s) => Exited(state'))
  BY <1>1, SetStateGoes
<1>3. QED
  BY <1>1, <1>2 DEF Static, GoesOn, Types, Observed

\* nor does LoadState, wherever it leads,
LEMMA LoadsMove ==
    ASSUME Types, NEW h, NEW a, NEW STATE b, NEW STATE f, Loads(h, a, b, f)
    PROVE  (Moves(h, a, b) \/ Moves(h, a, f)) /\ Static
<1>1. Still /\ UNCHANGED <<unit, file, recorded, signals, obs>>
  BY DEF Loads, Still, maps, sysd
<1>2. CASE LoadState(h) /\ Goto(h, b)
  <2>1. file \in Reads /\ UnitReads \subseteq Reads /\ state \in pStates
    BY UnitSays DEF Types, Observed
  <2>2. UNCHANGED state \/ \E s \in pStates : SetState(h, s)
    BY <1>2, <2>1 DEF LoadState, Reads, proc
  <2>3. state' \in pStates /\ (Exited(state) => Exited(state'))
    BY <2>1, <2>2, SetStateGoes
  <2>4. Moves(h, a, b)
    BY <1>2 DEF Loads, At, Moves
  <2>5. QED
    BY <1>1, <2>3, <2>4 DEF Static, GoesOn, Types, Observed
<1>3. CASE UNCHANGED proc /\ Goto(h, f)
  <2>1. Moves(h, a, f) /\ GoesOn
    BY <1>1, <1>3, NothingSeen DEF Loads, At, Moves, proc
  <2>2. QED
    BY <1>1, <2>1 DEF Static
<1>4. QED
  BY <1>2, <1>3 DEF Loads, proc

\* a read of the exit,
LEMMA ReadExitMove ==
    ASSUME Types, NEW h \in Handlers, NEW a, NEW b, ReadExit(h, a, b)
    PROVE  Moves(h, a, b) /\ Static
<1>1. /\ Moves(h, a, b) /\ Still /\ UNCHANGED <<unit, state, file, recorded, signals>>
  BY DEF ReadExit, Moves, Still, At, shimVars, own, sysdVars, procVars
<1>2. \E s \in Reads : obs' = [obs EXCEPT ![h] = s]
  <2>1. UnitReads \subseteq Reads /\ recorded \in Reads
    BY UnitSays DEF Types, Observed
  <2>2. \/ obs' = [obs EXCEPT ![h] = recorded]
        \/ \E s \in UnitReads : obs' = [obs EXCEPT ![h] = Stamped(s)]
    BY DEF ReadExit
  <2>3. QED
    BY <2>1, <2>2, StampedRead
<1>3. obs' \in [Handlers -> Reads]
  BY <1>2 DEF Types, Observed
<1>4. QED
  BY <1>1, <1>3 DEF Static, GoesOn, Types, Observed

\* or its merge.
LEMMA MergeReadMove ==
    ASSUME Types, NEW h \in Handlers, NEW a, NEW b, MergeRead(h, a, b)
    PROVE  Moves(h, a, b) /\ Static
<1>1. /\ Moves(h, a, b) /\ Still /\ UNCHANGED <<unit, file, recorded, signals>>
      /\ obs' = [obs EXCEPT ![h] = NoObs]
  BY DEF MergeRead, Moves, Still, At, shimVars, own, sysdVars
<1>2. obs' \in [Handlers -> Reads]
  BY <1>1 DEF Types, Observed, Reads
<1>3. state' \in pStates /\ (Exited(state) => Exited(state'))
  <2>1. obs[h] \in Reads /\ state \in pStates
    BY DEF Types, Observed
  <2>2. UNCHANGED state \/ (obs[h] \in pStates /\ SetState(h, obs[h]))
    BY <2>1 DEF MergeRead, Reads, procVars
  <2>3. QED
    BY <2>1, <2>2, SetStateGoes
<1>4. QED
  BY <1>1, <1>2, <1>3 DEF Static, GoesOn, Types, Observed

\* A unit that dies keeps its reference, and says so.
LEMMA DiesUnit ==
    ASSUME Types, NEW c \in Nat, NEW r \in Nat, DiesAs(c, r)
    PROVE  /\ unit' \in Units /\ unit'.ref = unit.ref /\ unit'.st = "dead"
           /\ signals' \subseteq Reads
<1>1. unit \in Units /\ signals \subseteq Reads
  BY DEF Types, Units, Observed
<1>2. unit' = [unit EXCEPT !.st = "dead", !.code = c, !.real = r,
                           !.job = IF unit.job = "none" THEN "failed" ELSE unit.job,
                           !.helper = "gone"]
  BY DEF DiesAs
<1>3. signals' \subseteq Reads
  BY <1>1, UnitSays DEF DiesAs
<1>4. QED
  BY <1>1, <1>2, <1>3 DEF Units

\* What the calls that act on the unit do to it.
LEMMA Acts ==
    ASSUME Types
    PROVE  /\ KillUnit => /\ MayDie /\ signals' \subseteq Reads
                          /\ BusErrors \/ unit'.st \notin {"starting", "running"}
           /\ RuncKill => MayDie /\ signals' \subseteq Reads
           /\ releaseUnit => /\ unit' \in Units /\ ~unit'.ref /\ unit'.st = unit.st
                             /\ signals' \subseteq Reads
<1>1. /\ Dies(Killed) => /\ unit' \in Units /\ unit'.ref = unit.ref /\ unit'.st = "dead"
                         /\ signals' \subseteq Reads
      /\ UNCHANGED signals => signals' \subseteq Reads
      /\ unit \in Units
  BY DiesUnit DEF Dies, Killed, Types, Observed
<1>2. KillUnit => /\ MayDie /\ signals' \subseteq Reads
                  /\ BusErrors \/ unit'.st \notin {"starting", "running"}
  BY <1>1 DEF KillUnit, MayDie, Alive, Units
<1>3. RuncKill => MayDie /\ signals' \subseteq Reads
  BY <1>1 DEF RuncKill, MayDie, Alive, Units
<1>4. releaseUnit => /\ unit' \in Units /\ ~unit'.ref /\ unit'.st = unit.st
                     /\ signals' \subseteq Reads
  BY <1>1 DEF releaseUnit, Units
<1>5. QED
  BY <1>2, <1>3, <1>4

\* A handler that calls systemd or runc does no more than that.
LEMMA CallsMove ==
    ASSUME Types, NEW h, NEW a, NEW b, NEW ACTION A, Calls(h, a, A, b),
           A => signals' \subseteq Reads
    PROVE  Moves(h, a, b) /\ Still /\ A /\ GoesOn
<1>1. Moves(h, a, b) /\ Still /\ A /\ UNCHANGED <<state, file, recorded, obs>>
  BY DEF Calls, Moves, Still, At, shimVars, own, procVars
<1>2. GoesOn
  BY <1>1 DEF GoesOn, Types, Observed
<1>3. QED
  BY <1>1, <1>2

\* Who moves is where it goes, the others stay.
LEMMA Moved ==
    ASSUME Types, NEW h \in Handlers, NEW a, NEW b, Moves(h, a, b)
    PROVE  /\ pc[h] = a /\ pc' = [g \in Handlers |-> pc'[g]] /\ pc'[h] = b
           /\ \A g \in Handlers : g # h => pc'[g] = pc[g]
BY DEF Types, Moves, Goto

\* The names of the goroutines.
LEMMA Names ==
    /\ Handlers = {"create", "reactor"} \union Callers
    /\ \A h \in Callers : h \notin {"create", "reactor"}
BY CallersFresh DEF Handlers, Callers

-----------------------------------------------------------------------------
(***************************************************************************)
(* What a step must not do: take the last one away who will release or     *)
(* kill the unit.                                                          *)
(***************************************************************************)
\* h, which goes from a to b, does not leave the unit alone.
Minds(a, b) ==
    /\ deleting => deleting'
    /\ b \in MarkedLabels => a \in MarkedLabels \/ deleting'
    /\ deleting' /\ unit'.ref =>
          b \in RefLabels \/ (deleting /\ unit.ref /\ a \notin RefLabels)
    /\ deleting' /\ ~BusErrors /\ unit'.st \in {"starting", "running"} =>
          b \in KillLabels \/ (deleting /\ Alive /\ a \notin KillLabels)

\* Then somebody still minds it after the step.
LEMMA StillMinded ==
    ASSUME RInv, UNCHANGED scenario, NEW h \in Handlers, NEW a, NEW b,
           Moves(h, a, b), Minds(a, b)
    PROVE  Marked' /\ WillRelease' /\ WillKill'
<1>1. /\ pc[h] = a /\ pc'[h] = b /\ \A g \in Handlers : g # h => pc'[g] = pc[g]
  BY Moved DEF RInv
<1>2. Marked'
  BY <1>1 DEF RInv, Marked, Minds
<1>3. WillRelease'
  <2> SUFFICES ASSUME deleting', unit'.ref
               PROVE  \E g \in Handlers : pc'[g] \in RefLabels
    BY DEF WillRelease
  <2>1. CASE b \in RefLabels
    BY <1>1, <2>1
  <2>2. CASE b \notin RefLabels
    <3>1. deleting /\ unit.ref /\ a \notin RefLabels
      BY <2>2 DEF Minds
    <3>2. PICK g \in Handlers : pc[g] \in RefLabels
      BY <3>1 DEF RInv, WillRelease
    <3>3. g # h
      BY <1>1, <3>1, <3>2
    <3>4. QED
      BY <1>1, <3>2, <3>3
  <2>3. QED
    BY <2>1, <2>2
<1>4. WillKill'
  <2> SUFFICES ASSUME deleting', ~BusErrors', unit'.st \in {"starting", "running"}
               PROVE  \E g \in Handlers : pc'[g] \in KillLabels
    BY DEF WillKill, Alive
  <2>1. CASE b \in KillLabels
    BY <1>1, <2>1
  <2>2. CASE b \notin KillLabels
    <3>1. ~BusErrors
      BY DEF BusErrors, Faults
    <3>2. deleting /\ Alive /\ a \notin KillLabels
      BY <2>2, <3>1 DEF Minds
    <3>3. PICK g \in Handlers : pc[g] \in KillLabels
      BY <3>1, <3>2 DEF RInv, WillKill
    <3>4. g # h
      BY <1>1, <3>2, <3>3
    <3>5. QED
      BY <1>1, <3>3, <3>4
  <2>3. QED
    BY <2>1, <2>2
<1>5. QED
  BY <1>2, <1>3, <1>4

\* The rest of the invariant is what Create's own moves have to see to ...
CreateMinds(b) ==
    /\ b \notin MarkedLabels \union {"ok", "failed"} => ~deleting'
    /\ b \in {"c_fail2", "c_untrack", "d_check"} => Exited(state')
    /\ b \notin {"d_set", "refused"}
    /\ tracked' \/ deleting' \/ b \in {"d_check", "d_mark"}
    /\ b \notin {"ok", "failed"} => pc["create"] \notin {"ok", "failed"}

\* (each of them keeps the invariant when it does),
LEMMA CreateKeeps ==
    ASSUME RInv, UNCHANGED scenario, NEW a, NEW b, Moves("create", a, b), GoesOn,
           Minds(a, b), CreateMinds(b),
           unit' \in Units, deleting' \in BOOLEAN, tracked' \in BOOLEAN
    PROVE  RInv'
<1>1. "create" \in Handlers /\ Callers \subseteq Handlers /\ "create" \notin Callers
  BY Names
<1>2. /\ pc' = [g \in Handlers |-> pc'[g]] /\ pc'["create"] = b
      /\ \A g \in Callers : pc'[g] = pc[g]
  BY <1>1, Moved DEF RInv
<1>3. Types' /\ Settled'
  BY <1>2 DEF RInv, Types, GoesOn, Settled
<1>4. CreateAlone'
  BY <1>2 DEF RInv, CreateAlone, CreateMinds
<1>5. Failing' /\ Gone'
  BY <1>2 DEF Failing, Gone, CreateMinds
<1>6. Marked' /\ WillRelease' /\ WillKill'
  BY <1>1, StillMinded
<1>7. QED
  BY <1>3, <1>4, <1>5, <1>6 DEF RInv

\* ... and those of a call, which come when Create has returned.
LEMMA CallerKeeps ==
    ASSUME RInv, UNCHANGED scenario, NEW h \in Callers, NEW a, NEW b,
           Moves(h, a, b), pc["create"] \in {"ok", "failed"}, GoesOn, Minds(a, b),
           unit' \in Units, deleting' \in BOOLEAN, tracked' \in BOOLEAN,
           tracked' = tracked \/ deleting'
    PROVE  RInv'
<1>1. h \in Handlers /\ "create" \in Handlers /\ h # "create"
  BY Names
<1>2. pc' = [g \in Handlers |-> pc'[g]] /\ pc'["create"] = pc["create"]
  BY <1>1, Moved DEF RInv
<1>3. Types' /\ Settled'
  BY <1>2 DEF RInv, Types, GoesOn, Settled
<1>4. CreateAlone' /\ Failing'
  BY <1>2 DEF CreateAlone, Failing
<1>5. Gone'
  BY <1>2 DEF RInv, Gone, Minds
<1>6. Marked' /\ WillRelease' /\ WillKill'
  BY <1>1, StillMinded
<1>7. QED
  BY <1>3, <1>4, <1>5, <1>6 DEF RInv

\* A call that is under way finds Create returned.
LEMMA Later ==
    ASSUME RInv, NEW h \in Callers, pc[h] # "new"
    PROVE  pc["create"] \in {"ok", "failed"}
BY DEF RInv, CreateAlone

\* startUnit and Delete are run by Create as well as by calls.  Their steps keep the
\* invariant when they mind the unit, go on within the function, and take the
\* container away from nobody.
Within(a, b) ==
    /\ a \notin {"new", "ok", "failed"}
    /\ b \notin {"c_fail2", "c_untrack", "d_check", "d_set", "ok", "failed", "refused"}
    /\ a = "d_mark" => b \in MarkedLabels
    /\ b = "d_mark" \/ a # "d_check"
    /\ b \notin MarkedLabels => deleting' = deleting /\ a \notin MarkedLabels

\* Such a step keeps the invariant.
LEMMA SharedKeeps ==
    ASSUME RInv, UNCHANGED scenario, NEW h \in Callers \union {"create"}, NEW a, NEW b,
           Moves(h, a, b), GoesOn, Minds(a, b), Within(a, b), UNCHANGED tracked,
           unit' \in Units, deleting' \in BOOLEAN
    PROVE  RInv'
<1>1. pc[h] = a
  BY DEF Moves
<1>2. tracked \in BOOLEAN /\ tracked' \in BOOLEAN
  BY DEF RInv, Types
<1>3. CASE h \in Callers
  <2>1. pc["create"] \in {"ok", "failed"}
    BY <1>1, <1>3, Later DEF Within
  <2>2. QED
    BY <1>2, <1>3, <2>1, CallerKeeps
<1>4. CASE h = "create"
  <2>1. b \notin MarkedLabels \union {"ok", "failed"} => ~deleting'
    BY <1>1, <1>4 DEF Within, RInv, CreateAlone
  <2>2. b \in MarkedLabels => deleting'
    BY <1>1, <1>4, Names DEF Minds, RInv, Marked
  <2>3. tracked' \/ deleting' \/ b \in {"d_check", "d_mark"}
    BY <1>1, <1>2, <1>4, <2>2 DEF Within, RInv, Gone, Minds
  <2>4. CreateMinds(b)
    BY <1>1, <1>4, <2>1, <2>3 DEF CreateMinds, Within
  <2>5. QED
    BY <1>2, <1>4, <2>4, CreateKeeps
<1>5. QED
  BY <1>3, <1>4

-----------------------------------------------------------------------------
(***************************************************************************)
(* startUnit: whoever runs it is going to look at the mark in the end.     *)
(***************************************************************************)
StartLabels == KillLabels \ {"s_abandon", "d_stop"}

\* A step within startUnit, whatever it does to the unit.
Starts(h) == /\ \E a, b \in StartLabels : Moves(h, a, b)
             /\ Still /\ GoesOn /\ unit' \in Units

\* The labels startUnit goes through.
LEMMA StartLabelNames ==
    {"su_do", "su_clean", "su_again", "su_job", "su_check", "su_pid1", "su_loop1",
     "su_pid2", "su_loop2", "su_stop", "su_release", "su_rdel1", "su_rdel2", "su_ok",
     "su_err"} \subseteq StartLabels
BY DEF StartLabels, KillLabels

\* A step that only looks is one:
LEMMA StaticStarts ==
    ASSUME Types, NEW h, NEW a \in StartLabels, NEW b \in StartLabels,
           Moves(h, a, b), Static
    PROVE  Starts(h)
<1>1. unit' \in Units
  BY DEF Static, Types
<1>2. QED
  BY <1>1 DEF Starts, Static

\* a branch,
LEMMA BranchStarts ==
    ASSUME Types, NEW h, NEW a \in StartLabels, NEW STATE c, NEW STATE b,
           b \in StartLabels, Branch(h, a, c, b)
    PROVE  Starts(h)
BY BranchMove, StaticStarts

\* a load of the state,
LEMMA LoadsStarts ==
    ASSUME Types, NEW h, NEW a \in StartLabels, NEW STATE b, NEW STATE f,
           b \in StartLabels, f \in StartLabels, Loads(h, a, b, f)
    PROVE  Starts(h)
BY LoadsMove, StaticStarts

\* and a call.
LEMMA CallsStarts ==
    ASSUME Types, NEW h, NEW a \in StartLabels, NEW b \in StartLabels, NEW ACTION A,
           A => unit' \in Units /\ signals' \subseteq Reads, Calls(h, a, A, b)
    PROVE  Starts(h)
<1>1. Moves(h, a, b) /\ Still /\ A /\ GoesOn
  BY CallsMove
<1>2. QED
  BY <1>1 DEF Starts

\* StartTransientUnit.
LEMMA MakeStarts ==
    ASSUME Types, NEW h, NEW a \in StartLabels, NEW STATE f, f \in StartLabels,
           StartTransientUnit(h, a, f)
    PROVE  Starts(h)
<1>1. /\ Still /\ UNCHANGED <<state, file, signals, obs>>
      /\ Moves(h, a, "su_job") \/ Moves(h, a, f)
      /\ unit' = NewUnit \/ unit' = unit
      /\ recorded' = NoObs \/ recorded' = recorded
  BY DEF StartTransientUnit, Still, Moves, At, maps, proc
<1>2. unit' \in Units
  BY <1>1 DEF Types, Units, NewUnit
<1>3. GoesOn
  BY <1>1 DEF Types, Observed, Reads, GoesOn
<1>4. QED
  BY <1>1, <1>2, <1>3, StartLabelNames DEF Starts

\* What is asked of the unit during a start.
LEMMA StartActs ==
    ASSUME Types
    PROVE  /\ KillUnit => unit' \in Units /\ signals' \subseteq Reads
           /\ RuncKill => unit' \in Units /\ signals' \subseteq Reads
           /\ releaseUnit => unit' \in Units /\ signals' \subseteq Reads
           /\ UNCHANGED <<unit, signals>> => unit' \in Units /\ signals' \subseteq Reads
           /\ Dies(Killed) => unit' \in Units /\ signals' \subseteq Reads
<1>1. Dies(Killed) => unit' \in Units /\ signals' \subseteq Reads
  BY DiesUnit DEF Dies, Killed
<1>2. UNCHANGED <<unit, signals>> => unit' \in Units /\ signals' \subseteq Reads
  BY DEF Types, Observed
<1>3. QED
  BY <1>1, <1>2, Acts DEF MayDie

\* do() fails into one of them.
LEMMA DoFailedLabel == DoFailed \in StartLabels
BY StartLabelNames DEF DoFailed

\* The job, and what its end means.
LEMMA JobStarts ==
    ASSUME Types, NEW h,
           JobDone(h) \/ JobFailed(h) \/ JobCancelled(h) \/ JobChecked(h)
    PROVE  Starts(h)
<1>1. CASE JobDone(h)
  BY <1>1, LoadsStarts, DoFailedLabel, StartLabelNames DEF JobDone
<1>2. CASE JobFailed(h)
  BY <1>2, BranchStarts, DoFailedLabel, StartLabelNames DEF JobFailed
<1>3. CASE JobCancelled(h)
  <2>1. /\ Moves(h, "su_job", DoFailed) /\ Still
        /\ UNCHANGED <<state, file, recorded, obs>>
        /\ KillUnit \/ UNCHANGED <<unit, signals>>
    BY <1>3 DEF JobCancelled, Moves, At, Still, maps, proc
  <2>2. unit' \in Units /\ signals' \subseteq Reads
    BY <2>1, StartActs
  <2>3. GoesOn
    BY <2>1, <2>2 DEF GoesOn, Types, Observed
  <2>4. QED
    BY <2>1, <2>2, <2>3, DoFailedLabel, StartLabelNames DEF Starts
<1>4. CASE JobChecked(h)
  <2>1. (IF Exited(state) THEN DoFailed ELSE "su_pid2") \in StartLabels
    BY DoFailedLabel, StartLabelNames
  <2>2. QED
    BY <1>4, <2>1, BranchStarts, StartLabelNames DEF JobChecked
<1>5. QED
  BY <1>1, <1>2, <1>3, <1>4

\* handlePid.
LEMMA PidStarts ==
    ASSUME Types, NEW h, handlePid(h)
    PROVE  Starts(h)
<1>1. CASE Loads(h, "su_pid1", "su_loop1", "su_loop1")
  BY <1>1, LoadsStarts, StartLabelNames
<1>2. CASE Loads(h, "su_pid2", "su_loop2", "su_loop2")
  BY <1>2, LoadsStarts, StartLabelNames
<1>3. CASE \E l \in {"su_loop1", "su_loop2"} : Loads(h, l, l, l)
  BY <1>3, LoadsStarts, StartLabelNames
<1>4. CASE Branch(h, "su_loop1", TRUE, IF NoPid THEN "su_stop" ELSE "su_ok")
  <2>1. (IF NoPid THEN "su_stop" ELSE "su_ok") \in StartLabels
    BY StartLabelNames
  <2>2. QED
    BY <1>4, <2>1, BranchStarts, StartLabelNames
<1>5. CASE Branch(h, "su_loop2", TRUE, IF NoPid THEN "su_err" ELSE "su_ok")
  <2>1. (IF NoPid THEN "su_err" ELSE "su_ok") \in StartLabels
    BY StartLabelNames
  <2>2. QED
    BY <1>5, <2>1, BranchStarts, StartLabelNames
<1>6. QED
  BY <1>1, <1>2, <1>3, <1>4, <1>5 DEF handlePid

\* The second attempt.
LEMMA RetryStarts ==
    ASSUME Types, NEW h, StopForRetry(h) \/ Retry(h)
    PROVE  Starts(h)
<1>1. CASE Calls(h, "su_stop", IF Alive THEN Dies(Killed)
                                        ELSE UNCHANGED <<unit, signals>>, "su_release")
  <2>1. (IF Alive THEN Dies(Killed) ELSE UNCHANGED <<unit, signals>>)
            => unit' \in Units /\ signals' \subseteq Reads
    BY StartActs
  <2>2. QED
    BY <1>1, <2>1, CallsStarts, StartLabelNames
<1>2. CASE Branch(h, "su_stop", ctxDone, "su_err")
  BY <1>2, BranchStarts, StartLabelNames
<1>3. CASE /\ At(h, "su_stop") /\ Goto(h, "su_err")
           /\ UNCHANGED <<proc, deleting, recorded, maps, event, sysd, work, obs, attempt>>
  <2>1. Moves(h, "su_stop", "su_err") /\ Still /\ UNCHANGED unit
        /\ UNCHANGED <<state, file, recorded, signals, obs>>
    BY <1>3 DEF Moves, At, Still, maps, sysd, proc
  <2>2. Static
    BY <2>1, NothingSeen DEF Static
  <2>3. QED
    BY <2>1, <2>2, StaticStarts, StartLabelNames
<1>4. CASE Calls(h, "su_release", releaseUnit, "su_rdel1")
  BY <1>4, StartActs, CallsStarts, StartLabelNames
<1>5. CASE /\ At(h, "su_rdel1") /\ RuncKill /\ Goto(h, "su_do")
           /\ UNCHANGED <<proc, deleting, recorded, maps, event, file, work, obs, ctxDone>>
  <2>1. Moves(h, "su_rdel1", "su_do") /\ Still /\ RuncKill
        /\ UNCHANGED <<state, file, recorded, obs>>
    BY <1>5 DEF Moves, At, Still, maps, proc
  <2>2. unit' \in Units /\ signals' \subseteq Reads
    BY <2>1, StartActs
  <2>3. GoesOn
    BY <2>1, <2>2 DEF GoesOn, Types, Observed
  <2>4. QED
    BY <2>1, <2>2, <2>3, StartLabelNames DEF Starts
<1>6. CASE Calls(h, "su_rdel2", RuncKill, "su_err")
  BY <1>6, StartActs, CallsStarts, StartLabelNames
<1>7. QED
  BY <1>1, <1>2, <1>3, <1>4, <1>5, <1>6 DEF StopForRetry, Retry

\* So startUnit keeps the invariant, whatever becomes of the unit.
LEMMA StartUnitKeeps ==
    ASSUME RInv, UNCHANGED scenario, NEW h \in Callers \union {"create"}, startUnit(h)
    PROVE  RInv'
<1>1. Types
  BY DEF RInv
<1>2. Starts(h)
  <2>1. CASE StartsTwice(h)
    <3>1. CASE Calls(h, "su_clean", RuncKill, "su_again")
      BY <1>1, <3>1, StartActs, CallsStarts, StartLabelNames
    <3>2. CASE ~Calls(h, "su_clean", RuncKill, "su_again")
      BY <1>1, <2>1, <3>2, MakeStarts, DoFailedLabel, StartLabelNames DEF StartsTwice
    <3>3. QED
      BY <3>1, <3>2
  <2>2. CASE ~StartsTwice(h)
    BY <1>1, <2>2, JobStarts, PidStarts, RetryStarts DEF startUnit
  <2>3. QED
    BY <2>1, <2>2
<1>3. PICK a \in StartLabels, b \in StartLabels : Moves(h, a, b)
  BY <1>2 DEF Starts
<1>4. Still /\ GoesOn /\ unit' \in Units
  BY <1>2 DEF Starts
<1>5. b \in KillLabels /\ b \in RefLabels /\ b \notin MarkedLabels
  BY DEF StartLabels, KillLabels, RefLabels, MarkedLabels
<1>6. Minds(a, b)
  BY <1>4, <1>5 DEF Minds, Still
<1>7. /\ a \notin {"new", "ok", "failed", "d_mark", "d_check"} /\ a \notin MarkedLabels
      /\ b \notin {"c_fail2", "c_untrack", "d_check", "d_set", "ok", "failed", "refused"}
  BY DEF StartLabels, KillLabels, MarkedLabels
<1>8. Within(a, b)
  BY <1>4, <1>5, <1>7 DEF Within, Still
<1>9. UNCHANGED tracked /\ deleting' \in BOOLEAN
  BY <1>1, <1>4 DEF Still, Types
<1>10. QED
  BY <1>3, <1>4, <1>6, <1>8, <1>9, SharedKeeps

-----------------------------------------------------------------------------
(***************************************************************************)
(* initProcess.Delete.                                                     *)
(***************************************************************************)
\* A step that changes nothing but the label may leave the labels of those who release or
\* kill the unit only if the container is not marked.
Passes(a, b) ==
    /\ a \in RefLabels => b \in RefLabels \/ ~deleting
    /\ a \in KillLabels => b \in KillLabels \/ ~deleting
    /\ b \in MarkedLabels => a \in MarkedLabels

\* Such a step minds the unit.
LEMMA PassesMinds ==
    ASSUME Types, NEW a, NEW b, Static, Passes(a, b)
    PROVE  /\ Minds(a, b) /\ GoesOn /\ UNCHANGED tracked
           /\ unit' \in Units /\ deleting' \in BOOLEAN /\ tracked' \in BOOLEAN
<1>1. UNCHANGED <<deleting, tracked, unit>> /\ GoesOn
  BY DEF Static, Still
<1>2. unit' \in Units /\ deleting' \in BOOLEAN /\ tracked' \in BOOLEAN
  BY <1>1 DEF Types
<1>3. Minds(a, b)
  BY <1>1 DEF Minds, Passes, Alive
<1>4. QED
  BY <1>1, <1>2, <1>3

\* What the invariant makes of each step of Delete: a look ...
LEMMA DeleteWalks ==
    ASSUME RInv, UNCHANGED scenario, NEW h \in Callers \union {"create"}, NEW a, NEW b,
           Moves(h, a, b), Static, Passes(a, b), Within(a, b)
    PROVE  RInv'
<1>1. Types
  BY DEF RInv
<1>2. QED
  BY <1>1, PassesMinds, SharedKeeps

\* ... a kill ...
LEMMA DeleteKills ==
    ASSUME RInv, UNCHANGED scenario, NEW h \in Callers \union {"create"},
           \/ Calls(h, "d_stop", KillUnit, "d_runc")
           \/ Calls(h, "d_runc", RuncKill, "d_wait")
    PROVE  RInv'
<1>1. Types
  BY DEF RInv
<1>2. CASE Calls(h, "d_stop", KillUnit, "d_runc")
  <2>1. KillUnit => /\ MayDie /\ signals' \subseteq Reads
                    /\ BusErrors \/ unit'.st \notin {"starting", "running"}
    BY <1>1, Acts
  <2>2. Moves(h, "d_stop", "d_runc") /\ Still /\ KillUnit /\ GoesOn
    BY <1>1, <1>2, <2>1, CallsMove
  <2>3. "d_runc" \in RefLabels /\ "d_runc" \in MarkedLabels /\ "d_stop" \in MarkedLabels
    BY DEF RefLabels, MarkedLabels
  <2>4. Minds("d_stop", "d_runc") /\ Within("d_stop", "d_runc")
    BY <2>1, <2>2, <2>3 DEF Minds, Within, Still
  <2>5. UNCHANGED tracked /\ unit' \in Units /\ deleting' \in BOOLEAN
    BY <1>1, <2>1, <2>2 DEF Still, MayDie, Types
  <2>6. QED
    BY <2>2, <2>4, <2>5, SharedKeeps
<1>3. CASE Calls(h, "d_runc", RuncKill, "d_wait")
  <2>1. RuncKill => MayDie /\ signals' \subseteq Reads
    BY <1>1, Acts
  <2>2. Moves(h, "d_runc", "d_wait") /\ Still /\ RuncKill /\ GoesOn
    BY <1>1, <1>3, <2>1, CallsMove
  <2>3. "d_wait" \in RefLabels /\ "d_wait" \in MarkedLabels /\ "d_runc" \in MarkedLabels
    BY DEF RefLabels, MarkedLabels
  <2>4. "d_runc" \notin KillLabels
    BY DEF KillLabels
  <2>5. Minds("d_runc", "d_wait") /\ Within("d_runc", "d_wait")
    BY <2>1, <2>2, <2>3, <2>4 DEF Minds, Within, Still, MayDie, Alive
  <2>6. UNCHANGED tracked /\ unit' \in Units /\ deleting' \in BOOLEAN
    BY <1>1, <2>1, <2>2 DEF Still, MayDie, Types
  <2>7. QED
    BY <2>2, <2>5, <2>6, SharedKeeps
<1>4. QED
  BY <1>2, <1>3

\* ... or the release.
LEMMA DeleteReleases ==
    ASSUME RInv, UNCHANGED scenario, NEW h \in Callers \union {"create"},
           \/ Fails(h, "d_runc") \/ Fails(h, "d_wait")
           \/ Calls(h, "d_release", releaseUnit, "d_ok")
    PROVE  RInv'
<1>1. Types
  BY DEF RInv
<1>2. releaseUnit => /\ unit' \in Units /\ ~unit'.ref /\ unit'.st = unit.st
                     /\ signals' \subseteq Reads
  BY <1>1, Acts
<1>3. PICK a \in {"d_runc", "d_wait", "d_release"}, b \in {"d_err", "d_ok"} :
         Moves(h, a, b) /\ Still /\ releaseUnit /\ GoesOn
  <2>1. CASE Calls(h, "d_release", releaseUnit, "d_ok")
    BY <1>1, <1>2, <2>1, CallsMove
  <2>2. CASE \E a \in {"d_runc", "d_wait"} : Fails(h, a)
    <3>1. PICK a \in {"d_runc", "d_wait"} : Fails(h, a)
      BY <2>2
    <3>2. /\ Moves(h, a, "d_err") /\ Still /\ releaseUnit /\ file' = NoObs
          /\ UNCHANGED <<state, recorded, obs>>
      BY <3>1 DEF Fails, Moves, At, Still, maps, proc
    <3>3. GoesOn
      BY <1>1, <1>2, <3>2 DEF GoesOn, Types, Observed, Reads
    <3>4. QED
      BY <3>2, <3>3
  <2>3. QED
    BY <2>1, <2>2
<1>4. a \in MarkedLabels /\ a \notin KillLabels /\ b \in MarkedLabels
  BY DEF MarkedLabels, KillLabels
<1>5. Minds(a, b)
  BY <1>2, <1>3, <1>4 DEF Minds, Still, Alive
<1>6. Within(a, b)
  BY <1>3, <1>4 DEF Within, Still
<1>7. UNCHANGED tracked /\ unit' \in Units /\ deleting' \in BOOLEAN
  BY <1>1, <1>2, <1>3 DEF Still, Types
<1>8. QED
  BY <1>3, <1>5, <1>6, <1>7, SharedKeeps

\* Delete is refused while the unit is live, except to a Create that has failed.
LEMMA DeleteCheckKeeps ==
    ASSUME RInv, UNCHANGED scenario, NEW h \in Callers \union {"create"},
           DeleteChecks(h)
    PROVE  RInv'
<1>1. Types
  BY DEF RInv
<1>2. CASE Branch(h, "d_check", Exited(state), "d_mark")
  <2>1. Moves(h, "d_check", "d_mark") /\ Static
    BY <1>1, <1>2, BranchMove
  <2>2. Passes("d_check", "d_mark")
    BY DEF Passes, RefLabels, KillLabels, MarkedLabels
  <2>3. Within("d_check", "d_mark")
    BY <2>1 DEF Within, MarkedLabels, Static, Still
  <2>4. QED
    BY <2>1, <2>2, <2>3, DeleteWalks
<1>3. CASE MergeRead(h, "d_set", "d_mark")
  <2>1. h \in Handlers
    BY Names
  <2>2. Moves(h, "d_set", "d_mark") /\ Static
    BY <1>1, <1>3, <2>1, MergeReadMove
  <2>3. Passes("d_set", "d_mark")
    BY DEF Passes, RefLabels, KillLabels, MarkedLabels
  <2>4. Within("d_set", "d_mark")
    BY <2>2 DEF Within, MarkedLabels, Static, Still
  <2>5. QED
    BY <2>2, <2>3, <2>4, DeleteWalks
<1>4. CASE /\ At(h, "d_check") /\ ~Exited(state)
           /\ \E s \in UnitReads :
                 IF s = NoObs \/ Exited(s)
                 THEN obs' = [obs EXCEPT ![h] = Stamped(s)] /\ Goto(h, "d_set")
                 ELSE Goto(h, "refused") /\ UNCHANGED obs
           /\ UNCHANGED <<proc, deleting, recorded, maps, event, sysd, work, unitVars>>
  <2>1. h \in Callers /\ h \in Handlers
    BY <1>4, Names DEF RInv, Failing, At
  <2>2. /\ Moves(h, "d_check", "d_set") \/ Moves(h, "d_check", "refused")
        /\ Still /\ UNCHANGED <<unit, state, file, recorded, signals>>
    BY <1>4 DEF Moves, At, Still, maps, sysd, proc
  <2>3. UnitReads \subseteq Reads /\ obs \in [Handlers -> Reads]
    BY <1>1, UnitSays DEF Types, Observed
  <2>4. obs' \in [Handlers -> Reads]
    <3>1. obs' = obs \/ \E s \in Reads : obs' = [obs EXCEPT ![h] = Stamped(s)]
      BY <1>4, <2>3
    <3>2. QED
      BY <2>3, <3>1, StampedRead
  <2>5. Static
    BY <1>1, <2>2, <2>4 DEF Static, GoesOn, Types, Observed
  <2>6. PICK b \in {"d_set", "refused"} : Moves(h, "d_check", b)
    BY <2>2
  <2>7. Passes("d_check", b)
    BY DEF Passes, RefLabels, KillLabels, MarkedLabels
  <2>8. pc["create"] \in {"ok", "failed"}
    BY <2>1, <2>6, Later DEF Moves
  <2>9. QED
    BY <1>1, <2>1, <2>5, <2>6, <2>7, <2>8, PassesMinds, CallerKeeps
<1>5. QED
  BY <1>2, <1>3, <1>4 DEF DeleteChecks

\* So Delete keeps the invariant: it marks, kills and releases in this order.
LEMMA DeleteKeeps ==
    ASSUME RInv, UNCHANGED scenario, NEW h \in Callers \union {"create"}, Delete(h)
    PROVE  RInv'
<1>1. Types
  BY DEF RInv
<1>2. CASE DeleteChecks(h)
  BY <1>2, DeleteCheckKeeps
<1>3. CASE markDeleting(h, "d_mark", "d_stop")
  <2>1. /\ Moves(h, "d_mark", "d_stop") /\ deleting' = TRUE
        /\ UNCHANGED <<tracked, unit, state, file, recorded, signals, obs>>
    BY <1>3 DEF markDeleting, Moves, At, own, sysdVars, procVars
  <2>2. GoesOn
    BY <1>1, <2>1, NothingSeen
  <2>3. "d_stop" \in RefLabels /\ "d_stop" \in KillLabels /\ "d_stop" \in MarkedLabels
    BY DEF RefLabels, KillLabels, MarkedLabels
  <2>4. Minds("d_mark", "d_stop") /\ Within("d_mark", "d_stop")
    BY <2>1, <2>3 DEF Minds, Within
  <2>5. UNCHANGED tracked /\ unit' \in Units /\ deleting' \in BOOLEAN
    BY <1>1, <2>1 DEF Types
  <2>6. QED
    BY <2>1, <2>2, <2>4, <2>5, SharedKeeps
<1>4. CASE DeleteStops(h)
  BY <1>4, DeleteKills, DeleteReleases DEF DeleteStops
<1>5. CASE DeleteWaits(h)
  <2>1. CASE Branch(h, "d_wait",
                    state.pid = 0 \/ phase = "deleted" \/ Exited(state), "d_finish")
    <3>1. Moves(h, "d_wait", "d_finish") /\ Static
      BY <1>1, <2>1, BranchMove
    <3>2. Passes("d_wait", "d_finish")
      BY DEF Passes, RefLabels, KillLabels, MarkedLabels
    <3>3. Within("d_wait", "d_finish")
      BY DEF Within, MarkedLabels
    <3>4. QED
      BY <3>1, <3>2, <3>3, DeleteWalks
  <2>2. QED
    BY <1>5, <2>1, DeleteReleases DEF DeleteWaits
<1>6. CASE finishDelete(h)
  <2>1. CASE Calls(h, "d_release", releaseUnit, "d_ok")
    BY <2>1, DeleteReleases
  <2>2. CASE /\ At(h, "d_finish") /\ Goto(h, "d_release")
             /\ UNCHANGED <<state, deleting, recorded, maps, box, exitEvent, sysd, work,
                            obs, unitVars>>
    <3>1. /\ Moves(h, "d_finish", "d_release") /\ Still
          /\ UNCHANGED <<unit, state, file, recorded, signals, obs>>
      BY <2>2 DEF Moves, At, Still, maps, sysd
    <3>2. Static
      BY <1>1, <3>1, NothingSeen DEF Static
    <3>3. Passes("d_finish", "d_release")
      BY DEF Passes, RefLabels, KillLabels, MarkedLabels
    <3>4. Within("d_finish", "d_release")
      BY DEF Within, MarkedLabels
    <3>5. QED
      BY <3>1, <3>2, <3>3, <3>4, DeleteWalks
  <2>3. QED
    BY <1>6, <2>1, <2>2 DEF finishDelete
<1>7. QED
  BY <1>2, <1>3, <1>4, <1>5, <1>6 DEF Delete

-----------------------------------------------------------------------------
(***************************************************************************)
(* Create.  Until its Delete has begun nobody has marked the container.    *)
(***************************************************************************)
\* Nobody is going to mark the container before Create does.
LEMMA CreateFirst ==
    ASSUME RInv, NEW a, pc["create"] = a, a \notin MarkedLabels, a \notin {"ok", "failed"}
    PROVE  ~deleting /\ (tracked \/ a \in {"new", "d_check", "d_mark"})
BY DEF RInv, CreateAlone, Gone

\* So its steps need not mind the unit yet.
LEMMA CreateWalks ==
    ASSUME RInv, UNCHANGED scenario, NEW a, NEW b, Moves("create", a, b),
           a \notin MarkedLabels, a \notin {"ok", "failed"},
           UNCHANGED deleting, GoesOn, unit' \in Units, tracked' \in BOOLEAN,
           b \notin MarkedLabels, b \notin {"d_set", "refused"},
           b \in {"c_fail2", "c_untrack", "d_check"} => Exited(state'),
           tracked' \/ b \in {"d_check", "d_mark"}
    PROVE  RInv'
<1>1. pc["create"] = a
  BY DEF Moves
<1>2. ~deleting
  BY <1>1, CreateFirst
<1>3. Minds(a, b)
  BY <1>2 DEF Minds
<1>4. CreateMinds(b)
  BY <1>1, <1>2 DEF CreateMinds
<1>5. deleting' \in BOOLEAN
  BY DEF RInv, Types
<1>6. QED
  BY <1>3, <1>4, <1>5, CreateKeeps

\* The labels of Create's own steps.
CreateLabels == {"new", "su_ok", "su_err", "c_set", "c_send", "c_fail", "c_fail2",
                 "c_untrack"}

\* Until it is about to delete, the container stays in the map.
LEMMA CreateSteps ==
    ASSUME RInv, UNCHANGED scenario, NEW a \in CreateLabels \ {"new"},
           NEW b \in {"c_set", "c_send", "c_fail", "c_fail2", "c_untrack", "ok"},
           Moves("create", a, b), Still, GoesOn, unit' \in Units,
           b \in {"c_fail2", "c_untrack"} => Exited(state')
    PROVE  RInv'
<1>1. /\ a \notin MarkedLabels /\ a \notin {"ok", "failed", "new", "d_check", "d_mark"}
      /\ b \notin MarkedLabels
  BY DEF CreateLabels, MarkedLabels
<1>2. tracked
  BY <1>1, CreateFirst DEF Moves
<1>3. QED
  BY <1>1, <1>2, CreateWalks DEF Still

\* Create puts the container into the map,
LEMMA RegisterKeeps ==
    ASSUME RInv, UNCHANGED scenario, Register
    PROVE  RInv'
<1>1. Types
  BY DEF RInv
<1>2. /\ \E b \in {"c_set", "su_do", "su_err"} : Moves("create", "new", b)
      /\ tracked' = TRUE
      /\ UNCHANGED <<deleting, unit, state, file, recorded, signals, obs>>
  BY DEF Register, Moves, At, sysd, proc
<1>3. PICK b \in {"c_set", "su_do", "su_err"} : Moves("create", "new", b)
  BY <1>2
<1>4. GoesOn /\ unit' \in Units
  BY <1>1, <1>2, NothingSeen DEF Types
<1>5. "new" \notin MarkedLabels /\ b \notin MarkedLabels
  BY DEF MarkedLabels
<1>6. QED
  BY <1>2, <1>3, <1>4, <1>5, CreateWalks

\* and a Create that fails takes it out and deletes it.
LEMMA EndsKeeps ==
    ASSUME RInv, UNCHANGED scenario, CreateEnds
    PROVE  RInv'
<1>1. Types /\ unit \in Units /\ state \in pStates
  BY DEF RInv, Types, Observed
<1>2. {"su_ok", "su_err", "c_set", "c_send", "c_fail", "c_fail2", "c_untrack"}
          \subseteq CreateLabels \ {"new"}
  BY DEF CreateLabels
<1>3. CASE Branch("create", "su_ok", TRUE, "c_set")
  <2>1. Moves("create", "su_ok", "c_set") /\ Static
    BY <1>1, <1>3, BranchMove
  <2>2. QED
    BY <1>1, <1>2, <2>1, CreateSteps DEF Static
<1>4. CASE Sets("create", "c_set", Obs(0, 0, state.pid, "created"), "c_send")
  <2>1. Obs(0, 0, state.pid, "created") \in pStates
    BY <1>1 DEF Obs, pStates, Statuses, Created
  <2>2. Moves("create", "c_set", "c_send") /\ Static
    BY <1>1, <1>4, <2>1, SetsMove
  <2>3. QED
    BY <1>1, <1>2, <2>2, CreateSteps DEF Static
<1>5. CASE Sends("create", "c_send", "TaskCreate", "ok")
  <2>1. Moves("create", "c_send", "ok") /\ Static
    BY <1>1, <1>5, SendsMove
  <2>2. QED
    BY <1>1, <1>2, <2>1, CreateSteps DEF Static
<1>6. CASE Calls("create", "su_err", RuncKill, "c_fail")
  <2>1. RuncKill => unit' \in Units /\ signals' \subseteq Reads
    BY <1>1, StartActs
  <2>2. Moves("create", "su_err", "c_fail") /\ Still /\ RuncKill /\ GoesOn
    BY <1>1, <1>6, <2>1, CallsMove
  <2>3. QED
    BY <1>2, <2>1, <2>2, CreateSteps
<1>7. CASE \/ Sets("create", "c_fail", failedState, "c_fail2")
           \/ Sets("create", "c_fail2", failedState, "c_untrack")
  <2>1. failedState \in pStates /\ Exited(failedState)
    BY DEF failedState, Synthetic, Obs, pStates, Statuses, Stopped, Exited
  <2>2. /\ Static /\ Exited(state')
        /\ \/ Moves("create", "c_fail", "c_fail2")
           \/ Moves("create", "c_fail2", "c_untrack")
    BY <1>1, <1>7, <2>1, SetsMove
  <2>3. QED
    BY <1>1, <1>2, <2>2, CreateSteps DEF Static
<1>8. CASE Untrack("create", "c_untrack", "d_check")
  <2>1. /\ Moves("create", "c_untrack", "d_check") /\ tracked' = FALSE
        /\ UNCHANGED <<deleting, unit, state, file, recorded, signals, obs>>
    BY <1>8 DEF Untrack, Moves, At, sysd, proc
  <2>2. GoesOn /\ unit' \in Units
    BY <1>1, <2>1, NothingSeen
  <2>3. Exited(state')
    BY <2>1 DEF RInv, Failing, Moves
  <2>4. "c_untrack" \notin MarkedLabels /\ "d_check" \notin MarkedLabels
    BY DEF MarkedLabels
  <2>5. QED
    BY <2>1, <2>2, <2>3, <2>4, CreateWalks
<1>9. CASE \E l \in {"d_ok", "d_err", "refused"} : Branch("create", l, TRUE, "failed")
  <2>1. PICK a \in {"d_ok", "d_err", "refused"} : Branch("create", a, TRUE, "failed")
    BY <1>9
  <2>2. Moves("create", a, "failed") /\ Static
    BY <1>1, <2>1, BranchMove
  <2>3. a # "refused"
    BY <2>2 DEF RInv, Failing, Moves
  <2>4. a \in MarkedLabels /\ a \notin RefLabels /\ a \notin KillLabels
        /\ "failed" \notin MarkedLabels
    BY <2>3 DEF MarkedLabels, RefLabels, KillLabels
  <2>5. Passes(a, "failed")
    BY <2>4 DEF Passes
  <2>6. deleting
    BY <2>2, <2>4, Names DEF RInv, Marked, Moves
  <2>7. CreateMinds("failed")
    BY <2>2, <2>6 DEF CreateMinds, Static, Still
  <2>8. QED
    BY <1>1, <2>2, <2>5, <2>7, PassesMinds, CreateKeeps
<1>10. QED
  BY <1>3, <1>4, <1>5, <1>6, <1>7, <1>8, <1>9 DEF CreateEnds

-----------------------------------------------------------------------------
(***************************************************************************)
(* The calls.                                                              *)
(***************************************************************************)
\* A call that only looks.
LEMMA CallerWalks ==
    ASSUME RInv, UNCHANGED scenario, NEW h \in Callers, NEW a, NEW b,
           Moves(h, a, b), a # "new", Static, Passes(a, b)
    PROVE  RInv'
<1>1. Types
  BY DEF RInv
<1>2. pc["create"] \in {"ok", "failed"}
  BY Later DEF Moves
<1>3. QED
  BY <1>1, <1>2, PassesMinds, CallerKeeps

\* Who is neither to release nor to kill the unit.
Bystanders == {"new", "s_begin", "s_runc", "s_pid", "s_load", "s_loaded", "s_reload",
               "s_fail", "s_finish", "s_state", "s_send", "s_abort", "d_check", "d_err",
               "d_ok", "w_load", "w_read", "w_merge", "w_wait", "ok", "failed",
               "refused"}

\* Nobody relies on a bystander,
LEMMA BystanderPasses ==
    ASSUME NEW a \in Bystanders, NEW b, b \notin MarkedLabels
    PROVE  Passes(a, b)
BY DEF Bystanders, Passes, RefLabels, KillLabels, MarkedLabels

\* so that it may go anywhere.
LEMMA BystanderWalks ==
    ASSUME RInv, UNCHANGED scenario, NEW h \in Callers, NEW a \in Bystanders \ {"new"},
           NEW b, b \notin MarkedLabels, Moves(h, a, b), Static
    PROVE  RInv'
BY CallerWalks, BystanderPasses

\* A call begins when Create has returned.
LEMMA LookupKeeps ==
    ASSUME RInv, UNCHANGED scenario, NEW h \in Callers,
           NEW f \in {"s_begin", "d_check", "w_load"}, Lookup(h, f)
    PROVE  RInv'
<1>1. pc["create"] \in {"ok", "failed"}
  BY DEF Lookup, RInv, Settled
<1>2. PICK b \in {f, "refused"} : Branch(h, "new", TRUE, b)
  BY DEF Lookup
<1>3. Types
  BY DEF RInv
<1>4. Moves(h, "new", b) /\ Static
  BY <1>2, <1>3, BranchMove
<1>5. Passes("new", b)
  BY DEF Passes, RefLabels, KillLabels, MarkedLabels
<1>6. QED
  BY <1>1, <1>3, <1>4, <1>5, PassesMinds, CallerKeeps

\* A kill by a call that nobody relies on, or that goes on to release the unit.
LEMMA CallerKills ==
    ASSUME RInv, UNCHANGED scenario, NEW h \in Callers, NEW a, NEW b,
           Calls(h, a, KillUnit, b), a # "new", b \in MarkedLabels => a \in MarkedLabels,
           a \in RefLabels => b \in RefLabels
    PROVE  RInv'
<1>1. Types
  BY DEF RInv
<1>2. KillUnit => /\ MayDie /\ signals' \subseteq Reads
                  /\ BusErrors \/ unit'.st \notin {"starting", "running"}
  BY <1>1, Acts
<1>3. Moves(h, a, b) /\ Still /\ KillUnit /\ GoesOn
  BY <1>1, <1>2, CallsMove
<1>4. Minds(a, b)
  BY <1>2, <1>3 DEF Minds, Still, MayDie
<1>5. /\ unit' \in Units /\ deleting' \in BOOLEAN /\ tracked' \in BOOLEAN
      /\ tracked' = tracked
  BY <1>1, <1>2, <1>3 DEF Still, MayDie, Types
<1>6. pc["create"] \in {"ok", "failed"}
  BY <1>3, Later DEF Moves
<1>7. QED
  BY <1>3, <1>4, <1>5, <1>6, CallerKeeps

\* The starter that finds the container marked kills the unit and releases it.
LEMMA AbandonKeeps ==
    ASSUME RInv, UNCHANGED scenario, NEW h \in Callers, abandonStartedUnit(h)
    PROVE  RInv'
<1>1. CASE Calls(h, "s_abandon", KillUnit, "s_release")
  <2>1. "s_release" \in RefLabels /\ "s_release" \notin MarkedLabels
    BY DEF RefLabels, MarkedLabels
  <2>2. QED
    BY <1>1, <2>1, CallerKills
<1>2. CASE Calls(h, "s_release", releaseUnit, "s_abort")
  <2>1. Types
    BY DEF RInv
  <2>2. releaseUnit => /\ unit' \in Units /\ ~unit'.ref /\ unit'.st = unit.st
                       /\ signals' \subseteq Reads
    BY <2>1, Acts
  <2>3. Moves(h, "s_release", "s_abort") /\ Still /\ releaseUnit /\ GoesOn
    BY <1>2, <2>1, <2>2, CallsMove
  <2>4. "s_release" \notin KillLabels /\ "s_abort" \notin MarkedLabels
    BY DEF KillLabels, MarkedLabels
  <2>5. Minds("s_release", "s_abort")
    BY <2>2, <2>3, <2>4 DEF Minds, Still, Alive
  <2>6. /\ unit' \in Units /\ deleting' \in BOOLEAN /\ tracked' \in BOOLEAN
        /\ tracked' = tracked
    BY <2>1, <2>2, <2>3 DEF Still, Types
  <2>7. pc["create"] \in {"ok", "failed"}
    BY <2>3, Later DEF Moves
  <2>8. QED
    BY <2>3, <2>5, <2>6, <2>7, CallerKeeps
<1>3. QED
  BY <1>1, <1>2 DEF abandonStartedUnit

\* Labels a bystander goes through, for the steps below.
LEMMA StartBystanders ==
    {"s_begin", "s_runc", "s_pid", "s_load", "s_loaded", "s_reload", "s_fail", "s_finish",
     "s_state", "s_send", "s_abort", "w_load", "w_read", "w_merge", "w_wait"}
        \subseteq Bystanders \ {"new"}
BY DEF Bystanders

\* The claim.
LEMMA BeginKeeps ==
    ASSUME RInv, UNCHANGED scenario, NEW h \in Callers, beginStart(h)
    PROVE  RInv'
<1>1. Types
  BY DEF RInv
<1>2. /\ \E b \in {"su_do", "s_runc", "refused"} : Moves(h, "s_begin", b)
      /\ Still /\ UNCHANGED <<unit, state, file, recorded, signals, obs>>
  BY DEF beginStart, Moves, At, Still, maps, sysd
<1>3. PICK b \in {"su_do", "s_runc", "refused"} : Moves(h, "s_begin", b)
  BY <1>2
<1>4. Static
  BY <1>1, <1>2, NothingSeen DEF Static
<1>5. b \notin MarkedLabels
  BY DEF MarkedLabels
<1>6. QED
  BY <1>3, <1>4, <1>5, StartBystanders, BystanderWalks

\* runc start, and what happens when it fails.
LEMMA RuncStartKeeps ==
    ASSUME RInv, UNCHANGED scenario, NEW h \in Callers, RuncStart(h)
    PROVE  RInv'
<1>1. Types /\ state \in pStates
  BY DEF RInv, Types, Observed
<1>2. \A b \in {"s_pid", "s_load", "s_loaded", "s_abort", "s_reload", "s_fail"} :
         b \notin MarkedLabels
  BY DEF MarkedLabels
<1>3. CASE \/ Branch(h, "s_runc", SetUp, "s_pid")
           \/ Branch(h, "s_runc", ~SetUp \/ BusErrors, "s_load")
           \/ Branch(h, "s_loaded", Exited(state), "s_abort")
           \/ Branch(h, "s_fail", Exited(state), "s_abort")
  <2>1. /\ Static
        /\ \E a \in {"s_runc", "s_loaded", "s_fail"}, b \in {"s_pid", "s_load", "s_abort"} :
              Moves(h, a, b)
    BY <1>1, <1>3, BranchMove
  <2>2. QED
    BY <1>2, <2>1, StartBystanders, BystanderWalks
<1>4. CASE \/ Loads(h, "s_load", "s_loaded", "s_loaded")
           \/ Loads(h, "s_reload", "s_fail", "s_fail")
  <2>1. Static /\ (Moves(h, "s_load", "s_loaded") \/ Moves(h, "s_reload", "s_fail"))
    BY <1>1, <1>4, LoadsMove
  <2>2. QED
    BY <1>2, <2>1, StartBystanders, BystanderWalks
<1>5. CASE Calls(h, "s_loaded", KillUnit, "s_reload")
  <2>1. "s_loaded" \notin RefLabels
    BY DEF RefLabels, KillLabels
  <2>2. QED
    BY <1>2, <1>5, <2>1, CallerKills
<1>6. CASE Sets(h, "s_fail", [failedState EXCEPT !.pid = state.pid], "s_abort")
  <2>1. [failedState EXCEPT !.pid = state.pid] \in pStates
    <3>1. failedState \in pStates
      BY DEF failedState, Synthetic, Obs, pStates, Statuses, Stopped
    <3>2. QED
      BY <1>1, <3>1 DEF pStates
  <2>2. Static /\ Moves(h, "s_fail", "s_abort")
    BY <1>1, <1>6, <2>1, SetsMove
  <2>3. QED
    BY <1>2, <2>2, StartBystanders, BystanderWalks
<1>7. QED
  BY <1>3, <1>4, <1>5, <1>6 DEF RuncStart

\* The end of a start: the poll for a pid, the look at the mark and finishStart.
LEMMA FinishKeeps ==
    ASSUME RInv, UNCHANGED scenario, NEW h \in Callers,
           StartPolls(h) \/ RestoreEnds(h) \/ finishStart(h, state.pid) \/ abortStart(h)
    PROVE  RInv'
<1>1. Types /\ state \in pStates
  BY DEF RInv, Types, Observed
<1>2. \A b \in {"s_pid", "s_finish", "s_state", "s_send", "ok", "failed"} :
         b \notin MarkedLabels
  BY DEF MarkedLabels
<1>3. CASE StartPolls(h)
  <2>1. Static /\ (Moves(h, "s_pid", "s_pid") \/ Moves(h, "s_pid", "s_finish"))
    BY <1>1, <1>3, LoadsMove, BranchMove DEF StartPolls
  <2>2. QED
    BY <1>2, <2>1, StartBystanders, BystanderWalks
<1>4. CASE RestoreEnds(h)
  <2>1. PICK a \in {"su_ok", "su_err"}, b \in {"s_abandon", "s_finish", "s_abort"} :
           Branch(h, a, TRUE, b) /\ (deleting => b = "s_abandon")
    BY <1>4 DEF RestoreEnds
  <2>2. Moves(h, a, b) /\ Static
    BY <1>1, <2>1, BranchMove
  <2>3. /\ b = "s_abandon" => b \in RefLabels /\ b \in KillLabels
        /\ b \notin MarkedLabels
    BY DEF RefLabels, KillLabels, MarkedLabels
  <2>4. Passes(a, b)
    BY <2>1, <2>3 DEF Passes
  <2>5. QED
    BY <2>2, <2>4, CallerWalks
<1>5. CASE finishStart(h, state.pid)
  <2>1. Obs(0, 0, state.pid, "running") \in pStates
    BY <1>1 DEF Obs, pStates, Statuses, Running
  <2>2. CASE Advance(h, "s_finish", "running", "s_state")
    BY <1>1, <1>2, <2>2, AdvanceMove, StartBystanders, BystanderWalks
  <2>3. CASE Sets(h, "s_state", Obs(0, 0, state.pid, "running"), "s_send")
    <3>1. Moves(h, "s_state", "s_send") /\ Static
      BY <1>1, <2>1, <2>3, SetsMove
    <3>2. QED
      BY <1>2, <3>1, StartBystanders, BystanderWalks
  <2>4. CASE Sends(h, "s_send", "TaskStart", "ok")
    BY <1>1, <1>2, <2>4, SendsMove, StartBystanders, BystanderWalks
  <2>5. QED
    BY <1>5, <2>2, <2>3, <2>4 DEF finishStart
<1>6. CASE abortStart(h)
  BY <1>1, <1>2, <1>6, AdvanceMove, StartBystanders, BystanderWalks DEF abortStart
<1>7. QED
  BY <1>3, <1>4, <1>5, <1>6

\* Service.Delete takes the container out of the map when it has marked it.
LEMMA ServiceDeleteKeeps ==
    ASSUME RInv, UNCHANGED scenario, NEW h \in Callers, ServiceDelete(h)
    PROVE  RInv'
<1>1. Types
  BY DEF RInv
<1>2. CASE Lookup(h, "d_check")
  BY <1>2, LookupKeeps
<1>3. CASE Delete(h)
  BY <1>3, DeleteKeeps
<1>4. CASE Untrack(h, "d_ok", "ok")
  <2>1. /\ Moves(h, "d_ok", "ok") /\ tracked' = FALSE
        /\ UNCHANGED <<deleting, unit, state, file, recorded, signals, obs>>
    BY <1>4 DEF Untrack, Moves, At, sysd, proc
  <2>2. h \in Handlers /\ "d_ok" \in MarkedLabels
    BY Names DEF MarkedLabels
  <2>3. deleting
    BY <2>1, <2>2 DEF RInv, Marked, Moves
  <2>4. /\ "d_ok" \notin RefLabels /\ "d_ok" \notin KillLabels /\ "ok" \notin MarkedLabels
    BY DEF RefLabels, KillLabels, MarkedLabels
  <2>5. Minds("d_ok", "ok")
    BY <2>1, <2>4 DEF Minds, Alive
  <2>6. GoesOn /\ unit' \in Units /\ deleting' \in BOOLEAN
    BY <1>1, <2>1, NothingSeen DEF Types
  <2>7. pc["create"] \in {"ok", "failed"}
    BY <2>1, Later DEF Moves
  <2>8. QED
    BY <2>1, <2>3, <2>5, <2>6, <2>7, CallerKeeps
<1>5. CASE Branch(h, "d_err", TRUE, "failed")
  <2>1. "d_err" \in Bystanders \ {"new"} /\ "failed" \notin MarkedLabels
    BY DEF Bystanders, MarkedLabels
  <2>2. QED
    BY <1>1, <1>5, <2>1, BranchMove, BystanderWalks
<1>6. QED
  BY <1>2, <1>3, <1>4, <1>5 DEF ServiceDelete

\* Wait only looks.
LEMMA WaitKeeps ==
    ASSUME RInv, UNCHANGED scenario, NEW h \in Callers, Wait(h)
    PROVE  RInv'
<1>1. Types /\ h \in Handlers
  BY Names DEF RInv
<1>2. \A b \in {"w_read", "w_merge", "w_wait", "ok"} : b \notin MarkedLabels
  BY DEF MarkedLabels
<1>3. CASE Lookup(h, "w_load")
  BY <1>3, LookupKeeps
<1>4. CASE Loads(h, "w_load", "w_read", "w_read")
  BY <1>1, <1>2, <1>4, LoadsMove, StartBystanders, BystanderWalks
<1>5. CASE ReadExit(h, "w_read", "w_merge")
  BY <1>1, <1>2, <1>5, ReadExitMove, StartBystanders, BystanderWalks
<1>6. CASE Branch(h, "w_read", Exited(state) \/ state.pid = 0, "w_wait")
  BY <1>1, <1>2, <1>6, BranchMove, StartBystanders, BystanderWalks
<1>7. CASE MergeRead(h, "w_merge", "w_wait")
  BY <1>1, <1>2, <1>7, MergeReadMove, StartBystanders, BystanderWalks
<1>8. CASE Branch(h, "w_wait", phase = "deleted" \/ Exited(state), "ok")
  BY <1>1, <1>2, <1>8, BranchMove, StartBystanders, BystanderWalks
<1>9. QED
  BY <1>3, <1>4, <1>5, <1>6, <1>7, <1>8 DEF Wait

-----------------------------------------------------------------------------
(***************************************************************************)
(* The reactor, and the world outside the shim.                            *)
(***************************************************************************)
ReactorLabels == {"idle", "r_load", "r_read", "r_merge", "r_retry"}

\* Nobody relies on the reactor worker,
LEMMA ReactorWalks ==
    ASSUME RInv, UNCHANGED scenario, NEW a \in ReactorLabels, NEW b \in ReactorLabels,
           Moves("reactor", a, b), Static
    PROVE  RInv'
<1>1. /\ {"create", "reactor"} \subseteq Handlers /\ Callers \subseteq Handlers
      /\ "reactor" \notin Callers
  BY Names
<1>2. Types
  BY DEF RInv
<1>3. /\ pc' = [g \in Handlers |-> pc'[g]] /\ pc'["create"] = pc["create"]
      /\ \A g \in Callers : pc'[g] = pc[g]
  BY <1>1, <1>2, Moved
<1>4. Passes(a, b)
  BY DEF Passes, ReactorLabels, RefLabels, KillLabels, MarkedLabels
<1>5. /\ Minds(a, b) /\ GoesOn /\ UNCHANGED <<tracked, deleting>>
      /\ unit' \in Units /\ deleting' \in BOOLEAN /\ tracked' \in BOOLEAN
  BY <1>2, <1>4, PassesMinds DEF Static, Still
<1>6. Types' /\ Settled'
  BY <1>3, <1>5 DEF RInv, Types, GoesOn, Settled
<1>7. CreateAlone' /\ Gone'
  BY <1>3, <1>5 DEF RInv, CreateAlone, Gone
<1>8. Failing'
  BY <1>3, <1>5 DEF RInv, Failing, GoesOn
<1>9. Marked' /\ WillRelease' /\ WillKill'
  BY <1>1, <1>5, StillMinded
<1>10. QED
  BY <1>6, <1>7, <1>8, <1>9 DEF RInv

\* which only looks.
LEMMA ReactorKeeps ==
    ASSUME RInv, UNCHANGED scenario, Reconcile(ReactorLoads)
    PROVE  RInv'
<1>1. Types /\ "reactor" \in Handlers
  BY Names DEF RInv
<1>2. {"idle", "r_load", "r_read", "r_merge", "r_retry"} \subseteq ReactorLabels
  BY DEF ReactorLabels
<1>3. CASE \/ Branch("reactor", "r_read", Exited(state) \/ state.pid = 0, "idle")
           \/ Branch("reactor", "r_merge", obs["reactor"] = NoObs, "r_retry")
  BY <1>1, <1>2, <1>3, BranchMove, ReactorWalks
<1>4. CASE ReactorLoads
  BY <1>1, <1>2, <1>4, LoadsMove, ReactorWalks DEF ReactorLoads
<1>5. CASE ReadExit("reactor", "r_read", "r_merge")
  BY <1>1, <1>2, <1>5, ReadExitMove, ReactorWalks
<1>6. CASE MergeRead("reactor", "r_merge", "idle")
  BY <1>1, <1>2, <1>6, MergeReadMove, ReactorWalks
<1>7. CASE /\ \/ /\ At("reactor", "idle")
                 /\ Goto("reactor", IF indexed /\ ~Exited(state) THEN "r_load" ELSE "idle")
              \/ At("reactor", "r_retry") /\ Goto("reactor", "idle")
           /\ UNCHANGED <<procVars, shimVars, eventVars, sysdVars, obs>>
  <2>1. /\ \E a, b \in ReactorLabels : Moves("reactor", a, b)
        /\ Still /\ UNCHANGED <<unit, state, file, recorded, signals, obs>>
    BY <1>2, <1>7 DEF Moves, At, Still, shimVars, own, sysdVars, procVars
  <2>2. Static
    BY <1>1, <2>1, NothingSeen DEF Static
  <2>3. QED
    BY <2>1, <2>2, ReactorWalks
<1>8. QED
  BY <1>3, <1>4, <1>5, <1>6, <1>7 DEF Reconcile

\* A step outside the handlers can only make the unit go.
LEMMA OutsideKeeps ==
    ASSUME RInv, UNCHANGED <<pc, deleting, tracked, scenario>>, GoesOn,
           unit' \in Units, unit'.ref => unit.ref,
           unit'.st \in {"starting", "running"} => Alive
    PROVE  RInv'
<1>1. Types' /\ Settled'
  BY DEF RInv, Types, GoesOn, Settled
<1>2. CreateAlone' /\ Gone' /\ Marked'
  BY DEF RInv, CreateAlone, Gone, Marked
<1>3. Failing'
  BY DEF RInv, Failing, GoesOn
<1>4. WillRelease'
  BY DEF RInv, WillRelease
<1>5. WillKill'
  BY DEF RInv, WillKill, BusErrors, Faults, Alive
<1>6. QED
  BY <1>1, <1>2, <1>3, <1>4, <1>5 DEF RInv

\* The unit dies, or changes hands, and the helper writes its file.
LEMMA UnitDies ==
    ASSUME RInv, UNCHANGED <<pc, deleting, tracked, scenario>>,
           UNCHANGED <<state, recorded, obs>>, file' \in Reads, signals' \subseteq Reads,
           unit' \in Units, unit'.ref = unit.ref,
           unit'.st \in {"starting", "running"} => Alive
    PROVE  RInv'
<1>1. GoesOn
  BY DEF RInv, Types, Observed, GoesOn
<1>2. QED
  BY <1>1, OutsideKeeps

\* The create helper.
LEMMA HelperKeeps ==
    ASSUME RInv, UNCHANGED scenario, Helper \/ HandoffEnds \/ HelperReports
    PROVE  RInv'
<1>1. Types /\ unit \in Units /\ signals \subseteq Reads /\ file \in Reads
  BY DEF RInv, Types, Observed
<1>2. UNCHANGED <<pc, deleting, tracked, scenario, state, recorded, obs>>
  BY DEF Helper, HandoffEnds, HelperReports, maps, proc
<1>3. \A c \in Nat : DiesAs(HelperFailed, c) \/ DiesAs(0, c) =>
         /\ unit' \in Units /\ unit'.ref = unit.ref /\ unit'.st = "dead"
         /\ signals' \subseteq Reads
  BY <1>1, DiesUnit DEF HelperFailed
<1>4. \A c \in Nat : /\ Obs(1, c, 1, "exited") \in Reads
                     /\ Obs(1, 1, 1, exitedInit) \in Reads
                     /\ Obs(0, 0, 1, "running") \in Reads /\ NoObs \in Reads
  BY DEF Obs, Reads, pStates, Statuses, Running, Stopped, exitedInit
<1>5. OwnCodes \subseteq Nat
  BY DEF OwnCodes
<1>6. CASE \E c \in OwnCodes : HelperTells(c)
  <2>1. PICK c \in OwnCodes : HelperTells(c)
    BY <1>6
  <2>2. (DiesAs(HelperFailed, c) \/ DiesAs(0, c)) /\ file' = Obs(1, c, 1, "exited")
    BY <2>1 DEF HelperTells
  <2>3. QED
    BY <1>2, <1>3, <1>4, <1>5, <2>2, UnitDies
<1>7. CASE Dies(HelperFailed) /\ (file' = Obs(1, 1, 1, exitedInit) \/ UNCHANGED file)
  <2>1. DiesAs(HelperFailed, HelperFailed) /\ HelperFailed \in Nat
    BY <1>7 DEF Dies, HelperFailed
  <2>2. QED
    BY <1>1, <1>2, <1>3, <1>4, <1>7, <2>1, UnitDies
<1>8. CASE /\ unit.st = "starting" /\ file' = Obs(0, 0, 1, "running") /\ UNCHANGED signals
           /\ unit' = [unit EXCEPT !.st = "running", !.job = "done", !.helper = "handoff"]
  <2>1. unit' \in Units /\ unit'.ref = unit.ref /\ Alive
    BY <1>1, <1>8 DEF Units, Alive
  <2>2. QED
    BY <1>1, <1>2, <1>4, <1>8, <2>1, UnitDies
<1>9. CASE HandoffEnds
  <2>1. /\ unit' \in Units /\ unit'.ref = unit.ref /\ Alive
        /\ file' \in Reads /\ UNCHANGED signals
    BY <1>1, <1>4, <1>9 DEF HandoffEnds, Units, Alive
  <2>2. QED
    BY <1>1, <1>2, <2>1, UnitDies
<1>10. QED
  BY <1>6, <1>7, <1>8, <1>9 DEF Helper, HelperReports

\* Everything outside the shim.
LEMMA EnvironmentKeeps ==
    ASSUME RInv, UNCHANGED scenario, Environment
    PROVE  RInv'
<1>1. Types /\ unit \in Units /\ signals \subseteq Reads /\ file \in Reads
  BY DEF RInv, Types, Observed
<1>2. CASE Helper \/ HandoffEnds \/ HelperReports
  BY <1>2, HelperKeeps
<1>3. CASE WorkloadExits(OwnCodes)
  <2>1. PICK c \in OwnCodes : DiesAs(c, c)
    BY <1>3 DEF WorkloadExits, Dies
  <2>2. c \in Nat
    BY DEF OwnCodes
  <2>3. /\ unit' \in Units /\ unit'.ref = unit.ref /\ unit'.st = "dead"
        /\ signals' \subseteq Reads
    BY <1>1, <2>1, <2>2, DiesUnit
  <2>4. UNCHANGED <<pc, deleting, tracked, state, recorded, obs, file>>
    BY <1>3 DEF WorkloadExits, shimVars, own, procVars
  <2>5. QED
    BY <1>1, <2>3, <2>4, UnitDies
<1>4. CASE Collect
  <2>1. unit' \in Units /\ unit'.ref = unit.ref /\ unit'.st = "absent"
    BY <1>1, <1>4 DEF Collect, Units
  <2>2. UNCHANGED <<pc, deleting, tracked, state, recorded, obs, file, signals>>
    BY <1>4 DEF Collect, shimVars, own, procVars
  <2>3. QED
    BY <1>1, <2>1, <2>2, UnitDies
<1>5. CASE Kill
  <2>1. KillUnit /\ UNCHANGED <<pc, deleting, tracked, state, recorded, obs, file>>
    BY <1>5 DEF Kill, maps, proc
  <2>2. MayDie /\ signals' \subseteq Reads
    BY <1>1, <2>1, Acts
  <2>3. /\ unit' \in Units /\ unit'.ref = unit.ref
        /\ unit'.st \in {"starting", "running"} => Alive
    BY <2>2 DEF MayDie, Alive
  <2>4. QED
    BY <1>1, <2>1, <2>2, <2>3, UnitDies
<1>6. QED
  BY <1>2, <1>3, <1>4, <1>5 DEF Environment

\* The informer, and a Send that was owed.
LEMMA SideKeeps ==
    ASSUME RInv, UNCHANGED scenario, Informer \/ \E h \in Handlers : SendOwed(h)
    PROVE  RInv'
<1>1. Types /\ unit \in Units /\ signals \subseteq Reads /\ recorded \in Reads
  BY DEF RInv, Types, Observed
<1>2. CASE Informer
  <2>1. UNCHANGED <<pc, deleting, tracked, unit, state, file, obs>>
    BY <1>2 DEF Informer, own, procVars
  <2>2. signals' \subseteq Reads /\ recorded' \in Reads
    BY <1>1, <1>2 DEF Informer
  <2>3. GoesOn
    BY <1>1, <2>1, <2>2 DEF GoesOn, Types, Observed
  <2>4. QED
    BY <1>1, <2>1, <2>3, OutsideKeeps DEF Alive
<1>3. CASE \E h \in Handlers : SendOwed(h)
  <2>1. UNCHANGED <<pc, deleting, tracked, unit, state, file, recorded, signals, obs>>
    BY <1>3 DEF SendOwed, shimVars, own, sysdVars, procVars
  <2>2. GoesOn
    BY <1>1, <2>1, NothingSeen
  <2>3. QED
    BY <1>1, <2>1, <2>2, OutsideKeeps DEF Alive
<1>4. QED
  BY <1>2, <1>3

-----------------------------------------------------------------------------
\* The invariant holds at first,
LEMMA InitRInv == Init /\ Settled => RInv
<1> SUFFICES ASSUME Init, Settled PROVE RInv
  OBVIOUS
<1>1. /\ deleting = FALSE /\ tracked = FALSE /\ state = noState
      /\ file = NoObs /\ recorded = NoObs /\ signals = {}
      /\ unit = [st |-> "absent", code |-> 0, real |-> 0, ref |-> FALSE,
                 job |-> "none", helper |-> "gone"]
      /\ pc = [h \in Handlers |-> IF h = "reactor" THEN "idle" ELSE "new"]
      /\ obs = [h \in Handlers |-> NoObs]
  BY DEF Init, StepsInit
<1>2. state \in pStates
  BY <1>1 DEF noState, pStates, Statuses
<1>3. Types
  BY <1>1, <1>2 DEF Types, Observed, Units, Reads
<1>4. pc["create"] = "new" /\ \A h \in Callers : pc[h] = "new"
  BY <1>1, Names
<1>5. CreateAlone /\ Failing /\ Gone
  BY <1>1, <1>4 DEF CreateAlone, Failing, Gone
<1>6. \A h \in Handlers : pc[h] \notin MarkedLabels
  BY <1>1 DEF MarkedLabels
<1>7. Marked /\ WillRelease /\ WillKill
  BY <1>1, <1>6 DEF Marked, WillRelease, WillKill
<1>8. QED
  BY <1>3, <1>5, <1>7 DEF RInv

\* and every step keeps it.
LEMMA NextRInv == RInv /\ [Next]_vars => RInv'
<1> SUFFICES ASSUME RInv, [Next]_vars PROVE RInv'
  OBVIOUS
<1>1. CASE UNCHANGED vars
  <2>1. /\ UNCHANGED <<pc, deleting, tracked, scenario, unit>>
        /\ UNCHANGED <<state, file, recorded, signals, obs>>
    BY <1>1 DEF vars, proc, maps, sysd
  <2>2. Types /\ unit \in Units
    BY DEF RInv, Types
  <2>3. GoesOn
    BY <2>1, <2>2, NothingSeen
  <2>4. QED
    BY <2>1, <2>2, <2>3, OutsideKeeps DEF Alive
<1>2. CASE Next
  <2>1. UNCHANGED scenario
    BY <1>2 DEF Next
  <2>2. /\ Starters \subseteq Callers /\ Deleters \subseteq Callers
        /\ Waiters \subseteq Callers
    BY DEF Callers
  <2>3. CASE Environment
    BY <2>1, <2>3, EnvironmentKeeps
  <2>4. CASE Create
    <3>1. "create" \in Callers \union {"create"}
      OBVIOUS
    <3>2. QED
      BY <2>1, <2>4, <3>1, RegisterKeeps, StartUnitKeeps, DeleteKeeps, EndsKeeps DEF Create
  <2>5. CASE \E h \in Starters : Start(h)
    <3>1. PICK h \in Callers : Start(h)
      BY <2>2, <2>5
    <3>2. h \in Callers \union {"create"}
      OBVIOUS
    <3>3. QED
      BY <2>1, <3>1, <3>2, LookupKeeps, BeginKeeps, RuncStartKeeps, StartUnitKeeps,
         FinishKeeps, AbandonKeeps DEF Start
  <2>6. CASE \E h \in Deleters : ServiceDelete(h)
    BY <2>1, <2>2, <2>6, ServiceDeleteKeeps
  <2>7. CASE \E h \in Waiters : Wait(h)
    BY <2>1, <2>2, <2>7, WaitKeeps
  <2>8. CASE Informer \/ \E h \in Handlers : SendOwed(h)
    BY <2>1, <2>8, SideKeeps
  <2>9. CASE Reconcile(ReactorLoads)
    BY <2>1, <2>9, ReactorKeeps
  <2>10. QED
    BY <1>2, <2>3, <2>4, <2>5, <2>6, <2>7, <2>8, <2>9 DEF Next, Step
<1>3. QED
  BY <1>1, <1>2

\* Nobody is under way any more, and nobody knows the container: so somebody has marked
\* it, nobody is left who would release its unit, and so it is not referenced.
LEMMA NotStranded == RInv => NoStrandedUnit
<1> SUFFICES ASSUME RInv, Idle, ~tracked, pc["create"] # "new"
             PROVE  ~unit.ref /\ (BusErrors \/ ~Alive)
  BY DEF NoStrandedUnit
<1>1. \A h \in Handlers : pc[h] \in Finished
  BY DEF Idle
<1>2. \A l \in Finished : l \notin RefLabels /\ l \notin KillLabels
  BY DEF Finished, RefLabels, KillLabels
<1>3. pc["create"] \in Finished
  BY <1>1, Names
<1>4. deleting
  BY <1>3 DEF RInv, Gone, Finished
<1>5. QED
  BY <1>1, <1>2, <1>4 DEF RInv, WillRelease, WillKill

\* When the client calls only on a container whose Create has returned, however many
\* Starts, Deletes and Waits it makes at once, from a checkpoint or not, and whatever
\* fails: once everything has come to rest and the container is gone, its unit is released
\* and, unless the calls that would have killed it failed, not running
\* (delete.go:135-140, process.go:392-398).
THEOREM NoUnitStranded == Safe /\ Settled => []NoStrandedUnit
BY InitRInv, NextRInv, NotStranded, PTL DEF Safe

-----------------------------------------------------------------------------
(***************************************************************************)
(* Every event is published once.  TaskCreate and TaskStart belong to one  *)
(* goroutine each: Create, and the one Start whose claim is not handed     *)
(* back.  TaskExit and TaskDelete belong to a change of phase, which makes *)
(* one goroutine owe them.  What the outbox does with an event it is given *)
(* once is in EventOutboxProofs (SentOnce).                                *)
(***************************************************************************)
\* The outbox of this process, and the theorems about it.
OP == INSTANCE EventOutboxProofs WITH
          Events <- EventKinds, Kind <- [e \in EventKinds |-> e], NoEvent <- "none",
          Capacity <- 1, o <- box, handed <- box, accepted <- box, mu <- box, i <- box,
          kept <- box, sent <- box, queued <- box, cancelled <- box, stalled <- box,
          entry <- box

\* A Start is at one of these once it has claimed the process (beginStart) and until it
\* has handed the claim back (abortStart); "ok" stands for a claim that is kept.
ClaimLabels == StartLabels \union
               {"s_runc", "s_load", "s_loaded", "s_reload", "s_fail", "s_pid", "s_finish",
                "s_state", "s_send", "s_abandon", "s_release", "s_abort", "ok"}

\* The events that are published or held back.
Streamed == OP!Contents(box)

\* The types the argument needs.
OTypes == /\ phase \in Phases /\ box \in OP!Boxes
          /\ pc = [h \in Handlers |-> pc[h]]
          /\ owe \in [Handlers -> SUBSET {"TaskExit", "TaskDelete"}]

\* One Start at most has the claim, and only an unclaimed process is in phase created.
OneClaim ==
    /\ \A h \in Starters : pc[h] \in ClaimLabels => phase # "created"
    /\ \A g, h \in Starters : pc[g] \in ClaimLabels /\ pc[h] \in ClaimLabels => g = h

\* The phases in which an event about the end of the process is due.
After == [e \in {"TaskExit", "TaskDelete"} |->
            IF e = "TaskExit" THEN {"exited", "deleted"} ELSE {"deleted"}]

\* Every event has one occasion: Create's return, the one Start that returns, and for
\* the other two the change of phase, which makes one goroutine owe the event.
Occasions ==
    /\ "TaskCreate" \in Streamed => pc["create"] = "ok"
    /\ "TaskStart" \in Streamed => \E h \in Starters : pc[h] = "ok"
    /\ \A e \in {"TaskExit", "TaskDelete"} : e \in Streamed => phase \in After[e]
    /\ \A h \in Handlers : \A e \in owe[h] :
          /\ phase \in After[e] /\ e \notin Streamed
          /\ \A g \in Handlers : e \in owe[g] => g = h

\* Nothing is in the outbox twice, and no exit has left it before a start.
Orderly(b) == OP!IsInjective(b.out \o b.o.held) /\ OP!Sound(b)

\* The inductive invariant behind EventsOnce.
OInv == OTypes /\ OneClaim /\ Occasions /\ Orderly(box)

\* The outbox meets the assumptions of its theorems.
LEMMA OPAssumptions == OP!KindType /\ OP!NoEventFresh /\ OP!CapacityPositive
<1>1. OP!KindType
  BY DEF OP!KindType, EventKinds, OP!Kinds
<1>2. OP!NoEventFresh
  BY DEF OP!NoEventFresh, EventKinds
<1>3. OP!CapacityPositive
  BY DEF OP!CapacityPositive
<1>4. QED
  BY <1>1, <1>2, <1>3

\* Both instances of the outbox send alike.
LEMMA SameSent ==
    ASSUME NEW b, NEW e
    PROVE  Outbox!Sent(b, e) = OP!Sent(b, e)
BY DEF Outbox!Sent, OP!Sent, Outbox!Flush, OP!Flush, Outbox!Passes, OP!Passes,
       Outbox!Pass, OP!Pass, Outbox!Visits, OP!Visits, Outbox!Visit, OP!Visit,
       Outbox!Holding, OP!Holding, Outbox!publishable, OP!publishable, Outbox!record,
       OP!record

\* What sending an event for the first time does.
LEMMA SendsOnce ==
    ASSUME box \in OP!Boxes, NEW e \in EventKinds, box' = Outbox!Sent(box, e)
    PROVE  /\ box' \in OP!Boxes
           /\ Streamed' = Streamed \union {e}
           /\ e \notin Streamed /\ Orderly(box)
                 => Orderly(box')
<1>1. box' = OP!Sent(box, e)
  BY SameSent
<1>2. /\ OP!Sent(box, e) \in OP!Boxes
      /\ OP!Contents(OP!Sent(box, e)) = OP!Contents(box) \union {e}
      /\ OP!Sound(box) => OP!Sound(OP!Sent(box, e))
  BY OPAssumptions, OP!SentGrows DEF OP!Grows
<1>3. ASSUME e \notin OP!Contents(box), OP!IsInjective(box.out \o box.o.held)
      PROVE  OP!IsInjective(OP!Sent(box, e).out \o OP!Sent(box, e).o.held)
  BY <1>3, OPAssumptions, OP!SentOnce
<1>4. Streamed' = OP!Contents(box')
  BY DEF Streamed
<1>5. QED
  BY <1>1, <1>2, <1>3, <1>4 DEF Streamed, Orderly

\* What a step does to the phase and to what is owed: nothing, or h ends the process.
Ends(h) == /\ phase \in {"created", "starting", "running"} /\ phase' = "exited"
           /\ owe' \in {owe, [owe EXCEPT ![h] = {"TaskExit"}]}
Effects(h) == /\ UNCHANGED box
              /\ \/ UNCHANGED <<phase, owe>> \/ Ends(h)
                 \/ phase = "starting" /\ phase' = "running" /\ UNCHANGED owe

\* A move of h that does not touch the claim.
Walks(h, a, b) ==
    /\ Moves(h, a, b)
    /\ h = "create" => a # "ok"
    /\ h \in Starters => a # "ok" /\ (b \in ClaimLabels => a \in ClaimLabels)

\* Nobody is owed anything by a process that has not ended.
LEMMA NothingOwed ==
    ASSUME OInv, phase \in {"created", "starting", "running"}
    PROVE  /\ \A h \in Handlers : owe[h] = {}
           /\ "TaskExit" \notin Streamed /\ "TaskDelete" \notin Streamed
<1>1. After["TaskExit"] = {"exited", "deleted"} /\ After["TaskDelete"] = {"deleted"}
  BY DEF After
<1>2. \A h \in Handlers : owe[h] \subseteq {"TaskExit", "TaskDelete"}
  BY DEF OInv, OTypes
<1>3. QED
  BY <1>1, <1>2 DEF OInv, Occasions

\* Who is where after a move.
LEMMA OMoved ==
    ASSUME OTypes, NEW h \in Handlers, NEW a, NEW b, Moves(h, a, b)
    PROVE  /\ pc[h] = a /\ pc' = [g \in Handlers |-> pc'[g]] /\ pc'[h] = b
           /\ \A g \in Handlers : g # h => pc'[g] = pc[g]
BY DEF OTypes, Moves, Goto

\* The process ends: TaskExit comes to be owed by one goroutine, and by no other.
LEMMA EndsOnce ==
    ASSUME OInv, NEW h \in Handlers, UNCHANGED box, Ends(h)
    PROVE  /\ owe' \in [Handlers -> SUBSET {"TaskExit", "TaskDelete"}]
           /\ \A e \in {"TaskExit", "TaskDelete"} : e \notin Streamed'
           /\ \A f \in Handlers : \A e \in owe'[f] :
                 phase' \in After[e] /\ f = h
<1>1. /\ \A g \in Handlers : owe[g] = {}
      /\ "TaskExit" \notin Streamed /\ "TaskDelete" \notin Streamed
  BY NothingOwed DEF Ends
<1>2. Streamed' = Streamed
  BY DEF Streamed
<1>3. owe \in [Handlers -> SUBSET {"TaskExit", "TaskDelete"}]
  BY DEF OInv, OTypes
<1>4. owe' \in [Handlers -> SUBSET {"TaskExit", "TaskDelete"}]
  BY <1>3 DEF Ends
<1>5. \A f \in Handlers : owe'[f] = {} \/ (f = h /\ owe'[f] = {"TaskExit"})
  BY <1>1, <1>3 DEF Ends
<1>6. phase' \in After["TaskExit"]
  BY DEF Ends, After
<1>7. QED
  BY <1>1, <1>2, <1>4, <1>5, <1>6

\* What becomes of the events in a step that sends none.
LEMMA EventsKeep ==
    ASSUME OInv, NEW h \in Handlers, Effects(h)
    PROVE  /\ phase' \in Phases /\ box' \in OP!Boxes
           /\ owe' \in [Handlers -> SUBSET {"TaskExit", "TaskDelete"}]
           /\ Orderly(box)'
           /\ phase # "created" => phase' # "created"
           /\ Streamed' = Streamed
           /\ \A e \in {"TaskExit", "TaskDelete"} : e \in Streamed' => phase' \in After[e]
           /\ \A f \in Handlers : \A e \in owe'[f] :
                 /\ phase' \in After[e] /\ e \notin Streamed'
                 /\ \A g \in Handlers : e \in owe'[g] => g = f
<1>1. /\ phase \in Phases /\ box \in OP!Boxes /\ Orderly(box)
      /\ owe \in [Handlers -> SUBSET {"TaskExit", "TaskDelete"}] /\ box' = box
  BY DEF OInv, OTypes, Effects
<1>2. Streamed' = Streamed
  BY <1>1 DEF Streamed
<1>3. box' \in OP!Boxes /\ Orderly(box)'
  BY <1>1
<1>4. CASE UNCHANGED <<phase, owe>>
  BY <1>1, <1>2, <1>3, <1>4 DEF OInv, Occasions
<1>5. CASE Ends(h)
  <2>1. phase' \in Phases /\ phase' # "created"
    BY <1>5 DEF Ends, Phases
  <2>2. /\ owe' \in [Handlers -> SUBSET {"TaskExit", "TaskDelete"}]
        /\ \A e \in {"TaskExit", "TaskDelete"} : e \notin Streamed'
        /\ \A f \in Handlers : \A e \in owe'[f] : phase' \in After[e] /\ f = h
    BY <1>1, <1>5, EndsOnce
  <2>3. \A f \in Handlers : \A e \in owe'[f] : e \in {"TaskExit", "TaskDelete"}
    BY <2>2
  <2>4. QED
    BY <1>2, <1>3, <2>1, <2>2, <2>3
<1>6. CASE phase = "starting" /\ phase' = "running" /\ UNCHANGED owe
  <2>1. /\ \A g \in Handlers : owe[g] = {}
        /\ "TaskExit" \notin Streamed /\ "TaskDelete" \notin Streamed
    BY <1>6, NothingOwed
  <2>2. QED
    BY <1>1, <1>2, <1>3, <1>6, <2>1 DEF Phases
<1>7. QED
  BY <1>4, <1>5, <1>6 DEF Effects

\* Such a move keeps the invariant.
LEMMA WalkKeeps ==
    ASSUME OInv, NEW h \in Handlers, NEW a, NEW b, Walks(h, a, b), Effects(h)
    PROVE  OInv'
<1>1. /\ pc[h] = a /\ pc' = [g \in Handlers |-> pc'[g]] /\ pc'[h] = b
      /\ \A g \in Handlers : g # h => pc'[g] = pc[g]
  BY OMoved DEF OInv, Walks
<1>2. Starters \subseteq Handlers /\ "create" \in Handlers
  BY DEF Handlers
<1>3. /\ phase' \in Phases /\ box' \in OP!Boxes
      /\ owe' \in [Handlers -> SUBSET {"TaskExit", "TaskDelete"}]
      /\ Orderly(box)'
      /\ phase # "created" => phase' # "created"
      /\ Streamed' = Streamed
      /\ \A e \in {"TaskExit", "TaskDelete"} : e \in Streamed' => phase' \in After[e]
      /\ \A f \in Handlers : \A e \in owe'[f] :
            /\ phase' \in After[e] /\ e \notin Streamed'
            /\ \A g \in Handlers : e \in owe'[g] => g = f
  BY EventsKeep
<1>4. OTypes'
  BY <1>1, <1>3 DEF OTypes
<1>5. \A g \in Starters : pc'[g] \in ClaimLabels => pc[g] \in ClaimLabels
  BY <1>1, <1>2 DEF Walks
<1>6. OneClaim'
  BY <1>3, <1>5 DEF OInv, OneClaim
<1>7. /\ pc["create"] = "ok" => pc'["create"] = "ok"
      /\ \A g \in Starters : pc[g] = "ok" => pc'[g] = "ok"
  BY <1>1, <1>2 DEF Walks
<1>8. After' = After
  BY DEF After
<1>9. Occasions'
  BY <1>3, <1>7, <1>8 DEF OInv, Occasions
<1>10. QED
  BY <1>3, <1>4, <1>6, <1>9 DEF OInv

-----------------------------------------------------------------------------
\* A move with no effect on the events but an exit.
Eff(h, a, b) == Moves(h, a, b) /\ Effects(h)

\* Merging an observation ends the process at most once.
LEMMA SetStateEff ==
    ASSUME phase \in Phases, NEW h, NEW s, SetState(h, s), UNCHANGED box
    PROVE  Effects(h)
<1>1. /\ phase' = phaseAfter(phase, state, s)
      /\ \/ owe' = owe
         \/ owe' = [owe EXCEPT ![h] = {"TaskExit"}] /\ justExited(phase, state, s)
  BY DEF SetState
<1>2. phase' = phase \/ phase' = advance(phase, "exited")
  BY <1>1 DEF phaseAfter
<1>3. /\ phase \in {"exited", "deleted"} => advance(phase, "exited") = phase
      /\ phase \in {"created", "starting", "running"} => advance(phase, "exited") = "exited"
  BY DEF advance, canBecome, phaseTransitions, Phases
<1>4. justExited(phase, state, s) => phase' = "exited" /\ phase # "exited"
  BY <1>1 DEF justExited
<1>5. CASE phase \in {"exited", "deleted"}
  BY <1>1, <1>2, <1>3, <1>4, <1>5 DEF Effects
<1>6. CASE phase \in {"created", "starting", "running"}
  BY <1>1, <1>2, <1>3, <1>4, <1>6 DEF Effects, Ends
<1>7. QED
  BY <1>5, <1>6 DEF Phases

\* So does a branch,
LEMMA BranchEff ==
    ASSUME NEW h, NEW a, NEW STATE c, NEW STATE b, Branch(h, a, c, b)
    PROVE  Eff(h, a, b) /\ c
BY DEF Branch, Eff, Moves, At, Effects, eventVars, procVars

\* setting the state,
LEMMA SetsEff ==
    ASSUME phase \in Phases, NEW h, NEW a, NEW s, NEW b, Sets(h, a, s, b)
    PROVE  Eff(h, a, b)
<1>1. Moves(h, a, b) /\ SetState(h, s) /\ UNCHANGED box
  BY DEF Sets, Moves, At
<1>2. QED
  BY <1>1, SetStateEff DEF Eff

\* a call to systemd or runc,
LEMMA CallsEff ==
    ASSUME NEW h, NEW a, NEW b, NEW ACTION A, Calls(h, a, A, b)
    PROVE  Eff(h, a, b)
BY DEF Calls, Eff, Moves, At, Effects, eventVars, procVars

\* the mark of a delete,
LEMMA MarkEff ==
    ASSUME NEW h, NEW a, NEW b, markDeleting(h, a, b)
    PROVE  Eff(h, a, b)
BY DEF markDeleting, Eff, Moves, At, Effects, eventVars, procVars

\* a read of the exit,
LEMMA ReadExitEff ==
    ASSUME NEW h, NEW a, NEW b, ReadExit(h, a, b)
    PROVE  Eff(h, a, b)
BY DEF ReadExit, Eff, Moves, At, Effects, eventVars, procVars

\* its merge,
LEMMA MergeReadEff ==
    ASSUME phase \in Phases, NEW h, NEW a, NEW b, MergeRead(h, a, b)
    PROVE  Eff(h, a, b)
<1>1. Moves(h, a, b) /\ UNCHANGED box
  BY DEF MergeRead, Moves, At
<1>2. UNCHANGED <<phase, owe>> \/ SetState(h, obs[h])
  BY DEF MergeRead, procVars
<1>3. Effects(h)
  BY <1>1, <1>2, SetStateEff DEF Effects
<1>4. QED
  BY <1>1, <1>3 DEF Eff

\* LoadState, wherever it leads,
LEMMA LoadsEff ==
    ASSUME phase \in Phases, NEW h, NEW a, NEW STATE b, NEW STATE f, Loads(h, a, b, f)
    PROVE  Eff(h, a, b) \/ Eff(h, a, f)
<1>1. UNCHANGED box /\ (Moves(h, a, b) \/ Moves(h, a, f))
  BY DEF Loads, Moves, At
<1>2. UNCHANGED <<phase, owe>> \/ \E s : SetState(h, s)
  BY DEF Loads, LoadState, proc
<1>3. Effects(h)
  BY <1>1, <1>2, SetStateEff DEF Effects
<1>4. QED
  BY <1>1, <1>3 DEF Eff

\* leaving the maps,
LEMMA UntrackEff ==
    ASSUME NEW h, NEW a, NEW b, Untrack(h, a, b)
    PROVE  Eff(h, a, b)
BY DEF Untrack, Eff, Moves, At, Effects, event, proc

\* the start of a unit
LEMMA MakeEff ==
    ASSUME NEW h, NEW a, NEW STATE f, StartTransientUnit(h, a, f)
    PROVE  Eff(h, a, "su_job") \/ Eff(h, a, f)
BY DEF StartTransientUnit, Eff, Moves, At, Effects, event, proc

\* and with it all of startUnit.
LEMMA StartUnitEff ==
    ASSUME phase \in Phases, NEW h, startUnit(h)
    PROVE  \E a, b \in StartLabels : Eff(h, a, b)
<1> USE StartLabelNames, DoFailedLabel
<1>1. CASE StartsTwice(h)
  BY <1>1, MakeEff, CallsEff DEF StartsTwice
<1>2. CASE JobDone(h) \/ JobFailed(h)
  BY <1>2, LoadsEff, BranchEff DEF JobDone, JobFailed
<1>3. CASE JobCancelled(h)
  BY <1>3 DEF JobCancelled, Eff, Moves, At, Effects, event, proc
<1>4. CASE JobChecked(h)
  <2>1. (IF Exited(state) THEN DoFailed ELSE "su_pid2") \in StartLabels
    OBVIOUS
  <2>2. QED
    BY <1>4, <2>1, BranchEff DEF JobChecked
<1>5. CASE handlePid(h)
  <2>1. /\ (IF NoPid THEN "su_stop" ELSE "su_ok") \in StartLabels
        /\ (IF NoPid THEN "su_err" ELSE "su_ok") \in StartLabels
    OBVIOUS
  <2>2. CASE \E l \in {"su_loop1", "su_loop2"} : Loads(h, l, l, l)
    BY <2>2, LoadsEff
  <2>3. CASE \/ Loads(h, "su_pid1", "su_loop1", "su_loop1")
             \/ Loads(h, "su_pid2", "su_loop2", "su_loop2")
    BY <2>3, LoadsEff
  <2>4. CASE \/ Branch(h, "su_loop1", TRUE, IF NoPid THEN "su_stop" ELSE "su_ok")
             \/ Branch(h, "su_loop2", TRUE, IF NoPid THEN "su_err" ELSE "su_ok")
    BY <2>1, <2>4, BranchEff
  <2>5. QED
    BY <1>5, <2>2, <2>3, <2>4 DEF handlePid
<1>6. CASE StopForRetry(h)
  <2>1. CASE At(h, "su_stop") /\ Goto(h, "su_err") /\ UNCHANGED <<proc, event>>
    BY <2>1 DEF Eff, Moves, At, Effects, event, proc
  <2>2. QED
    BY <1>6, <2>1, CallsEff, BranchEff DEF StopForRetry
<1>7. CASE Retry(h)
  <2>1. CASE At(h, "su_rdel1") /\ Goto(h, "su_do") /\ UNCHANGED <<proc, event>>
    BY <2>1 DEF Eff, Moves, At, Effects, event, proc
  <2>2. QED
    BY <1>7, <2>1, CallsEff DEF Retry
<1>8. QED
  BY <1>1, <1>2, <1>3, <1>4, <1>5, <1>6, <1>7 DEF startUnit

-----------------------------------------------------------------------------
\* A step outside the claims: h is no Start, and is not the Create that has returned.
LEMMA OtherWalks ==
    ASSUME OInv, NEW h \in Handlers, h \notin Starters, NEW a, NEW b, Eff(h, a, b),
           h = "create" => a # "ok"
    PROVE  OInv'
BY WalkKeeps DEF Eff, Walks

\* The labels of a claim that is not settled yet.
LEMMA ClaimNames ==
    /\ {"s_runc", "s_load", "s_loaded", "s_reload", "s_fail", "s_pid", "s_finish",
        "s_state", "s_send", "s_abandon", "s_release", "s_abort", "ok"} \subseteq ClaimLabels
    /\ StartLabels \subseteq ClaimLabels /\ "ok" \notin StartLabels
    /\ \A l \in {"new", "s_begin", "refused", "failed"} : l \notin ClaimLabels
BY DEF ClaimLabels, StartLabels, KillLabels

\* A step within the claim of a Start.
LEMMA ClaimWalks ==
    ASSUME OInv, NEW h \in Starters, NEW a \in ClaimLabels \ {"ok"}, NEW b, Eff(h, a, b)
    PROVE  OInv'
<1>1. h \in Handlers /\ h # "create"
  BY CallersFresh DEF Handlers
<1>2. QED
  BY <1>1, WalkKeeps DEF Eff, Walks

\* A Start claims the process,
LEMMA ClaimKeeps ==
    ASSUME OInv, NEW h \in Starters, beginStart(h)
    PROVE  OInv'
<1>1. h \in Handlers /\ h # "create" /\ "create" \in Handlers /\ Starters \subseteq Handlers
  BY CallersFresh DEF Handlers
<1>2. UNCHANGED <<box, owe>> /\ pc[h] = "s_begin" /\ phase \in Phases
  BY DEF beginStart, At, event, OInv, OTypes
<1>3. CASE ~canBecome(phase, "starting")
  <2>1. Eff(h, "s_begin", "refused")
    BY <1>3 DEF beginStart, At, Moves, Eff, Effects, event, advance
  <2>2. Walks(h, "s_begin", "refused")
    BY <1>1, <2>1, ClaimNames DEF Walks, Eff
  <2>3. QED
    BY <1>1, <2>1, <2>2, WalkKeeps DEF Eff
<1>4. CASE canBecome(phase, "starting")
  <2>1. phase = "created" /\ phase' = "starting"
    BY <1>2, <1>4 DEF beginStart, canBecome, advance, phaseTransitions, Phases
  <2>2. PICK b : Moves(h, "s_begin", b)
    BY <1>4 DEF beginStart, Moves, At
  <2>3. /\ pc' = [g \in Handlers |-> pc'[g]]
        /\ \A g \in Handlers : g # h => pc'[g] = pc[g]
    BY <1>1, <2>2, OMoved DEF OInv
  <2>4. /\ \A g \in Handlers : owe[g] = {}
        /\ "TaskExit" \notin Streamed /\ "TaskDelete" \notin Streamed
    BY <2>1, NothingOwed
  <2>5. Streamed' = Streamed
    BY <1>2 DEF Streamed
  <2>6. \A g \in Starters : pc[g] \notin ClaimLabels
    BY <2>1 DEF OInv, OneClaim
  <2>7. "TaskStart" \notin Streamed
    BY <2>6, ClaimNames DEF OInv, Occasions
  <2>8. OTypes'
    BY <1>2, <2>1, <2>3 DEF OInv, OTypes, Phases
  <2>9. OneClaim'
    BY <1>1, <2>1, <2>3, <2>6 DEF OneClaim
  <2>10. Occasions'
    BY <1>1, <1>2, <2>3, <2>4, <2>5, <2>7 DEF OInv, Occasions
  <2>11. Orderly(box)'
    BY <1>2 DEF OInv
  <2>12. QED
    BY <2>8, <2>9, <2>10, <2>11 DEF OInv
<1>5. QED
  BY <1>3, <1>4

\* hands the claim back,
LEMMA AbortKeeps ==
    ASSUME OInv, NEW h \in Starters, abortStart(h)
    PROVE  OInv'
<1>1. h \in Handlers /\ h # "create" /\ "create" \in Handlers /\ Starters \subseteq Handlers
  BY CallersFresh DEF Handlers
<1>2. /\ UNCHANGED <<box, owe>> /\ Moves(h, "s_abort", "failed") /\ phase \in Phases
      /\ phase' = advance(phase, "created")
  BY DEF abortStart, Advance, At, Moves, eventVars, OInv, OTypes
<1>3. /\ phase \in {"created", "starting"} /\ phase' = "created"
      \/ phase' = phase
  BY <1>2 DEF canBecome, advance, phaseTransitions, Phases
<1>4. CASE phase' = phase
  <2>1. Eff(h, "s_abort", "failed")
    BY <1>2, <1>4 DEF Eff, Effects
  <2>2. QED
    BY <2>1, ClaimWalks, ClaimNames
<1>5. CASE phase \in {"created", "starting"} /\ phase' = "created"
  <2>1. /\ pc' = [g \in Handlers |-> pc'[g]] /\ pc[h] = "s_abort" /\ pc'[h] = "failed"
        /\ \A g \in Handlers : g # h => pc'[g] = pc[g]
    BY <1>1, <1>2, OMoved DEF OInv
  <2>2. /\ \A g \in Handlers : owe[g] = {}
        /\ "TaskExit" \notin Streamed /\ "TaskDelete" \notin Streamed
    BY <1>5, NothingOwed
  <2>3. Streamed' = Streamed
    BY <1>2 DEF Streamed
  <2>4. \A g \in Starters : g # h => pc[g] \notin ClaimLabels
    BY <2>1, ClaimNames DEF OInv, OneClaim
  <2>5. \A g \in Starters : pc'[g] \notin ClaimLabels
    BY <1>1, <2>1, <2>4, ClaimNames
  <2>6. "TaskStart" \notin Streamed
    BY <2>1, <2>4, ClaimNames DEF OInv, Occasions
  <2>7. OTypes'
    BY <1>2, <1>5, <2>1 DEF OInv, OTypes, Phases
  <2>8. OneClaim'
    BY <2>5 DEF OneClaim
  <2>9. Occasions'
    BY <1>1, <1>2, <2>1, <2>2, <2>3, <2>6 DEF OInv, Occasions
  <2>10. Orderly(box)'
    BY <1>2 DEF OInv
  <2>11. QED
    BY <2>7, <2>8, <2>9, <2>10 DEF OInv
<1>6. QED
  BY <1>3, <1>4, <1>5

\* Create and Start send their event as they return.
LEMMA SendKeeps ==
    ASSUME OInv,
           NEW h, \/ h = "create" /\ Sends(h, "c_send", "TaskCreate", "ok")
                  \/ h \in Starters /\ Sends(h, "s_send", "TaskStart", "ok")
    PROVE  OInv'
<1>1. /\ h \in Handlers /\ "create" \in Handlers /\ Starters \subseteq Handlers
      /\ "create" \notin Starters
  BY CallersFresh DEF Handlers
<1>2. PICK a \in {"c_send", "s_send"}, e \in {"TaskCreate", "TaskStart"} :
         /\ UNCHANGED <<phase, owe>> /\ Moves(h, a, "ok") /\ box' = Outbox!Sent(box, e)
         /\ \/ h = "create" /\ e = "TaskCreate"
            \/ h \in Starters /\ e = "TaskStart" /\ a = "s_send"
  BY DEF Sends, Moves, At, procVars
<1>3. /\ pc' = [g \in Handlers |-> pc'[g]] /\ pc[h] = a /\ pc'[h] = "ok"
      /\ \A g \in Handlers : g # h => pc'[g] = pc[g]
  BY <1>1, <1>2, OMoved DEF OInv
<1>4. e \notin Streamed
  <2>1. CASE h = "create"
    BY <1>1, <1>2, <1>3, <2>1 DEF OInv, Occasions
  <2>2. CASE h \in Starters
    BY <1>1, <1>2, <1>3, <2>2, ClaimNames DEF OInv, Occasions, OneClaim
  <2>3. QED
    BY <1>2, <2>1, <2>2
<1>5. /\ box' \in OP!Boxes /\ Streamed' = Streamed \union {e}
      /\ Orderly(box')
  <2>1. e \in EventKinds
    BY DEF EventKinds
  <2>2. box \in OP!Boxes /\ Orderly(box)
    BY DEF OInv, OTypes
  <2>3. QED
    BY <1>2, <1>4, <2>1, <2>2, SendsOnce
<1>6. OTypes'
  BY <1>2, <1>3, <1>5 DEF OInv, OTypes
<1>7. \A g \in Starters : pc'[g] \in ClaimLabels => pc[g] \in ClaimLabels
  BY <1>1, <1>2, <1>3, ClaimNames
<1>8. OneClaim'
  BY <1>2, <1>7 DEF OInv, OneClaim
<1>9. After' = After
  BY DEF After
<1>10. /\ "TaskCreate" \in Streamed' => pc'["create"] = "ok"
       /\ "TaskStart" \in Streamed' => \E g \in Starters : pc'[g] = "ok"
  <2>1. "TaskCreate" \in Streamed' => pc'["create"] = "ok"
    BY <1>1, <1>2, <1>3, <1>5 DEF OInv, Occasions
  <2>2. "TaskStart" \in Streamed' => \E g \in Starters : pc'[g] = "ok"
    BY <1>1, <1>2, <1>3, <1>5 DEF OInv, Occasions
  <2>3. QED
    BY <2>1, <2>2
<1>11. \A x \in {"TaskExit", "TaskDelete"} : x \in Streamed' <=> x \in Streamed
  BY <1>5
<1>12. \A g \in Handlers : owe'[g] \subseteq {"TaskExit", "TaskDelete"}
  BY <1>6 DEF OTypes
<1>13. Occasions'
  BY <1>2, <1>9, <1>10, <1>11, <1>12 DEF OInv, Occasions
<1>14. QED
  BY <1>5, <1>6, <1>8, <1>13 DEF OInv

\* What is owed is sent by the one who owes it.
LEMMA OwedKeeps ==
    ASSUME OInv, NEW h \in Handlers, SendOwed(h)
    PROVE  OInv'
<1>1. /\ UNCHANGED <<phase, pc>> /\ owe' = [owe EXCEPT ![h] = {}]
      /\ owe \in [Handlers -> SUBSET {"TaskExit", "TaskDelete"}]
  BY DEF SendOwed, procVars, OInv, OTypes
<1>2. PICK e \in owe[h] : box' = Outbox!Sent(box, e)
  BY DEF SendOwed
<1>3. e \in {"TaskExit", "TaskDelete"} /\ e \notin Streamed /\ phase \in After[e]
      /\ \A g \in Handlers : e \in owe[g] => g = h
  BY <1>1, <1>2 DEF OInv, Occasions
<1>4. /\ box' \in OP!Boxes /\ Streamed' = Streamed \union {e}
      /\ Orderly(box')
  <2>1. e \in EventKinds
    BY <1>3 DEF EventKinds
  <2>2. box \in OP!Boxes /\ Orderly(box)
    BY DEF OInv, OTypes
  <2>3. QED
    BY <1>2, <1>3, <2>1, <2>2, SendsOnce
<1>5. owe'[h] = {} /\ \A g \in Handlers : g # h => owe'[g] = owe[g]
  BY <1>1
<1>6. OTypes'
  BY <1>1, <1>4 DEF OInv, OTypes
<1>7. OneClaim'
  BY <1>1 DEF OInv, OneClaim
<1>8. After' = After
  BY DEF After
<1>9. \A g \in Handlers : \A x \in owe'[g] : x # e /\ x \in owe[g] /\ g # h
  BY <1>3, <1>5
<1>10. Occasions'
  BY <1>1, <1>3, <1>4, <1>5, <1>8, <1>9 DEF OInv, Occasions
<1>11. QED
  BY <1>4, <1>6, <1>7, <1>10 DEF OInv

\* finishDelete.
LEMMA FinishKeepsOnce ==
    ASSUME OInv, NEW h \in Handlers, NEW a, NEW b, h \notin Starters,
           h = "create" => a # "ok", Moves(h, a, b), UNCHANGED box,
           phase' = advance(phase, "deleted"),
           owe' = IF advanced(phase, "deleted")
                  THEN [owe EXCEPT ![h] = {"TaskDelete"}] ELSE owe, owe[h] = {}
    PROVE  OInv'
<1>1. phase \in Phases /\ owe \in [Handlers -> SUBSET {"TaskExit", "TaskDelete"}]
  BY DEF OInv, OTypes
<1>2. phase' = "deleted" /\ (advanced(phase, "deleted") <=> phase # "deleted")
  BY <1>1 DEF advanced, advance, canBecome, phaseTransitions, Phases
<1>3. CASE phase = "deleted"
  <2>1. Eff(h, a, b)
    BY <1>2, <1>3 DEF Eff, Effects
  <2>2. QED
    BY <2>1, OtherWalks
<1>4. CASE phase # "deleted"
  <2>1. owe' = [owe EXCEPT ![h] = {"TaskDelete"}]
    BY <1>2, <1>4
  <2>2. /\ pc' = [g \in Handlers |-> pc'[g]] /\ pc[h] = a
        /\ \A g \in Handlers : g # h => pc'[g] = pc[g]
    BY OMoved DEF OInv
  <2>3. Streamed' = Streamed
    BY DEF Streamed
  <2>4. Starters \subseteq Handlers /\ "create" \in Handlers
    BY DEF Handlers
  <2>5. \A g \in Starters : pc'[g] = pc[g]
    BY <2>2, <2>4
  <2>6. /\ After["TaskExit"] = {"exited", "deleted"} /\ After["TaskDelete"] = {"deleted"}
        /\ After' = After
    BY DEF After
  <2>7. OTypes'
    <3>1. owe' \in [Handlers -> SUBSET {"TaskExit", "TaskDelete"}]
      BY <1>1, <2>1
    <3>2. QED
      BY <1>2, <2>2, <3>1 DEF OInv, OTypes, Phases
  <2>8. OneClaim'
    BY <1>2, <2>5 DEF OInv, OneClaim
  <2>9. "TaskDelete" \notin Streamed /\ \A g \in Handlers : "TaskDelete" \notin owe[g]
    BY <1>4, <2>6 DEF OInv, Occasions
  <2>10. owe'[h] = {"TaskDelete"} /\ \A g \in Handlers : g # h => owe'[g] = owe[g]
    BY <1>1, <2>1
  <2>11. \A f \in Handlers : \A e \in owe'[f] :
            /\ phase' \in After[e] /\ e \notin Streamed'
            /\ \A g \in Handlers : e \in owe'[g] => g = f
    <3> SUFFICES ASSUME NEW f \in Handlers, NEW e \in owe'[f]
                 PROVE  /\ phase' \in After[e] /\ e \notin Streamed'
                        /\ \A g \in Handlers : e \in owe'[g] => g = f
      OBVIOUS
    <3>1. CASE f = h
      BY <1>2, <2>3, <2>6, <2>9, <2>10, <3>1
    <3>2. CASE f # h
      <4>1. e \in owe[f] /\ e = "TaskExit"
        BY <1>1, <2>9, <2>10, <3>2
      <4>2. QED
        BY <1>2, <2>3, <2>6, <2>10, <4>1 DEF OInv, Occasions
    <3>3. QED
      BY <3>1, <3>2
  <2>12. /\ "TaskCreate" \in Streamed' => pc'["create"] = "ok"
         /\ "TaskStart" \in Streamed' => \E g \in Starters : pc'[g] = "ok"
    BY <2>2, <2>3, <2>4, <2>5 DEF OInv, Occasions
  <2>13. Occasions'
    BY <1>2, <2>6, <2>11, <2>12 DEF Occasions
  <2>14. Orderly(box)'
    BY DEF OInv
  <2>15. QED
    BY <2>7, <2>8, <2>13, <2>14 DEF OInv
<1>5. QED
  BY <1>3, <1>4

-----------------------------------------------------------------------------
\* finishStart's advance moves a process that is starting, and no other.
LEMMA AdvanceEff ==
    ASSUME phase \in Phases, NEW h, NEW a, NEW b, Advance(h, a, "running", b)
    PROVE  Eff(h, a, b)
<1>1. Moves(h, a, b) /\ UNCHANGED <<box, owe>> /\ phase' = advance(phase, "running")
  BY DEF Advance, Moves, At, eventVars
<1>2. phase' = phase \/ (phase = "starting" /\ phase' = "running")
  BY <1>1 DEF advance, canBecome, phaseTransitions, Phases
<1>3. QED
  BY <1>1, <1>2 DEF Eff, Effects

\* The steps of Delete, but for finishDelete's move of the phase.
LEMMA DeleteEff ==
    ASSUME phase \in Phases, NEW h, Delete(h)
    PROVE  \/ \E b : \E a \in {"d_check", "d_set", "d_mark", "d_stop", "d_runc", "d_wait",
                              "d_finish", "d_release"} : Eff(h, a, b)
           \/ /\ Moves(h, "d_finish", "d_release") /\ UNCHANGED box /\ owe[h] = {}
              /\ phase' = advance(phase, "deleted")
              /\ owe' = IF advanced(phase, "deleted")
                        THEN [owe EXCEPT ![h] = {"TaskDelete"}] ELSE owe
<1>1. CASE DeleteChecks(h)
  <2>1. CASE /\ At(h, "d_check") /\ UNCHANGED <<proc, event>>
             /\ \E b : Goto(h, b)
    BY <2>1 DEF Eff, Moves, At, Effects, event, proc
  <2>2. QED
    BY <1>1, <2>1, BranchEff, MergeReadEff DEF DeleteChecks
<1>2. CASE markDeleting(h, "d_mark", "d_stop")
  BY <1>2, MarkEff
<1>3. \A a : Fails(h, a) => Eff(h, a, "d_err")
  BY DEF Fails, Eff, Moves, At, Effects, event, proc
<1>4. CASE DeleteStops(h)
  BY <1>3, <1>4, CallsEff DEF DeleteStops
<1>5. CASE DeleteWaits(h)
  BY <1>3, <1>5, BranchEff DEF DeleteWaits
<1>6. CASE finishDelete(h)
  BY <1>6, CallsEff DEF finishDelete, Moves, At
<1>7. QED
  BY <1>1, <1>2, <1>4, <1>5, <1>6 DEF Delete

\* initProcess.Delete, called by Service.Delete or by a Create that failed.
LEMMA DeleteOnce ==
    ASSUME OInv, NEW h \in Handlers, h \notin Starters, Delete(h)
    PROVE  OInv'
<1>1. phase \in Phases
  BY DEF OInv, OTypes
<1>2. CASE \E b : \E a \in {"d_check", "d_set", "d_mark", "d_stop", "d_runc", "d_wait",
                           "d_finish", "d_release"} : Eff(h, a, b)
  BY <1>2, OtherWalks
<1>3. CASE /\ Moves(h, "d_finish", "d_release") /\ UNCHANGED box /\ owe[h] = {}
           /\ phase' = advance(phase, "deleted")
           /\ owe' = IF advanced(phase, "deleted")
                     THEN [owe EXCEPT ![h] = {"TaskDelete"}] ELSE owe
  BY <1>3, FinishKeepsOnce
<1>4. QED
  BY <1>1, <1>2, <1>3, DeleteEff

\* Service.Create.
LEMMA CreateOnce ==
    ASSUME OInv, Create
    PROVE  OInv'
<1>1. phase \in Phases /\ "create" \in Handlers /\ "create" \notin Starters
  BY CallersFresh DEF OInv, OTypes, Handlers
<1>2. \A a, b : a # "ok" /\ Eff("create", a, b) => OInv'
  BY <1>1, OtherWalks
<1>3. CASE Register
  <2>1. \E b : Eff("create", "new", b)
    BY <1>3 DEF Register, Eff, Moves, At, Effects, event, proc
  <2>2. QED
    BY <1>2, <2>1
<1>4. CASE startUnit("create")
  <2>1. \E a, b \in StartLabels : Eff("create", a, b)
    BY <1>1, <1>4, StartUnitEff
  <2>2. QED
    BY <1>2, <2>1, ClaimNames
<1>5. CASE Delete("create")
  BY <1>1, <1>5, DeleteOnce
<1>6. CASE CreateEnds
  <2>1. CASE Sends("create", "c_send", "TaskCreate", "ok")
    BY <2>1, SendKeeps
  <2>2. CASE \/ Branch("create", "su_ok", TRUE, "c_set")
             \/ \E l \in {"d_ok", "d_err", "refused"} : Branch("create", l, TRUE, "failed")
    BY <1>2, <2>2, BranchEff
  <2>3. CASE \/ Sets("create", "c_set", Obs(0, 0, state.pid, "created"), "c_send")
             \/ Sets("create", "c_fail", failedState, "c_fail2")
             \/ Sets("create", "c_fail2", failedState, "c_untrack")
    BY <1>1, <1>2, <2>3, SetsEff
  <2>4. CASE Calls("create", "su_err", RuncKill, "c_fail")
    BY <1>2, <2>4, CallsEff
  <2>5. CASE Untrack("create", "c_untrack", "d_check")
    BY <1>2, <2>5, UntrackEff
  <2>6. QED
    BY <1>6, <2>1, <2>2, <2>3, <2>4, <2>5 DEF CreateEnds
<1>7. QED
  BY <1>3, <1>4, <1>5, <1>6 DEF Create

\* Service.Start.
LEMMA StartOnce ==
    ASSUME OInv, NEW h \in Starters, Start(h)
    PROVE  OInv'
<1>1. phase \in Phases /\ h \in Handlers /\ h # "create"
  BY CallersFresh DEF OInv, OTypes, Handlers
<1>2. \A a, b : a \in ClaimLabels /\ a # "ok" /\ Eff(h, a, b) => OInv'
  BY ClaimWalks
<1>3. CASE Lookup(h, "s_begin")
  <2>1. PICK b \in {"s_begin", "refused"} : Eff(h, "new", b)
    BY <1>3, BranchEff DEF Lookup
  <2>2. Walks(h, "new", b)
    BY <1>1, <2>1, ClaimNames DEF Walks, Eff
  <2>3. QED
    BY <1>1, <2>1, <2>2, WalkKeeps DEF Eff
<1>4. CASE RuncStart(h)
  <2>1. CASE \/ Branch(h, "s_runc", SetUp, "s_pid")
             \/ Branch(h, "s_runc", ~SetUp \/ BusErrors, "s_load")
             \/ Branch(h, "s_loaded", Exited(state), "s_abort")
             \/ Branch(h, "s_fail", Exited(state), "s_abort")
    BY <1>2, <2>1, BranchEff, ClaimNames
  <2>2. CASE \/ Loads(h, "s_load", "s_loaded", "s_loaded")
             \/ Loads(h, "s_reload", "s_fail", "s_fail")
    BY <1>1, <1>2, <2>2, LoadsEff, ClaimNames
  <2>3. CASE Calls(h, "s_loaded", KillUnit, "s_reload")
    BY <1>2, <2>3, CallsEff, ClaimNames
  <2>4. CASE Sets(h, "s_fail", [failedState EXCEPT !.pid = state.pid], "s_abort")
    BY <1>1, <1>2, <2>4, SetsEff, ClaimNames
  <2>5. QED
    BY <1>4, <2>1, <2>2, <2>3, <2>4 DEF RuncStart
<1>5. CASE StartPolls(h)
  <2>1. CASE Loads(h, "s_pid", "s_pid", "s_pid")
    BY <1>1, <1>2, <2>1, LoadsEff, ClaimNames
  <2>2. CASE Branch(h, "s_pid", state.pid > 0 \/ Exited(state), "s_finish")
    BY <1>2, <2>2, BranchEff, ClaimNames
  <2>3. QED
    BY <1>5, <2>1, <2>2 DEF StartPolls
<1>6. CASE startUnit(h)
  <2>1. \E a, b \in StartLabels : Eff(h, a, b)
    BY <1>1, <1>6, StartUnitEff
  <2>2. QED
    BY <1>2, <2>1, ClaimNames
<1>7. CASE RestoreEnds(h)
  <2>1. PICK b : \E a \in {"su_ok", "su_err"} : Eff(h, a, b)
    <3>1. CASE Branch(h, "su_ok", TRUE, IF deleting THEN "s_abandon" ELSE "s_finish")
      BY <3>1, BranchEff
    <3>2. CASE Branch(h, "su_err", TRUE, IF deleting THEN "s_abandon" ELSE "s_abort")
      BY <3>2, BranchEff
    <3>3. QED
      BY <1>7, <3>1, <3>2 DEF RestoreEnds
  <2>2. QED
    BY <1>2, <2>1, ClaimNames, StartLabelNames
<1>8. CASE abandonStartedUnit(h)
  BY <1>2, <1>8, CallsEff, ClaimNames DEF abandonStartedUnit
<1>9. CASE finishStart(h, state.pid)
  <2>1. CASE Advance(h, "s_finish", "running", "s_state")
    BY <1>1, <1>2, <2>1, AdvanceEff, ClaimNames
  <2>2. CASE Sets(h, "s_state", Obs(0, 0, state.pid, "running"), "s_send")
    BY <1>1, <1>2, <2>2, SetsEff, ClaimNames
  <2>3. CASE Sends(h, "s_send", "TaskStart", "ok")
    BY <2>3, SendKeeps
  <2>4. QED
    BY <1>9, <2>1, <2>2, <2>3 DEF finishStart
<1>10. QED
  BY <1>3, <1>4, <1>5, <1>6, <1>7, <1>8, <1>9, ClaimKeeps, AbortKeeps DEF Start

\* Service.Delete,
LEMMA ServiceDeleteOnce ==
    ASSUME OInv, NEW h \in Deleters, ServiceDelete(h)
    PROVE  OInv'
<1>1. phase \in Phases /\ h \in Handlers /\ h # "create" /\ h \notin Starters
  BY CallersFresh, StartersApart DEF OInv, OTypes, Handlers
<1>2. \A a, b : Eff(h, a, b) => OInv'
  BY <1>1, OtherWalks
<1>3. CASE Lookup(h, "d_check")
  <2>1. \E b : Eff(h, "new", b)
    BY <1>3, BranchEff DEF Lookup
  <2>2. QED
    BY <1>2, <2>1
<1>4. CASE Delete(h)
  BY <1>1, <1>4, DeleteOnce
<1>5. QED
  BY <1>2, <1>3, <1>4, UntrackEff, BranchEff DEF ServiceDelete

\* Service.Wait
LEMMA WaitOnce ==
    ASSUME OInv, NEW h \in Waiters, Wait(h)
    PROVE  OInv'
<1>1. phase \in Phases /\ h \in Handlers /\ h # "create" /\ h \notin Starters
  BY CallersFresh, StartersApart DEF OInv, OTypes, Handlers
<1>2. \A a, b : Eff(h, a, b) => OInv'
  BY <1>1, OtherWalks
<1>3. CASE Lookup(h, "w_load")
  <2>1. \E b : Eff(h, "new", b)
    BY <1>3, BranchEff DEF Lookup
  <2>2. QED
    BY <1>2, <2>1
<1>4. CASE Loads(h, "w_load", "w_read", "w_read")
  BY <1>1, <1>2, <1>4, LoadsEff
<1>5. CASE ReadExit(h, "w_read", "w_merge") \/ MergeRead(h, "w_merge", "w_wait")
  BY <1>1, <1>2, <1>5, ReadExitEff, MergeReadEff
<1>6. CASE \/ Branch(h, "w_read", Exited(state) \/ state.pid = 0, "w_wait")
           \/ Branch(h, "w_wait", phase = "deleted" \/ Exited(state), "ok")
  BY <1>2, <1>6, BranchEff
<1>7. QED
  BY <1>3, <1>4, <1>5, <1>6 DEF Wait

\* and the reactor.
LEMMA ReconcileOnce ==
    ASSUME OInv, Reconcile(ReactorLoads)
    PROVE  OInv'
<1>1. /\ phase \in Phases /\ "reactor" \in Handlers /\ "reactor" # "create"
      /\ "reactor" \notin Starters
  BY CallersFresh DEF OInv, OTypes, Handlers
<1>2. \A a, b : Eff("reactor", a, b) => OInv'
  BY <1>1, OtherWalks
<1>3. CASE ReactorLoads
  BY <1>1, <1>2, <1>3, LoadsEff DEF ReactorLoads
<1>4. CASE \/ ReadExit("reactor", "r_read", "r_merge")
           \/ MergeRead("reactor", "r_merge", "idle")
  BY <1>1, <1>2, <1>4, ReadExitEff, MergeReadEff
<1>5. CASE \/ Branch("reactor", "r_read", Exited(state) \/ state.pid = 0, "idle")
           \/ Branch("reactor", "r_merge", obs["reactor"] = NoObs, "r_retry")
  BY <1>2, <1>5, BranchEff
<1>6. CASE /\ \E a : At("reactor", a) /\ \E b : Goto("reactor", b)
           /\ UNCHANGED <<procVars, eventVars>>
  BY <1>2, <1>6 DEF Eff, Moves, At, Effects, eventVars, procVars
<1>7. QED
  BY <1>3, <1>4, <1>5, <1>6 DEF Reconcile

\* Outside the shim, and in the informer, nothing is published.
LEMMA AsideOnce ==
    ASSUME OInv, UNCHANGED <<phase, box, owe, pc>>
    PROVE  OInv'
BY DEF OInv, OTypes, OneClaim, Occasions, Streamed, After

\* Nothing is claimed, published or owed at first.
LEMMA InitOInv == Init => OInv
<1> SUFFICES ASSUME Init PROVE OInv
  OBVIOUS
<1>1. /\ phase = "created" /\ owe = [h \in Handlers |-> {}]
      /\ pc = [h \in Handlers |-> IF h = "reactor" THEN "idle" ELSE "new"]
      /\ box = [o |-> Outbox!newEventOutbox, out |-> <<>>]
  BY DEF Init, StepsInit
<1>2. box \in OP!Boxes /\ Streamed = {} /\ Orderly(box)
  <2>1. Outbox!newEventOutbox = OP!newEventOutbox
    BY DEF Outbox!newEventOutbox, OP!newEventOutbox
  <2>2. box.out = <<>> /\ box.o.held = <<>> /\ box = [o |-> OP!newEventOutbox, out |-> <<>>]
    BY <1>1, <2>1 DEF OP!newEventOutbox
  <2>3. box \in OP!Boxes
    BY <2>2 DEF OP!Boxes, OP!newEventOutbox, OP!Outboxes
  <2>4. Streamed = {}
    <3>1. OP!ToSet(<<>>) = {}
      BY DEF OP!ToSet
    <3>2. QED
      BY <2>2, <3>1 DEF Streamed, OP!Contents
  <2>5. OP!IsInjective(box.out \o box.o.held)
    <3>1. <<>> \o <<>> = <<>>
      OBVIOUS
    <3>2. OP!IsInjective(<<>>)
      BY DEF OP!IsInjective
    <3>3. QED
      BY <2>2, <3>1, <3>2
  <2>6. OP!Sound(box)
    <3>1. OP!ToSet(<<>>) = {}
      BY DEF OP!ToSet
    <3>2. QED
      BY <2>2, <3>1 DEF OP!Sound, OP!newEventOutbox
  <2>7. QED
    BY <2>3, <2>4, <2>5, <2>6 DEF Orderly
<1>3. \A h \in Starters : pc[h] = "new"
  BY <1>1, CallersFresh DEF Handlers
<1>4. OTypes
  BY <1>1, <1>2 DEF OTypes, Phases
<1>5. OneClaim
  BY <1>3, ClaimNames DEF OneClaim
<1>6. Occasions
  BY <1>1, <1>2 DEF Occasions
<1>7. QED
  BY <1>2, <1>4, <1>5, <1>6 DEF OInv

\* Every step keeps the invariant.
LEMMA NextOInv == OInv /\ [Next]_vars => OInv'
<1> SUFFICES ASSUME OInv, [Next]_vars PROVE OInv'
  OBVIOUS
<1>1. CASE Environment
  <2>1. UNCHANGED <<phase, box, owe, pc>>
    BY <1>1 DEF Environment, Helper, HandoffEnds, HelperReports, WorkloadExits, Collect,
                Kill, proc, event, procVars, eventVars
  <2>2. QED
    BY <2>1, AsideOnce
<1>2. CASE Informer
  <2>1. UNCHANGED <<phase, box, owe, pc>>
    BY <1>2 DEF Informer, procVars, eventVars
  <2>2. QED
    BY <2>1, AsideOnce
<1>3. CASE UNCHANGED vars
  <2>1. UNCHANGED <<phase, box, owe, pc>>
    BY <1>3 DEF vars, proc, event
  <2>2. QED
    BY <2>1, AsideOnce
<1>4. QED
  BY <1>1, <1>2, <1>3, CreateOnce, StartOnce, ServiceDeleteOnce, WaitOnce, ReconcileOnce,
     OwedKeeps DEF Next, Step

\* EventsOnce says that what is published and what is held have no duplicate.
LEMMA OnceInvariant == OInv => EventsOnce
<1> DEFINE all == box.out \o box.o.held
<1> SUFFICES ASSUME OInv PROVE \A m, n \in 1..Len(all) : all[m] = all[n] => m = n
  BY DEF EventsOnce
<1>1. box.out \in Seq(EventKinds) /\ box.o.held \in Seq(EventKinds)
  BY DEF OInv, OTypes, OP!Boxes, OP!Outboxes
<1>2. all \in Seq(EventKinds)
  BY <1>1
<1>3. OP!IsInjective(all)
  BY DEF OInv, Orderly
<1> HIDE DEF all
<1>4. DOMAIN all = 1..Len(all)
  BY <1>2
<1>5. QED
  BY <1>3, <1>4 DEF OP!IsInjective

\* However many callers see the exit and however often Start is called, containerd
\* is told each event once, whatever fails and whenever the calls come.
THEOREM EachEventOnce == Safe => []EventsOnce
<1>1. Safe => []OInv
  BY InitOInv, NextOInv, PTL DEF Safe
<1>2. QED
  BY <1>1, OnceInvariant, PTL

-----------------------------------------------------------------------------
(***************************************************************************)
(* Exits are true, when nothing disturbs the container and its client      *)
(* waits for Create.  Until the process is known to have exited, all that  *)
(* the shim has read, is told or has kept is about the one unit there is,  *)
(* so an exit in it is that unit's.  A Create that gives its first unit up *)
(* does so after an exit, and only then can there be another unit; no      *)
(* Start ever runs in that one, so no TaskExit leaves the outbox for it.   *)
(***************************************************************************)
\* The two things the create helper may leave in its file when nothing disturbs it.
RunObs == Obs(0, 0, 1, "running")
FailObs == Obs(1, 1, 1, exitedInit)

\* Create has seen the container set up; it has lost its unit; it tears it down.
RanLabels == {"su_ok", "c_set", "c_send", "ok"}
LostLabels == {"su_clean", "su_again", "su_stop", "su_release", "su_rdel1", "c_fail2",
               "c_untrack"}
TornLabels == {"d_check", "d_set", "d_mark", "d_stop", "d_runc", "d_wait", "d_finish",
               "d_release", "d_ok", "d_err", "refused", "failed"}

\* A Start is at one of these once runc has started the container.
UpLabels == {"s_pid", "s_finish", "s_state", "s_send", "ok"}

\* How it went with the container can be known: from the file, or it has exited.
Known == file # NoObs \/ Exited(state)

\* The unit and the file: a job that has ended and a pid come with a file or an exit,
\* and a unit of a process that has not exited is referenced and stays.
UnitFacts ==
    /\ file \in {NoObs, RunObs, FailObs} /\ ctxDone = FALSE
    /\ unit.code = unit.real /\ unit.helper # "rewriting"
    /\ unit.st = "running" => unit.job # "none"
    /\ unit.job # "none" => Known
    /\ state.pid > 0 => Known
    /\ unit.st = "starting" => file = NoObs \/ Exited(state)
    /\ ~Exited(state) => /\ unit.st # "absent" => unit.ref
                         /\ file # NoObs => unit.st # "absent"

\* There has been no unit yet.
Untouched == unit.st = "absent" /\ file = NoObs /\ signals = {} /\ recorded = NoObs

\* What is true when Create is at label l.
CreateAt(l) ==
    /\ l \in {"new", "su_do"} => Untouched \/ Exited(state)
    /\ l \in LostLabels \union TornLabels => Exited(state)
    /\ l \in TornLabels => ~tracked
    /\ l \in {"su_pid1", "su_pid2"} => Known
    /\ l \in {"su_check", "su_loop1", "su_loop2"} =>
          Exited(state) \/ (file = RunObs /\ state.pid > 0)
    /\ l \in RanLabels => /\ file = RunObs /\ state.pid > 0 /\ unit.st # "starting"
                          /\ Exited(state) => ~Alive

\* Create is at its label.
CreateFacts == CreateAt(pc["create"])

\* An exit in observation s is the unit's, with its status.
Truthful(s) == s # NoObs /\ Exited(s) => ~Alive /\ s.exitCode = unit.real

\* While no exit is known, what is under way to the shim, what it has recorded and what
\* a handler has read and not merged yet are true, however late they are used.
SeenFacts ==
    /\ ~Exited(state) => /\ \A s \in signals \union {recorded} : Truthful(s)
                         /\ \A h \in Handlers : Truthful(obs[h])
    /\ \A h \in Handlers : obs[h] # NoObs => file # NoObs

\* The phase and the state agree on the exit.
PhaseFacts == Exited(state) <=> phase \in {"exited", "deleted"}

\* A TaskExit is with the outbox, or owed to it.
Claimed == "TaskExit" \in Streamed \/ \E h \in Handlers : "TaskExit" \in owe[h]

\* Callers act on a container that Create has set up; Start makes a failure up only for
\* a dead unit, Delete finishes only after an exit, and once runc has started the
\* container, the status of a TaskExit is the workload's.
CallerFacts ==
    /\ \A h \in Callers : pc[h] \notin {"new", "refused"} => pc["create"] = "ok"
    /\ \A h \in Callers : pc[h] \notin {"s_abandon", "s_release"}
    /\ \A h \in Callers : pc[h] \in {"s_reload", "s_fail"} => ~Alive
    /\ \A h \in Callers : pc[h] \in {"d_finish", "d_release"} => Exited(state)
    /\ \A h \in Starters : pc[h] \in UpLabels /\ Claimed => exitEvent = unit.real

\* The inductive invariant behind CreatedHasPid and ExitIsReal.
XInv == Undisturbed /\ UnitFacts /\ CreateFacts /\ SeenFacts /\ PhaseFacts /\ CallerFacts

\* What a merge makes of the pid and of the exit.
LEMMA CopyToFacts ==
    ASSUME NEW s \in pStates, NEW other \in pStates
    PROVE  /\ s.pid > 0 \/ other.pid > 0 <=> CopyTo(s, other).pid > 0
           /\ Exited(CopyTo(s, other)) => Exited(s) \/ Exited(other)
           /\ Exited(s) /\ ~Exited(other) => CopyTo(s, other).exitCode = s.exitCode
<1> DEFINE at == IF other.exitedAt = 0 THEN s.exitedAt ELSE other.exitedAt
           code == IF other.exitCode = 0 THEN s.exitCode ELSE other.exitCode
           pid == IF other.pid = 0 THEN s.pid ELSE other.pid
           r == CopyTo(s, other)
<1>1. /\ s.exitedAt \in Nat /\ s.exitCode \in Nat /\ s.pid \in Nat
      /\ other.exitedAt \in Nat /\ other.exitCode \in Nat /\ other.pid \in Nat
  BY DEF pStates
<1>2. \/ r = other /\ s.pid = 0 /\ ~Exited(s)
      \/ /\ r.exitedAt = at /\ r.exitCode = code /\ r.pid = pid
         /\ r.status \in {s.status, other.status}
  BY DEF CopyTo, pStates
<1> HIDE DEF r
<1>3. s.pid > 0 \/ other.pid > 0 <=> r.pid > 0
  BY <1>1, <1>2
<1>4. Exited(r) => Exited(s) \/ Exited(other)
  BY <1>1, <1>2 DEF Exited
<1>5. Exited(s) /\ ~Exited(other) => r.exitCode = s.exitCode
  BY <1>1, <1>2 DEF Exited
<1>6. QED
  BY <1>3, <1>4, <1>5 DEF r

\* What SetState makes of a state and an observation.
LEMMA MergedFacts ==
    ASSUME NEW ph, NEW st \in pStates, NEW s \in pStates
    PROVE  /\ merged(ph, st, s) \in pStates
           /\ s.pid > 0 \/ st.pid > 0 <=> merged(ph, st, s).pid > 0
           /\ Exited(merged(ph, st, s)) <=> Exited(s) \/ Exited(st)
           /\ Exited(s) /\ ~Exited(st) => merged(ph, st, s).exitCode = s.exitCode
<1> DEFINE in == IF beforeRunning(ph) /\ toStatus(s.status) = "RUNNING"
                 THEN [s EXCEPT !.status = "created"] ELSE s
<1>1. in \in pStates
  BY DEF pStates, Statuses, Created
<1>2. in.pid = s.pid /\ in.exitCode = s.exitCode /\ in.exitedAt = s.exitedAt
  BY DEF pStates
<1>3. Exited(in) => Exited(s)
  <2>1. in.status = s.status \/ in.status = "created"
    BY DEF pStates
  <2>2. toStatus("created") # "STOPPED"
    BY DEF toStatus, Created, Running, Stopped
  <2> HIDE DEF in
  <2>3. QED
    BY <1>2, <2>1, <2>2 DEF Exited
<1>4. merged(ph, st, s) = CopyTo(in, st)
  BY DEF merged
<1> HIDE DEF in
<1>5. Exited(s) \/ Exited(st) => Exited(merged(ph, st, s))
  BY MergedExit
<1>6. Exited(s) => Exited(in) \/ Exited(st)
  BY <1>1, <1>3, <1>4, <1>5, CopyToFacts
<1>7. merged(ph, st, s) \in pStates
  BY MergedExit
<1>8. QED
  BY <1>1, <1>2, <1>3, <1>4, <1>5, <1>6, <1>7, CopyToFacts

\* What holds before a step.
Before == RInv /\ OInv /\ XInv

\* What a step may learn about the process.
Learned ==
    /\ Exited(state) => Exited(state')
    /\ state.pid > 0 => state'.pid > 0
    /\ state'.pid > 0 => file # NoObs \/ Exited(state')
    /\ pc["create"] \in RanLabels /\ Exited(state') => ~Alive
    /\ \A g \in Starters : pc[g] \in UpLabels /\ Claimed' => exitEvent' = unit.real
    /\ Exited(state') <=> phase' \in {"exited", "deleted"}

\* Who owes or has sent a TaskExit has recorded an exit.
LEMMA ClaimedEnded ==
    ASSUME OInv, PhaseFacts, Claimed
    PROVE  Exited(state)
<1>1. phase \in After["TaskExit"]
  BY DEF Claimed, OInv, Occasions
<1>2. QED
  BY <1>1 DEF After, PhaseFacts

\* Nothing is learnt when state and events stay as they are.
LEMMA NothingLearned ==
    ASSUME Before, UNCHANGED <<state, exitEvent>>, Claimed' => Claimed,
           phase' = phase \/ (phase' \in {"exited", "deleted"} <=> Exited(state))
    PROVE  Learned
BY DEF Before, XInv, UnitFacts, CreateFacts, CreateAt, CallerFacts, PhaseFacts, Known,
       Learned

\* SetState: an exit it makes known must be one of a unit that is gone.
LEMMA SetLearns ==
    ASSUME Before, NEW h \in Handlers, NEW s \in pStates, SetState(h, s), UNCHANGED box,
           s.pid > 0 => file # NoObs \/ Exited(s) \/ state.pid > 0,
           ~Exited(state) /\ Exited(s) =>
              /\ pc["create"] \in RanLabels => ~Alive
              /\ \A g \in Starters : pc[g] \in UpLabels => s.exitCode = unit.real
    PROVE  /\ Learned
           /\ Exited(state') <=> Exited(state) \/ Exited(s)
           /\ state'.pid > 0 <=> state.pid > 0 \/ s.pid > 0
<1>1. /\ state \in pStates /\ phase \in Phases
      /\ owe \in [Handlers -> SUBSET {"TaskExit", "TaskDelete"}]
  BY DEF Before, RInv, Types, Observed, OInv, OTypes
<1>2. state' = merged(phase, state, s) /\ phase' = phaseAfter(phase, state, s)
  BY DEF SetState
<1>3. /\ Exited(state') <=> Exited(state) \/ Exited(s)
      /\ state'.pid > 0 <=> state.pid > 0 \/ s.pid > 0
      /\ Exited(s) /\ ~Exited(state) => state'.exitCode = s.exitCode
      /\ phase' = IF Exited(state') THEN advance(phase, "exited") ELSE phase
  BY <1>1, <1>2, MergedFacts DEF phaseAfter
<1>4. /\ phase \in {"exited", "deleted"} => advance(phase, "exited") = phase
      /\ phase \notin {"exited", "deleted"} => advance(phase, "exited") = "exited"
  BY <1>1 DEF advance, canBecome, phaseTransitions, Phases
<1>5. Exited(state') <=> phase' \in {"exited", "deleted"}
  BY <1>3, <1>4 DEF Before, XInv, PhaseFacts
<1>6. state'.pid > 0 => file # NoObs \/ Exited(state')
  BY <1>3 DEF Before, XInv, UnitFacts, Known
<1>7. pc["create"] \in RanLabels /\ Exited(state') => ~Alive
  BY <1>3 DEF Before, XInv, CreateFacts, CreateAt
<1>8. Streamed' = Streamed
  BY DEF Streamed
<1>9. ASSUME NEW g \in Starters, pc[g] \in UpLabels, Claimed'
      PROVE  exitEvent' = unit.real
  <2>1. CASE Exited(state)
    <3>1. ~justExited(phase, state, s)
      BY <1>2, <1>3, <1>4, <2>1 DEF Before, XInv, PhaseFacts, justExited
    <3>2. UNCHANGED <<owe, exitEvent>>
      BY <3>1 DEF SetState
    <3>3. Claimed
      BY <1>8, <1>9, <3>2 DEF Claimed
    <3>4. QED
      BY <1>9, <3>2, <3>3 DEF Before, XInv, CallerFacts
  <2>2. CASE ~Exited(state)
    <3>1. ~Claimed
      BY <2>2, ClaimedEnded DEF Before, XInv
    <3>2. owe' # owe
      BY <1>8, <1>9, <3>1 DEF Claimed
    <3>3. /\ justExited(phase, state, s)
          /\ exitEvent' = merged(phase, state, s).exitCode
      BY <3>2 DEF SetState
    <3>4. Exited(state')
      BY <1>2, <3>3 DEF justExited, phaseAfter
    <3>5. QED
      BY <1>2, <1>3, <1>9, <2>2, <3>3, <3>4
  <2>3. QED
    BY <2>1, <2>2
<1>10. QED
  BY <1>3, <1>5, <1>6, <1>7, <1>9 DEF Learned, Before, XInv

\* A step that leaves systemd alone.
Looks == /\ UNCHANGED <<unit, file, ctxDone, scenario>>
         /\ Untouched => Untouched'
         /\ tracked' => tracked \/ pc["create"] = "new"
         /\ Learned /\ SeenFacts'

\* What it keeps of the invariant, whoever takes it.
LEMMA LooksKeeps ==
    ASSUME Before, Looks, NEW l, l = pc["create"]
    PROVE  Undisturbed' /\ UnitFacts' /\ PhaseFacts' /\ SeenFacts' /\ CreateAt(l)'
<1>1. UNCHANGED <<unit, file, ctxDone, scenario>>
  BY DEF Looks
<1>2. Undisturbed' /\ SeenFacts'
  BY <1>1 DEF Before, XInv, Undisturbed, Faults, Looks
<1>3. PhaseFacts'
  BY DEF Looks, Learned, PhaseFacts
<1>4. UnitFacts'
  <2>1. Known => Known'
    BY <1>1 DEF Known, Looks, Learned
  <2>2. state'.pid > 0 => Known'
    BY <1>1 DEF Known, Looks, Learned
  <2>3. RunObs' = RunObs /\ FailObs' = FailObs
    BY DEF RunObs, FailObs, Obs
  <2>4. QED
    BY <1>1, <2>1, <2>2, <2>3 DEF Before, XInv, UnitFacts, Looks, Learned
<1>5. CreateAt(l)'
  <2>1. CreateAt(l)
    BY DEF Before, XInv, CreateFacts
  <2>2. Known => Known'
    BY <1>1 DEF Known, Looks, Learned
  <2>3. RunObs' = RunObs /\ Alive' = Alive /\ (Untouched => Untouched')
    BY <1>1 DEF RunObs, Obs, Alive, Looks
  <2>4. QED
    BY <1>1, <2>1, <2>2, <2>3 DEF CreateAt, Looks, Learned, TornLabels
<1>6. QED
  BY <1>2, <1>3, <1>4, <1>5

\* An exit that is announced has been recorded.
LEMMA ClaimedAfter ==
    ASSUME OInv', PhaseFacts', Claimed'
    PROVE  Exited(state')
<1>1. phase' \in After'["TaskExit"]
  BY DEF Claimed, OInv, Occasions
<1>2. QED
  BY <1>1 DEF After, PhaseFacts

\* A handler that is not Create looks ...
LEMMA CallerLooks ==
    ASSUME Before, OInv', Looks, NEW h \in Callers, NEW a, NEW b, Moves(h, a, b),
           b # "refused" => pc["create"] = "ok",
           b \notin {"s_abandon", "s_release"},
           b \in {"s_reload", "s_fail"} => ~Alive,
           b \in {"d_finish", "d_release"} => Exited(state'),
           h \in Starters /\ b \in UpLabels => a \in UpLabels \/ ~Exited(state')
    PROVE  XInv'
<1>1. h \in Handlers /\ h # "create" /\ "create" \in Handlers /\ Callers \subseteq Handlers
      /\ Starters \subseteq Callers
  BY Names DEF Callers
<1>2. /\ pc[h] = a /\ pc'[h] = b /\ \A g \in Handlers : g # h => pc'[g] = pc[g]
  BY <1>1, Moved DEF Before, RInv
<1>3. Undisturbed' /\ UnitFacts' /\ PhaseFacts' /\ SeenFacts' /\ CreateFacts'
  BY <1>1, <1>2, LooksKeeps DEF CreateFacts
<1>4. Alive' = Alive /\ unit' = unit /\ (Exited(state) => Exited(state'))
  BY DEF Alive, Looks, Learned
<1>5. \A g \in Starters : pc'[g] \in UpLabels /\ Claimed' => exitEvent' = unit'.real
  <2> SUFFICES ASSUME NEW g \in Starters, pc'[g] \in UpLabels, Claimed'
               PROVE  exitEvent' = unit'.real
    OBVIOUS
  <2>1. Exited(state')
    BY <1>3, ClaimedAfter
  <2>2. pc[g] \in UpLabels
    BY <1>1, <1>2, <2>1
  <2>3. QED
    BY <1>4, <2>2 DEF Looks, Learned
<1>6. CallerFacts'
  BY <1>1, <1>2, <1>4, <1>5 DEF Before, XInv, CallerFacts
<1>7. QED
  BY <1>3, <1>6 DEF XInv

\* A look of the reactor.
LEMMA ReactorLooks ==
    ASSUME Before, Looks, NEW a, NEW b, Moves("reactor", a, b)
    PROVE  XInv'
<1>1. /\ "reactor" \in Handlers /\ "create" \in Handlers /\ Callers \subseteq Handlers
      /\ Starters \subseteq Callers /\ "reactor" \notin Callers
  BY Names DEF Callers
<1>2. \A g \in Handlers : g # "reactor" => pc'[g] = pc[g]
  BY <1>1, Moved DEF Before, RInv
<1>3. Undisturbed' /\ UnitFacts' /\ PhaseFacts' /\ SeenFacts' /\ CreateFacts'
  BY <1>1, <1>2, LooksKeeps DEF CreateFacts
<1>4. Alive' = Alive /\ unit' = unit /\ (Exited(state) => Exited(state'))
  BY DEF Alive, Looks, Learned
<1>5. CallerFacts'
  BY <1>1, <1>2, <1>4 DEF Before, XInv, CallerFacts, Looks, Learned
<1>6. QED
  BY <1>3, <1>5 DEF XInv

\* The informer and the owed Sends have no label.
LEMMA OutsideLooks ==
    ASSUME Before, Looks, UNCHANGED pc
    PROVE  XInv'
<1>1. Undisturbed' /\ UnitFacts' /\ PhaseFacts' /\ SeenFacts' /\ CreateFacts'
  BY LooksKeeps DEF CreateFacts
<1>2. Alive' = Alive /\ unit' = unit /\ (Exited(state) => Exited(state'))
  BY DEF Alive, Looks, Learned
<1>3. CallerFacts'
  BY <1>2 DEF Before, XInv, CallerFacts, Looks, Learned
<1>4. QED
  BY <1>1, <1>3 DEF XInv

\* ... and so does Create, which is alone until it returns.
LEMMA CreateLooks ==
    ASSUME Before, Looks, NEW a, NEW b, Moves("create", a, b), a # "ok", CreateAt(b)'
    PROVE  XInv'
<1>1. /\ "create" \in Handlers /\ Callers \subseteq Handlers
      /\ Starters \subseteq Callers /\ "create" \notin Callers
  BY Names DEF Callers
<1>2. /\ pc["create"] = a /\ pc'["create"] = b
      /\ \A g \in Handlers : g # "create" => pc'[g] = pc[g]
  BY <1>1, Moved DEF Before, RInv
<1>3. Undisturbed' /\ UnitFacts' /\ PhaseFacts' /\ SeenFacts'
  BY LooksKeeps
<1>4. CreateFacts'
  BY <1>2 DEF CreateFacts
<1>5. \A g \in Callers : pc'[g] \in {"new", "refused"}
  BY <1>1, <1>2 DEF Before, XInv, CallerFacts
<1>6. CallerFacts'
  BY <1>1, <1>5 DEF CallerFacts, UpLabels
<1>7. QED
  BY <1>3, <1>4, <1>6 DEF XInv

-----------------------------------------------------------------------------
\* The unit of a process that has ended is released or collected, and the create helper
\* leaves.
Eases == /\ UNCHANGED signals
         /\ unit'.code = unit.code /\ unit'.real = unit.real /\ unit'.job = unit.job
         /\ unit'.helper \in {unit.helper, "gone"}
         /\ unit'.ref = unit.ref \/ Exited(state)
         /\ unit'.st = unit.st \/ (unit'.st = "absent" /\ ~Alive /\ Exited(state))

\* That, or the unit is killed, or nothing happens to it.
Kills == /\ UNCHANGED <<state, phase, box, exitEvent, owe, file, recorded, obs, ctxDone,
                        scenario>>
         /\ tracked' => tracked
         /\ \/ UNCHANGED <<unit, signals>>
            \/ Alive /\ \E c \in Nat : Dies(c)
            \/ Eases

\* What such a step keeps.
LEMMA KillsKeeps ==
    ASSUME Before, Kills, unit.st = "starting" => Exited(state) \/ UNCHANGED unit,
           NEW l, l = pc["create"]
    PROVE  /\ Undisturbed' /\ UnitFacts' /\ PhaseFacts' /\ SeenFacts' /\ CreateAt(l)'
           /\ Alive' => Alive
           /\ \A g \in Starters : pc[g] \in UpLabels /\ Claimed' => exitEvent' = unit'.real
<1>1. UNCHANGED <<state, phase, box, exitEvent, owe, file, recorded, obs, ctxDone,
                  scenario>>
      /\ (tracked' => tracked)
  BY DEF Kills
<1>2. /\ Undisturbed' /\ PhaseFacts'
      /\ Claimed' = Claimed /\ Known' = Known /\ RunObs' = RunObs
      /\ FailObs' = FailObs
  BY <1>1 DEF Before, XInv, Undisturbed, Faults, PhaseFacts, Claimed, Streamed, Known,
              RunObs, FailObs, Obs
<1>3. unit \in Units
  BY DEF Before, RInv, Types
<1>4. CreateAt(l)
  BY DEF Before, XInv, CreateFacts
<1>5. CASE UNCHANGED <<unit, signals>>
  <2>1. UnitFacts'
    BY <1>1, <1>2, <1>5 DEF Before, XInv, UnitFacts
  <2>2. SeenFacts'
    BY <1>1, <1>5 DEF Before, XInv, SeenFacts, Truthful, Alive
  <2>3. CreateAt(l)'
    BY <1>1, <1>2, <1>4, <1>5 DEF CreateAt, Untouched, Alive
  <2>4. QED
    BY <1>1, <1>2, <1>5, <2>1, <2>2, <2>3 DEF Before, XInv, CallerFacts, Alive
<1>6. CASE Alive /\ \E c \in Nat : Dies(c)
  <2>1. PICK c \in Nat : Dies(c)
    BY <1>6
  <2>2. /\ unit'.st = "dead" /\ unit'.code = c /\ unit'.real = c /\ unit'.ref = unit.ref
        /\ unit'.job = (IF unit.job = "none" THEN "failed" ELSE unit.job)
        /\ unit'.helper = "gone" /\ unit.st \in {"starting", "running"}
    BY <1>3, <1>6, <2>1 DEF Dies, DiesAs, Units, Alive
  <2>3. unit'.job # "none" => Known
    BY <1>3, <2>2 DEF Before, XInv, UnitFacts, Known
  <2>4. UnitFacts'
    BY <1>1, <1>2, <2>2, <2>3 DEF Before, XInv, UnitFacts
  <2>5. ~Alive' /\ Alive
    BY <2>2 DEF Alive
  <2>6. SeenFacts'
    <3>1. ASSUME ~Exited(state)
          PROVE  /\ \A s \in signals' \union {recorded'} : Truthful(s)'
                 /\ \A g \in Handlers : Truthful(obs[g])'
      <4>1. /\ \A s \in signals \union {recorded} : s = NoObs \/ ~Exited(s)
            /\ \A g \in Handlers : obs[g] = NoObs \/ ~Exited(obs[g])
        BY <2>5, <3>1 DEF Before, XInv, SeenFacts, Truthful
      <4>2. signals' \subseteq signals \union {NoObs, Obs(1, c, 1, "exited")}
        BY <2>1 DEF Dies, DiesAs, DeathSignals
      <4>3. Obs(1, c, 1, "exited").exitCode = unit'.real
        BY <2>2 DEF Obs
      <4>4. QED
        BY <1>1, <2>5, <4>1, <4>2, <4>3 DEF Truthful
    <3>2. QED
      BY <1>1, <3>1 DEF Before, XInv, SeenFacts
  <2>7. CreateAt(l)'
    <3>1. ~Untouched
      BY <2>2 DEF Untouched
    <3>2. QED
      BY <1>1, <1>2, <1>4, <2>2, <2>5, <3>1 DEF CreateAt
  <2>8. \A g \in Starters : ~(pc[g] \in UpLabels /\ Claimed)
    <3> SUFFICES ASSUME NEW g \in Starters, pc[g] \in UpLabels, Claimed
                 PROVE  FALSE
      OBVIOUS
    <3>1. Exited(state)
      BY ClaimedEnded DEF Before, XInv
    <3>2. pc["create"] = "ok"
      BY DEF Before, XInv, CallerFacts, Callers, UpLabels
    <3>3. QED
      BY <1>4, <2>5, <3>1, <3>2 DEF CreateAt, RanLabels
  <2>9. QED
    BY <1>2, <2>4, <2>5, <2>6, <2>7, <2>8
<1>7. CASE Eases
  <2>1. Alive' = Alive
    BY <1>7 DEF Eases, Alive
  <2>2. UnitFacts'
    BY <1>1, <1>2, <1>7, <2>1 DEF Before, XInv, UnitFacts, Eases
  <2>3. SeenFacts'
    BY <1>1, <1>7, <2>1 DEF Before, XInv, SeenFacts, Truthful, Eases
  <2>4. CreateAt(l)'
    <3>1. Untouched => Untouched'
      BY <1>1, <1>7 DEF Untouched, Eases
    <3>2. unit.st # "starting" => unit'.st # "starting"
      BY <1>7 DEF Eases
    <3>3. QED
      BY <1>1, <1>2, <1>4, <2>1, <3>1, <3>2 DEF CreateAt
  <2>5. QED
    BY <1>1, <1>2, <1>7, <2>1, <2>2, <2>3, <2>4 DEF Before, XInv, CallerFacts, Eases
<1>8. QED
  BY <1>5, <1>6, <1>7 DEF Kills

\* A caller kills the unit,
LEMMA CallerKillsUnit ==
    ASSUME Before, Kills, NEW h \in Callers, NEW a, NEW b, Moves(h, a, b),
           a \notin {"new", "refused"}, b \notin UpLabels \/ h \notin Starters,
           b \notin {"d_finish", "d_release", "s_abandon", "s_release"},
           b \in {"s_reload", "s_fail"} => ~Alive'
    PROVE  XInv'
<1>1. h \in Handlers /\ h # "create" /\ "create" \in Handlers /\ Callers \subseteq Handlers
      /\ Starters \subseteq Callers
  BY Names DEF Callers
<1>2. /\ pc[h] = a /\ pc'[h] = b /\ \A g \in Handlers : g # h => pc'[g] = pc[g]
  BY <1>1, Moved DEF Before, RInv
<1>3. pc["create"] = "ok" /\ unit.st # "starting"
  BY <1>2 DEF Before, XInv, CallerFacts, CreateFacts, CreateAt, RanLabels
<1>4. /\ Undisturbed' /\ UnitFacts' /\ PhaseFacts' /\ SeenFacts' /\ CreateFacts'
      /\ Alive' => Alive
      /\ \A g \in Starters : pc[g] \in UpLabels /\ Claimed' => exitEvent' = unit'.real
  BY <1>1, <1>2, <1>3, KillsKeeps DEF CreateFacts
<1>5. state' = state
  BY DEF Kills
<1>6. CallerFacts'
  BY <1>1, <1>2, <1>3, <1>4, <1>5 DEF Before, XInv, CallerFacts
<1>7. QED
  BY <1>4, <1>6 DEF XInv

\* so does Create,
LEMMA CreateKillsUnit ==
    ASSUME Before, Kills, unit.st = "starting" => Exited(state) \/ UNCHANGED unit,
           NEW a, NEW b, Moves("create", a, b), a # "ok", CreateAt(b)'
    PROVE  XInv'
<1>1. /\ "create" \in Handlers /\ Callers \subseteq Handlers
      /\ Starters \subseteq Callers /\ "create" \notin Callers
  BY Names DEF Callers
<1>2. /\ pc["create"] = a /\ pc'["create"] = b
      /\ \A g \in Handlers : g # "create" => pc'[g] = pc[g]
  BY <1>1, Moved DEF Before, RInv
<1>3. Undisturbed' /\ UnitFacts' /\ PhaseFacts' /\ SeenFacts'
  BY KillsKeeps
<1>4. CreateFacts'
  BY <1>2 DEF CreateFacts
<1>5. \A g \in Callers : pc'[g] \in {"new", "refused"}
  BY <1>1, <1>2 DEF Before, XInv, CallerFacts
<1>6. CallerFacts'
  BY <1>1, <1>5 DEF CallerFacts, UpLabels
<1>7. QED
  BY <1>3, <1>4, <1>6 DEF XInv

\* and it may be killed or end without a handler.
LEMMA OutsideKillsUnit ==
    ASSUME Before, Kills, unit.st = "starting" => Exited(state), UNCHANGED pc
    PROVE  XInv'
<1>1. /\ Undisturbed' /\ UnitFacts' /\ PhaseFacts' /\ SeenFacts' /\ CreateFacts'
      /\ Alive' => Alive
      /\ \A g \in Starters : pc[g] \in UpLabels /\ Claimed' => exitEvent' = unit'.real
  BY KillsKeeps DEF CreateFacts
<1>2. state' = state
  BY DEF Kills
<1>3. CallerFacts'
  BY <1>1, <1>2 DEF Before, XInv, CallerFacts
<1>4. QED
  BY <1>1, <1>3 DEF XInv

-----------------------------------------------------------------------------
\* What has been seen stays true while the unit is left alone.
LEMMA SeenKeeps ==
    ASSUME Before, UNCHANGED <<unit, file, signals, recorded>>,
           Exited(state) => Exited(state'),
           obs' = obs \/ \E h \in Handlers : obs' = [obs EXCEPT ![h] = NoObs]
    PROVE  SeenFacts'
<1>1. \A g \in Handlers : obs'[g] = obs[g] \/ obs'[g] = NoObs
  BY DEF Before, RInv, Types, Observed
<1>2. \A s : Truthful(s)' <=> Truthful(s)
  BY DEF Truthful, Alive
<1>3. Truthful(NoObs)
  BY DEF Truthful
<1>4. \A g \in Handlers : Truthful(obs[g]) => Truthful(obs'[g])
  BY <1>1, <1>3
<1>5. ASSUME ~Exited(state')
      PROVE  /\ \A s \in signals' \union {recorded'} : Truthful(s)'
             /\ \A g \in Handlers : Truthful(obs[g])'
  <2>1. ~Exited(state)
    BY <1>5
  <2>2. \A g \in Handlers : Truthful(obs'[g])
    BY <1>4, <2>1 DEF Before, XInv, SeenFacts
  <2>3. \A g \in Handlers : Truthful(obs[g])'
    BY <2>2 DEF Truthful, Alive
  <2>4. \A s \in signals \union {recorded} : Truthful(s)
    BY <2>1 DEF Before, XInv, SeenFacts
  <2>5. QED
    BY <1>2, <2>3, <2>4
<1>6. QED
  BY <1>1, <1>5 DEF Before, XInv, SeenFacts

\* What is read of the unit of a process that has not ended is true.
LEMMA TrueReads ==
    ASSUME Before, ~Exited(state), file # NoObs, NEW s \in UnitReads
    PROVE  s # NoObs /\ s \in pStates /\ Truthful(Stamped(s))
<1>1. /\ unit \in Units /\ unit.st # "absent" /\ unit.code = unit.real /\ ~ReadErrors
      /\ unit.code \in Nat
  BY DEF Before, RInv, Types, XInv, UnitFacts, Undisturbed, BusErrors, ReadErrors, Units
<1>2. s \in Reads
  BY <1>1, UnitSays
<1>3. CASE Alive
  <2>1. PICK pid \in {0, 1}, st \in {"running", "other"} : s = Obs(0, 0, pid, st)
    BY <1>1, <1>3 DEF UnitReads, Alive
  <2>2. s \in pStates
    <3>1. pid \in Nat
      OBVIOUS
    <3>2. st \in Statuses
      BY DEF Statuses, Running
    <3>3. QED
      BY <2>1, <3>1, <3>2 DEF Obs, pStates
  <2>3. ~Exited(s)
    BY <2>1 DEF Exited, Obs, toStatus, Created, Running, Stopped
  <2>4. QED
    BY <2>2, <2>3, NoObsFresh DEF Truthful, Stamped
<1>4. CASE ~Alive
  <2>1. unit.st = "dead"
    BY <1>1, <1>4 DEF Alive, Units
  <2>2. PICK st \in {"dead", "failed"} : s = Obs(0, unit.code, 0, st)
    BY <1>1, <1>4, <2>1 DEF UnitReads
  <2>3. s \in pStates
    BY <1>1, <2>2 DEF Obs, pStates, Statuses, Stopped
  <2>4. Stamped(s).exitCode = unit.real
    BY <1>1, <2>2, <2>3 DEF Stamped, Obs, pStates
  <2>5. QED
    BY <1>4, <2>3, <2>4, NoObsFresh DEF Truthful
<1>5. QED
  BY <1>3, <1>4

\* A step that only moves its handler, and perhaps its handler's last read,
LEMMA QuietLooks ==
    ASSUME Before, UNCHANGED <<unit, file, signals, recorded, ctxDone, scenario, state,
                               exitEvent>>, tracked' => tracked \/ pc["create"] = "new",
           Claimed' => Claimed,
           phase' = phase \/ (phase' \in {"exited", "deleted"} <=> Exited(state)),
           obs' = obs
    PROVE  Looks
<1>1. SeenFacts'
  BY SeenKeeps
<1>2. QED
  BY <1>1, NothingLearned DEF Looks, Untouched

\* Nothing that is owed or in the outbox changes.
LEMMA SameClaims ==
    ASSUME UNCHANGED <<box, owe>>
    PROVE  Claimed' = Claimed
BY DEF Claimed, Streamed

\* a branch,
LEMMA BranchLooks ==
    ASSUME Before, UNCHANGED scenario, NEW h, NEW a, NEW STATE c, NEW STATE b,
           Branch(h, a, c, b)
    PROVE  Moves(h, a, b) /\ Looks /\ c /\ UNCHANGED <<state, tracked>>
<1>1. /\ Moves(h, a, b) /\ c /\ UNCHANGED <<box, owe, phase, obs>>
      /\ UNCHANGED <<unit, file, signals, recorded, ctxDone, state, exitEvent, tracked>>
  BY DEF Branch, At, Moves, procVars, shimVars, own, eventVars, sysdVars
<1>2. QED
  BY <1>1, SameClaims, QuietLooks

\* a move of the phase,
LEMMA AdvanceLooks ==
    ASSUME Before, UNCHANGED scenario, NEW h, NEW a, NEW b,
           NEW n \in {"created", "starting", "running"}, Advance(h, a, n, b)
    PROVE  Moves(h, a, b) /\ Looks /\ UNCHANGED state
<1>1. /\ Moves(h, a, b) /\ UNCHANGED <<box, owe, obs>> /\ phase' = advance(phase, n)
      /\ UNCHANGED <<unit, file, signals, recorded, ctxDone, state, exitEvent, tracked>>
  BY DEF Advance, At, Moves, shimVars, own, eventVars, sysdVars
<1>2. phase \in Phases
  BY DEF Before, OInv, OTypes
<1>3. phase' \in {"exited", "deleted"} <=> phase \in {"exited", "deleted"}
  BY <1>1, <1>2 DEF advance, canBecome, phaseTransitions, Phases
<1>4. QED
  BY <1>1, <1>3, SameClaims, QuietLooks DEF Before, XInv, PhaseFacts

\* a Send of another event than the exit,
LEMMA SendsLooks ==
    ASSUME Before, UNCHANGED scenario, NEW h, NEW a, NEW b,
           NEW e \in {"TaskCreate", "TaskStart"}, Sends(h, a, e, b)
    PROVE  Moves(h, a, b) /\ Looks /\ UNCHANGED state
<1>1. /\ Moves(h, a, b) /\ UNCHANGED <<owe, phase, obs>> /\ box' = Outbox!Sent(box, e)
      /\ UNCHANGED <<unit, file, signals, recorded, ctxDone, state, exitEvent, tracked>>
  BY DEF Sends, At, Moves, procVars, shimVars, own, sysdVars
<1>2. box \in OP!Boxes /\ e \in EventKinds
  BY DEF Before, OInv, OTypes, EventKinds
<1>3. Streamed' = Streamed \union {e}
  BY <1>1, <1>2, SendsOnce
<1>4. Claimed' => Claimed
  BY <1>1, <1>3 DEF Claimed
<1>5. QED
  BY <1>1, <1>4, QuietLooks

\* the mark of a delete,
LEMMA MarkLooks ==
    ASSUME Before, UNCHANGED scenario, NEW h, NEW a, NEW b, markDeleting(h, a, b)
    PROVE  Moves(h, a, b) /\ Looks /\ UNCHANGED <<state, tracked>>
<1>1. /\ Moves(h, a, b) /\ UNCHANGED <<box, owe, phase, obs>>
      /\ UNCHANGED <<unit, file, signals, recorded, ctxDone, state, exitEvent, tracked>>
  BY DEF markDeleting, At, Moves, procVars, own, eventVars, sysdVars
<1>2. QED
  BY <1>1, SameClaims, QuietLooks

\* leaving the maps,
LEMMA UntrackLooks ==
    ASSUME Before, UNCHANGED scenario, NEW h, NEW a, NEW b, Untrack(h, a, b)
    PROVE  Moves(h, a, b) /\ Looks /\ UNCHANGED state /\ ~tracked'
<1>1. /\ Moves(h, a, b) /\ UNCHANGED <<box, owe, phase, obs>> /\ ~tracked'
      /\ UNCHANGED <<unit, file, signals, recorded, ctxDone, state, exitEvent>>
  BY DEF Untrack, At, Moves, proc, event, sysd, unitVars
<1>2. QED
  BY <1>1, SameClaims, QuietLooks

\* setting the state,
LEMMA SetsLooks ==
    ASSUME Before, UNCHANGED scenario, NEW h \in Handlers, NEW a, NEW b, NEW s \in pStates,
           Sets(h, a, s, b), s.pid > 0 => file # NoObs \/ Exited(s) \/ state.pid > 0,
           ~Exited(state) /\ Exited(s) =>
              /\ pc["create"] \in RanLabels => ~Alive
              /\ \A g \in Starters : pc[g] \in UpLabels => s.exitCode = unit.real
    PROVE  /\ Moves(h, a, b) /\ Looks /\ UNCHANGED tracked
           /\ Exited(state') <=> Exited(state) \/ Exited(s)
           /\ state'.pid > 0 <=> state.pid > 0 \/ s.pid > 0
<1>1. /\ Moves(h, a, b) /\ SetState(h, s)
      /\ UNCHANGED <<box, obs, unit, file, signals, recorded, ctxDone, tracked>>
  BY DEF Sets, At, Moves, shimVars, own, sysdVars
<1>2. /\ Learned
      /\ Exited(state') <=> Exited(state) \/ Exited(s)
      /\ state'.pid > 0 <=> state.pid > 0 \/ s.pid > 0
  BY <1>1, SetLearns
<1>3. SeenFacts'
  BY <1>1, <1>2, SeenKeeps
<1>4. QED
  BY <1>1, <1>2, <1>3 DEF Looks, Untouched

\* a read of the exit,
LEMMA ReadLooks ==
    ASSUME Before, UNCHANGED <<unit, file, signals, recorded, ctxDone, scenario, state,
                               exitEvent, tracked, box, owe, phase>>,
           NEW h \in Handlers, NEW x, obs' = [obs EXCEPT ![h] = x],
           file # NoObs, Exited(state) \/ Truthful(x)
    PROVE  Looks
<1>1. Learned
  BY SameClaims, NothingLearned
<1>2. \A g \in Handlers : obs'[g] = obs[g] \/ obs'[g] = x
  BY DEF Before, RInv, Types, Observed
<1>3. ASSUME ~Exited(state')
      PROVE  /\ \A s \in signals' \union {recorded'} : Truthful(s)'
             /\ \A g \in Handlers : Truthful(obs[g])'
  <2>1. /\ \A s \in signals \union {recorded} : Truthful(s)
        /\ \A g \in Handlers : Truthful(obs[g])
    BY <1>3 DEF Before, XInv, SeenFacts
  <2>2. Truthful(x)
    BY <1>3
  <2>3. \A g \in Handlers : Truthful(obs[g])'
    BY <1>2, <2>1, <2>2 DEF Truthful, Alive
  <2>4. \A s \in signals' \union {recorded'} : Truthful(s)'
    BY <2>1 DEF Truthful, Alive
  <2>5. QED
    BY <2>3, <2>4
<1>4. SeenFacts'
  BY <1>3 DEF SeenFacts
<1>5. QED
  BY <1>1, <1>4 DEF Looks, Untouched

\* the first half of LoadExitState,
LEMMA ReadExitLooks ==
    ASSUME Before, UNCHANGED scenario, NEW h \in Handlers, NEW a, NEW b, ReadExit(h, a, b)
    PROVE  Moves(h, a, b) /\ Looks
<1>1. /\ Moves(h, a, b) /\ ~Exited(state) /\ state.pid > 0
      /\ UNCHANGED <<unit, file, signals, recorded, ctxDone, scenario, state,
                     exitEvent, tracked, box, owe, phase>>
  BY DEF ReadExit, At, Moves, procVars, shimVars, own, eventVars, sysdVars
<1>2. file # NoObs
  BY <1>1 DEF Before, XInv, UnitFacts, Known
<1>3. CASE obs' = [obs EXCEPT ![h] = recorded]
  <2>1. Truthful(recorded)
    BY <1>1 DEF Before, XInv, SeenFacts
  <2>2. QED
    BY <1>1, <1>2, <1>3, <2>1, ReadLooks
<1>4. CASE \E s \in UnitReads : obs' = [obs EXCEPT ![h] = Stamped(s)]
  <2>1. PICK s \in UnitReads : obs' = [obs EXCEPT ![h] = Stamped(s)]
    BY <1>4
  <2>2. Truthful(Stamped(s))
    BY <1>1, <1>2, TrueReads
  <2>3. QED
    BY <1>1, <1>2, <2>1, <2>2, ReadLooks
<1>5. QED
  BY <1>3, <1>4 DEF ReadExit

\* its merge,
LEMMA MergeReadLooks ==
    ASSUME Before, UNCHANGED scenario, NEW h \in Handlers, NEW a, NEW b, MergeRead(h, a, b)
    PROVE  Moves(h, a, b) /\ Looks /\ UNCHANGED tracked
<1>1. /\ Moves(h, a, b) /\ obs' = [obs EXCEPT ![h] = NoObs]
      /\ UNCHANGED <<box, unit, file, signals, recorded, ctxDone, tracked>>
  BY DEF MergeRead, At, Moves, shimVars, own, sysdVars
<1>2. Learned
  <2>1. CASE obs[h] = NoObs
    <3>1. UNCHANGED <<state, phase, owe, exitEvent>>
      BY <2>1 DEF MergeRead, procVars
    <3>2. QED
      BY <1>1, <3>1, SameClaims, NothingLearned
  <2>2. CASE obs[h] # NoObs
    <3>1. SetState(h, obs[h]) /\ obs[h] \in pStates /\ file # NoObs
      BY <2>2 DEF MergeRead, Before, XInv, SeenFacts, RInv, Types, Observed, Reads
    <3>2. ~Exited(state) /\ Exited(obs[h]) => ~Alive /\ obs[h].exitCode = unit.real
      BY <2>2 DEF Before, XInv, SeenFacts, Truthful
    <3>3. QED
      BY <1>1, <3>1, <3>2, SetLearns
  <2>3. QED
    BY <2>1, <2>2
<1>3. SeenFacts'
  BY <1>1, <1>2, SeenKeeps DEF Learned
<1>4. QED
  BY <1>1, <1>2, <1>3 DEF Looks, Untouched

\* and LoadState, which finds the file if there is anything to find.
LEMMA LoadsLooks ==
    ASSUME Before, UNCHANGED scenario, NEW h \in Handlers, NEW a, NEW STATE b, NEW STATE f,
           Loads(h, a, b, f)
    PROVE  /\ Moves(h, a, b) \/ (Moves(h, a, f) /\ Exited(state))
           /\ Looks /\ UNCHANGED tracked
           /\ Known => Exited(state') \/ (file = RunObs /\ state'.pid > 0)
<1>1. UNCHANGED <<box, unit, file, signals, recorded, ctxDone, tracked, obs>>
  BY DEF Loads, maps, sysd, unitVars
<1>2. RunObs \in pStates /\ FailObs \in pStates /\ RunObs.pid > 0 /\ ~Exited(RunObs)
      /\ Exited(FailObs)
  <2>1. RunObs \in pStates
    BY DEF RunObs, Obs, pStates, Statuses, Running
  <2>2. FailObs \in pStates
    BY DEF FailObs, Obs, pStates, Statuses, Stopped, exitedInit
  <2>3. RunObs.pid > 0 /\ Exited(FailObs)
    BY DEF RunObs, FailObs, Obs, Exited
  <2>4. ~Exited(RunObs)
    BY DEF RunObs, Obs, Exited, toStatus, Created, Running, Stopped
  <2>5. QED
    BY <2>1, <2>2, <2>3, <2>4
<1>3. CASE file # NoObs /\ SetState(h, file) /\ Goto(h, b)
  <2>1. file \in {RunObs, FailObs} /\ file \in pStates
    BY <1>2, <1>3 DEF Before, XInv, UnitFacts
  <2>2. Exited(file) => /\ pc["create"] \notin RanLabels
                        /\ \A g \in Starters : pc[g] \notin UpLabels
    <3>1. Exited(file) => pc["create"] \notin RanLabels
      BY <1>2, <2>1 DEF Before, XInv, CreateFacts, CreateAt
    <3>2. \A g \in Starters : pc[g] \in UpLabels => pc["create"] = "ok"
      BY DEF Before, XInv, CallerFacts, UpLabels, Callers
    <3>3. QED
      BY <3>1, <3>2 DEF RanLabels
  <2>3. /\ Learned
        /\ Exited(state') <=> Exited(state) \/ Exited(file)
        /\ state'.pid > 0 <=> state.pid > 0 \/ file.pid > 0
    BY <1>1, <1>3, <2>1, <2>2, SetLearns
  <2>4. SeenFacts'
    BY <1>1, <2>3, SeenKeeps
  <2>5. Moves(h, a, b)
    BY <1>3 DEF Loads, At, Moves
  <2>6. QED
    BY <1>1, <1>2, <2>1, <2>3, <2>4, <2>5 DEF Looks, Untouched
<1>4. CASE file = NoObs /\ UNCHANGED <<proc, owe, exitEvent>> /\ Goto(h, b)
  <2>1. UNCHANGED <<state, phase, owe, exitEvent>>
    BY <1>4 DEF proc
  <2>2. Looks
    BY <1>1, <2>1, SameClaims, QuietLooks
  <2>3. Moves(h, a, b)
    BY <1>4 DEF Loads, At, Moves
  <2>4. QED
    BY <1>1, <1>4, <2>1, <2>2, <2>3 DEF Known
<1>5. CASE /\ file = NoObs /\ state.pid > 0 /\ Goto(h, b)
           /\ \E s \in UnitReads \ {NoObs} : SetState(h, s)
  <2>1. PICK s \in pStates : SetState(h, s)
    BY <1>5, UnitSays DEF Before, RInv, Types, Reads
  <2>2. Exited(state)
    BY <1>5 DEF Before, XInv, UnitFacts, Known
  <2>3. Learned
    BY <1>1, <1>5, <2>1, <2>2, SetLearns
  <2>4. SeenFacts'
    BY <1>1, <2>3, SeenKeeps DEF Learned
  <2>5. Moves(h, a, b)
    BY <1>5 DEF Loads, At, Moves
  <2>6. QED
    BY <1>1, <2>2, <2>3, <2>4, <2>5 DEF Looks, Learned, Untouched
<1>6. CASE /\ file = NoObs /\ state.pid > 0
           /\ UNCHANGED <<proc, owe, exitEvent>> /\ Goto(h, f)
  <2>1. UNCHANGED <<state, phase, owe, exitEvent>> /\ Exited(state)
    BY <1>6 DEF proc, Before, XInv, UnitFacts, Known
  <2>2. Looks
    BY <1>1, <2>1, SameClaims, QuietLooks
  <2>3. Moves(h, a, f)
    BY <1>6 DEF Loads, At, Moves
  <2>4. QED
    BY <1>1, <2>1, <2>2, <2>3
<1>7. QED
  BY <1>3, <1>4, <1>5, <1>6 DEF Loads, LoadState

\* What holds around a step.
Around == Before /\ OInv' /\ UNCHANGED scenario

\* Who is past its lookup finds a container that has been set up.
LEMMA CallerKnows ==
    ASSUME Before, NEW h \in Callers, pc[h] \notin {"new", "refused"}
    PROVE  /\ pc["create"] = "ok" /\ file = RunObs /\ file # NoObs /\ state.pid > 0
           /\ unit.st # "starting" /\ (Exited(state) => ~Alive) /\ ~BusErrors
           /\ h \in Handlers
<1>1. pc["create"] = "ok"
  BY DEF Before, XInv, CallerFacts
<1>2. /\ file = RunObs /\ state.pid > 0 /\ unit.st # "starting" /\ (Exited(state) => ~Alive)
  BY <1>1 DEF Before, XInv, CreateFacts, CreateAt, RanLabels
<1>3. RunObs # NoObs
  <2>1. RunObs \in pStates
    BY DEF RunObs, Obs, pStates, Statuses, Running
  <2>2. QED
    BY <2>1, NoObsFresh
<1>4. ~BusErrors
  BY DEF Before, XInv, Undisturbed, BusErrors
<1>5. QED
  BY <1>1, <1>2, <1>3, <1>4, Names

\* A look that leads a caller on.
LEMMA CallerGoesOn ==
    ASSUME Around, Looks, NEW h \in Callers, NEW a, NEW b, Moves(h, a, b),
           a \notin {"new", "refused"},
           b \notin {"s_abandon", "s_release", "s_reload", "s_fail", "d_finish",
                     "d_release"},
           h \in Starters /\ b \in UpLabels => a \in UpLabels
    PROVE  XInv'
<1>1. pc["create"] = "ok"
  BY CallerKnows DEF Around, Moves
<1>2. QED
  BY <1>1, CallerLooks DEF Around

\* What the calls do to a unit.
LEMMA CallsKill ==
    ASSUME Around, NEW h, NEW a, NEW b, NEW ACTION A, Calls(h, a, A, b),
           A => KillUnit \/ RuncKill \/ UNCHANGED <<unit, signals>>
    PROVE  Moves(h, a, b) /\ Kills /\ UNCHANGED tracked /\ A
<1>1. /\ Moves(h, a, b) /\ A
      /\ UNCHANGED <<state, phase, box, exitEvent, owe, file, recorded, obs, ctxDone,
                     scenario, tracked>>
  BY DEF Around, Calls, At, Moves, procVars, shimVars, own, eventVars
<1>2. CASE KillUnit \/ RuncKill
  <2>1. UNCHANGED <<unit, signals>> \/ (Alive /\ Dies(Killed))
    BY <1>2 DEF KillUnit, RuncKill, Alive
  <2>2. Killed \in Nat
    BY DEF Killed
  <2>3. QED
    BY <1>1, <2>1, <2>2 DEF Kills
<1>3. CASE UNCHANGED <<unit, signals>>
  BY <1>1, <1>3 DEF Kills
<1>4. QED
  BY <1>1, <1>2, <1>3

\* The unit of a process that has ended is released.
LEMMA CallsRelease ==
    ASSUME Around, NEW h, NEW a, NEW b, Calls(h, a, releaseUnit, b), Exited(state)
    PROVE  Moves(h, a, b) /\ Kills /\ UNCHANGED <<tracked, state>>
<1>1. /\ Moves(h, a, b) /\ releaseUnit
      /\ UNCHANGED <<state, phase, box, exitEvent, owe, file, recorded, obs, ctxDone,
                     scenario, tracked>>
  BY DEF Around, Calls, At, Moves, procVars, shimVars, own, eventVars
<1>2. unit \in Units
  BY DEF Around, Before, RInv, Types
<1>3. Eases
  BY <1>1, <1>2 DEF releaseUnit, Eases, Units
<1>4. QED
  BY <1>1, <1>3 DEF Kills

\* The lookup finds a container only when its Create has succeeded.
LEMMA LookupReal ==
    ASSUME Around, NEW h \in Callers, NEW found, Lookup(h, found),
           found \in {"s_begin", "d_check", "w_load"}
    PROVE  XInv'
<1>1. PICK b : /\ b = IF tracked THEN found ELSE "refused"
               /\ Branch(h, "new", TRUE, b)
  BY DEF Lookup
<1>2. Moves(h, "new", b) /\ Looks /\ UNCHANGED state
  BY <1>1, BranchLooks DEF Around
<1>3. pc["create"] \in {"ok", "failed"}
  BY DEF Lookup, Around, Before, RInv, Settled
<1>4. tracked => pc["create"] = "ok"
  BY <1>3 DEF Around, Before, XInv, CreateFacts, CreateAt, TornLabels
<1>5. QED
  BY <1>1, <1>2, <1>4, CallerLooks DEF Around, UpLabels

-----------------------------------------------------------------------------
\* Start claims the process,
LEMMA BeginReal ==
    ASSUME Around, NEW h \in Starters, beginStart(h)
    PROVE  XInv'
<1>1. h \in Callers /\ phase \in Phases /\ ~scenario.checkpoint /\ ctxDone = FALSE
  BY DEF Callers, Around, Before, OInv, OTypes, XInv, Undisturbed, UnitFacts
<1>2. PICK b \in {"s_runc", "refused"} : Moves(h, "s_begin", b)
  BY <1>1 DEF beginStart, Moves, At
<1>3. /\ UNCHANGED <<box, owe, obs, unit, file, signals, recorded, state, exitEvent>>
      /\ UNCHANGED <<tracked, scenario, ctxDone>> /\ phase' = advance(phase, "starting")
  BY <1>1 DEF beginStart, event, sysd, maps, unitVars, Around
<1>4. phase' \in {"exited", "deleted"} <=> phase \in {"exited", "deleted"}
  BY <1>1, <1>3 DEF advance, canBecome, phaseTransitions, Phases
<1>5. Looks
  BY <1>3, <1>4, SameClaims, QuietLooks DEF Around, Before, XInv, PhaseFacts
<1>6. QED
  BY <1>1, <1>2, <1>5, CallerGoesOn DEF UpLabels

\* runs the container or kills it,
LEMMA RuncStartReal ==
    ASSUME Around, NEW h \in Starters, RuncStart(h)
    PROVE  XInv'
<1>1. h \in Callers /\ h \in Handlers /\ Before /\ UNCHANGED scenario
  BY Names DEF Callers, Around
<1>2. CASE Branch(h, "s_runc", SetUp, "s_pid")
  <2>1. Moves(h, "s_runc", "s_pid") /\ Looks /\ SetUp /\ UNCHANGED state
    BY <1>1, <1>2, BranchLooks
  <2>2. pc["create"] = "ok" /\ (Exited(state) => ~Alive)
    BY <1>1, <2>1, CallerKnows DEF Moves
  <2>3. ~Exited(state')
    BY <2>1, <2>2 DEF SetUp, Alive
  <2>4. QED
    BY <1>1, <2>1, <2>2, <2>3, CallerLooks DEF Around
<1>3. CASE \/ Branch(h, "s_runc", ~SetUp \/ BusErrors, "s_load")
           \/ Branch(h, "s_loaded", Exited(state), "s_abort")
           \/ Branch(h, "s_fail", Exited(state), "s_abort")
  <2>1. PICK a \in {"s_runc", "s_loaded", "s_fail"}, b \in {"s_load", "s_abort"} :
           Moves(h, a, b) /\ Looks
    BY <1>1, <1>3, BranchLooks
  <2>2. QED
    BY <1>1, <2>1, CallerGoesOn DEF UpLabels
<1>4. CASE Loads(h, "s_load", "s_loaded", "s_loaded")
  <2>1. Moves(h, "s_load", "s_loaded") /\ Looks
    BY <1>1, <1>4, LoadsLooks
  <2>2. QED
    BY <1>1, <2>1, CallerGoesOn DEF UpLabels
<1>5. CASE Calls(h, "s_loaded", KillUnit, "s_reload")
  <2>1. Moves(h, "s_loaded", "s_reload") /\ Kills /\ KillUnit
    BY <1>5, CallsKill
  <2>2. BusErrors \/ unit'.st \notin {"starting", "running"}
    BY <1>1, <2>1, Acts DEF Before, RInv
  <2>3. ~Alive'
    BY <1>1, <2>1, <2>2, CallerKnows DEF Moves, Alive
  <2>4. QED
    BY <1>1, <2>1, <2>3, CallerKillsUnit DEF UpLabels
<1>6. CASE Loads(h, "s_reload", "s_fail", "s_fail")
  <2>1. Moves(h, "s_reload", "s_fail") /\ Looks
    BY <1>1, <1>6, LoadsLooks
  <2>2. pc["create"] = "ok" /\ ~Alive
    BY <1>1, <2>1, CallerKnows DEF Moves, Before, XInv, CallerFacts
  <2>3. QED
    BY <1>1, <2>1, <2>2, CallerLooks DEF Around, UpLabels
<1>7. CASE Sets(h, "s_fail", [failedState EXCEPT !.pid = state.pid], "s_abort")
  <2> DEFINE s == [failedState EXCEPT !.pid = state.pid]
  <2>1. pc[h] = "s_fail"
    BY <1>7 DEF Sets, At
  <2>2. ~Alive
    BY <1>1, <2>1 DEF Before, XInv, CallerFacts
  <2>3. state \in pStates
    BY <1>1 DEF Before, RInv, Types, Observed
  <2>4. s \in pStates /\ s.pid = state.pid
    <3>1. state.pid \in Nat /\ "failed" \in Statuses
      BY <2>3 DEF pStates, Statuses, Stopped
    <3>2. s = [exitedAt |-> 1, exitCode |-> 255, pid |-> state.pid, status |-> "failed"]
      BY DEF failedState, Synthetic, Obs
    <3>3. QED
      BY <3>1, <3>2 DEF pStates
  <2>5. \A g \in Starters : pc[g] \notin UpLabels
    <3> SUFFICES ASSUME NEW g \in Starters, pc[g] \in UpLabels
                 PROVE  FALSE
      OBVIOUS
    <3>1. pc[g] \in ClaimLabels /\ pc[h] \in ClaimLabels
      BY <2>1, ClaimNames DEF UpLabels
    <3>2. g = h
      BY <1>1, <3>1 DEF Before, OInv, OneClaim
    <3>3. QED
      BY <2>1, <3>2 DEF UpLabels
  <2> HIDE DEF s
  <2>6. Sets(h, "s_fail", s, "s_abort")
    BY <1>7 DEF s
  <2>7. Moves(h, "s_fail", "s_abort") /\ Looks
    BY <1>1, <2>2, <2>4, <2>5, <2>6, SetsLooks
  <2>8. QED
    BY <1>1, <2>7, CallerGoesOn DEF UpLabels
<1>8. QED
  BY <1>2, <1>3, <1>4, <1>5, <1>6, <1>7 DEF RuncStart

\* polls for its pid,
LEMMA StartPollsReal ==
    ASSUME Around, NEW h \in Starters, StartPolls(h)
    PROVE  XInv'
<1>1. h \in Callers /\ h \in Handlers /\ Before /\ UNCHANGED scenario
  BY Names DEF Callers, Around
<1>2. PICK b \in {"s_pid", "s_finish"} : Moves(h, "s_pid", b) /\ Looks
  BY <1>1, LoadsLooks, BranchLooks DEF StartPolls
<1>3. QED
  BY <1>1, <1>2, CallerGoesOn DEF UpLabels

\* and returns.
LEMMA FinishStartReal ==
    ASSUME Around, NEW h \in Starters, finishStart(h, state.pid) \/ abortStart(h)
    PROVE  XInv'
<1>1. h \in Callers /\ h \in Handlers /\ Before /\ UNCHANGED scenario
  BY Names DEF Callers, Around
<1>2. CASE Advance(h, "s_finish", "running", "s_state")
  <2>1. Moves(h, "s_finish", "s_state") /\ Looks
    BY <1>1, <1>2, AdvanceLooks
  <2>2. QED
    BY <1>1, <2>1, CallerGoesOn DEF UpLabels
<1>3. CASE Sets(h, "s_state", Obs(0, 0, state.pid, "running"), "s_send")
  <2> DEFINE s == Obs(0, 0, state.pid, "running")
  <2>1. state \in pStates
    BY <1>1 DEF Before, RInv, Types, Observed
  <2>2. s \in pStates /\ s.pid = state.pid
    BY <2>1 DEF Obs, pStates, Statuses, Running
  <2>3. ~Exited(s)
    BY DEF Obs, Exited, toStatus, Created, Running, Stopped
  <2> HIDE DEF s
  <2>4. Sets(h, "s_state", s, "s_send")
    BY <1>3 DEF s
  <2>5. Moves(h, "s_state", "s_send") /\ Looks
    BY <1>1, <2>2, <2>3, <2>4, SetsLooks
  <2>6. QED
    BY <1>1, <2>5, CallerGoesOn DEF UpLabels
<1>4. CASE Sends(h, "s_send", "TaskStart", "ok")
  <2>1. Moves(h, "s_send", "ok") /\ Looks
    BY <1>1, <1>4, SendsLooks
  <2>2. QED
    BY <1>1, <2>1, CallerGoesOn DEF UpLabels
<1>5. CASE Advance(h, "s_abort", "created", "failed")
  <2>1. Moves(h, "s_abort", "failed") /\ Looks
    BY <1>1, <1>5, AdvanceLooks
  <2>2. QED
    BY <1>1, <2>1, CallerGoesOn DEF UpLabels
<1>6. QED
  BY <1>2, <1>3, <1>4, <1>5 DEF finishStart, abortStart

\* Service.Start.
LEMMA StartReal ==
    ASSUME Around, NEW h \in Starters, Start(h)
    PROVE  XInv'
<1>1. h \in Callers /\ ~scenario.checkpoint
  BY DEF Callers, Around, Before, XInv, Undisturbed
<1>2. ~abandonStartedUnit(h)
  BY <1>1 DEF abandonStartedUnit, Calls, At, Around, Before, XInv, CallerFacts
<1>3. CASE Lookup(h, "s_begin")
  BY <1>1, <1>3, LookupReal
<1>4. QED
  BY <1>1, <1>2, <1>3, BeginReal, RuncStartReal, StartPollsReal, FinishStartReal DEF Start

\* Delete, called by a Deleter: refused, or it records the exit before it releases.
LEMMA DeleteCheckReal ==
    ASSUME Around, NEW h \in Callers, DeleteChecks(h)
    PROVE  XInv'
<1>1. h \in Handlers /\ Before /\ UNCHANGED scenario
  BY Names DEF Around
<1>2. CASE Branch(h, "d_check", Exited(state), "d_mark")
  <2>1. Moves(h, "d_check", "d_mark") /\ Looks
    BY <1>1, <1>2, BranchLooks
  <2>2. QED
    BY <2>1, CallerGoesOn DEF UpLabels
<1>3. CASE MergeRead(h, "d_set", "d_mark")
  <2>1. Moves(h, "d_set", "d_mark") /\ Looks
    BY <1>1, <1>3, MergeReadLooks
  <2>2. QED
    BY <2>1, CallerGoesOn DEF UpLabels
<1>4. CASE /\ At(h, "d_check") /\ ~Exited(state)
           /\ \E s \in UnitReads :
                 IF s = NoObs \/ Exited(s)
                 THEN obs' = [obs EXCEPT ![h] = Stamped(s)] /\ Goto(h, "d_set")
                 ELSE Goto(h, "refused") /\ UNCHANGED obs
           /\ UNCHANGED <<proc, deleting, recorded, maps, event, sysd, work, unitVars>>
  <2>1. PICK s \in UnitReads : \/ obs' = [obs EXCEPT ![h] = Stamped(s)] /\ Goto(h, "d_set")
                               \/ Goto(h, "refused") /\ UNCHANGED obs
    BY <1>4
  <2>2. UNCHANGED <<unit, file, signals, recorded, ctxDone, scenario, state, exitEvent,
                    tracked, box, owe, phase>>
    BY <1>1, <1>4 DEF proc, maps, event, sysd, unitVars
  <2>3. pc[h] = "d_check" /\ file # NoObs
    BY <1>1, <1>4, CallerKnows DEF At
  <2>4. Truthful(Stamped(s))
    BY <1>1, <1>4, <2>3, TrueReads
  <2>5. Looks
    <3>1. CASE obs' = [obs EXCEPT ![h] = Stamped(s)]
      BY <1>1, <2>2, <2>3, <2>4, <3>1, ReadLooks
    <3>2. CASE UNCHANGED obs
      BY <1>1, <2>2, <3>2, SameClaims, QuietLooks
    <3>3. QED
      BY <2>1, <3>1, <3>2
  <2>6. PICK b \in {"d_set", "refused"} : Moves(h, "d_check", b)
    BY <2>1, <2>3 DEF Moves
  <2>7. QED
    BY <2>5, <2>6, CallerGoesOn DEF UpLabels
<1>5. QED
  BY <1>2, <1>3, <1>4 DEF DeleteChecks

\* finishDelete of a process that has ended claims no exit.
LEMMA FinishDeleteLooks ==
    ASSUME Before, UNCHANGED scenario, NEW h \in Handlers, Exited(state),
           phase' = advance(phase, "deleted"),
           owe' = IF advanced(phase, "deleted")
                  THEN [owe EXCEPT ![h] = {"TaskDelete"}] ELSE owe,
           UNCHANGED <<state, deleting, recorded, maps, box, exitEvent, sysd, work, obs,
                       unitVars>>
    PROVE  Looks /\ UNCHANGED <<state, tracked>>
<1>1. UNCHANGED <<unit, file, signals, recorded, ctxDone, scenario, state, exitEvent,
                  tracked, obs, box>>
  BY DEF maps, sysd, unitVars
<1>2. phase' = "deleted"
  BY DEF Before, OInv, OTypes, advance, canBecome, phaseTransitions, Phases
<1>3. Claimed' => Claimed
  <2>1. owe \in [Handlers -> SUBSET {"TaskExit", "TaskDelete"}]
    BY DEF Before, OInv, OTypes
  <2>2. \A g \in Handlers : owe'[g] = owe[g] \/ owe'[g] = {"TaskDelete"}
    BY <2>1
  <2>3. Streamed' = Streamed
    BY <1>1 DEF Streamed
  <2>4. QED
    BY <2>2, <2>3 DEF Claimed
<1>4. QED
  BY <1>1, <1>2, <1>3, QuietLooks

\* initProcess.Delete for Service.Delete.
LEMMA DeleteReal ==
    ASSUME Around, NEW h \in Callers, h \notin Starters, Delete(h)
    PROVE  XInv'
<1>1. h \in Handlers /\ Before /\ UNCHANGED scenario /\ ~BusErrors
  BY Names DEF Around, Before, XInv, Undisturbed, BusErrors
<1>2. CASE markDeleting(h, "d_mark", "d_stop")
  <2>1. Moves(h, "d_mark", "d_stop") /\ Looks
    BY <1>1, <1>2, MarkLooks
  <2>2. QED
    BY <2>1, CallerGoesOn
<1>3. CASE DeleteStops(h)
  <2>1. ~Fails(h, "d_runc")
    BY <1>1 DEF Fails
  <2>2. CASE Calls(h, "d_stop", KillUnit, "d_runc")
    BY <1>1, <2>2, CallsKill, CallerKillsUnit
  <2>3. CASE Calls(h, "d_runc", RuncKill, "d_wait")
    BY <1>1, <2>3, CallsKill, CallerKillsUnit
  <2>4. QED
    BY <1>3, <2>1, <2>2, <2>3 DEF DeleteStops
<1>4. CASE DeleteWaits(h)
  <2>1. ~Fails(h, "d_wait")
    BY <1>1 DEF Fails
  <2>2. Branch(h, "d_wait", state.pid = 0 \/ phase = "deleted" \/ Exited(state), "d_finish")
    BY <1>4, <2>1 DEF DeleteWaits
  <2>3. /\ Moves(h, "d_wait", "d_finish") /\ Looks /\ UNCHANGED state
        /\ state.pid = 0 \/ phase = "deleted" \/ Exited(state)
    BY <1>1, <2>2, BranchLooks
  <2>4. pc["create"] = "ok" /\ state.pid > 0
    BY <1>1, <2>3, CallerKnows DEF Moves
  <2>5. Exited(state')
    BY <1>1, <2>2, <2>3, <2>4 DEF Before, XInv, PhaseFacts
  <2>6. QED
    BY <2>3, <2>4, <2>5, CallerLooks DEF Around
<1>5. CASE finishDelete(h)
  <2>1. ASSUME At(h, "d_finish"), phase' = advance(phase, "deleted"),
               owe' = IF advanced(phase, "deleted")
                      THEN [owe EXCEPT ![h] = {"TaskDelete"}] ELSE owe,
               Goto(h, "d_release"),
               UNCHANGED <<state, deleting, recorded, maps, box, exitEvent, sysd, work,
                           obs, unitVars>>
        PROVE  XInv'
    <3>1. Moves(h, "d_finish", "d_release") /\ Exited(state) /\ pc["create"] = "ok"
      BY <1>1, <2>1, CallerKnows DEF Moves, At, Before, XInv, CallerFacts
    <3>2. Looks /\ UNCHANGED state
      BY <1>1, <2>1, <3>1, FinishDeleteLooks
    <3>3. QED
      BY <3>1, <3>2, CallerLooks DEF Around
  <2>2. CASE Calls(h, "d_release", releaseUnit, "d_ok")
    <3>1. Exited(state)
      BY <1>1, <2>2 DEF Calls, At, Before, XInv, CallerFacts
    <3>2. QED
      BY <1>1, <2>2, <3>1, CallsRelease, CallerKillsUnit
  <2>3. QED
    BY <1>5, <2>1, <2>2 DEF finishDelete
<1>6. QED
  BY <1>2, <1>3, <1>4, <1>5, DeleteCheckReal DEF Delete

\* Service.Delete,
LEMMA ServiceDeleteReal ==
    ASSUME Around, NEW h \in Deleters, ServiceDelete(h)
    PROVE  XInv'
<1>1. h \in Callers /\ h \notin Starters /\ Before /\ UNCHANGED scenario
  BY StartersApart DEF Callers, Around
<1>2. CASE Lookup(h, "d_check")
  BY <1>1, <1>2, LookupReal
<1>3. CASE Untrack(h, "d_ok", "ok")
  <2>1. Moves(h, "d_ok", "ok") /\ Looks
    BY <1>1, <1>3, UntrackLooks
  <2>2. QED
    BY <1>1, <2>1, CallerGoesOn
<1>4. CASE Branch(h, "d_err", TRUE, "failed")
  <2>1. Moves(h, "d_err", "failed") /\ Looks
    BY <1>1, <1>4, BranchLooks
  <2>2. QED
    BY <1>1, <2>1, CallerGoesOn
<1>5. QED
  BY <1>1, <1>2, <1>3, <1>4, DeleteReal DEF ServiceDelete

\* Service.Wait
LEMMA WaitReal ==
    ASSUME Around, NEW h \in Waiters, Wait(h)
    PROVE  XInv'
<1>1. h \in Callers /\ h \in Handlers /\ h \notin Starters /\ Before /\ UNCHANGED scenario
  BY StartersApart, Names DEF Callers, Around
<1>2. CASE Lookup(h, "w_load")
  BY <1>1, <1>2, LookupReal
<1>3. CASE ~Lookup(h, "w_load")
  <2>1. PICK a \in {"w_load", "w_read", "w_merge", "w_wait"},
             b \in {"w_read", "w_merge", "w_wait", "ok"} : Moves(h, a, b) /\ Looks
    BY <1>1, <1>3, LoadsLooks, ReadExitLooks, MergeReadLooks, BranchLooks DEF Wait
  <2>2. QED
    BY <1>1, <2>1, CallerGoesOn
<1>4. QED
  BY <1>2, <1>3

\* and the reactor.
LEMMA ReconcileReal ==
    ASSUME Around, Reconcile(ReactorLoads)
    PROVE  XInv'
<1>1. "reactor" \in Handlers /\ Before /\ UNCHANGED scenario
  BY Names DEF Around
<1>2. CASE /\ \E a : At("reactor", a) /\ \E b : Goto("reactor", b)
           /\ UNCHANGED <<procVars, shimVars, eventVars, sysdVars, obs>>
  <2>1. PICK a, b : Moves("reactor", a, b)
    BY <1>2 DEF At, Moves
  <2>2. UNCHANGED <<unit, file, signals, recorded, ctxDone, scenario, state, exitEvent,
                    tracked, obs, box, owe, phase>>
    BY <1>1, <1>2 DEF procVars, shimVars, own, eventVars, sysdVars
  <2>3. Looks
    BY <1>1, <2>2, SameClaims, QuietLooks
  <2>4. QED
    BY <1>1, <2>1, <2>3, ReactorLooks
<1>3. CASE ReactorLoads
  BY <1>1, <1>3, LoadsLooks, ReactorLooks DEF ReactorLoads
<1>4. CASE \/ ReadExit("reactor", "r_read", "r_merge")
           \/ MergeRead("reactor", "r_merge", "idle")
  BY <1>1, <1>4, ReadExitLooks, MergeReadLooks, ReactorLooks
<1>5. CASE \/ Branch("reactor", "r_read", Exited(state) \/ state.pid = 0, "idle")
           \/ Branch("reactor", "r_merge", obs["reactor"] = NoObs, "r_retry")
  BY <1>1, <1>5, BranchLooks, ReactorLooks
<1>6. QED
  BY <1>2, <1>3, <1>4, <1>5 DEF Reconcile

\* What is known of the constants of the file.
LEMMA FileObs ==
    RunObs \in pStates /\ FailObs \in pStates /\ RunObs # NoObs /\ FailObs # NoObs
<1>1. RunObs \in pStates
  BY DEF RunObs, Obs, pStates, Statuses, Running
<1>2. FailObs \in pStates
  BY DEF FailObs, Obs, pStates, Statuses, Stopped, exitedInit
<1>3. QED
  BY <1>1, <1>2, NoObsFresh

\* Where Create is, the invariant says what it says of that label.
LEMMA CreateIs ==
    ASSUME Around, NEW a, pc["create"] = a
    PROVE  CreateAt(a) /\ "create" \in Handlers /\ Before /\ UNCHANGED scenario
BY Names DEF Around, Before, XInv, CreateFacts

\* Labels the invariant says nothing about.
LEMMA FreeLabels ==
    ASSUME NEW b \in {"su_job", "su_rdel2", "su_err", "c_fail"}
    PROVE  CreateAt(b)'
BY DEF CreateAt, LostLabels, TornLabels, RanLabels

\* Labels at which an exit has been recorded, and no more is said.
LEMMA LostAfter ==
    ASSUME Exited(state'),
           NEW b \in LostLabels \union {"su_do", "su_pid1", "su_rdel2", "su_pid2",
                                        "su_loop1", "su_loop2"}
    PROVE  CreateAt(b)'
<1>1. b \notin TornLabels /\ b \notin RanLabels
  BY DEF LostLabels, TornLabels, RanLabels
<1>2. Known'
  BY DEF Known
<1>3. QED
  BY <1>1, <1>2 DEF CreateAt

\* do() has failed.
LEMMA DoFailedAt ==
    ASSUME Known'
    PROVE  \E b \in {"su_pid1", "su_rdel2"} : b = DoFailed /\ CreateAt(b)'
<1>1. CreateAt("su_pid1")'
  BY DEF CreateAt, LostLabels, TornLabels, RanLabels
<1>2. CreateAt("su_rdel2")'
  BY FreeLabels
<1>3. QED
  BY <1>1, <1>2 DEF DoFailed

-----------------------------------------------------------------------------
\* A unit is made: the first one, or one for a process that has ended.
LEMMA MakeReal ==
    ASSUME Around, NEW a \in {"su_do", "su_again"}, Moves("create", a, "su_job"),
           unit.st = "absent", unit' = NewUnit, recorded' \in {recorded, NoObs},
           UNCHANGED <<state, phase, box, exitEvent, owe, file, signals, obs, ctxDone>>
    PROVE  XInv'
<1>1. /\ CreateAt(a) /\ "create" \in Handlers /\ Before /\ UNCHANGED scenario
  BY CreateIs DEF Moves
<1>2. /\ "create" \notin Callers /\ Callers \subseteq Handlers /\ Starters \subseteq Callers
  BY Names DEF Callers
<1>3. /\ pc["create"] = a /\ pc'["create"] = "su_job"
      /\ \A g \in Handlers : g # "create" => pc'[g] = pc[g]
  BY <1>1, Moved DEF Before, RInv
<1>4. Untouched \/ Exited(state)
  BY <1>1 DEF CreateAt, LostLabels
<1>5. unit \in Units
  BY <1>1 DEF Before, RInv, Types
<1>6. /\ unit'.st = "starting" /\ unit'.ref = TRUE /\ unit'.job = "none"
      /\ unit'.code = unit.code /\ unit'.real = unit.real /\ unit'.helper = unit.helper
  BY <1>5 DEF NewUnit, Units
<1>7. Undisturbed' /\ PhaseFacts'
  BY <1>1 DEF Before, XInv, Undisturbed, Faults, PhaseFacts
<1>8. UnitFacts'
  <2>1. RunObs' = RunObs /\ FailObs' = FailObs /\ Known' = Known
    BY DEF RunObs, FailObs, Obs, Known
  <2>2. QED
    BY <1>1, <1>4, <1>6, <2>1 DEF Before, XInv, UnitFacts, Untouched
<1>9. SeenFacts'
  <2>1. ASSUME ~Exited(state')
        PROVE  /\ signals' = {} /\ recorded' = NoObs /\ \A g \in Handlers : obs'[g] = NoObs
    BY <1>1, <1>4, <2>1 DEF Untouched, Before, XInv, SeenFacts
  <2>2. QED
    BY <1>1, <2>1 DEF Before, XInv, SeenFacts, Truthful
<1>10. CreateFacts'
  BY <1>3, FreeLabels DEF CreateFacts
<1>11. \A g \in Callers : pc'[g] \in {"new", "refused"}
  BY <1>1, <1>2, <1>3 DEF Before, XInv, CallerFacts
<1>12. CallerFacts'
  BY <1>2, <1>11 DEF CallerFacts, UpLabels
<1>13. QED
  BY <1>7, <1>8, <1>9, <1>10, <1>12 DEF XInv

\* startTransientUnit, or the unit is there already.
LEMMA StartTransientReal ==
    ASSUME Around, NEW a \in {"su_do", "su_again"}, NEW STATE f,
           StartTransientUnit("create", a, f),
           Exited(state') => \E b : b = f /\ CreateAt(b)'
    PROVE  XInv'
<1>1. /\ pc["create"] = a /\ recorded' \in {recorded, NoObs}
      /\ UNCHANGED <<state, phase, box, exitEvent, owe, file, signals, obs, ctxDone,
                     tracked>>
  BY DEF StartTransientUnit, At, proc, maps, event, unitVars
<1>2. CreateAt(a) /\ Before /\ UNCHANGED scenario /\ ~BusErrors /\ ~LostReplies
  BY <1>1, CreateIs DEF Before, XInv, Undisturbed, BusErrors, LostReplies
<1>3. CASE unit.st = "absent"
  <2>1. Moves("create", a, "su_job") /\ unit' = NewUnit
    BY <1>1, <1>2, <1>3 DEF StartTransientUnit, Moves
  <2>2. QED
    BY <1>1, <1>3, <2>1, MakeReal
<1>4. CASE unit.st # "absent"
  <2>1. Moves("create", a, f) /\ UNCHANGED unit
    BY <1>1, <1>2, <1>4 DEF StartTransientUnit, Moves
  <2>2. Exited(state)
    BY <1>2, <1>4 DEF CreateAt, LostLabels, Untouched
  <2>3. PICK b : b = f /\ CreateAt(b)'
    BY <1>1, <2>2
  <2>4. Learned
    BY <1>1, <1>2, SameClaims, NothingLearned
  <2>5. SeenFacts'
    BY <1>1, <1>2, <2>2 DEF SeenFacts, Before, XInv
  <2>6. Looks
    BY <1>1, <1>2, <1>4, <2>1, <2>4, <2>5 DEF Looks, Untouched
  <2>7. Moves("create", a, b)
    BY <2>1, <2>3
  <2>8. QED
    BY <1>2, <2>3, <2>6, <2>7, CreateLooks
<1>5. QED
  BY <1>3, <1>4

\* A look of Create, and a call it makes.
LEMMA CreateGoes ==
    ASSUME Around, NEW a, NEW b, Moves("create", a, b), a # "ok", CreateAt(b)',
           \/ Looks
           \/ Kills /\ (unit.st = "starting" => Exited(state) \/ UNCHANGED unit)
    PROVE  XInv'
BY CreateLooks, CreateKillsUnit DEF Around

\* do() starts the unit, once more after runc delete.
LEMMA StartsTwiceReal ==
    ASSUME Around, StartsTwice("create")
    PROVE  XInv'
<1>1. CASE StartTransientUnit("create", "su_do", "su_clean")
  BY <1>1, StartTransientReal, LostAfter DEF LostLabels
<1>2. CASE Calls("create", "su_clean", RuncKill, "su_again")
  <2>1. Moves("create", "su_clean", "su_again") /\ Kills /\ UNCHANGED state
    BY <1>2, CallsKill DEF Kills
  <2>2. Exited(state)
    BY <2>1, CreateIs DEF Moves, CreateAt, LostLabels
  <2>3. CreateAt("su_again")'
    BY <2>1, <2>2, LostAfter DEF LostLabels
  <2>4. QED
    BY <2>1, <2>2, <2>3, CreateGoes
<1>3. CASE StartTransientUnit("create", "su_again", DoFailed)
  <2>1. Exited(state') => \E b : b = DoFailed /\ CreateAt(b)'
    BY DoFailedAt DEF Known
  <2>2. QED
    BY <1>3, <2>1, StartTransientReal
<1>4. QED
  BY <1>1, <1>2, <1>3 DEF StartsTwice

\* The job of the unit ends.
LEMMA JobReal ==
    ASSUME Around, JobDone("create") \/ JobFailed("create") \/ JobCancelled("create")
                   \/ JobChecked("create")
    PROVE  XInv'
<1>1. "create" \in Handlers /\ Before /\ UNCHANGED scenario /\ ~BusErrors
  BY Names DEF Around, Before, XInv, Undisturbed, BusErrors
<1>2. CASE JobDone("create")
  <2>1. Known
    BY <1>1, <1>2 DEF JobDone, Before, XInv, UnitFacts
  <2>2. PICK f : f = DoFailed
    OBVIOUS
  <2>3. Loads("create", "su_job", "su_check", f)
    BY <1>2, <2>2 DEF JobDone
  <2>4. /\ \/ Moves("create", "su_job", "su_check")
           \/ Moves("create", "su_job", f) /\ Exited(state)
        /\ Looks
        /\ Exited(state') \/ (file = RunObs /\ state'.pid > 0)
    BY <1>1, <2>1, <2>3, LoadsLooks
  <2>5. CASE Moves("create", "su_job", "su_check")
    <3>1. CreateAt("su_check")'
      BY <2>4 DEF CreateAt, LostLabels, TornLabels, RanLabels, Looks, RunObs, Obs
    <3>2. QED
      BY <2>4, <2>5, <3>1, CreateGoes
  <2>6. CASE Moves("create", "su_job", f) /\ Exited(state)
    <3>1. Known'
      BY <2>4, <2>6 DEF Known, Looks, Learned
    <3>2. CreateAt(f)'
      BY <2>2, <3>1, DoFailedAt
    <3>3. QED
      BY <2>4, <2>6, <3>2, CreateGoes
  <2>7. QED
    BY <2>4, <2>5, <2>6
<1>3. CASE JobFailed("create")
  <2>1. PICK f : f = DoFailed
    OBVIOUS
  <2>2. Branch("create", "su_job", unit.job = "failed", f)
    BY <1>3, <2>1 DEF JobFailed
  <2>3. Moves("create", "su_job", f) /\ Looks /\ unit.job = "failed" /\ UNCHANGED state
    BY <1>1, <2>2, BranchLooks
  <2>4. Known'
    BY <1>1, <2>3 DEF Before, XInv, UnitFacts, Known, Looks
  <2>5. CreateAt(f)'
    BY <2>1, <2>4, DoFailedAt
  <2>6. QED
    BY <2>3, <2>5, CreateGoes
<1>4. CASE JobCancelled("create")
  BY <1>1, <1>4 DEF JobCancelled
<1>5. CASE JobChecked("create")
  <2>1. PICK f : f = IF Exited(state) THEN DoFailed ELSE "su_pid2"
    OBVIOUS
  <2>2. Branch("create", "su_check", TRUE, f)
    BY <1>5, <2>1 DEF JobChecked
  <2>3. Moves("create", "su_check", f) /\ Looks /\ UNCHANGED state
    BY <1>1, <2>2, BranchLooks
  <2>4. Exited(state) \/ file = RunObs
    BY <2>3, CreateIs DEF Moves, CreateAt
  <2>5. Known'
    BY <2>3, <2>4, FileObs DEF Known, Looks
  <2>6. CreateAt(f)'
    <3>1. CreateAt("su_pid2")'
      BY <2>5 DEF CreateAt, LostLabels, TornLabels, RanLabels
    <3>2. QED
      BY <2>1, <2>5, <3>1, DoFailedAt
  <2>7. QED
    BY <2>3, <2>6, CreateGoes
<1>6. QED
  BY <1>2, <1>3, <1>4, <1>5

\* handlePid ends with the pid of a container that is set up, or with an exit.
LEMMA HandlePidReal ==
    ASSUME Around, handlePid("create")
    PROVE  XInv'
<1>1. "create" \in Handlers /\ Before /\ UNCHANGED scenario /\ ctxDone = FALSE
  BY Names DEF Around, Before, XInv, UnitFacts
<1>2. ASSUME NEW a \in {"su_pid1", "su_pid2"}, NEW b \in {"su_loop1", "su_loop2"},
             Loads("create", a, b, b)
      PROVE  XInv'
  <2>1. pc["create"] = a
    BY <1>2 DEF Loads, At
  <2>2. Known
    BY <2>1, CreateIs DEF CreateAt
  <2>3. /\ Moves("create", a, b) /\ Looks
        /\ Exited(state') \/ (file = RunObs /\ state'.pid > 0)
    BY <1>1, <1>2, <2>2, LoadsLooks
  <2>4. CreateAt(b)'
    BY <2>3 DEF CreateAt, LostLabels, TornLabels, RanLabels, Looks, RunObs, Obs
  <2>5. QED
    BY <2>3, <2>4, CreateGoes
<1>3. ASSUME NEW l \in {"su_loop1", "su_loop2"}, state.pid = 0, ~Exited(state),
             Loads("create", l, l, l)
      PROVE  FALSE
  <2>1. pc["create"] = l
    BY <1>3 DEF Loads, At
  <2>2. QED
    BY <1>3, <2>1, CreateIs DEF CreateAt
<1>4. ASSUME NEW l \in {"su_loop1", "su_loop2"}, NEW e \in {"su_stop", "su_err"},
             Branch("create", l, TRUE, IF NoPid THEN e ELSE "su_ok")
      PROVE  XInv'
  <2>1. PICK b : b = IF NoPid THEN e ELSE "su_ok"
    OBVIOUS
  <2>2. Moves("create", l, b) /\ Looks /\ UNCHANGED state
    BY <1>1, <1>4, <2>1, BranchLooks
  <2>3. CreateAt(l)
    BY <2>2, CreateIs DEF Moves
  <2>4. CASE Exited(state)
    <3>1. b = e
      BY <2>1, <2>4 DEF NoPid
    <3>2. CreateAt(b)'
      BY <2>2, <2>4, <3>1, LostAfter, FreeLabels DEF LostLabels
    <3>3. QED
      BY <2>2, <3>2, CreateGoes
  <2>5. CASE ~Exited(state)
    <3>1. file = RunObs /\ state.pid > 0 /\ state.pid # 0
      <4>1. file = RunObs /\ state.pid > 0
        BY <2>3, <2>5 DEF CreateAt
      <4>2. QED
        BY <4>1
    <3>2. b = "su_ok"
      BY <1>1, <2>1, <2>5, <3>1 DEF NoPid
    <3>3. unit.st # "starting"
      BY <1>1, <2>5, <3>1, FileObs DEF Before, XInv, UnitFacts
    <3>4. CreateAt("su_ok")'
      BY <2>2, <2>5, <3>1, <3>3
         DEF CreateAt, LostLabels, TornLabels, RanLabels, Looks, RunObs, Obs
    <3>5. QED
      BY <2>2, <3>2, <3>4, CreateGoes
  <2>6. QED
    BY <2>4, <2>5
<1>5. QED
  BY <1>2, <1>3, <1>4 DEF handlePid

\* The unit of a first attempt that failed is stopped, released and made again.
LEMMA RetryReal ==
    ASSUME Around, StopForRetry("create") \/ Retry("create")
    PROVE  XInv'
<1>1. "create" \in Handlers /\ Before /\ UNCHANGED scenario /\ ~BusErrors /\ ctxDone = FALSE
  BY Names DEF Around, Before, XInv, UnitFacts, Undisturbed, BusErrors
<1>2. CASE Calls("create", "su_stop",
                 IF Alive THEN Dies(Killed) ELSE UNCHANGED <<unit, signals>>, "su_release")
  <2>2. Calls("create", "su_stop", KillUnit, "su_release")
    BY <1>2 DEF Calls, KillUnit
  <2>3. Moves("create", "su_stop", "su_release") /\ Kills /\ UNCHANGED state
    BY <2>2, CallsKill DEF Kills
  <2>4. Exited(state)
    BY <2>3, CreateIs DEF Moves, CreateAt, LostLabels
  <2>5. CreateAt("su_release")'
    BY <2>3, <2>4, LostAfter DEF LostLabels
  <2>6. QED
    BY <2>3, <2>4, <2>5, CreateGoes
<1>3. CASE Calls("create", "su_release", releaseUnit, "su_rdel1")
  <2>1. pc["create"] = "su_release"
    BY <1>3 DEF Calls, At
  <2>2. Exited(state)
    BY <2>1, CreateIs DEF CreateAt, LostLabels
  <2>3. Moves("create", "su_release", "su_rdel1") /\ Kills /\ UNCHANGED state
    BY <1>3, <2>2, CallsRelease
  <2>4. CreateAt("su_rdel1")'
    BY <2>2, <2>3, LostAfter DEF LostLabels
  <2>5. QED
    BY <2>2, <2>3, <2>4, CreateGoes
<1>4. CASE /\ At("create", "su_rdel1")
           /\ RuncKill
           /\ attempt' = 2
           /\ Goto("create", "su_do")
           /\ UNCHANGED <<proc, deleting, recorded, maps, event, file, work, obs, ctxDone>>
  <2>1. /\ Moves("create", "su_rdel1", "su_do") /\ RuncKill
        /\ UNCHANGED <<state, phase, box, exitEvent, owe, file, recorded, obs, ctxDone,
                       scenario, tracked>>
    BY <1>1, <1>4 DEF At, Moves, proc, maps, event
  <2>2. UNCHANGED <<unit, signals>> \/ (Alive /\ Dies(Killed))
    BY <2>1 DEF RuncKill, Alive
  <2>3. Kills
    BY <2>1, <2>2 DEF Kills, Killed
  <2>4. Exited(state)
    BY <2>1, CreateIs DEF Moves, CreateAt, LostLabels
  <2>5. CreateAt("su_do")'
    BY <2>1, <2>4, LostAfter
  <2>6. QED
    BY <2>1, <2>3, <2>4, <2>5, CreateGoes
<1>5. CASE Calls("create", "su_rdel2", RuncKill, "su_err")
  <2>1. Moves("create", "su_rdel2", "su_err") /\ Kills /\ RuncKill
    BY <1>5, CallsKill
  <2>2. unit.st = "starting" => UNCHANGED unit
    BY <2>1 DEF RuncKill
  <2>3. QED
    BY <2>1, <2>2, FreeLabels, CreateGoes
<1>6. QED
  BY <1>1, <1>2, <1>3, <1>4, <1>5 DEF StopForRetry, Retry, Branch

\* Create registers the process.
LEMMA RegisterReal ==
    ASSUME Around, Register
    PROVE  XInv'
<1>1. "create" \in Handlers /\ Before /\ UNCHANGED scenario /\ ~scenario.checkpoint
  BY Names DEF Around, Before, XInv, Undisturbed
<1>2. PICK b \in {"su_do", "su_err"} : Moves("create", "new", b)
  BY <1>1 DEF Register, At, Moves
<1>3. /\ UNCHANGED <<unit, file, signals, recorded, ctxDone, scenario, state, exitEvent,
                     obs, box, owe, phase>>
      /\ pc["create"] = "new"
  BY <1>1 DEF Register, At, proc, event, sysd, unitVars
<1>4. Looks
  BY <1>1, <1>3, SameClaims, QuietLooks
<1>5. CreateAt(b)'
  <2>1. CreateAt("new")
    BY <1>3, CreateIs
  <2>2. CreateAt("su_do")'
    BY <1>3, <2>1 DEF CreateAt, LostLabels, TornLabels, RanLabels, Untouched
  <2>3. QED
    BY <2>2, FreeLabels
<1>6. QED
  BY <1>2, <1>4, <1>5, CreateGoes

\* A Create that failed is torn down without being looked at again.
LEMMA TornAfter ==
    ASSUME Exited(state'), ~tracked', NEW b \in TornLabels
    PROVE  CreateAt(b)'
BY DEF CreateAt, LostLabels, TornLabels, RanLabels

\* What Create knows when it tears its container down,
LEMMA TornNow ==
    ASSUME Around, pc["create"] \in TornLabels
    PROVE  Exited(state) /\ ~tracked
BY CreateIs DEF CreateAt

\* and goes on to know.
LEMMA TornGoes ==
    ASSUME Around, NEW a \in TornLabels, NEW b \in TornLabels, Moves("create", a, b),
           Looks \/ Kills, UNCHANGED <<state, tracked>>
    PROVE  XInv'
<1>1. Exited(state) /\ ~tracked
  BY TornNow DEF Moves
<1>2. CreateAt(b)'
  BY <1>1, TornAfter
<1>3. a # "ok"
  BY DEF TornLabels
<1>4. QED
  BY <1>1, <1>2, <1>3, CreateGoes

\* initProcess.Delete for a Create that failed.
LEMMA CreateDeleteReal ==
    ASSUME Around, Delete("create")
    PROVE  XInv'
<1>1. "create" \in Handlers /\ Before /\ UNCHANGED scenario /\ ~BusErrors
  BY Names DEF Around, Before, XInv, Undisturbed, BusErrors
<1>2. \A a \in {"d_check", "d_set", "d_mark", "d_stop", "d_runc", "d_wait", "d_finish",
                "d_release", "d_ok"} : a \in TornLabels
  BY DEF TornLabels
<1>3. CASE DeleteChecks("create")
  <2>1. CASE Branch("create", "d_check", Exited(state), "d_mark")
    <3>1. Moves("create", "d_check", "d_mark") /\ Looks /\ UNCHANGED <<state, tracked>>
      BY <1>1, <2>1, BranchLooks
    <3>2. QED
      BY <1>2, <3>1, TornGoes
  <2>2. CASE MergeRead("create", "d_set", "d_mark")
    <3>1. Moves("create", "d_set", "d_mark") /\ Looks /\ UNCHANGED tracked
      BY <1>1, <2>2, MergeReadLooks
    <3>2. Exited(state) /\ ~tracked
      BY <1>2, <3>1, TornNow DEF Moves
    <3>3. CreateAt("d_mark")'
      BY <1>2, <3>1, <3>2, TornAfter DEF Looks, Learned
    <3>4. QED
      BY <3>1, <3>2, <3>3, CreateGoes
  <2>3. CASE At("create", "d_check") /\ ~Exited(state)
    BY <1>2, <2>3, TornNow DEF At
  <2>4. QED
    BY <1>3, <2>1, <2>2, <2>3 DEF DeleteChecks
<1>4. CASE markDeleting("create", "d_mark", "d_stop")
  <2>1. Moves("create", "d_mark", "d_stop") /\ Looks /\ UNCHANGED <<state, tracked>>
    BY <1>1, <1>4, MarkLooks
  <2>2. QED
    BY <1>2, <2>1, TornGoes
<1>5. CASE DeleteStops("create")
  <2>1. ~Fails("create", "d_runc")
    BY <1>1 DEF Fails
  <2>2. CASE Calls("create", "d_stop", KillUnit, "d_runc")
    <3>1. Moves("create", "d_stop", "d_runc") /\ Kills /\ UNCHANGED <<state, tracked>>
      BY <2>2, CallsKill DEF Kills
    <3>2. QED
      BY <1>2, <3>1, TornGoes
  <2>3. CASE Calls("create", "d_runc", RuncKill, "d_wait")
    <3>1. Moves("create", "d_runc", "d_wait") /\ Kills /\ UNCHANGED <<state, tracked>>
      BY <2>3, CallsKill DEF Kills
    <3>2. QED
      BY <1>2, <3>1, TornGoes
  <2>4. QED
    BY <1>5, <2>1, <2>2, <2>3 DEF DeleteStops
<1>6. CASE DeleteWaits("create")
  <2>1. ~Fails("create", "d_wait")
    BY <1>1 DEF Fails
  <2>2. Branch("create", "d_wait",
               state.pid = 0 \/ phase = "deleted" \/ Exited(state), "d_finish")
    BY <1>6, <2>1 DEF DeleteWaits
  <2>3. Moves("create", "d_wait", "d_finish") /\ Looks /\ UNCHANGED <<state, tracked>>
    BY <1>1, <2>2, BranchLooks
  <2>4. QED
    BY <1>2, <2>3, TornGoes
<1>7. CASE finishDelete("create")
  <2>1. ASSUME At("create", "d_finish"), phase' = advance(phase, "deleted"),
               owe' = IF advanced(phase, "deleted")
                      THEN [owe EXCEPT !["create"] = {"TaskDelete"}] ELSE owe,
               Goto("create", "d_release"),
               UNCHANGED <<state, deleting, recorded, maps, box, exitEvent, sysd, work,
                           obs, unitVars>>
        PROVE  XInv'
    <3>1. Moves("create", "d_finish", "d_release")
      BY <2>1 DEF Moves, At
    <3>2. Looks /\ UNCHANGED <<state, tracked>>
      BY <1>1, <1>2, <2>1, FinishDeleteLooks, TornNow DEF At
    <3>3. QED
      BY <1>2, <3>1, <3>2, TornGoes
  <2>2. CASE Calls("create", "d_release", releaseUnit, "d_ok")
    <3>1. pc["create"] = "d_release"
      BY <2>2 DEF Calls, At
    <3>2. Exited(state)
      BY <1>2, <3>1, TornNow
    <3>3. Moves("create", "d_release", "d_ok") /\ Kills /\ UNCHANGED <<state, tracked>>
      BY <2>2, <3>2, CallsRelease
    <3>4. QED
      BY <1>2, <3>3, TornGoes
  <2>3. QED
    BY <1>7, <2>1, <2>2 DEF finishDelete
<1>8. QED
  BY <1>3, <1>4, <1>5, <1>6, <1>7 DEF Delete

\* What Create knows once the container is set up goes on to hold.
LEMMA RanGoes ==
    ASSUME Around, NEW a \in {"su_ok", "c_set", "c_send"},
           NEW b \in {"c_set", "c_send", "ok"}, Moves("create", a, b), Looks
    PROVE  XInv'
<1>1. /\ a \in RanLabels /\ b \in RanLabels /\ a # "ok"
      /\ b \notin LostLabels \union TornLabels
      /\ b \notin {"new", "su_do", "su_pid1", "su_pid2", "su_check", "su_loop1", "su_loop2"}
  BY DEF RanLabels, LostLabels, TornLabels
<1>2. file = RunObs /\ state.pid > 0 /\ unit.st # "starting"
  BY <1>1, CreateIs DEF Moves, CreateAt
<1>3. state'.pid > 0 /\ (Exited(state') => ~Alive)
  BY <1>1, <1>2 DEF Looks, Learned, Moves
<1>4. CreateAt(b)'
  BY <1>1, <1>2, <1>3 DEF CreateAt, Looks, RunObs, Obs, Alive
<1>5. QED
  BY <1>1, <1>4, CreateGoes

\* The state of a start that failed.
LEMMA FailedExited ==
    failedState \in pStates /\ Exited(failedState) /\ ~(failedState.pid > 0)
<1>1. failedState = [exitedAt |-> 1, exitCode |-> 255, pid |-> 0, status |-> "failed"]
  BY DEF failedState, Synthetic, Obs
<1>2. failedState \in pStates
  BY <1>1 DEF pStates, Statuses, Stopped
<1>3. QED
  BY <1>1, <1>2 DEF Exited, toStatus, Created, Running, Stopped

\* The end of a Create that failed.
LEMMA CreateFails ==
    ASSUME Around, NEW a \in {"c_fail", "c_fail2"}, NEW b \in {"c_fail2", "c_untrack"},
           Sets("create", a, failedState, b)
    PROVE  XInv'
<1>1. "create" \in Handlers /\ Before /\ UNCHANGED scenario /\ pc["create"] = a
  BY Names DEF Around, Sets, At
<1>2. a \notin RanLabels /\ a # "ok" /\ b \in LostLabels
  BY DEF RanLabels, LostLabels
<1>3. \A g \in Starters : pc[g] \notin UpLabels
  BY <1>1 DEF Before, XInv, CallerFacts, Callers, UpLabels
<1>4. Moves("create", a, b) /\ Looks /\ Exited(state')
  BY <1>1, <1>2, <1>3, FailedExited, SetsLooks
<1>5. CreateAt(b)'
  BY <1>2, <1>4, LostAfter
<1>6. QED
  BY <1>2, <1>4, <1>5, CreateGoes

\* The end of Create.
LEMMA CreateEndsReal ==
    ASSUME Around, CreateEnds
    PROVE  XInv'
<1>1. "create" \in Handlers /\ Before /\ UNCHANGED scenario
  BY Names DEF Around
<1>2. CASE Branch("create", "su_ok", TRUE, "c_set")
  BY <1>1, <1>2, BranchLooks, RanGoes
<1>3. CASE Sets("create", "c_set", Obs(0, 0, state.pid, "created"), "c_send")
  <2> DEFINE s == Obs(0, 0, state.pid, "created")
  <2>1. state \in pStates
    BY <1>1 DEF Before, RInv, Types, Observed
  <2>2. s \in pStates /\ s.pid = state.pid
    BY <2>1 DEF Obs, pStates, Statuses, Created
  <2>3. ~Exited(s)
    BY DEF Obs, Exited, toStatus, Created, Running, Stopped
  <2> HIDE DEF s
  <2>4. Sets("create", "c_set", s, "c_send")
    BY <1>3 DEF s
  <2>5. Moves("create", "c_set", "c_send") /\ Looks
    BY <1>1, <2>2, <2>3, <2>4, SetsLooks
  <2>6. QED
    BY <2>5, RanGoes
<1>4. CASE Sends("create", "c_send", "TaskCreate", "ok")
  BY <1>1, <1>4, SendsLooks, RanGoes
<1>5. CASE Calls("create", "su_err", RuncKill, "c_fail")
  <2>1. Moves("create", "su_err", "c_fail") /\ Kills /\ RuncKill
    BY <1>5, CallsKill
  <2>2. unit.st = "starting" => UNCHANGED unit
    BY <2>1 DEF RuncKill
  <2>3. QED
    BY <2>1, <2>2, FreeLabels, CreateGoes
<1>6. CASE \/ Sets("create", "c_fail", failedState, "c_fail2")
           \/ Sets("create", "c_fail2", failedState, "c_untrack")
  BY <1>6, CreateFails
<1>7. CASE Untrack("create", "c_untrack", "d_check")
  <2>1. Moves("create", "c_untrack", "d_check") /\ Looks /\ UNCHANGED state /\ ~tracked'
    BY <1>1, <1>7, UntrackLooks
  <2>2. Exited(state)
    BY <2>1, CreateIs DEF Moves, CreateAt, LostLabels
  <2>3. CreateAt("d_check")'
    BY <2>1, <2>2, TornAfter DEF TornLabels
  <2>4. QED
    BY <2>1, <2>3, CreateGoes
<1>8. CASE \E l \in {"d_ok", "d_err", "refused"} : Branch("create", l, TRUE, "failed")
  <2>1. PICK l \in {"d_ok", "d_err", "refused"} : Branch("create", l, TRUE, "failed")
    BY <1>8
  <2>2. Moves("create", l, "failed") /\ Looks /\ UNCHANGED <<state, tracked>>
    BY <1>1, <2>1, BranchLooks
  <2>3. QED
    BY <2>2, TornGoes DEF TornLabels
<1>9. QED
  BY <1>2, <1>3, <1>4, <1>5, <1>6, <1>7, <1>8 DEF CreateEnds

\* Service.Create.
LEMMA CreateReal ==
    ASSUME Around, Create
    PROVE  XInv'
BY RegisterReal, StartsTwiceReal, JobReal, HandlePidReal, RetryReal, CreateDeleteReal,
   CreateEndsReal DEF Create, startUnit

-----------------------------------------------------------------------------
\* The create helper sets the container up, or fails.
LEMMA HelperReal ==
    ASSUME Around, Helper
    PROVE  XInv'
<1>1. Before /\ UNCHANGED scenario /\ Faults = {}
  BY DEF Around, Before, XInv, Undisturbed
<1>2. /\ unit.st = "starting"
      /\ UNCHANGED <<state, phase, box, exitEvent, owe, recorded, obs, ctxDone, tracked,
                     pc>>
  BY DEF Helper, proc, maps, event, unitVars
<1>3. unit \in Units /\ Starters \subseteq Callers /\ Callers \subseteq Handlers
  BY <1>1, Names DEF Before, RInv, Types, Callers
<1>4. file' \in {RunObs, FailObs} /\ file' # NoObs /\ RunObs' = RunObs /\ FailObs' = FailObs
  BY <1>1, FileObs DEF Helper, RunObs, FailObs, Obs
<1>5. /\ unit'.code = unit'.real /\ unit'.helper # "rewriting" /\ unit'.job # "none"
      /\ unit'.st \in {"running", "dead"} /\ unit'.ref = unit.ref
      /\ signals' \in {signals, signals \union {NoObs}}
      /\ unit'.st = "running" => file' = RunObs
  <2>1. DeathSignals(HelperFailed) = {NoObs}
    BY <1>2 DEF DeathSignals
  <2>2. CASE /\ unit' = [unit EXCEPT !.st = "running", !.job = "done", !.helper = "handoff"]
             /\ file' = Obs(0, 0, 1, "running")
             /\ UNCHANGED signals
    BY <1>1, <1>3, <2>2 DEF Before, XInv, UnitFacts, Units, RunObs
  <2>3. CASE Dies(HelperFailed)
    BY <1>3, <2>1, <2>3 DEF Dies, DiesAs, Units
  <2>4. QED
    BY <1>1, <2>2, <2>3 DEF Helper
<1>6. Undisturbed' /\ PhaseFacts' /\ Exited(state') = Exited(state)
  BY <1>1, <1>2 DEF Before, XInv, Undisturbed, Faults, PhaseFacts
<1>7. pc["create"] \notin RanLabels \union {"new", "su_do"} \/ Exited(state)
  BY <1>1, <1>2 DEF Before, XInv, CreateFacts, CreateAt, RanLabels, Untouched
<1>8. pc["create"] \notin RanLabels
  BY <1>1, <1>2 DEF Before, XInv, CreateFacts, CreateAt
<1>9. file = NoObs \/ Exited(state)
  BY <1>1, <1>2 DEF Before, XInv, UnitFacts
<1>10. UnitFacts'
  <2>1. Known'
    BY <1>4 DEF Known
  <2>2. QED
    BY <1>1, <1>2, <1>4, <1>5, <1>6, <2>1 DEF Before, XInv, UnitFacts
<1>11. CreateFacts'
  <2>1. Known'
    BY <1>4 DEF Known
  <2>2. CreateAt(pc["create"])'
    BY <1>1, <1>2, <1>4, <1>7, <1>8, <1>9, <2>1, FileObs
       DEF Before, XInv, CreateFacts, CreateAt
  <2>3. QED
    BY <1>2, <2>2 DEF CreateFacts
<1>12. SeenFacts'
  <2>1. ASSUME ~Exited(state')
        PROVE  /\ \A s \in signals' \union {recorded'} : Truthful(s)'
               /\ \A g \in Handlers : Truthful(obs[g])'
    <3>1. ~Exited(state) /\ file = NoObs
      BY <1>6, <1>9, <2>1
    <3>2. \A g \in Handlers : obs'[g] = NoObs
      BY <1>1, <1>2, <3>1 DEF Before, XInv, SeenFacts
    <3>3. \A s \in signals \union {recorded} : s = NoObs \/ ~Exited(s)
      BY <1>1, <1>2, <3>1 DEF Before, XInv, SeenFacts, Truthful, Alive
    <3>4. QED
      BY <1>2, <1>5, <3>2, <3>3 DEF Truthful
  <2>2. QED
    BY <1>4, <2>1 DEF SeenFacts
<1>13. CallerFacts'
  <2>1. \A g \in Callers : pc'[g] \in {"new", "refused"}
    BY <1>1, <1>2, <1>8 DEF Before, XInv, CallerFacts, RanLabels
  <2>2. QED
    BY <1>3, <2>1 DEF CallerFacts, UpLabels
<1>14. QED
  BY <1>6, <1>10, <1>11, <1>12, <1>13 DEF XInv

\* A unit ends or goes away outside the shim.
LEMMA UnitEndsReal ==
    ASSUME Around, HandoffEnds \/ WorkloadExits(OwnCodes) \/ Collect \/ Kill
    PROVE  XInv'
<1>1. Before /\ UNCHANGED scenario /\ Faults = {} /\ ~BusErrors
  BY DEF Around, Before, XInv, Undisturbed, BusErrors
<1>2. UNCHANGED <<state, phase, box, exitEvent, owe, recorded, obs, ctxDone, tracked, pc,
                  file>>
  BY <1>1 DEF HandoffEnds, WorkloadExits, Collect, Kill, proc, maps, event, unitVars,
              procVars, shimVars, own, eventVars
<1>3. unit \in Units
  BY <1>1 DEF Before, RInv, Types
<1>4. CASE HandoffEnds
  <2>1. unit.st = "running" /\ unit' = [unit EXCEPT !.helper = "gone"] /\ UNCHANGED signals
    BY <1>1, <1>4 DEF HandoffEnds
  <2>2. Eases
    BY <1>3, <2>1 DEF Eases, Units
  <2>3. QED
    BY <1>1, <1>2, <2>1, <2>2, OutsideKillsUnit DEF Kills
<1>5. CASE WorkloadExits(OwnCodes)
  <2>1. unit.st = "running" /\ Alive /\ \E c \in Nat : Dies(c)
    BY <1>5 DEF WorkloadExits, OwnCodes, Alive
  <2>2. QED
    BY <1>1, <1>2, <2>1, OutsideKillsUnit DEF Kills
<1>6. CASE Collect
  <2>1. /\ unit.st = "dead" /\ ~unit.ref /\ unit' = [unit EXCEPT !.st = "absent"]
        /\ UNCHANGED signals
    BY <1>6 DEF Collect
  <2>2. Exited(state)
    BY <1>1, <2>1 DEF Before, XInv, UnitFacts
  <2>3. Eases
    BY <1>3, <2>1, <2>2 DEF Eases, Units, Alive
  <2>4. QED
    BY <1>1, <1>2, <2>1, <2>3, OutsideKillsUnit DEF Kills
<1>7. CASE Kill
  <2>1. state.pid > 0 /\ ~Exited(state) /\ KillUnit
    BY <1>7 DEF Kill
  <2>2. unit.st # "starting"
    BY <1>1, <2>1 DEF Before, XInv, UnitFacts, Known
  <2>3. UNCHANGED <<unit, signals>> \/ (Alive /\ Dies(Killed))
    BY <2>1 DEF KillUnit
  <2>4. Kills
    BY <1>1, <1>2, <2>3 DEF Kills, Killed
  <2>5. QED
    BY <1>1, <1>2, <2>2, <2>4, OutsideKillsUnit
<1>8. QED
  BY <1>4, <1>5, <1>6, <1>7

\* Everything outside the shim.
LEMMA EnvironmentReal ==
    ASSUME Around, Environment
    PROVE  XInv'
<1>1. ~HelperReports
  BY DEF HelperReports, Around, Before, XInv, UnitFacts
<1>2. QED
  BY <1>1, HelperReal, UnitEndsReal DEF Environment

\* The informer passes a signal on.
LEMMA InformerReal ==
    ASSUME Around, Informer
    PROVE  XInv'
<1>1. Before /\ UNCHANGED scenario
  BY DEF Around
<1>2. PICK s \in signals : /\ signals' = signals \ {s}
                           /\ recorded' \in {recorded, s}
  BY DEF Informer
<1>3. UNCHANGED <<state, phase, box, exitEvent, owe, obs, ctxDone, tracked, pc, file, unit>>
  BY DEF Informer, procVars, own, eventVars
<1>4. Learned
  BY <1>1, <1>3, SameClaims, NothingLearned
<1>5. \A x : Truthful(x)' <=> Truthful(x)
  BY <1>3 DEF Truthful, Alive
<1>6. SeenFacts'
  <2>1. \A x \in signals' \union {recorded'} : x \in signals \union {recorded}
    BY <1>2
  <2>2. QED
    BY <1>1, <1>3, <1>5, <2>1 DEF Before, XInv, SeenFacts, Truthful, Alive
<1>7. Looks
  BY <1>1, <1>2, <1>3, <1>4, <1>6 DEF Looks, Untouched
<1>8. QED
  BY <1>1, <1>3, <1>7, OutsideLooks

\* A handler sends what it owes.
LEMMA OwedReal ==
    ASSUME Around, NEW h \in Handlers, SendOwed(h)
    PROVE  XInv'
<1>1. /\ Before /\ UNCHANGED scenario
      /\ owe \in [Handlers -> SUBSET {"TaskExit", "TaskDelete"}]
  BY DEF Around, Before, OInv, OTypes
<1>2. PICK e \in owe[h] : box' = Outbox!Sent(box, e)
  BY DEF SendOwed
<1>3. /\ owe' = [owe EXCEPT ![h] = {}]
      /\ UNCHANGED <<state, phase, exitEvent, obs, ctxDone, tracked, pc, file, unit,
                     signals, recorded>>
  BY DEF SendOwed, procVars, shimVars, own, sysdVars
<1>4. Streamed' = Streamed \union {e}
  <2>1. box \in OP!Boxes /\ e \in EventKinds
    BY <1>1, <1>2 DEF Before, OInv, OTypes, EventKinds
  <2>2. QED
    BY <1>2, <2>1, SendsOnce
<1>5. Claimed' => Claimed
  <2>1. \A g \in Handlers : owe'[g] \subseteq owe[g]
    BY <1>1, <1>3
  <2>2. QED
    BY <1>2, <1>4, <2>1 DEF Claimed
<1>6. Looks
  BY <1>1, <1>3, <1>5, QuietLooks
<1>7. QED
  BY <1>1, <1>3, <1>6, OutsideLooks

-----------------------------------------------------------------------------
\* The invariant of an undisturbed behaviour.
RealInv == RInv /\ OInv /\ (Undisturbed => XInv)

\* There is no unit and no exit at first,
LEMMA InitReal == Init /\ Settled => RealInv
<1> SUFFICES ASSUME Init, Settled, Undisturbed PROVE XInv
  BY InitRInv, InitOInv DEF RealInv
<1>1. /\ tracked = FALSE /\ state = noState /\ phase = "created" /\ ctxDone = FALSE
      /\ file = NoObs /\ recorded = NoObs /\ signals = {}
      /\ unit = [st |-> "absent", code |-> 0, real |-> 0, ref |-> FALSE,
                 job |-> "none", helper |-> "gone"]
      /\ pc = [h \in Handlers |-> IF h = "reactor" THEN "idle" ELSE "new"]
      /\ obs = [h \in Handlers |-> NoObs]
  BY DEF Init, StepsInit
<1>2. ~Exited(state) /\ state.pid = 0
  <2>1. state.status = ""
    BY <1>1 DEF noState
  <2>2. toStatus(state.status) = "UNKNOWN"
    BY <2>1 DEF toStatus, Created, Running, Stopped
  <2>3. state.exitCode = 0 /\ state.exitedAt = 0 /\ state.pid = 0
    BY <1>1 DEF noState
  <2>4. QED
    BY <2>2, <2>3 DEF Exited
<1>3. pc["create"] = "new" /\ \A h \in Callers : pc[h] = "new"
  BY <1>1, Names
<1>4. UnitFacts
  BY <1>1, <1>2 DEF UnitFacts
<1>5. CreateFacts
  BY <1>1, <1>3 DEF CreateFacts, CreateAt, Untouched, LostLabels, TornLabels, RanLabels
<1>6. SeenFacts
  BY <1>1 DEF SeenFacts, Truthful
<1>7. PhaseFacts
  BY <1>1, <1>2 DEF PhaseFacts
<1>8. CallerFacts
  BY <1>3 DEF CallerFacts, Callers, UpLabels
<1>9. QED
  BY <1>4, <1>5, <1>6, <1>7, <1>8 DEF XInv

\* and every step keeps the invariant.
LEMMA NextReal == RealInv /\ [Next]_vars => RealInv'
<1> SUFFICES ASSUME RealInv, [Next]_vars PROVE RealInv'
  OBVIOUS
<1>1. RInv' /\ OInv'
  BY NextRInv, NextOInv DEF RealInv
<1>2. UNCHANGED scenario
  BY DEF Next, vars
<1>3. ASSUME Undisturbed' PROVE XInv'
  <2>1. Undisturbed
    BY <1>2, <1>3 DEF Undisturbed, Faults
  <2>2. Around
    BY <1>1, <1>2, <2>1 DEF Around, Before, RealInv
  <2>3. CASE UNCHANGED vars
    <3>1. UNCHANGED <<state, phase, box, owe, exitEvent, obs, ctxDone, tracked, pc, file,
                      unit, signals, recorded>>
      BY <2>3 DEF vars, proc, maps, event, sysd, unitVars
    <3>2. QED
      BY <2>2, <3>1, SameClaims, QuietLooks, OutsideLooks DEF Around
  <2>4. CASE Next
    BY <2>2, <2>4, EnvironmentReal, CreateReal, StartReal, ServiceDeleteReal, WaitReal,
       InformerReal, ReconcileReal, OwedReal DEF Next, Step
  <2>5. QED
    BY <2>3, <2>4
<1>4. QED
  BY <1>1, <1>3 DEF RealInv

\* So it always holds.
LEMMA RealAlways == Safe /\ Settled => []RealInv
BY InitReal, NextReal, PTL DEF Safe

\* What the invariant says of a Create that succeeded,
LEMMA RealPid == RealInv => CreatedHasPid
BY DEF RealInv, XInv, CreateFacts, CreateAt, RanLabels, CreatedHasPid

\* and of an exit containerd has heard of.
LEMMA RealExit == RealInv => ExitIsReal
<1> SUFFICES ASSUME RealInv, Undisturbed, Told("TaskExit")
             PROVE  ~Alive /\ exitEvent = unit.real
  BY DEF ExitIsReal
<1>1. XInv /\ OInv
  BY DEF RealInv
<1>2. box.out \in Seq(EventKinds) /\ OP!Sound(box)
  BY <1>1 DEF OInv, OTypes, Orderly, OP!Boxes
<1>3. "TaskExit" \in OP!ToSet(box.out)
  BY <1>2 DEF Told, OP!ToSet
<1>4. PICK e \in OP!ToSet(box.out) : e = "TaskStart"
  <2>1. \A x \in OP!ToSet(box.out) : [k \in EventKinds |-> k][x] = x
    BY <1>2 DEF OP!ToSet
  <2>2. QED
    BY <1>2, <1>3, <2>1 DEF OP!Sound
<1>5. "TaskStart" \in Streamed /\ "TaskExit" \in Streamed
  BY <1>3, <1>4 DEF Streamed, OP!Contents
<1>6. PICK h \in Starters : pc[h] = "ok"
  BY <1>1, <1>5 DEF OInv, Occasions
<1>7. h \in Callers
  BY DEF Callers
<1>8. pc["create"] = "ok"
  BY <1>1, <1>6, <1>7 DEF XInv, CallerFacts
<1>9. Claimed
  BY <1>5 DEF Claimed
<1>10. Exited(state)
  BY <1>1, <1>9, ClaimedEnded DEF XInv
<1>11. ~Alive
  BY <1>1, <1>8, <1>10 DEF XInv, CreateFacts, CreateAt, RanLabels
<1>12. exitEvent = unit.real
  BY <1>1, <1>6, <1>9 DEF XInv, CallerFacts, UpLabels
<1>13. QED
  BY <1>11, <1>12

\* A Create that succeeded knows the pid of its container, when no read fails and no
\* file is being rewritten, however Create's retries and the reactor interleave.
THEOREM CreatedContainerHasPid == Safe /\ Settled => []CreatedHasPid
BY RealAlways, RealPid, PTL

\* When containerd hears a TaskExit the unit is gone and the status is the one the
\* workload ended with, whoever saw the exit first and wherever, for any number of
\* calls made once Create has returned.
THEOREM TaskExitIsReal == Safe /\ Settled => []ExitIsReal
BY RealAlways, RealExit, PTL
=============================================================================
