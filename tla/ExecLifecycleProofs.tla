------------------------- MODULE ExecLifecycleProofs -------------------------
(***************************************************************************)
(* Proofs about ExecLifecycle, for any number of Starts and Deletes and    *)
(* whatever else happens: no unit is left behind that nobody releases, an  *)
(* exec that never had a unit has no exit, and, when nothing fails and     *)
(* nobody deletes the container, an exit that is published is real and, if *)
(* the client starts the exec once, follows every start.                   *)
(***************************************************************************)
EXTENDS ExecLifecycle, TLAPS

Callers == Starters \union Deleters

\* The labels of the goroutines that will still kill the unit if the exec is being
\* deleted, and of those that will still release it.
KillLabels == {"s_reset", "s_again", "s_job", "s_jobload", "s_load", "s_status", "s_pid",
               "s_done", "s_err", "s_abandon", "d_stop"}
RefLabels == KillLabels \union
             {"s_release", "d_pid", "d_wait", "d_finish", "d_remove", "d_files",
              "d_release", "k_release"}

\* A goroutine is at one of these only if it has marked the exec itself.
MarkedLabels == {"d_stop", "d_pid", "d_wait", "d_finish", "d_remove", "d_files",
                 "d_release", "d_again", "d_unindex", "k_release", "k_unindex"}

Units == [st : {"absent", "starting", "running", "dead"}, code : Nat,
          real : Nat, ref : BOOLEAN, job : {"none", "done", "failed"},
          helper : {"gone", "handoff", "rewriting"}]
Parents == [shared : BOOLEAN, alive : BOOLEAN, pid : BOOLEAN, ran : BOOLEAN,
            exited : BOOLEAN, deleting : BOOLEAN, tracked : BOOLEAN]

\* The types the argument needs.
Types ==
    /\ pc = [h \in Handlers |-> pc[h]]
    /\ unit \in Units /\ parent \in Parents
    /\ deleting \in BOOLEAN /\ execs \in BOOLEAN

\* Nobody calls an exec that Exec has not yet returned, and so it has no unit.
NotYet == pc["exec"] # "ok" =>
              /\ \A h \in Callers : pc[h] = "new"
              /\ unit.st = "absent" /\ ~unit.ref

\* Only who has marked the exec takes it out of the map.
Marked == \A h \in Handlers : pc[h] \in MarkedLabels => deleting

\* A registered exec stays in the map until somebody marks it.
Registered ==
    /\ pc["exec"] \in {"e_index", "e_check", "e_create", "e_send"} => execs
    /\ pc["exec"] = "ok" => execs \/ deleting

\* The deletion of the container announces itself before it looks for execs; an Exec that
\* did not see it has registered before, and is marked.
Announced ==
    /\ parent.deleting <=> pc["container"] # "new"
    /\ ~parent.tracked => pc["container"] = "ok"
    /\ pc["container"] # "new" => parent.exited
    /\ parent.exited => ~parent.alive
    /\ pc["exec"] \in {"e_create", "e_send", "ok"} =>
          \/ deleting
          \/ pc["container"] \in {"new", "k_runc", "k_lock", "k_each", "k_mark"}

\* runc has killed what ran in the container, and the helper starts nothing more in it.
RuncKilled == pc["container"] \notin {"new", "k_runc"} => unit.st # "running"

\* While an exec is marked, somebody is still going to release its unit and somebody is
\* going to kill it.
WillRelease == deleting /\ unit.ref => \E h \in Handlers : pc[h] \in RefLabels
WillKill ==
    deleting /\ ~BusErrors =>
        \/ ~Alive \/ (unit.st = "starting" /\ ~parent.alive)
        \/ \E h \in Handlers : pc[h] \in KillLabels

RInv == /\ Types /\ NotYet /\ Marked /\ Registered /\ Announced /\ RuncKilled
        /\ WillRelease /\ WillKill

-----------------------------------------------------------------------------
(***************************************************************************)
(* The steps as the argument sees them: who moves from which label to      *)
(* which, and what becomes of the marks, the map, the container and the    *)
(* unit.                                                                   *)
(***************************************************************************)
Moves(h, a, b) == pc[h] = a /\ Goto(h, b)
Static == UNCHANGED <<deleting, execs, parent, unit>>

\* The unit may die, and nothing else happens to it.
MayDie == /\ unit' \in Units /\ unit'.ref = unit.ref
          /\ \/ unit'.st = unit.st
             \/ unit'.st = "dead" /\ Alive

\* A branch only looks.
LEMMA BranchMove ==
    ASSUME NEW h, NEW a, NEW STATE c, NEW STATE b, Branch(h, a, c, b)
    PROVE  Moves(h, a, b) /\ Static /\ c
BY DEF Branch, Moves, Static, At, shimVars, own, sysdVars

\* Merging an observation changes nothing the argument is about,
LEMMA SetsMove ==
    ASSUME NEW h, NEW a, NEW b, NEW s, Sets(h, a, s, b)
    PROVE  Moves(h, a, b) /\ Static
BY DEF Sets, Moves, Static, At, shimVars, own, sysdVars

\* nor does moving the phase,
LEMMA AdvanceMove ==
    ASSUME NEW h, NEW a, NEW b, NEW n, Advance(h, a, n, b)
    PROVE  Moves(h, a, b) /\ Static
BY DEF Advance, Moves, Static, At, shimVars, own, sysdVars

\* sending an event,
LEMMA SendsMove ==
    ASSUME NEW h, NEW a, NEW b, NEW e, Sends(h, a, e, b)
    PROVE  Moves(h, a, b) /\ Static
BY DEF Sends, Moves, Static, At, shimVars, own, sysdVars

\* the index,
LEMMA IndexedMove ==
    ASSUME NEW h, NEW a, NEW b, NEW t, SetIndexed(h, a, t, b)
    PROVE  Moves(h, a, b) /\ Static
BY DEF SetIndexed, Moves, Static, At, sysd

\* the exit state file, a read of the exit, or the mutex.
LEMMA OtherMove ==
    ASSUME NEW h, NEW a, NEW b,
           \/ Loads(h, a, b) \/ ReadExit(h, a, b) \/ MergeRead(h, a, b)
           \/ Lock(h, a, b) \/ Unlock(h, a, b)
    PROVE  Moves(h, a, b) /\ Static
<1>1. CASE Loads(h, a, b)
  BY <1>1 DEF Loads, Moves, Static, At, maps, sysd
<1>2. CASE ReadExit(h, a, b)
  BY <1>2 DEF ReadExit, Moves, Static, At, shimVars, own, sysdVars
<1>3. CASE MergeRead(h, a, b)
  BY <1>3 DEF MergeRead, Moves, Static, At, shimVars, own, sysdVars
<1>4. CASE Lock(h, a, b)
  BY <1>4 DEF Lock, Moves, Static, At, sysd
<1>5. CASE Unlock(h, a, b)
  BY <1>5 DEF Unlock, Moves, Static, At, sysd
<1>6. QED
  BY <1>1, <1>2, <1>3, <1>4, <1>5

\* A unit that dies keeps its reference and has a start job that ended.
LEMMA DiesUnit ==
    ASSUME Types, NEW c \in Nat, NEW r \in Nat, DiesAs(c, r)
    PROVE  /\ unit' \in Units /\ unit'.ref = unit.ref /\ unit'.st = "dead"
           /\ unit'.job # "none"
<1>1. unit \in Units
  BY DEF Types, Units
<1>2. unit' = [unit EXCEPT !.st = "dead", !.code = c, !.real = r,
                           !.job = IF unit.job = "none" THEN "failed" ELSE unit.job,
                           !.helper = "gone"]
  BY DEF DiesAs
<1>3. QED
  BY <1>1, <1>2 DEF Units

\* What the calls that act on the unit do to it.
LEMMA Acts ==
    ASSUME Types
    PROVE  /\ KillUnit => MayDie /\ (BusErrors \/ unit'.st \notin {"starting", "running"})
           /\ RuncKill => MayDie /\ unit'.st # "running"
           /\ releaseUnit => unit' \in Units /\ ~unit'.ref /\ unit'.st = unit.st
<1>1. Dies(Killed) => unit' \in Units /\ unit'.ref = unit.ref /\ unit'.st = "dead"
  BY DiesUnit DEF Dies, Killed
<1>2. KillUnit => MayDie /\ (BusErrors \/ unit'.st \notin {"starting", "running"})
  BY <1>1 DEF KillUnit, MayDie, Alive, Types, Units
<1>3. RuncKill => MayDie /\ unit'.st # "running"
  BY <1>1 DEF RuncKill, MayDie, Alive, Types, Units
<1>4. releaseUnit => unit' \in Units /\ ~unit'.ref /\ unit'.st = unit.st
  BY DEF releaseUnit, Types, Units
<1>5. QED
  BY <1>2, <1>3, <1>4

\* A handler that calls systemd or runc does no more than that.
LEMMA CallsMove ==
    ASSUME NEW h, NEW a, NEW b, NEW ACTION A, Calls(h, a, A, b)
    PROVE  Moves(h, a, b) /\ UNCHANGED <<deleting, execs, parent>> /\ A
BY DEF Calls, Moves, At, shimVars, own

\* Who moves is where it goes, the others stay.
LEMMA Moved ==
    ASSUME Types, NEW h \in Handlers, NEW a, NEW b, Moves(h, a, b)
    PROVE  /\ pc[h] = a /\ pc' = [g \in Handlers |-> pc'[g]] /\ pc'[h] = b
           /\ \A g \in Handlers : g # h => pc'[g] = pc[g]
BY DEF Types, Moves, Goto

\* The names of the goroutines.
LEMMA Names ==
    /\ {"exec", "exit", "container", "reactor"} \subseteq Handlers
    /\ Callers \subseteq Handlers
    /\ \A h \in Callers : h \notin {"exec", "exit", "container", "reactor"}
BY CallersFresh DEF Handlers, Callers

-----------------------------------------------------------------------------
(***************************************************************************)
(* What a step must not do: take the last one away who will release or     *)
(* kill the unit.                                                          *)
(***************************************************************************)
\* h, which goes from a to b, does not leave the unit alone.
Minds(a, b) ==
    /\ deleting => deleting'
    /\ b \in MarkedLabels => a \in MarkedLabels \/ deleting'
    /\ deleting' /\ unit'.ref =>
          b \in RefLabels \/ (deleting /\ unit.ref /\ a \notin RefLabels)
    /\ deleting' /\ ~BusErrors /\ unit'.st \in {"starting", "running"} =>
          b \in KillLabels \/ (deleting /\ unit'.st = unit.st /\ a \notin KillLabels)

\* Then somebody still minds it after the step.
LEMMA StillMinded ==
    ASSUME RInv, UNCHANGED scenario, NEW h \in Handlers, NEW a, NEW b,
           Moves(h, a, b), Minds(a, b), parent'.alive => parent.alive
    PROVE  Marked' /\ WillRelease' /\ WillKill'
<1>1. /\ pc[h] = a /\ pc'[h] = b /\ \A g \in Handlers : g # h => pc'[g] = pc[g]
  BY Moved DEF RInv
<1>2. Marked'
  BY <1>1 DEF RInv, Marked, Minds
<1>3. WillRelease'
  <2> SUFFICES ASSUME deleting', unit'.ref
               PROVE  \E g \in Handlers : pc'[g] \in RefLabels
    BY DEF WillRelease
  <2>1. CASE b \in RefLabels
    BY <1>1, <2>1
  <2>2. CASE b \notin RefLabels
    <3>1. deleting /\ unit.ref /\ a \notin RefLabels
      BY <2>2 DEF Minds
    <3>2. PICK g \in Handlers : pc[g] \in RefLabels
      BY <3>1 DEF RInv, WillRelease
    <3>3. g # h
      BY <1>1, <3>1, <3>2
    <3>4. QED
      BY <1>1, <3>2, <3>3
  <2>3. QED
    BY <2>1, <2>2
<1>4. WillKill'
  <2> SUFFICES ASSUME deleting', ~BusErrors', unit'.st \in {"starting", "running"},
                      ~(unit'.st = "starting" /\ ~parent'.alive)
               PROVE  \E g \in Handlers : pc'[g] \in KillLabels
    BY DEF WillKill, Alive
  <2>1. CASE b \in KillLabels
    BY <1>1, <2>1
  <2>2. CASE b \notin KillLabels
    <3>1. ~BusErrors
      BY DEF BusErrors
    <3>2. deleting /\ unit'.st = unit.st /\ a \notin KillLabels
      BY <2>2, <3>1 DEF Minds
    <3>3. PICK g \in Handlers : pc[g] \in KillLabels
      BY <3>1, <3>2 DEF RInv, WillKill, Alive
    <3>4. g # h
      BY <1>1, <3>2, <3>3
    <3>5. QED
      BY <1>1, <3>3, <3>4
  <2>3. QED
    BY <2>1, <2>2
<1>5. QED
  BY <1>2, <1>3, <1>4

\* A step of a call on the exec keeps the invariant when it minds the unit, takes the
\* exec out of the map only when it is marked and starts nothing by itself.
LEMMA CallerKeeps ==
    ASSUME RInv, UNCHANGED scenario, NEW h \in Callers, NEW a, NEW b,
           Moves(h, a, b), pc["exec"] = "ok", UNCHANGED parent, Minds(a, b),
           unit' \in Units, deleting' \in BOOLEAN, execs' \in BOOLEAN,
           unit'.st = "running" => unit.st = "running",
           execs' = execs \/ deleting'
    PROVE  RInv'
<1>1. /\ h \in Handlers /\ {"exec", "container"} \subseteq Handlers
      /\ h \notin {"exec", "container"}
  BY Names
<1>2. /\ pc' = [g \in Handlers |-> pc'[g]] /\ pc'["exec"] = "ok"
      /\ pc'["container"] = pc["container"]
  BY <1>1, Moved DEF RInv
<1>3. Types'
  BY <1>2 DEF RInv, Types, Units
<1>4. NotYet'
  BY <1>2 DEF NotYet
<1>5. Registered'
  BY <1>2 DEF RInv, Registered, Minds
<1>6. Announced'
  BY <1>2 DEF RInv, Announced, Minds
<1>7. RuncKilled'
  BY <1>2 DEF RInv, RuncKilled
<1>8. Marked' /\ WillRelease' /\ WillKill'
  BY <1>1, StillMinded
<1>9. QED
  BY <1>3, <1>4, <1>5, <1>6, <1>7, <1>8 DEF RInv

\* A step that changes nothing but the label may leave the labels of those who release or
\* kill the unit only if the exec is not marked.
Passes(a, b) ==
    /\ a # "new"
    /\ a \in RefLabels => b \in RefLabels \/ ~deleting
    /\ a \in KillLabels => b \in KillLabels \/ ~deleting
    /\ b \in MarkedLabels => a \in MarkedLabels

\* Such a step of a call keeps the invariant.
LEMMA CallerWalks ==
    ASSUME RInv, UNCHANGED scenario, NEW h \in Callers, NEW a, NEW b,
           Moves(h, a, b), Static, Passes(a, b)
    PROVE  RInv'
<1>1. UNCHANGED <<deleting, execs, parent, unit>> /\ pc[h] = a
  BY DEF Static, Moves
<1>2. pc["exec"] = "ok"
  BY <1>1 DEF RInv, NotYet, Passes
<1>3. Types
  BY DEF RInv
<1>4. unit' \in Units /\ deleting' \in BOOLEAN /\ execs' \in BOOLEAN
  BY <1>1, <1>3 DEF Types, Units
<1>5. Minds(a, b)
  BY <1>1 DEF Minds, Passes
<1>6. QED
  BY <1>1, <1>2, <1>4, <1>5, CallerKeeps

\* The calls look the exec up.
LEMMA LookupKeeps ==
    ASSUME RInv, UNCHANGED scenario, NEW h \in Callers, NEW f \in {"s_begin", "d_check"},
           Lookup(h, f)
    PROVE  RInv'
<1>1. CASE /\ h \in scenario.callers /\ pc["exec"] = "ok"
           /\ Branch(h, "new", TRUE, IF parent.tracked THEN "get" ELSE "refused")
  <2>1. PICK b \in {"get", "refused"} : Branch(h, "new", TRUE, b)
    BY <1>1
  <2>2. Moves(h, "new", b) /\ UNCHANGED <<deleting, execs, parent, unit>>
    BY <2>1, BranchMove DEF Static
  <2>3. Types
    BY DEF RInv
  <2>4. unit' \in Units /\ deleting' \in BOOLEAN /\ execs' \in BOOLEAN
    BY <2>2, <2>3 DEF Types, Units
  <2>5. "new" \notin RefLabels /\ "new" \notin KillLabels /\ b \notin MarkedLabels
    BY DEF RefLabels, KillLabels, MarkedLabels
  <2>6. Minds("new", b)
    BY <2>2, <2>5 DEF Minds
  <2>7. QED
    BY <1>1, <2>2, <2>4, <2>6, CallerKeeps
<1>2. CASE Branch(h, "get", mu = "nobody", IF execs THEN f ELSE "refused")
  <2>1. PICK b \in {f, "refused"} : Branch(h, "get", mu = "nobody", b)
    BY <1>2
  <2>2. Moves(h, "get", b) /\ Static
    BY <2>1, BranchMove
  <2>3. Passes("get", b)
    BY DEF Passes, RefLabels, KillLabels, MarkedLabels
  <2>4. QED
    BY <2>2, <2>3, CallerWalks
<1>3. QED
  BY <1>1, <1>2 DEF Lookup

-----------------------------------------------------------------------------
(***************************************************************************)
(* The steps of Start.                                                     *)
(***************************************************************************)
\* The claim and the look at the container.
LEMMA BeginsKeeps ==
    ASSUME RInv, UNCHANGED scenario, NEW h \in Callers, StartBegins(h)
    PROVE  RInv'
<1>1. CASE Advance(h, "s_begin", "starting", "s_parent")
  <2>1. Moves(h, "s_begin", "s_parent") /\ Static
    BY <1>1, AdvanceMove
  <2>2. Passes("s_begin", "s_parent")
    BY DEF Passes, RefLabels, KillLabels, MarkedLabels
  <2>3. QED
    BY <2>1, <2>2, CallerWalks
<1>2. CASE Branch(h, "s_begin", ~canBecome(phase, "starting"), "s_unindex")
  <2>1. Moves(h, "s_begin", "s_unindex") /\ Static
    BY <1>2, BranchMove
  <2>2. Passes("s_begin", "s_unindex")
    BY DEF Passes, RefLabels, KillLabels, MarkedLabels
  <2>3. QED
    BY <2>1, <2>2, CallerWalks
<1>3. CASE Branch(h, "s_parent", parent.pid, "s_do")
  <2>1. Moves(h, "s_parent", "s_do") /\ Static
    BY <1>3, BranchMove
  <2>2. Passes("s_parent", "s_do")
    BY DEF Passes, RefLabels, KillLabels, MarkedLabels
  <2>3. QED
    BY <2>1, <2>2, CallerWalks
<1>4. CASE Branch(h, "s_parent", ~parent.pid \/ BusErrors, "s_abort")
  <2>1. Moves(h, "s_parent", "s_abort") /\ Static
    BY <1>4, BranchMove
  <2>2. Passes("s_parent", "s_abort")
    BY DEF Passes, RefLabels, KillLabels, MarkedLabels
  <2>3. QED
    BY <2>1, <2>2, CallerWalks
<1>5. QED
  BY <1>1, <1>2, <1>3, <1>4 DEF StartBegins

\* Who makes a unit is among those who mind it.
LEMMA MakeKeeps ==
    ASSUME RInv, UNCHANGED scenario, NEW h \in Callers,
           NEW a \in {"s_do", "s_again"}, NEW f \in {"s_reset", "s_err"},
           StartTransientUnit(h, a, f)
    PROVE  RInv'
<1>1. /\ UNCHANGED <<deleting, parent, execs>>
      /\ \E b \in {"s_job", f} : Moves(h, a, b)
      /\ unit' = NewUnit \/ unit' = unit
  BY DEF StartTransientUnit, Moves, At, maps
<1>2. Types
  BY DEF RInv
<1>3. unit' \in Units /\ deleting' \in BOOLEAN /\ execs' \in BOOLEAN
  BY <1>1, <1>2 DEF Types, Units, NewUnit
<1>4. unit'.st = "running" => unit.st = "running"
  BY <1>1, <1>2 DEF Types, Units, NewUnit
<1>5. PICK b \in {"s_job", f} : Moves(h, a, b)
  BY <1>1
<1>6. b \in KillLabels /\ b \in RefLabels /\ b \notin MarkedLabels
  BY DEF KillLabels, RefLabels, MarkedLabels
<1>7. Minds(a, b)
  BY <1>1, <1>6 DEF Minds
<1>8. pc["exec"] = "ok"
  BY <1>5 DEF RInv, NotYet, Moves
<1>9. QED
  BY <1>1, <1>3, <1>4, <1>5, <1>7, <1>8, CallerKeeps

\* The second try.
LEMMA TwiceKeeps ==
    ASSUME RInv, UNCHANGED scenario, NEW h \in Callers, StartsTwice(h)
    PROVE  RInv'
<1>1. CASE StartTransientUnit(h, "s_do", "s_reset")
  BY <1>1, MakeKeeps
<1>2. CASE Branch(h, "s_reset", unit.st # "absent", "s_again")
  <2>1. Moves(h, "s_reset", "s_again") /\ Static
    BY <1>2, BranchMove
  <2>2. Passes("s_reset", "s_again")
    BY DEF Passes, RefLabels, KillLabels, MarkedLabels
  <2>3. QED
    BY <2>1, <2>2, CallerWalks
<1>3. CASE Branch(h, "s_reset", unit.st = "absent" \/ BusErrors, "s_err")
  <2>1. Moves(h, "s_reset", "s_err") /\ Static
    BY <1>3, BranchMove
  <2>2. Passes("s_reset", "s_err")
    BY DEF Passes, RefLabels, KillLabels, MarkedLabels
  <2>3. QED
    BY <2>1, <2>2, CallerWalks
<1>4. CASE StartTransientUnit(h, "s_again", "s_err")
  BY <1>4, MakeKeeps
<1>5. QED
  BY <1>1, <1>2, <1>3, <1>4 DEF StartsTwice

\* A call that kills or stops the unit, and is going to release it.
LEMMA KillKeeps ==
    ASSUME RInv, UNCHANGED scenario, NEW h \in Callers, NEW a, NEW b,
           Calls(h, a, KillUnit, b),
           a # "new", b \in RefLabels, b \in MarkedLabels => a \in MarkedLabels
    PROVE  RInv'
<1>1. Moves(h, a, b) /\ UNCHANGED <<deleting, execs, parent>> /\ KillUnit
  BY CallsMove
<1>2. Types
  BY DEF RInv
<1>3. MayDie /\ (BusErrors \/ unit'.st \notin {"starting", "running"})
  BY <1>1, <1>2, Acts
<1>4. deleting' \in BOOLEAN /\ execs' \in BOOLEAN
  BY <1>1, <1>2 DEF Types
<1>5. Minds(a, b)
  BY <1>1, <1>3 DEF Minds
<1>6. unit' \in Units /\ (unit'.st = "running" => unit.st = "running")
  BY <1>3 DEF MayDie
<1>7. pc["exec"] = "ok"
  BY <1>1 DEF RInv, NotYet, Moves
<1>8. QED
  BY <1>1, <1>4, <1>5, <1>6, <1>7, CallerKeeps

\* A call that releases the unit and is not the one to kill it.
LEMMA ReleaseKeeps ==
    ASSUME RInv, UNCHANGED scenario, NEW h \in Callers, NEW a, NEW b,
           Calls(h, a, releaseUnit, b),
           a # "new", a \notin KillLabels, b \in MarkedLabels => a \in MarkedLabels
    PROVE  RInv'
<1>1. Moves(h, a, b) /\ UNCHANGED <<deleting, execs, parent>> /\ releaseUnit
  BY CallsMove
<1>2. Types
  BY DEF RInv
<1>3. unit' \in Units /\ ~unit'.ref /\ unit'.st = unit.st
  BY <1>1, <1>2, Acts
<1>4. deleting' \in BOOLEAN /\ execs' \in BOOLEAN
  BY <1>1, <1>2 DEF Types
<1>5. Minds(a, b)
  BY <1>1, <1>3 DEF Minds
<1>6. pc["exec"] = "ok"
  BY <1>1 DEF RInv, NotYet, Moves
<1>7. QED
  BY <1>1, <1>3, <1>4, <1>5, <1>6, CallerKeeps

\* The job, and the exit it may have ended with.
LEMMA JobKeeps ==
    ASSUME RInv, UNCHANGED scenario, NEW h \in Callers, Job(h)
    PROVE  RInv'
<1>1. CASE Branch(h, "s_job", unit.job = "done", "s_load")
  <2>1. Moves(h, "s_job", "s_load") /\ Static
    BY <1>1, BranchMove
  <2>2. Passes("s_job", "s_load")
    BY DEF Passes, RefLabels, KillLabels, MarkedLabels
  <2>3. QED
    BY <2>1, <2>2, CallerWalks
<1>2. CASE Loads(h, "s_job", "s_jobload")
  <2>1. Moves(h, "s_job", "s_jobload") /\ Static
    BY <1>2, OtherMove
  <2>2. Passes("s_job", "s_jobload")
    BY DEF Passes, RefLabels, KillLabels, MarkedLabels
  <2>3. QED
    BY <2>1, <2>2, CallerWalks
<1>3. CASE Branch(h, "s_jobload", TRUE,
                  IF Exited(state) /\ state.exitCode = 255 THEN "s_err" ELSE "s_load")
  <2>1. PICK b \in {"s_err", "s_load"} : Branch(h, "s_jobload", TRUE, b)
    BY <1>3
  <2>2. Moves(h, "s_jobload", b) /\ Static
    BY <2>1, BranchMove
  <2>3. Passes("s_jobload", b)
    BY DEF Passes, RefLabels, KillLabels, MarkedLabels
  <2>4. QED
    BY <2>2, <2>3, CallerWalks
<1>4. CASE Calls(h, "s_job", KillUnit, "s_load")
  BY <1>4, KillKeeps DEF RefLabels, KillLabels, MarkedLabels
<1>5. QED
  BY <1>1, <1>2, <1>3, <1>4 DEF Job

\* Whether the exec came to run, and its pid.
LEMMA LoadsKeeps ==
    ASSUME RInv, UNCHANGED scenario, NEW h \in Callers, StartLoads(h)
    PROVE  RInv'
<1>1. CASE Loads(h, "s_load", "s_status")
  <2>1. Moves(h, "s_load", "s_status") /\ Static
    BY <1>1, OtherMove
  <2>2. Passes("s_load", "s_status")
    BY DEF Passes, RefLabels, KillLabels, MarkedLabels
  <2>3. QED
    BY <2>1, <2>2, CallerWalks
<1>2. CASE Branch(h, "s_status", TRUE, IF state.status = exitedInit THEN "s_err" ELSE "s_pid")
  <2>1. PICK b \in {"s_err", "s_pid"} : Branch(h, "s_status", TRUE, b)
    BY <1>2
  <2>2. Moves(h, "s_status", b) /\ Static
    BY <2>1, BranchMove
  <2>3. Passes("s_status", b)
    BY DEF Passes, RefLabels, KillLabels, MarkedLabels
  <2>4. QED
    BY <2>2, <2>3, CallerWalks
<1>3. CASE Branch(h, "s_pid", ~HasPid, "s_err")
  <2>1. Moves(h, "s_pid", "s_err") /\ Static
    BY <1>3, BranchMove
  <2>2. Passes("s_pid", "s_err")
    BY DEF Passes, RefLabels, KillLabels, MarkedLabels
  <2>3. QED
    BY <2>1, <2>2, CallerWalks
<1>4. CASE /\ At(h, "s_pid") /\ HasPid
           /\ state' = [state EXCEPT !.pid = 1]
           /\ Goto(h, "s_done")
           /\ UNCHANGED <<phase, deleting, recorded, parent, maps, event, sysd, work, obs>>
  <2>1. Moves(h, "s_pid", "s_done") /\ Static
    BY <1>4 DEF Moves, Static, At, maps, sysd
  <2>2. Passes("s_pid", "s_done")
    BY DEF Passes, RefLabels, KillLabels, MarkedLabels
  <2>3. QED
    BY <2>1, <2>2, CallerWalks
<1>5. QED
  BY <1>1, <1>2, <1>3, <1>4 DEF StartLoads

\* A Start leaves the unit to itself only if nobody is deleting the exec, and else ends it.
LEMMA AbandonKeeps ==
    ASSUME RInv, UNCHANGED scenario, NEW h \in Callers,
           AbandonIfDeleting(h) \/ abandonStartedUnit(h)
    PROVE  RInv'
<1>1. CASE Branch(h, "s_done", TRUE, IF deleting THEN "s_abandon" ELSE "s_finish")
  <2>1. PICK b \in {"s_abandon", "s_finish"} :
            Branch(h, "s_done", TRUE, b) /\ (deleting => b = "s_abandon")
    BY <1>1
  <2>2. Moves(h, "s_done", b) /\ Static
    BY <2>1, BranchMove
  <2>3. Passes("s_done", b)
    BY <2>1 DEF Passes, RefLabels, KillLabels, MarkedLabels
  <2>4. QED
    BY <2>2, <2>3, CallerWalks
<1>2. CASE Branch(h, "s_err", TRUE, IF deleting THEN "s_abandon" ELSE "s_abort")
  <2>1. PICK b \in {"s_abandon", "s_abort"} :
            Branch(h, "s_err", TRUE, b) /\ (deleting => b = "s_abandon")
    BY <1>2
  <2>2. Moves(h, "s_err", b) /\ Static
    BY <2>1, BranchMove
  <2>3. Passes("s_err", b)
    BY <2>1 DEF Passes, RefLabels, KillLabels, MarkedLabels
  <2>4. QED
    BY <2>2, <2>3, CallerWalks
<1>3. CASE Calls(h, "s_abandon", KillUnit, "s_release")
  BY <1>3, KillKeeps DEF RefLabels, KillLabels, MarkedLabels
<1>4. CASE Calls(h, "s_release", releaseUnit, "s_abort")
  BY <1>4, ReleaseKeeps DEF KillLabels, MarkedLabels
<1>5. QED
  BY <1>1, <1>2, <1>3, <1>4 DEF AbandonIfDeleting, abandonStartedUnit

\* The end of a Start.
LEMMA EndKeeps ==
    ASSUME RInv, UNCHANGED scenario, NEW h \in Callers, abortStart(h) \/ finishStart(h, 1)
    PROVE  RInv'
<1>1. CASE Advance(h, "s_abort", "created", "s_unindex")
  <2>1. Moves(h, "s_abort", "s_unindex") /\ Static
    BY <1>1, AdvanceMove
  <2>2. Passes("s_abort", "s_unindex")
    BY DEF Passes, RefLabels, KillLabels, MarkedLabels
  <2>3. QED
    BY <2>1, <2>2, CallerWalks
<1>2. CASE SetIndexed(h, "s_unindex", FALSE, "failed")
  <2>1. Moves(h, "s_unindex", "failed") /\ Static
    BY <1>2, IndexedMove
  <2>2. Passes("s_unindex", "failed")
    BY DEF Passes, RefLabels, KillLabels, MarkedLabels
  <2>3. QED
    BY <2>1, <2>2, CallerWalks
<1>3. CASE Advance(h, "s_finish", "running", "s_state")
  <2>1. Moves(h, "s_finish", "s_state") /\ Static
    BY <1>3, AdvanceMove
  <2>2. Passes("s_finish", "s_state")
    BY DEF Passes, RefLabels, KillLabels, MarkedLabels
  <2>3. QED
    BY <2>1, <2>2, CallerWalks
<1>4. CASE Sets(h, "s_state", Obs(0, 0, 1, "running"), "s_send")
  <2>1. Moves(h, "s_state", "s_send") /\ Static
    BY <1>4, SetsMove
  <2>2. Passes("s_state", "s_send")
    BY DEF Passes, RefLabels, KillLabels, MarkedLabels
  <2>3. QED
    BY <2>1, <2>2, CallerWalks
<1>5. CASE Sends(h, "s_send", "TaskStart", "ok")
  <2>1. Moves(h, "s_send", "ok") /\ Static
    BY <1>5, SendsMove
  <2>2. Passes("s_send", "ok")
    BY DEF Passes, RefLabels, KillLabels, MarkedLabels
  <2>3. QED
    BY <2>1, <2>2, CallerWalks
<1>6. QED
  BY <1>1, <1>2, <1>3, <1>4, <1>5 DEF abortStart, finishStart

\* No step of a Start leaves the unit of a marked exec alone.
LEMMA StartKeeps ==
    ASSUME RInv, UNCHANGED scenario, NEW h \in Starters, Start(h)
    PROVE  RInv'
<1>1. h \in Callers
  BY DEF Callers
<1>2. QED
  BY <1>1, LookupKeeps, BeginsKeeps, TwiceKeeps, JobKeeps, LoadsKeeps, AbandonKeeps,
     EndKeeps DEF Start

-----------------------------------------------------------------------------
(***************************************************************************)
(* The steps of Delete.                                                    *)
(***************************************************************************)
\* The mark, whose maker is going to kill and release the unit.
LEMMA StopsKeeps ==
    ASSUME RInv, UNCHANGED scenario, NEW h \in Callers, DeleteStops(h)
    PROVE  RInv'
<1>1. CASE Branch(h, "d_check", TRUE, IF Live THEN "refused" ELSE "d_mark")
  <2>1. PICK b \in {"refused", "d_mark"} : Branch(h, "d_check", TRUE, b)
    BY <1>1
  <2>2. Moves(h, "d_check", b) /\ Static
    BY <2>1, BranchMove
  <2>3. Passes("d_check", b)
    BY DEF Passes, RefLabels, KillLabels, MarkedLabels
  <2>4. QED
    BY <2>2, <2>3, CallerWalks
<1>2. CASE markDeleting(h, "d_mark", "d_stop")
  <2>1. Moves(h, "d_mark", "d_stop") /\ UNCHANGED <<execs, parent, unit>> /\ deleting' = TRUE
    BY <1>2 DEF markDeleting, Moves, At, own, sysdVars
  <2>2. Types
    BY DEF RInv
  <2>3. unit' \in Units /\ deleting' \in BOOLEAN /\ execs' \in BOOLEAN
    BY <2>1, <2>2 DEF Types, Units
  <2>4. "d_stop" \in RefLabels /\ "d_stop" \in KillLabels
    BY DEF RefLabels, KillLabels
  <2>5. Minds("d_mark", "d_stop")
    BY <2>1, <2>4 DEF Minds
  <2>6. pc["exec"] = "ok"
    BY <2>1 DEF RInv, NotYet, Moves
  <2>7. QED
    BY <2>1, <2>3, <2>5, <2>6, CallerKeeps
<1>3. CASE Calls(h, "d_stop", KillUnit, "d_pid")
  BY <1>3, KillKeeps DEF RefLabels, KillLabels, MarkedLabels
<1>4. QED
  BY <1>1, <1>2, <1>3 DEF DeleteStops

\* The wait for the exit.
LEMMA WaitsKeeps ==
    ASSUME RInv, UNCHANGED scenario, NEW h \in Callers, DeleteWaits(h)
    PROVE  RInv'
<1>1. CASE Branch(h, "d_pid", TRUE, IF state.pid > 0 THEN "d_wait" ELSE "d_finish")
  <2>1. PICK b \in {"d_wait", "d_finish"} : Branch(h, "d_pid", TRUE, b)
    BY <1>1
  <2>2. Moves(h, "d_pid", b) /\ Static
    BY <2>1, BranchMove
  <2>3. Passes("d_pid", b)
    BY DEF Passes, RefLabels, KillLabels, MarkedLabels
  <2>4. QED
    BY <2>2, <2>3, CallerWalks
<1>2. CASE Branch(h, "d_wait", phase = "deleted" \/ Exited(state), "d_finish")
  <2>1. Moves(h, "d_wait", "d_finish") /\ Static
    BY <1>2, BranchMove
  <2>2. Passes("d_wait", "d_finish")
    BY DEF Passes, RefLabels, KillLabels, MarkedLabels
  <2>3. QED
    BY <2>1, <2>2, CallerWalks
<1>3. CASE Calls(h, "d_wait", releaseUnit, "failed")
  BY <1>3, ReleaseKeeps DEF KillLabels, MarkedLabels
<1>4. QED
  BY <1>1, <1>2, <1>3 DEF DeleteWaits

\* A call that has marked the exec takes it out of the map.
LEMMA RemoveKeeps ==
    ASSUME RInv, UNCHANGED scenario, NEW h \in Callers, NEW a, NEW b,
           SetExecs(h, a, FALSE, b), Passes(a, b), a \in MarkedLabels
    PROVE  RInv'
<1>1. Moves(h, a, b) /\ UNCHANGED <<deleting, parent, unit>> /\ execs' = FALSE
  BY DEF SetExecs, Moves, At, sysd
<1>2. pc["exec"] = "ok" /\ pc[h] = a
  BY <1>1 DEF RInv, NotYet, Moves, Passes
<1>3. Types /\ h \in Handlers
  BY Names DEF RInv
<1>4. unit' \in Units /\ deleting' \in BOOLEAN /\ execs' \in BOOLEAN
  BY <1>1, <1>3 DEF Types, Units
<1>5. deleting'
  BY <1>1, <1>2, <1>3 DEF RInv, Marked
<1>6. Minds(a, b)
  BY <1>1 DEF Minds, Passes
<1>7. QED
  BY <1>1, <1>2, <1>4, <1>5, <1>6, CallerKeeps

\* The end of a Delete.
LEMMA EndsKeeps ==
    ASSUME RInv, UNCHANGED scenario, NEW h \in Callers, DeleteEnds(h)
    PROVE  RInv'
<1>1. CASE Advance(h, "d_finish", "deleted", "d_remove")
  <2>1. Moves(h, "d_finish", "d_remove") /\ Static
    BY <1>1, AdvanceMove
  <2>2. Passes("d_finish", "d_remove")
    BY DEF Passes, RefLabels, KillLabels, MarkedLabels
  <2>3. QED
    BY <2>1, <2>2, CallerWalks
<1>2. CASE SetExecs(h, "d_remove", FALSE, "d_files")
  <2>1. Passes("d_remove", "d_files") /\ "d_remove" \in MarkedLabels
    BY DEF Passes, RefLabels, KillLabels, MarkedLabels
  <2>2. QED
    BY <1>2, <2>1, RemoveKeeps
<1>3. CASE /\ At(h, "d_files")
           /\ file' = NoObs
           /\ Goto(h, "d_release")
           /\ UNCHANGED <<proc, deleting, recorded, parent, maps, event, unit, signals,
                          work, obs>>
  <2>1. Moves(h, "d_files", "d_release") /\ Static
    BY <1>3 DEF Moves, Static, At, maps
  <2>2. Passes("d_files", "d_release")
    BY DEF Passes, RefLabels, KillLabels, MarkedLabels
  <2>3. QED
    BY <2>1, <2>2, CallerWalks
<1>4. CASE Calls(h, "d_release", releaseUnit, "d_again")
  BY <1>4, ReleaseKeeps DEF KillLabels, MarkedLabels
<1>5. CASE SetExecs(h, "d_again", FALSE, "d_unindex")
  <2>1. Passes("d_again", "d_unindex") /\ "d_again" \in MarkedLabels
    BY DEF Passes, RefLabels, KillLabels, MarkedLabels
  <2>2. QED
    BY <1>5, <2>1, RemoveKeeps
<1>6. CASE SetIndexed(h, "d_unindex", FALSE, "ok")
  <2>1. Moves(h, "d_unindex", "ok") /\ Static
    BY <1>6, IndexedMove
  <2>2. Passes("d_unindex", "ok")
    BY DEF Passes, RefLabels, KillLabels, MarkedLabels
  <2>3. QED
    BY <2>1, <2>2, CallerWalks
<1>7. QED
  BY <1>1, <1>2, <1>3, <1>4, <1>5, <1>6 DEF DeleteEnds

\* No step of a Delete leaves the unit alone before it is killed and released.
LEMMA DeleteKeeps ==
    ASSUME RInv, UNCHANGED scenario, NEW h \in Deleters, Delete(h)
    PROVE  RInv'
<1>1. h \in Callers
  BY DEF Callers
<1>2. QED
  BY <1>1, LookupKeeps, StopsKeeps, WaitsKeeps, EndsKeeps DEF Delete

-----------------------------------------------------------------------------
(***************************************************************************)
(* The steps of Exec.                                                      *)
(***************************************************************************)
ExecLabels == {"new", "e_add", "e_index", "e_check", "e_create", "e_unindex", "e_remove",
               "e_send", "ok", "failed", "refused"}

\* Exec comes to e_create only from a container that is not being deleted, to ok only
\* from there, and is in the map meanwhile.
LEMMA ExecWalks ==
    ASSUME RInv, UNCHANGED <<scenario, deleting, parent, unit>>, NEW a \in ExecLabels,
           NEW b \in ExecLabels, Moves("exec", a, b), execs' \in BOOLEAN, a # "ok",
           b \in {"e_index", "e_check", "e_create", "e_send", "ok"} => execs',
           b \in {"e_create", "e_send", "ok"} =>
              a \in {"e_create", "e_send"} \/ ~parent.deleting
    PROVE  RInv'
<1>1. /\ "exec" \in Handlers /\ "container" \in Handlers
      /\ \A h \in Callers : h \in Handlers /\ h # "exec"
  BY Names
<1>2. Types
  BY DEF RInv
<1>3. /\ pc["exec"] = a /\ pc' = [g \in Handlers |-> pc'[g]] /\ pc'["exec"] = b
      /\ \A g \in Handlers : g # "exec" => pc'[g] = pc[g]
  BY <1>1, <1>2, Moved
<1>4. pc'["container"] = pc["container"]
  BY <1>1, <1>3
<1>5. Types'
  BY <1>2, <1>3 DEF Types
<1>6. NotYet'
  BY <1>1, <1>3 DEF RInv, NotYet
<1>7. Registered'
  BY <1>3 DEF Registered
<1>8. Announced'
  <2>1. b \in {"e_create", "e_send", "ok"} =>
            \/ deleting
            \/ pc["container"] \in {"new", "k_runc", "k_lock", "k_each", "k_mark"}
    BY <1>3 DEF RInv, Announced
  <2>2. QED
    BY <1>3, <1>4, <2>1 DEF RInv, Announced
<1>9. RuncKilled'
  BY <1>4 DEF RInv, RuncKilled
<1>10. /\ a \notin RefLabels /\ a \notin KillLabels /\ b \notin MarkedLabels
  BY DEF ExecLabels, RefLabels, KillLabels, MarkedLabels
<1>11. Minds(a, b)
  BY <1>10 DEF Minds
<1>12. Marked' /\ WillRelease' /\ WillKill'
  BY <1>1, <1>11, StillMinded
<1>13. QED
  BY <1>5, <1>6, <1>7, <1>8, <1>9, <1>12 DEF RInv

\* Exec registers first, and looks at the container afterwards.
LEMMA ExecKeeps ==
    ASSUME RInv, UNCHANGED scenario, Exec
    PROVE  RInv'
<1>1. execs \in BOOLEAN
  BY DEF RInv, Types
<1>2. CASE Branch("exec", "new", TRUE, IF parent.tracked THEN "e_add" ELSE "refused")
  <2>1. PICK b \in {"e_add", "refused"} : Branch("exec", "new", TRUE, b)
    BY <1>2
  <2>2. Moves("exec", "new", b) /\ UNCHANGED <<deleting, execs, parent, unit>>
    BY <2>1, BranchMove DEF Static
  <2>3. QED
    BY <1>1, <2>2, ExecWalks DEF ExecLabels
<1>3. CASE SetExecs("exec", "e_add", TRUE, "e_index")
  <2>1. /\ Moves("exec", "e_add", "e_index") /\ UNCHANGED <<deleting, parent, unit>>
        /\ execs' = TRUE
    BY <1>3 DEF SetExecs, Moves, At, sysd
  <2>2. QED
    BY <2>1, ExecWalks DEF ExecLabels
<1>4. CASE SetIndexed("exec", "e_index", TRUE, "e_check")
  <2>1. Moves("exec", "e_index", "e_check") /\ UNCHANGED <<deleting, execs, parent, unit>>
    BY <1>4, IndexedMove DEF Static
  <2>2. execs
    BY <2>1 DEF RInv, Registered, Moves
  <2>3. QED
    BY <1>1, <2>1, <2>2, ExecWalks DEF ExecLabels
<1>5. CASE Branch("exec", "e_check", TRUE,
                  IF parent.deleting THEN "e_unindex" ELSE "e_create")
  <2>1. PICK b \in {"e_unindex", "e_create"} :
            Branch("exec", "e_check", TRUE, b) /\ (b = "e_create" => ~parent.deleting)
    BY <1>5
  <2>2. Moves("exec", "e_check", b) /\ UNCHANGED <<deleting, execs, parent, unit>>
    BY <2>1, BranchMove DEF Static
  <2>3. execs
    BY <2>2 DEF RInv, Registered, Moves
  <2>4. QED
    BY <1>1, <2>1, <2>2, <2>3, ExecWalks DEF ExecLabels
<1>6. ASSUME NEW b \in {"e_send", "e_unindex"}, Branch("exec", "e_create", TRUE, b)
      PROVE  RInv'
  <2>1. Moves("exec", "e_create", b) /\ UNCHANGED <<deleting, execs, parent, unit>>
    BY <1>6, BranchMove DEF Static
  <2>2. execs
    BY <2>1 DEF RInv, Registered, Moves
  <2>3. QED
    BY <1>1, <2>1, <2>2, ExecWalks DEF ExecLabels
<1>7. CASE SetIndexed("exec", "e_unindex", FALSE, "e_remove")
  <2>1. /\ Moves("exec", "e_unindex", "e_remove")
        /\ UNCHANGED <<deleting, execs, parent, unit>>
    BY <1>7, IndexedMove DEF Static
  <2>2. QED
    BY <1>1, <2>1, ExecWalks DEF ExecLabels
<1>8. CASE SetExecs("exec", "e_remove", FALSE, "failed")
  <2>1. /\ Moves("exec", "e_remove", "failed") /\ UNCHANGED <<deleting, parent, unit>>
        /\ execs' = FALSE
    BY <1>8 DEF SetExecs, Moves, At, sysd
  <2>2. QED
    BY <2>1, ExecWalks DEF ExecLabels
<1>9. CASE Sends("exec", "e_send", "TaskCreate", "ok")
  <2>1. Moves("exec", "e_send", "ok") /\ UNCHANGED <<deleting, execs, parent, unit>>
    BY <1>9, SendsMove DEF Static
  <2>2. execs
    BY <2>1 DEF RInv, Registered, Moves
  <2>3. QED
    BY <1>1, <2>1, <2>2, ExecWalks DEF ExecLabels
<1>10. QED
  BY <1>2, <1>3, <1>4, <1>5, <1>6, <1>7, <1>8, <1>9 DEF Exec, Registers

-----------------------------------------------------------------------------
(***************************************************************************)
(* The container's goroutines, the reactor and the world.                  *)
(***************************************************************************)
\* A step of another goroutine makes no unit and leaves the map alone.
LEMMA OtherKeeps ==
    ASSUME RInv, UNCHANGED <<scenario, execs>>, NEW h \in {"exit", "container", "reactor"},
           NEW a, NEW b, Moves(h, a, b), Minds(a, b), deleting' \in BOOLEAN,
           unit' \in Units, unit'.st = "absent" <=> unit.st = "absent",
           unit'.ref => unit.ref, parent' \in Parents, parent'.alive => parent.alive,
           Announced', RuncKilled'
    PROVE  RInv'
<1>1. /\ h \in Handlers /\ {"exec", "container"} \subseteq Handlers /\ h # "exec"
      /\ \A g \in Callers : g \in Handlers /\ g # h
  BY Names
<1>2. Types
  BY DEF RInv
<1>3. /\ pc' = [g \in Handlers |-> pc'[g]]
      /\ \A g \in Handlers : g # h => pc'[g] = pc[g]
  BY <1>1, <1>2, Moved
<1>4. Types'
  BY <1>2, <1>3 DEF Types, Units, Parents
<1>5. NotYet'
  BY <1>1, <1>3 DEF RInv, NotYet
<1>6. Registered'
  BY <1>1, <1>3 DEF RInv, Registered, Minds
<1>7. Marked' /\ WillRelease' /\ WillKill'
  BY <1>1, StillMinded
<1>8. QED
  BY <1>4, <1>5, <1>6, <1>7 DEF RInv

OtherLabels == {"new", "ok", "idle", "r_load", "r_read", "r_merge", "r_retry", "x_kill",
                "x_lock", "x_each", "x_load", "x_look", "x_reap", "x_unlock"}

\* The exit and the reactor have no say in the unit's end.
LEMMA BystanderKeeps ==
    ASSUME RInv, UNCHANGED <<scenario, execs, deleting>>, NEW h \in {"exit", "reactor"},
           NEW a \in OtherLabels, NEW b \in OtherLabels, Moves(h, a, b), MayDie,
           \/ UNCHANGED parent
           \/ ~parent.alive /\ parent' = [parent EXCEPT !.exited = TRUE]
    PROVE  RInv'
<1>1. h \in Handlers /\ "container" \in Handlers /\ "exec" \in Handlers
  BY Names
<1>2. Types
  BY DEF RInv
<1>3. pc'["container"] = pc["container"] /\ pc'["exec"] = pc["exec"]
  BY <1>1, <1>2, Moved
<1>4. /\ a \notin RefLabels /\ a \notin KillLabels /\ b \notin MarkedLabels
  BY DEF OtherLabels, RefLabels, KillLabels, MarkedLabels
<1>5. /\ unit' \in Units /\ unit'.ref = unit.ref
      /\ unit'.st \in {unit.st, "dead"} /\ (unit'.st = "absent" <=> unit.st = "absent")
  BY DEF MayDie, Alive
<1>6. Minds(a, b)
  BY <1>4, <1>5 DEF Minds
<1>7. /\ parent' \in Parents /\ parent'.alive = parent.alive
      /\ parent'.deleting = parent.deleting /\ parent'.tracked = parent.tracked
      /\ parent'.exited => parent.exited \/ ~parent.alive
      /\ parent.exited => parent'.exited
  BY <1>2 DEF Types, Parents
<1>8. Announced'
  BY <1>3, <1>7 DEF RInv, Announced
<1>9. RuncKilled'
  BY <1>3, <1>5 DEF RInv, RuncKilled
<1>10. deleting' \in BOOLEAN
  BY <1>2 DEF Types
<1>11. QED
  BY <1>5, <1>6, <1>7, <1>8, <1>9, <1>10, OtherKeeps

\* A step that leaves the unit alone lets it live.
LEMMA StaticLives ==
    ASSUME RInv, UNCHANGED unit
    PROVE  MayDie
BY DEF RInv, Types, MayDie, Units

\* The exit of init kills what is left, or moves on.
LEMMA KillsOrNot ==
    ASSUME NEW h, KillsAll(h)
    PROVE  \/ Calls(h, "x_kill", RuncKill, "x_lock")
           \/ /\ Branch(h, "x_kill", TRUE, "x_lock")
              /\ ~parent.ran \/ ~parent.shared \/ BusErrors
BY DEF KillsAll, Calls, Branch, sysdVars

\* The exit of the container with its sweep.
LEMMA ExitKeeps ==
    ASSUME RInv, UNCHANGED scenario, InitExits
    PROVE  RInv'
<1> DEFINE h == "exit"
<1>1. CASE /\ At(h, "new") /\ ~parent.alive
           /\ parent' = [parent EXCEPT !.exited = TRUE]
           /\ Goto(h, "x_kill")
           /\ UNCHANGED <<proc, deleting, recorded, maps, event, sysd, work, obs>>
  <2>1. Moves(h, "new", "x_kill") /\ UNCHANGED <<deleting, execs, unit>>
    BY <1>1 DEF Moves, At, maps, sysd
  <2>2. QED
    BY <1>1, <2>1, StaticLives, BystanderKeeps DEF OtherLabels
<1>2. CASE Calls(h, "x_kill", RuncKill, "x_lock")
  <2>1. Moves(h, "x_kill", "x_lock") /\ UNCHANGED <<deleting, execs, parent>> /\ RuncKill
    BY <1>2, CallsMove
  <2>2. MayDie
    BY <2>1, Acts DEF RInv
  <2>3. QED
    BY <2>1, <2>2, BystanderKeeps DEF OtherLabels
<1>3. ASSUME NEW a \in OtherLabels, NEW b \in OtherLabels, Moves(h, a, b), Static
      PROVE  RInv'
  BY <1>3, StaticLives, BystanderKeeps DEF Static
<1>4. CASE Lock(h, "x_lock", "x_each")
  BY <1>3, <1>4, OtherMove DEF OtherLabels
<1>5. CASE Branch(h, "x_each", TRUE, IF execs THEN "x_load" ELSE "x_unlock")
  <2>1. PICK b \in {"x_load", "x_unlock"} : Branch(h, "x_each", TRUE, b)
    BY <1>5
  <2>2. QED
    BY <1>3, <2>1, BranchMove DEF OtherLabels
<1>6. CASE Loads(h, "x_load", "x_look")
  BY <1>3, <1>6, OtherMove DEF OtherLabels
<1>7. CASE Branch(h, "x_look", TRUE,
                  IF beforeRunning(phase) \/ Exited(state) THEN "x_unlock" ELSE "x_reap")
  <2>1. PICK b \in {"x_unlock", "x_reap"} : Branch(h, "x_look", TRUE, b)
    BY <1>7
  <2>2. QED
    BY <1>3, <2>1, BranchMove DEF OtherLabels
<1>8. CASE Sets(h, "x_reap", Obs(1, Synthetic, 0, ""), "x_unlock")
  BY <1>3, <1>8, SetsMove DEF OtherLabels
<1>9. CASE Unlock(h, "x_unlock", "ok")
  BY <1>3, <1>9, OtherMove DEF OtherLabels
<1>10. CASE KillsAll(h)
  <2>1. CASE Branch(h, "x_kill", TRUE, "x_lock")
    BY <1>3, <2>1, BranchMove DEF OtherLabels
  <2>2. QED
    BY <1>2, <1>10, <2>1, KillsOrNot
<1>11. QED
  BY <1>1, <1>4, <1>5, <1>6, <1>7, <1>8, <1>9, <1>10 DEF InitExits, Sweep

\* The reactor.
LEMMA ReactorKeeps ==
    ASSUME RInv, UNCHANGED scenario, Reconcile(ReactorLoads)
    PROVE  RInv'
<1> DEFINE h == "reactor"
<1>1. ASSUME NEW a \in OtherLabels, NEW b \in OtherLabels, Moves(h, a, b), Static
      PROVE  RInv'
  BY <1>1, StaticLives, BystanderKeeps DEF Static
<1>2. CASE /\ At(h, "idle") /\ work
           /\ work' = FALSE
           /\ Goto(h, IF indexed /\ ~Exited(state) THEN "r_load" ELSE "idle")
           /\ UNCHANGED <<procVars, shimVars, eventVars, sysdVars, obs>>
  <2>1. PICK b \in {"r_load", "idle"} : Moves(h, "idle", b) /\ Static
    BY <1>2 DEF Moves, Static, At, shimVars, own, sysdVars
  <2>2. QED
    BY <1>1, <2>1 DEF OtherLabels
<1>3. CASE ReactorLoads
  BY <1>1, <1>3, OtherMove DEF ReactorLoads, OtherLabels
<1>4. CASE Branch(h, "r_read", Exited(state) \/ state.pid = 0, "idle")
  BY <1>1, <1>4, BranchMove DEF OtherLabels
<1>5. CASE ReadExit(h, "r_read", "r_merge")
  BY <1>1, <1>5, OtherMove DEF OtherLabels
<1>6. CASE MergeRead(h, "r_merge", "idle")
  BY <1>1, <1>6, OtherMove DEF OtherLabels
<1>7. CASE Branch(h, "r_merge", obs[h] = NoObs, "r_retry")
  BY <1>1, <1>7, BranchMove DEF OtherLabels
<1>8. CASE /\ At(h, "r_retry")
           /\ \E again \in BOOLEAN : work' = (work \/ again)
           /\ Goto(h, "idle")
           /\ UNCHANGED <<procVars, shimVars, eventVars, sysdVars, obs>>
  <2>1. Moves(h, "r_retry", "idle") /\ Static
    BY <1>8 DEF Moves, Static, At, shimVars, own, sysdVars
  <2>2. QED
    BY <1>1, <2>1 DEF OtherLabels
<1>9. QED
  BY <1>2, <1>3, <1>4, <1>5, <1>6, <1>7, <1>8 DEF Reconcile

ContainerLabels == {"new", "k_runc", "k_lock", "k_each", "k_mark", "k_release",
                    "k_unindex", "k_unlock", "k_untrack", "ok"}

\* The deletion of the container passes the sweep over the execs only when there is none
\* to mark.
LEMMA ContainerWalks ==
    ASSUME RInv, UNCHANGED scenario, NEW a \in ContainerLabels, NEW b \in ContainerLabels,
           Moves("container", a, b), Static, a \notin {"new", "k_runc", "k_release"},
           b \notin {"new", "k_runc", "k_release"},
           b = "k_unindex" => deleting,
           \/ b \in {"k_lock", "k_each", "k_mark"}
           \/ a \in {"k_unindex", "k_unlock", "k_untrack"}
           \/ ~execs,
           parent.tracked
    PROVE  RInv'
<1>1. UNCHANGED <<deleting, execs, parent, unit>> /\ "container" \in Handlers
      /\ "exec" \in Handlers
  BY Names DEF Static
<1>2. Types
  BY DEF RInv
<1>3. pc["container"] = a /\ pc'["container"] = b /\ pc'["exec"] = pc["exec"]
  BY <1>1, <1>2, Moved
<1>4. /\ a \notin RefLabels /\ a \notin KillLabels
  BY DEF ContainerLabels, RefLabels, KillLabels
<1>5. Minds(a, b)
  <2>1. b \in MarkedLabels => b = "k_unindex"
    BY DEF ContainerLabels, MarkedLabels
  <2>2. QED
    BY <1>1, <1>4, <2>1 DEF Minds
<1>6. Announced'
  <2>1. pc["exec"] \in {"e_create", "e_send", "ok"} =>
            deleting \/ b \in {"k_lock", "k_each", "k_mark"}
    BY <1>3 DEF RInv, Announced, Registered
  <2>2. QED
    BY <1>1, <1>3, <2>1 DEF RInv, Announced
<1>7. RuncKilled'
  BY <1>1, <1>3 DEF RInv, RuncKilled
<1>8. unit' \in Units /\ parent' \in Parents /\ deleting' \in BOOLEAN
  BY <1>1, <1>2 DEF Types, Units, Parents
<1>9. QED
  BY <1>1, <1>5, <1>6, <1>7, <1>8, OtherKeeps

\* The deletion of the container kills what runs in it, marks the exec and releases its
\* unit.
LEMMA ContainerKeeps ==
    ASSUME RInv, UNCHANGED scenario, ContainerDelete
    PROVE  RInv'
<1> DEFINE h == "container"
<1>1. Types /\ h \in Handlers /\ "exec" \in Handlers
  BY Names DEF RInv
<1>2. ASSUME NEW a, NEW b, Moves(h, a, b), a # "ok"
      PROVE  /\ pc[h] = a /\ pc'[h] = b /\ pc'["exec"] = pc["exec"] /\ parent.tracked
             /\ a # "new" => parent.exited /\ parent.deleting
  <2>1. pc[h] = a /\ pc'[h] = b /\ pc'["exec"] = pc["exec"]
    BY <1>1, <1>2, Moved
  <2>2. QED
    BY <1>2, <2>1 DEF RInv, Announced
<1>3. unit \in Units /\ parent \in Parents /\ deleting \in BOOLEAN
  BY <1>1 DEF Types, Units, Parents
<1>4. CASE /\ At(h, "new") /\ h \in scenario.callers /\ parent.exited
           /\ parent' = [parent EXCEPT !.deleting = TRUE]
           /\ Goto(h, "k_runc")
           /\ UNCHANGED <<proc, deleting, recorded, maps, event, sysd, work, obs>>
  <2>1. Moves(h, "new", "k_runc") /\ UNCHANGED <<deleting, execs, unit>>
    BY <1>4 DEF Moves, At, maps, sysd
  <2>2. pc'[h] = "k_runc" /\ pc'["exec"] = pc["exec"] /\ parent.tracked
    BY <1>2, <2>1
  <2>3. /\ parent' \in Parents /\ parent'.deleting /\ parent'.tracked
        /\ parent'.exited /\ parent'.alive = parent.alive
    BY <1>3, <1>4, <2>2 DEF Parents
  <2>4. Announced' /\ RuncKilled'
    BY <1>4, <2>1, <2>2, <2>3 DEF RInv, Announced, RuncKilled
  <2>5. Minds("new", "k_runc")
    BY <2>1 DEF Minds, RefLabels, KillLabels, MarkedLabels
  <2>6. QED
    BY <1>3, <2>1, <2>3, <2>4, <2>5, OtherKeeps
<1>5. CASE Calls(h, "k_runc", RuncKill, "k_lock")
  <2>1. Moves(h, "k_runc", "k_lock") /\ UNCHANGED <<deleting, execs, parent>> /\ RuncKill
    BY <1>5, CallsMove
  <2>2. /\ pc'[h] = "k_lock" /\ pc[h] = "k_runc" /\ pc'["exec"] = pc["exec"]
    BY <1>2, <2>1
  <2>3. /\ unit' \in Units /\ unit'.ref = unit.ref /\ unit'.st # "running"
        /\ unit'.st \in {unit.st, "dead"} /\ (unit'.st = "absent" <=> unit.st = "absent")
    BY <1>1, <2>1, Acts DEF MayDie, Alive
  <2>4. Announced' /\ RuncKilled'
    BY <2>1, <2>2, <2>3 DEF RInv, Announced, RuncKilled
  <2>5. /\ "k_runc" \notin RefLabels /\ "k_runc" \notin KillLabels
        /\ "k_lock" \notin MarkedLabels
    BY DEF RefLabels, KillLabels, MarkedLabels
  <2>6. Minds("k_runc", "k_lock")
    BY <2>1, <2>3, <2>5 DEF Minds
  <2>7. QED
    BY <1>3, <2>1, <2>3, <2>4, <2>6, OtherKeeps
<1>6. CASE Lock(h, "k_lock", "k_each")
  <2>1. Moves(h, "k_lock", "k_each") /\ Static
    BY <1>6, OtherMove
  <2>2. QED
    BY <1>2, <2>1, ContainerWalks DEF ContainerLabels
<1>7. CASE Branch(h, "k_each", TRUE, IF execs THEN "k_mark" ELSE "k_unlock")
  <2>1. PICK b \in {"k_mark", "k_unlock"} :
            Branch(h, "k_each", TRUE, b) /\ (b = "k_unlock" => ~execs)
    BY <1>7
  <2>2. Moves(h, "k_each", b) /\ Static
    BY <2>1, BranchMove
  <2>3. QED
    BY <1>2, <2>1, <2>2, ContainerWalks DEF ContainerLabels
<1>8. CASE markDeleting(h, "k_mark", "k_release")
  <2>1. /\ Moves(h, "k_mark", "k_release") /\ UNCHANGED <<execs, parent, unit>>
        /\ deleting' = TRUE
    BY <1>8 DEF markDeleting, Moves, At, own, sysdVars
  <2>2. /\ pc[h] = "k_mark" /\ pc'[h] = "k_release" /\ pc'["exec"] = pc["exec"]
        /\ parent.tracked /\ parent.exited /\ parent.deleting
    BY <1>2, <2>1
  <2>3. unit.st # "running" /\ ~parent.alive
    BY <2>2 DEF RInv, RuncKilled, Announced
  <2>4. Announced' /\ RuncKilled'
    BY <2>1, <2>2, <2>3 DEF RInv, Announced, RuncKilled
  <2>5. "k_release" \in RefLabels
    BY DEF RefLabels
  <2>6. Types'
    <3>1. pc' = [g \in Handlers |-> pc'[g]]
      BY <1>1, <2>1, Moved
    <3>2. QED
      BY <1>1, <2>1, <3>1 DEF Types
  <2>7. NotYet'
    <3>1. \A g \in Callers : g \in Handlers /\ g # h
      BY Names
    <3>2. \A g \in Callers : pc'[g] = pc[g]
      BY <1>1, <2>1, <3>1, Moved
    <3>3. QED
      BY <2>1, <2>2, <3>2 DEF RInv, NotYet
  <2>8. Marked' /\ WillRelease'
    BY <1>1, <2>1, <2>2, <2>5 DEF Marked, WillRelease
  <2>9. Registered' /\ WillKill'
    BY <2>1, <2>2, <2>3 DEF RInv, Registered, WillKill, Alive
  <2>10. QED
    BY <2>4, <2>6, <2>7, <2>8, <2>9 DEF RInv
<1>9. CASE Calls(h, "k_release", releaseUnit, "k_unindex")
  <2>1. Moves(h, "k_release", "k_unindex") /\ UNCHANGED <<deleting, execs, parent>>
        /\ releaseUnit
    BY <1>9, CallsMove
  <2>2. /\ pc[h] = "k_release" /\ pc'[h] = "k_unindex" /\ pc'["exec"] = pc["exec"]
        /\ parent.tracked /\ parent.exited /\ parent.deleting
    BY <1>2, <2>1
  <2>3. unit' \in Units /\ ~unit'.ref /\ unit'.st = unit.st
    BY <1>1, <2>1, Acts
  <2>4. "k_release" \in MarkedLabels /\ "k_release" \notin KillLabels
    BY DEF KillLabels, MarkedLabels
  <2>5. deleting
    BY <1>1, <2>2, <2>4 DEF RInv, Marked
  <2>6. Announced' /\ RuncKilled'
    BY <2>1, <2>2, <2>3, <2>5 DEF RInv, Announced, RuncKilled
  <2>7. Minds("k_release", "k_unindex")
    BY <2>1, <2>3, <2>4, <2>5 DEF Minds
  <2>8. QED
    BY <1>3, <2>1, <2>3, <2>6, <2>7, OtherKeeps
<1>10. CASE SetIndexed(h, "k_unindex", FALSE, "k_unlock")
  <2>1. Moves(h, "k_unindex", "k_unlock") /\ Static
    BY <1>10, IndexedMove
  <2>2. QED
    BY <1>2, <2>1, ContainerWalks DEF ContainerLabels
<1>11. CASE Unlock(h, "k_unlock", "k_untrack")
  <2>1. Moves(h, "k_unlock", "k_untrack") /\ Static
    BY <1>11, OtherMove
  <2>2. QED
    BY <1>2, <2>1, ContainerWalks DEF ContainerLabels
<1>12. CASE /\ At(h, "k_untrack")
            /\ parent' = [parent EXCEPT !.tracked = FALSE]
            /\ Goto(h, "ok")
            /\ UNCHANGED <<proc, deleting, recorded, maps, event, sysd, work, obs>>
  <2>1. Moves(h, "k_untrack", "ok") /\ UNCHANGED <<deleting, execs, unit>>
    BY <1>12 DEF Moves, At, maps, sysd
  <2>2. /\ pc[h] = "k_untrack" /\ pc'[h] = "ok" /\ pc'["exec"] = pc["exec"]
        /\ parent.exited /\ parent.deleting
    BY <1>2, <2>1
  <2>3. /\ parent' \in Parents /\ parent'.deleting /\ ~parent'.tracked
        /\ parent'.exited /\ parent'.alive = parent.alive
    BY <1>3, <1>12, <2>2 DEF Parents
  <2>4. Announced' /\ RuncKilled'
    BY <2>1, <2>2, <2>3 DEF RInv, Announced, RuncKilled
  <2>5. Minds("k_untrack", "ok")
    BY <2>1 DEF Minds, RefLabels, KillLabels, MarkedLabels
  <2>6. QED
    BY <1>3, <2>1, <2>3, <2>4, <2>5, OtherKeeps
<1>13. QED
  BY <1>4, <1>5, <1>6, <1>7, <1>8, <1>9, <1>10, <1>11, <1>12
     DEF ContainerDelete, SweepReleases

\* What happens outside: nothing moves, the unit comes to run only in a live container, and
\* neither a unit nor a reference is made.
LEMMA WorldKeeps ==
    ASSUME RInv, UNCHANGED <<scenario, pc, deleting, execs>>,
           unit' \in Units, unit'.ref = unit.ref,
           unit.st = "absent" => unit'.st = "absent",
           unit'.st \in {"starting", "running"} =>
              \/ unit'.st = unit.st
              \/ unit.st = "starting" /\ parent.alive,
           parent' \in Parents, parent'.alive => parent.alive,
           parent'.exited = parent.exited, parent'.deleting = parent.deleting,
           parent'.tracked = parent.tracked
    PROVE  RInv'
<1>1. Types'
  BY DEF RInv, Types, Units, Parents
<1>2. NotYet' /\ Marked' /\ Registered' /\ WillRelease'
  BY DEF RInv, NotYet, Marked, Registered, WillRelease
<1>3. Announced'
  BY DEF RInv, Announced
<1>4. RuncKilled'
  BY DEF RInv, RuncKilled, Announced
<1>5. WillKill'
  BY DEF RInv, WillKill, Alive, BusErrors
<1>6. QED
  BY <1>1, <1>2, <1>3, <1>4, <1>5 DEF RInv

\* systemd, runc, the helper, the informer and the outbox.
LEMMA OutsideKeeps ==
    ASSUME RInv, UNCHANGED scenario,
           \/ Helper \/ WorkloadExits(OwnCodes) \/ InitDies \/ ParentStarts \/ Collect
           \/ Informer \/ \E h \in Handlers : SendOwed(h)
    PROVE  RInv'
<1>1. Types /\ unit \in Units /\ parent \in Parents
  BY DEF RInv, Types, Units, Parents
<1>2. ASSUME NEW c \in Nat, NEW r \in Nat, DiesAs(c, r)
      PROVE  unit' \in Units /\ unit'.ref = unit.ref /\ unit'.st = "dead"
  BY <1>1, <1>2, DiesUnit
<1>3. CASE Helper
  <2>1. UNCHANGED <<pc, deleting, execs, parent>> /\ unit.st = "starting"
    BY <1>3 DEF Helper, maps
  <2>2. CASE parent.alive /\ unit' = [unit EXCEPT !.st = "running", !.job = "done"]
    <3>1. unit' \in Units /\ unit'.ref = unit.ref /\ unit'.st = "running"
      BY <1>1, <2>2 DEF Units
    <3>2. QED
      BY <1>1, <2>1, <2>2, <3>1, WorldKeeps
  <2>3. CASE \E c \in Nat, r \in Nat : DiesAs(c, r)
    <3>1. unit' \in Units /\ unit'.ref = unit.ref /\ unit'.st = "dead"
      BY <1>2, <2>3
    <3>2. QED
      BY <1>1, <2>1, <3>1, WorldKeeps
  <2>4. \/ parent.alive /\ unit' = [unit EXCEPT !.st = "running", !.job = "done"]
        \/ DiesAs(HelperFailed, HelperFailed)
        \/ \E c \in OwnCodes : DiesAs(IF c = 0 THEN 0 ELSE HelperFailed, c)
    BY <1>3 DEF Helper, Dies
  <2>5. HelperFailed \in Nat /\ OwnCodes \subseteq Nat /\ 0 \in Nat
    BY DEF HelperFailed, OwnCodes
  <2>6. QED
    BY <2>2, <2>3, <2>4, <2>5
<1>4. CASE WorkloadExits(OwnCodes)
  <2>1. /\ UNCHANGED <<pc, deleting, execs, parent>> /\ unit.st = "running"
        /\ \E c \in Nat, r \in Nat : DiesAs(c, r)
    BY <1>4 DEF WorkloadExits, shimVars, own, Dies, OwnCodes
  <2>2. unit' \in Units /\ unit'.ref = unit.ref /\ unit'.st = "dead"
    BY <1>2, <2>1
  <2>3. QED
    BY <1>1, <2>1, <2>2, WorldKeeps
<1>5. CASE InitDies
  <2>1. /\ UNCHANGED <<pc, deleting, execs>> /\ parent' = [parent EXCEPT !.alive = FALSE]
        /\ RuncKill \/ UNCHANGED unit
    BY <1>5 DEF InitDies, maps
  <2>2. /\ parent' \in Parents /\ ~parent'.alive /\ parent'.exited = parent.exited
        /\ parent'.deleting = parent.deleting /\ parent'.tracked = parent.tracked
    BY <1>1, <2>1 DEF Parents
  <2>3. MayDie
    BY <1>1, <2>1, Acts, StaticLives
  <2>4. /\ unit' \in Units /\ unit'.ref = unit.ref
        /\ unit.st = "absent" => unit'.st = "absent"
        /\ unit'.st \in {"starting", "running"} => unit'.st = unit.st
    BY <2>3 DEF MayDie, Alive
  <2>5. QED
    BY <2>1, <2>2, <2>4, WorldKeeps
<1>6. CASE ParentStarts
  <2>1. /\ UNCHANGED <<pc, deleting, execs, unit>>
        /\ \/ parent' = [parent EXCEPT !.pid = TRUE]
           \/ parent' = [parent EXCEPT !.ran = TRUE]
    BY <1>6 DEF ParentStarts, maps, sysd
  <2>2. /\ parent' \in Parents /\ parent'.alive = parent.alive
        /\ parent'.exited = parent.exited
        /\ parent'.deleting = parent.deleting /\ parent'.tracked = parent.tracked
    BY <1>1, <2>1 DEF Parents
  <2>3. QED
    BY <1>1, <2>1, <2>2, WorldKeeps
<1>7. CASE Collect
  <2>1. /\ UNCHANGED <<pc, deleting, execs, parent>>
        /\ unit' = [unit EXCEPT !.st = "absent"]
    BY <1>7 DEF Collect, shimVars, own
  <2>2. unit' \in Units /\ unit'.ref = unit.ref /\ unit'.st = "absent"
    BY <1>1, <2>1 DEF Units
  <2>3. QED
    BY <1>1, <2>1, <2>2, WorldKeeps
<1>8. CASE Informer
  <2>1. UNCHANGED <<pc, deleting, execs, parent, unit>>
    BY <1>8 DEF Informer, own
  <2>2. QED
    BY <1>1, <2>1, WorldKeeps
<1>9. ASSUME NEW h \in Handlers, SendOwed(h) PROVE RInv'
  <2>1. UNCHANGED <<pc, deleting, execs, parent, unit>>
    BY <1>9 DEF SendOwed, shimVars, own, sysdVars
  <2>2. QED
    BY <1>1, <2>1, WorldKeeps
<1>10. QED
  BY <1>3, <1>4, <1>5, <1>6, <1>7, <1>8, <1>9

\* Nothing is left to be minded at first.
LEMMA InitRInv == Init => RInv
<1> SUFFICES ASSUME Init PROVE RInv
  OBVIOUS
<1>1. /\ pc = [h \in Handlers |-> IF h = "reactor" THEN "idle" ELSE "new"]
      /\ deleting = FALSE /\ execs = FALSE
      /\ unit = [st |-> "absent", code |-> 0, real |-> 0, ref |-> FALSE,
                 job |-> "none", helper |-> "gone"]
      /\ \E pid \in BOOLEAN :
            parent = [shared |-> scenario.shared, alive |-> TRUE, pid |-> pid,
                      ran |-> "parent" \notin scenario.callers,
                      exited |-> FALSE, deleting |-> FALSE, tracked |-> TRUE]
  BY DEF Init, StepsInit
<1>2. /\ \A h \in Handlers : pc[h] \in {"new", "idle"}
      /\ pc["exec"] = "new" /\ pc["container"] = "new" /\ \A h \in Callers : pc[h] = "new"
  BY <1>1, Names
<1>3. Types
  <2>1. pc = [h \in Handlers |-> pc[h]]
    BY <1>1
  <2>2. parent \in Parents
    <3>1. scenario.shared \in BOOLEAN
      BY ScenariosType DEF Init
    <3>2. QED
      BY <1>1, <3>1 DEF Parents
  <2>3. unit \in Units
    BY <1>1 DEF Units
  <2>4. QED
    BY <1>1, <2>1, <2>2, <2>3 DEF Types, Units, Parents
<1>4. unit.st = "absent" /\ ~unit.ref
  BY <1>1
<1>5. ~parent.deleting /\ parent.tracked /\ ~parent.exited
  BY <1>1
<1>6. QED
  BY <1>1, <1>2, <1>3, <1>4, <1>5
     DEF RInv, NotYet, Marked, Registered, Announced, RuncKilled, WillRelease, WillKill,
         MarkedLabels

\* Every step keeps the invariant.
LEMMA StepRInv == RInv /\ [Next]_vars => RInv'
<1> SUFFICES ASSUME RInv, [Next]_vars PROVE RInv'
  OBVIOUS
<1>1. CASE Next
  BY <1>1, OutsideKeeps, ExecKeeps, StartKeeps, DeleteKeeps, ExitKeeps, ContainerKeeps,
     ReactorKeeps DEF Next, Step
<1>2. CASE UNCHANGED vars
  <2>1. UNCHANGED <<scenario, pc, deleting, execs, unit, parent>>
    BY <1>2 DEF vars, maps, sysd
  <2>2. unit \in Units /\ parent \in Parents
    BY DEF RInv, Types, Units, Parents
  <2>3. QED
    BY <2>1, <2>2, WorldKeeps
<1>3. QED
  BY <1>1, <1>2

\* Whatever Starts, Deletes, bus errors, lost replies, crashes and the end of the
\* container do, once all is at rest an exec that can no longer be reached leaves no unit
\* behind (process.go:392-398, create.go:295-299).
THEOREM NoExecUnitStranded == Spec => []NoStrandedExecUnit
<1>1. RInv => NoStrandedExecUnit
  <2> SUFFICES ASSUME RInv, Quiet, pc["exec"] # "new", ~execs \/ ~parent.tracked
               PROVE  ~unit.ref /\ (BusErrors \/ ~Alive)
    BY DEF NoStrandedExecUnit
  <2>1. \A h \in Handlers : pc[h] \in Finished
    BY DEF Quiet, Idle
  <2>2. \A h \in Handlers : pc[h] \notin RefLabels /\ pc[h] \notin KillLabels
    BY <2>1 DEF Finished, RefLabels, KillLabels
  <2>3. CASE pc["exec"] # "ok"
    BY <2>3 DEF RInv, NotYet, Alive
  <2>4. CASE pc["exec"] = "ok"
    <3>1. deleting
      BY <2>4 DEF RInv, Registered, Announced
    <3>2. ~unit.ref
      BY <2>2, <3>1 DEF RInv, WillRelease
    <3>3. BusErrors \/ ~Alive
      BY <2>2, <3>1 DEF RInv, WillKill, Quiet
    <3>4. QED
      BY <3>2, <3>3
  <2>5. QED
    BY <2>3, <2>4
<1>2. QED
  BY <1>1, InitRInv, StepRInv, PTL DEF Spec

-----------------------------------------------------------------------------
(***************************************************************************)
(* An exec no unit was made for: nothing has been observed of it, and no   *)
(* Start is past the making of its unit.                                   *)
(***************************************************************************)
NoUnitYet == unit.st = "absent" /\ unit.job = "none"

\* The labels a Start comes to only when there is a unit.
UnitLabels == {"s_again", "s_job", "s_jobload", "s_load", "s_status", "s_pid", "s_done",
               "s_finish", "s_state", "s_send"}

\* Nothing of an exit is on its way to the exec's state.
Unobserved ==
    /\ file = NoObs /\ signals = {} /\ recorded = NoObs
    /\ \A h \in Handlers : obs[h] = NoObs /\ pc[h] \notin UnitLabels

\* The state is blank until the exec is deleted; after that the sweep may reap it.
Blank ==
    /\ state \in pStates /\ state.pid = 0
    /\ phase # "deleted" => phase \in {"created", "starting"} /\ state = noState
    /\ \A h \in Handlers : pc[h] = "x_reap" => phase = "deleted"

VInv ==
    /\ pc = [h \in Handlers |-> pc[h]] /\ obs = [h \in Handlers |-> obs[h]]
    /\ unit \in Units /\ (unit.st = "dead" => unit.job # "none")
    /\ NoUnitYet => Unobserved /\ Blank

\* What a step that goes from a to b keeps of that, if there is no unit after it.
Keeps(a, b) ==
    NoUnitYet /\ NoUnitYet' =>
        /\ file' = NoObs /\ signals' = {} /\ recorded' = NoObs
        /\ \A h \in Handlers : obs'[h] = NoObs
        /\ state' \in pStates /\ state'.pid = 0
        /\ phase' # "deleted" => phase' \in {"created", "starting"} /\ state' = noState
        /\ phase = "deleted" => phase' = "deleted"
        /\ b \in UnitLabels => a \in UnitLabels
        /\ b = "x_reap" => phase' = "deleted"

\* The unit of the exec is not unmade, and a dead one has a job that ended.
UnitGoesOn == /\ unit' \in Units /\ (unit'.st = "dead" => unit'.job # "none")
              /\ NoUnitYet' => NoUnitYet

\* A step that keeps this keeps the invariant.
LEMMA MoveKeepsBlank ==
    ASSUME VInv, NEW h \in Handlers, NEW a, NEW b, Moves(h, a, b), UnitGoesOn,
           obs' = [g \in Handlers |-> obs'[g]], Keeps(a, b)
    PROVE  VInv'
<1>1. /\ pc[h] = a /\ pc' = [g \in Handlers |-> pc'[g]] /\ pc'[h] = b
      /\ \A g \in Handlers : g # h => pc'[g] = pc[g]
  BY DEF VInv, Moves, Goto
<1>2. ASSUME NoUnitYet' PROVE Unobserved' /\ Blank'
  <2>1. NoUnitYet /\ Unobserved /\ Blank
    BY <1>2 DEF VInv, UnitGoesOn
  <2>2. Unobserved'
    BY <1>1, <1>2, <2>1 DEF Keeps, Unobserved
  <2>3. \A g \in Handlers : pc'[g] = "x_reap" => phase' = "deleted"
    BY <1>1, <1>2, <2>1 DEF Keeps, Blank
  <2>4. QED
    BY <1>2, <2>1, <2>2, <2>3 DEF Keeps, Blank
<1>3. QED
  BY <1>1, <1>2 DEF VInv, UnitGoesOn

\* The steps that neither observe the exec nor touch its unit.
Still == UNCHANGED <<phase, state, file, signals, recorded, obs, unit>>

\* They keep the invariant, if they do not come to the labels of a Start with a unit.
LEMMA StillKeeps ==
    ASSUME VInv, NEW h \in Handlers, NEW a, NEW b, Moves(h, a, b), Still,
           b \in UnitLabels => a \in UnitLabels, b # "x_reap"
    PROVE  VInv'
<1>1. UNCHANGED <<phase, state, file, signals, recorded, obs, unit>>
  BY DEF Still
<1>2. UnitGoesOn
  BY <1>1 DEF VInv, UnitGoesOn, NoUnitYet
<1>3. Keeps(a, b)
  BY <1>1 DEF VInv, Keeps, NoUnitYet, Unobserved, Blank
<1>4. obs' = [g \in Handlers |-> obs'[g]]
  BY <1>1 DEF VInv
<1>5. QED
  BY <1>2, <1>3, <1>4, MoveKeepsBlank

\* Sends, the maps, their mutex and the mark are such steps.
LEMMA StillMoves ==
    ASSUME NEW h, NEW a, NEW b,
           \/ \E e \in EventKinds : Sends(h, a, e, b)
           \/ \E t \in BOOLEAN : SetIndexed(h, a, t, b) \/ SetExecs(h, a, t, b)
           \/ Lock(h, a, b) \/ Unlock(h, a, b) \/ markDeleting(h, a, b)
    PROVE  Moves(h, a, b) /\ Still
<1>1. ASSUME NEW e, Sends(h, a, e, b) PROVE Moves(h, a, b) /\ Still
  BY <1>1 DEF Sends, Moves, Still, At, procVars, shimVars, sysdVars
<1>2. ASSUME NEW t, SetIndexed(h, a, t, b) PROVE Moves(h, a, b) /\ Still
  BY <1>2 DEF SetIndexed, Moves, Still, At, proc, sysd
<1>3. ASSUME NEW t, SetExecs(h, a, t, b) PROVE Moves(h, a, b) /\ Still
  BY <1>3 DEF SetExecs, Moves, Still, At, proc, sysd
<1>4. CASE Lock(h, a, b)
  BY <1>4 DEF Lock, Moves, Still, At, proc, sysd
<1>5. CASE Unlock(h, a, b)
  BY <1>5 DEF Unlock, Moves, Still, At, proc, sysd
<1>6. CASE markDeleting(h, a, b)
  BY <1>6 DEF markDeleting, Moves, Still, At, procVars, sysdVars
<1>7. QED
  BY <1>1, <1>2, <1>3, <1>4, <1>5, <1>6

\* A branch, whatever it depends on.
LEMMA BranchStill ==
    ASSUME NEW h, NEW a, NEW STATE c, NEW STATE b, Branch(h, a, c, b)
    PROVE  Moves(h, a, b) /\ Still /\ c
BY DEF Branch, Moves, Still, At, procVars, shimVars, sysdVars

\* A look at the exit state file finds none.
LEMMA LoadKeeps ==
    ASSUME VInv, NEW h \in Handlers, NEW a, NEW b, Loads(h, a, b),
           b \in UnitLabels => a \in UnitLabels, b # "x_reap"
    PROVE  VInv'
<1>1. Moves(h, a, b) /\ UNCHANGED <<file, signals, recorded, obs, unit>>
  BY DEF Loads, Moves, At, sysd
<1>2. file = NoObs => UNCHANGED <<phase, state>>
  BY DEF Loads, proc
<1>3. UnitGoesOn
  BY <1>1 DEF VInv, UnitGoesOn, NoUnitYet
<1>4. Keeps(a, b)
  BY <1>1, <1>2 DEF VInv, Keeps, NoUnitYet, Unobserved, Blank
<1>5. obs' = [g \in Handlers |-> obs'[g]]
  BY <1>1 DEF VInv
<1>6. QED
  BY <1>1, <1>3, <1>4, <1>5, MoveKeepsBlank

\* Neither a read of the exit, which is for an exec with a pid, nor its merge happens.
LEMMA ReadKeeps ==
    ASSUME VInv, NEW h \in Handlers, NEW a, NEW b,
           ReadExit(h, a, b) \/ MergeRead(h, a, b), b \notin UnitLabels, b # "x_reap"
    PROVE  VInv'
<1>1. Moves(h, a, b) /\ UNCHANGED <<file, signals, recorded, unit>>
  BY DEF ReadExit, MergeRead, Moves, At, shimVars, sysdVars
<1>2. obs' = [g \in Handlers |-> obs'[g]]
  BY DEF ReadExit, MergeRead, VInv
<1>3. UnitGoesOn
  BY <1>1 DEF VInv, UnitGoesOn, NoUnitYet
<1>4. Keeps(a, b)
  <2> SUFFICES ASSUME NoUnitYet, NoUnitYet' PROVE Keeps(a, b)
    BY DEF Keeps
  <2>1. Unobserved /\ Blank
    BY DEF VInv
  <2>2. MergeRead(h, a, b)
    BY <2>1 DEF ReadExit, Blank
  <2>3. UNCHANGED <<phase, state>>
    BY <2>1, <2>2 DEF MergeRead, Unobserved, procVars
  <2>4. \A g \in Handlers : obs'[g] = NoObs
    BY <2>1, <2>2 DEF MergeRead, Unobserved, VInv
  <2>5. QED
    BY <1>1, <2>1, <2>3, <2>4 DEF Keeps, Unobserved, Blank
<1>5. QED
  BY <1>1, <1>2, <1>3, <1>4, MoveKeepsBlank

\* A unit that dies has not been unmade.
LEMMA DiesGoesOn ==
    ASSUME VInv, NEW c \in Nat, NEW r \in Nat, DiesAs(c, r)
    PROVE  UnitGoesOn /\ ~NoUnitYet'
<1>1. unit' = [unit EXCEPT !.st = "dead", !.code = c, !.real = r,
                           !.job = IF unit.job = "none" THEN "failed" ELSE unit.job,
                           !.helper = "gone"]
  BY DEF DiesAs
<1>2. unit' \in Units /\ unit'.st = "dead" /\ unit'.job # "none"
  BY <1>1 DEF VInv, Units
<1>3. QED
  BY <1>2 DEF UnitGoesOn, NoUnitYet

\* Nor does killing or releasing it unmake it, or make one.
LEMMA ActsGoOn ==
    ASSUME VInv, KillUnit \/ RuncKill \/ releaseUnit
    PROVE  UnitGoesOn /\ (~NoUnitYet' \/ UNCHANGED signals)
<1>1. CASE Dies(Killed)
  BY <1>1, DiesGoesOn DEF Dies, Killed
<1>2. CASE UNCHANGED <<unit, signals>>
  BY <1>2 DEF VInv, UnitGoesOn, NoUnitYet
<1>3. CASE releaseUnit
  <2>1. unit' = [unit EXCEPT !.ref = FALSE] /\ UNCHANGED signals
    BY <1>3 DEF releaseUnit
  <2>2. unit' \in Units /\ unit'.st = unit.st /\ unit'.job = unit.job
    BY <2>1 DEF VInv, Units
  <2>3. QED
    BY <2>1, <2>2 DEF VInv, UnitGoesOn, NoUnitYet
<1>4. QED
  BY <1>1, <1>2, <1>3 DEF KillUnit, RuncKill

\* A call that acts on the unit.
LEMMA ActKeeps ==
    ASSUME VInv, NEW h \in Handlers, NEW a, NEW b,
           \/ Calls(h, a, KillUnit, b) \/ Calls(h, a, RuncKill, b)
           \/ Calls(h, a, releaseUnit, b),
           b \in UnitLabels => a \in UnitLabels, b # "x_reap"
    PROVE  VInv'
<1>1. /\ Moves(h, a, b) /\ UNCHANGED <<phase, state, file, recorded, obs>>
      /\ KillUnit \/ RuncKill \/ releaseUnit
  BY DEF Calls, Moves, At, procVars, shimVars
<1>2. UnitGoesOn /\ (~NoUnitYet' \/ UNCHANGED signals)
  BY <1>1, ActsGoOn
<1>3. Keeps(a, b)
  BY <1>1, <1>2 DEF VInv, Keeps, Unobserved, Blank
<1>4. obs' = [g \in Handlers |-> obs'[g]]
  BY <1>1 DEF VInv
<1>5. QED
  BY <1>1, <1>2, <1>3, <1>4, MoveKeepsBlank

\* The phase moves between created and starting, or to deleted for good.
LEMMA PhaseMoves ==
    ASSUME NEW next \in {"created", "starting", "deleted"},
           NEW ph \in {"created", "starting", "deleted"}
    PROVE  /\ advance(ph, next) \in {"created", "starting", "deleted"}
           /\ ph = "deleted" => advance(ph, next) = "deleted"
BY DEF advance, canBecome, phaseTransitions

\* A move of the phase that no unit is needed for.
LEMMA AdvanceKeeps ==
    ASSUME VInv, NEW h \in Handlers, NEW a, NEW b,
           NEW next \in {"created", "starting", "deleted"}, Advance(h, a, next, b),
           b \notin UnitLabels, b # "x_reap"
    PROVE  VInv'
<1>1. /\ Moves(h, a, b) /\ UNCHANGED <<state, file, signals, recorded, obs, unit>>
      /\ phase' = advance(phase, next)
  BY DEF Advance, Moves, At, shimVars, sysdVars
<1>2. UnitGoesOn
  BY <1>1 DEF VInv, UnitGoesOn, NoUnitYet
<1>3. Keeps(a, b)
  <2> SUFFICES ASSUME NoUnitYet, NoUnitYet' PROVE Keeps(a, b)
    BY DEF Keeps
  <2>1. Unobserved /\ Blank /\ phase \in {"created", "starting", "deleted"}
    BY DEF VInv, Blank
  <2>2. /\ phase' \in {"created", "starting", "deleted"}
        /\ phase = "deleted" => phase' = "deleted"
    BY <1>1, <2>1, PhaseMoves
  <2>3. QED
    BY <1>1, <2>1, <2>2 DEF Keeps, Unobserved, Blank
<1>4. obs' = [g \in Handlers |-> obs'[g]]
  BY <1>1 DEF VInv
<1>5. QED
  BY <1>1, <1>2, <1>3, <1>4, MoveKeepsBlank

\* A step of a Start that has a unit.
LEMMA UnitKeeps ==
    ASSUME VInv, NEW h \in Handlers, NEW a \in UnitLabels, NEW b, Moves(h, a, b),
           UNCHANGED <<unit, obs>>
    PROVE  VInv'
<1>1. ~NoUnitYet
  BY DEF VInv, Unobserved, Moves
<1>2. UnitGoesOn
  BY DEF VInv, UnitGoesOn, NoUnitYet
<1>3. Keeps(a, b)
  BY <1>1 DEF Keeps
<1>4. obs' = [g \in Handlers |-> obs'[g]]
  BY DEF VInv
<1>5. QED
  BY <1>2, <1>3, <1>4, MoveKeepsBlank

\* Looking the exec up.
LEMMA LookupBlank ==
    ASSUME VInv, NEW h \in Handlers, NEW f \in {"s_begin", "d_check"}, Lookup(h, f)
    PROVE  VInv'
<1>1. CASE Branch(h, "new", TRUE, IF parent.tracked THEN "get" ELSE "refused")
  <2>1. PICK b \in {"get", "refused"} : Branch(h, "new", TRUE, b)
    BY <1>1
  <2>2. Moves(h, "new", b) /\ Still
    BY <2>1, BranchStill
  <2>3. QED
    BY <2>2, StillKeeps DEF UnitLabels
<1>2. CASE Branch(h, "get", mu = "nobody", IF execs THEN f ELSE "refused")
  <2>1. PICK b \in {f, "refused"} : Branch(h, "get", mu = "nobody", b)
    BY <1>2
  <2>2. Moves(h, "get", b) /\ Still
    BY <2>1, BranchStill
  <2>3. QED
    BY <2>2, StillKeeps DEF UnitLabels
<1>3. QED
  BY <1>1, <1>2 DEF Lookup

\* A Start before its unit: the claim, and the making of the unit.
LEMMA MakesBlank ==
    ASSUME VInv, NEW h \in Handlers, StartBegins(h) \/ StartsTwice(h)
    PROVE  VInv'
<1>1. CASE Advance(h, "s_begin", "starting", "s_parent")
  BY <1>1, AdvanceKeeps DEF UnitLabels
<1>2. CASE Branch(h, "s_begin", ~canBecome(phase, "starting"), "s_unindex")
  <2>1. Moves(h, "s_begin", "s_unindex") /\ Still
    BY <1>2, BranchStill
  <2>2. QED
    BY <2>1, StillKeeps DEF UnitLabels
<1>3. CASE Branch(h, "s_parent", parent.pid, "s_do")
  <2>1. Moves(h, "s_parent", "s_do") /\ Still
    BY <1>3, BranchStill
  <2>2. QED
    BY <2>1, StillKeeps DEF UnitLabels
<1>4. CASE Branch(h, "s_parent", ~parent.pid \/ BusErrors, "s_abort")
  <2>1. Moves(h, "s_parent", "s_abort") /\ Still
    BY <1>4, BranchStill
  <2>2. QED
    BY <2>1, StillKeeps DEF UnitLabels
<1>5. ASSUME NEW a, NEW f \in {"s_reset", "s_err"}, StartTransientUnit(h, a, f)
      PROVE  VInv'
  <2>1. PICK b : Moves(h, a, b) /\ (unit' = unit => b = f)
    <3>1. unit.st = "absent" => NewUnit # unit
      BY DEF NewUnit, VInv, Units
    <3>2. QED
      BY <1>5, <3>1 DEF StartTransientUnit, Moves, At
  <2>2. CASE unit.st = "absent" /\ unit' = NewUnit
    <3>1. unit' \in Units /\ unit'.st = "starting"
      BY <2>2 DEF VInv, Units, NewUnit
    <3>2. UnitGoesOn /\ Keeps(a, b)
      BY <3>1 DEF UnitGoesOn, Keeps, NoUnitYet
    <3>3. obs' = [g \in Handlers |-> obs'[g]]
      BY <1>5 DEF StartTransientUnit, VInv
    <3>4. QED
      BY <2>1, <3>2, <3>3, MoveKeepsBlank
  <2>3. CASE UNCHANGED unit /\ b \notin UnitLabels /\ b # "x_reap"
    <3>0. recorded' \in {recorded, NoObs} /\ UNCHANGED <<phase, state, file, signals, obs>>
      BY <1>5 DEF StartTransientUnit, proc
    <3>1. UnitGoesOn /\ Keeps(a, b)
      BY <2>3, <3>0 DEF VInv, UnitGoesOn, Keeps, NoUnitYet, Unobserved, Blank
    <3>2. obs' = [g \in Handlers |-> obs'[g]]
      BY <1>5 DEF StartTransientUnit, VInv
    <3>3. QED
      BY <2>1, <3>1, <3>2, MoveKeepsBlank
  <2>4. QED
    BY <1>5, <2>1, <2>2, <2>3 DEF StartTransientUnit, UnitLabels
<1>6. CASE Branch(h, "s_reset", unit.st # "absent", "s_again")
  <2>1. Moves(h, "s_reset", "s_again") /\ Still /\ unit.st # "absent"
    BY <1>6, BranchStill
  <2>2. UnitGoesOn /\ Keeps("s_reset", "s_again") /\ obs' = [g \in Handlers |-> obs'[g]]
    BY <2>1 DEF VInv, Still, UnitGoesOn, Keeps, NoUnitYet
  <2>3. QED
    BY <2>1, <2>2, MoveKeepsBlank
<1>7. CASE Branch(h, "s_reset", unit.st = "absent" \/ BusErrors, "s_err")
  <2>1. Moves(h, "s_reset", "s_err") /\ Still
    BY <1>7, BranchStill
  <2>2. QED
    BY <2>1, StillKeeps DEF UnitLabels
<1>8. QED
  BY <1>1, <1>2, <1>3, <1>4, <1>5, <1>6, <1>7 DEF StartBegins, StartsTwice

\* A Start with its unit.
LEMMA HasUnitBlank ==
    ASSUME VInv, NEW h \in Handlers, Job(h) \/ StartLoads(h) \/ finishStart(h, 1)
    PROVE  VInv'
<1>1. CASE Branch(h, "s_job", unit.job = "done", "s_load")
  <2>1. Moves(h, "s_job", "s_load") /\ UNCHANGED <<unit, obs>>
    BY <1>1 DEF Branch, Moves, At, sysdVars
  <2>2. QED
    BY <2>1, UnitKeeps DEF UnitLabels
<1>2. CASE Loads(h, "s_job", "s_jobload")
  <2>1. Moves(h, "s_job", "s_jobload") /\ UNCHANGED <<unit, obs>>
    BY <1>2 DEF Loads, Moves, At, sysd
  <2>2. QED
    BY <2>1, UnitKeeps DEF UnitLabels
<1>3. CASE Branch(h, "s_jobload", TRUE,
                  IF Exited(state) /\ state.exitCode = 255 THEN "s_err" ELSE "s_load")
  <2>1. PICK b : Moves(h, "s_jobload", b) /\ UNCHANGED <<unit, obs>>
    BY <1>3 DEF Branch, Moves, At, sysdVars
  <2>2. QED
    BY <2>1, UnitKeeps DEF UnitLabels
<1>4. CASE Calls(h, "s_job", KillUnit, "s_load")
  BY <1>4, ActKeeps DEF UnitLabels
<1>5. CASE Loads(h, "s_load", "s_status")
  <2>1. Moves(h, "s_load", "s_status") /\ UNCHANGED <<unit, obs>>
    BY <1>5 DEF Loads, Moves, At, sysd
  <2>2. QED
    BY <2>1, UnitKeeps DEF UnitLabels
<1>6. CASE Branch(h, "s_status", TRUE,
                  IF state.status = exitedInit THEN "s_err" ELSE "s_pid")
  <2>1. PICK b : Moves(h, "s_status", b) /\ UNCHANGED <<unit, obs>>
    BY <1>6 DEF Branch, Moves, At, sysdVars
  <2>2. QED
    BY <2>1, UnitKeeps DEF UnitLabels
<1>7. CASE Branch(h, "s_pid", ~HasPid, "s_err")
  <2>1. Moves(h, "s_pid", "s_err") /\ UNCHANGED <<unit, obs>>
    BY <1>7 DEF Branch, Moves, At, sysdVars
  <2>2. QED
    BY <2>1, UnitKeeps DEF UnitLabels
<1>8. CASE /\ At(h, "s_pid") /\ HasPid
           /\ state' = [state EXCEPT !.pid = 1]
           /\ Goto(h, "s_done")
           /\ UNCHANGED <<phase, deleting, recorded, parent, maps, event, sysd, work, obs>>
  <2>1. Moves(h, "s_pid", "s_done") /\ UNCHANGED <<unit, obs>>
    BY <1>8 DEF Moves, At, sysd
  <2>2. QED
    BY <2>1, UnitKeeps DEF UnitLabels
<1>9. CASE Advance(h, "s_finish", "running", "s_state")
  <2>1. Moves(h, "s_finish", "s_state") /\ UNCHANGED <<unit, obs>>
    BY <1>9 DEF Advance, Moves, At, sysdVars
  <2>2. QED
    BY <2>1, UnitKeeps DEF UnitLabels
<1>10. CASE Sets(h, "s_state", Obs(0, 0, 1, "running"), "s_send")
  <2>1. Moves(h, "s_state", "s_send") /\ UNCHANGED <<unit, obs>>
    BY <1>10 DEF Sets, Moves, At, sysdVars
  <2>2. QED
    BY <2>1, UnitKeeps DEF UnitLabels
<1>11. CASE Sends(h, "s_send", "TaskStart", "ok")
  <2>1. Moves(h, "s_send", "ok") /\ UNCHANGED <<unit, obs>>
    BY <1>11 DEF Sends, Moves, At, sysdVars
  <2>2. QED
    BY <2>1, UnitKeeps DEF UnitLabels
<1>12. QED
  BY <1>1, <1>2, <1>3, <1>4, <1>5, <1>6, <1>7, <1>8, <1>9, <1>10, <1>11
     DEF Job, StartLoads, finishStart

\* The end of a Start that failed.
LEMMA FailsBlank ==
    ASSUME VInv, NEW h \in Handlers,
           AbandonIfDeleting(h) \/ abandonStartedUnit(h) \/ abortStart(h)
    PROVE  VInv'
<1>1. CASE Branch(h, "s_done", TRUE, IF deleting THEN "s_abandon" ELSE "s_finish")
  <2>1. PICK b : Moves(h, "s_done", b) /\ UNCHANGED <<unit, obs>>
    BY <1>1 DEF Branch, Moves, At, sysdVars
  <2>2. QED
    BY <2>1, UnitKeeps DEF UnitLabels
<1>2. CASE Branch(h, "s_err", TRUE, IF deleting THEN "s_abandon" ELSE "s_abort")
  <2>1. PICK b \in {"s_abandon", "s_abort"} : Branch(h, "s_err", TRUE, b)
    BY <1>2
  <2>2. Moves(h, "s_err", b) /\ Still
    BY <2>1, BranchStill
  <2>3. QED
    BY <2>2, StillKeeps DEF UnitLabels
<1>3. CASE Calls(h, "s_abandon", KillUnit, "s_release")
  BY <1>3, ActKeeps DEF UnitLabels
<1>4. CASE Calls(h, "s_release", releaseUnit, "s_abort")
  BY <1>4, ActKeeps DEF UnitLabels
<1>5. CASE Advance(h, "s_abort", "created", "s_unindex")
  BY <1>5, AdvanceKeeps DEF UnitLabels
<1>6. CASE SetIndexed(h, "s_unindex", FALSE, "failed")
  <2>1. Moves(h, "s_unindex", "failed") /\ Still
    BY <1>6, StillMoves
  <2>2. QED
    BY <2>1, StillKeeps DEF UnitLabels
<1>7. QED
  BY <1>1, <1>2, <1>3, <1>4, <1>5, <1>6 DEF AbandonIfDeleting, abandonStartedUnit, abortStart

\* A Delete ends the exec and observes nothing of it.
LEMMA DeleteBlank ==
    ASSUME VInv, NEW h \in Handlers, DeleteStops(h) \/ DeleteWaits(h) \/ DeleteEnds(h)
    PROVE  VInv'
<1>1. CASE Branch(h, "d_check", TRUE, IF Live THEN "refused" ELSE "d_mark")
  <2>1. PICK b \in {"refused", "d_mark"} : Branch(h, "d_check", TRUE, b)
    BY <1>1
  <2>2. Moves(h, "d_check", b) /\ Still
    BY <2>1, BranchStill
  <2>3. QED
    BY <2>2, StillKeeps DEF UnitLabels
<1>2. CASE markDeleting(h, "d_mark", "d_stop")
  <2>1. Moves(h, "d_mark", "d_stop") /\ Still
    BY <1>2, StillMoves
  <2>2. QED
    BY <2>1, StillKeeps DEF UnitLabels
<1>3. CASE Calls(h, "d_stop", KillUnit, "d_pid")
  BY <1>3, ActKeeps DEF UnitLabels
<1>4. CASE Branch(h, "d_pid", TRUE, IF state.pid > 0 THEN "d_wait" ELSE "d_finish")
  <2>1. PICK b \in {"d_wait", "d_finish"} : Branch(h, "d_pid", TRUE, b)
    BY <1>4
  <2>2. Moves(h, "d_pid", b) /\ Still
    BY <2>1, BranchStill
  <2>3. QED
    BY <2>2, StillKeeps DEF UnitLabels
<1>5. CASE Branch(h, "d_wait", phase = "deleted" \/ Exited(state), "d_finish")
  <2>1. Moves(h, "d_wait", "d_finish") /\ Still
    BY <1>5, BranchStill
  <2>2. QED
    BY <2>1, StillKeeps DEF UnitLabels
<1>6. CASE Calls(h, "d_wait", releaseUnit, "failed")
  BY <1>6, ActKeeps DEF UnitLabels
<1>7. CASE Advance(h, "d_finish", "deleted", "d_remove")
  BY <1>7, AdvanceKeeps DEF UnitLabels
<1>8. CASE SetExecs(h, "d_remove", FALSE, "d_files")
  <2>1. Moves(h, "d_remove", "d_files") /\ Still
    BY <1>8, StillMoves
  <2>2. QED
    BY <2>1, StillKeeps DEF UnitLabels
<1>9. CASE /\ At(h, "d_files")
           /\ file' = NoObs
           /\ Goto(h, "d_release")
           /\ UNCHANGED <<proc, deleting, recorded, parent, maps, event, unit, signals,
                          work, obs>>
  <2>1. /\ Moves(h, "d_files", "d_release") /\ file' = NoObs
        /\ UNCHANGED <<phase, state, signals, recorded, obs, unit>>
    BY <1>9 DEF Moves, At, proc
  <2>2. UnitGoesOn /\ obs' = [g \in Handlers |-> obs'[g]]
    BY <2>1 DEF VInv, UnitGoesOn, NoUnitYet
  <2>3. Keeps("d_files", "d_release")
    BY <2>1 DEF VInv, Keeps, Unobserved, Blank, UnitLabels
  <2>4. QED
    BY <2>1, <2>2, <2>3, MoveKeepsBlank
<1>10. CASE Calls(h, "d_release", releaseUnit, "d_again")
  BY <1>10, ActKeeps DEF UnitLabels
<1>11. CASE SetExecs(h, "d_again", FALSE, "d_unindex")
  <2>1. Moves(h, "d_again", "d_unindex") /\ Still
    BY <1>11, StillMoves
  <2>2. QED
    BY <2>1, StillKeeps DEF UnitLabels
<1>12. CASE SetIndexed(h, "d_unindex", FALSE, "ok")
  <2>1. Moves(h, "d_unindex", "ok") /\ Still
    BY <1>12, StillMoves
  <2>2. QED
    BY <2>1, StillKeeps DEF UnitLabels
<1>13. QED
  BY <1>1, <1>2, <1>3, <1>4, <1>5, <1>6, <1>7, <1>8, <1>9, <1>10, <1>11, <1>12
     DEF DeleteStops, DeleteWaits, DeleteEnds

\* Exec observes nothing either.
LEMMA ExecBlank ==
    ASSUME VInv, Exec
    PROVE  VInv'
<1> DEFINE h == "exec"
<1>0. h \in Handlers
  BY Names
<1> HIDE DEF h
<1>1. CASE Branch(h, "new", TRUE, IF parent.tracked THEN "e_add" ELSE "refused")
  <2>1. PICK b \in {"e_add", "refused"} : Branch(h, "new", TRUE, b)
    BY <1>1
  <2>2. Moves(h, "new", b) /\ Still
    BY <2>1, BranchStill
  <2>3. QED
    BY <2>2, <1>0, StillKeeps DEF UnitLabels
<1>2. CASE SetExecs(h, "e_add", TRUE, "e_index")
  <2>1. Moves(h, "e_add", "e_index") /\ Still
    BY <1>2, StillMoves
  <2>2. QED
    BY <2>1, <1>0, StillKeeps DEF UnitLabels
<1>3. CASE SetIndexed(h, "e_index", TRUE, "e_check")
  <2>1. Moves(h, "e_index", "e_check") /\ Still
    BY <1>3, StillMoves
  <2>2. QED
    BY <2>1, <1>0, StillKeeps DEF UnitLabels
<1>4. CASE Branch(h, "e_check", TRUE, IF parent.deleting THEN "e_unindex" ELSE "e_create")
  <2>1. PICK b \in {"e_unindex", "e_create"} : Branch(h, "e_check", TRUE, b)
    BY <1>4
  <2>2. Moves(h, "e_check", b) /\ Still
    BY <2>1, BranchStill
  <2>3. QED
    BY <2>2, <1>0, StillKeeps DEF UnitLabels
<1>5. CASE \E to \in {"e_send", "e_unindex"} : Branch(h, "e_create", TRUE, to)
  <2>1. PICK b \in {"e_send", "e_unindex"} : Branch(h, "e_create", TRUE, b)
    BY <1>5
  <2>2. Moves(h, "e_create", b) /\ Still
    BY <2>1, BranchStill
  <2>3. QED
    BY <2>2, <1>0, StillKeeps DEF UnitLabels
<1>6. CASE SetIndexed(h, "e_unindex", FALSE, "e_remove")
  <2>1. Moves(h, "e_unindex", "e_remove") /\ Still
    BY <1>6, StillMoves
  <2>2. QED
    BY <2>1, <1>0, StillKeeps DEF UnitLabels
<1>7. CASE SetExecs(h, "e_remove", FALSE, "failed")
  <2>1. Moves(h, "e_remove", "failed") /\ Still
    BY <1>7, StillMoves
  <2>2. QED
    BY <2>1, <1>0, StillKeeps DEF UnitLabels
<1>8. CASE Sends(h, "e_send", "TaskCreate", "ok")
  <2>1. Moves(h, "e_send", "ok") /\ Still
    BY <1>8, StillMoves DEF EventKinds
  <2>2. QED
    BY <2>1, <1>0, StillKeeps DEF UnitLabels
<1>9. QED
  BY <1>1, <1>2, <1>3, <1>4, <1>5, <1>6, <1>7, <1>8 DEF Exec, Registers, h

\* The sweep reaps an exec without a unit only when it has been deleted.
LEMMA ReapKeeps ==
    ASSUME VInv, NEW h \in Handlers, Sets(h, "x_reap", Obs(1, Synthetic, 0, ""), "x_unlock")
    PROVE  VInv'
<1> DEFINE s == Obs(1, Synthetic, 0, "")
<1>1. /\ Moves(h, "x_reap", "x_unlock") /\ UNCHANGED <<file, signals, recorded, obs, unit>>
      /\ state' = merged(phase, state, s) /\ phase' = phaseAfter(phase, state, s)
  BY DEF Sets, SetState, Moves, At, shimVars, sysdVars
<1>2. UnitGoesOn /\ obs' = [g \in Handlers |-> obs'[g]]
  BY <1>1 DEF VInv, UnitGoesOn, NoUnitYet
<1>3. Keeps("x_reap", "x_unlock")
  <2> SUFFICES ASSUME NoUnitYet, NoUnitYet' PROVE Keeps("x_reap", "x_unlock")
    BY DEF Keeps
  <2>1. Unobserved /\ Blank /\ pc[h] = "x_reap"
    BY <1>1 DEF VInv, Moves
  <2>2. phase = "deleted" /\ state \in pStates /\ state.pid = 0
    BY <2>1 DEF Blank
  <2>3. phase' = "deleted"
    BY <1>1, <2>2 DEF phaseAfter, advance, canBecome, phaseTransitions
  <2>4. state' = CopyTo(s, state)
    BY <1>1, <2>2 DEF merged, beforeRunning
  <2>5. /\ s \in [exitedAt : Nat, exitCode : Nat, pid : Nat, status : Statuses]
        /\ s.pid = 0
    <3>1. "" \in Statuses
      BY DEF Statuses
    <3>2. ASSUME NEW w \in Statuses
          PROVE  /\ Obs(1, Synthetic, 0, w) \in
                       [exitedAt : Nat, exitCode : Nat, pid : Nat, status : Statuses]
                 /\ Obs(1, Synthetic, 0, w).pid = 0
      BY DEF Obs, Synthetic
    <3>3. QED
      BY <3>1, <3>2
  <2> HIDE DEF s
  <2>6. state' \in pStates /\ state'.pid = 0
    BY <2>2, <2>4, <2>5 DEF CopyTo, pStates
  <2>7. QED
    BY <1>1, <2>1, <2>3, <2>6 DEF Keeps, Unobserved, UnitLabels
<1>4. QED
  BY <1>1, <1>2, <1>3, MoveKeepsBlank

\* The exit of the container and its sweep.
LEMMA ExitBlank ==
    ASSUME VInv, InitExits
    PROVE  VInv'
<1> DEFINE h == "exit"
<1>0. h \in Handlers
  BY Names
<1> HIDE DEF h
<1>1. CASE /\ At(h, "new") /\ ~parent.alive
           /\ parent' = [parent EXCEPT !.exited = TRUE]
           /\ Goto(h, "x_kill")
           /\ UNCHANGED <<proc, deleting, recorded, maps, event, sysd, work, obs>>
  <2>1. Moves(h, "new", "x_kill") /\ Still
    BY <1>1 DEF Moves, Still, At, proc, sysd
  <2>2. QED
    BY <1>0, <2>1, StillKeeps DEF UnitLabels
<1>2. CASE KillsAll(h)
  <2>1. CASE Calls(h, "x_kill", RuncKill, "x_lock")
    BY <1>0, <2>1, ActKeeps DEF UnitLabels
  <2>2. CASE Branch(h, "x_kill", TRUE, "x_lock")
    <3>1. Moves(h, "x_kill", "x_lock") /\ Still
      BY <2>2, BranchStill
    <3>2. QED
      BY <1>0, <3>1, StillKeeps DEF UnitLabels
  <2>3. QED
    BY <1>2, <2>1, <2>2, KillsOrNot
<1>3. CASE Lock(h, "x_lock", "x_each")
  <2>1. Moves(h, "x_lock", "x_each") /\ Still
    BY <1>3, StillMoves
  <2>2. QED
    BY <1>0, <2>1, StillKeeps DEF UnitLabels
<1>4. CASE Branch(h, "x_each", TRUE, IF execs THEN "x_load" ELSE "x_unlock")
  <2>1. PICK b \in {"x_load", "x_unlock"} : Branch(h, "x_each", TRUE, b)
    BY <1>4
  <2>2. Moves(h, "x_each", b) /\ Still
    BY <2>1, BranchStill
  <2>3. QED
    BY <1>0, <2>2, StillKeeps DEF UnitLabels
<1>5. CASE Loads(h, "x_load", "x_look")
  BY <1>0, <1>5, LoadKeeps DEF UnitLabels
<1>6. CASE Branch(h, "x_look", TRUE,
                  IF beforeRunning(phase) \/ Exited(state) THEN "x_unlock" ELSE "x_reap")
  <2>1. PICK b \in {"x_unlock", "x_reap"} :
            Branch(h, "x_look", TRUE, b) /\ (b = "x_reap" => ~beforeRunning(phase))
    BY <1>6
  <2>2. /\ Moves(h, "x_look", b)
        /\ UNCHANGED <<phase, state, file, signals, recorded, obs, unit>>
    BY <2>1, BranchStill DEF Still
  <2>3. UnitGoesOn /\ obs' = [g \in Handlers |-> obs'[g]]
    BY <2>2 DEF VInv, UnitGoesOn, NoUnitYet
  <2>4. NoUnitYet /\ b = "x_reap" => phase' = "deleted"
    BY <2>1, <2>2 DEF VInv, Blank, beforeRunning
  <2>5. b \notin UnitLabels
    BY DEF UnitLabels
  <2>6. Keeps("x_look", b)
    BY <2>2, <2>4, <2>5 DEF VInv, Keeps, Unobserved, Blank
  <2>7. QED
    BY <1>0, <2>2, <2>3, <2>6, MoveKeepsBlank
<1>7. CASE Sets(h, "x_reap", Obs(1, Synthetic, 0, ""), "x_unlock")
  BY <1>0, <1>7, ReapKeeps
<1>8. CASE Unlock(h, "x_unlock", "ok")
  <2>1. Moves(h, "x_unlock", "ok") /\ Still
    BY <1>8, StillMoves
  <2>2. QED
    BY <1>0, <2>1, StillKeeps DEF UnitLabels
<1>9. QED
  BY <1>1, <1>2, <1>3, <1>4, <1>5, <1>6, <1>7, <1>8 DEF InitExits, Sweep, h

\* The deletion of the container.
LEMMA ContainerBlank ==
    ASSUME VInv, ContainerDelete
    PROVE  VInv'
<1> DEFINE h == "container"
<1>0. h \in Handlers
  BY Names
<1> HIDE DEF h
<1>1. CASE /\ At(h, "new") /\ h \in scenario.callers /\ parent.exited
           /\ parent' = [parent EXCEPT !.deleting = TRUE]
           /\ Goto(h, "k_runc")
           /\ UNCHANGED <<proc, deleting, recorded, maps, event, sysd, work, obs>>
  <2>1. Moves(h, "new", "k_runc") /\ Still
    BY <1>1 DEF Moves, Still, At, proc, sysd
  <2>2. QED
    BY <1>0, <2>1, StillKeeps DEF UnitLabels
<1>2. CASE Calls(h, "k_runc", RuncKill, "k_lock")
  BY <1>0, <1>2, ActKeeps DEF UnitLabels
<1>3. CASE Lock(h, "k_lock", "k_each")
  <2>1. Moves(h, "k_lock", "k_each") /\ Still
    BY <1>3, StillMoves
  <2>2. QED
    BY <1>0, <2>1, StillKeeps DEF UnitLabels
<1>4. CASE Branch(h, "k_each", TRUE, IF execs THEN "k_mark" ELSE "k_unlock")
  <2>1. PICK b \in {"k_mark", "k_unlock"} : Branch(h, "k_each", TRUE, b)
    BY <1>4
  <2>2. Moves(h, "k_each", b) /\ Still
    BY <2>1, BranchStill
  <2>3. QED
    BY <1>0, <2>2, StillKeeps DEF UnitLabels
<1>5. CASE markDeleting(h, "k_mark", "k_release")
  <2>1. Moves(h, "k_mark", "k_release") /\ Still
    BY <1>5, StillMoves
  <2>2. QED
    BY <1>0, <2>1, StillKeeps DEF UnitLabels
<1>6. CASE Calls(h, "k_release", releaseUnit, "k_unindex")
  BY <1>0, <1>6, ActKeeps DEF UnitLabels
<1>7. CASE SetIndexed(h, "k_unindex", FALSE, "k_unlock")
  <2>1. Moves(h, "k_unindex", "k_unlock") /\ Still
    BY <1>7, StillMoves
  <2>2. QED
    BY <1>0, <2>1, StillKeeps DEF UnitLabels
<1>8. CASE Unlock(h, "k_unlock", "k_untrack")
  <2>1. Moves(h, "k_unlock", "k_untrack") /\ Still
    BY <1>8, StillMoves
  <2>2. QED
    BY <1>0, <2>1, StillKeeps DEF UnitLabels
<1>9. CASE /\ At(h, "k_untrack")
           /\ parent' = [parent EXCEPT !.tracked = FALSE]
           /\ Goto(h, "ok")
           /\ UNCHANGED <<proc, deleting, recorded, maps, event, sysd, work, obs>>
  <2>1. Moves(h, "k_untrack", "ok") /\ Still
    BY <1>9 DEF Moves, Still, At, proc, sysd
  <2>2. QED
    BY <1>0, <2>1, StillKeeps DEF UnitLabels
<1>10. QED
  BY <1>1, <1>2, <1>3, <1>4, <1>5, <1>6, <1>7, <1>8, <1>9 DEF ContainerDelete, SweepReleases, h

\* The reactor.
LEMMA ReactorBlank ==
    ASSUME VInv, Reconcile(ReactorLoads)
    PROVE  VInv'
<1> DEFINE h == "reactor"
<1>0. h \in Handlers
  BY Names
<1> HIDE DEF h
<1>1. CASE /\ At(h, "idle") /\ work
           /\ work' = FALSE
           /\ Goto(h, IF indexed /\ ~Exited(state) THEN "r_load" ELSE "idle")
           /\ UNCHANGED <<procVars, shimVars, eventVars, sysdVars, obs>>
  <2>1. PICK b \in {"r_load", "idle"} : Moves(h, "idle", b) /\ Still
    BY <1>1 DEF Moves, Still, At, procVars, shimVars, sysdVars
  <2>2. QED
    BY <1>0, <2>1, StillKeeps DEF UnitLabels
<1>2. CASE Loads(h, "r_load", "r_read")
  BY <1>0, <1>2, LoadKeeps DEF UnitLabels
<1>3. CASE Branch(h, "r_read", Exited(state) \/ state.pid = 0, "idle")
  <2>1. Moves(h, "r_read", "idle") /\ Still
    BY <1>3, BranchStill
  <2>2. QED
    BY <1>0, <2>1, StillKeeps DEF UnitLabels
<1>4. CASE ReadExit(h, "r_read", "r_merge")
  BY <1>0, <1>4, ReadKeeps DEF UnitLabels
<1>5. CASE MergeRead(h, "r_merge", "idle")
  BY <1>0, <1>5, ReadKeeps DEF UnitLabels
<1>6. CASE Branch(h, "r_merge", obs[h] = NoObs, "r_retry")
  <2>1. Moves(h, "r_merge", "r_retry") /\ Still
    BY <1>6, BranchStill
  <2>2. QED
    BY <1>0, <2>1, StillKeeps DEF UnitLabels
<1>7. CASE /\ At(h, "r_retry")
           /\ \E again \in BOOLEAN : work' = (work \/ again)
           /\ Goto(h, "idle")
           /\ UNCHANGED <<procVars, shimVars, eventVars, sysdVars, obs>>
  <2>1. Moves(h, "r_retry", "idle") /\ Still
    BY <1>7 DEF Moves, Still, At, procVars, shimVars, sysdVars
  <2>2. QED
    BY <1>0, <2>1, StillKeeps DEF UnitLabels
<1>8. QED
  BY <1>1, <1>2, <1>3, <1>4, <1>5, <1>6, <1>7 DEF Reconcile, ReactorLoads, h

\* What happens outside: without a unit there is nothing to report.
LEMMA OutsideBlank ==
    ASSUME VInv,
           \/ Helper \/ WorkloadExits(OwnCodes) \/ InitDies \/ ParentStarts \/ Collect
           \/ Informer \/ \E h \in Handlers : SendOwed(h)
    PROVE  VInv'
<1>1. ASSUME UNCHANGED <<pc, obs>>, UnitGoesOn,
             NoUnitYet /\ NoUnitYet' =>
                UNCHANGED <<phase, state, file, signals, recorded>>
      PROVE  VInv'
  <2>1. NoUnitYet' => Unobserved' /\ Blank'
    BY <1>1 DEF VInv, UnitGoesOn, Unobserved, Blank
  <2>2. QED
    BY <1>1, <2>1 DEF VInv, UnitGoesOn
<1>2. CASE Helper
  <2>1. UNCHANGED <<pc, obs>> /\ unit.st = "starting"
    BY <1>2 DEF Helper
  <2>2. CASE unit' = [unit EXCEPT !.st = "running", !.job = "done"]
    <3>1. unit' \in Units /\ unit'.st = "running"
      BY <2>2 DEF VInv, Units
    <3>2. QED
      BY <1>1, <2>1, <3>1 DEF UnitGoesOn, NoUnitYet
  <2>3. CASE \E c \in Nat, r \in Nat : DiesAs(c, r)
    BY <1>1, <2>1, <2>3, DiesGoesOn
  <2>4. \/ unit' = [unit EXCEPT !.st = "running", !.job = "done"]
        \/ DiesAs(HelperFailed, HelperFailed)
        \/ \E c \in OwnCodes : DiesAs(IF c = 0 THEN 0 ELSE HelperFailed, c)
    BY <1>2 DEF Helper, Dies
  <2>5. HelperFailed \in Nat /\ OwnCodes \subseteq Nat /\ 0 \in Nat
    BY DEF HelperFailed, OwnCodes
  <2>6. QED
    BY <2>2, <2>3, <2>4, <2>5
<1>3. CASE WorkloadExits(OwnCodes)
  <2>1. UNCHANGED <<pc, obs>> /\ \E c \in Nat, r \in Nat : DiesAs(c, r)
    BY <1>3 DEF WorkloadExits, Dies, OwnCodes
  <2>2. QED
    BY <1>1, <2>1, DiesGoesOn
<1>4. CASE InitDies
  <2>1. /\ UNCHANGED <<pc, obs, phase, state, file, recorded>>
        /\ RuncKill \/ UNCHANGED <<unit, signals>>
    BY <1>4 DEF InitDies, proc
  <2>2. CASE RuncKill
    BY <1>1, <2>1, <2>2, ActsGoOn
  <2>3. CASE UNCHANGED <<unit, signals>>
    BY <1>1, <2>1, <2>3 DEF VInv, UnitGoesOn, NoUnitYet
  <2>4. QED
    BY <2>1, <2>2, <2>3
<1>5. CASE ParentStarts
  <2>1. UNCHANGED <<pc, obs, phase, state, file, signals, recorded, unit>>
    BY <1>5 DEF ParentStarts, proc, sysd
  <2>2. QED
    BY <1>1, <2>1 DEF VInv, UnitGoesOn, NoUnitYet
<1>6. CASE Collect
  <2>1. /\ UNCHANGED <<pc, obs>> /\ unit.st = "dead"
        /\ unit' = [unit EXCEPT !.st = "absent"]
    BY <1>6 DEF Collect
  <2>2. unit' \in Units /\ unit'.st = "absent" /\ unit'.job # "none"
    BY <2>1 DEF VInv, Units
  <2>3. QED
    BY <1>1, <2>1, <2>2 DEF UnitGoesOn, NoUnitYet
<1>7. CASE Informer
  <2>1. UNCHANGED <<pc, obs, phase, state, file, unit>> /\ signals # {}
    BY <1>7 DEF Informer, procVars
  <2>2. ~NoUnitYet
    BY <2>1 DEF VInv, Unobserved
  <2>3. UnitGoesOn
    BY <2>1 DEF VInv, UnitGoesOn, NoUnitYet
  <2>4. QED
    BY <1>1, <2>1, <2>2, <2>3
<1>8. ASSUME NEW h \in Handlers, SendOwed(h) PROVE VInv'
  <2>1. UNCHANGED <<pc, obs, phase, state, file, signals, recorded, unit>>
    BY <1>8 DEF SendOwed, procVars, shimVars, sysdVars
  <2>2. QED
    BY <1>1, <2>1 DEF VInv, UnitGoesOn, NoUnitYet
<1>9. QED
  BY <1>2, <1>3, <1>4, <1>5, <1>6, <1>7, <1>8

\* Every step keeps the invariant.
LEMMA StepVInv == VInv /\ [Next]_vars => VInv'
<1> SUFFICES ASSUME VInv, [Next]_vars PROVE VInv'
  OBVIOUS
<1>1. Starters \subseteq Handlers /\ Deleters \subseteq Handlers
  BY DEF Handlers
<1>2. ASSUME NEW h \in Starters, Start(h) PROVE VInv'
  BY <1>1, <1>2, LookupBlank, MakesBlank, HasUnitBlank, FailsBlank DEF Start
<1>3. ASSUME NEW h \in Deleters, Delete(h) PROVE VInv'
  BY <1>1, <1>3, LookupBlank, DeleteBlank DEF Delete
<1>4. CASE Next
  BY <1>2, <1>3, <1>4, OutsideBlank, ExecBlank, ExitBlank, ContainerBlank, ReactorBlank
     DEF Next, Step
<1>5. CASE UNCHANGED vars
  <2>1. UNCHANGED <<pc, obs, phase, state, file, signals, recorded, unit>>
    BY <1>5 DEF vars, proc, sysd
  <2>2. QED
    BY <2>1 DEF VInv, NoUnitYet, Unobserved, Blank
<1>6. QED
  BY <1>4, <1>5

\* At first nothing has been observed.
LEMMA InitVInv == Init => VInv
<1> SUFFICES ASSUME Init PROVE VInv
  OBVIOUS
<1>1. /\ pc = [h \in Handlers |-> IF h = "reactor" THEN "idle" ELSE "new"]
      /\ obs = [h \in Handlers |-> NoObs]
      /\ file = NoObs /\ signals = {} /\ recorded = NoObs
      /\ phase = "created" /\ state = noState
  BY DEF Init, StepsInit
<1>2. unit = [st |-> "absent", code |-> 0, real |-> 0, ref |-> FALSE,
              job |-> "none", helper |-> "gone"]
  BY DEF Init, StepsInit
<1>3. unit \in Units /\ unit.st = "absent"
  BY <1>2 DEF Units
<1>4. noState \in pStates /\ noState.pid = 0
  BY DEF noState, pStates, Statuses
<1>5. \A h \in Handlers : pc[h] \in {"new", "idle"} /\ obs[h] = NoObs
  BY <1>1
<1>6. Unobserved
  BY <1>1, <1>5 DEF Unobserved, UnitLabels
<1>7. Blank
  BY <1>1, <1>4, <1>5 DEF Blank
<1>8. QED
  BY <1>1, <1>3, <1>6, <1>7 DEF VInv

\* Whatever races, fails or is deleted around it, an exec for which no unit was made and
\* that nobody deleted has no exit (process.go:569-571, process.go:295-299).
THEOREM NoUnitNoExit == Spec => []NoExitWithoutUnit
<1>1. VInv => NoExitWithoutUnit
  <2>1. ~Exited(noState)
    BY DEF noState, Exited, toStatus, Created, Running, Stopped
  <2>2. QED
    BY <2>1 DEF VInv, NoExitWithoutUnit, NoUnitYet, Blank
<1>2. QED
  BY <1>1, InitVInv, StepVInv, PTL DEF Spec

-----------------------------------------------------------------------------
(***************************************************************************)
(* A published exit is real.  The argument has two halves.  EInv, whatever *)
(* fails: of the Starts one at most holds the claim, and the start is      *)
(* published by a Start that returns.  YInv, for undisturbed behaviours:   *)
(* what the unit, the exit state file, the state, the signals, the reads   *)
(* and the published exit have to do with each other, and where every      *)
(* goroutine finds them.  YInv is stated while the exec has not been       *)
(* marked, or a Start won before the mark: from a lost race on, Start and  *)
(* Delete undo each other's work, and no exit is published, because the    *)
(* outbox holds an exit back until the start is out (Sound).               *)
(***************************************************************************)
\* The outbox of this exec, and the theorems about it.
OP == INSTANCE EventOutboxProofs WITH
          Events <- EventKinds, Kind <- [e \in EventKinds |-> e], NoEvent <- "none",
          Capacity <- 1, o <- box, handed <- box, accepted <- box, mu <- box, i <- box,
          kept <- box, sent <- box, queued <- box, cancelled <- box, stalled <- box,
          entry <- box

\* The events that are published or held back.
Streamed == OP!Contents(box)

\* A Start that has passed its look at the mark keeps its claim; before, it has it from
\* s_begin to s_abort.
WonLabels == {"s_finish", "s_state", "s_send", "ok"}
ClaimLabels == {"s_parent", "s_do", "s_reset", "s_again", "s_job", "s_jobload", "s_load",
                "s_status", "s_pid", "s_done", "s_err", "s_abandon", "s_release", "s_abort"}
               \union WonLabels

\* The types the argument needs.
ETypes == /\ phase \in Phases /\ box \in OP!Boxes /\ OP!Sound(box)
          /\ pc = [h \in Handlers |-> pc[h]]
          /\ owe \in [Handlers -> SUBSET {"TaskExit"}]

\* One Start at most has the claim, and only an unclaimed exec is in phase created.
OneClaim ==
    /\ \A h \in Starters : pc[h] \in ClaimLabels => phase # "created"
    /\ \A g, h \in Starters : pc[g] \in ClaimLabels /\ pc[h] \in ClaimLabels => g = h

\* The start is published by a Start that returns.
StartTold == "TaskStart" \in Streamed => \E h \in Starters : pc[h] = "ok"

\* The first half.
EInv == ETypes /\ OneClaim /\ StartTold

-----------------------------------------------------------------------------
\* What the helper writes: of a running workload, of a runc that failed, of an exit.
RunObs == Obs(0, 0, 1, "running")
FailObs == {Obs(1, c, 1, exitedInit) : c \in RuncCodes}
ExitObs == {Obs(1, c, 1, "exited") : c \in OwnCodes}

\* A Start has looked at the mark, did not find it, and finishes; and what YInv supposes.
Won == \E h \in Starters : pc[h] \in WonLabels
Single == ~deleting \/ Won

\* A TaskExit is with the outbox, or owed to it.
Claimed == "TaskExit" \in Streamed \/ \E h \in Handlers : "TaskExit" \in owe[h]

\* The unit and the file.  The file is there once the start job has ended, until the exec
\* is deleted; the unit is kept, by its reference, until its exit is known.
UnitFacts ==
    /\ file \in {NoObs, RunObs} \union FailObs \union ExitObs
    /\ unit.st = "starting" => file = NoObs /\ ~Exited(state) /\ unit.job = "none"
    /\ unit.st = "running" => unit.job # "none"
    /\ unit.job # "none" /\ ~deleting => file # NoObs
    /\ ~Exited(state) \/ ~deleting =>
          IF unit.st = "absent" THEN unit.job = "none" ELSE unit.ref
    /\ file = RunObs \/ unit.job = "none" => unit.code = unit.real
    /\ file \in ExitObs => ~Alive /\ file.exitCode = unit.real
    /\ file \in FailObs => ~Alive

\* The state: an exit is known of a unit that is gone only, or of one nothing killed with
\* its container, and moves the phase; a pid is known only of a workload that came to run.
StateFacts ==
    /\ state \in pStates
    /\ Exited(state) <=> phase \in {"exited", "deleted"}
    /\ phase = "deleted" => deleting
    /\ Exited(state) => ~Alive \/ Spares
    /\ state.pid > 0 => Exited(state) \/ file = RunObs
    /\ file \in FailObs /\ Exited(state) => state.status = exitedInit

\* A read, and one that is true of the unit as it is.
Reads == pStates \union {NoObs}
Truthful(s) == s # NoObs /\ Exited(s) => ~Alive /\ s.exitCode = unit.code

\* What was signalled, recorded or read is still true as long as the exit is not known.
SeenFacts ==
    /\ signals \subseteq Reads /\ recorded \in Reads /\ obs \in [Handlers -> Reads]
    /\ \A h \in Handlers : obs[h] # NoObs => file \notin FailObs
    /\ ~Exited(state) =>
          /\ \A s \in signals \union {recorded} : Truthful(s)
          /\ \A h \in Handlers : Truthful(obs[h]) /\ (obs[h] # NoObs => file = RunObs)

\* The status that goes out with an exit.
ClaimFacts ==
    Claimed => /\ Exited(state)
               /\ \/ file \in FailObs \/ (~Alive /\ exitEvent = unit.real)
                  \/ parent.exited /\ exitEvent = Synthetic

\* All of that.
DataFacts == UnitFacts /\ StateFacts /\ SeenFacts /\ ClaimFacts

\* What a Start at l may rely on: past its load it has the exit or the pid, and one that
\* wins is of an exec that ran.
StartAt(l) ==
    /\ l \in {"s_abandon", "s_release"} => deleting
    /\ ~deleting => /\ l \in {"s_jobload", "s_load"} => unit.job # "none"
                    /\ l \in {"s_status", "s_pid", "s_done"} =>
                          Exited(state) \/ (file = RunObs /\ state.pid > 0)
                    /\ l \in {"s_pid", "s_done"} => file \notin FailObs
                    /\ l = "s_done" => state.pid > 0
    /\ l \in WonLabels => file \notin FailObs /\ state.pid > 0 /\ unit.st # "starting"

\* A Delete gets past its wait when the exit is known.
LateLabels == {"d_finish", "d_remove", "d_files", "d_release", "d_again", "d_unindex"}
DeleteAt(l) == l \in LateLabels => Exited(state)

\* What ran in the container is gone before the exit of init sweeps, or is spared.
ExitAt(l) == /\ l # "new" => parent.exited /\ ~parent.alive
             /\ l \notin {"new", "x_kill"} => unit.st # "running" \/ Spares
             /\ l = "x_reap" => Won

\* Where every goroutine is.
Placed(h) == /\ h \in Starters => StartAt(pc[h])
             /\ h \in Deleters => DeleteAt(pc[h])
             /\ h = "exit" => ExitAt(pc[h])
             /\ h = "container" => pc[h] = "new"

\* An exec in phase running has a Start that won, and none runs in the pid namespace of
\* an init that is gone.
PlaceFacts == /\ \A h \in Handlers : Placed(h)
              /\ phase = "running" => Won
              /\ unit.st = "running" => parent.alive \/ parent.shared

\* The second half.
YInv == Undisturbed /\ Single => DataFacts /\ PlaceFacts

\* The outbox meets the assumptions of its theorems.
LEMMA OPAssumptions == OP!KindType /\ OP!NoEventFresh /\ OP!CapacityPositive
<1>1. OP!KindType
  BY DEF OP!KindType, EventKinds, OP!Kinds
<1>2. OP!NoEventFresh
  BY DEF OP!NoEventFresh, EventKinds
<1>3. OP!CapacityPositive
  BY DEF OP!CapacityPositive
<1>4. QED
  BY <1>1, <1>2, <1>3

\* Both instances of the outbox send alike.
LEMMA SameSent ==
    ASSUME NEW b, NEW e
    PROVE  Outbox!Sent(b, e) = OP!Sent(b, e)
BY DEF Outbox!Sent, OP!Sent, Outbox!Flush, OP!Flush, Outbox!Passes, OP!Passes,
       Outbox!Pass, OP!Pass, Outbox!Visits, OP!Visits, Outbox!Visit, OP!Visit,
       Outbox!Holding, OP!Holding, Outbox!publishable, OP!publishable, Outbox!record,
       OP!record

\* What sending an event does.
LEMMA SendsOn ==
    ASSUME EInv, NEW e \in EventKinds, box' = Outbox!Sent(box, e)
    PROVE  /\ box' \in OP!Boxes /\ OP!Sound(box)'
           /\ Streamed' = Streamed \union {e}
<1>1. box' = OP!Sent(box, e)
  BY SameSent
<1>2. box \in OP!Boxes /\ OP!Sound(box)
  BY DEF EInv, ETypes
<1>3. /\ OP!Sent(box, e) \in OP!Boxes
      /\ OP!Contents(OP!Sent(box, e)) = OP!Contents(box) \union {e}
      /\ OP!Sound(OP!Sent(box, e))
  BY <1>2, OPAssumptions, OP!SentGrows DEF OP!Grows
<1>4. Streamed' = OP!Contents(box')
  BY DEF Streamed
<1>5. QED
  BY <1>1, <1>3, <1>4 DEF Streamed

\* What every step keeps: a Start that has won has won for good, and one wins only
\* while the exec is not marked.
EStep == EInv' /\ (Single' => Single) /\ (Won => Won')

\* A step may end the exec, but does not hand a claim back.
Effects(h) == /\ UNCHANGED box /\ (deleting => deleting')
              /\ phase' \in Phases /\ (phase # "created" => phase' # "created")
              /\ owe' = owe \/ owe' = [owe EXCEPT ![h] = {"TaskExit"}]

\* A move with no effect on the events but an exit.
Eff(h, a, b) == Moves(h, a, b) /\ Effects(h)

\* A Start that goes from a to b neither takes a claim nor gives one up, and wins only
\* when the exec is not marked.
Claims(a, b) == /\ b \in ClaimLabels => a \in ClaimLabels
                /\ b \in WonLabels => a \in WonLabels \/ ~deleting
                /\ a \in WonLabels => b \in WonLabels
                /\ a # "ok"

\* Who is where after a move.
LEMMA EMoved ==
    ASSUME EInv, NEW h \in Handlers, NEW a, NEW b, Moves(h, a, b)
    PROVE  /\ pc[h] = a /\ pc' = [g \in Handlers |-> pc'[g]] /\ pc'[h] = b
           /\ \A g \in Handlers : g # h => pc'[g] = pc[g]
           /\ Starters \subseteq Handlers
BY DEF EInv, ETypes, Moves, Goto, Handlers

\* Who has won, when the labels go on like that.
LEMMA WonKeeps ==
    ASSUME deleting => deleting',
           \A g \in Starters : /\ pc[g] \in WonLabels => pc'[g] \in WonLabels
                               /\ pc'[g] \in WonLabels => pc[g] \in WonLabels \/ ~deleting
    PROVE  (Single' => Single) /\ (Won => Won')
BY DEF Single, Won

\* Such a move keeps the invariant.
LEMMA EffKeeps ==
    ASSUME EInv, NEW h \in Handlers, NEW a, NEW b, Eff(h, a, b), h \in Starters => Claims(a, b)
    PROVE  EStep
<1>1. /\ pc[h] = a /\ pc' = [g \in Handlers |-> pc'[g]] /\ pc'[h] = b
      /\ \A g \in Handlers : g # h => pc'[g] = pc[g]
      /\ Starters \subseteq Handlers
  BY EMoved DEF Eff
<1>2. UNCHANGED box /\ (deleting => deleting') /\ phase' \in Phases
      /\ (phase # "created" => phase' # "created")
      /\ (owe' = owe \/ owe' = [owe EXCEPT ![h] = {"TaskExit"}])
  BY DEF Eff, Effects
<1>3. \A g \in Starters : /\ pc'[g] \in ClaimLabels => pc[g] \in ClaimLabels
                          /\ pc[g] = "ok" => pc'[g] = "ok"
                          /\ pc[g] \in WonLabels => pc'[g] \in WonLabels
                          /\ pc'[g] \in WonLabels => pc[g] \in WonLabels \/ ~deleting
  BY <1>1 DEF Claims
<1>4. box \in OP!Boxes /\ OP!Sound(box) /\ owe \in [Handlers -> SUBSET {"TaskExit"}]
  BY DEF EInv, ETypes
<1>5. owe' \in [Handlers -> SUBSET {"TaskExit"}]
  BY <1>2, <1>4
<1>6. ETypes'
  BY <1>1, <1>2, <1>4, <1>5 DEF ETypes
<1>7. OneClaim'
  BY <1>2, <1>3 DEF EInv, OneClaim
<1>8. Streamed' = Streamed
  BY <1>2 DEF Streamed
<1>9. StartTold'
  BY <1>3, <1>8 DEF EInv, StartTold
<1>10. (Single' => Single) /\ (Won => Won')
  BY <1>2, <1>3, WonKeeps
<1>11. QED
  BY <1>6, <1>7, <1>9, <1>10 DEF EStep, EInv

-----------------------------------------------------------------------------
\* Merging an observation does not hand the claim back,
LEMMA SetStateEff ==
    ASSUME phase \in Phases, NEW h, NEW s, SetState(h, s), UNCHANGED <<box, deleting>>
    PROVE  Effects(h)
<1>1. /\ phase' = phaseAfter(phase, state, s)
      /\ owe' = owe \/ owe' = [owe EXCEPT ![h] = {"TaskExit"}]
  BY DEF SetState
<1>2. phase' = phase \/ phase' = advance(phase, "exited")
  BY <1>1 DEF phaseAfter
<1>3. advance(phase, "exited") \in {phase, "exited"}
  BY DEF advance
<1>4. phase' \in Phases /\ (phase # "created" => phase' # "created")
  BY <1>2, <1>3 DEF Phases
<1>5. QED
  BY <1>1, <1>4 DEF Effects

\* nor does a branch,
LEMMA BranchEff ==
    ASSUME phase \in Phases, NEW h, NEW a, NEW STATE c, NEW STATE b, Branch(h, a, c, b)
    PROVE  Eff(h, a, b) /\ c
BY DEF Branch, Eff, Moves, At, Effects, eventVars, procVars, shimVars

\* setting the state,
LEMMA SetsEff ==
    ASSUME phase \in Phases, NEW h, NEW a, NEW s, NEW b, Sets(h, a, s, b)
    PROVE  Eff(h, a, b)
<1>1. Moves(h, a, b) /\ SetState(h, s) /\ UNCHANGED <<box, deleting>>
  BY DEF Sets, Moves, At, shimVars
<1>2. QED
  BY <1>1, SetStateEff DEF Eff

\* a call to systemd or runc,
LEMMA CallsEff ==
    ASSUME phase \in Phases, NEW h, NEW a, NEW b, NEW ACTION A, Calls(h, a, A, b)
    PROVE  Eff(h, a, b)
BY DEF Calls, Eff, Moves, At, Effects, eventVars, procVars, shimVars

\* the mark of a delete,
LEMMA MarkEff ==
    ASSUME phase \in Phases, NEW h, NEW a, NEW b, markDeleting(h, a, b)
    PROVE  Eff(h, a, b)
BY DEF markDeleting, Eff, Moves, At, Effects, eventVars, procVars

\* a move of the phase to another than created,
LEMMA AdvanceEff ==
    ASSUME phase \in Phases, NEW h, NEW a, NEW b, NEW n \in Phases \ {"created"},
           Advance(h, a, n, b)
    PROVE  Eff(h, a, b)
<1>1. /\ Moves(h, a, b) /\ UNCHANGED <<box, owe, deleting>>
      /\ phase' = advance(phase, n)
  BY DEF Advance, Moves, At, eventVars, shimVars
<1>2. phase' \in {phase, n}
  BY <1>1 DEF advance
<1>3. QED
  BY <1>1, <1>2 DEF Eff, Effects

\* a read of the exit and its merge,
LEMMA ReadEff ==
    ASSUME phase \in Phases, NEW h, NEW a, NEW b, ReadExit(h, a, b) \/ MergeRead(h, a, b)
    PROVE  Eff(h, a, b)
<1>1. CASE ReadExit(h, a, b)
  BY <1>1 DEF ReadExit, Eff, Moves, At, Effects, eventVars, procVars, shimVars
<1>2. CASE MergeRead(h, a, b)
  <2>1. Moves(h, a, b) /\ UNCHANGED <<box, deleting>>
    BY <1>2 DEF MergeRead, Moves, At, shimVars
  <2>2. UNCHANGED <<phase, owe>> \/ SetState(h, obs[h])
    BY <1>2 DEF MergeRead, procVars
  <2>3. Effects(h)
    BY <2>1, <2>2, SetStateEff DEF Effects
  <2>4. QED
    BY <2>1, <2>3 DEF Eff
<1>3. QED
  BY <1>1, <1>2

\* LoadState,
LEMMA LoadsEff ==
    ASSUME phase \in Phases, NEW h, NEW a, NEW b, Loads(h, a, b)
    PROVE  Eff(h, a, b)
<1>1. Moves(h, a, b) /\ UNCHANGED <<box, deleting>>
  BY DEF Loads, Moves, At
<1>2. UNCHANGED <<phase, owe>> \/ SetState(h, file)
  BY DEF Loads, proc
<1>3. Effects(h)
  BY <1>1, <1>2, SetStateEff DEF Effects
<1>4. QED
  BY <1>1, <1>3 DEF Eff

\* and the maps with their mutex.
LEMMA MapsEff ==
    ASSUME phase \in Phases, NEW h, NEW a, NEW b,
           \/ \E t \in BOOLEAN : SetIndexed(h, a, t, b) \/ SetExecs(h, a, t, b)
           \/ Lock(h, a, b) \/ Unlock(h, a, b)
    PROVE  Eff(h, a, b)
BY DEF SetIndexed, SetExecs, Lock, Unlock, Eff, Moves, At, Effects, proc, event

\* The labels of a claim.
LEMMA ClaimNames ==
    /\ \A l \in {"new", "get", "s_begin", "s_unindex", "refused", "failed"} :
          l \notin ClaimLabels /\ l \notin WonLabels /\ l # "ok"
    /\ \A l \in {"s_parent", "s_do", "s_reset", "s_again", "s_job", "s_jobload", "s_load",
                 "s_status", "s_pid", "s_done", "s_err", "s_abandon", "s_release",
                 "s_abort"} : l \in ClaimLabels /\ l \notin WonLabels /\ l # "ok"
    /\ \A l \in {"s_finish", "s_state", "s_send"} :
          l \in ClaimLabels /\ l \in WonLabels /\ l # "ok"
    /\ "ok" \in ClaimLabels /\ "ok" \in WonLabels
BY DEF ClaimLabels, WonLabels

\* A Start claims the exec,
LEMMA ClaimKeeps ==
    ASSUME EInv, NEW h \in Starters, canBecome(phase, "starting"),
           Advance(h, "s_begin", "starting", "s_parent")
    PROVE  EStep
<1>1. h \in Handlers
  BY DEF Handlers
<1>2. /\ Moves(h, "s_begin", "s_parent") /\ UNCHANGED <<box, owe, deleting>>
      /\ phase' = "starting"
  BY DEF Advance, Moves, At, eventVars, shimVars, advance
<1>3. /\ pc[h] = "s_begin" /\ pc' = [g \in Handlers |-> pc'[g]] /\ pc'[h] = "s_parent"
      /\ \A g \in Handlers : g # h => pc'[g] = pc[g]
      /\ Starters \subseteq Handlers
  BY <1>1, <1>2, EMoved
<1>4. phase = "created"
  BY DEF EInv, ETypes, canBecome, phaseTransitions, Phases
<1>5. \A g \in Starters : pc[g] \notin ClaimLabels
  BY <1>4 DEF EInv, OneClaim
<1>6. ETypes'
  BY <1>2, <1>3 DEF EInv, ETypes, Phases
<1>7. OneClaim'
  BY <1>2, <1>3, <1>5 DEF OneClaim
<1>8. Streamed' = Streamed
  BY <1>2 DEF Streamed
<1>9. StartTold'
  BY <1>3, <1>5, <1>8, ClaimNames DEF EInv, StartTold
<1>10. (Single' => Single) /\ (Won => Won')
  BY <1>2, <1>3, WonKeeps, ClaimNames
<1>11. QED
  BY <1>6, <1>7, <1>9, <1>10 DEF EStep, EInv

\* and hands the claim back.
LEMMA AbortKeeps ==
    ASSUME EInv, NEW h \in Starters, Advance(h, "s_abort", "created", "s_unindex")
    PROVE  EStep
<1>1. h \in Handlers
  BY DEF Handlers
<1>2. /\ Moves(h, "s_abort", "s_unindex") /\ UNCHANGED <<box, owe, deleting>>
      /\ phase' = advance(phase, "created")
  BY DEF Advance, Moves, At, eventVars, shimVars
<1>3. /\ pc[h] = "s_abort" /\ pc' = [g \in Handlers |-> pc'[g]] /\ pc'[h] = "s_unindex"
      /\ \A g \in Handlers : g # h => pc'[g] = pc[g]
      /\ Starters \subseteq Handlers
  BY <1>1, <1>2, EMoved
<1>4. phase' \in Phases
  BY <1>2 DEF EInv, ETypes, advance, Phases
<1>5. \A g \in Starters : pc'[g] \notin ClaimLabels
  BY <1>3, ClaimNames DEF EInv, OneClaim
<1>6. ETypes'
  BY <1>2, <1>3, <1>4 DEF EInv, ETypes
<1>7. OneClaim'
  BY <1>5 DEF OneClaim
<1>8. Streamed' = Streamed
  BY <1>2 DEF Streamed
<1>9. \A g \in Starters : pc[g] = "ok" => pc'[g] = "ok"
  BY <1>3
<1>10. StartTold'
  BY <1>8, <1>9 DEF EInv, StartTold
<1>11. (Single' => Single) /\ (Won => Won')
  BY <1>2, <1>3, WonKeeps, ClaimNames
<1>12. QED
  BY <1>6, <1>7, <1>10, <1>11 DEF EStep, EInv

\* Exec and the Start that returns publish their events.
LEMMA SendKeeps ==
    ASSUME EInv, NEW h \in Handlers, NEW a, NEW b, NEW e \in EventKinds, Sends(h, a, e, b),
           h \in Starters => Claims(a, b), e = "TaskStart" => h \in Starters /\ b = "ok"
    PROVE  EStep
<1>1. /\ Moves(h, a, b) /\ UNCHANGED <<phase, owe, deleting>> /\ box' = Outbox!Sent(box, e)
  BY DEF Sends, Moves, At, procVars, shimVars
<1>2. /\ pc[h] = a /\ pc' = [g \in Handlers |-> pc'[g]] /\ pc'[h] = b
      /\ \A g \in Handlers : g # h => pc'[g] = pc[g]
      /\ Starters \subseteq Handlers
  BY <1>1, EMoved
<1>3. box' \in OP!Boxes /\ OP!Sound(box)' /\ Streamed' = Streamed \union {e}
  BY <1>1, SendsOn
<1>4. \A g \in Starters : /\ pc'[g] \in ClaimLabels => pc[g] \in ClaimLabels
                          /\ pc[g] = "ok" => pc'[g] = "ok"
                          /\ pc[g] \in WonLabels => pc'[g] \in WonLabels
                          /\ pc'[g] \in WonLabels => pc[g] \in WonLabels \/ ~deleting
  BY <1>2 DEF Claims
<1>5. ETypes'
  BY <1>1, <1>2, <1>3 DEF EInv, ETypes
<1>6. OneClaim'
  BY <1>1, <1>4 DEF EInv, OneClaim
<1>7. StartTold'
  BY <1>2, <1>3, <1>4 DEF EInv, StartTold
<1>8. (Single' => Single) /\ (Won => Won')
  BY <1>1, <1>4, WonKeeps
<1>9. QED
  BY <1>5, <1>6, <1>7, <1>8 DEF EStep, EInv

\* The Send at the end of SetState.
LEMMA OwedKeeps ==
    ASSUME EInv, NEW h \in Handlers, SendOwed(h)
    PROVE  EStep
<1>1. PICK e \in owe[h] : box' = Outbox!Sent(box, e)
  BY DEF SendOwed
<1>2. /\ UNCHANGED <<phase, pc, deleting>> /\ owe' = [owe EXCEPT ![h] = {}]
  BY DEF SendOwed, procVars, shimVars
<1>3. e = "TaskExit" /\ owe' \in [Handlers -> SUBSET {"TaskExit"}]
  BY <1>1, <1>2 DEF EInv, ETypes
<1>4. box' \in OP!Boxes /\ OP!Sound(box)' /\ Streamed' = Streamed \union {e}
  BY <1>1, <1>3, SendsOn DEF EventKinds
<1>5. ETypes'
  BY <1>2, <1>3, <1>4 DEF EInv, ETypes
<1>6. OneClaim' /\ StartTold'
  BY <1>2, <1>3, <1>4 DEF EInv, OneClaim, StartTold
<1>7. (Single' => Single) /\ (Won => Won')
  BY <1>2, WonKeeps
<1>8. QED
  BY <1>5, <1>6, <1>7 DEF EStep, EInv

\* What happens elsewhere.
LEMMA AsideKeeps ==
    ASSUME EInv, UNCHANGED <<phase, box, owe, pc, deleting>>
    PROVE  EStep
<1>1. ETypes'
  BY DEF EInv, ETypes
<1>2. OneClaim' /\ StartTold'
  BY DEF EInv, OneClaim, StartTold, Streamed
<1>3. QED
  BY <1>1, <1>2, WonKeeps DEF EStep, EInv

-----------------------------------------------------------------------------
\* A step of somebody else than a Start.
LEMMA OtherEff ==
    ASSUME EInv, NEW h \in Handlers, h \notin Starters, NEW a, NEW b, Eff(h, a, b)
    PROVE  EStep
BY EffKeeps

\* Looking the exec up.
LEMMA LookupEff ==
    ASSUME EInv, NEW h \in Handlers, NEW f \in {"s_begin", "d_check"}, Lookup(h, f)
    PROVE  \E a \in {"new", "get"}, b \in {"get", f, "refused"} : Eff(h, a, b)
<1>0. phase \in Phases
  BY DEF EInv, ETypes
<1>1. CASE Branch(h, "new", TRUE, IF parent.tracked THEN "get" ELSE "refused")
  <2>1. PICK b \in {"get", "refused"} : Branch(h, "new", TRUE, b)
    BY <1>1
  <2>2. QED
    BY <1>0, <2>1, BranchEff
<1>2. CASE Branch(h, "get", mu = "nobody", IF execs THEN f ELSE "refused")
  <2>1. PICK b \in {f, "refused"} : Branch(h, "get", mu = "nobody", b)
    BY <1>2
  <2>2. QED
    BY <1>0, <2>1, BranchEff
<1>3. QED
  BY <1>1, <1>2 DEF Lookup

\* The labels a Start comes to from its claim before it has won.
OpenLabels == ClaimLabels \ WonLabels

\* A Start on its way, with a claim it has not won.
LEMMA StartWalks ==
    ASSUME EInv, NEW h \in Starters, NEW a \in OpenLabels,
           NEW b \in OpenLabels, Eff(h, a, b)
    PROVE  EStep
<1>1. a # "ok" /\ Claims(a, b)
  BY ClaimNames DEF OpenLabels, Claims
<1>2. QED
  BY <1>1, EffKeeps DEF Handlers

\* A Start.
LEMMA StartE ==
    ASSUME EInv, NEW h \in Starters, Start(h)
    PROVE  EStep
<1>0. h \in Handlers /\ phase \in Phases
  BY DEF Handlers, EInv, ETypes
<1>o. {"s_parent", "s_do", "s_reset", "s_again", "s_job", "s_jobload", "s_load",
       "s_status", "s_pid", "s_done", "s_err", "s_abandon", "s_release",
       "s_abort"} \subseteq OpenLabels
  BY ClaimNames DEF OpenLabels
<1>1. CASE Lookup(h, "s_begin")
  <2>1. PICK a \in {"new", "get"}, b \in {"get", "s_begin", "refused"} : Eff(h, a, b)
    BY <1>0, <1>1, LookupEff
  <2>2. Claims(a, b)
    BY ClaimNames DEF Claims
  <2>3. QED
    BY <1>0, <2>1, <2>2, EffKeeps
<1>2. CASE StartBegins(h)
  <2>1. CASE Branch(h, "s_begin", ~canBecome(phase, "starting"), "s_unindex")
    <3>1. Eff(h, "s_begin", "s_unindex")
      BY <1>0, <2>1, BranchEff
    <3>2. Claims("s_begin", "s_unindex")
      BY ClaimNames DEF Claims
    <3>3. QED
      BY <1>0, <3>1, <3>2, EffKeeps
  <2>2. CASE \/ Branch(h, "s_parent", parent.pid, "s_do")
             \/ Branch(h, "s_parent", ~parent.pid \/ BusErrors, "s_abort")
    <3>1. PICK b \in {"s_do", "s_abort"} : Eff(h, "s_parent", b)
      BY <1>0, <2>2, BranchEff
    <3>2. QED
      BY <1>o, <3>1, StartWalks
  <2>3. QED
    BY <1>2, <2>1, <2>2, ClaimKeeps DEF StartBegins
<1>3. CASE StartsTwice(h)
  <2>1. ASSUME NEW a, NEW f, StartTransientUnit(h, a, f)
        PROVE  Eff(h, a, "s_job") \/ Eff(h, a, f)
    BY <1>0, <2>1 DEF StartTransientUnit, Eff, Effects, Moves, At, proc, event
  <2>2. PICK a \in {"s_do", "s_reset", "s_again"}, b \in {"s_job", "s_reset", "s_again", "s_err"} :
            Eff(h, a, b)
    BY <1>0, <1>3, <2>1, BranchEff DEF StartsTwice
  <2>3. QED
    BY <1>o, <2>2, StartWalks
<1>4. CASE Job(h)
  <2>1. CASE Branch(h, "s_jobload", TRUE,
                    IF Exited(state) /\ state.exitCode = 255 THEN "s_err" ELSE "s_load")
    <3>1. PICK b \in {"s_err", "s_load"} : Branch(h, "s_jobload", TRUE, b)
      BY <2>1
    <3>2. Eff(h, "s_jobload", b)
      BY <1>0, <3>1, BranchEff
    <3>3. QED
      BY <1>o, <3>2, StartWalks
  <2>2. CASE Branch(h, "s_job", unit.job = "done", "s_load")
    <3>1. Eff(h, "s_job", "s_load")
      BY <1>0, <2>2, BranchEff
    <3>2. QED
      BY <1>o, <3>1, StartWalks
  <2>3. CASE Loads(h, "s_job", "s_jobload")
    BY <1>0, <1>o, <2>3, LoadsEff, StartWalks
  <2>4. CASE Calls(h, "s_job", KillUnit, "s_load")
    <3>1. Eff(h, "s_job", "s_load")
      BY <1>0, <2>4, CallsEff
    <3>2. QED
      BY <1>o, <3>1, StartWalks
  <2>5. QED
    BY <1>4, <2>1, <2>2, <2>3, <2>4 DEF Job
<1>5. CASE StartLoads(h)
  <2>1. CASE Loads(h, "s_load", "s_status")
    BY <1>0, <1>o, <2>1, LoadsEff, StartWalks
  <2>2. CASE Branch(h, "s_status", TRUE,
                    IF state.status = exitedInit THEN "s_err" ELSE "s_pid")
    <3>1. PICK b \in {"s_err", "s_pid"} : Branch(h, "s_status", TRUE, b)
      BY <2>2
    <3>2. Eff(h, "s_status", b)
      BY <1>0, <3>1, BranchEff
    <3>3. QED
      BY <1>o, <3>2, StartWalks
  <2>3. CASE Branch(h, "s_pid", ~HasPid, "s_err")
    <3>1. Eff(h, "s_pid", "s_err")
      BY <1>0, <2>3, BranchEff
    <3>2. QED
      BY <1>o, <3>1, StartWalks
  <2>4. CASE /\ At(h, "s_pid") /\ HasPid
             /\ state' = [state EXCEPT !.pid = 1]
             /\ Goto(h, "s_done")
             /\ UNCHANGED <<phase, deleting, recorded, parent, maps, event, sysd, work, obs>>
    <3>1. Eff(h, "s_pid", "s_done")
      BY <1>0, <2>4 DEF Eff, Effects, Moves, At, event
    <3>2. QED
      BY <1>o, <3>1, StartWalks
  <2>5. QED
    BY <1>5, <2>1, <2>2, <2>3, <2>4 DEF StartLoads
<1>6. CASE AbandonIfDeleting(h)
  <2>1. CASE Branch(h, "s_done", TRUE, IF deleting THEN "s_abandon" ELSE "s_finish")
    <3>1. PICK b \in {"s_abandon", "s_finish"} :
              Branch(h, "s_done", TRUE, b) /\ (b = "s_finish" => ~deleting)
      BY <2>1
    <3>2. Eff(h, "s_done", b)
      BY <1>0, <3>1, BranchEff
    <3>3. Claims("s_done", b)
      BY <3>1, ClaimNames DEF Claims
    <3>4. QED
      BY <1>0, <3>2, <3>3, EffKeeps
  <2>2. CASE Branch(h, "s_err", TRUE, IF deleting THEN "s_abandon" ELSE "s_abort")
    <3>1. PICK b \in {"s_abandon", "s_abort"} : Branch(h, "s_err", TRUE, b)
      BY <2>2
    <3>2. Eff(h, "s_err", b)
      BY <1>0, <3>1, BranchEff
    <3>3. QED
      BY <1>o, <3>2, StartWalks
  <2>3. QED
    BY <1>6, <2>1, <2>2 DEF AbandonIfDeleting
<1>7. CASE abandonStartedUnit(h)
  <2>1. \/ Eff(h, "s_abandon", "s_release") \/ Eff(h, "s_release", "s_abort")
    BY <1>0, <1>7, CallsEff DEF abandonStartedUnit
  <2>2. QED
    BY <1>o, <2>1, StartWalks
<1>8. CASE abortStart(h)
  <2>1. CASE SetIndexed(h, "s_unindex", FALSE, "failed")
    <3>1. Eff(h, "s_unindex", "failed")
      BY <1>0, <2>1, MapsEff
    <3>2. Claims("s_unindex", "failed")
      BY ClaimNames DEF Claims
    <3>3. QED
      BY <1>0, <3>1, <3>2, EffKeeps
  <2>2. QED
    BY <1>8, <2>1, AbortKeeps DEF abortStart
<1>9. CASE finishStart(h, 1)
  <2>0. Claims("s_finish", "s_state") /\ Claims("s_state", "s_send") /\ Claims("s_send", "ok")
    BY ClaimNames DEF Claims
  <2>1. CASE Advance(h, "s_finish", "running", "s_state")
    <3>1. Eff(h, "s_finish", "s_state")
      BY <1>0, <2>1, AdvanceEff DEF Phases
    <3>2. QED
      BY <1>0, <2>0, <3>1, EffKeeps
  <2>2. CASE Sets(h, "s_state", Obs(0, 0, 1, "running"), "s_send")
    <3>1. Eff(h, "s_state", "s_send")
      BY <1>0, <2>2, SetsEff
    <3>2. QED
      BY <1>0, <2>0, <3>1, EffKeeps
  <2>3. CASE Sends(h, "s_send", "TaskStart", "ok")
    BY <1>0, <2>0, <2>3, SendKeeps DEF EventKinds
  <2>4. QED
    BY <1>9, <2>1, <2>2, <2>3 DEF finishStart
<1>10. QED
  BY <1>1, <1>2, <1>3, <1>4, <1>5, <1>6, <1>7, <1>8, <1>9 DEF Start

\* A Delete is no Start.
LEMMA DeleteE ==
    ASSUME EInv, NEW h \in Deleters, Delete(h)
    PROVE  EStep
<1>0. h \in Handlers /\ h \notin Starters /\ phase \in Phases
  BY StartersApart DEF Handlers, EInv, ETypes
<1>1. \E a, b : Eff(h, a, b)
  <2>1. CASE Lookup(h, "d_check")
    BY <1>0, <2>1, LookupEff
  <2>2. CASE DeleteStops(h)
    BY <1>0, <2>2, BranchEff, MarkEff, CallsEff DEF DeleteStops
  <2>3. CASE DeleteWaits(h)
    BY <1>0, <2>3, BranchEff, CallsEff DEF DeleteWaits
  <2>4. CASE DeleteEnds(h)
    <3>1. CASE /\ At(h, "d_files")
               /\ file' = NoObs
               /\ Goto(h, "d_release")
               /\ UNCHANGED <<proc, deleting, recorded, parent, maps, event, unit, signals,
                              work, obs>>
      <4>1. Eff(h, "d_files", "d_release")
        BY <1>0, <3>1 DEF Eff, Effects, Moves, At, proc, event
      <4>2. QED
        BY <4>1
    <3>2. CASE Advance(h, "d_finish", "deleted", "d_remove")
      <4>1. "deleted" \in Phases \ {"created"}
        BY DEF Phases
      <4>2. QED
        BY <1>0, <3>2, <4>1, AdvanceEff
    <3>3. QED
      BY <1>0, <2>4, <3>1, <3>2, MapsEff, CallsEff DEF DeleteEnds
  <2>5. QED
    BY <2>1, <2>2, <2>3, <2>4 DEF Delete
<1>2. QED
  BY <1>0, <1>1, OtherEff

\* Neither is Exec, which publishes that the exec is there,
LEMMA ExecE ==
    ASSUME EInv, Exec
    PROVE  EStep
<1> DEFINE h == "exec"
<1>0. h \in Handlers /\ h \notin Starters /\ phase \in Phases
  BY CallersFresh DEF Handlers, EInv, ETypes
<1>1. CASE Sends(h, "e_send", "TaskCreate", "ok")
  BY <1>0, <1>1, SendKeeps DEF EventKinds
<1>2. CASE ~Sends(h, "e_send", "TaskCreate", "ok")
  <2>1. \E a, b : Eff(h, a, b)
    BY <1>0, <1>2, BranchEff, MapsEff DEF Exec, Registers
  <2>2. QED
    BY <1>0, <2>1, OtherEff
<1>3. QED
  BY <1>1, <1>2

\* the exit of the container,
LEMMA ExitE ==
    ASSUME EInv, InitExits
    PROVE  EStep
<1> DEFINE h == "exit"
<1>0. h \in Handlers /\ h \notin Starters /\ phase \in Phases
  BY CallersFresh DEF Handlers, EInv, ETypes
<1>1. CASE /\ At(h, "new") /\ ~parent.alive
           /\ parent' = [parent EXCEPT !.exited = TRUE]
           /\ Goto(h, "x_kill")
           /\ UNCHANGED <<proc, deleting, recorded, maps, event, sysd, work, obs>>
  <2>1. Eff(h, "new", "x_kill")
    BY <1>0, <1>1 DEF Eff, Effects, Moves, At, proc, event
  <2>2. QED
    BY <1>0, <2>1, OtherEff
<1>2. CASE KillsAll(h)
  BY <1>0, <1>2, CallsEff, OtherEff DEF KillsAll
<1>3. CASE Lock(h, "x_lock", "x_each") \/ Unlock(h, "x_unlock", "ok")
  BY <1>0, <1>3, MapsEff, OtherEff
<1>4. CASE Branch(h, "x_each", TRUE, IF execs THEN "x_load" ELSE "x_unlock")
  BY <1>0, <1>4, BranchEff, OtherEff
<1>5. CASE Sweep(h)
  BY <1>0, <1>5, BranchEff, LoadsEff, SetsEff, OtherEff DEF Sweep
<1>6. QED
  BY <1>1, <1>2, <1>3, <1>4, <1>5 DEF InitExits

\* its deletion,
LEMMA ContainerE ==
    ASSUME EInv, ContainerDelete
    PROVE  EStep
<1> DEFINE h == "container"
<1>0. h \in Handlers /\ h \notin Starters /\ phase \in Phases
  BY CallersFresh DEF Handlers, EInv, ETypes
<1>1. ASSUME NEW a, NEW b, At(h, a), Goto(h, b),
             UNCHANGED <<proc, deleting, recorded, maps, event, sysd, work, obs>>
      PROVE  EStep
  <2>1. Eff(h, a, b)
    BY <1>0, <1>1 DEF Eff, Effects, Moves, At, proc, event
  <2>2. QED
    BY <1>0, <2>1, OtherEff
<1>2. CASE Calls(h, "k_runc", RuncKill, "k_lock") \/ Calls(h, "k_release", releaseUnit, "k_unindex")
  BY <1>0, <1>2, CallsEff, OtherEff
<1>3. CASE \/ Lock(h, "k_lock", "k_each") \/ Unlock(h, "k_unlock", "k_untrack")
           \/ SetIndexed(h, "k_unindex", FALSE, "k_unlock")
  BY <1>0, <1>3, MapsEff, OtherEff
<1>4. CASE Branch(h, "k_each", TRUE, IF execs THEN "k_mark" ELSE "k_unlock")
  BY <1>0, <1>4, BranchEff, OtherEff
<1>5. CASE markDeleting(h, "k_mark", "k_release")
  BY <1>0, <1>5, MarkEff, OtherEff
<1>6. QED
  BY <1>1, <1>2, <1>3, <1>4, <1>5 DEF ContainerDelete, SweepReleases

\* and the reactor.
LEMMA ReactorE ==
    ASSUME EInv, Reconcile(ReactorLoads)
    PROVE  EStep
<1> DEFINE h == "reactor"
<1>0. h \in Handlers /\ h \notin Starters /\ phase \in Phases
  BY CallersFresh DEF Handlers, EInv, ETypes
<1>1. ASSUME NEW a, NEW b, At(h, a), Goto(h, b),
             UNCHANGED <<procVars, shimVars, eventVars, sysdVars, obs>>
      PROVE  EStep
  <2>1. Eff(h, a, b)
    BY <1>0, <1>1 DEF Eff, Effects, Moves, At, procVars, shimVars, eventVars
  <2>2. QED
    BY <1>0, <2>1, OtherEff
<1>2. CASE Loads(h, "r_load", "r_read")
  BY <1>0, <1>2, LoadsEff, OtherEff
<1>3. CASE \/ Branch(h, "r_read", Exited(state) \/ state.pid = 0, "idle")
           \/ Branch(h, "r_merge", obs[h] = NoObs, "r_retry")
  BY <1>0, <1>3, BranchEff, OtherEff
<1>4. CASE ReadExit(h, "r_read", "r_merge") \/ MergeRead(h, "r_merge", "idle")
  BY <1>0, <1>4, ReadEff, OtherEff
<1>5. QED
  BY <1>1, <1>2, <1>3, <1>4 DEF Reconcile, ReactorLoads

\* Every step keeps the invariant.
LEMMA StepEInv == EInv /\ [Next]_vars => EStep
<1> SUFFICES ASSUME EInv, [Next]_vars PROVE EStep
  OBVIOUS
<1>1. CASE Helper \/ InitDies \/ ParentStarts
  <2>1. UNCHANGED <<phase, box, owe, pc, deleting>>
    BY <1>1 DEF Helper, InitDies, ParentStarts, proc, event
  <2>2. QED
    BY <2>1, AsideKeeps
<1>2. CASE WorkloadExits(OwnCodes) \/ Collect \/ Informer
  <2>1. UNCHANGED <<phase, box, owe, pc, deleting>>
    BY <1>2 DEF WorkloadExits, Collect, Informer, procVars, shimVars, eventVars
  <2>2. QED
    BY <2>1, AsideKeeps
<1>3. CASE UNCHANGED vars
  <2>1. UNCHANGED <<phase, box, owe, pc, deleting>>
    BY <1>3 DEF vars, proc, event
  <2>2. QED
    BY <2>1, AsideKeeps
<1>4. QED
  BY <1>1, <1>2, <1>3, StartE, DeleteE, ExecE, ExitE, ContainerE, ReactorE, OwedKeeps
     DEF Next, Step

\* At first nothing is published or claimed.
LEMMA InitEInv == Init => EInv
<1> SUFFICES ASSUME Init PROVE EInv
  OBVIOUS
<1>1. /\ phase = "created" /\ box = [o |-> Outbox!newEventOutbox, out |-> <<>>]
      /\ pc = [h \in Handlers |-> IF h = "reactor" THEN "idle" ELSE "new"]
      /\ owe = [h \in Handlers |-> {}]
  BY DEF Init, StepsInit
<1>2. box.out = <<>> /\ box.o.held = <<>> /\ box \in OP!Boxes /\ box.o.started = FALSE
  BY <1>1 DEF Outbox!newEventOutbox, OP!Boxes, OP!Outboxes
<1>3. OP!Sound(box) /\ Streamed = {}
  <2>1. OP!ToSet(<<>>) = {}
    BY DEF OP!ToSet
  <2>2. QED
    BY <1>2, <2>1 DEF OP!Sound, OP!Contents, Streamed
<1>4. \A h \in Starters : pc[h] = "new"
  BY <1>1, CallersFresh DEF Handlers
<1>5. ETypes
  BY <1>1, <1>2, <1>3 DEF ETypes, Phases
<1>6. OneClaim
  BY <1>4, ClaimNames DEF OneClaim
<1>7. QED
  BY <1>3, <1>5, <1>6 DEF EInv, StartTold

\* CopyTo (state.go:393-414) keeps an exit known to either side.
LEMMA CopyToExit ==
    ASSUME NEW s \in pStates, NEW other \in pStates
    PROVE  /\ CopyTo(s, other) \in pStates
           /\ Exited(other) \/ Exited(s) => Exited(CopyTo(s, other))
<1> DEFINE at == IF other.exitedAt = 0 THEN s.exitedAt ELSE other.exitedAt
           code == IF other.exitCode = 0 THEN s.exitCode ELSE other.exitCode
           known == code > 0 \/ toStatus(other.status) = "STOPPED" \/ at > 0
           r == CopyTo(s, other)
<1>1. r \in pStates
  BY DEF CopyTo, pStates
<1>2. toStatus("") # "STOPPED"
  BY DEF toStatus, Created, Running, Stopped
<1>3. \/ r = other /\ ~Exited(s)
      \/ r.exitedAt = at /\ r.exitCode = code /\ r.status = other.status
         /\ (toStatus(s.status) # "STOPPED" \/ ~Exited(s))
      \/ r.exitedAt = at /\ r.exitCode = code /\ r.status = s.status
         /\ (~known \/ Exited(s))
  BY <1>2 DEF CopyTo, pStates, Exited
<1>4. /\ s.exitedAt \in Nat /\ s.exitCode \in Nat
      /\ other.exitedAt \in Nat /\ other.exitCode \in Nat
  BY DEF pStates
<1> HIDE DEF r
<1>5. Exited(other) => Exited(r)
  BY <1>3, <1>4 DEF Exited
<1>6. Exited(s) => Exited(r)
  BY <1>3, <1>4 DEF Exited
<1>7. QED
  BY <1>1, <1>5, <1>6 DEF r

\* What it makes of the pid, of the exit and of the status that tells a failed runc.
LEMMA CopyToFacts ==
    ASSUME NEW s \in pStates, NEW other \in pStates
    PROVE  /\ s.pid > 0 \/ other.pid > 0 <=> CopyTo(s, other).pid > 0
           /\ Exited(CopyTo(s, other)) => Exited(s) \/ Exited(other)
           /\ Exited(s) /\ ~Exited(other) => CopyTo(s, other).exitCode = s.exitCode
           /\ Exited(s) /\ s.status = exitedInit =>
                 CopyTo(s, other).status = exitedInit
<1> DEFINE at == IF other.exitedAt = 0 THEN s.exitedAt ELSE other.exitedAt
           code == IF other.exitCode = 0 THEN s.exitCode ELSE other.exitCode
           pid == IF other.pid = 0 THEN s.pid ELSE other.pid
           r == CopyTo(s, other)
<1>1. /\ s.exitedAt \in Nat /\ s.exitCode \in Nat /\ s.pid \in Nat
      /\ other.exitedAt \in Nat /\ other.exitCode \in Nat /\ other.pid \in Nat
  BY DEF pStates
<1>2. \/ r = other /\ s.pid = 0 /\ ~Exited(s)
      \/ /\ r.exitedAt = at /\ r.exitCode = code /\ r.pid = pid
         /\ r.status \in {s.status, other.status}
  BY DEF CopyTo, pStates
<1> HIDE DEF r
<1>3. s.pid > 0 \/ other.pid > 0 <=> r.pid > 0
  BY <1>1, <1>2
<1>4. Exited(r) => Exited(s) \/ Exited(other)
  BY <1>1, <1>2 DEF Exited
<1>5. Exited(s) /\ ~Exited(other) => r.exitCode = s.exitCode
  BY <1>1, <1>2 DEF Exited
<1>6. Exited(s) /\ s.status = exitedInit => r.status = exitedInit
  BY DEF r, CopyTo, pStates, exitedInit
<1>7. QED
  BY <1>3, <1>4, <1>5, <1>6 DEF r

\* So does applyState (process.go:363-386), in every phase.
LEMMA MergedExit ==
    ASSUME NEW ph, NEW st \in pStates, NEW s \in pStates
    PROVE  /\ merged(ph, st, s) \in pStates
           /\ Exited(st) \/ Exited(s) => Exited(merged(ph, st, s))
<1> DEFINE in == IF beforeRunning(ph) /\ toStatus(s.status) = "RUNNING"
                 THEN [s EXCEPT !.status = "created"] ELSE s
<1>1. in \in pStates
  BY DEF pStates, Statuses, Created
<1>2. Exited(s) => Exited(in)
  <2>1. in.exitedAt = s.exitedAt /\ in.exitCode = s.exitCode
    BY DEF pStates
  <2>2. toStatus(s.status) = "STOPPED" => in = s
    OBVIOUS
  <2> HIDE DEF in
  <2>3. QED
    BY <2>1, <2>2 DEF Exited
<1>3. merged(ph, st, s) = CopyTo(in, st)
  BY DEF merged
<1> HIDE DEF in
<1>4. QED
  BY <1>1, <1>2, <1>3, CopyToExit

\* What SetState makes of a state and an observation.
LEMMA MergedFacts ==
    ASSUME NEW ph, NEW st \in pStates, NEW s \in pStates
    PROVE  /\ merged(ph, st, s) \in pStates
           /\ s.pid > 0 \/ st.pid > 0 <=> merged(ph, st, s).pid > 0
           /\ Exited(merged(ph, st, s)) <=> Exited(s) \/ Exited(st)
           /\ Exited(s) /\ ~Exited(st) => merged(ph, st, s).exitCode = s.exitCode
           /\ Exited(s) /\ s.status = exitedInit =>
                 merged(ph, st, s).status = exitedInit
<1> DEFINE in == IF beforeRunning(ph) /\ toStatus(s.status) = "RUNNING"
                 THEN [s EXCEPT !.status = "created"] ELSE s
<1>1. in \in pStates
  BY DEF pStates, Statuses, Created
<1>2. in.pid = s.pid /\ in.exitCode = s.exitCode /\ in.exitedAt = s.exitedAt
  BY DEF pStates
<1>3. Exited(in) => Exited(s)
  <2>1. in.status = s.status \/ in.status = "created"
    BY DEF pStates
  <2>2. toStatus("created") # "STOPPED"
    BY DEF toStatus, Created, Running, Stopped
  <2> HIDE DEF in
  <2>3. QED
    BY <1>2, <2>1, <2>2 DEF Exited
<1>4. merged(ph, st, s) = CopyTo(in, st)
  BY DEF merged
<1> HIDE DEF in
<1>5. Exited(s) \/ Exited(st) => Exited(merged(ph, st, s))
  BY MergedExit
<1>6. Exited(s) => Exited(in) \/ Exited(st)
  BY <1>1, <1>3, <1>4, <1>5, CopyToFacts
<1>7. merged(ph, st, s) \in pStates
  BY MergedExit
<1>8. s.status = exitedInit => in = s
  BY DEF in, exitedInit, toStatus, Created, Running, Stopped
<1>9. QED
  BY <1>8, <1>1, <1>2, <1>3, <1>4, <1>5, <1>6, <1>7, CopyToFacts

\* What holds before a step, and around it.
Before == /\ RInv /\ VInv /\ EInv /\ Undisturbed
          /\ Single /\ DataFacts /\ PlaceFacts
Around == Before /\ Single' /\ (Won => Won') /\ UNCHANGED scenario

\* The files the helper leaves.
LEMMA FileNames ==
    /\ RunObs \in pStates /\ RunObs # NoObs /\ ~Exited(RunObs) /\ RunObs.pid > 0
    /\ \A s \in FailObs : /\ s \in pStates /\ s # NoObs /\ Exited(s) /\ s.pid > 0
                          /\ s.status = exitedInit /\ s # RunObs /\ s \notin ExitObs
    /\ \A s \in ExitObs : /\ s \in pStates /\ s # NoObs /\ Exited(s) /\ s.pid > 0
                          /\ s # RunObs
<1>1. RunObs \in pStates
  BY DEF RunObs, Obs, pStates, Statuses, Running
<1>2. ~Exited(RunObs) /\ RunObs.pid > 0
  BY DEF RunObs, Obs, Exited, toStatus, Created, Running, Stopped
<1>3. ASSUME NEW c \in Nat, NEW st \in {"exited", exitedInit}
      PROVE  /\ Obs(1, c, 1, st) \in pStates /\ Exited(Obs(1, c, 1, st))
             /\ Obs(1, c, 1, st).pid > 0 /\ Obs(1, c, 1, st).status = st
  <2>1. st \in Statuses
    BY DEF Statuses, Stopped, exitedInit
  <2>2. QED
    BY <2>1 DEF Obs, pStates, Exited
<1>4. \A s \in FailObs : /\ s \in pStates /\ Exited(s) /\ s.pid > 0
                         /\ s.status = exitedInit
  <2>1. RuncCodes \subseteq Nat
    BY DEF RuncCodes
  <2>2. QED
    BY <1>3, <2>1 DEF FailObs
<1>5. \A s \in ExitObs : /\ s \in pStates /\ Exited(s) /\ s.pid > 0
                         /\ s.status = "exited"
  <2>1. OwnCodes \subseteq Nat
    BY DEF OwnCodes
  <2>2. QED
    BY <1>3, <2>1 DEF ExitObs
<1>6. exitedInit # "exited"
  BY DEF exitedInit
<1>7. QED
  BY <1>1, <1>2, <1>4, <1>5, <1>6, NoObsFresh

\* They do not change.
LEMMA FileConstants ==
    RunObs' = RunObs /\ FailObs' = FailObs /\ ExitObs' = ExitObs /\ Reads' = Reads
BY DEF RunObs, FailObs, ExitObs, Reads, Obs

\* Once a Start has won, the exec came to run.
LEMMA WonFacts ==
    ASSUME Before, Won
    PROVE  file \notin FailObs /\ state.pid > 0 /\ unit.st # "starting"
<1>1. PICK g \in Starters : pc[g] \in WonLabels
  BY DEF Won
<1>2. StartAt(pc[g])
  BY <1>1 DEF Before, PlaceFacts, Placed, Handlers
<1>3. QED
  BY <1>1, <1>2 DEF StartAt

\* A marked exec is one whose Start has won.
LEMMA MarkedWon ==
    ASSUME Before, deleting
    PROVE  Won
BY DEF Before, Single

\* A Start that holds the claim and has not won keeps everybody else from it.
LEMMA OpenAlone ==
    ASSUME Before, NEW h \in Starters, pc[h] \in OpenLabels
    PROVE  ~Won /\ ~deleting
<1>1. ~Won
  <2> SUFFICES ASSUME Won PROVE FALSE
    OBVIOUS
  <2>1. PICK g \in Starters : pc[g] \in WonLabels
    BY DEF Won
  <2>2. WonLabels \subseteq ClaimLabels
    BY DEF WonLabels, ClaimLabels
  <2>3. g = h
    BY <2>1, <2>2 DEF Before, EInv, OneClaim, OpenLabels
  <2>4. QED
    BY <2>1, <2>3 DEF OpenLabels
<1>2. QED
  BY <1>1, MarkedWon

-----------------------------------------------------------------------------
\* What no step undoes, so that a goroutine finds what was true when it got to its label.
Onward ==
    /\ deleting => deleting'
    /\ unit.job # "none" => unit'.job # "none"
    /\ Exited(state) => Exited(state')
    /\ state.pid > 0 => state'.pid > 0
    /\ ~deleting' /\ file = RunObs => file' = RunObs
    /\ file' \in FailObs => file \in FailObs \/ unit.st = "starting"
    /\ unit'.st = "starting" => unit.st = "starting" \/ ~Won
    /\ unit'.st = "running" => unit.st = "running" \/ parent.alive
    /\ parent.exited => parent'.exited /\ parent'.ran = parent.ran
    /\ parent'.shared = parent.shared
    /\ parent'.alive => parent.alive
    /\ unit'.st = "running" => parent'.alive = parent.alive \/ parent.shared
    /\ phase' = "running" => phase = "running" \/ Won'

\* Who does not move is still where it may be.
LEMMA StaysPlaced ==
    ASSUME Around, Onward, NEW g \in Handlers, pc'[g] = pc[g]
    PROVE  Placed(g)'
<1> DEFINE l == pc[g]
<1>0. Placed(g) /\ UnitFacts
  BY DEF Around, Before, PlaceFacts, DataFacts
<1>1. ASSUME g \in Starters PROVE StartAt(l)'
  <2>1. StartAt(l)
    BY <1>0, <1>1 DEF Placed
  <2>2. l \in WonLabels => Won
    BY <1>1 DEF Won
  <2>3. unit.st = "starting" => file = NoObs /\ ~Exited(state)
    BY <1>0 DEF UnitFacts
  <2>4. l \in {"s_status", "s_pid", "s_done"} /\ ~deleting => unit.st # "starting"
    BY <2>1, <2>3, FileNames DEF StartAt
  <2>5. /\ l \in WonLabels => file' \notin FailObs /\ state'.pid > 0 /\ unit'.st # "starting"
    BY <2>1, <2>2 DEF StartAt, Onward
  <2>6. ~deleting' => /\ l \in {"s_jobload", "s_load"} => unit'.job # "none"
                      /\ l \in {"s_status", "s_pid", "s_done"} =>
                            Exited(state') \/ (file' = RunObs /\ state'.pid > 0)
                      /\ l = "s_done" => state'.pid > 0
    BY <2>1 DEF StartAt, Onward
  <2>7. ~deleting' /\ l \in {"s_pid", "s_done"} => file' \notin FailObs
    BY <2>1, <2>4 DEF StartAt, Onward
  <2>8. l \in {"s_abandon", "s_release"} => deleting'
    BY <2>1 DEF StartAt, Onward
  <2>9. QED
    BY <2>5, <2>6, <2>7, <2>8, FileConstants DEF StartAt
<1>2. ASSUME g \in Deleters PROVE DeleteAt(l)'
  BY <1>0, <1>2 DEF Placed, DeleteAt, Onward
<1>3. ASSUME g = "exit" PROVE ExitAt(l)'
  BY <1>0, <1>3 DEF Placed, ExitAt, Onward, Around, Spares
<1>4. l' = l
  OBVIOUS
<1>5. QED
  BY <1>0, <1>1, <1>2, <1>3, <1>4 DEF Placed

\* One handler moves to where it may be,
LEMMA PlacesMove ==
    ASSUME Around, Onward, NEW h \in Handlers, NEW a, NEW b, Moves(h, a, b), Placed(h)'
    PROVE  PlaceFacts'
<1>1. \A g \in Handlers : g # h => pc'[g] = pc[g]
  BY Moved DEF Around, Before, RInv
<1>2. \A g \in Handlers : Placed(g)'
  BY <1>1, StaysPlaced
<1>3. phase' = "running" => Won'
  BY DEF Onward, Around, Before, PlaceFacts
<1>4. unit'.st = "running" => parent'.alive \/ parent'.shared
  BY DEF Onward, Around, Before, PlaceFacts
<1>5. QED
  BY <1>2, <1>3, <1>4 DEF PlaceFacts

\* or none does.
LEMMA PlacesStay ==
    ASSUME Around, Onward, UNCHANGED pc
    PROVE  PlaceFacts'
<1>1. \A g \in Handlers : Placed(g)'
  BY StaysPlaced
<1>2. phase' = "running" => Won'
  BY DEF Onward, Around, Before, PlaceFacts
<1>3. unit'.st = "running" => parent'.alive \/ parent'.shared
  BY DEF Onward, Around, Before, PlaceFacts
<1>4. QED
  BY <1>1, <1>2, <1>3 DEF PlaceFacts

\* Who has moved is where it may be: a Start,
LEMMA StartPlaced ==
    ASSUME Before, NEW h \in Starters, NEW a, NEW b, Moves(h, a, b), StartAt(b)'
    PROVE  h \in Handlers /\ Placed(h)'
<1>1. h \in Handlers /\ h \notin Deleters /\ h \notin {"exit", "container"}
  BY StartersApart, CallersFresh DEF Handlers
<1>2. pc'[h] = b
  BY <1>1, Moved DEF Before, RInv
<1>3. b' = b
  OBVIOUS
<1>4. QED
  BY <1>1, <1>2 DEF Placed

\* A Delete,
LEMMA DeletePlaced ==
    ASSUME Before, NEW h \in Deleters, NEW a, NEW b, Moves(h, a, b),
           b \in LateLabels => Exited(state')
    PROVE  h \in Handlers /\ Placed(h)'
<1>1. h \in Handlers /\ h \notin Starters /\ h \notin {"exit", "container"}
  BY StartersApart, CallersFresh DEF Handlers
<1>2. pc'[h] = b
  BY <1>1, Moved DEF Before, RInv
<1>3. QED
  BY <1>1, <1>2 DEF Placed, DeleteAt

\* Exec and the reactor,
LEMMA OtherPlaced ==
    ASSUME Before, NEW h \in {"exec", "reactor"}, NEW a, NEW b, Moves(h, a, b)
    PROVE  h \in Handlers /\ Placed(h)'
<1>1. h \in Handlers /\ h \notin Starters /\ h \notin Deleters /\ h \notin {"exit", "container"}
  BY StartersApart, CallersFresh DEF Handlers
<1>2. QED
  BY <1>1 DEF Placed

\* and the exit of the container.
LEMMA ExitPlaced ==
    ASSUME Before, NEW a, NEW b, Moves("exit", a, b), b # "new",
           parent'.exited /\ ~parent'.alive,
           b # "x_kill" => unit'.st # "running" \/ Spares', b = "x_reap" => Won'
    PROVE  "exit" \in Handlers /\ Placed("exit")'
<1>1. "exit" \in Handlers /\ "exit" \notin Starters /\ "exit" \notin Deleters
  BY CallersFresh DEF Handlers
<1>2. pc'["exit"] = b
  BY <1>1, Moved DEF Before, RInv
<1>3. QED
  BY <1>1, <1>2 DEF Placed, ExitAt

\* Nothing that is owed or in the outbox changes.
LEMMA SameClaims ==
    ASSUME UNCHANGED <<box, owe>>
    PROVE  Claimed' = Claimed
BY DEF Claimed, Streamed

\* What has been seen stays true while the unit and the file are left alone.
LEMMA SeenKeeps ==
    ASSUME Before, UNCHANGED <<unit, file, signals>>,
           recorded' = recorded \/ recorded' = NoObs,
           Exited(state) => Exited(state'),
           obs' = obs \/ \E h \in Handlers : obs' = [obs EXCEPT ![h] = NoObs]
    PROVE  SeenFacts'
<1>1. SeenFacts
  BY DEF Before, DataFacts
<1>2. obs' \in [Handlers -> Reads] /\ \A g \in Handlers : obs'[g] = obs[g] \/ obs'[g] = NoObs
  BY <1>1 DEF SeenFacts, Reads
<1>3. \A s : Truthful(s)' <=> Truthful(s)
  BY DEF Truthful, Alive
<1>4. Truthful(NoObs) /\ NoObs \in Reads
  BY DEF Truthful, Reads
<1>5. signals' \subseteq Reads /\ recorded' \in Reads
  BY <1>1, <1>4 DEF SeenFacts
<1>6. \A g \in Handlers : obs'[g] # NoObs => file' \notin FailObs
  BY <1>1, <1>2 DEF SeenFacts
<1>7. ASSUME ~Exited(state')
      PROVE  /\ \A s \in signals' \union {recorded'} : Truthful(s)'
             /\ \A g \in Handlers : Truthful(obs[g])' /\ (obs'[g] # NoObs => file' = RunObs)
  <2>1. /\ \A s \in signals \union {recorded} : Truthful(s)
        /\ \A g \in Handlers : Truthful(obs[g]) /\ (obs[g] # NoObs => file = RunObs)
    BY <1>1, <1>7 DEF SeenFacts
  <2>2. \A g \in Handlers : Truthful(obs'[g])
    BY <1>2, <1>4, <2>1
  <2>3. \A g \in Handlers : Truthful(obs[g])'
    BY <2>2 DEF Truthful, Alive
  <2>4. QED
    BY <1>2, <1>3, <1>4, <2>1, <2>3
<1>8. QED
  BY <1>2, <1>5, <1>6, <1>7, FileConstants DEF SeenFacts

\* A step that learns and disturbs nothing.
LEMMA CalmKeeps ==
    ASSUME Before, UNCHANGED <<unit, file, signals, obs, state, exitEvent>>,
           recorded' = recorded \/ recorded' = NoObs, Claimed' => Claimed,
           deleting => deleting',
           parent.exited => parent'.exited /\ parent'.ran = parent.ran,
           parent'.shared = parent.shared, parent'.alive => parent.alive,
           unit.st = "running" => parent'.alive = parent.alive \/ parent.shared,
           phase' \in {"exited", "deleted"} <=> phase \in {"exited", "deleted"},
           phase' = "deleted" => deleting',
           phase' = "running" => phase = "running" \/ Won'
    PROVE  DataFacts' /\ Onward
<1>1. UnitFacts'
  BY FileConstants DEF Before, DataFacts, UnitFacts, Alive
<1>2. StateFacts'
  BY FileConstants DEF Before, DataFacts, StateFacts, Alive, Spares
<1>3. SeenFacts'
  BY SeenKeeps
<1>4. ClaimFacts'
  BY FileConstants DEF Before, DataFacts, ClaimFacts, Alive
<1>5. Onward
  BY DEF Onward
<1>6. QED
  BY <1>1, <1>2, <1>3, <1>4, <1>5 DEF DataFacts

\* SetState: an exit it makes known is one of a unit that is gone or spared, with its
\* status, unless runc failed or the container is dead.
LEMMA SetLearns ==
    ASSUME Before, NEW h \in Handlers, NEW s \in pStates, SetState(h, s),
           UNCHANGED <<box, unit, file, deleting, parent>>,
           s.pid > 0 => Exited(s) \/ Exited(state) \/ file = RunObs \/ state.pid > 0,
           file \in FailObs => s = file,
           ~Exited(state) /\ Exited(s) =>
              /\ ~Alive \/ (Spares /\ unit.st = "running")
              /\ \/ file \in FailObs \/ (~Alive /\ s.exitCode = unit.real)
                 \/ parent.exited /\ s.exitCode = Synthetic
    PROVE  /\ StateFacts' /\ ClaimFacts'
           /\ Exited(state') <=> Exited(state) \/ Exited(s)
           /\ state'.pid > 0 <=> state.pid > 0 \/ s.pid > 0
           /\ phase' = "running" => phase = "running"
<1>1. /\ state \in pStates /\ phase \in Phases /\ StateFacts /\ ClaimFacts
      /\ owe \in [Handlers -> SUBSET {"TaskExit"}]
  BY DEF Before, DataFacts, StateFacts, EInv, ETypes
<1>2. state' = merged(phase, state, s) /\ phase' = phaseAfter(phase, state, s)
  BY DEF SetState
<1>3. /\ state' \in pStates
      /\ Exited(state') <=> Exited(state) \/ Exited(s)
      /\ state'.pid > 0 <=> state.pid > 0 \/ s.pid > 0
      /\ Exited(s) /\ ~Exited(state) => state'.exitCode = s.exitCode
      /\ Exited(s) /\ s.status = exitedInit => state'.status = exitedInit
      /\ phase' = IF Exited(state') THEN advance(phase, "exited") ELSE phase
  BY <1>1, <1>2, MergedFacts DEF phaseAfter
<1>4. /\ phase \in {"exited", "deleted"} => advance(phase, "exited") = phase
      /\ phase \notin {"exited", "deleted"} => advance(phase, "exited") = "exited"
  BY <1>1 DEF advance, canBecome, phaseTransitions, Phases
<1>5. /\ Exited(state') <=> phase' \in {"exited", "deleted"}
      /\ phase' = "deleted" => phase = "deleted"
      /\ phase' = "running" => phase = "running"
  BY <1>1, <1>3, <1>4 DEF StateFacts
<1>6. Exited(state') => ~Alive \/ Spares
  BY <1>1, <1>3 DEF StateFacts
<1>7. state'.pid > 0 => Exited(state') \/ file = RunObs
  BY <1>1, <1>3 DEF StateFacts
<1>8. file \in FailObs /\ Exited(state') => state'.status = exitedInit
  BY <1>3, FileNames
<1>9. StateFacts'
  BY <1>1, <1>3, <1>5, <1>6, <1>7, <1>8, FileConstants DEF StateFacts, Alive, Spares
<1>10. Streamed' = Streamed
  BY DEF Streamed
<1>11. ASSUME Claimed'
       PROVE  /\ Exited(state')
              /\ \/ file \in FailObs \/ (~Alive /\ exitEvent' = unit.real)
                 \/ parent.exited /\ exitEvent' = Synthetic
  <2>1. CASE Exited(state)
    <3>1. ~justExited(phase, state, s)
      BY <1>1, <1>2, <1>3, <1>4, <2>1 DEF StateFacts, justExited
    <3>2. UNCHANGED <<owe, exitEvent>>
      BY <3>1 DEF SetState
    <3>3. Claimed
      BY <1>10, <1>11, <3>2 DEF Claimed
    <3>4. QED
      BY <1>1, <1>3, <2>1, <3>2, <3>3 DEF ClaimFacts
  <2>2. CASE ~Exited(state)
    <3>1. ~Claimed
      BY <1>1, <2>2 DEF ClaimFacts
    <3>2. owe' # owe
      BY <1>10, <1>11, <3>1 DEF Claimed
    <3>3. /\ justExited(phase, state, s)
          /\ exitEvent' = merged(phase, state, s).exitCode
      BY <3>2 DEF SetState
    <3>4. Exited(state')
      BY <1>2, <3>3 DEF justExited, phaseAfter
    <3>5. QED
      BY <1>2, <1>3, <2>2, <3>3, <3>4
  <2>3. QED
    BY <2>1, <2>2
<1>12. ClaimFacts'
  BY <1>11, FileConstants DEF ClaimFacts, Synthetic, Alive
<1>13. QED
  BY <1>3, <1>5, <1>9, <1>12

\* The rest of such a step.
LEMMA LearnKeeps ==
    ASSUME Before, NEW h \in Handlers, NEW s \in pStates, SetState(h, s),
           UNCHANGED <<box, unit, file, deleting, parent, signals, recorded>>,
           obs' = obs \/ obs' = [obs EXCEPT ![h] = NoObs],
           s.pid > 0 => Exited(s) \/ Exited(state) \/ file = RunObs \/ state.pid > 0,
           file \in FailObs => s = file,
           ~Exited(state) /\ Exited(s) =>
              /\ ~Alive \/ (Spares /\ unit.st = "running")
              /\ \/ file \in FailObs \/ (~Alive /\ s.exitCode = unit.real)
                 \/ parent.exited /\ s.exitCode = Synthetic
    PROVE  /\ DataFacts' /\ Onward
           /\ Exited(state') <=> Exited(state) \/ Exited(s)
           /\ state'.pid > 0 <=> state.pid > 0 \/ s.pid > 0
<1>1. /\ StateFacts' /\ ClaimFacts'
      /\ Exited(state') <=> Exited(state) \/ Exited(s)
      /\ state'.pid > 0 <=> state.pid > 0 \/ s.pid > 0
      /\ phase' = "running" => phase = "running"
  BY SetLearns
<1>2. SeenFacts'
  BY <1>1, SeenKeeps
<1>3. UnitFacts'
  <2>1. UnitFacts
    BY DEF Before, DataFacts
  <2>2. Exited(state') => unit.st # "starting"
    BY <1>1, <2>1 DEF UnitFacts, Alive
  <2>3. QED
    BY <1>1, <2>1, <2>2, FileConstants DEF UnitFacts, Alive
<1>4. Onward
  BY <1>1 DEF Onward
<1>5. QED
  BY <1>1, <1>2, <1>3, <1>4 DEF DataFacts

-----------------------------------------------------------------------------
\* LoadState, which makes known what the file says.
LEMMA LoadsLearn ==
    ASSUME Before, NEW h \in Handlers, NEW a, NEW b, Loads(h, a, b)
    PROVE  /\ Moves(h, a, b) /\ DataFacts' /\ Onward
           /\ UNCHANGED <<file, unit, deleting, parent>>
           /\ file # NoObs => Exited(state') \/ (file = RunObs /\ state'.pid > 0)
<1>1. /\ Moves(h, a, b)
      /\ UNCHANGED <<box, unit, file, deleting, parent, signals, recorded, obs>>
  BY DEF Loads, Moves, At, sysd
<1>2. CASE file = NoObs
  <2>1. UNCHANGED <<phase, state, owe, exitEvent>>
    BY <1>2 DEF Loads, proc
  <2>2. phase' = "deleted" => deleting'
    BY <1>1, <2>1 DEF Before, DataFacts, StateFacts
  <2>3. DataFacts' /\ Onward
    BY <1>1, <2>1, <2>2, SameClaims, CalmKeeps
  <2>4. QED
    BY <1>1, <1>2, <2>3
<1>3. CASE file # NoObs
  <2>1. SetState(h, file)
    BY <1>3 DEF Loads
  <2>2. UnitFacts
    BY DEF Before, DataFacts
  <2>3. file = RunObs \/ file \in FailObs \/ file \in ExitObs
    BY <1>3, <2>2 DEF UnitFacts
  <2>4. file \in pStates /\ file.pid > 0 /\ (Exited(file) \/ file = RunObs)
    BY <2>3, FileNames
  <2>5. Exited(file) => ~Alive /\ (file \in FailObs \/ file.exitCode = unit.real)
    BY <2>2, <2>3, FileNames DEF UnitFacts
  <2>6. /\ DataFacts' /\ Onward
        /\ Exited(state') <=> Exited(state) \/ Exited(file)
        /\ state'.pid > 0 <=> state.pid > 0 \/ file.pid > 0
    BY <1>1, <2>1, <2>4, <2>5, LearnKeeps
  <2>7. QED
    BY <1>1, <2>4, <2>6
<1>4. QED
  BY <1>2, <1>3

\* A branch.
LEMMA BranchCalm ==
    ASSUME Before, NEW h, NEW a, NEW STATE c, NEW STATE b, Branch(h, a, c, b)
    PROVE  /\ Moves(h, a, b) /\ c /\ DataFacts' /\ Onward
           /\ UNCHANGED <<state, file, unit, deleting, parent, phase>>
<1>1. /\ Moves(h, a, b) /\ c
      /\ UNCHANGED <<unit, file, signals, obs, state, exitEvent, recorded, box, owe,
                     deleting, parent, phase>>
  BY DEF Branch, At, Moves, procVars, shimVars, own, eventVars, sysdVars
<1>2. phase' = "deleted" => deleting'
  BY <1>1 DEF Before, DataFacts, StateFacts
<1>3. QED
  BY <1>1, <1>2, SameClaims, CalmKeeps

\* The maps, their mutex and the mark.
LEMMA MapsCalm ==
    ASSUME Before, NEW h, NEW a, NEW b,
           \/ \E t \in BOOLEAN : SetIndexed(h, a, t, b) \/ SetExecs(h, a, t, b)
           \/ Lock(h, a, b) \/ Unlock(h, a, b) \/ markDeleting(h, a, b)
    PROVE  /\ Moves(h, a, b) /\ DataFacts' /\ Onward
           /\ UNCHANGED <<state, file, unit, parent, phase>>
<1>1. Moves(h, a, b) /\ Still
  BY StillMoves
<1>2. /\ UNCHANGED <<exitEvent, box, owe, parent>> /\ (deleting => deleting')
  BY DEF SetIndexed, SetExecs, Lock, Unlock, markDeleting, event, eventVars, own
<1>3. UNCHANGED <<phase, state, file, signals, recorded, obs, unit>>
  BY <1>1 DEF Still
<1>4. phase' = "deleted" => deleting'
  BY <1>2, <1>3 DEF Before, DataFacts, StateFacts
<1>5. QED
  BY <1>1, <1>2, <1>3, <1>4, SameClaims, CalmKeeps

\* A Send of another event than the exit.
LEMMA SendsCalm ==
    ASSUME Before, NEW h, NEW a, NEW b, NEW e \in {"TaskCreate", "TaskStart"},
           Sends(h, a, e, b)
    PROVE  /\ Moves(h, a, b) /\ DataFacts' /\ Onward
           /\ UNCHANGED <<state, file, unit, parent, phase, deleting>>
<1>1. /\ Moves(h, a, b) /\ box' = Outbox!Sent(box, e)
      /\ UNCHANGED <<unit, file, signals, obs, state, exitEvent, recorded, owe,
                     deleting, parent, phase>>
  BY DEF Sends, At, Moves, procVars, shimVars, own, sysdVars
<1>2. Streamed' = Streamed \union {e}
  BY <1>1, SendsOn DEF Before, EventKinds
<1>3. Claimed' => Claimed
  BY <1>1, <1>2 DEF Claimed
<1>4. phase' = "deleted" => deleting'
  BY <1>1 DEF Before, DataFacts, StateFacts
<1>5. QED
  BY <1>1, <1>3, <1>4, CalmKeeps

\* A move of the phase.
LEMMA AdvanceCalm ==
    ASSUME Before, NEW h, NEW a, NEW b, NEW n \in Phases, Advance(h, a, n, b),
           n \in {"exited", "deleted"} => Exited(state) /\ deleting,
           n = "running" => Won'
    PROVE  /\ Moves(h, a, b) /\ DataFacts' /\ Onward
           /\ UNCHANGED <<state, file, unit, parent, deleting>>
<1>1. /\ Moves(h, a, b) /\ phase' = advance(phase, n)
      /\ UNCHANGED <<unit, file, signals, obs, state, exitEvent, recorded, box, owe,
                     deleting, parent>>
  BY DEF Advance, At, Moves, shimVars, own, eventVars, sysdVars
<1>2. phase \in Phases /\ StateFacts
  BY DEF Before, EInv, ETypes, DataFacts
<1>3. /\ phase' \in {phase, n}
      /\ phase \in {"exited", "deleted"} => phase' \in {"exited", "deleted"}
  BY <1>1, <1>2 DEF advance, canBecome, phaseTransitions, Phases
<1>4. phase' \in {"exited", "deleted"} <=> phase \in {"exited", "deleted"}
  BY <1>2, <1>3 DEF StateFacts
<1>5. phase' = "deleted" => deleting'
  BY <1>1, <1>2, <1>3 DEF StateFacts
<1>6. QED
  BY <1>1, <1>3, <1>4, <1>5, SameClaims, CalmKeeps

\* Nothing fails.
LEMMA NoFaults ==
    ASSUME Before
    PROVE  ~BusErrors /\ ~LostReplies /\ "crash" \notin scenario.faults
BY DEF Before, Undisturbed, BusErrors, LostReplies

\* The unit dies: its death is signalled with its status, and nothing that was seen before
\* says that it had ended, unless the exit is known already, of a unit that was spared.
LEMMA DeathSeen ==
    ASSUME Before, Alive, NEW c \in Nat, NEW r \in Nat, DiesAs(c, r),
           UNCHANGED <<obs, recorded, state>>,
           \A h \in Handlers : obs[h] # NoObs =>
                file' \notin FailObs /\ (~Exited(state) => file' = RunObs)
    PROVE  /\ SeenFacts'
           /\ unit' \in Units /\ unit'.st = "dead" /\ unit'.code = c /\ unit'.real = r
           /\ unit'.job # "none" /\ unit'.ref = unit.ref
<1>1. SeenFacts /\ unit \in Units
  BY DEF Before, DataFacts, VInv, Units
<1>3. unit' = [unit EXCEPT !.st = "dead", !.code = c, !.real = r,
                           !.job = IF unit.job = "none" THEN "failed" ELSE unit.job,
                           !.helper = "gone"]
  BY DEF DiesAs
<1>4. /\ unit' \in Units /\ unit'.st = "dead" /\ unit'.code = c /\ unit'.real = r
      /\ unit'.job # "none" /\ unit'.ref = unit.ref
  BY <1>1, <1>3 DEF Units
<1> DEFINE d == Obs(1, c, 1, "exited")
<1>5. d \in pStates /\ d.exitCode = c /\ NoObs \in Reads /\ d \in Reads
  BY DEF Obs, pStates, Statuses, Stopped, Reads
<1>6. signals' \subseteq signals \union {NoObs, d}
  BY DEF DiesAs, DeathSignals
<1> HIDE DEF d
<1>7. ~Exited(state) =>
         /\ \A s \in signals \union {recorded} : s = NoObs \/ ~Exited(s)
         /\ \A g \in Handlers : obs[g] = NoObs \/ ~Exited(obs[g])
  BY <1>1 DEF SeenFacts, Truthful
<1>8. ~Exited(state) => \A s \in signals' \union {recorded'} : Truthful(s)'
  <2>1. ASSUME ~Exited(state), NEW s \in signals' \union {recorded'} PROVE Truthful(s)'
    <3>1. s = NoObs \/ ~Exited(s) \/ s.exitCode = c
      BY <1>5, <1>6, <1>7, <2>1
    <3>2. QED
      BY <1>4, <3>1 DEF Truthful, Alive
  <2>2. QED
    BY <2>1
<1>9. ~Exited(state) => \A g \in Handlers : Truthful(obs[g])'
  BY <1>7 DEF Truthful
<1>10. /\ signals' \subseteq Reads /\ recorded' \in Reads /\ obs' \in [Handlers -> Reads]
  BY <1>1, <1>5, <1>6 DEF SeenFacts
<1>11. \A g \in Handlers : obs'[g] # NoObs => file' \notin FailObs
  OBVIOUS
<1>12. SeenFacts'
  BY <1>8, <1>9, <1>10, <1>11, FileConstants DEF SeenFacts
<1>13. QED
  BY <1>4, <1>12

\* A running unit dies.
LEMMA RunEnds ==
    ASSUME Before, unit.st = "running", NEW c \in Nat, Dies(c),
           UNCHANGED <<file, state, phase, obs, recorded, box, owe, exitEvent, deleting>>,
           parent.exited => parent'.exited /\ parent'.ran = parent.ran,
           parent'.shared = parent.shared, parent'.alive => parent.alive
    PROVE  DataFacts' /\ Onward /\ unit'.st = "dead"
<1>1. SeenFacts /\ UnitFacts /\ StateFacts /\ ClaimFacts /\ Alive
  BY DEF Before, DataFacts, Alive
<1>2. \A h \in Handlers : obs[h] # NoObs =>
        file' \notin FailObs /\ (~Exited(state) => file' = RunObs)
  BY <1>1 DEF SeenFacts
<1>3. /\ SeenFacts'
      /\ unit'.st = "dead" /\ unit'.code = c /\ unit'.real = c
      /\ unit'.job # "none" /\ unit'.ref = unit.ref
  BY <1>1, <1>2, DeathSeen DEF Dies
<1>4. ~Alive'
  BY <1>3 DEF Alive
<1>5. file \notin ExitObs /\ file \notin FailObs
  BY <1>1 DEF UnitFacts
<1>6. UnitFacts'
  BY <1>1, <1>3, <1>4, <1>5, FileConstants DEF UnitFacts
<1>7. StateFacts'
  BY <1>1, <1>4, FileConstants DEF StateFacts
<1>8. ClaimFacts'
  BY <1>1, <1>5, SameClaims DEF ClaimFacts, Synthetic, Alive
<1>9. Onward
  BY <1>3 DEF Onward
<1>10. QED
  BY <1>3, <1>6, <1>7, <1>8, <1>9 DEF DataFacts

\* The calls that stop or kill the unit of a marked exec, and runc's, find it running or
\* gone.
LEMMA KillsCalm ==
    ASSUME Before, NEW h, NEW a, NEW b,
           \/ Calls(h, a, KillUnit, b) /\ deleting
           \/ Calls(h, a, RuncKill, b)
    PROVE  /\ Moves(h, a, b) /\ DataFacts' /\ Onward
           /\ UNCHANGED <<state, file, parent, deleting>>
           /\ Calls(h, a, RuncKill, b) => unit'.st # "running"
<1>1. /\ Moves(h, a, b)
      /\ UNCHANGED <<file, state, phase, obs, recorded, box, owe, exitEvent, deleting, parent>>
  BY DEF Calls, Moves, At, procVars, shimVars, own, eventVars
<1>2. CASE unit.st = "running" /\ Dies(Killed)
  <2>1. DataFacts' /\ Onward /\ unit'.st = "dead"
    BY <1>1, <1>2, RunEnds DEF Killed
  <2>2. QED
    BY <1>1, <2>1
<1>3. CASE unit.st # "running" /\ UNCHANGED <<unit, signals>>
  <2>1. phase' = "deleted" => deleting'
    BY <1>1 DEF Before, DataFacts, StateFacts
  <2>2. DataFacts' /\ Onward
    BY <1>1, <1>3, <2>1, SameClaims, CalmKeeps
  <2>3. QED
    BY <1>1, <1>3, <2>2
<1>4. CASE Calls(h, a, KillUnit, b) /\ deleting
  <2>1. unit.st # "starting" /\ ~BusErrors
    BY <1>4, MarkedWon, WonFacts, NoFaults
  <2>2. KillUnit
    BY <1>4 DEF Calls
  <2>3. \/ unit.st = "running" /\ Dies(Killed)
        \/ unit.st # "running" /\ UNCHANGED <<unit, signals>>
    BY <2>1, <2>2 DEF KillUnit, Alive
  <2>4. QED
    BY <1>2, <1>3, <2>3
<1>5. CASE Calls(h, a, RuncKill, b)
  <2>1. RuncKill
    BY <1>5 DEF Calls
  <2>2. QED
    BY <1>2, <1>3, <2>1 DEF RuncKill
<1>6. QED
  BY <1>4, <1>5

\* A unit is released, or collected by systemd, only after the exit is known.
LEMMA EndedKeeps ==
    ASSUME Before, Exited(state), deleting, unit' \in Units,
           unit'.st = unit.st \/ (unit.st = "dead" /\ unit'.st = "absent"),
           unit'.job = unit.job, unit'.code = unit.code, unit'.real = unit.real,
           UNCHANGED <<file, state, phase, obs, recorded, signals, box, owe, exitEvent,
                       deleting, parent>>
    PROVE  DataFacts' /\ Onward
<1>1. SeenFacts /\ UnitFacts /\ StateFacts /\ ClaimFacts
  BY DEF Before, DataFacts
<1>2. Alive' = Alive
  BY DEF Alive
<1>3. UnitFacts'
  BY <1>1, <1>2, FileConstants DEF UnitFacts
<1>4. StateFacts'
  BY <1>1, <1>2, FileConstants DEF StateFacts, Spares
<1>5. SeenFacts'
  BY <1>1, FileConstants DEF SeenFacts
<1>6. ClaimFacts'
  BY <1>1, <1>2, SameClaims, FileConstants DEF ClaimFacts, Synthetic
<1>7. Onward
  BY DEF Onward
<1>8. QED
  BY <1>3, <1>4, <1>5, <1>6, <1>7 DEF DataFacts

\* It is released by a Delete,
LEMMA ReleaseCalm ==
    ASSUME Before, NEW h, NEW a, NEW b, Calls(h, a, releaseUnit, b), Exited(state), deleting
    PROVE  Moves(h, a, b) /\ DataFacts' /\ Onward /\ UNCHANGED state
<1>1. /\ Moves(h, a, b) /\ releaseUnit
      /\ UNCHANGED <<file, state, phase, obs, recorded, box, owe, exitEvent, deleting, parent>>
  BY DEF Calls, Moves, At, procVars, shimVars, own, eventVars
<1>2. unit' = [unit EXCEPT !.ref = FALSE] /\ UNCHANGED signals /\ unit \in Units
  BY <1>1 DEF releaseUnit, Before, VInv
<1>3. /\ unit' \in Units /\ unit'.st = unit.st /\ unit'.job = unit.job
      /\ unit'.code = unit.code /\ unit'.real = unit.real
  BY <1>2 DEF Units
<1>4. QED
  BY <1>1, <1>2, <1>3, EndedKeeps

\* and collected by systemd.
LEMMA CollectCalm ==
    ASSUME Around, Collect
    PROVE  DataFacts' /\ PlaceFacts'
<1>1. /\ unit.st = "dead" /\ ~unit.ref /\ unit' = [unit EXCEPT !.st = "absent"]
      /\ UNCHANGED <<file, state, phase, obs, recorded, signals, box, owe, exitEvent,
                     deleting, parent, pc>>
  BY DEF Collect, procVars, shimVars, own, eventVars
<1>2. Before
  BY DEF Around
<1>3. Exited(state) /\ deleting
  BY <1>1, <1>2 DEF Before, DataFacts, UnitFacts
<1>4. /\ unit' \in Units /\ unit'.st = "absent" /\ unit'.job = unit.job
      /\ unit'.code = unit.code /\ unit'.real = unit.real
  BY <1>1, <1>2 DEF Before, VInv, Units
<1>5. DataFacts' /\ Onward
  BY <1>1, <1>2, <1>3, <1>4, EndedKeeps
<1>6. QED
  BY <1>1, <1>5, PlacesStay

\* What systemd says of the unit of an exec that has come to run.
LEMMA TrueReads ==
    ASSUME Before, ~Exited(state), state.pid > 0, NEW s \in UnitReads
    PROVE  Stamped(s) \in pStates /\ Truthful(Stamped(s)) /\ file = RunObs
<1>1. UnitFacts /\ StateFacts /\ unit \in Units
  BY DEF Before, DataFacts, VInv
<1>2. file = RunObs
  BY <1>1 DEF StateFacts
<1>3. unit.st # "absent"
  BY <1>1, <1>2, FileNames DEF UnitFacts, Before, VInv, NoUnitYet, Unobserved
<1>4. unit.st # "starting"
  BY <1>1, <1>2, FileNames DEF UnitFacts
<1>5. unit.st \in {"running", "dead"} /\ ~BusErrors
  BY <1>1, <1>3, <1>4, NoFaults DEF Units
<1>6. CASE unit.st = "running"
  <2>1. s = Obs(0, 0, 1, "running")
    BY <1>5, <1>6 DEF UnitReads, Alive
  <2>2. s = RunObs
    BY <2>1 DEF RunObs
  <2>3. QED
    BY <1>2, <2>2, FileNames DEF Stamped, Truthful
<1>7. CASE unit.st = "dead"
  <2> DEFINE w == IF unit.code = 0 THEN "dead" ELSE "failed"
  <2>1. s = Obs(0, unit.code, 0, w)
    BY <1>5, <1>7 DEF UnitReads, Alive
  <2>2. w \in Stopped /\ w \in Statuses /\ unit.code \in Nat
    BY <1>1 DEF Stopped, Statuses, Units
  <2> HIDE DEF w
  <2>3. s \in pStates /\ s.exitCode = unit.code
    BY <2>1, <2>2 DEF Obs, pStates
  <2>4. Stamped(s) \in pStates /\ (Stamped(s) # NoObs => Stamped(s).exitCode = unit.code)
    BY <2>3, NoObsFresh DEF Stamped, pStates
  <2>5. QED
    BY <1>2, <1>7, <2>4 DEF Truthful, Alive
<1>8. QED
  BY <1>5, <1>6, <1>7

\* A read of the exit puts something true aside,
LEMMA ReadCalm ==
    ASSUME Before, NEW h \in Handlers, NEW a, NEW b, ReadExit(h, a, b)
    PROVE  Moves(h, a, b) /\ DataFacts' /\ Onward
<1>1. /\ Moves(h, a, b) /\ ~Exited(state) /\ state.pid > 0
      /\ UNCHANGED <<unit, file, signals, state, exitEvent, recorded, box, owe,
                     deleting, parent, phase>>
  BY DEF ReadExit, At, Moves, procVars, shimVars, own, eventVars, sysdVars
<1>2. UnitFacts /\ StateFacts /\ SeenFacts /\ ClaimFacts
  BY DEF Before, DataFacts
<1>3. file = RunObs
  BY <1>1, <1>2 DEF StateFacts
<1>4. \E o \in Reads : obs' = [obs EXCEPT ![h] = o] /\ Truthful(o)
  <2>1. CASE recorded # NoObs /\ obs' = [obs EXCEPT ![h] = recorded]
    BY <1>1, <1>2, <2>1 DEF SeenFacts
  <2>2. CASE \E s \in UnitReads : obs' = [obs EXCEPT ![h] = Stamped(s)]
    BY <1>1, <2>2, TrueReads DEF Reads
  <2>3. QED
    BY <2>1, <2>2 DEF ReadExit
<1>5. PICK o \in Reads : obs' = [obs EXCEPT ![h] = o] /\ Truthful(o)
  BY <1>4
<1>6. /\ obs' \in [Handlers -> Reads]
      /\ \A g \in Handlers : obs'[g] = obs[g] \/ obs'[g] = o
  BY <1>2, <1>5 DEF SeenFacts
<1>7. \A g \in Handlers : Truthful(obs'[g])
  BY <1>1, <1>2, <1>5, <1>6 DEF SeenFacts
<1>8. SeenFacts'
  <2>1. \A g \in Handlers : Truthful(obs[g])'
    BY <1>1, <1>7 DEF Truthful, Alive
  <2>2. \A s \in signals' \union {recorded'} : Truthful(s)'
    BY <1>1, <1>2 DEF SeenFacts, Truthful, Alive
  <2>3. signals' \subseteq Reads /\ recorded' \in Reads
    BY <1>1, <1>2 DEF SeenFacts
  <2>4. file' = RunObs /\ file' \notin FailObs
    BY <1>1, <1>3, FileNames
  <2>5. QED
    BY <1>6, <2>1, <2>2, <2>3, <2>4, FileConstants DEF SeenFacts
<1>9. UnitFacts'
  BY <1>1, <1>2, FileConstants DEF UnitFacts, Alive
<1>10. StateFacts'
  BY <1>1, <1>2, FileConstants DEF StateFacts, Alive, Spares
<1>11. ClaimFacts'
  BY <1>1, <1>2, SameClaims, FileConstants DEF ClaimFacts, Synthetic, Alive
<1>12. Onward
  BY <1>1 DEF Onward
<1>13. QED
  BY <1>1, <1>8, <1>9, <1>10, <1>11, <1>12 DEF DataFacts

\* which may be merged much later.
LEMMA MergeCalm ==
    ASSUME Before, NEW h \in Handlers, NEW a, NEW b, obs[h] # NoObs, MergeRead(h, a, b)
    PROVE  Moves(h, a, b) /\ DataFacts' /\ Onward
<1>1. /\ Moves(h, a, b) /\ SetState(h, obs[h]) /\ obs' = [obs EXCEPT ![h] = NoObs]
      /\ UNCHANGED <<box, unit, file, deleting, parent, signals, recorded>>
  BY DEF MergeRead, At, Moves, shimVars, own, sysdVars
<1>2. SeenFacts /\ UnitFacts
  BY DEF Before, DataFacts
<1>3. obs[h] \in pStates /\ file \notin FailObs
  BY <1>2 DEF SeenFacts, Reads
<1>4. ~Exited(state) => file = RunObs /\ Truthful(obs[h])
  BY <1>2 DEF SeenFacts
<1>5. ~Exited(state) /\ Exited(obs[h]) => ~Alive /\ obs[h].exitCode = unit.real
  BY <1>2, <1>4 DEF Truthful, UnitFacts
<1>6. DataFacts' /\ Onward
  BY <1>1, <1>3, <1>4, <1>5, LearnKeeps
<1>7. QED
  BY <1>1, <1>6

-----------------------------------------------------------------------------
\* The informer records a signal of a death.
LEMMA InformerCalm ==
    ASSUME Around, Informer
    PROVE  DataFacts' /\ PlaceFacts'
<1>1. /\ signals' \subseteq signals
      /\ recorded' = recorded \/ recorded' \in signals
      /\ UNCHANGED <<unit, file, state, exitEvent, obs, box, owe, deleting, parent, phase, pc>>
  BY DEF Informer, procVars, own, eventVars
<1>2. UnitFacts /\ StateFacts /\ SeenFacts /\ ClaimFacts
  BY DEF Around, Before, DataFacts
<1>3. SeenFacts'
  <2>1. /\ signals' \subseteq Reads /\ recorded' \in Reads /\ obs' \in [Handlers -> Reads]
        /\ \A g \in Handlers : obs'[g] # NoObs => file' \notin FailObs
    BY <1>1, <1>2 DEF SeenFacts
  <2>2. ASSUME ~Exited(state')
        PROVE  /\ \A s \in signals' \union {recorded'} : Truthful(s)'
               /\ \A g \in Handlers : Truthful(obs[g])' /\ (obs'[g] # NoObs => file' = RunObs)
    <3>1. \A s \in signals' \union {recorded'} : Truthful(s)
      BY <1>1, <1>2, <2>2 DEF SeenFacts
    <3>2. \A s \in signals' \union {recorded'} : Truthful(s)'
      BY <1>1, <3>1 DEF Truthful, Alive
    <3>3. \A g \in Handlers : Truthful(obs[g])' /\ (obs'[g] # NoObs => file' = RunObs)
      BY <1>1, <1>2, <2>2 DEF SeenFacts, Truthful, Alive
    <3>4. QED
      BY <3>2, <3>3
  <2>3. QED
    BY <2>1, <2>2, FileConstants DEF SeenFacts
<1>4. UnitFacts'
  BY <1>1, <1>2, FileConstants DEF UnitFacts, Alive
<1>5. StateFacts'
  BY <1>1, <1>2, FileConstants DEF StateFacts, Alive, Spares
<1>6. ClaimFacts'
  BY <1>1, <1>2, SameClaims, FileConstants DEF ClaimFacts, Synthetic, Alive
<1>7. Onward
  BY <1>1 DEF Onward
<1>8. QED
  BY <1>1, <1>3, <1>4, <1>5, <1>6, <1>7, PlacesStay DEF DataFacts

\* The Send of an exit that was owed.
LEMMA OwedCalm ==
    ASSUME Around, NEW h \in Handlers, SendOwed(h)
    PROVE  DataFacts' /\ PlaceFacts'
<1>1. PICK e \in owe[h] : box' = Outbox!Sent(box, e)
  BY DEF SendOwed
<1>2. /\ owe' = [owe EXCEPT ![h] = {}]
      /\ UNCHANGED <<unit, file, signals, state, exitEvent, obs, recorded, deleting, parent,
                     phase, pc>>
  BY DEF SendOwed, procVars, shimVars, own, sysdVars
<1>3. Before /\ owe \in [Handlers -> SUBSET {"TaskExit"}] /\ EInv
  BY DEF Around, Before, EInv, ETypes
<1>4. e = "TaskExit" /\ e \in EventKinds
  BY <1>1, <1>3 DEF EventKinds
<1>5. Claimed
  BY <1>1, <1>4 DEF Claimed
<1>6. phase' = "deleted" => deleting'
  BY <1>2, <1>3 DEF Before, DataFacts, StateFacts
<1>7. DataFacts' /\ Onward
  BY <1>2, <1>3, <1>5, <1>6, CalmKeeps
<1>8. QED
  BY <1>2, <1>7, PlacesStay

\* The workload ends by itself.
LEMMA WorkloadCalm ==
    ASSUME Around, WorkloadExits(OwnCodes)
    PROVE  DataFacts' /\ PlaceFacts'
<1>1. PICK c \in OwnCodes : Dies(c)
  BY DEF WorkloadExits
<1>2. /\ unit.st = "running" /\ c \in Nat
      /\ UNCHANGED <<file, state, phase, obs, recorded, box, owe, exitEvent, deleting, parent, pc>>
  BY DEF WorkloadExits, OwnCodes, procVars, shimVars, own, eventVars
<1>3. DataFacts' /\ Onward
  BY <1>1, <1>2, RunEnds DEF Around
<1>4. QED
  BY <1>2, <1>3, PlacesStay

\* The container's init dies, and may take the exec along; or the container is started.
LEMMA ParentCalm ==
    ASSUME Around, InitDies \/ ParentStarts
    PROVE  DataFacts' /\ PlaceFacts'
<1>0. parent \in Parents /\ Before
  BY DEF Around, Before, RInv, Types
<1>1. UNCHANGED <<file, state, phase, obs, recorded, box, owe, exitEvent, deleting, pc>>
  BY DEF InitDies, ParentStarts, proc, event, sysd
<1>2. /\ parent'.exited = parent.exited /\ parent'.shared = parent.shared
      /\ parent.exited => parent'.ran = parent.ran
      /\ parent'.alive => parent.alive
  BY <1>0 DEF InitDies, ParentStarts, Parents
<1>3. phase' = "deleted" => deleting'
  BY <1>0, <1>1 DEF Before, DataFacts, StateFacts
<1>4. CASE /\ UNCHANGED <<unit, signals>>
           /\ unit.st = "running" => parent'.alive = parent.alive \/ parent.shared
  <2>1. DataFacts' /\ Onward
    BY <1>0, <1>1, <1>2, <1>3, <1>4, SameClaims, CalmKeeps
  <2>2. QED
    BY <1>1, <2>1, PlacesStay
<1>5. CASE unit.st = "running" /\ Dies(Killed)
  <2>1. DataFacts' /\ Onward
    BY <1>0, <1>1, <1>2, <1>5, RunEnds DEF Killed
  <2>2. QED
    BY <1>1, <2>1, PlacesStay
<1>6. ParentStarts => parent'.alive = parent.alive
  BY <1>0 DEF ParentStarts, Parents
<1>7. QED
  BY <1>4, <1>5, <1>6 DEF InitDies, ParentStarts, RuncKill, sysd

\* The helper finds nobody who has seen anything of the exec yet.
LEMMA FirstLook ==
    ASSUME Before, unit.st = "starting"
    PROVE  /\ ~deleting /\ ~Won /\ file = NoObs /\ ~Exited(state) /\ ~(state.pid > 0)
           /\ ~Claimed /\ unit.ref /\ unit.job = "none" /\ unit.code = unit.real
           /\ \A h \in Handlers : obs[h] = NoObs
<1>1. UnitFacts /\ StateFacts /\ SeenFacts /\ ClaimFacts
  BY DEF Before, DataFacts
<1>2. ~Won /\ ~deleting
  BY WonFacts, MarkedWon
<1>3. file = NoObs /\ ~Exited(state) /\ unit.ref /\ unit.job = "none" /\ unit.code = unit.real
  BY <1>1 DEF UnitFacts
<1>4. file # RunObs
  BY <1>3, FileNames
<1>5. ~(state.pid > 0) /\ ~Claimed /\ \A h \in Handlers : obs[h] = NoObs
  BY <1>1, <1>3, <1>4 DEF StateFacts, SeenFacts, ClaimFacts
<1>6. QED
  BY <1>2, <1>3, <1>5

\* It reports a workload that runs,
LEMMA HelperRuns ==
    ASSUME Before, unit.st = "starting", parent.alive,
           unit' = [unit EXCEPT !.st = "running", !.job = "done"], file' = RunObs,
           UNCHANGED <<signals, phase, state, deleting, recorded, parent, box, owe,
                       exitEvent, obs>>
    PROVE  DataFacts' /\ Onward
<1>1. UnitFacts /\ StateFacts /\ SeenFacts /\ ClaimFacts /\ unit \in Units
  BY DEF Before, DataFacts, VInv
<1>2. /\ ~deleting /\ ~Won /\ file = NoObs /\ ~Exited(state) /\ ~(state.pid > 0)
      /\ ~Claimed /\ unit.ref /\ unit.job = "none" /\ unit.code = unit.real
      /\ \A h \in Handlers : obs[h] = NoObs
  BY FirstLook
<1>3. /\ unit'.st = "running" /\ unit'.job = "done" /\ unit'.ref = unit.ref
      /\ unit'.code = unit.code /\ unit'.real = unit.real
  BY <1>1 DEF Units
<1>4. file' \notin FailObs /\ file' \notin ExitObs /\ file' # NoObs
  BY FileNames
<1>5. UnitFacts'
  BY <1>2, <1>3, <1>4, FileConstants DEF UnitFacts
<1>6. StateFacts'
  BY <1>1, <1>2, <1>4, FileConstants DEF StateFacts
<1>7. SeenFacts'
  <2>1. /\ signals' \subseteq Reads /\ recorded' \in Reads /\ obs' \in [Handlers -> Reads]
    BY <1>1 DEF SeenFacts
  <2>2. \A s \in signals \union {recorded} : s = NoObs \/ ~Exited(s)
    BY <1>1, <1>2 DEF SeenFacts, Truthful, Alive
  <2>3. \A s \in signals' \union {recorded'} : Truthful(s)'
    BY <2>2 DEF Truthful
  <2>4. \A g \in Handlers : Truthful(obs[g])'
    BY <1>2 DEF Truthful
  <2>5. QED
    BY <1>2, <2>1, <2>3, <2>4, FileConstants DEF SeenFacts
<1>8. ClaimFacts'
  BY <1>2, SameClaims DEF ClaimFacts
<1>9. Onward
  BY <1>2, <1>3, <1>4 DEF Onward
<1>10. QED
  BY <1>5, <1>6, <1>7, <1>8, <1>9 DEF DataFacts

\* or one that has ended.
LEMMA HelperEnds ==
    ASSUME Before, unit.st = "starting", NEW c \in Nat, NEW r \in Nat, DiesAs(c, r),
           file' \in FailObs \/ (file' \in ExitObs /\ file'.exitCode = r),
           UNCHANGED <<phase, state, deleting, recorded, parent, box, owe, exitEvent, obs>>
    PROVE  DataFacts' /\ Onward
<1>1. UnitFacts /\ StateFacts /\ SeenFacts /\ ClaimFacts /\ Alive
  BY DEF Before, DataFacts, Alive
<1>2. /\ ~deleting /\ ~Won /\ file = NoObs /\ ~Exited(state) /\ ~(state.pid > 0)
      /\ ~Claimed /\ unit.ref /\ \A h \in Handlers : obs[h] = NoObs
  BY FirstLook
<1>3. /\ SeenFacts' /\ unit'.st = "dead" /\ unit'.real = r
      /\ unit'.job # "none" /\ unit'.ref = unit.ref
  BY <1>1, <1>2, DeathSeen
<1>4. file' # NoObs /\ file' # RunObs /\ (file' \in FailObs => file' \notin ExitObs) /\ ~Alive'
  BY <1>3, FileNames DEF Alive
<1>5. UnitFacts'
  BY <1>2, <1>3, <1>4, FileConstants DEF UnitFacts
<1>6. StateFacts'
  BY <1>1, <1>2, <1>4, FileConstants DEF StateFacts
<1>7. ClaimFacts'
  BY <1>2, SameClaims DEF ClaimFacts
<1>8. Onward
  BY <1>2, <1>3, <1>4, FileNames DEF Onward
<1>9. QED
  BY <1>3, <1>5, <1>6, <1>7, <1>8 DEF DataFacts

\* These are all it does when it does not crash.
LEMMA HelperCalm ==
    ASSUME Around, Helper
    PROVE  DataFacts' /\ PlaceFacts'
<1>0. /\ Before /\ unit.st = "starting"
      /\ UNCHANGED <<phase, state, deleting, recorded, parent, box, owe, exitEvent, obs, pc>>
  BY DEF Around, Helper, proc, event
<1>1. CASE /\ parent.alive
           /\ unit' = [unit EXCEPT !.st = "running", !.job = "done"]
           /\ file' = Obs(0, 0, 1, "running")
           /\ UNCHANGED signals
  BY <1>0, <1>1, HelperRuns, PlacesStay DEF RunObs
<1>2. CASE \E c \in RuncCodes : Dies(HelperFailed) /\ file' = Obs(1, c, 1, exitedInit)
  <2>1. DiesAs(HelperFailed, HelperFailed) /\ file' \in FailObs /\ HelperFailed \in Nat
    BY <1>2 DEF Dies, FailObs, HelperFailed
  <2>2. DataFacts' /\ Onward
    BY <1>0, <2>1, HelperEnds
  <2>3. QED
    BY <1>0, <2>2, PlacesStay
<1>3. CASE \E c \in OwnCodes : /\ DiesAs(IF c = 0 THEN 0 ELSE HelperFailed, c)
                               /\ file' = Obs(1, c, 1, "exited")
  <2>1. PICK c \in OwnCodes : /\ DiesAs(IF c = 0 THEN 0 ELSE HelperFailed, c)
                              /\ file' = Obs(1, c, 1, "exited")
    BY <1>3
  <2>2. c \in Nat /\ (IF c = 0 THEN 0 ELSE HelperFailed) \in Nat
    BY DEF OwnCodes, HelperFailed
  <2>3. file' \in ExitObs /\ file'.exitCode = c
    BY <2>1 DEF ExitObs, Obs
  <2>4. DataFacts' /\ Onward
    BY <1>0, <2>1, <2>2, <2>3, HelperEnds
  <2>5. QED
    BY <1>0, <2>4, PlacesStay
<1>4. "crash" \notin scenario.faults
  BY <1>0, NoFaults
<1>5. QED
  BY <1>1, <1>2, <1>3, <1>4 DEF Helper

-----------------------------------------------------------------------------
\* StartTransientUnit makes the first unit, or finds one.
LEMMA MakesCalm ==
    ASSUME Before, NEW h \in Starters, NEW a \in {"s_do", "s_again"}, NEW f,
           StartTransientUnit(h, a, f)
    PROVE  /\ Moves(h, a, "s_job") \/ Moves(h, a, f)
           /\ DataFacts' /\ Onward
<1>1. /\ pc[h] = a
      /\ UNCHANGED <<phase, state, deleting, parent, box, owe, exitEvent, file, signals, obs>>
      /\ recorded' \in {recorded, NoObs}
  BY DEF StartTransientUnit, At, proc, event
<1>2. Moves(h, a, "s_job") \/ Moves(h, a, f)
  BY DEF StartTransientUnit, At, Moves
<1>3. ~Won /\ ~deleting
  BY <1>1, ClaimNames, OpenAlone DEF OpenLabels
<1>4. UnitFacts /\ StateFacts /\ SeenFacts /\ ClaimFacts /\ unit \in Units
  BY DEF Before, DataFacts, VInv
<1>5. CASE unit.st # "absent"
  <2>1. UNCHANGED unit
    BY <1>5 DEF StartTransientUnit
  <2>2. phase' = "deleted" => deleting'
    BY <1>1, <1>4 DEF StateFacts
  <2>3. QED
    BY <1>1, <1>2, <2>1, <2>2, SameClaims, CalmKeeps
<1>6. CASE unit.st = "absent"
  <2>1. unit' = [unit EXCEPT !.st = "starting", !.ref = TRUE, !.job = "none"]
    BY <1>6, NoFaults DEF StartTransientUnit, NewUnit
  <2>2. /\ unit'.st = "starting" /\ unit'.ref /\ unit'.job = "none"
        /\ unit'.code = unit.code /\ unit'.real = unit.real
    BY <1>4, <2>1 DEF Units
  <2>3. unit.job = "none" /\ unit.code = unit.real
    BY <1>3, <1>4, <1>6 DEF UnitFacts
  <2>4. Unobserved /\ Blank
    BY <1>6, <2>3 DEF Before, VInv, NoUnitYet
  <2>5. state = noState
    BY <1>3, <1>4, <2>4 DEF Blank, StateFacts
  <2>6. ~Exited(state) /\ ~(state.pid > 0) /\ ~Claimed
    <3>1. ~Exited(noState) /\ ~(noState.pid > 0)
      BY DEF noState, Exited, toStatus, Created, Running, Stopped
    <3>2. QED
      BY <1>4, <2>5, <3>1 DEF ClaimFacts
  <2>7. /\ file = NoObs /\ file # RunObs /\ file \notin FailObs /\ file \notin ExitObs
        /\ signals = {} /\ recorded' = NoObs /\ \A g \in Handlers : obs[g] = NoObs
    BY <1>1, <2>4, FileNames DEF Unobserved
  <2>8. UnitFacts'
    BY <1>1, <2>2, <2>3, <2>6, <2>7, FileConstants DEF UnitFacts
  <2>9. StateFacts'
    BY <1>1, <1>4, <2>6, <2>7, FileConstants DEF StateFacts
  <2>10. SeenFacts'
    BY <1>1, <1>4, <2>7, FileConstants DEF SeenFacts, Truthful, Reads
  <2>11. ClaimFacts'
    BY <1>1, <2>6, SameClaims DEF ClaimFacts
  <2>12. Onward
    BY <1>1, <1>3, <2>2, <2>3, <2>7 DEF Onward
  <2>13. QED
    BY <1>2, <2>8, <2>9, <2>10, <2>11, <2>12 DEF DataFacts
<1>7. QED
  BY <1>5, <1>6

\* A Start moves on.
LEMMA StartMoves ==
    ASSUME Around, Onward, NEW h \in Starters, NEW a, NEW b, Moves(h, a, b), StartAt(b)'
    PROVE  PlaceFacts'
<1>1. Before
  BY DEF Around
<1>2. h \in Handlers /\ Placed(h)'
  BY <1>1, StartPlaced
<1>3. QED
  BY <1>2, PlacesMove

\* The labels that ask for nothing.
FreeLabels == {"get", "refused", "s_begin", "s_parent", "s_do", "s_reset", "s_again", "s_job",
               "s_err", "s_abort", "s_unindex", "failed"}

\* A Start may go to them from anywhere.
LEMMA StartFree ==
    ASSUME Around, Onward, NEW h \in Starters, NEW a, NEW b \in FreeLabels, Moves(h, a, b)
    PROVE  PlaceFacts'
<1>1. StartAt(b)'
  BY DEF StartAt, FreeLabels, WonLabels
<1>2. QED
  BY <1>1, StartMoves

\* Where a Start is.
LEMMA StartIs ==
    ASSUME Before, NEW h \in Starters
    PROVE  h \in Handlers /\ StartAt(pc[h])
BY DEF Before, PlaceFacts, Placed, Handlers

\* The lookup and the claim.
LEMMA LookupReal ==
    ASSUME Around, NEW h \in Starters, Lookup(h, "s_begin") \/ StartBegins(h)
    PROVE  DataFacts' /\ PlaceFacts'
<1>0. Before
  BY DEF Around
<1>1. ASSUME NEW a, NEW STATE c, NEW STATE b, b \in FreeLabels, Branch(h, a, c, b)
      PROVE  DataFacts' /\ PlaceFacts'
  <2>1. Moves(h, a, b) /\ DataFacts' /\ Onward
    BY <1>0, <1>1, BranchCalm
  <2>2. PICK l \in FreeLabels : l = b
    BY <1>1
  <2>3. Moves(h, a, l)
    BY <2>1, <2>2
  <2>4. QED
    BY <2>1, <2>3, StartFree
<1>2. CASE Lookup(h, "s_begin")
  <2>1. (IF parent.tracked THEN "get" ELSE "refused") \in FreeLabels
    BY DEF FreeLabels
  <2>2. (IF execs THEN "s_begin" ELSE "refused") \in FreeLabels
    BY DEF FreeLabels
  <2>3. QED
    BY <1>1, <1>2, <2>1, <2>2 DEF Lookup
<1>3. CASE Advance(h, "s_begin", "starting", "s_parent")
  <2>1. "starting" \in Phases /\ "s_parent" \in FreeLabels
    BY DEF Phases, FreeLabels
  <2>2. Moves(h, "s_begin", "s_parent") /\ DataFacts' /\ Onward
    BY <1>0, <1>3, <2>1, AdvanceCalm
  <2>3. QED
    BY <2>1, <2>2, StartFree
<1>4. {"s_unindex", "s_do", "s_abort"} \subseteq FreeLabels
  BY DEF FreeLabels
<1>5. QED
  BY <1>1, <1>2, <1>3, <1>4 DEF StartBegins

\* The unit is made.
LEMMA TwiceReal ==
    ASSUME Around, NEW h \in Starters, StartsTwice(h)
    PROVE  DataFacts' /\ PlaceFacts'
<1>0. Before /\ {"s_job", "s_reset", "s_again", "s_err"} \subseteq FreeLabels
  BY DEF Around, FreeLabels
<1>1. CASE StartTransientUnit(h, "s_do", "s_reset") \/ StartTransientUnit(h, "s_again", "s_err")
  <2>1. /\ DataFacts' /\ Onward
        /\ \E a, b : b \in FreeLabels /\ Moves(h, a, b)
    BY <1>0, <1>1, MakesCalm
  <2>2. QED
    BY <2>1, StartFree
<1>2. CASE \/ Branch(h, "s_reset", unit.st # "absent", "s_again")
           \/ Branch(h, "s_reset", unit.st = "absent" \/ BusErrors, "s_err")
  <2>1. /\ DataFacts' /\ Onward
        /\ Moves(h, "s_reset", "s_again") \/ Moves(h, "s_reset", "s_err")
    BY <1>0, <1>2, BranchCalm
  <2>2. QED
    BY <1>0, <2>1, StartFree
<1>3. QED
  BY <1>1, <1>2 DEF StartsTwice

\* Its start job ends.
LEMMA JobReal ==
    ASSUME Around, NEW h \in Starters, Job(h)
    PROVE  DataFacts' /\ PlaceFacts'
<1>0. Before /\ h \in Handlers /\ StartAt(pc[h]) /\ ~BusErrors
  BY StartIs, NoFaults DEF Around
<1>1. ASSUME NEW a, NEW b \in {"s_jobload", "s_load"}, Moves(h, a, b), Onward,
             ~deleting' => unit'.job # "none"
      PROVE  PlaceFacts'
  <2>1. StartAt(b)'
    BY <1>1 DEF StartAt, WonLabels
  <2>2. QED
    BY <1>1, <2>1, StartMoves
<1>2. CASE Branch(h, "s_job", unit.job = "done", "s_load")
  <2>1. /\ Moves(h, "s_job", "s_load") /\ unit.job = "done" /\ DataFacts' /\ Onward
        /\ UNCHANGED unit
    BY <1>0, <1>2, BranchCalm
  <2>2. QED
    BY <1>1, <2>1
<1>3. CASE unit.job = "failed" /\ Loads(h, "s_job", "s_jobload")
  <2>1. Moves(h, "s_job", "s_jobload") /\ DataFacts' /\ Onward /\ UNCHANGED unit
    BY <1>0, <1>3, LoadsLearn
  <2>2. QED
    BY <1>1, <1>3, <2>1
<1>4. CASE Branch(h, "s_jobload", TRUE,
                  IF Exited(state) /\ state.exitCode = 255 THEN "s_err" ELSE "s_load")
  <2>1. /\ Moves(h, "s_jobload",
                 IF Exited(state) /\ state.exitCode = 255 THEN "s_err" ELSE "s_load")
        /\ DataFacts' /\ Onward /\ UNCHANGED <<unit, deleting>>
    BY <1>0, <1>4, BranchCalm
  <2>2. Moves(h, "s_jobload", "s_err") \/ Moves(h, "s_jobload", "s_load")
    BY <2>1
  <2>3. ~deleting => unit.job # "none"
    BY <1>0, <2>2 DEF StartAt, Moves
  <2>4. "s_err" \in FreeLabels
    BY DEF FreeLabels
  <2>5. QED
    BY <1>1, <2>1, <2>2, <2>3, <2>4, StartFree
<1>5. QED
  BY <1>0, <1>2, <1>3, <1>4 DEF Job

\* What the helper reported is loaded, and the pid is looked for.
LEMMA LoadsReal ==
    ASSUME Around, NEW h \in Starters, StartLoads(h)
    PROVE  DataFacts' /\ PlaceFacts'
<1>0. /\ Before /\ h \in Handlers /\ StartAt(pc[h]) /\ "s_err" \in FreeLabels
      /\ UnitFacts /\ StateFacts /\ SeenFacts /\ ClaimFacts
  BY StartIs DEF Around, Before, DataFacts, FreeLabels
<1>1. CASE Loads(h, "s_load", "s_status")
  <2>1. /\ Moves(h, "s_load", "s_status") /\ DataFacts' /\ Onward
        /\ UNCHANGED <<file, unit, deleting, parent>>
        /\ file # NoObs => Exited(state') \/ (file = RunObs /\ state'.pid > 0)
    BY <1>0, <1>1, LoadsLearn
  <2>2. ~deleting => file # NoObs
    BY <1>0, <2>1 DEF StartAt, Moves, UnitFacts
  <2>3. StartAt("s_status")'
    BY <2>1, <2>2, FileConstants DEF StartAt, WonLabels
  <2>4. QED
    BY <2>1, <2>3, StartMoves
<1>2. CASE Branch(h, "s_status", TRUE, IF state.status = exitedInit THEN "s_err" ELSE "s_pid")
  <2>1. /\ Moves(h, "s_status", IF state.status = exitedInit THEN "s_err" ELSE "s_pid")
        /\ DataFacts' /\ Onward /\ UNCHANGED <<state, file, unit, deleting>>
    BY <1>0, <1>2, BranchCalm
  <2>2. CASE state.status = exitedInit
    BY <1>0, <2>1, <2>2, StartFree
  <2>3. CASE state.status # exitedInit
    <3>1. Moves(h, "s_status", "s_pid")
      BY <2>1, <2>3
    <3>2. ~deleting => Exited(state) \/ (file = RunObs /\ state.pid > 0)
      BY <1>0, <3>1 DEF StartAt, Moves
    <3>3. ~deleting => file \notin FailObs
      BY <1>0, <2>3, <3>2, FileNames DEF StateFacts
    <3>4. StartAt("s_pid")'
      BY <2>1, <3>2, <3>3, FileConstants DEF StartAt, WonLabels
    <3>5. QED
      BY <2>1, <3>1, <3>4, StartMoves
  <2>4. QED
    BY <2>2, <2>3
<1>3. CASE Branch(h, "s_pid", ~HasPid, "s_err")
  <2>1. Moves(h, "s_pid", "s_err") /\ DataFacts' /\ Onward
    BY <1>0, <1>3, BranchCalm
  <2>2. QED
    BY <1>0, <2>1, StartFree
<1>4. CASE /\ At(h, "s_pid") /\ HasPid
           /\ state' = [state EXCEPT !.pid = 1]
           /\ Goto(h, "s_done")
           /\ UNCHANGED <<phase, deleting, recorded, parent, maps, event, sysd, work, obs>>
  <2>1. /\ Moves(h, "s_pid", "s_done") /\ pc[h] = "s_pid"
        /\ UNCHANGED <<phase, deleting, recorded, parent, box, owe, exitEvent, unit, file,
                       signals, obs>>
    BY <1>4 DEF At, Moves, event, sysd
  <2>2. ~deleting
    BY <1>0, <2>1, ClaimNames, OpenAlone DEF OpenLabels
  <2>3. /\ Exited(state) \/ (file = RunObs /\ state.pid > 0)
        /\ file \notin FailObs
    BY <1>0, <2>1, <2>2 DEF StartAt
  <2>4. /\ state' \in pStates /\ state'.pid = 1 /\ state'.status = state.status
        /\ state'.exitCode = state.exitCode /\ state'.exitedAt = state.exitedAt
    BY <1>0, <1>4 DEF StateFacts, pStates
  <2>5. Exited(state') <=> Exited(state)
    BY <2>4 DEF Exited
  <2>6. StateFacts'
    BY <1>0, <2>1, <2>3, <2>4, <2>5, FileConstants DEF StateFacts, Alive, Spares
  <2>7. UnitFacts'
    BY <1>0, <2>1, <2>5, FileConstants DEF UnitFacts, Alive
  <2>8. SeenFacts'
    BY <1>0, <2>1, <2>5, SeenKeeps
  <2>9. ClaimFacts'
    BY <1>0, <2>1, <2>5, SameClaims, FileConstants DEF ClaimFacts, Synthetic, Alive
  <2>10. Onward
    BY <2>1, <2>4, <2>5 DEF Onward
  <2>11. StartAt("s_done")'
    BY <2>1, <2>3, <2>4, <2>5, FileConstants DEF StartAt, WonLabels
  <2>12. QED
    BY <2>1, <2>6, <2>7, <2>8, <2>9, <2>10, <2>11, StartMoves DEF DataFacts
<1>5. QED
  BY <1>1, <1>2, <1>3, <1>4 DEF StartLoads

\* The mark is looked at: nobody can have set it.
LEMMA MarkReal ==
    ASSUME Around, NEW h \in Starters, AbandonIfDeleting(h) \/ abandonStartedUnit(h)
    PROVE  DataFacts' /\ PlaceFacts'
<1>0. /\ Before /\ h \in Handlers /\ StartAt(pc[h]) /\ UnitFacts /\ StateFacts
  BY StartIs DEF Around, Before, DataFacts
<1>1. pc[h] \in {"s_done", "s_err", "s_abandon", "s_release"}
  BY DEF AbandonIfDeleting, abandonStartedUnit, Branch, Calls, At
<1>2. ~deleting
  BY <1>0, <1>1, ClaimNames, OpenAlone DEF OpenLabels
<1>3. AbandonIfDeleting(h)
  BY <1>0, <1>2 DEF StartAt, abandonStartedUnit, Calls, At
<1>4. CASE Branch(h, "s_done", TRUE, IF deleting THEN "s_abandon" ELSE "s_finish")
  <2>1. /\ Moves(h, "s_done", IF deleting THEN "s_abandon" ELSE "s_finish")
        /\ DataFacts' /\ Onward /\ UNCHANGED <<state, file, unit, deleting>>
    BY <1>0, <1>4, BranchCalm
  <2>2. Moves(h, "s_done", "s_finish")
    BY <1>2, <2>1
  <2>3. /\ Exited(state) \/ file = RunObs
        /\ file \notin FailObs /\ state.pid > 0
    BY <1>0, <1>2, <2>2 DEF StartAt, Moves
  <2>4. unit.st # "starting"
    BY <1>0, <2>3, FileNames DEF UnitFacts
  <2>5. StartAt("s_finish")'
    BY <1>2, <2>1, <2>3, <2>4, FileConstants DEF StartAt
  <2>6. QED
    BY <2>1, <2>2, <2>5, StartMoves
<1>5. CASE Branch(h, "s_err", TRUE, IF deleting THEN "s_abandon" ELSE "s_abort")
  <2>1. /\ Moves(h, "s_err", IF deleting THEN "s_abandon" ELSE "s_abort")
        /\ DataFacts' /\ Onward
    BY <1>0, <1>5, BranchCalm
  <2>2. Moves(h, "s_err", "s_abort") /\ "s_abort" \in FreeLabels
    BY <1>2, <2>1 DEF FreeLabels
  <2>3. QED
    BY <2>1, <2>2, StartFree
<1>6. QED
  BY <1>3, <1>4, <1>5 DEF AbandonIfDeleting

\* A failed Start hands the claim back, one that has won finishes.
LEMMA EndReal ==
    ASSUME Around, NEW h \in Starters, abortStart(h) \/ finishStart(h, 1)
    PROVE  DataFacts' /\ PlaceFacts'
<1>0. /\ Before /\ h \in Handlers /\ StartAt(pc[h])
      /\ {"s_unindex", "failed"} \subseteq FreeLabels /\ {"created", "running"} \subseteq Phases
  BY StartIs DEF Around, FreeLabels, Phases
<1>1. CASE Advance(h, "s_abort", "created", "s_unindex")
  <2>1. Moves(h, "s_abort", "s_unindex") /\ DataFacts' /\ Onward
    BY <1>0, <1>1, AdvanceCalm
  <2>2. QED
    BY <1>0, <2>1, StartFree
<1>2. CASE SetIndexed(h, "s_unindex", FALSE, "failed")
  <2>1. Moves(h, "s_unindex", "failed") /\ DataFacts' /\ Onward
    BY <1>0, <1>2, MapsCalm
  <2>2. QED
    BY <1>0, <2>1, StartFree
<1>3. CASE finishStart(h, 1)
  <2>1. pc[h] \in WonLabels
    BY <1>3 DEF finishStart, Advance, Sets, Sends, At, WonLabels
  <2>2. Won /\ Won' /\ file \notin FailObs /\ state.pid > 0 /\ unit.st # "starting"
    BY <1>0, <2>1 DEF Won, StartAt, Around
  <2>3. ASSUME NEW a, NEW b \in WonLabels, Moves(h, a, b), Onward, UNCHANGED <<file, unit>>
        PROVE  PlaceFacts'
    <3>1. StartAt(b)'
      BY <2>2, <2>3, FileConstants DEF StartAt, WonLabels, Onward
    <3>2. QED
      BY <2>3, <3>1, StartMoves
  <2>4. {"s_state", "s_send", "ok"} \subseteq WonLabels
    BY DEF WonLabels
  <2>5. CASE Advance(h, "s_finish", "running", "s_state")
    <3>1. Moves(h, "s_finish", "s_state") /\ DataFacts' /\ Onward /\ UNCHANGED <<file, unit>>
      BY <1>0, <2>2, <2>5, AdvanceCalm
    <3>2. QED
      BY <2>3, <2>4, <3>1
  <2>6. CASE Sets(h, "s_state", Obs(0, 0, 1, "running"), "s_send")
    <3>1. /\ Moves(h, "s_state", "s_send") /\ SetState(h, RunObs)
          /\ UNCHANGED <<box, unit, file, deleting, parent, signals, recorded, obs>>
      BY <2>6 DEF Sets, At, Moves, shimVars, own, sysdVars, RunObs
    <3>2. DataFacts' /\ Onward
      BY <1>0, <2>2, <3>1, FileNames, LearnKeeps
    <3>3. QED
      BY <2>3, <2>4, <3>1, <3>2
  <2>7. CASE Sends(h, "s_send", "TaskStart", "ok")
    <3>1. Moves(h, "s_send", "ok") /\ DataFacts' /\ Onward /\ UNCHANGED <<file, unit>>
      BY <1>0, <2>7, SendsCalm
    <3>2. QED
      BY <2>3, <2>4, <3>1
  <2>8. QED
    BY <1>3, <2>5, <2>6, <2>7 DEF finishStart
<1>4. QED
  BY <1>1, <1>2, <1>3 DEF abortStart

\* Every step of a Start.
LEMMA StartReal ==
    ASSUME Around, NEW h \in Starters, Start(h)
    PROVE  DataFacts' /\ PlaceFacts'
BY LookupReal, TwiceReal, JobReal, LoadsReal, MarkReal, EndReal DEF Start

\* A Delete moves on.
LEMMA DeleteMoves ==
    ASSUME Around, Onward, NEW h \in Deleters, NEW a, NEW b, Moves(h, a, b),
           b \in LateLabels => Exited(state')
    PROVE  PlaceFacts'
<1>1. Before
  BY DEF Around
<1>2. h \in Handlers /\ Placed(h)'
  BY <1>1, DeletePlaced
<1>3. QED
  BY <1>2, PlacesMove

\* Where a Delete is.
LEMMA DeleteIs ==
    ASSUME Before, NEW h \in Deleters
    PROVE  /\ h \in Handlers /\ DeleteAt(pc[h])
           /\ pc[h] \in MarkedLabels => deleting
BY DEF Before, PlaceFacts, Placed, Handlers, RInv, Marked

\* The exit state file is removed, of an exec whose exit is known.
LEMMA FilesCalm ==
    ASSUME Before, Exited(state), deleting, file' = NoObs,
           UNCHANGED <<phase, state, deleting, recorded, parent, box, owe, exitEvent, unit,
                       signals, obs>>
    PROVE  DataFacts' /\ Onward
<1>1. UnitFacts /\ StateFacts /\ SeenFacts /\ ClaimFacts
  BY DEF Before, DataFacts
<1>2. file \notin FailObs /\ unit.st # "starting"
  BY MarkedWon, WonFacts
<1>3. file' # RunObs /\ file' \notin FailObs /\ file' \notin ExitObs
  BY FileNames
<1>4. unit.job # "none" \/ unit.code = unit.real
  BY <1>1 DEF UnitFacts
<1>5. UnitFacts'
  BY <1>1, <1>2, <1>3, <1>4, FileConstants DEF UnitFacts, Alive
<1>6. StateFacts'
  BY <1>1, <1>3, FileConstants DEF StateFacts, Alive, Spares
<1>7. SeenFacts'
  BY <1>1, <1>3, FileConstants DEF SeenFacts
<1>8. ClaimFacts'
  BY <1>1, <1>2, SameClaims, FileConstants DEF ClaimFacts, Synthetic, Alive
<1>9. Onward
  BY <1>3 DEF Onward
<1>10. QED
  BY <1>5, <1>6, <1>7, <1>8, <1>9 DEF DataFacts

\* Every step of a Delete: it has marked the exec before it touches the unit, so a Start has
\* won, and it has waited for the exit before it removes anything.
LEMMA DeleteReal ==
    ASSUME Around, NEW h \in Deleters, Delete(h)
    PROVE  DataFacts' /\ PlaceFacts'
<1> USE DEF LateLabels
<1>0. /\ Before /\ h \in Handlers /\ DeleteAt(pc[h]) /\ ~BusErrors
      /\ pc[h] \in MarkedLabels => deleting
  BY DeleteIs, NoFaults DEF Around
<1>1. ASSUME NEW a, NEW STATE c, NEW STATE b, Branch(h, a, c, b),
             b \in LateLabels => Exited(state)
      PROVE  DataFacts' /\ PlaceFacts'
  <2>1. Moves(h, a, b) /\ DataFacts' /\ Onward /\ UNCHANGED state
    BY <1>0, <1>1, BranchCalm
  <2>2. \E l : l = b
    OBVIOUS
  <2>3. PICK l : l = b
    BY <2>2
  <2>4. Moves(h, a, l) /\ (l \in LateLabels => Exited(state'))
    BY <1>1, <2>1, <2>3
  <2>5. QED
    BY <2>1, <2>4, DeleteMoves
<1>2. ASSUME NEW a, NEW b, b \in LateLabels => Exited(state),
             \/ \E t \in BOOLEAN : SetIndexed(h, a, t, b) \/ SetExecs(h, a, t, b)
             \/ markDeleting(h, a, b)
      PROVE  DataFacts' /\ PlaceFacts'
  <2>1. Moves(h, a, b) /\ DataFacts' /\ Onward /\ UNCHANGED state
    BY <1>0, <1>2, MapsCalm
  <2>2. QED
    BY <1>2, <2>1, DeleteMoves
<1>3. CASE Lookup(h, "d_check")
  BY <1>1, <1>3 DEF Lookup
<1>4. CASE DeleteStops(h)
  <2>1. CASE Calls(h, "d_stop", KillUnit, "d_pid")
    <3>1. deleting
      BY <1>0, <2>1 DEF Calls, At, MarkedLabels
    <3>2. Moves(h, "d_stop", "d_pid") /\ DataFacts' /\ Onward
      BY <1>0, <2>1, <3>1, KillsCalm
    <3>3. QED
      BY <3>2, DeleteMoves
  <2>2. QED
    BY <1>1, <1>2, <1>4, <2>1 DEF DeleteStops
<1>5. CASE DeleteWaits(h)
  <2>1. CASE Branch(h, "d_pid", TRUE, IF state.pid > 0 THEN "d_wait" ELSE "d_finish")
    <3>1. pc[h] = "d_pid"
      BY <2>1 DEF Branch, At
    <3>2. deleting
      BY <1>0, <3>1 DEF MarkedLabels
    <3>3. state.pid > 0
      BY <1>0, <3>2, MarkedWon, WonFacts
    <3>4. QED
      BY <1>1, <2>1, <3>3
  <2>2. CASE Branch(h, "d_wait", phase = "deleted" \/ Exited(state), "d_finish")
    <3>1. phase = "deleted" \/ Exited(state)
      BY <2>2 DEF Branch
    <3>2. Exited(state)
      BY <1>0, <3>1 DEF Before, DataFacts, StateFacts
    <3>3. QED
      BY <1>1, <2>2, <3>2
  <2>3. QED
    BY <1>0, <1>5, <2>1, <2>2 DEF DeleteWaits
<1>6. CASE DeleteEnds(h)
  <2>1. pc[h] \in LateLabels
    BY <1>6 DEF DeleteEnds, Advance, SetExecs, SetIndexed, Calls, At
  <2>2. Exited(state) /\ deleting
    BY <1>0, <2>1 DEF DeleteAt, MarkedLabels
  <2>3. CASE Advance(h, "d_finish", "deleted", "d_remove")
    <3>1. Moves(h, "d_finish", "d_remove") /\ DataFacts' /\ Onward /\ UNCHANGED state
      BY <1>0, <2>2, <2>3, AdvanceCalm DEF Phases
    <3>2. QED
      BY <2>2, <3>1, DeleteMoves
  <2>4. CASE /\ At(h, "d_files")
             /\ file' = NoObs
             /\ Goto(h, "d_release")
             /\ UNCHANGED <<proc, deleting, recorded, parent, maps, event, unit, signals,
                            work, obs>>
    <3>1. /\ Moves(h, "d_files", "d_release")
          /\ UNCHANGED <<phase, state, deleting, recorded, parent, box, owe, exitEvent,
                         unit, signals, obs>>
      BY <2>4 DEF Moves, At, proc, event
    <3>2. DataFacts' /\ Onward
      BY <1>0, <2>2, <2>4, <3>1, FilesCalm
    <3>3. QED
      BY <2>2, <3>1, <3>2, DeleteMoves
  <2>5. CASE Calls(h, "d_release", releaseUnit, "d_again")
    <3>1. Moves(h, "d_release", "d_again") /\ DataFacts' /\ Onward /\ UNCHANGED state
      BY <1>0, <2>2, <2>5, ReleaseCalm
    <3>2. QED
      BY <2>2, <3>1, DeleteMoves
  <2>6. QED
    BY <1>2, <1>6, <2>2, <2>3, <2>4, <2>5 DEF DeleteEnds
<1>7. QED
  BY <1>3, <1>4, <1>5, <1>6 DEF Delete

-----------------------------------------------------------------------------
\* Exec and the reactor may be anywhere.
LEMMA OtherMoves ==
    ASSUME Around, Onward, NEW h \in {"exec", "reactor"}, NEW a, NEW b, Moves(h, a, b)
    PROVE  PlaceFacts'
<1>1. Before
  BY DEF Around
<1>2. h \in Handlers /\ Placed(h)'
  BY <1>1, OtherPlaced
<1>3. QED
  BY <1>2, PlacesMove

\* Every step of Exec,
LEMMA ExecReal ==
    ASSUME Around, Exec
    PROVE  DataFacts' /\ PlaceFacts'
<1>0. Before
  BY DEF Around
<1> DEFINE h == "exec"
<1>1. \E a, b : Moves(h, a, b) /\ DataFacts' /\ Onward
  <2>1. ASSUME NEW a, NEW STATE c, NEW STATE b, Branch(h, a, c, b)
        PROVE  \E x, y : Moves(h, x, y) /\ DataFacts' /\ Onward
    <3>1. Moves(h, a, b) /\ DataFacts' /\ Onward
      BY <1>0, <2>1, BranchCalm
    <3>2. QED
      BY <3>1
  <2>2. QED
    BY <1>0, <2>1, MapsCalm, SendsCalm DEF Exec, Registers
<1>2. QED
  BY <1>1, OtherMoves

\* and of the reactor, whose read of the exit may be stale when it is merged.
LEMMA ReactorReal ==
    ASSUME Around, Reconcile(ReactorLoads)
    PROVE  DataFacts' /\ PlaceFacts'
<1> DEFINE h == "reactor"
<1>0. Before /\ h \in Handlers
  BY DEF Around, Handlers
<1>1. \E a, b : Moves(h, a, b) /\ DataFacts' /\ Onward
  <2>1. ASSUME NEW a, NEW STATE c, NEW STATE b, Branch(h, a, c, b)
        PROVE  \E x, y : Moves(h, x, y) /\ DataFacts' /\ Onward
    <3>1. Moves(h, a, b) /\ DataFacts' /\ Onward
      BY <1>0, <2>1, BranchCalm
    <3>2. QED
      BY <3>1
  <2>2. ASSUME NEW a, NEW STATE b, At(h, a), Goto(h, b),
               UNCHANGED <<procVars, shimVars, eventVars, sysdVars, obs>>
        PROVE  \E x, y : Moves(h, x, y) /\ DataFacts' /\ Onward
    <3>1. /\ Moves(h, a, b)
          /\ UNCHANGED <<unit, file, signals, obs, state, exitEvent, recorded, box, owe,
                         deleting, parent, phase>>
      BY <2>2 DEF At, Moves, procVars, shimVars, own, eventVars, sysdVars
    <3>2. phase' = "deleted" => deleting'
      BY <1>0, <3>1 DEF Before, DataFacts, StateFacts
    <3>3. DataFacts' /\ Onward
      BY <1>0, <3>1, <3>2, SameClaims, CalmKeeps
    <3>4. QED
      BY <3>1, <3>3
  <2>3. QED
    BY <1>0, <2>1, <2>2, LoadsLearn, ReadCalm, MergeCalm DEF Reconcile, ReactorLoads
<1>2. QED
  BY <1>1, OtherMoves

\* The exit of the container moves on.
LEMMA ExitMoves ==
    ASSUME Around, Onward, NEW a, NEW b, Moves("exit", a, b), b # "new",
           parent'.exited /\ ~parent'.alive,
           b # "x_kill" => unit'.st # "running" \/ Spares', b = "x_reap" => Won'
    PROVE  PlaceFacts'
<1>1. Before
  BY DEF Around
<1>2. "exit" \in Handlers /\ Placed("exit")'
  BY <1>1, ExitPlaced
<1>3. QED
  BY <1>2, PlacesMove

\* The sweep over the execs of a dead container ends the ones that ran: nothing runs in it
\* any more, or nothing was there to kill it.
LEMMA ExitReal ==
    ASSUME Around, InitExits
    PROVE  DataFacts' /\ PlaceFacts'
<1> DEFINE h == "exit"
<1>0. /\ Before /\ h \in Handlers /\ ExitAt(pc[h]) /\ parent \in Parents
      /\ phase \in Phases /\ unit \in Units
  BY DEF Around, Before, PlaceFacts, Placed, Handlers, RInv, Types, EInv, ETypes
<1>1. CASE /\ At(h, "new") /\ ~parent.alive
           /\ parent' = [parent EXCEPT !.exited = TRUE]
           /\ Goto(h, "x_kill")
           /\ UNCHANGED <<proc, deleting, recorded, maps, event, sysd, work, obs>>
  <2>1. /\ Moves(h, "new", "x_kill")
        /\ UNCHANGED <<unit, file, signals, obs, state, exitEvent, recorded, box, owe,
                       deleting, phase>>
    BY <1>1 DEF At, Moves, proc, event, sysd
  <2>2. /\ parent'.exited /\ ~parent'.alive /\ parent'.alive = parent.alive
        /\ parent'.shared = parent.shared /\ parent'.ran = parent.ran
    BY <1>0, <1>1 DEF Parents
  <2>3. phase' = "deleted" => deleting'
    BY <1>0, <2>1 DEF Before, DataFacts, StateFacts
  <2>4. DataFacts' /\ Onward
    BY <1>0, <2>1, <2>2, <2>3, SameClaims, CalmKeeps
  <2>5. QED
    BY <2>1, <2>2, <2>4, ExitMoves
<1>2. CASE KillsAll(h)
  <2>1. CASE Calls(h, "x_kill", RuncKill, "x_lock")
    <3>1. /\ Moves(h, "x_kill", "x_lock") /\ DataFacts' /\ Onward
          /\ unit'.st # "running" /\ UNCHANGED parent
      BY <1>0, <2>1, KillsCalm
    <3>2. parent.exited /\ ~parent.alive
      BY <1>0, <3>1 DEF ExitAt, Moves
    <3>3. QED
      BY <3>1, <3>2, ExitMoves
  <2>2. CASE Branch(h, "x_kill", TRUE, "x_lock") /\ (~parent.ran \/ ~parent.shared)
    <3>1. Moves(h, "x_kill", "x_lock") /\ DataFacts' /\ Onward /\ UNCHANGED <<unit, parent>>
      BY <1>0, <2>2, BranchCalm
    <3>2. parent.exited /\ ~parent.alive
      BY <1>0, <3>1 DEF ExitAt, Moves
    <3>3. unit.st # "running" \/ Spares
      BY <1>0, <2>2, <3>2 DEF Before, PlaceFacts, Spares
    <3>4. unit'.st # "running" \/ Spares'
      BY <3>1, <3>3 DEF Spares
    <3>5. QED
      BY <3>1, <3>2, <3>4, ExitMoves
  <2>3. ~BusErrors
    BY <1>0, NoFaults
  <2>4. QED
    BY <1>2, <2>1, <2>2, <2>3, KillsOrNot
<1>3. ASSUME NEW a, NEW b, Moves(h, a, b), a \notin {"new", "x_kill"}, b # "new", Onward,
             DataFacts', UNCHANGED <<unit, parent>>, b = "x_reap" => Won
      PROVE  DataFacts' /\ PlaceFacts'
  <2>1. parent.exited /\ ~parent.alive /\ (unit.st # "running" \/ Spares)
    BY <1>0, <1>3 DEF ExitAt, Moves
  <2>2. unit'.st # "running" \/ Spares'
    BY <1>3, <2>1 DEF Spares
  <2>3. QED
    BY <1>3, <2>1, <2>2, ExitMoves DEF Around
<1>4. CASE Lock(h, "x_lock", "x_each")
  <2>1. /\ Moves(h, "x_lock", "x_each") /\ DataFacts' /\ Onward /\ UNCHANGED <<unit, parent>>
    BY <1>0, <1>4, MapsCalm
  <2>2. QED
    BY <1>3, <2>1
<1>5. CASE Unlock(h, "x_unlock", "ok")
  <2>1. /\ Moves(h, "x_unlock", "ok") /\ DataFacts' /\ Onward /\ UNCHANGED <<unit, parent>>
    BY <1>0, <1>5, MapsCalm
  <2>2. QED
    BY <1>3, <2>1
<1>6. CASE Branch(h, "x_each", TRUE, IF execs THEN "x_load" ELSE "x_unlock")
  <2>1. /\ Moves(h, "x_each", IF execs THEN "x_load" ELSE "x_unlock")
        /\ DataFacts' /\ Onward /\ UNCHANGED <<unit, parent>>
    BY <1>0, <1>6, BranchCalm
  <2>2. Moves(h, "x_each", "x_load") \/ Moves(h, "x_each", "x_unlock")
    BY <2>1
  <2>3. QED
    BY <1>3, <2>1, <2>2
<1>7. CASE Loads(h, "x_load", "x_look")
  <2>1. Moves(h, "x_load", "x_look") /\ DataFacts' /\ Onward /\ UNCHANGED <<unit, parent>>
    BY <1>0, <1>7, LoadsLearn
  <2>2. QED
    BY <1>3, <2>1
<1>8. CASE Branch(h, "x_look", TRUE,
                  IF beforeRunning(phase) \/ Exited(state) THEN "x_unlock" ELSE "x_reap")
  <2>1. /\ Moves(h, "x_look",
                 IF beforeRunning(phase) \/ Exited(state) THEN "x_unlock" ELSE "x_reap")
        /\ DataFacts' /\ Onward /\ UNCHANGED <<unit, parent>>
    BY <1>0, <1>8, BranchCalm
  <2>2. CASE beforeRunning(phase) \/ Exited(state)
    <3>1. Moves(h, "x_look", "x_unlock")
      BY <2>1, <2>2
    <3>2. QED
      BY <1>3, <2>1, <3>1
  <2>3. CASE ~beforeRunning(phase) /\ ~Exited(state)
    <3>1. Moves(h, "x_look", "x_reap")
      BY <2>1, <2>3
    <3>2. phase = "running"
      BY <1>0, <2>3 DEF Before, DataFacts, StateFacts, beforeRunning, Phases
    <3>3. Won
      BY <1>0, <3>2 DEF Before, PlaceFacts
    <3>4. QED
      BY <1>3, <2>1, <3>1, <3>3
  <2>4. QED
    BY <2>2, <2>3
<1>9. CASE Sets(h, "x_reap", Obs(1, Synthetic, 0, ""), "x_unlock")
  <2> DEFINE s == Obs(1, Synthetic, 0, "")
  <2>1. /\ Moves(h, "x_reap", "x_unlock") /\ SetState(h, s)
        /\ UNCHANGED <<box, unit, file, deleting, parent, signals, recorded, obs>>
    BY <1>9 DEF Sets, At, Moves, shimVars, own, sysdVars
  <2>2. "" \in Statuses
    BY DEF Statuses
  <2>3. s \in pStates /\ s.exitCode = Synthetic /\ s.pid = 0
    <3>1. ASSUME NEW w \in Statuses
          PROVE  /\ Obs(1, Synthetic, 0, w) \in pStates
                 /\ Obs(1, Synthetic, 0, w).exitCode = Synthetic
                 /\ Obs(1, Synthetic, 0, w).pid = 0
      BY DEF Obs, pStates, Synthetic
    <3>2. QED
      BY <2>2, <3>1
  <2>4. Won /\ parent.exited /\ (unit.st # "running" \/ Spares)
    BY <1>0, <2>1 DEF ExitAt, Moves
  <2>5. file \notin FailObs /\ unit.st # "starting"
    BY <1>0, <2>4, WonFacts
  <2>6. ~Alive \/ (Spares /\ unit.st = "running")
    BY <2>4, <2>5 DEF Alive
  <2> HIDE DEF s
  <2>7. DataFacts' /\ Onward
    BY <1>0, <2>1, <2>3, <2>4, <2>5, <2>6, LearnKeeps
  <2>8. QED
    BY <1>3, <2>1, <2>7
<1>10. QED
  BY <1>1, <1>2, <1>4, <1>5, <1>6, <1>7, <1>8, <1>9 DEF InitExits, Sweep

\* Nobody deletes the container.
LEMMA ContainerNot ==
    ASSUME Before
    PROVE  ~ContainerDelete
<1>1. pc["container"] = "new" /\ "container" \notin scenario.callers
  BY DEF Before, PlaceFacts, Placed, Handlers, Undisturbed
<1>2. QED
  BY <1>1 DEF ContainerDelete, SweepReleases, Calls, Lock, Unlock, Branch, markDeleting,
              SetIndexed, At

-----------------------------------------------------------------------------
\* Every step keeps what is true of the data and of the goroutines.
LEMMA StepReal == Around /\ Next => DataFacts' /\ PlaceFacts'
<1> SUFFICES ASSUME Around, Next PROVE DataFacts' /\ PlaceFacts'
  OBVIOUS
<1>1. ~ContainerDelete
  BY ContainerNot DEF Around
<1>2. QED
  BY <1>1, HelperCalm, WorkloadCalm, ParentCalm, CollectCalm, ExecReal, StartReal,
     DeleteReal, ExitReal, InformerCalm, ReactorReal, OwedCalm DEF Next, Step

\* Every step keeps the invariant.
LEMMA StepYInv == RInv /\ VInv /\ EInv /\ YInv /\ [Next]_vars => YInv'
<1> SUFFICES ASSUME RInv, VInv, EInv, YInv, [Next]_vars, Undisturbed', Single'
             PROVE  DataFacts' /\ PlaceFacts'
  BY DEF YInv
<1>1. UNCHANGED scenario
  BY DEF Next, vars
<1>2. Undisturbed
  BY <1>1 DEF Undisturbed
<1>3. Single /\ (Won => Won')
  BY StepEInv DEF EStep
<1>4. Around
  BY <1>1, <1>2, <1>3 DEF Around, Before, YInv
<1>5. CASE Next
  BY <1>4, <1>5, StepReal
<1>6. CASE UNCHANGED vars
  <2>1. UNCHANGED <<unit, file, signals, obs, state, exitEvent, recorded, box, owe,
                    deleting, parent, phase, pc>>
    BY <1>6 DEF vars, proc, event, sysd
  <2>2. Before /\ (phase' = "deleted" => deleting')
    BY <1>4, <2>1 DEF Around, Before, DataFacts, StateFacts
  <2>3. DataFacts' /\ Onward
    BY <2>1, <2>2, SameClaims, CalmKeeps
  <2>4. QED
    BY <1>4, <2>1, <2>3, PlacesStay
<1>7. QED
  BY <1>5, <1>6

\* At first there is no unit and nothing has been seen.
LEMMA InitYInv == Init => YInv
<1> SUFFICES ASSUME Init PROVE DataFacts /\ PlaceFacts
  BY DEF YInv
<1>1. /\ pc = [h \in Handlers |-> IF h = "reactor" THEN "idle" ELSE "new"]
      /\ obs = [h \in Handlers |-> NoObs] /\ owe = [h \in Handlers |-> {}]
      /\ file = NoObs /\ signals = {} /\ recorded = NoObs
      /\ phase = "created" /\ state = noState /\ deleting = FALSE
      /\ box = [o |-> Outbox!newEventOutbox, out |-> <<>>]
  BY DEF Init, StepsInit
<1>2. unit = [st |-> "absent", code |-> 0, real |-> 0, ref |-> FALSE,
              job |-> "none", helper |-> "gone"]
  BY DEF Init, StepsInit
<1>3. unit.st = "absent" /\ unit.job = "none" /\ unit.code = unit.real
  BY <1>2
<1>4. noState \in pStates /\ ~(noState.pid > 0) /\ ~Exited(noState)
  <2>1. "" \in Statuses
    BY DEF Statuses
  <2>2. noState \in pStates
    BY <2>1 DEF noState, pStates
  <2>3. ~Exited(noState)
    BY DEF noState, Exited, toStatus, Created, Running, Stopped
  <2>4. noState.pid = 0
    BY DEF noState
  <2>5. QED
    BY <2>2, <2>3, <2>4
<1>5. file # RunObs /\ file \notin FailObs /\ file \notin ExitObs
  BY <1>1, FileNames
<1>6. UnitFacts
  BY <1>1, <1>3, <1>4, <1>5 DEF UnitFacts
<1>7. StateFacts
  BY <1>1, <1>4, <1>5 DEF StateFacts
<1>8. SeenFacts
  BY <1>1, <1>5 DEF SeenFacts, Reads, Truthful
<1>9. ClaimFacts
  <2>1. box.out = <<>> /\ box.o.held = <<>>
    BY <1>1 DEF Outbox!newEventOutbox
  <2>2. OP!ToSet(<<>>) = {}
    BY DEF OP!ToSet
  <2>3. ~Claimed
    BY <1>1, <2>1, <2>2 DEF Claimed, Streamed, OP!Contents
  <2>4. QED
    BY <2>3 DEF ClaimFacts
<1>10. \A h \in Handlers : pc[h] \in {"new", "idle"} /\ (h # "reactor" => pc[h] = "new")
  BY <1>1
<1>11. PlaceFacts
  <2>1. ASSUME NEW h \in Handlers PROVE Placed(h)
    <3>1. StartAt("new") /\ StartAt("idle") /\ DeleteAt("new") /\ DeleteAt("idle")
      BY DEF StartAt, DeleteAt, WonLabels, LateLabels
    <3>2. ExitAt("new")
      BY DEF ExitAt
    <3>3. QED
      BY <1>10, <3>1, <3>2 DEF Placed
  <2>2. QED
    BY <1>1, <1>3, <2>1 DEF PlaceFacts
<1>12. QED
  BY <1>6, <1>7, <1>8, <1>9, <1>11 DEF DataFacts

\* An exit that is published was claimed, after a start that was told; so a Start has won,
\* and the exit is that of its workload.
LEMMA ExitToldReal == RInv /\ VInv /\ EInv /\ YInv => ExecExitIsReal
<1> SUFFICES ASSUME RInv, VInv, EInv, YInv, Undisturbed, Told("TaskExit")
             PROVE  \/ ~Alive /\ exitEvent = unit.real
                    \/ parent.exited /\ exitEvent = Synthetic /\ (~Alive \/ Spares)
  BY DEF ExecExitIsReal
<1>1. box.out \in Seq(EventKinds) /\ OP!Sound(box)
  BY DEF EInv, ETypes, OP!Boxes
<1>2. "TaskExit" \in OP!ToSet(box.out)
  BY <1>1 DEF Told, OP!ToSet
<1>3. "TaskStart" \in OP!ToSet(box.out)
  <2>1. \A e \in EventKinds : [k \in EventKinds |-> k][e] = e
    OBVIOUS
  <2>2. OP!ToSet(box.out) \subseteq EventKinds
    BY <1>1 DEF OP!ToSet
  <2>3. QED
    BY <1>1, <1>2, <2>1, <2>2 DEF OP!Sound, EventKinds
<1>4. "TaskStart" \in Streamed /\ Claimed
  BY <1>2, <1>3 DEF Streamed, OP!Contents, Claimed
<1>5. Won
  BY <1>4 DEF EInv, StartTold, Won, WonLabels
<1>6. Before
  BY <1>5 DEF Before, YInv, Single
<1>7. file \notin FailObs /\ ClaimFacts /\ StateFacts
  BY <1>5, <1>6, WonFacts DEF Before, DataFacts
<1>8. QED
  BY <1>4, <1>7 DEF ClaimFacts, StateFacts

\* However the Starts and the Deletes of an exec, the reactor, the exit of the container
\* and its sweep interleave: the exit that is published of an exec is the one its workload
\* came to, or 255 for one the sweep over a dead container's execs ended
\* (process.go:572-574); and the workload has ended, unless the container shares its pid
\* namespace and ended before its own Start had finished (process.go:556).
THEOREM ExecExitReal == Spec => []ExecExitIsReal
<1> DEFINE I == RInv /\ VInv /\ EInv /\ YInv
<1>1. Init => I
  BY InitRInv, InitVInv, InitEInv, InitYInv
<1>2. I /\ [Next]_vars => I'
  BY StepRInv, StepVInv, StepEInv, StepYInv DEF EStep
<1>3. I => ExecExitIsReal
  BY ExitToldReal
<1>4. QED
  BY <1>1, <1>2, <1>3, PTL DEF Spec

-----------------------------------------------------------------------------
(***************************************************************************)
(* A published start is followed by its exit, for a client that starts an  *)
(* exec once: a second Start takes the exec out of the index although the  *)
(* first has won.                                                          *)
(***************************************************************************)
StartedOnce == \A g, h \in Starters \intersect scenario.callers : g = h

\* Only who is called runs, and the outbox holds no exit back whose start is out.
Called == \A h \in Starters : pc[h] # "new" => h \in scenario.callers
Flushed == ~box.o.deleted /\ OP!Prompt(box)

\* A registered exec is in the index until a Start has failed or its exit is known.
Indexed ==
    pc["exec"] \in {"e_check", "e_create", "e_send", "ok"} =>
        indexed \/ Exited(state) \/ \E h \in Starters : pc[h] = "failed"

\* Signals are of deaths.
Terminal == \A s \in signals \union {recorded} : s = NoObs \/ Exited(s)

\* Who finds out about the exit has claimed it.
ExitClaimed == Exited(state) => Claimed

\* An exit nobody knows of is on its way to the reactor, or in its hands.
Coming == \/ signals # {} \/ work \/ pc["reactor"] = "r_load"
          \/ pc["reactor"] = "r_read" /\ state.pid > 0
          \/ pc["reactor"] = "r_merge" /\ obs["reactor"] # NoObs /\ Exited(obs["reactor"])

Pending == unit.st = "dead" /\ ~Exited(state) /\ indexed => Coming

PFacts == Called /\ Flushed /\ Indexed /\ Terminal /\ ExitClaimed /\ Pending

PInv == Undisturbed /\ Single => PFacts

-----------------------------------------------------------------------------
(***************************************************************************)
(* The steps as this argument sees them.                                   *)
(***************************************************************************)
\* What a step makes known: nothing or a pid, what an observation says, or an event.
Tells ==
    \/ /\ UNCHANGED <<box, owe>>
       /\ state' = state \/ state' = [state EXCEPT !.pid = 1]
    \/ /\ \E h \in Handlers, s \in pStates : SetState(h, s)
       /\ UNCHANGED box
    \/ \E h \in Handlers : SendOwed(h)
    \/ /\ \E e \in EventKinds : box' = Outbox!Sent(box, e)
       /\ UNCHANGED <<state, owe>>

\* What it leaves the reactor to do: a unit that dies is signalled.
Stirs ==
    /\ UNCHANGED <<work, obs>> /\ recorded' \in {recorded, NoObs}
    /\ \/ UNCHANGED signals /\ (unit'.st = "dead" => unit.st = "dead")
       \/ \E c \in Nat : signals' = signals \union DeathSignals(c)

\* A step of handler h, which goes to b.
Does(h, b) == Goto(h, b) /\ Tells /\ Stirs

\* The steps that only look,
LEMMA LooksDoes ==
    ASSUME NEW h, NEW a, NEW STATE c, NEW STATE b, Branch(h, a, c, b)
    PROVE  Does(h, b) /\ UNCHANGED indexed
BY DEF Branch, Does, Tells, Stirs, procVars, shimVars, eventVars, sysdVars

\* take the exec map or its mutex, or mark,
LEMMA MapsDoes ==
    ASSUME NEW h, NEW a, NEW b, NEW t,
           SetExecs(h, a, t, b) \/ Lock(h, a, b) \/ Unlock(h, a, b) \/ markDeleting(h, a, b)
    PROVE  Does(h, b) /\ UNCHANGED indexed
<1>1. CASE SetExecs(h, a, t, b)
  BY <1>1 DEF SetExecs, Does, Tells, Stirs, proc, event, sysd
<1>2. CASE Lock(h, a, b)
  BY <1>2 DEF Lock, Does, Tells, Stirs, proc, event, sysd
<1>3. CASE Unlock(h, a, b)
  BY <1>3 DEF Unlock, Does, Tells, Stirs, proc, event, sysd
<1>4. CASE markDeleting(h, a, b)
  BY <1>4 DEF markDeleting, Does, Tells, Stirs, procVars, eventVars, sysdVars
<1>5. QED
  BY <1>1, <1>2, <1>3, <1>4

\* the one that sets the index,
LEMMA IndexDoes ==
    ASSUME NEW h, NEW a, NEW b, NEW t, SetIndexed(h, a, t, b)
    PROVE  Does(h, b) /\ indexed' = t
BY DEF SetIndexed, Does, Tells, Stirs, proc, event, sysd

\* those that move the phase,
LEMMA AdvanceDoes ==
    ASSUME NEW h, NEW a, NEW b, NEW n, Advance(h, a, n, b)
    PROVE  Does(h, b) /\ UNCHANGED indexed
BY DEF Advance, Does, Tells, Stirs, shimVars, eventVars, sysdVars

\* merge an observation,
LEMMA SetsDoes ==
    ASSUME NEW h \in Handlers, NEW a, NEW b, NEW s \in pStates, Sets(h, a, s, b)
    PROVE  Does(h, b) /\ UNCHANGED indexed
<1>1. /\ SetState(h, s) /\ Goto(h, b)
      /\ UNCHANGED <<box, work, obs, recorded, signals, unit, indexed>>
  BY DEF Sets, shimVars, sysdVars
<1>2. Tells
  BY <1>1 DEF Tells
<1>3. QED
  BY <1>1, <1>2 DEF Does, Stirs

\* or the exit state file,
LEMMA LoadsDoes ==
    ASSUME NEW h \in Handlers, NEW a, NEW b, Loads(h, a, b), file \in Reads
    PROVE  Does(h, b) /\ UNCHANGED indexed
<1>1. /\ Goto(h, b) /\ UNCHANGED <<box, work, obs, recorded, signals, unit, indexed>>
      /\ IF file # NoObs THEN SetState(h, file) ELSE UNCHANGED <<state, owe>>
  BY DEF Loads, sysd, maps, proc
<1>2. Tells
  BY <1>1 DEF Tells, Reads
<1>3. QED
  BY <1>1, <1>2 DEF Does, Stirs

\* the one that sends,
LEMMA SendsDoes ==
    ASSUME NEW h, NEW a, NEW b, NEW e \in EventKinds, Sends(h, a, e, b)
    PROVE  Does(h, b) /\ UNCHANGED indexed
<1>1. /\ box' = Outbox!Sent(box, e) /\ Goto(h, b)
      /\ UNCHANGED <<state, owe, work, obs, recorded, signals, unit, indexed>>
  BY DEF Sends, procVars, shimVars, sysdVars
<1>2. Tells
  BY <1>1 DEF Tells
<1>3. QED
  BY <1>1, <1>2 DEF Does, Stirs

\* and those that act on the unit, whose death is signalled.
LEMMA DeathStirs ==
    ASSUME NEW c \in Nat, NEW r, DiesAs(c, r), UNCHANGED <<work, obs, recorded>>
    PROVE  Stirs
BY DEF DiesAs, Stirs

\* A handler stops, kills or releases it.
LEMMA CallsDoes ==
    ASSUME unit \in Units, NEW h, NEW a, NEW b,
           Calls(h, a, KillUnit, b) \/ Calls(h, a, RuncKill, b) \/ Calls(h, a, releaseUnit, b)
    PROVE  Does(h, b) /\ UNCHANGED indexed
<1>1. /\ Goto(h, b) /\ UNCHANGED <<state, box, owe, work, obs, recorded, indexed>>
      /\ KillUnit \/ RuncKill \/ releaseUnit
  BY DEF Calls, procVars, shimVars, eventVars
<1>2. Dies(Killed) \/ UNCHANGED <<unit, signals>> \/ releaseUnit
  BY <1>1 DEF KillUnit, RuncKill
<1>3. CASE Dies(Killed)
  <2>1. Killed \in Nat
    BY DEF Killed
  <2>2. Stirs
    BY <1>1, <1>3, <2>1, DeathStirs DEF Dies
  <2>3. QED
    BY <1>1, <2>2 DEF Does, Tells
<1>4. CASE UNCHANGED <<unit, signals>>
  BY <1>1, <1>4 DEF Does, Tells, Stirs
<1>5. CASE releaseUnit
  <2>1. UNCHANGED signals /\ unit'.st = unit.st
    BY <1>5 DEF releaseUnit, Units
  <2>2. QED
    BY <1>1, <2>1 DEF Does, Tells, Stirs
<1>6. QED
  BY <1>2, <1>3, <1>4, <1>5

-----------------------------------------------------------------------------
\* What the exit state file holds has been observed.
LEMMA FileRead ==
    ASSUME Before
    PROVE  file \in Reads /\ unit \in Units
BY FileNames DEF Before, DataFacts, UnitFacts, Reads, VInv

\* A Start leaves the index to others, unless it fails.
LEMMA StartDoes ==
    ASSUME Before, NEW h \in Starters, Start(h)
    PROVE  \E b : Does(h, b) /\ (UNCHANGED indexed \/ (b = "failed" /\ ~indexed'))
<1> DEFINE Fine == \E b : Does(h, b) /\ (UNCHANGED indexed \/ (b = "failed" /\ ~indexed'))
<1>0. h \in Handlers /\ file \in Reads /\ unit \in Units
  BY FileRead DEF Handlers
<1>1. ASSUME NEW a, NEW STATE c, NEW STATE b, Branch(h, a, c, b) PROVE Fine
  BY <1>1, LooksDoes
<1>2. ASSUME NEW a, NEW b, Loads(h, a, b) PROVE Fine
  BY <1>0, <1>2, LoadsDoes
<1>3. ASSUME NEW a, NEW b, Calls(h, a, KillUnit, b) \/ Calls(h, a, releaseUnit, b) PROVE Fine
  BY <1>0, <1>3, CallsDoes
<1>4. ASSUME NEW a, NEW b, NEW n, Advance(h, a, n, b) PROVE Fine
  BY <1>4, AdvanceDoes
<1>5. CASE Lookup(h, "s_begin") \/ StartBegins(h)
  BY <1>1, <1>4, <1>5 DEF Lookup, StartBegins
<1>6. ASSUME NEW a, NEW f, StartTransientUnit(h, a, f) PROVE Fine
  <2>1. /\ UNCHANGED <<state, box, owe, work, obs, signals, indexed>>
        /\ recorded' \in {recorded, NoObs}
        /\ unit' = NewUnit \/ UNCHANGED unit
    BY <1>6 DEF StartTransientUnit, proc, event, maps
  <2>2. unit'.st = "dead" => unit.st = "dead"
    BY <1>0, <2>1 DEF NewUnit, Units
  <2>3. Goto(h, "s_job") \/ Goto(h, f)
    BY <1>6 DEF StartTransientUnit
  <2>4. QED
    BY <2>1, <2>2, <2>3 DEF Does, Tells, Stirs
<1>7. CASE StartsTwice(h)
  BY <1>1, <1>6, <1>7 DEF StartsTwice
<1>8. CASE Job(h)
  BY <1>1, <1>2, <1>3, <1>8 DEF Job
<1>9. CASE StartLoads(h)
  <2>1. CASE /\ At(h, "s_pid") /\ HasPid
             /\ state' = [state EXCEPT !.pid = 1]
             /\ Goto(h, "s_done")
             /\ UNCHANGED <<phase, deleting, recorded, parent, maps, event, sysd, work, obs>>
    <3>1. Does(h, "s_done") /\ UNCHANGED indexed
      BY <2>1 DEF Does, Tells, Stirs, maps, event, sysd
    <3>2. QED
      BY <3>1
  <2>2. QED
    BY <1>1, <1>2, <1>9, <2>1 DEF StartLoads
<1>10. CASE AbandonIfDeleting(h) \/ abandonStartedUnit(h)
  BY <1>1, <1>3, <1>10 DEF AbandonIfDeleting, abandonStartedUnit
<1>11. CASE abortStart(h)
  <2>1. CASE SetIndexed(h, "s_unindex", FALSE, "failed")
    BY <2>1, IndexDoes
  <2>2. QED
    BY <1>4, <1>11, <2>1 DEF abortStart
<1>12. CASE finishStart(h, 1)
  <2>1. CASE Sets(h, "s_state", Obs(0, 0, 1, "running"), "s_send")
    <3>1. Obs(0, 0, 1, "running") \in pStates
      BY FileNames DEF RunObs
    <3>2. QED
      BY <1>0, <2>1, <3>1, SetsDoes
  <2>2. CASE Sends(h, "s_send", "TaskStart", "ok")
    <3>1. "TaskStart" \in EventKinds
      BY DEF EventKinds
    <3>2. QED
      BY <2>2, <3>1, SendsDoes
  <2>3. QED
    BY <1>4, <1>12, <2>1, <2>2 DEF finishStart
<1>13. QED
  BY <1>5, <1>7, <1>8, <1>9, <1>10, <1>11, <1>12 DEF Start

\* Nor does a Delete touch it before the exit is known.
LEMMA DeleteDoes ==
    ASSUME Before, NEW h \in Deleters, Delete(h)
    PROVE  \E b : Does(h, b) /\ (UNCHANGED indexed \/ (Exited(state) /\ ~indexed'))
<1> DEFINE Fine == \E b : Does(h, b) /\ (UNCHANGED indexed \/ (Exited(state) /\ ~indexed'))
<1>0. h \in Handlers /\ unit \in Units /\ DeleteAt(pc[h])
  BY FileRead DEF Handlers, Before, PlaceFacts, Placed
<1>1. ASSUME NEW a, NEW STATE c, NEW STATE b, Branch(h, a, c, b) PROVE Fine
  BY <1>1, LooksDoes
<1>2. ASSUME NEW a, NEW b, Calls(h, a, KillUnit, b) \/ Calls(h, a, releaseUnit, b) PROVE Fine
  BY <1>0, <1>2, CallsDoes
<1>3. ASSUME NEW a, NEW b, NEW n, Advance(h, a, n, b) PROVE Fine
  BY <1>3, AdvanceDoes
<1>4. ASSUME NEW a, NEW b, NEW t, SetExecs(h, a, t, b) \/ markDeleting(h, a, b) PROVE Fine
  BY <1>4, MapsDoes
<1>5. CASE /\ At(h, "d_files")
           /\ file' = NoObs
           /\ Goto(h, "d_release")
           /\ UNCHANGED <<proc, deleting, recorded, parent, maps, event, unit, signals,
                          work, obs>>
  <2>1. Does(h, "d_release") /\ UNCHANGED indexed
    BY <1>5 DEF Does, Tells, Stirs, proc, maps, event
  <2>2. QED
    BY <2>1
<1>6. CASE SetIndexed(h, "d_unindex", FALSE, "ok")
  <2>1. Does(h, "ok") /\ ~indexed'
    BY <1>6, IndexDoes
  <2>2. pc[h] = "d_unindex"
    BY <1>6 DEF SetIndexed, At
  <2>3. Exited(state)
    BY <1>0, <2>2 DEF DeleteAt, LateLabels
  <2>4. QED
    BY <2>1, <2>3
<1>7. CASE Lookup(h, "d_check")
  BY <1>1, <1>7 DEF Lookup
<1>8. CASE DeleteStops(h) \/ DeleteWaits(h)
  BY <1>1, <1>2, <1>4, <1>8 DEF DeleteStops, DeleteWaits
<1>9. CASE DeleteEnds(h)
  BY <1>2, <1>3, <1>4, <1>5, <1>6, <1>9 DEF DeleteEnds
<1>10. QED
  BY <1>7, <1>8, <1>9 DEF Delete

\* Exec indexes the exec before anybody can start it, and takes it out if it fails.
Indexes(b) ==
    \/ /\ UNCHANGED indexed /\ b # "e_check"
       /\ b \in {"e_create", "e_send", "ok"} =>
             pc["exec"] \in {"e_check", "e_create", "e_send"}
    \/ indexed' /\ unit.st = "absent" /\ UNCHANGED unit
    \/ ~indexed' /\ b = "e_remove"

\* Every step of Exec does one of these.
LEMMA ExecDoes ==
    ASSUME Before, Exec
    PROVE  \E b : Does("exec", b) /\ Indexes(b)
<1> DEFINE h == "exec"
<1>1. ASSUME NEW a, NEW STATE c, NEW STATE b, Branch(h, a, c, b),
             b # "e_check",
             b \in {"e_create", "e_send", "ok"} => a \in {"e_check", "e_create", "e_send"}
      PROVE  \E l : Does(h, l) /\ Indexes(l)
  <2>1. Does(h, b) /\ UNCHANGED indexed
    BY <1>1, LooksDoes
  <2>2. pc[h] = a
    BY <1>1 DEF Branch, At
  <2>3. QED
    BY <1>1, <2>1, <2>2 DEF Indexes
<1>2. ASSUME NEW a, NEW b, NEW t, SetExecs(h, a, t, b), b \in {"e_index", "failed"}
      PROVE  \E l : Does(h, l) /\ Indexes(l)
  <2>1. Does(h, b) /\ UNCHANGED indexed
    BY <1>2, MapsDoes
  <2>2. QED
    BY <1>2, <2>1 DEF Indexes
<1>3. CASE SetIndexed(h, "e_index", TRUE, "e_check")
  <2>1. Does(h, "e_check") /\ indexed' /\ pc[h] = "e_index" /\ UNCHANGED unit
    BY <1>3, IndexDoes DEF SetIndexed, At, sysd
  <2>2. unit.st = "absent"
    BY <2>1 DEF Before, RInv, NotYet
  <2>3. QED
    BY <2>1, <2>2 DEF Indexes
<1>4. CASE SetIndexed(h, "e_unindex", FALSE, "e_remove")
  <2>1. Does(h, "e_remove") /\ ~indexed'
    BY <1>4, IndexDoes
  <2>2. QED
    BY <2>1 DEF Indexes
<1>5. CASE Sends(h, "e_send", "TaskCreate", "ok")
  <2>1. "TaskCreate" \in EventKinds
    BY DEF EventKinds
  <2>2. Does(h, "ok") /\ UNCHANGED indexed /\ pc[h] = "e_send"
    BY <1>5, <2>1, SendsDoes DEF Sends, At
  <2>3. QED
    BY <2>2 DEF Indexes
<1>6. CASE Branch(h, "new", TRUE, IF parent.tracked THEN "e_add" ELSE "refused")
  BY <1>1, <1>6
<1>7. CASE Branch(h, "e_check", TRUE, IF parent.deleting THEN "e_unindex" ELSE "e_create")
  BY <1>1, <1>7
<1>8. CASE \E to \in {"e_send", "e_unindex"} : Branch(h, "e_create", TRUE, to)
  BY <1>1, <1>8
<1>9. QED
  BY <1>2, <1>3, <1>4, <1>5, <1>6, <1>7, <1>8 DEF Exec, Registers

\* The exit of the container leaves it alone.
LEMMA ExitDoes ==
    ASSUME Before, InitExits
    PROVE  \E b : Does("exit", b) /\ UNCHANGED indexed
<1> DEFINE h == "exit"
           Fine == \E b : Does("exit", b) /\ UNCHANGED indexed
<1>0. h \in Handlers /\ file \in Reads /\ unit \in Units
  BY FileRead DEF Handlers
<1>1. ASSUME NEW a, NEW STATE c, NEW STATE b, Branch(h, a, c, b) PROVE Fine
  BY <1>1, LooksDoes
<1>2. CASE /\ At(h, "new") /\ ~parent.alive
           /\ parent' = [parent EXCEPT !.exited = TRUE]
           /\ Goto(h, "x_kill")
           /\ UNCHANGED <<proc, deleting, recorded, maps, event, sysd, work, obs>>
  <2>1. Does(h, "x_kill") /\ UNCHANGED indexed
    BY <1>2 DEF Does, Tells, Stirs, proc, maps, event, sysd
  <2>2. QED
    BY <2>1
<1>3. CASE KillsAll(h)
  BY <1>0, <1>1, <1>3, KillsOrNot, CallsDoes
<1>4. CASE Lock(h, "x_lock", "x_each") \/ Unlock(h, "x_unlock", "ok")
  BY <1>4, MapsDoes
<1>5. CASE Loads(h, "x_load", "x_look")
  BY <1>0, <1>5, LoadsDoes
<1>6. CASE Sets(h, "x_reap", Obs(1, Synthetic, 0, ""), "x_unlock")
  <2>1. "" \in Statuses
    BY DEF Statuses
  <2>2. ASSUME NEW w \in Statuses PROVE Obs(1, Synthetic, 0, w) \in pStates
    BY DEF Obs, pStates, Synthetic
  <2>3. Obs(1, Synthetic, 0, "") \in pStates
    BY <2>1, <2>2
  <2>4. QED
    BY <1>0, <1>6, <2>3, SetsDoes
<1>7. QED
  BY <1>1, <1>2, <1>3, <1>4, <1>5, <1>6 DEF InitExits, Sweep

\* What happens outside the shim, and the Send at the end of SetState.
LEMMA OutsideDoes ==
    ASSUME Before, \/ Helper \/ WorkloadExits(OwnCodes) \/ InitDies \/ ParentStarts \/ Collect
                   \/ \E h \in Handlers : SendOwed(h)
    PROVE  Tells /\ Stirs /\ UNCHANGED <<pc, indexed>>
<1>0. unit \in Units
  BY FileRead
<1>1. CASE Helper
  <2>1. UNCHANGED <<state, box, owe, work, obs, recorded, pc, indexed>>
    BY <1>1 DEF Helper, proc, event, maps
  <2>2. \/ UNCHANGED signals /\ unit' = [unit EXCEPT !.st = "running", !.job = "done"]
        \/ \E c \in Nat, r \in Nat : DiesAs(c, r)
    <3>1. HelperFailed \in Nat /\ OwnCodes \subseteq Nat
      BY DEF HelperFailed, OwnCodes
    <3>2. QED
      BY <1>1, <3>1 DEF Helper, Dies
  <2>3. Stirs
    <3>1. CASE UNCHANGED signals /\ unit' = [unit EXCEPT !.st = "running", !.job = "done"]
      BY <1>0, <2>1, <3>1 DEF Stirs, Units
    <3>2. QED
      BY <2>1, <2>2, <3>1, DeathStirs
  <2>4. QED
    BY <2>1, <2>3 DEF Tells
<1>2. CASE WorkloadExits(OwnCodes)
  <2>1. UNCHANGED <<state, box, owe, work, obs, recorded, pc, indexed>>
    BY <1>2 DEF WorkloadExits, procVars, shimVars, eventVars
  <2>2. \E c \in Nat, r \in Nat : DiesAs(c, r)
    BY <1>2 DEF WorkloadExits, Dies, OwnCodes
  <2>3. QED
    BY <2>1, <2>2, DeathStirs DEF Tells
<1>3. CASE InitDies
  <2>1. UNCHANGED <<state, box, owe, work, obs, recorded, pc, indexed>>
    BY <1>3 DEF InitDies, proc, event, maps
  <2>2. Dies(Killed) \/ UNCHANGED <<unit, signals>>
    BY <1>3 DEF InitDies, RuncKill
  <2>3. Stirs
    <3>1. CASE UNCHANGED <<unit, signals>>
      BY <2>1, <3>1 DEF Stirs
    <3>2. CASE Dies(Killed)
      BY <2>1, <3>2, DeathStirs DEF Dies, Killed
    <3>3. QED
      BY <2>2, <3>1, <3>2
  <2>4. QED
    BY <2>1, <2>3 DEF Tells
<1>4. CASE ParentStarts
  BY <1>4 DEF ParentStarts, Tells, Stirs, proc, event, maps, sysd
<1>5. CASE Collect
  <2>1. UNCHANGED <<state, box, owe, work, obs, recorded, pc, indexed, signals>>
    BY <1>5 DEF Collect, procVars, shimVars, eventVars
  <2>2. unit.st = "dead"
    BY <1>5 DEF Collect
  <2>3. QED
    BY <2>1, <2>2 DEF Tells, Stirs
<1>6. CASE \E h \in Handlers : SendOwed(h)
  <2>1. Tells
    BY <1>6 DEF Tells
  <2>2. UNCHANGED <<work, obs, recorded, pc, indexed, signals, unit>>
    BY <1>6 DEF SendOwed, shimVars, sysdVars
  <2>3. QED
    BY <2>1, <2>2 DEF Stirs
<1>7. QED
  BY <1>1, <1>2, <1>3, <1>4, <1>5, <1>6

-----------------------------------------------------------------------------
\* What is known stays known, and no exit is held back behind its start.
LEMMA TellsOn ==
    ASSUME Before, Tells
    PROVE  /\ Exited(state) => Exited(state')
           /\ state.pid > 0 => state'.pid > 0
           /\ Flushed => Flushed'
<1>1. state \in pStates /\ box \in OP!Boxes /\ owe \in [Handlers -> SUBSET {"TaskExit"}]
  BY DEF Before, DataFacts, StateFacts, EInv, ETypes
<1>2. ASSUME NEW e \in EventKinds, box' = Outbox!Sent(box, e) PROVE Flushed => Flushed'
  <2>1. box' = OP!Sent(box, e)
    BY <1>2, SameSent
  <2>2. OP!NoDeletes
    BY DEF OP!NoDeletes, EventKinds
  <2>3. OP!Prompt(OP!Sent(box, e)) /\ (OP!Sent(box, e).o.deleted => box.o.deleted)
    BY <1>1, <2>2, OPAssumptions, OP!SentPrompt
  <2>4. OP!Prompt(box')
    BY <2>1, <2>3
  <2>5. OP!Prompt(box)'
    BY <2>4 DEF OP!Prompt
  <2>6. QED
    BY <2>1, <2>3, <2>5 DEF Flushed
<1>3. UNCHANGED box => (Flushed => Flushed')
  BY DEF Flushed, OP!Prompt
<1>4. ASSUME NEW h \in Handlers, NEW s \in pStates, SetState(h, s)
      PROVE  (Exited(state) => Exited(state')) /\ (state.pid > 0 => state'.pid > 0)
  BY <1>1, <1>4, MergedFacts DEF SetState
<1>5. state' = [state EXCEPT !.pid = 1] =>
          (Exited(state) => Exited(state')) /\ (state.pid > 0 => state'.pid > 0)
  BY <1>1 DEF pStates, Exited
<1>6. ASSUME NEW h \in Handlers, SendOwed(h)
      PROVE  UNCHANGED state /\ \E e \in EventKinds : box' = Outbox!Sent(box, e)
  <2>1. UNCHANGED state /\ \E e \in owe[h] : box' = Outbox!Sent(box, e)
    BY <1>6 DEF SendOwed, procVars
  <2>2. owe[h] \subseteq EventKinds
    BY <1>1 DEF EventKinds
  <2>3. QED
    BY <2>1, <2>2
<1>7. QED
  BY <1>2, <1>3, <1>4, <1>5, <1>6 DEF Tells

\* Who makes the exit known owes the event, and an event once claimed stays claimed.
LEMMA TellsClaimed ==
    ASSUME Before, Tells, ExitClaimed
    PROVE  ExitClaimed'
<1>1. /\ state \in pStates /\ phase \in Phases /\ StateFacts
      /\ owe \in [Handlers -> SUBSET {"TaskExit"}]
  BY DEF Before, DataFacts, StateFacts, EInv, ETypes
<1>2. UNCHANGED box => Streamed' = Streamed
  BY DEF Streamed
<1>3. CASE /\ UNCHANGED <<box, owe>>
           /\ state' = state \/ state' = [state EXCEPT !.pid = 1]
  <2>1. Exited(state') => Exited(state)
    BY <1>1, <1>3 DEF pStates, Exited
  <2>2. QED
    BY <1>3, <2>1, SameClaims DEF ExitClaimed
<1>4. ASSUME NEW h \in Handlers, NEW s \in pStates, SetState(h, s), UNCHANGED box
      PROVE  ExitClaimed'
  <2>1. CASE owe' = [owe EXCEPT ![h] = {"TaskExit"}]
    <3>1. "TaskExit" \in owe'[h]
      BY <1>1, <2>1
    <3>2. QED
      BY <3>1 DEF ExitClaimed, Claimed
  <2>2. CASE ~justExited(phase, state, s)
    <3>1. UNCHANGED owe /\ state' = merged(phase, state, s)
      BY <1>4, <2>2 DEF SetState
    <3>2. ASSUME Exited(state'), ~Exited(state) PROVE FALSE
      <4>1. phase \notin {"exited", "deleted"}
        BY <1>1, <3>2 DEF StateFacts
      <4>2. phaseAfter(phase, state, s) = advance(phase, "exited")
        BY <3>1, <3>2 DEF phaseAfter
      <4>3. advance(phase, "exited") = "exited"
        BY <1>1, <4>1 DEF advance, canBecome, phaseTransitions, Phases
      <4>4. QED
        BY <2>2, <4>1, <4>2, <4>3 DEF justExited
    <3>3. QED
      BY <1>4, <3>1, <3>2, SameClaims DEF ExitClaimed
  <2>3. QED
    BY <1>4, <2>1, <2>2 DEF SetState
<1>5. ASSUME NEW h \in Handlers, SendOwed(h) PROVE ExitClaimed'
  <2>1. /\ UNCHANGED state /\ owe' = [owe EXCEPT ![h] = {}]
    BY <1>5 DEF SendOwed, procVars
  <2>2. PICK e \in owe[h] : box' = Outbox!Sent(box, e)
    BY <1>5 DEF SendOwed
  <2>3. e = "TaskExit" /\ e \in EventKinds
    BY <1>1, <2>2 DEF EventKinds
  <2>4. Streamed' = Streamed \union {e}
    BY <2>2, <2>3, SendsOn DEF Before
  <2>5. QED
    BY <2>3, <2>4 DEF ExitClaimed, Claimed
<1>6. ASSUME NEW e \in EventKinds, box' = Outbox!Sent(box, e), UNCHANGED <<state, owe>>
      PROVE  ExitClaimed'
  <2>1. Streamed' = Streamed \union {e}
    BY <1>6, SendsOn DEF Before
  <2>2. QED
    BY <1>6, <2>1 DEF ExitClaimed, Claimed
<1>7. QED
  BY <1>3, <1>4, <1>5, <1>6 DEF Tells

-----------------------------------------------------------------------------
\* A step of somebody else leaves the exit on its way to the reactor.
LEMMA StirsOn ==
    ASSUME Before, PFacts, Tells, Stirs, pc'["reactor"] = pc["reactor"],
           indexed' => indexed \/ unit'.st # "dead"
    PROVE  Terminal' /\ Pending'
<1>1. (Exited(state) => Exited(state')) /\ (state.pid > 0 => state'.pid > 0)
  BY TellsOn
<1>2. Terminal /\ Pending
  BY DEF PFacts
<1>3. recorded' \in {recorded, NoObs} /\ UNCHANGED <<work, obs>>
  BY DEF Stirs
<1>4. CASE UNCHANGED signals /\ (unit'.st = "dead" => unit.st = "dead")
  <2>1. Terminal'
    BY <1>2, <1>3, <1>4 DEF Terminal
  <2>2. Pending'
    BY <1>1, <1>2, <1>3, <1>4 DEF Pending, Coming
  <2>3. QED
    BY <2>1, <2>2
<1>5. ASSUME NEW c \in Nat, signals' = signals \union DeathSignals(c)
      PROVE  Terminal' /\ Pending'
  <2> DEFINE d == Obs(1, c, 1, "exited")
  <2>1. Exited(d)
    BY DEF Obs, Exited
  <2>2. NoObs \in signals' /\ signals' \subseteq signals \union {NoObs, d}
    BY <1>5 DEF DeathSignals
  <2> HIDE DEF d
  <2>3. Terminal'
    BY <1>2, <1>3, <2>1, <2>2 DEF Terminal
  <2>4. Pending'
    BY <2>2 DEF Pending, Coming
  <2>5. QED
    BY <2>3, <2>4
<1>6. QED
  BY <1>4, <1>5 DEF Stirs

\* The informer hands every signal of an exec it can find to the worker.
LEMMA InformerOn ==
    ASSUME Before, PFacts, Informer
    PROVE  Terminal' /\ Pending' /\ Tells /\ UNCHANGED <<pc, indexed>>
<1>1. UNCHANGED <<state, box, owe, pc, indexed, unit, obs>>
  BY DEF Informer, procVars, own, eventVars
<1>2. Terminal /\ Pending
  BY DEF PFacts
<1>3. PICK s \in signals :
          /\ signals' = signals \ {s}
          /\ IF indexed /\ ~Exited(state)
             THEN /\ work' = TRUE
                  /\ recorded' = IF recorded = NoObs THEN s ELSE recorded
             ELSE UNCHANGED <<work, recorded>>
  BY DEF Informer
<1>4. Terminal'
  BY <1>2, <1>3 DEF Terminal
<1>5. Pending'
  BY <1>1, <1>2, <1>3 DEF Pending, Coming
<1>6. QED
  BY <1>1, <1>4, <1>5 DEF Tells

\* A read of a dead unit, or the recorded signal, says that it has exited.
LEMMA DeadReads ==
    ASSUME Before, unit.st = "dead", NEW s \in UnitReads
    PROVE  Stamped(s) # NoObs /\ Exited(Stamped(s))
<1>1. unit \in Units /\ ~BusErrors
  BY FileRead, NoFaults
<1> DEFINE w == IF unit.code = 0 THEN "dead" ELSE "failed"
<1>2. s = Obs(0, unit.code, 0, w)
  BY <1>1 DEF UnitReads, Alive
<1>3. toStatus(w) = "STOPPED" /\ w \in Statuses /\ unit.code \in Nat
  BY <1>1 DEF toStatus, Created, Running, Stopped, Statuses, Units
<1> HIDE DEF w
<1>4. s \in pStates /\ Exited(s)
  BY <1>2, <1>3 DEF Obs, pStates, Exited
<1>5. Stamped(s) = [s EXCEPT !.exitedAt = 1]
  BY <1>4, NoObsFresh DEF Stamped
<1>6. Stamped(s) \in pStates /\ Stamped(s).exitedAt = 1
  BY <1>4, <1>5 DEF pStates
<1>7. QED
  BY <1>6, NoObsFresh DEF Exited

\* The worker does not let go of a unit that died before the exit is known.
LEMMA ReactorOn ==
    ASSUME Before, PFacts, Reconcile(ReactorLoads)
    PROVE  /\ Terminal' /\ Pending' /\ Tells /\ UNCHANGED indexed
           /\ \E b : Goto("reactor", b)
<1> DEFINE h == "reactor"
           Fine == Terminal' /\ Pending' /\ Tells /\ UNCHANGED indexed /\ \E b : Goto(h, b)
<1>0. /\ h \in Handlers /\ Terminal /\ Pending /\ Types /\ file \in Reads
      /\ state \in pStates /\ obs \in [Handlers -> Reads]
  BY FileRead DEF Handlers, PFacts, Before, RInv, DataFacts, StateFacts, SeenFacts
<1>1. UNCHANGED <<signals, recorded>> => Terminal'
  BY <1>0 DEF Terminal
<1>2. ASSUME NEW b, Goto(h, b) PROVE pc'[h] = b
  BY <1>0, <1>2 DEF Goto, Types
<1>3. CASE /\ At(h, "idle") /\ work
           /\ work' = FALSE
           /\ Goto(h, IF indexed /\ ~Exited(state) THEN "r_load" ELSE "idle")
           /\ UNCHANGED <<procVars, shimVars, eventVars, sysdVars, obs>>
  <2>1. UNCHANGED <<state, box, owe, signals, recorded, indexed, unit>>
    BY <1>3 DEF procVars, shimVars, eventVars, sysdVars
  <2>2. indexed /\ ~Exited(state) => pc'[h] = "r_load"
    BY <1>2, <1>3
  <2>3. Pending'
    BY <2>1, <2>2 DEF Pending, Coming
  <2>4. QED
    BY <1>1, <1>3, <2>1, <2>3 DEF Tells
<1>4. CASE Loads(h, "r_load", "r_read")
  <2>1. Does(h, "r_read") /\ UNCHANGED indexed
    BY <1>0, <1>4, LoadsDoes
  <2>2. UNCHANGED <<signals, recorded, unit, file, deleting>>
    BY <1>4 DEF Loads, sysd
  <2>3. /\ file # NoObs => Exited(state') \/ state'.pid > 0
        /\ state.pid > 0 => state'.pid > 0
    BY <1>0, <1>4, LoadsLearn DEF Onward
  <2>4. unit.st = "dead" => Exited(state') \/ state'.pid > 0
    <3>1. unit.st = "dead" => unit.job # "none"
      BY DEF Before, VInv
    <3>2. unit.st = "dead" /\ ~deleting => file # NoObs
      BY <3>1 DEF Before, DataFacts, UnitFacts
    <3>3. deleting => state.pid > 0
      BY MarkedWon, WonFacts
    <3>4. QED
      BY <2>3, <3>2, <3>3
  <2>5. pc'[h] = "r_read"
    BY <1>2, <2>1 DEF Does
  <2>6. Pending'
    BY <2>2, <2>4, <2>5 DEF Pending, Coming
  <2>7. QED
    BY <1>1, <2>1, <2>2, <2>6 DEF Does
<1>5. CASE Branch(h, "r_read", Exited(state) \/ state.pid = 0, "idle")
  <2>1. Does(h, "idle") /\ UNCHANGED indexed
    BY <1>5, LooksDoes
  <2>2. /\ UNCHANGED <<state, signals, recorded, unit, work>> /\ pc[h] = "r_read"
        /\ Exited(state) \/ ~(state.pid > 0)
    BY <1>0, <1>5 DEF Branch, At, procVars, shimVars, sysdVars, pStates
  <2>3. Pending'
    BY <1>0, <2>1, <2>2 DEF Pending, Coming
  <2>4. QED
    BY <1>1, <2>1, <2>2, <2>3 DEF Does
<1>6. CASE ReadExit(h, "r_read", "r_merge")
  <2>1. /\ UNCHANGED <<state, box, owe, signals, recorded, unit, work, indexed>>
        /\ Goto(h, "r_merge")
    BY <1>6 DEF ReadExit, procVars, shimVars, eventVars, sysdVars
  <2>2. unit.st = "dead" => \E s : obs' = [obs EXCEPT ![h] = s] /\ s # NoObs /\ Exited(s)
    <3>1. CASE recorded # NoObs /\ obs' = [obs EXCEPT ![h] = recorded]
      BY <1>0, <3>1 DEF Terminal
    <3>2. CASE \E s \in UnitReads : obs' = [obs EXCEPT ![h] = Stamped(s)]
      BY <3>2, DeadReads
    <3>3. QED
      BY <1>6, <3>1, <3>2 DEF ReadExit
  <2>3. unit.st = "dead" => obs'[h] # NoObs /\ Exited(obs'[h])
    BY <1>0, <2>2
  <2>4. pc'[h] = "r_merge"
    BY <1>2, <2>1
  <2>5. Pending'
    BY <2>1, <2>3, <2>4 DEF Pending, Coming
  <2>6. QED
    BY <1>1, <2>1, <2>5 DEF Tells
<1>7. CASE obs[h] # NoObs /\ MergeRead(h, "r_merge", "idle")
  <2>1. /\ UNCHANGED <<box, signals, recorded, unit, work, indexed>> /\ Goto(h, "idle")
        /\ pc[h] = "r_merge" /\ SetState(h, obs[h]) /\ obs[h] \in pStates
    BY <1>0, <1>7 DEF MergeRead, At, shimVars, sysdVars, Reads
  <2>2. Exited(state') <=> Exited(state) \/ Exited(obs[h])
    BY <1>0, <2>1, MergedFacts DEF SetState
  <2>3. Pending'
    BY <1>0, <2>1, <2>2 DEF Pending, Coming
  <2>4. Tells
    BY <1>0, <2>1 DEF Tells
  <2>5. QED
    BY <1>1, <2>1, <2>3, <2>4
<1>8. CASE Branch(h, "r_merge", obs[h] = NoObs, "r_retry")
  <2>1. Does(h, "r_retry") /\ UNCHANGED indexed
    BY <1>8, LooksDoes
  <2>2. /\ UNCHANGED <<state, signals, recorded, unit, work>> /\ pc[h] = "r_merge"
        /\ obs[h] = NoObs
    BY <1>8 DEF Branch, At, procVars, shimVars, sysdVars
  <2>3. Pending'
    BY <1>0, <2>1, <2>2 DEF Pending, Coming
  <2>4. QED
    BY <1>1, <2>1, <2>2, <2>3 DEF Does
<1>9. CASE /\ At(h, "r_retry")
           /\ \E again \in BOOLEAN : work' = (work \/ again)
           /\ Goto(h, "idle")
           /\ UNCHANGED <<procVars, shimVars, eventVars, sysdVars, obs>>
  <2>1. /\ UNCHANGED <<state, box, owe, signals, recorded, indexed, unit>>
        /\ pc[h] = "r_retry" /\ (work => work')
    BY <1>9 DEF At, procVars, shimVars, eventVars, sysdVars
  <2>2. Pending'
    BY <1>0, <2>1 DEF Pending, Coming
  <2>3. QED
    BY <1>1, <1>9, <2>1, <2>2 DEF Tells
<1>10. QED
  BY <1>3, <1>4, <1>5, <1>6, <1>7, <1>8, <1>9 DEF Reconcile, ReactorLoads

\* Nobody takes the exec out of the index whose exit is not known, but for a Start that
\* fails.
LEMMA IndexedOn ==
    ASSUME Before, PFacts, Tells, pc'["exec"] = pc["exec"],
           UNCHANGED indexed \/ Exited(state) \/ \E h \in Starters : pc'[h] = "failed",
           \A h \in Starters : pc[h] = "failed" => pc'[h] = "failed"
    PROVE  Indexed'
BY TellsOn DEF PFacts, Indexed

\* Who moves moves alone.
LEMMA MovesAlone ==
    ASSUME Before, NEW h \in Handlers, NEW b, Goto(h, b)
    PROVE  pc'[h] = b /\ \A g \in Handlers : g # h => pc'[g] = pc[g]
BY DEF Before, RInv, Types, Goto

\* Only who is called gets going, and a call that has returned does no more.
LEMMA StartCalled ==
    ASSUME NEW h \in Starters, Start(h)
    PROVE  /\ pc[h] = "new" => h \in scenario.callers
           /\ pc[h] # "failed"
<1>1. pc[h] # "failed"
  BY DEF Start, Returned
<1>2. ASSUME pc[h] = "new", h \notin scenario.callers PROVE FALSE
  <2>1. ~Lookup(h, "s_begin")
    BY <1>2 DEF Lookup, Branch, At
  <2>2. ~StartBegins(h) /\ ~StartsTwice(h) /\ ~Job(h)
    BY <1>2 DEF StartBegins, StartsTwice, Job, StartTransientUnit, Branch, Advance, Loads,
                Calls, At
  <2>3. ~StartLoads(h) /\ ~AbandonIfDeleting(h) /\ ~abandonStartedUnit(h)
    BY <1>2 DEF StartLoads, AbandonIfDeleting, abandonStartedUnit, Branch, Loads, Calls, At
  <2>4. ~abortStart(h) /\ ~finishStart(h, 1)
    BY <1>2 DEF abortStart, finishStart, Advance, SetIndexed, Sets, Sends, At
  <2>5. QED
    BY <2>1, <2>2, <2>3, <2>4 DEF Start
<1>3. QED
  BY <1>1, <1>2

\* Every step keeps all of that.
LEMMA StepPFacts ==
    ASSUME Before, PFacts, Next
    PROVE  PFacts'
<1>0. /\ UNCHANGED scenario /\ {"exec", "exit", "reactor"} \subseteq Handlers
      /\ Starters \subseteq Handlers /\ Deleters \subseteq Handlers
      /\ Starters \intersect {"exec", "exit", "reactor"} = {}
      /\ Deleters \intersect {"exec", "exit", "reactor"} = {}
      /\ Starters \intersect Deleters = {}
  BY CallersFresh, StartersApart DEF Next, Handlers
<1>1. ASSUME Tells, Terminal', Pending', Indexed', Called' PROVE PFacts'
  BY <1>1, TellsOn, TellsClaimed DEF PFacts
<1>2. ASSUME \A h \in Starters : pc'[h] = pc[h] PROVE Called'
  BY <1>0, <1>2 DEF PFacts, Called
<1>3. ASSUME Tells, \A h \in Starters : pc'[h] = pc[h], pc'["exec"] = pc["exec"],
             UNCHANGED indexed \/ Exited(state)
      PROVE  Indexed'
  BY <1>3, IndexedOn
<1>4. CASE \/ Helper \/ WorkloadExits(OwnCodes) \/ InitDies \/ ParentStarts \/ Collect
           \/ \E h \in Handlers : SendOwed(h)
  <2>1. Tells /\ Stirs /\ UNCHANGED <<pc, indexed>>
    BY <1>4, OutsideDoes
  <2>2. Terminal' /\ Pending'
    BY <2>1, StirsOn
  <2>3. QED
    BY <1>1, <1>2, <1>3, <2>1, <2>2
<1>5. CASE Informer
  <2>1. Terminal' /\ Pending' /\ Tells /\ UNCHANGED <<pc, indexed>>
    BY <1>5, InformerOn
  <2>2. QED
    BY <1>1, <1>2, <1>3, <2>1
<1>6. CASE Reconcile(ReactorLoads)
  <2>1. Terminal' /\ Pending' /\ Tells /\ UNCHANGED indexed /\ \E b : Goto("reactor", b)
    BY <1>6, ReactorOn
  <2>2. pc'["exec"] = pc["exec"] /\ \A h \in Starters : pc'[h] = pc[h]
    BY <1>0, <2>1, MovesAlone
  <2>3. QED
    BY <1>1, <1>2, <1>3, <2>1, <2>2
<1>7. CASE InitExits
  <2>1. PICK b : Does("exit", b) /\ UNCHANGED indexed
    BY <1>7, ExitDoes
  <2>2. /\ pc'["exec"] = pc["exec"] /\ \A h \in Starters : pc'[h] = pc[h]
        /\ pc'["reactor"] = pc["reactor"]
    BY <1>0, <2>1, MovesAlone DEF Does
  <2>3. Terminal' /\ Pending'
    BY <2>1, <2>2, StirsOn DEF Does
  <2>4. QED
    BY <1>1, <1>2, <1>3, <2>1, <2>2, <2>3 DEF Does
<1>8. ASSUME NEW h \in Deleters, Delete(h) PROVE PFacts'
  <2>1. PICK b : Does(h, b) /\ (UNCHANGED indexed \/ (Exited(state) /\ ~indexed'))
    BY <1>8, DeleteDoes
  <2>2. /\ pc'["exec"] = pc["exec"] /\ \A g \in Starters : pc'[g] = pc[g]
        /\ pc'["reactor"] = pc["reactor"]
    BY <1>0, <2>1, MovesAlone DEF Does
  <2>3. Terminal' /\ Pending'
    BY <2>1, <2>2, StirsOn DEF Does
  <2>4. QED
    BY <1>1, <1>2, <1>3, <2>1, <2>2, <2>3 DEF Does
<1>9. ASSUME NEW h \in Starters, Start(h) PROVE PFacts'
  <2>1. PICK b : Does(h, b) /\ (UNCHANGED indexed \/ (b = "failed" /\ ~indexed'))
    BY <1>9, StartDoes
  <2>2. /\ pc'["exec"] = pc["exec"] /\ pc'["reactor"] = pc["reactor"] /\ pc'[h] = b
        /\ \A g \in Starters : g # h => pc'[g] = pc[g]
    BY <1>0, <2>1, MovesAlone DEF Does
  <2>3. (pc[h] = "new" => h \in scenario.callers) /\ pc[h] # "failed"
    BY <1>9, StartCalled
  <2>4. Called'
    BY <1>0, <2>2, <2>3 DEF PFacts, Called
  <2>5. Indexed'
    BY <2>1, <2>2, <2>3, IndexedOn DEF Does
  <2>6. Terminal' /\ Pending'
    BY <2>1, <2>2, StirsOn DEF Does
  <2>7. QED
    BY <1>1, <2>1, <2>4, <2>5, <2>6 DEF Does
<1>10. CASE Exec
  <2>1. PICK b : Does("exec", b) /\ Indexes(b)
    BY <1>10, ExecDoes
  <2>2. /\ pc'["exec"] = b /\ pc'["reactor"] = pc["reactor"]
        /\ \A g \in Starters : pc'[g] = pc[g]
    BY <1>0, <2>1, MovesAlone DEF Does
  <2>3. Terminal' /\ Pending'
    <3>1. indexed' => indexed \/ unit'.st # "dead"
      BY <2>1 DEF Indexes
    <3>2. QED
      BY <2>1, <2>2, <3>1, StirsOn DEF Does
  <2>4. Indexed'
    BY <2>1, <2>2, TellsOn DEF Does, Indexes, PFacts, Indexed
  <2>5. QED
    BY <1>1, <1>2, <2>1, <2>2, <2>3, <2>4 DEF Does
<1>11. QED
  BY <1>4, <1>5, <1>6, <1>7, <1>8, <1>9, <1>10, ContainerNot DEF Next, Step

\* Every step keeps the invariant,
LEMMA StepPInv == RInv /\ VInv /\ EInv /\ YInv /\ PInv /\ [Next]_vars => PInv'
<1> SUFFICES ASSUME RInv, VInv, EInv, YInv, PInv, [Next]_vars, Undisturbed', Single'
             PROVE  PFacts'
  BY DEF PInv
<1>1. UNCHANGED scenario
  BY DEF Next, vars
<1>2. Undisturbed
  BY <1>1 DEF Undisturbed
<1>3. Single
  BY StepEInv DEF EStep
<1>4. Before /\ PFacts
  BY <1>2, <1>3 DEF Before, YInv, PInv
<1>5. CASE Next
  BY <1>4, <1>5, StepPFacts
<1>6. CASE UNCHANGED vars
  <2>1. UNCHANGED <<unit, signals, obs, state, recorded, box, owe, work, indexed, pc>>
    BY <1>6 DEF vars, proc, event, sysd, maps
  <2>2. Called' /\ Indexed' /\ Terminal'
    BY <1>1, <1>4, <2>1 DEF PFacts, Called, Indexed, Terminal
  <2>3. Flushed'
    BY <1>4, <2>1 DEF PFacts, Flushed, OP!Prompt
  <2>4. ExitClaimed'
    BY <1>4, <2>1, SameClaims DEF PFacts, ExitClaimed
  <2>5. Pending'
    BY <1>4, <2>1 DEF PFacts, Pending, Coming
  <2>6. QED
    BY <2>2, <2>3, <2>4, <2>5 DEF PFacts
<1>7. QED
  BY <1>5, <1>6

\* which holds at first.
LEMMA InitPInv == Init => PInv
<1> SUFFICES ASSUME Init PROVE PFacts
  BY DEF PInv
<1>1. /\ pc = [h \in Handlers |-> IF h = "reactor" THEN "idle" ELSE "new"]
      /\ signals = {} /\ recorded = NoObs /\ state = noState
      /\ box = [o |-> Outbox!newEventOutbox, out |-> <<>>]
      /\ unit.st = "absent"
  BY DEF Init, StepsInit
<1>2. ~Exited(noState)
  BY DEF noState, Exited, toStatus, Created, Running, Stopped
<1>3. pc["exec"] = "new" /\ \A h \in Starters : pc[h] = "new"
  BY <1>1, CallersFresh DEF Handlers
<1>4. Called /\ Indexed
  BY <1>3 DEF Called, Indexed
<1>5. Flushed
  <2>1. box.o.deleted = FALSE /\ box.o.started = FALSE
    BY <1>1 DEF Outbox!newEventOutbox
  <2>2. QED
    BY <2>1 DEF Flushed, OP!Prompt
<1>6. Terminal /\ ExitClaimed /\ Pending
  BY <1>1, <1>2 DEF Terminal, ExitClaimed, Pending
<1>7. QED
  BY <1>4, <1>5, <1>6 DEF PFacts

\* A start that was told is one of a Start that won.  If the exit is known it was claimed, and
\* has been sent; if not, the unit is dead and still in the index, and so the reactor is not
\* at rest.
LEMMA StartedThenExited ==
    RInv /\ VInv /\ EInv /\ YInv /\ PInv => (StartedOnce => ExecExitPublished)
<1> SUFFICES ASSUME RInv, VInv, EInv, YInv, PInv, StartedOnce, Undisturbed, Quiet,
                    signals = {}, ~work, Told("TaskStart"), ~Alive
             PROVE  Told("TaskExit")
  BY DEF ExecExitPublished
<1>1. box.out \in Seq(EventKinds) /\ OP!Sound(box) /\ box.o.held \in Seq(EventKinds)
  BY DEF EInv, ETypes, OP!Boxes, OP!Outboxes
<1>2. "TaskStart" \in OP!ToSet(box.out)
  BY <1>1 DEF Told, OP!ToSet
<1>3. PICK h \in Starters : pc[h] = "ok"
  BY <1>2 DEF EInv, StartTold, Streamed, OP!Contents
<1>4. Won
  BY <1>3 DEF Won, WonLabels
<1>5. Before /\ PFacts
  BY <1>4 DEF Before, YInv, PInv, Single
<1>6. state.pid > 0 /\ DataFacts
  BY <1>4, <1>5, WonFacts DEF Before
<1>7. \A g \in Handlers : pc[g] \in Finished /\ owe[g] = {}
  BY DEF Quiet, Idle
<1>8. CASE Exited(state)
  <2>1. "TaskExit" \in OP!ToSet(box.out) \union OP!ToSet(box.o.held)
    BY <1>5, <1>7, <1>8 DEF PFacts, ExitClaimed, Claimed, Streamed, OP!Contents
  <2>2. box.o.started /\ ~box.o.deleted
    <3>1. \A e \in EventKinds : [k \in EventKinds |-> k][e] = e
      OBVIOUS
    <3>2. "TaskStart" \in EventKinds
      BY DEF EventKinds
    <3>3. QED
      BY <1>1, <1>2, <1>5, <3>1, <3>2 DEF OP!Sound, PFacts, Flushed
  <2>3. "TaskExit" \notin OP!ToSet(box.o.held)
    <3>1. "TaskExit" \in EventKinds /\ [k \in EventKinds |-> k]["TaskExit"] = "TaskExit"
      BY DEF EventKinds
    <3>2. QED
      BY <1>5, <2>2, <3>1 DEF PFacts, Flushed, OP!Prompt
  <2>4. QED
    BY <1>1, <2>1, <2>3 DEF Told, OP!ToSet
<1>9. CASE ~Exited(state)
  <2>1. unit.st = "dead"
    <3>1. unit.st \in {"absent", "dead"}
      BY DEF Alive, VInv, Units
    <3>2. unit.st = "absent" => unit.job = "none"
      BY <1>6, <1>9 DEF DataFacts, UnitFacts
    <3>3. ~NoUnitYet
      BY <1>6 DEF VInv, Blank
    <3>4. QED
      BY <3>1, <3>2, <3>3 DEF NoUnitYet
  <2>2. pc["exec"] = "ok"
    BY <1>3 DEF RInv, NotYet, Callers
  <2>3. indexed
    <3>1. ASSUME NEW g \in Starters, pc[g] = "failed" PROVE FALSE
      <4>1. {g, h} \subseteq scenario.callers
        BY <1>3, <1>5, <3>1 DEF PFacts, Called
      <4>2. QED
        BY <1>3, <3>1, <4>1 DEF StartedOnce
    <3>2. QED
      BY <1>5, <1>9, <2>2, <3>1 DEF PFacts, Indexed
  <2>4. Coming
    BY <1>5, <1>9, <2>1, <2>3 DEF PFacts, Pending
  <2>5. pc["reactor"] \in Finished
    BY <1>7 DEF Handlers
  <2>6. QED
    BY <2>4, <2>5 DEF Coming, Finished
<1>10. QED
  BY <1>8, <1>9

\* Whichever of Start, the reactor and the sweep sees it: once everything is at rest, an exec
\* whose start was published and whose unit has ended has had its exit published, if the
\* client starts it once (unitevents.go:31-34, process.go:699-710).
THEOREM ExecExitFollows == Spec => [](StartedOnce => ExecExitPublished)
<1> DEFINE I == RInv /\ VInv /\ EInv /\ YInv /\ PInv
<1>1. Init => I
  BY InitRInv, InitVInv, InitEInv, InitYInv, InitPInv
<1>2. I /\ [Next]_vars => I'
  BY StepRInv, StepVInv, StepEInv, StepYInv, StepPInv DEF EStep
<1>3. I => (StartedOnce => ExecExitPublished)
  BY StartedThenExited
<1>4. QED
  BY <1>1, <1>2, <1>3, PTL DEF Spec
=============================================================================
