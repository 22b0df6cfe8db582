-------------------------- MODULE UnitProbeProofs --------------------------
(***************************************************************************)
(* The probe of observable units on either system and in both cases, with  *)
(* every refusal, every loss of patience and every order of the programs'  *)
(* steps: the harness reports no check as failed, and finds the unit empty *)
(* only when it stays so.                                                  *)
(***************************************************************************)
EXTENDS UnitProbe, FiniteSetTheorems, TLAPS

Is(p, S) == at[p] \in S
Reaped == {"dead", "gone"}
Cleaning == {"kill unit", "kill owner", "reap", "done", "over"}

-----------------------------------------------------------------------------
\* A program is in the group of the one that started it, and the owner starts
\* nobody before it has made itself a group.
Grouped ==
  /\ Is("owner", {"unstarted", "form"}) => group["owner"] = "harness"
  /\ Is("owner", {"fork", "publish"}) => group["owner"] = "unit"
  /\ ~Is("driver", {"unstarted"}) =>
       group["driver"] = "unit" /\ Is("owner", {"publish", "serve"} \union Reaped)
  /\ ~Is("writer", {"unstarted"}) =>
       group["writer"] = "unit" /\ Is("driver", {"publish", "await"} \union Reaped)
  /\ parent["driver"] # "writer"

\* Nothing is asked of the programs before the harness asks it.
NotAsked ==
  /\ harness \in {"launch", "ready", "kill", "orphan", "survivor", "release"} =>
       "writer.release" \notin files
  /\ harness \in {"launch", "ready", "kill", "orphan", "survivor", "release", "late", "only"} =>
       "retire.request" \notin files /\ "owner.retired" \notin files
  /\ harness \in {"launch", "ready", "kill", "orphan", "survivor", "release", "late", "only",
                  "retire"} =>
       "owner.release" \notin files
  /\ harness \in {"only", "retire", "await"} => normal
  /\ harness \in {"kill", "orphan", "survivor"} => ~normal

\* A record tells where the program is that put it in place.
Starting ==
  harness \in {"launch", "ready"} =>
    /\ harness = "launch" => Is("owner", {"unstarted"})
    /\ ~Is("driver", {"unstarted"}) => Is("owner", {"publish", "serve"})
    /\ ~Is("writer", {"unstarted"}) => Is("driver", {"publish", "await"})
    /\ Is("writer", {"unstarted", "publish", "wait"})
    /\ group["owner"] = "unit" \/ Is("owner", {"unstarted", "form"} \union Reaped)
    /\ "controller.ready" \in files => Is("owner", {"serve"})
    /\ "driver.ready" \in files => Is("driver", {"await"} \union Reaped)
    /\ "writer.ready" \in files => Is("writer", {"wait"})
    /\ "owner.only" \in files => Is("driver", {"gone"})

\* In the normal case the owner serves until it is released, and nobody ends
\* before the one it started.
Serving ==
  normal =>
    /\ harness \in {"release", "late", "only", "retire"} => Is("owner", {"serve"})
    /\ harness \in {"release", "late", "only"} =>
         /\ group["owner"] = "unit"
         /\ Is("driver", {"await"} \union Reaped)
         /\ Is("driver", Reaped) => Is("writer", {"gone"})
         /\ "owner.only" \in files => Is("driver", {"gone"})
    /\ harness \in {"retire", "await"} => Is("driver", {"gone"}) /\ Is("writer", {"gone"})
    /\ harness = "retire" /\ "owner.retired" \in files => group["owner"] = "harness"
    /\ harness = "await" => group["owner"] = "harness" /\ Is("owner", {"serve"} \union Reaped)

\* In the other case it is killed, and the writer waits on.
Orphaned ==
  /\ harness = "kill" => Is("owner", {"serve"}) /\ Is("driver", {"await"}) /\ group["owner"] = "unit"
  /\ harness = "orphan" => Is("owner", Reaped)
  /\ harness = "survivor" \/ (~normal /\ harness \in {"release", "late"}) => Is("owner", {"gone"})
  /\ harness \in {"orphan", "survivor", "release", "late", "settle"} =>
       Is("driver", {"await"} \union Reaped)

\* The writer waits for its release, and its output is there once it wrote.
Writing ==
  /\ harness \in {"kill", "orphan", "survivor", "release"} => Is("writer", {"wait"})
  /\ harness = "late" => Is("writer", {"wait", "leave"} \union Reaped)
  /\ harness \in {"only", "settle"} => Is("writer", {"leave"} \union Reaped)
  /\ "late.write" \in files => Is("writer", {"leave"} \union Reaped)
  /\ harness = "settle" => Is("owner", {"gone"})

\* Whoever finds the unit empty finds that nobody will enter it.
Settled ==
  /\ Is("driver", Reaped) /\ Is("writer", Reaped)
  /\ Is("owner", Reaped) \/ (Is("owner", {"serve"}) /\ group["owner"] = "harness")
QuietIsSettled == quiet => Settled /\ harness \in {"await", "settle"} \union Cleaning

IInv ==
  /\ TypeOK /\ Grouped /\ NotAsked /\ Starting /\ Serving /\ Orphaned /\ Writing
  /\ QuietIsSettled /\ ~wrong
-----------------------------------------------------------------------------
\* What a death changes: those of S are dead, and the driver may be if it asked to
\* die with one of them; an orphan gets a parent outside the probe.
Died(S) ==
  /\ at' \in [Programs -> {"unstarted", "form", "look", "arm", "fork", "publish", "serve",
                           "await", "wait", "leave", "dead", "gone"}]
  /\ parent' \in [Programs -> Programs \union {"harness", "init"}]
  /\ \A p \in S : at'[p] = "dead"
  /\ \A p \in Programs \ S :
       at'[p] = at[p] \/ (p = "driver" /\ Running(p) /\ parent[p] \in S /\ at'[p] = "dead")
  /\ \A p \in Programs : parent'[p] \in {parent[p], "harness", "init"}

LEMMA DiesDied ==
  ASSUME TypeOK, NEW S \in SUBSET Programs, Dies(S)
  PROVE  Died(S)
  <1> USE DEF TypeOK, Running
  <1> DEFINE dead == S \union {p \in armed : Running(p) /\ parent[p] \in S}
  <1>1. /\ at' = [p \in Programs |-> IF p \in dead THEN "dead" ELSE at[p]]
        /\ parent' = [p \in Programs |-> IF parent[p] \in dead THEN Reaper(harness = "over")
                                         ELSE parent[p]]
    BY DEF Dies
  <1>2. Reaper(harness = "over") \in {"harness", "init"}  BY DEF Reaper
  <1>3. \A p \in dead : p \in S \/ (p = "driver" /\ Running(p) /\ parent[p] \in S)  OBVIOUS
  <1> HIDE DEF dead
  <1>4. /\ parent' \in [Programs -> Programs \union {"harness", "init"}]
        /\ \A p \in Programs : parent'[p] \in {parent[p], "harness", "init"}
    BY <1>1, <1>2
  <1>5. S \subseteq dead  BY DEF dead
  <1>6. /\ \A p \in S : at'[p] = "dead"
        /\ \A p \in Programs \ S :
             at'[p] = at[p] \/ (p = "driver" /\ Running(p) /\ parent[p] \in S /\ at'[p] = "dead")
    BY <1>1, <1>3, <1>5
  <1>7. at' \in [Programs -> {"unstarted", "form", "look", "arm", "fork", "publish", "serve",
                             "await", "wait", "leave", "dead", "gone"}]
    BY <1>1
  <1> QED  BY <1>4, <1>6, <1>7 DEF Died

\* The deaths the steps may bring.
Deaths ==
  /\ Dies({"owner"}) => Died({"owner"})
  /\ Dies({"driver"}) => Died({"driver"})
  /\ Dies({"writer"}) => Died({"writer"})
  /\ Dies({p \in Programs : group[p] = "unit" /\ Running(p)}) =>
       Died({p \in Programs : group[p] = "unit" /\ Running(p)})
  /\ Dies({"owner"} \intersect {p \in Programs : Running(p)}) =>
       Died({"owner"} \intersect {p \in Programs : Running(p)})

LEMMA DeathsAreDied == TypeOK => Deaths
  <1> SUFFICES ASSUME TypeOK PROVE Deaths  OBVIOUS
  <1>1. {p \in Programs : group[p] = "unit" /\ Running(p)} \in SUBSET Programs  OBVIOUS
  <1>2. {"owner"} \intersect {p \in Programs : Running(p)} \in SUBSET Programs  OBVIOUS
  <1>3. \A p \in {"owner", "driver", "writer"} : {p} \in SUBSET Programs  BY DEF Programs
  <1> QED  BY <1>1, <1>2, <1>3, DiesDied DEF Deaths

\* What the steps come to that put a record in place or start a program, or
\* end the one to do so, and those of the cleaning up.
Placed(p, name, next) ==
  /\ files' = files \union {name}
  /\ at' = [at EXCEPT ![p] = next]
  /\ parent' = parent
LeftLate(p) == harness = "over" /\ Died({p}) /\ files' = files
Forked(p, q, first, next) ==
  /\ at' = [at EXCEPT ![q] = first, ![p] = next]
  /\ group' = [group EXCEPT ![q] = group[p]]
  /\ parent' = [parent EXCEPT ![q] = p]
Refused(p) == Died({p}) /\ group' = group
Armed ==
  /\ at' = [at EXCEPT !["driver"] = "fork"]
  /\ armed' = armed \union {"driver"}
  /\ parent' = parent
Deserted == Died({"driver"}) /\ parent["driver"] # seen /\ armed' = armed
Cleaned ==
  \/ /\ harness = "kill unit" /\ harness' = "kill owner"
     /\ Died({p \in Programs : group[p] = "unit" /\ Running(p)})
  \/ /\ harness = "kill owner" /\ harness' = "reap"
     /\ Died({"owner"} \intersect {p \in Programs : Running(p)})
  \/ /\ harness = "reap" /\ harness' = "done" /\ parent' = parent
     /\ \A p \in Programs : at'[p] = at[p] \/ (at[p] = "dead" /\ at'[p] = "gone")
     /\ at' \in [Programs -> {"unstarted", "form", "look", "arm", "fork", "publish", "serve",
                              "await", "wait", "leave", "dead", "gone"}]

Outcomes ==
  /\ OwnerForks => Forked("owner", "driver", "look", "publish") \/ Refused("owner")
  /\ OwnerPublishes => Placed("owner", "controller.ready", "serve") \/ LeftLate("owner")
  /\ OwnerEnds => Died({"owner"})
  /\ DriverArms => Armed \/ Deserted
  /\ DriverForks => Forked("driver", "writer", "publish", "publish") \/ Refused("driver")
  /\ DriverPublishes => Placed("driver", "driver.ready", "await") \/ LeftLate("driver")
  /\ WriterPublishes => Placed("writer", "writer.ready", "wait") \/ LeftLate("writer")
  /\ WriterWrites => Placed("writer", "late.write", "leave") \/ LeftLate("writer")
  /\ WriterEnds => Died({"writer"})
  /\ WriterGivesUp => Died({"writer"})
  /\ KillsOwner => Died({"owner"})
  /\ CleansUp => Cleaned

LEMMA OutcomesHold == TypeOK => Outcomes
  <1> SUFFICES ASSUME TypeOK PROVE Outcomes  OBVIOUS
  <1>1. Deaths  BY DeathsAreDied
  <1>2. OwnerForks => Forked("owner", "driver", "look", "publish") \/ Refused("owner")
    BY <1>1 DEF OwnerForks, Forks, Forked, Refused, Deaths
  <1>3. OwnerPublishes => Placed("owner", "controller.ready", "serve") \/ LeftLate("owner")
    BY <1>1 DEF OwnerPublishes, Put, Placed, LeftLate, Deaths
  <1>4. OwnerEnds => Died({"owner"})  BY <1>1 DEF OwnerEnds, Deaths
  <1>5. DriverArms => Armed \/ Deserted  BY <1>1 DEF DriverArms, Armed, Deserted, Deaths
  <1>6. DriverForks => Forked("driver", "writer", "publish", "publish") \/ Refused("driver")
    BY <1>1 DEF DriverForks, Forks, Forked, Refused, Deaths
  <1>7. DriverPublishes => Placed("driver", "driver.ready", "await") \/ LeftLate("driver")
    BY <1>1 DEF DriverPublishes, Put, Placed, LeftLate, Deaths
  <1>8. WriterPublishes => Placed("writer", "writer.ready", "wait") \/ LeftLate("writer")
    BY <1>1 DEF WriterPublishes, Put, Placed, LeftLate, Deaths
  <1>9. WriterWrites => Placed("writer", "late.write", "leave") \/ LeftLate("writer")
    BY <1>1 DEF WriterWrites, Put, Placed, LeftLate, Deaths
  <1>10. WriterEnds => Died({"writer"})  BY <1>1 DEF WriterEnds, Deaths
  <1>11. WriterGivesUp => Died({"writer"})  BY <1>1 DEF WriterGivesUp, Deaths
  <1>12. KillsOwner => Died({"owner"})  BY <1>1 DEF KillsOwner, Deaths
  <1>13. CleansUp => Cleaned
    <2>1. at' = [p \in Programs |->
                   IF at[p] = "dead" /\ (p = "owner" \/ parent[p] = "harness") THEN "gone" ELSE at[p]]
          => /\ \A p \in Programs : at'[p] = at[p] \/ (at[p] = "dead" /\ at'[p] = "gone")
             /\ at' \in [Programs -> {"unstarted", "form", "look", "arm", "fork", "publish",
                                      "serve", "await", "wait", "leave", "dead", "gone"}]
      BY DEF TypeOK
    <2> QED  BY <1>1, <2>1 DEF CleansUp, Cleaned, Deaths
  <1> QED
    BY <1>2, <1>3, <1>4, <1>5, <1>6, <1>7, <1>8, <1>9, <1>10, <1>11, <1>12, <1>13 DEF Outcomes

LEMMA TypeStep ==
  ASSUME TypeOK, Outcomes, [Next]_vars
  PROVE  TypeOK'
  <1> USE DEF TypeOK, Programs, Files, Running, setup, watch, Is, Reaped
  <1>1. CASE OwnerForms  BY <1>1 DEF OwnerForms
  <1>2. CASE OwnerForks
    <2>1. at["owner"] = "fork" /\ UNCHANGED <<setup, watch, seen, armed, files>>
      BY <1>2 DEF OwnerForks
    <2>2. CASE Forked("owner", "driver", "look", "publish")  BY <2>1, <2>2 DEF Forked
    <2>3. CASE Refused("owner")  BY <2>1, <2>3 DEF Refused, Died
    <2> QED  BY <1>2, <2>2, <2>3 DEF Outcomes
  <1>3. CASE OwnerPublishes
    <2>1. at["owner"] = "publish" /\ UNCHANGED <<setup, watch, group, seen, armed>>
      BY <1>3 DEF OwnerPublishes
    <2>2. CASE Placed("owner", "controller.ready", "serve")  BY <2>1, <2>2 DEF Placed
    <2>3. CASE LeftLate("owner")  BY <2>1, <2>3 DEF LeftLate, Died
    <2> QED  BY <1>3, <2>2, <2>3 DEF Outcomes
  <1>4. CASE OwnerReaps  BY <1>4 DEF OwnerReaps
  <1>5. CASE OwnerRetires  BY <1>5 DEF OwnerRetires
  <1>6. CASE OwnerEnds  BY <1>6 DEF OwnerEnds, Outcomes, Died
  <1>7. CASE DriverLooks  BY <1>7 DEF DriverLooks
  <1>8. CASE DriverArms
    <2>1. at["driver"] = "arm" /\ UNCHANGED <<setup, watch, group, seen, files>>
      BY <1>8 DEF DriverArms
    <2>2. CASE Armed  BY <2>1, <2>2 DEF Armed
    <2>3. CASE Deserted  BY <2>1, <2>3 DEF Deserted, Died
    <2> QED  BY <1>8, <2>2, <2>3 DEF Outcomes
  <1>9. CASE DriverForks
    <2>1. at["driver"] = "fork" /\ UNCHANGED <<setup, watch, seen, armed, files>>
      BY <1>9 DEF DriverForks
    <2>2. CASE Forked("driver", "writer", "publish", "publish")  BY <2>1, <2>2 DEF Forked
    <2>3. CASE Refused("driver")  BY <2>1, <2>3 DEF Refused, Died
    <2> QED  BY <1>9, <2>2, <2>3 DEF Outcomes
  <1>10. CASE DriverPublishes
    <2>1. at["driver"] = "publish" /\ UNCHANGED <<setup, watch, group, seen, armed>>
      BY <1>10 DEF DriverPublishes
    <2>2. CASE Placed("driver", "driver.ready", "await")  BY <2>1, <2>2 DEF Placed
    <2>3. CASE LeftLate("driver")  BY <2>1, <2>3 DEF LeftLate, Died
    <2> QED  BY <1>10, <2>2, <2>3 DEF Outcomes
  <1>11. CASE DriverAwaits  BY <1>11 DEF DriverAwaits
  <1>12. CASE WriterPublishes
    <2>1. at["writer"] = "publish" /\ UNCHANGED <<setup, watch, group, seen, armed>>
      BY <1>12 DEF WriterPublishes
    <2>2. CASE Placed("writer", "writer.ready", "wait")  BY <2>1, <2>2 DEF Placed
    <2>3. CASE LeftLate("writer")  BY <2>1, <2>3 DEF LeftLate, Died
    <2> QED  BY <1>12, <2>2, <2>3 DEF Outcomes
  <1>13. CASE WriterWrites
    <2>1. /\ at["writer"] = "wait" /\ "writer.release" \in files
         /\ UNCHANGED <<setup, watch, group, seen, armed>>
      BY <1>13 DEF WriterWrites
    <2>2. CASE Placed("writer", "late.write", "leave")  BY <2>1, <2>2 DEF Placed
    <2>3. CASE LeftLate("writer")  BY <2>1, <2>3 DEF LeftLate, Died
    <2> QED  BY <1>13, <2>2, <2>3 DEF Outcomes
  <1>14. CASE WriterEnds  BY <1>14 DEF WriterEnds, Outcomes, Died
  <1>15. CASE WriterGivesUp  BY <1>15 DEF WriterGivesUp, Outcomes, Died
  <1>16. CASE Launches  BY <1>16 DEF Launches
  <1>17. CASE SeesReady  BY <1>17 DEF SeesReady, Reports
  <1>18. CASE KillsOwner  BY <1>18 DEF KillsOwner, Outcomes, Died
  <1>19. CASE SeesOrphan  BY <1>19 DEF SeesOrphan
  <1>20. CASE SeesSurvivor  BY <1>20 DEF SeesSurvivor, Reports
  <1>21. CASE ReleasesWriter  BY <1>21 DEF ReleasesWriter
  <1>22. CASE SeesOutput  BY <1>22 DEF SeesOutput
  <1>23. CASE SeesOwnerOnly  BY <1>23 DEF SeesOwnerOnly, Reports
  <1>24. CASE SeesRetired  BY <1>24 DEF SeesRetired, Reports
  <1>25. CASE AwaitsOwner  BY <1>25 DEF AwaitsOwner
  <1>26. CASE Reaps  BY <1>26 DEF Reaps
  <1>27. CASE SeesEmpty  BY <1>27 DEF SeesEmpty
  <1>28. CASE LosesPatience  BY <1>28 DEF LosesPatience
  <1>29. CASE CleansUp  BY <1>29 DEF CleansUp, Outcomes, Cleaned, Died
  <1>30. CASE Ends  BY <1>30 DEF Ends
  <1>31. CASE InitReaps
    <2>1. PICK p \in Programs : at' = [at EXCEPT ![p] = "gone"]  BY <1>31 DEF InitReaps
    <2>2. UNCHANGED <<setup, watch, group, parent, seen, armed, files>>  BY <1>31 DEF InitReaps
    <2> QED  BY <2>1, <2>2
  <1>32. CASE UNCHANGED vars  BY <1>32 DEF vars, setup, watch
  <1> QED
    BY <1>1, <1>2, <1>3, <1>4, <1>5, <1>6, <1>7, <1>8, <1>9, <1>10, <1>11, <1>12, <1>13, <1>14,
       <1>15, <1>16, <1>17, <1>18, <1>19, <1>20, <1>21, <1>22, <1>23, <1>24, <1>25, <1>26,
       <1>27, <1>28, <1>29, <1>30, <1>31, <1>32
       DEF Next, OwnerNext, DriverNext, WriterNext, HarnessNext

LEMMA GroupedStep ==
  ASSUME TypeOK, Grouped, Starting, Outcomes, [Next]_vars
  PROVE  Grouped'
  <1> USE DEF TypeOK, Programs, Files, Running, setup, watch, Is, Reaped, Grouped
  <1>1. CASE OwnerForms  BY <1>1 DEF OwnerForms
  <1>2. CASE OwnerForks  BY <1>2 DEF OwnerForks, Outcomes, Forked, Refused, Died
  <1>3. CASE OwnerPublishes  BY <1>3 DEF OwnerPublishes, Outcomes, Placed, LeftLate, Died
  <1>4. CASE OwnerReaps  BY <1>4 DEF OwnerReaps
  <1>5. CASE OwnerRetires  BY <1>5 DEF OwnerRetires
  <1>6. CASE OwnerEnds  BY <1>6 DEF OwnerEnds, Outcomes, Died
  <1>7. CASE DriverLooks  BY <1>7 DEF DriverLooks
  <1>8. CASE DriverArms  BY <1>8 DEF DriverArms, Outcomes, Armed, Deserted, Died
  <1>9. CASE DriverForks  BY <1>9 DEF DriverForks, Outcomes, Forked, Refused, Died
  <1>10. CASE DriverPublishes  BY <1>10 DEF DriverPublishes, Outcomes, Placed, LeftLate, Died
  <1>11. CASE DriverAwaits  BY <1>11 DEF DriverAwaits
  <1>12. CASE WriterPublishes  BY <1>12 DEF WriterPublishes, Outcomes, Placed, LeftLate, Died
  <1>13. CASE WriterWrites  BY <1>13 DEF WriterWrites, Outcomes, Placed, LeftLate, Died
  <1>14. CASE WriterEnds  BY <1>14 DEF WriterEnds, Outcomes, Died
  <1>15. CASE WriterGivesUp  BY <1>15 DEF WriterGivesUp, Outcomes, Died
  <1>16. CASE Launches
    <2>1. /\ harness = "launch" /\ at' = [at EXCEPT !["owner"] = "form"]
          /\ UNCHANGED <<group, parent>>
      BY <1>16 DEF Launches
    <2>2. Is("owner", {"unstarted"})  BY <2>1 DEF Starting
    <2> QED  BY <2>1, <2>2
  <1>17. CASE SeesReady  BY <1>17 DEF SeesReady, Reports
  <1>18. CASE KillsOwner  BY <1>18 DEF KillsOwner, Outcomes, Died
  <1>19. CASE SeesOrphan  BY <1>19 DEF SeesOrphan
  <1>20. CASE SeesSurvivor  BY <1>20 DEF SeesSurvivor, Reports
  <1>21. CASE ReleasesWriter  BY <1>21 DEF ReleasesWriter
  <1>22. CASE SeesOutput  BY <1>22 DEF SeesOutput
  <1>23. CASE SeesOwnerOnly  BY <1>23 DEF SeesOwnerOnly, Reports
  <1>24. CASE SeesRetired  BY <1>24 DEF SeesRetired, Reports
  <1>25. CASE AwaitsOwner  BY <1>25 DEF AwaitsOwner
  <1>26. CASE Reaps  BY <1>26 DEF Reaps
  <1>27. CASE SeesEmpty  BY <1>27 DEF SeesEmpty
  <1>28. CASE LosesPatience  BY <1>28 DEF LosesPatience
  <1>29. CASE CleansUp  BY <1>29 DEF CleansUp, Outcomes, Cleaned, Died
  <1>30. CASE Ends  BY <1>30 DEF Ends
  <1>31. CASE InitReaps  BY <1>31 DEF InitReaps
  <1>32. CASE UNCHANGED vars  BY <1>32 DEF vars, setup, watch
  <1> QED
    BY <1>1, <1>2, <1>3, <1>4, <1>5, <1>6, <1>7, <1>8, <1>9, <1>10, <1>11, <1>12, <1>13, <1>14,
       <1>15, <1>16, <1>17, <1>18, <1>19, <1>20, <1>21, <1>22, <1>23, <1>24, <1>25, <1>26,
       <1>27, <1>28, <1>29, <1>30, <1>31, <1>32
       DEF Next, OwnerNext, DriverNext, WriterNext, HarnessNext

LEMMA NotAskedStep ==
  ASSUME TypeOK, NotAsked, Outcomes, [Next]_vars
  PROVE  NotAsked'
  <1> USE DEF TypeOK, Programs, Files, Running, setup, watch, Is, Reaped, NotAsked
  <1>1. CASE OwnerForms  BY <1>1 DEF OwnerForms
  <1>2. CASE OwnerForks  BY <1>2 DEF OwnerForks, Outcomes, Forked, Refused, Died
  <1>3. CASE OwnerPublishes  BY <1>3 DEF OwnerPublishes, Outcomes, Placed, LeftLate, Died
  <1>4. CASE OwnerReaps  BY <1>4 DEF OwnerReaps
  <1>5. CASE OwnerRetires  BY <1>5 DEF OwnerRetires
  <1>6. CASE OwnerEnds  BY <1>6 DEF OwnerEnds, Outcomes, Died
  <1>7. CASE DriverLooks  BY <1>7 DEF DriverLooks
  <1>8. CASE DriverArms  BY <1>8 DEF DriverArms, Outcomes, Armed, Deserted, Died
  <1>9. CASE DriverForks  BY <1>9 DEF DriverForks, Outcomes, Forked, Refused, Died
  <1>10. CASE DriverPublishes  BY <1>10 DEF DriverPublishes, Outcomes, Placed, LeftLate, Died
  <1>11. CASE DriverAwaits  BY <1>11 DEF DriverAwaits
  <1>12. CASE WriterPublishes  BY <1>12 DEF WriterPublishes, Outcomes, Placed, LeftLate, Died
  <1>13. CASE WriterWrites  BY <1>13 DEF WriterWrites, Outcomes, Placed, LeftLate, Died
  <1>14. CASE WriterEnds  BY <1>14 DEF WriterEnds, Outcomes, Died
  <1>15. CASE WriterGivesUp  BY <1>15 DEF WriterGivesUp, Outcomes, Died
  <1>16. CASE Launches  BY <1>16 DEF Launches
  <1>17. CASE SeesReady  BY <1>17 DEF SeesReady, Reports
  <1>18. CASE KillsOwner  BY <1>18 DEF KillsOwner, Outcomes, Died
  <1>19. CASE SeesOrphan  BY <1>19 DEF SeesOrphan
  <1>20. CASE SeesSurvivor  BY <1>20 DEF SeesSurvivor, Reports
  <1>21. CASE ReleasesWriter  BY <1>21 DEF ReleasesWriter
  <1>22. CASE SeesOutput  BY <1>22 DEF SeesOutput
  <1>23. CASE SeesOwnerOnly  BY <1>23 DEF SeesOwnerOnly, Reports
  <1>24. CASE SeesRetired  BY <1>24 DEF SeesRetired, Reports
  <1>25. CASE AwaitsOwner  BY <1>25 DEF AwaitsOwner
  <1>26. CASE Reaps  BY <1>26 DEF Reaps
  <1>27. CASE SeesEmpty  BY <1>27 DEF SeesEmpty
  <1>28. CASE LosesPatience  BY <1>28 DEF LosesPatience
  <1>29. CASE CleansUp  BY <1>29 DEF CleansUp, Outcomes, Cleaned, Died
  <1>30. CASE Ends  BY <1>30 DEF Ends
  <1>31. CASE InitReaps  BY <1>31 DEF InitReaps
  <1>32. CASE UNCHANGED vars  BY <1>32 DEF vars, setup, watch
  <1> QED
    BY <1>1, <1>2, <1>3, <1>4, <1>5, <1>6, <1>7, <1>8, <1>9, <1>10, <1>11, <1>12, <1>13, <1>14,
       <1>15, <1>16, <1>17, <1>18, <1>19, <1>20, <1>21, <1>22, <1>23, <1>24, <1>25, <1>26,
       <1>27, <1>28, <1>29, <1>30, <1>31, <1>32
       DEF Next, OwnerNext, DriverNext, WriterNext, HarnessNext

LEMMA StartingStep ==
  ASSUME TypeOK, Grouped, NotAsked, Starting, Outcomes, [Next]_vars
  PROVE  Starting'
  <1> USE DEF TypeOK, Programs, Files, Running, setup, watch, Is, Reaped, Grouped, NotAsked, Starting
  <1>1. CASE OwnerForms  BY <1>1 DEF OwnerForms
  <1>2. CASE OwnerForks  BY <1>2 DEF OwnerForks, Outcomes, Forked, Refused, Died
  <1>3. CASE OwnerPublishes
    <2>1. at["owner"] = "publish" /\ UNCHANGED <<setup, watch, group, seen, armed>>
      BY <1>3 DEF OwnerPublishes
    <2>2. CASE Placed("owner", "controller.ready", "serve")  BY <2>1, <2>2 DEF Placed
    <2>3. CASE LeftLate("owner")  BY <2>1, <2>3 DEF LeftLate, Died
    <2> QED  BY <1>3, <2>2, <2>3 DEF Outcomes
  <1>4. CASE OwnerReaps  BY <1>4 DEF OwnerReaps
  <1>5. CASE OwnerRetires  BY <1>5 DEF OwnerRetires
  <1>6. CASE OwnerEnds  BY <1>6 DEF OwnerEnds, Outcomes, Died
  <1>7. CASE DriverLooks  BY <1>7 DEF DriverLooks
  <1>8. CASE DriverArms  BY <1>8 DEF DriverArms, Outcomes, Armed, Deserted, Died
  <1>9. CASE DriverForks  BY <1>9 DEF DriverForks, Outcomes, Forked, Refused, Died
  <1>10. CASE DriverPublishes
    <2>1. at["driver"] = "publish" /\ UNCHANGED <<setup, watch, group, seen, armed>>
      BY <1>10 DEF DriverPublishes
    <2>2. CASE Placed("driver", "driver.ready", "await")  BY <2>1, <2>2 DEF Placed
    <2>3. CASE LeftLate("driver")  BY <2>1, <2>3 DEF LeftLate, Died
    <2> QED  BY <1>10, <2>2, <2>3 DEF Outcomes
  <1>11. CASE DriverAwaits  BY <1>11 DEF DriverAwaits
  <1>12. CASE WriterPublishes
    <2>1. at["writer"] = "publish" /\ UNCHANGED <<setup, watch, group, seen, armed>>
      BY <1>12 DEF WriterPublishes
    <2>2. CASE Placed("writer", "writer.ready", "wait")  BY <2>1, <2>2 DEF Placed
    <2>3. CASE LeftLate("writer")  BY <2>1, <2>3 DEF LeftLate, Died
    <2> QED  BY <1>12, <2>2, <2>3 DEF Outcomes
  <1>13. CASE WriterWrites  BY <1>13 DEF WriterWrites, Outcomes, Placed, LeftLate, Died
  <1>14. CASE WriterEnds  BY <1>14 DEF WriterEnds, Outcomes, Died
  <1>15. CASE WriterGivesUp  BY <1>15 DEF WriterGivesUp, Outcomes, Died
  <1>16. CASE Launches  BY <1>16 DEF Launches
  <1>17. CASE SeesReady  BY <1>17 DEF SeesReady, Reports
  <1>18. CASE KillsOwner  BY <1>18 DEF KillsOwner, Outcomes, Died
  <1>19. CASE SeesOrphan  BY <1>19 DEF SeesOrphan
  <1>20. CASE SeesSurvivor  BY <1>20 DEF SeesSurvivor, Reports
  <1>21. CASE ReleasesWriter  BY <1>21 DEF ReleasesWriter
  <1>22. CASE SeesOutput  BY <1>22 DEF SeesOutput
  <1>23. CASE SeesOwnerOnly  BY <1>23 DEF SeesOwnerOnly, Reports
  <1>24. CASE SeesRetired  BY <1>24 DEF SeesRetired, Reports
  <1>25. CASE AwaitsOwner  BY <1>25 DEF AwaitsOwner
  <1>26. CASE Reaps  BY <1>26 DEF Reaps
  <1>27. CASE SeesEmpty  BY <1>27 DEF SeesEmpty
  <1>28. CASE LosesPatience  BY <1>28 DEF LosesPatience
  <1>29. CASE CleansUp  BY <1>29 DEF CleansUp, Outcomes, Cleaned, Died
  <1>30. CASE Ends  BY <1>30 DEF Ends
  <1>31. CASE InitReaps  BY <1>31 DEF InitReaps
  <1>32. CASE UNCHANGED vars  BY <1>32 DEF vars, setup, watch
  <1> QED
    BY <1>1, <1>2, <1>3, <1>4, <1>5, <1>6, <1>7, <1>8, <1>9, <1>10, <1>11, <1>12, <1>13, <1>14,
       <1>15, <1>16, <1>17, <1>18, <1>19, <1>20, <1>21, <1>22, <1>23, <1>24, <1>25, <1>26,
       <1>27, <1>28, <1>29, <1>30, <1>31, <1>32
       DEF Next, OwnerNext, DriverNext, WriterNext, HarnessNext

LEMMA ServingStep ==
  ASSUME TypeOK, Grouped, NotAsked, Starting, Serving, Orphaned, Writing, QuietIsSettled,
         Outcomes, [Next]_vars
  PROVE  Serving'
  <1> USE DEF TypeOK, Programs, Files, Running, setup, watch, Is, Reaped, Grouped, NotAsked, Starting,
        Serving, Orphaned, Writing
  <1>1. CASE OwnerForms  BY <1>1 DEF OwnerForms
  <1>2. CASE OwnerForks  BY <1>2 DEF OwnerForks, Outcomes, Forked, Refused, Died
  <1>3. CASE OwnerPublishes  BY <1>3 DEF OwnerPublishes, Outcomes, Placed, LeftLate, Died
  <1>4. CASE OwnerReaps  BY <1>4 DEF OwnerReaps
  <1>5. CASE OwnerRetires  BY <1>5 DEF OwnerRetires
  <1>6. CASE OwnerEnds  BY <1>6 DEF OwnerEnds, Outcomes, Died
  <1>7. CASE DriverLooks  BY <1>7 DEF DriverLooks
  <1>8. CASE DriverArms  BY <1>8 DEF DriverArms, Outcomes, Armed, Deserted, Died
  <1>9. CASE DriverForks  BY <1>9 DEF DriverForks, Outcomes, Forked, Refused, Died
  <1>10. CASE DriverPublishes  BY <1>10 DEF DriverPublishes, Outcomes, Placed, LeftLate, Died
  <1>11. CASE DriverAwaits  BY <1>11 DEF DriverAwaits
  <1>12. CASE WriterPublishes  BY <1>12 DEF WriterPublishes, Outcomes, Placed, LeftLate, Died
  <1>13. CASE WriterWrites
    <2>1. /\ at["writer"] = "wait" /\ "writer.release" \in files
         /\ UNCHANGED <<setup, watch, group, seen, armed>>
      BY <1>13 DEF WriterWrites
    <2>2. CASE Placed("writer", "late.write", "leave")  BY <2>1, <2>2 DEF Placed
    <2>3. CASE LeftLate("writer")  BY <2>1, <2>3 DEF LeftLate, Died
    <2> QED  BY <1>13, <2>2, <2>3 DEF Outcomes
  <1>14. CASE WriterEnds  BY <1>14 DEF WriterEnds, Outcomes, Died
  <1>15. CASE WriterGivesUp  BY <1>15 DEF WriterGivesUp, Outcomes, Died
  <1>16. CASE Launches  BY <1>16 DEF Launches
  <1>17. CASE SeesReady  BY <1>17 DEF SeesReady, Reports
  <1>18. CASE KillsOwner  BY <1>18 DEF KillsOwner, Outcomes, Died
  <1>19. CASE SeesOrphan  BY <1>19 DEF SeesOrphan
  <1>20. CASE SeesSurvivor  BY <1>20 DEF SeesSurvivor, Reports
  <1>21. CASE ReleasesWriter  BY <1>21 DEF ReleasesWriter
  <1>22. CASE SeesOutput  BY <1>22 DEF SeesOutput
  <1>23. CASE SeesOwnerOnly
    <2>1. /\ harness = "only" /\ "owner.only" \in files
          /\ files' = files \union {"retire.request"} /\ harness' = "retire"
          /\ UNCHANGED <<setup, at, group>>
      BY <1>23 DEF SeesOwnerOnly
    <2> QED  BY <2>1
  <1>24. CASE SeesRetired  BY <1>24 DEF SeesRetired, Reports
  <1>25. CASE AwaitsOwner  BY <1>25 DEF AwaitsOwner
  <1>26. CASE Reaps  BY <1>26 DEF Reaps
  <1>27. CASE SeesEmpty  BY <1>27 DEF SeesEmpty
  <1>28. CASE LosesPatience  BY <1>28 DEF LosesPatience
  <1>29. CASE CleansUp  BY <1>29 DEF CleansUp, Outcomes, Cleaned, Died
  <1>30. CASE Ends  BY <1>30 DEF Ends
  <1>31. CASE InitReaps  BY <1>31 DEF InitReaps
  <1>32. CASE UNCHANGED vars  BY <1>32 DEF vars, setup, watch
  <1> QED
    BY <1>1, <1>2, <1>3, <1>4, <1>5, <1>6, <1>7, <1>8, <1>9, <1>10, <1>11, <1>12, <1>13, <1>14,
       <1>15, <1>16, <1>17, <1>18, <1>19, <1>20, <1>21, <1>22, <1>23, <1>24, <1>25, <1>26,
       <1>27, <1>28, <1>29, <1>30, <1>31, <1>32
       DEF Next, OwnerNext, DriverNext, WriterNext, HarnessNext

LEMMA OrphanedStep ==
  ASSUME TypeOK, Grouped, NotAsked, Starting, Serving, Orphaned, Writing, QuietIsSettled,
         Outcomes, [Next]_vars
  PROVE  Orphaned'
  <1> USE DEF TypeOK, Programs, Files, Running, setup, watch, Is, Reaped, Grouped, NotAsked, Starting,
        Serving, Orphaned, Writing
  <1>1. CASE OwnerForms  BY <1>1 DEF OwnerForms
  <1>2. CASE OwnerForks  BY <1>2 DEF OwnerForks, Outcomes, Forked, Refused, Died
  <1>3. CASE OwnerPublishes  BY <1>3 DEF OwnerPublishes, Outcomes, Placed, LeftLate, Died
  <1>4. CASE OwnerReaps  BY <1>4 DEF OwnerReaps
  <1>5. CASE OwnerRetires  BY <1>5 DEF OwnerRetires
  <1>6. CASE OwnerEnds  BY <1>6 DEF OwnerEnds, Outcomes, Died
  <1>7. CASE DriverLooks  BY <1>7 DEF DriverLooks
  <1>8. CASE DriverArms  BY <1>8 DEF DriverArms, Outcomes, Armed, Deserted, Died
  <1>9. CASE DriverForks  BY <1>9 DEF DriverForks, Outcomes, Forked, Refused, Died
  <1>10. CASE DriverPublishes  BY <1>10 DEF DriverPublishes, Outcomes, Placed, LeftLate, Died
  <1>11. CASE DriverAwaits  BY <1>11 DEF DriverAwaits
  <1>12. CASE WriterPublishes  BY <1>12 DEF WriterPublishes, Outcomes, Placed, LeftLate, Died
  <1>13. CASE WriterWrites  BY <1>13 DEF WriterWrites, Outcomes, Placed, LeftLate, Died
  <1>14. CASE WriterEnds  BY <1>14 DEF WriterEnds, Outcomes, Died
  <1>15. CASE WriterGivesUp  BY <1>15 DEF WriterGivesUp, Outcomes, Died
  <1>16. CASE Launches  BY <1>16 DEF Launches
  <1>17. CASE SeesReady  BY <1>17 DEF SeesReady, Reports
  <1>18. CASE KillsOwner  BY <1>18 DEF KillsOwner, Outcomes, Died
  <1>19. CASE SeesOrphan  BY <1>19 DEF SeesOrphan
  <1>20. CASE SeesSurvivor  BY <1>20 DEF SeesSurvivor, Reports
  <1>21. CASE ReleasesWriter  BY <1>21 DEF ReleasesWriter
  <1>22. CASE SeesOutput  BY <1>22 DEF SeesOutput
  <1>23. CASE SeesOwnerOnly  BY <1>23 DEF SeesOwnerOnly, Reports
  <1>24. CASE SeesRetired  BY <1>24 DEF SeesRetired, Reports
  <1>25. CASE AwaitsOwner  BY <1>25 DEF AwaitsOwner
  <1>26. CASE Reaps  BY <1>26 DEF Reaps
  <1>27. CASE SeesEmpty  BY <1>27 DEF SeesEmpty
  <1>28. CASE LosesPatience  BY <1>28 DEF LosesPatience
  <1>29. CASE CleansUp  BY <1>29 DEF CleansUp, Outcomes, Cleaned, Died
  <1>30. CASE Ends  BY <1>30 DEF Ends
  <1>31. CASE InitReaps  BY <1>31 DEF InitReaps
  <1>32. CASE UNCHANGED vars  BY <1>32 DEF vars, setup, watch
  <1> QED
    BY <1>1, <1>2, <1>3, <1>4, <1>5, <1>6, <1>7, <1>8, <1>9, <1>10, <1>11, <1>12, <1>13, <1>14,
       <1>15, <1>16, <1>17, <1>18, <1>19, <1>20, <1>21, <1>22, <1>23, <1>24, <1>25, <1>26,
       <1>27, <1>28, <1>29, <1>30, <1>31, <1>32
       DEF Next, OwnerNext, DriverNext, WriterNext, HarnessNext

LEMMA WritingStep ==
  ASSUME TypeOK, Grouped, NotAsked, Starting, Serving, Orphaned, Writing, QuietIsSettled,
         Outcomes, [Next]_vars
  PROVE  Writing'
  <1> USE DEF TypeOK, Programs, Files, Running, setup, watch, Is, Reaped, Grouped, NotAsked, Starting,
        Serving, Orphaned, Writing
  <1>1. CASE OwnerForms  BY <1>1 DEF OwnerForms
  <1>2. CASE OwnerForks  BY <1>2 DEF OwnerForks, Outcomes, Forked, Refused, Died
  <1>3. CASE OwnerPublishes  BY <1>3 DEF OwnerPublishes, Outcomes, Placed, LeftLate, Died
  <1>4. CASE OwnerReaps  BY <1>4 DEF OwnerReaps
  <1>5. CASE OwnerRetires  BY <1>5 DEF OwnerRetires
  <1>6. CASE OwnerEnds  BY <1>6 DEF OwnerEnds, Outcomes, Died
  <1>7. CASE DriverLooks  BY <1>7 DEF DriverLooks
  <1>8. CASE DriverArms  BY <1>8 DEF DriverArms, Outcomes, Armed, Deserted, Died
  <1>9. CASE DriverForks  BY <1>9 DEF DriverForks, Outcomes, Forked, Refused, Died
  <1>10. CASE DriverPublishes  BY <1>10 DEF DriverPublishes, Outcomes, Placed, LeftLate, Died
  <1>11. CASE DriverAwaits  BY <1>11 DEF DriverAwaits
  <1>12. CASE WriterPublishes  BY <1>12 DEF WriterPublishes, Outcomes, Placed, LeftLate, Died
  <1>13. CASE WriterWrites  BY <1>13 DEF WriterWrites, Outcomes, Placed, LeftLate, Died
  <1>14. CASE WriterEnds  BY <1>14 DEF WriterEnds, Outcomes, Died
  <1>15. CASE WriterGivesUp  BY <1>15 DEF WriterGivesUp, Outcomes, Died
  <1>16. CASE Launches  BY <1>16 DEF Launches
  <1>17. CASE SeesReady  BY <1>17 DEF SeesReady, Reports
  <1>18. CASE KillsOwner  BY <1>18 DEF KillsOwner, Outcomes, Died
  <1>19. CASE SeesOrphan  BY <1>19 DEF SeesOrphan
  <1>20. CASE SeesSurvivor  BY <1>20 DEF SeesSurvivor, Reports
  <1>21. CASE ReleasesWriter  BY <1>21 DEF ReleasesWriter
  <1>22. CASE SeesOutput  BY <1>22 DEF SeesOutput
  <1>23. CASE SeesOwnerOnly  BY <1>23 DEF SeesOwnerOnly, Reports
  <1>24. CASE SeesRetired  BY <1>24 DEF SeesRetired, Reports
  <1>25. CASE AwaitsOwner  BY <1>25 DEF AwaitsOwner
  <1>26. CASE Reaps  BY <1>26 DEF Reaps
  <1>27. CASE SeesEmpty  BY <1>27 DEF SeesEmpty
  <1>28. CASE LosesPatience  BY <1>28 DEF LosesPatience
  <1>29. CASE CleansUp  BY <1>29 DEF CleansUp, Outcomes, Cleaned, Died
  <1>30. CASE Ends  BY <1>30 DEF Ends
  <1>31. CASE InitReaps  BY <1>31 DEF InitReaps
  <1>32. CASE UNCHANGED vars  BY <1>32 DEF vars, setup, watch
  <1> QED
    BY <1>1, <1>2, <1>3, <1>4, <1>5, <1>6, <1>7, <1>8, <1>9, <1>10, <1>11, <1>12, <1>13, <1>14,
       <1>15, <1>16, <1>17, <1>18, <1>19, <1>20, <1>21, <1>22, <1>23, <1>24, <1>25, <1>26,
       <1>27, <1>28, <1>29, <1>30, <1>31, <1>32
       DEF Next, OwnerNext, DriverNext, WriterNext, HarnessNext

LEMMA QuietStep ==
  ASSUME TypeOK, Grouped, NotAsked, Starting, Serving, Orphaned, Writing, QuietIsSettled,
         Outcomes, [Next]_vars
  PROVE  QuietIsSettled'
  <1> USE DEF TypeOK, Programs, Files, Running, setup, watch, Is, Reaped, Grouped, NotAsked, Starting,
        Serving, Orphaned, Writing, Settled, QuietIsSettled, Cleaning, Observe, Members
  <1>1. CASE OwnerForms  BY <1>1 DEF OwnerForms
  <1>2. CASE OwnerForks  BY <1>2 DEF OwnerForks, Outcomes, Forked, Refused, Died
  <1>3. CASE OwnerPublishes  BY <1>3 DEF OwnerPublishes, Outcomes, Placed, LeftLate, Died
  <1>4. CASE OwnerReaps  BY <1>4 DEF OwnerReaps
  <1>5. CASE OwnerRetires  BY <1>5 DEF OwnerRetires
  <1>6. CASE OwnerEnds  BY <1>6 DEF OwnerEnds, Outcomes, Died
  <1>7. CASE DriverLooks  BY <1>7 DEF DriverLooks
  <1>8. CASE DriverArms  BY <1>8 DEF DriverArms, Outcomes, Armed, Deserted, Died
  <1>9. CASE DriverForks  BY <1>9 DEF DriverForks, Outcomes, Forked, Refused, Died
  <1>10. CASE DriverPublishes  BY <1>10 DEF DriverPublishes, Outcomes, Placed, LeftLate, Died
  <1>11. CASE DriverAwaits  BY <1>11 DEF DriverAwaits
  <1>12. CASE WriterPublishes  BY <1>12 DEF WriterPublishes, Outcomes, Placed, LeftLate, Died
  <1>13. CASE WriterWrites  BY <1>13 DEF WriterWrites, Outcomes, Placed, LeftLate, Died
  <1>14. CASE WriterEnds  BY <1>14 DEF WriterEnds, Outcomes, Died
  <1>15. CASE WriterGivesUp  BY <1>15 DEF WriterGivesUp, Outcomes, Died
  <1>16. CASE Launches  BY <1>16 DEF Launches
  <1>17. CASE SeesReady  BY <1>17 DEF SeesReady, Reports
  <1>18. CASE KillsOwner  BY <1>18 DEF KillsOwner, Outcomes, Died
  <1>19. CASE SeesOrphan  BY <1>19 DEF SeesOrphan
  <1>20. CASE SeesSurvivor  BY <1>20 DEF SeesSurvivor, Reports
  <1>21. CASE ReleasesWriter  BY <1>21 DEF ReleasesWriter
  <1>22. CASE SeesOutput  BY <1>22 DEF SeesOutput
  <1>23. CASE SeesOwnerOnly  BY <1>23 DEF SeesOwnerOnly, Reports
  <1>24. CASE SeesRetired  BY <1>24 DEF SeesRetired, Reports
  <1>25. CASE AwaitsOwner  BY <1>25 DEF AwaitsOwner
  <1>26. CASE Reaps  BY <1>26 DEF Reaps
  <1>27. CASE SeesEmpty  BY <1>27 DEF SeesEmpty
  <1>28. CASE LosesPatience  BY <1>28 DEF LosesPatience
  <1>29. CASE CleansUp  BY <1>29 DEF CleansUp, Outcomes, Cleaned, Died
  <1>30. CASE Ends  BY <1>30 DEF Ends
  <1>31. CASE InitReaps  BY <1>31 DEF InitReaps
  <1>32. CASE UNCHANGED vars  BY <1>32 DEF vars, setup, watch
  <1> QED
    BY <1>1, <1>2, <1>3, <1>4, <1>5, <1>6, <1>7, <1>8, <1>9, <1>10, <1>11, <1>12, <1>13, <1>14,
       <1>15, <1>16, <1>17, <1>18, <1>19, <1>20, <1>21, <1>22, <1>23, <1>24, <1>25, <1>26,
       <1>27, <1>28, <1>29, <1>30, <1>31, <1>32
       DEF Next, OwnerNext, DriverNext, WriterNext, HarnessNext

-----------------------------------------------------------------------------
\* The observations the harness judges.

\* A unit with a program at work is found occupied, and one without is found empty.
LEMMA Occupied ==
  ASSUME TypeOK, NEW p \in Programs, group[p] = "unit", Running(p)
  PROVE  Observe = {"occupied"}
  BY DEF TypeOK, Observe, Members, Running

LEMMA Quiet ==
  ASSUME TypeOK, Grouped, Is("driver", {"gone"}), Is("writer", {"gone"}), group["owner"] = "harness"
  PROVE  Observe = {"empty"}
  BY DEF TypeOK, Observe, Members, Programs, Is

\* What the harness judges at each of its looks.
LEMMA LooksHold ==
  ASSUME TypeOK, Grouped, NotAsked, Starting, Serving, Orphaned, Writing
  PROVE  /\ SeesReady => (\A p \in Programs : group[p] = "unit") /\ Observe = {"occupied"}
         /\ SeesSurvivor => Observe = {"occupied"}
         /\ SeesOwnerOnly => Cardinality(Members) = 1 /\ Observe = {"occupied"}
         /\ SeesRetired => Running("owner") /\ Observe = {"empty"}
  <1> USE DEF Is, Programs
  <1>1. ASSUME SeesReady
        PROVE  (\A p \in Programs : group[p] = "unit") /\ Observe = {"occupied"}
    <2>1. harness = "ready" /\ {"writer.ready", "driver.ready", "controller.ready"} \subseteq files
      BY <1>1 DEF SeesReady
    <2>2. Is("owner", {"serve"}) /\ Is("writer", {"wait"})  BY <2>1 DEF Starting
    <2>3. \A p \in Programs : group[p] = "unit"  BY <2>1, <2>2 DEF Starting, Grouped, Reaped
    <2> QED  BY <2>2, <2>3, Occupied DEF Running
  <1>2. ASSUME SeesSurvivor PROVE Observe = {"occupied"}
    <2>1. Is("writer", {"wait"})  BY <1>2 DEF SeesSurvivor, Writing
    <2>2. group["writer"] = "unit"  BY <2>1 DEF Grouped
    <2> QED  BY <2>1, <2>2, Occupied DEF Running
  <1>3. ASSUME SeesOwnerOnly PROVE Cardinality(Members) = 1 /\ Observe = {"occupied"}
    <2>1. harness = "only" /\ "owner.only" \in files /\ normal
      BY <1>3 DEF SeesOwnerOnly, NotAsked
    <2>2. /\ Is("owner", {"serve"}) /\ group["owner"] = "unit"
          /\ Is("driver", {"gone"}) /\ Is("writer", {"gone"})
      BY <2>1 DEF Serving, Reaped
    <2>3. Members = {"owner"}  BY <2>2 DEF Members
    <2> QED  BY <2>2, <2>3, Occupied, FS_Singleton DEF Running
  <1>4. ASSUME SeesRetired PROVE Running("owner") /\ Observe = {"empty"}
    <2>1. harness = "retire" /\ "owner.retired" \in files /\ normal
      BY <1>4 DEF SeesRetired, NotAsked
    <2>2. /\ Is("owner", {"serve"}) /\ group["owner"] = "harness"
          /\ Is("driver", {"gone"}) /\ Is("writer", {"gone"})
      BY <2>1 DEF Serving
    <2> QED  BY <2>2, Quiet DEF Running
  <1> QED  BY <1>1, <1>2, <1>3, <1>4

LEMMA ChecksStep ==
  ASSUME TypeOK, Grouped, NotAsked, Starting, Serving, Orphaned, Writing, ~wrong, [Next]_vars
  PROVE  ~wrong'
  <1>1. CASE SeesReady  BY <1>1, LooksHold DEF SeesReady, Reports
  <1>2. CASE SeesSurvivor  BY <1>2, LooksHold DEF SeesSurvivor, Reports
  <1>3. CASE SeesOwnerOnly  BY <1>3, LooksHold DEF SeesOwnerOnly, Reports
  <1>4. CASE SeesRetired  BY <1>4, LooksHold DEF SeesRetired, Reports
  <1>5. CASE ~SeesReady /\ ~SeesSurvivor /\ ~SeesOwnerOnly /\ ~SeesRetired
    BY <1>5 DEF Next, OwnerNext, DriverNext, WriterNext, HarnessNext, vars, setup, watch,
         OwnerForms, OwnerForks, OwnerPublishes, OwnerReaps, OwnerRetires, OwnerEnds,
         DriverLooks, DriverArms, DriverForks, DriverPublishes, DriverAwaits, WriterPublishes,
         WriterWrites, WriterEnds, WriterGivesUp, Launches, KillsOwner, SeesOrphan,
         ReleasesWriter, SeesOutput, AwaitsOwner, Reaps, SeesEmpty, LosesPatience, CleansUp,
         Ends, InitReaps
  <1> QED  BY <1>1, <1>2, <1>3, <1>4, <1>5

-----------------------------------------------------------------------------
LEMMA InitIInv == Init => IInv
  BY DEF Init, IInv, TypeOK, Grouped, NotAsked, Starting, Serving, Orphaned, Writing,
         QuietIsSettled, Is, Programs, Files, Reaped

LEMMA IInvStep == IInv /\ [Next]_vars => IInv'
  <1> SUFFICES ASSUME IInv, [Next]_vars PROVE IInv'  OBVIOUS
  <1>1. /\ TypeOK /\ Grouped /\ NotAsked /\ Starting /\ Serving /\ Orphaned /\ Writing
        /\ QuietIsSettled /\ ~wrong
    BY DEF IInv
  <1>2. Outcomes  BY <1>1, OutcomesHold
  <1> QED
    BY <1>1, <1>2, TypeStep, GroupedStep, NotAskedStep, StartingStep, ServingStep, OrphanedStep,
       WritingStep, QuietStep, ChecksStep
    DEF IInv

LEMMA Invariance == Spec => []IInv
  BY InitIInv, IInvStep, PTL DEF Spec

-----------------------------------------------------------------------------
\* Every program, and the harness, is at a step of its source
\* (process_unit.cpp, posix_case, posix_owner, posix_driver and writer).
THEOREM AlwaysTypeOK == Spec => []TypeOK
  <1>1. IInv => TypeOK  BY DEF IInv
  <1> QED  BY <1>1, Invariance, PTL

\* No check of the probe is reported as failed: the group is occupied while its
\* writer waits, though its leader is dead; the owner counts alone once driver and
\* writer were reaped; and the group it has left is empty (posix_case).
THEOREM AlwaysChecksHold == Spec => []ChecksHold
  <1>1. IInv => ChecksHold  BY DEF IInv, ChecksHold
  <1> QED  BY <1>1, Invariance, PTL

-----------------------------------------------------------------------------
\* The programs of the unit that work, as the promise counts them.
Working == {p \in Programs : Running(p) /\ (group[p] = "unit" \/ p # "owner")}

Admits == OwnerForms \/ OwnerForks \/ DriverForks

\* Nobody enters the unit, or starts in it, in any other step.
LEMMA OnlyTheseAdmit ==
  ASSUME IInv, Next, ~Admits
  PROVE  Working' \subseteq Working
  <1>0. /\ TypeOK /\ Grouped /\ Starting /\ Outcomes /\ ~OwnerForms /\ ~OwnerForks /\ ~DriverForks
    BY OutcomesHold DEF IInv, Admits
  <1> USE <1>0 DEF TypeOK, Programs, Running, setup, watch, Is, Working
  <1>1. CASE OwnerPublishes
    <2>1. at["owner"] = "publish" /\ UNCHANGED <<setup, watch, group, seen, armed>>
      BY <1>1 DEF OwnerPublishes
    <2>2. CASE Placed("owner", "controller.ready", "serve")  BY <2>1, <2>2 DEF Placed
    <2>3. CASE LeftLate("owner")  BY <2>1, <2>3 DEF LeftLate, Died
    <2> QED  BY <1>1, <2>2, <2>3 DEF Outcomes
  <1>2. CASE OwnerReaps  BY <1>2 DEF OwnerReaps
  <1>3. CASE OwnerRetires  BY <1>3 DEF OwnerRetires
  <1>4. CASE OwnerEnds  BY <1>4 DEF OwnerEnds, Outcomes, Died
  <1>5. CASE DriverLooks  BY <1>5 DEF DriverLooks
  <1>6. CASE DriverArms
    <2>1. at["driver"] = "arm" /\ UNCHANGED <<setup, watch, group, seen, files>>
      BY <1>6 DEF DriverArms
    <2>2. CASE Armed  BY <2>1, <2>2 DEF Armed
    <2>3. CASE Deserted  BY <2>1, <2>3 DEF Deserted, Died
    <2> QED  BY <1>6, <2>2, <2>3 DEF Outcomes
  <1>7. CASE DriverPublishes
    <2>1. at["driver"] = "publish" /\ UNCHANGED <<setup, watch, group, seen, armed>>
      BY <1>7 DEF DriverPublishes
    <2>2. CASE Placed("driver", "driver.ready", "await")  BY <2>1, <2>2 DEF Placed
    <2>3. CASE LeftLate("driver")  BY <2>1, <2>3 DEF LeftLate, Died
    <2> QED  BY <1>7, <2>2, <2>3 DEF Outcomes
  <1>8. CASE DriverAwaits  BY <1>8 DEF DriverAwaits
  <1>9. CASE WriterPublishes
    <2>1. at["writer"] = "publish" /\ UNCHANGED <<setup, watch, group, seen, armed>>
      BY <1>9 DEF WriterPublishes
    <2>2. CASE Placed("writer", "writer.ready", "wait")  BY <2>1, <2>2 DEF Placed
    <2>3. CASE LeftLate("writer")  BY <2>1, <2>3 DEF LeftLate, Died
    <2> QED  BY <1>9, <2>2, <2>3 DEF Outcomes
  <1>10. CASE WriterWrites
    <2>1. /\ at["writer"] = "wait" /\ "writer.release" \in files
         /\ UNCHANGED <<setup, watch, group, seen, armed>>
      BY <1>10 DEF WriterWrites
    <2>2. CASE Placed("writer", "late.write", "leave")  BY <2>1, <2>2 DEF Placed
    <2>3. CASE LeftLate("writer")  BY <2>1, <2>3 DEF LeftLate, Died
    <2> QED  BY <1>10, <2>2, <2>3 DEF Outcomes
  <1>11. CASE WriterEnds  BY <1>11 DEF WriterEnds, Outcomes, Died
  <1>12. CASE WriterGivesUp  BY <1>12 DEF WriterGivesUp, Outcomes, Died
  <1>13. CASE Launches  BY <1>13 DEF Launches, Starting, Grouped
  <1>14. CASE SeesReady  BY <1>14 DEF SeesReady
  <1>15. CASE KillsOwner  BY <1>15 DEF KillsOwner, Outcomes, Died
  <1>16. CASE SeesOrphan  BY <1>16 DEF SeesOrphan
  <1>17. CASE SeesSurvivor  BY <1>17 DEF SeesSurvivor
  <1>18. CASE ReleasesWriter  BY <1>18 DEF ReleasesWriter
  <1>19. CASE SeesOutput  BY <1>19 DEF SeesOutput
  <1>20. CASE SeesOwnerOnly  BY <1>20 DEF SeesOwnerOnly
  <1>21. CASE SeesRetired  BY <1>21 DEF SeesRetired
  <1>22. CASE AwaitsOwner  BY <1>22 DEF AwaitsOwner
  <1>23. CASE Reaps  BY <1>23 DEF Reaps
  <1>24. CASE SeesEmpty  BY <1>24 DEF SeesEmpty
  <1>25. CASE LosesPatience  BY <1>25 DEF LosesPatience
  <1>26. CASE CleansUp  BY <1>26 DEF CleansUp, Outcomes, Cleaned, Died
  <1>27. CASE Ends  BY <1>27 DEF Ends
  <1>28. CASE InitReaps  BY <1>28 DEF InitReaps
  <1> QED
    BY <1>1, <1>2, <1>3, <1>4, <1>5, <1>6, <1>7, <1>8, <1>9, <1>10, <1>11, <1>12, <1>13, <1>14,
       <1>15, <1>16, <1>17, <1>18, <1>19, <1>20, <1>21, <1>22, <1>23, <1>24, <1>25, <1>26,
       <1>27, <1>28
       DEF Next, OwnerNext, DriverNext, WriterNext, HarnessNext

\* Whoever is admitted is admitted before the unit was found empty.
LEMMA AdmittedInTime ==
  ASSUME IInv, Admits
  PROVE  /\ ~quiet /\ quiet' = quiet
         /\ Working' \subseteq Working \/ \E p \in Programs : Working' = Working \union {p}
  <1>1. TypeOK /\ Grouped /\ QuietIsSettled /\ Outcomes  BY OutcomesHold DEF IInv
  <1> USE <1>1 DEF TypeOK, Programs, Running, setup, watch, Is, Reaped, Working
  <1>2. ~quiet
    BY DEF Admits, OwnerForms, OwnerForks, DriverForks, QuietIsSettled, Settled
  <1>3. quiet' = quiet  BY DEF Admits, OwnerForms, OwnerForks, DriverForks
  <1>4. CASE OwnerForms
    <2>1. Working' = Working \union {"owner"}  BY <1>4 DEF OwnerForms
    <2> QED  BY <1>2, <1>3, <2>1
  <1>5. CASE OwnerForks
    <2>1. at["owner"] = "fork"  BY <1>5 DEF OwnerForks
    <2>2. CASE Forked("owner", "driver", "look", "publish")
      <3>1. Working' = Working \union {"driver"}  BY <2>1, <2>2 DEF Forked, Grouped
      <3> QED  BY <1>2, <1>3, <3>1
    <2>3. CASE Refused("owner")
      <3>1. Working' \subseteq Working  BY <2>1, <2>3 DEF Refused, Died
      <3> QED  BY <1>2, <1>3, <3>1
    <2> QED  BY <1>5, <2>2, <2>3 DEF Outcomes
  <1>6. CASE DriverForks
    <2>1. at["driver"] = "fork"  BY <1>6 DEF DriverForks
    <2>2. CASE Forked("driver", "writer", "publish", "publish")
      <3>1. Working' = Working \union {"writer"}  BY <2>1, <2>2 DEF Forked, Grouped
      <3> QED  BY <1>2, <1>3, <3>1
    <2>3. CASE Refused("driver")
      <3>1. Working' \subseteq Working  BY <2>1, <2>3 DEF Refused, Died
      <3> QED  BY <1>2, <1>3, <3>1
    <2> QED  BY <1>6, <2>2, <2>3 DEF Outcomes
  <1> QED  BY <1>4, <1>5, <1>6 DEF Admits

\* The probe keeps the promise of an observable unit, on either system and in both
\* cases: once the harness has seen the group empty nobody works in it and nobody
\* enters it.
THEOREM RefinesQuietUnit == Spec => ImplementsQuietUnit
  <1> USE DEF Promise!QuietNext, Promise!Admit, Promise!End, Promise!Report
  <1>1. Init => Promise!QuietInit
    BY DEF Init, Promise!QuietInit, Programs, Running
  <1>2. ASSUME Working' \subseteq Working, quiet' = quiet
        PROVE  Promise!QuietNext
    <2>1. Working' = Working \ (Working \ Working')  BY <1>2
    <2>2. Promise!End(Working \ Working')  BY <1>2, <2>1 DEF Working
    <2>3. Working \ Working' \in SUBSET Programs  BY DEF Working
    <2> QED  BY <2>2, <2>3
  <1>3. ASSUME IInv, Next
        PROVE  Promise!QuietNext
    <2>1. /\ TypeOK /\ Grouped /\ NotAsked /\ Starting /\ Serving /\ Orphaned /\ Writing
          /\ QuietIsSettled
      BY <1>3 DEF IInv
    <2>2. CASE Admits
      <3>1. CASE Working' \subseteq Working  BY <1>2, <1>3, <2>2, <3>1, AdmittedInTime
      <3>2. CASE \E p \in Programs : Working' = Working \union {p}
        <4>1. PICK p \in Programs : Working' = Working \union {p}  BY <3>2
        <4> QED  BY <1>3, <2>2, <4>1, AdmittedInTime DEF Working
      <3> QED  BY <1>3, <2>2, <3>1, <3>2, AdmittedInTime
    <2>3. CASE SeesRetired
      <3>1. Observe = {"empty"}  BY <2>1, <2>3, LooksHold
      <3>2. at' = at /\ group' = group /\ quiet' = TRUE  BY <2>3, <3>1 DEF SeesRetired
      <3>3. Working = {}
        BY <2>1, <2>3 DEF SeesRetired, NotAsked, Serving, Is, Running, Working, Programs, TypeOK
      <3> QED  BY <3>2, <3>3 DEF Working, Running
    <2>4. CASE SeesEmpty
      <3>1. harness = "settle" /\ Members = {}  BY <2>4 DEF SeesEmpty, Observe
      <3>2. at["owner"] = "gone"  BY <2>1, <3>1 DEF Writing, Is
      <3>3. Working = {}
        BY <2>1, <3>1, <3>2 DEF Grouped, Members, Is, Running, Working, Programs
      <3>4. at' = at /\ group' = group /\ quiet' = TRUE  BY <2>4 DEF SeesEmpty
      <3> QED  BY <3>3, <3>4 DEF Working, Running
    <2>5. CASE ~Admits /\ ~SeesRetired /\ ~SeesEmpty
      <3>1. Working' \subseteq Working  BY <1>3, <2>5, OnlyTheseAdmit
      <3>2. quiet' = quiet
        <4>1. CASE SeesSurvivor
          <5>1. Observe = {"occupied"} /\ ~quiet
            BY <2>1, <4>1, LooksHold DEF SeesSurvivor, QuietIsSettled, Cleaning
          <5> QED  BY <2>1, <4>1, <5>1 DEF SeesSurvivor, TypeOK
        <4>2. CASE ~SeesSurvivor
          BY <1>3, <2>5, <4>2 DEF Admits, Next, OwnerNext, DriverNext, WriterNext, HarnessNext,
             watch, OwnerPublishes, OwnerReaps, OwnerRetires, OwnerEnds, DriverLooks,
             DriverArms, DriverPublishes, DriverAwaits, WriterPublishes, WriterWrites,
             WriterEnds, WriterGivesUp, Launches, SeesReady, KillsOwner, SeesOrphan,
             ReleasesWriter, SeesOutput, SeesOwnerOnly, AwaitsOwner, Reaps, LosesPatience,
             CleansUp, Ends, InitReaps
        <4> QED  BY <4>1, <4>2
      <3> QED  BY <1>2, <3>1, <3>2
    <2> QED  BY <2>2, <2>3, <2>4, <2>5
  <1>4. IInv /\ [Next]_vars => [Promise!QuietNext]_<<Working, quiet>>
    <2>1. UNCHANGED vars => UNCHANGED <<Working, quiet>>  BY DEF vars, watch, Working, Running
    <2> QED  BY <1>3, <2>1
  <1> QED
    BY <1>1, <1>4, Invariance, PTL DEF Spec, ImplementsQuietUnit, Promise!QuietSpec, Working
=============================================================================
