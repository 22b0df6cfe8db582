------------------------------ MODULE UnitProbe ------------------------------
(***************************************************************************)
(* The probe of what a kernel offers to an observable unit, where a unit   *)
(* is a process group (posix_case): the harness launches an owner, which   *)
(* makes itself a group and starts a driver, which starts a writer.  They  *)
(* speak through files, each put in place whole.  The harness lets the     *)
(* writer write and watches the group become empty, with the owner retired *)
(* from it or killed; or it runs out of patience at any wait, and cleans   *)
(* up.  The programs may then be anywhere in their start.                  *)
(*                                                                         *)
(* A killed program takes no further step.  A program that has died stays  *)
(* in its group until its parent, or whoever adopted it, has reaped it.    *)
(* The programs wait 20 seconds where the harness waits at most 5 at each  *)
(* of its waits, so they run out of patience only once it has ended; the   *)
(* owner never does, since the harness ends no sooner than it.             *)
(***************************************************************************)
EXTENDS FiniteSets

Programs == {"owner", "driver", "writer"}
Files == {"controller.ready", "driver.ready", "writer.ready", "writer.release", "late.write",
          "owner.only", "retire.request", "owner.retired", "owner.release"}

VARIABLES
  linux, normal,  \* the system, and which of the two cases this is
  harness,        \* where the harness is in the case
  at,             \* where each program is
  group,          \* "unit" for a program in the owner's group, "harness" in the harness's
  parent,         \* who reaps each program
  seen,           \* the parent the driver saw before it asked to die with it
  armed,          \* the programs that die with their parent
  files,          \* the control records in place
  quiet,          \* whether the harness has observed the unit empty
  wrong           \* whether a check was reported as failed

setup == <<linux, normal>>
watch == <<harness, quiet, wrong>>
vars == <<setup, watch, at, group, parent, seen, armed, files>>

Running(p) == at[p] \notin {"unstarted", "dead", "gone"}

\* The harness adopts orphans where it may ask to; it is gone in the end.
Reaper(end) == IF linux /\ ~end THEN "harness" ELSE "init"

\* The programs of S die, and with them those that asked to die with them.
Dies(S) ==
  LET dead == S \union {p \in armed : Running(p) /\ parent[p] \in S}
  IN  /\ at' = [p \in Programs |-> IF p \in dead THEN "dead" ELSE at[p]]
      /\ parent' = [p \in Programs |-> IF parent[p] \in dead THEN Reaper(harness = "over")
                                       ELSE parent[p]]

\* p starts q in its own group, or is refused and ends.
Forks(p, q, first, next) ==
  \/ /\ at' = [at EXCEPT ![q] = first, ![p] = next]
     /\ group' = [group EXCEPT ![q] = group[p]]
     /\ parent' = [parent EXCEPT ![q] = p]
  \/ Dies({p}) /\ UNCHANGED group

\* A record is put in place; nothing can be once the directory was removed.
Put(p, name, next) ==
  IF harness = "over" THEN Dies({p}) /\ UNCHANGED files
  ELSE /\ files' = files \union {name}
       /\ at' = [at EXCEPT ![p] = next]
       /\ UNCHANGED parent

-----------------------------------------------------------------------------
\* The owner.

OwnerForms ==
  /\ at["owner"] = "form"
  /\ group' = [group EXCEPT !["owner"] = "unit"]
  /\ at' = [at EXCEPT !["owner"] = "fork"]
  /\ UNCHANGED <<setup, watch, parent, seen, armed, files>>

OwnerForks ==
  /\ at["owner"] = "fork"
  /\ Forks("owner", "driver", "look", "publish")
  /\ UNCHANGED <<setup, watch, seen, armed, files>>

OwnerPublishes ==
  /\ at["owner"] = "publish"
  /\ Put("owner", "controller.ready", "serve")
  /\ UNCHANGED <<setup, watch, group, seen, armed>>

\* The driver is reaped, which the record "owner.only" tells.
OwnerReaps ==
  /\ at["owner"] = "serve"
  /\ at["driver"] = "dead" /\ parent["driver"] = "owner"
  /\ at' = [at EXCEPT !["driver"] = "gone"]
  /\ files' = files \union {"owner.only"}
  /\ UNCHANGED <<setup, watch, group, parent, seen, armed>>

\* The owner goes back to the group it came from.
OwnerRetires ==
  /\ at["owner"] = "serve"
  /\ at["driver"] = "gone" /\ group["owner"] = "unit"
  /\ "retire.request" \in files
  /\ group' = [group EXCEPT !["owner"] = "harness"]
  /\ files' = files \union {"owner.retired"}
  /\ UNCHANGED <<setup, watch, at, parent, seen, armed>>

OwnerEnds ==
  /\ at["owner"] = "serve"
  /\ "owner.release" \in files
  /\ at["driver"] = "gone"
  /\ Dies({"owner"})
  /\ UNCHANGED <<setup, watch, group, seen, armed, files>>

-----------------------------------------------------------------------------
\* The driver.

DriverLooks ==
  /\ at["driver"] = "look"
  /\ at' = [at EXCEPT !["driver"] = IF linux THEN "arm" ELSE "fork"]
  /\ seen' = parent["driver"]
  /\ UNCHANGED <<setup, watch, group, parent, armed, files>>

\* It asks to die with its parent, and ends if its parent is another by then.
DriverArms ==
  /\ at["driver"] = "arm"
  /\ IF parent["driver"] = seen
       THEN /\ armed' = armed \union {"driver"}
            /\ at' = [at EXCEPT !["driver"] = "fork"]
            /\ UNCHANGED parent
       ELSE Dies({"driver"}) /\ UNCHANGED armed
  /\ UNCHANGED <<setup, watch, group, seen, files>>

DriverForks ==
  /\ at["driver"] = "fork"
  /\ Forks("driver", "writer", "publish", "publish")
  /\ UNCHANGED <<setup, watch, seen, armed, files>>

DriverPublishes ==
  /\ at["driver"] = "publish"
  /\ Put("driver", "driver.ready", "await")
  /\ UNCHANGED <<setup, watch, group, seen, armed>>

\* Mutant: the driver does not await the writer.
DriverLeaves ==
  /\ at["driver"] = "await"
  /\ Dies({"driver"})
  /\ UNCHANGED <<setup, watch, group, seen, armed, files>>

DriverAwaits ==
  /\ at["driver"] = "await"
  /\ at["writer"] = "dead" /\ parent["writer"] = "driver"
  /\ at' = [at EXCEPT !["writer"] = "gone", !["driver"] = "dead"]
  /\ UNCHANGED <<setup, watch, group, parent, seen, armed, files>>

-----------------------------------------------------------------------------
\* The writer.

WriterPublishes ==
  /\ at["writer"] = "publish"
  /\ Put("writer", "writer.ready", "wait")
  /\ UNCHANGED <<setup, watch, group, seen, armed>>

\* Mutant: the output stays under the name it was written under.
WriterForgetsRename ==
  /\ at["writer"] = "wait"
  /\ "writer.release" \in files
  /\ Put("writer", "late.write.pending", "leave")
  /\ UNCHANGED <<setup, watch, group, seen, armed>>

WriterWrites ==
  /\ at["writer"] = "wait"
  /\ "writer.release" \in files
  /\ Put("writer", "late.write", "leave")
  /\ UNCHANGED <<setup, watch, group, seen, armed>>

WriterEnds ==
  /\ at["writer"] = "leave"
  /\ Dies({"writer"})
  /\ UNCHANGED <<setup, watch, group, seen, armed, files>>

-----------------------------------------------------------------------------
\* The harness.

\* Those of the unit the system knows of, dead or not.
Members == {p \in Programs : group[p] = "unit" /\ at[p] \notin {"unstarted", "gone"}}

\* Mutant: the owner is asked for, not its group.
ObserveOwner ==
  IF at["owner"] = "gone" THEN {"empty"} ELSE {"occupied"}

\* A system may refuse to signal a group in which nobody runs any more.  The
\* group's number is not given to another before it is empty.
Observe ==
  IF Members = {} THEN {"empty"}
  ELSE IF \E p \in Members : Running(p) THEN {"occupied"}
  ELSE {"occupied", "unknown"}

Reports(held) == wrong' = (wrong \/ ~held)

Launches ==
  /\ harness = "launch"
  /\ at' = [at EXCEPT !["owner"] = "form"]
  /\ harness' = "ready"
  /\ UNCHANGED <<setup, group, parent, seen, armed, files, quiet, wrong>>

SeesReady ==
  /\ harness = "ready"
  /\ {"writer.ready", "driver.ready", "controller.ready"} \subseteq files
  /\ \E o \in Observe :
       Reports((\A p \in Programs : group[p] = "unit") /\ o = "occupied")
  /\ harness' = IF normal THEN "release" ELSE "kill"
  /\ UNCHANGED <<setup, at, group, parent, seen, armed, files, quiet>>

\* The owner is killed and reaped.
KillsOwner ==
  /\ harness = "kill"
  /\ Dies({"owner"})
  /\ harness' = "orphan"
  /\ UNCHANGED <<setup, group, seen, armed, files, quiet, wrong>>

SeesOrphan ==
  /\ harness = "orphan"
  /\ at["owner"] = "dead"
  /\ at' = [at EXCEPT !["owner"] = "gone"]
  /\ harness' = "survivor"
  /\ UNCHANGED <<setup, group, parent, seen, armed, files, quiet, wrong>>

SeesSurvivor ==
  /\ harness = "survivor"
  /\ \E o \in Observe :
       /\ Reports(o = "occupied")
       /\ quiet' = (o = "empty")
  /\ harness' = "release"
  /\ UNCHANGED <<setup, at, group, parent, seen, armed, files>>

ReleasesWriter ==
  /\ harness = "release"
  /\ files' = files \union {"writer.release"}
  /\ harness' = "late"
  /\ UNCHANGED <<setup, at, group, parent, seen, armed, quiet, wrong>>

SeesOutput ==
  /\ harness = "late"
  /\ "late.write" \in files
  /\ harness' = IF normal THEN "only" ELSE "settle"
  /\ UNCHANGED <<setup, at, group, parent, seen, armed, files, quiet, wrong>>

\* The owner alone is left, and it counts.
SeesOwnerOnly ==
  /\ harness = "only"
  /\ "owner.only" \in files
  /\ \E o \in Observe : Reports(Cardinality(Members) = 1 /\ o = "occupied")
  /\ files' = files \union {"retire.request"}
  /\ harness' = "retire"
  /\ UNCHANGED <<setup, at, group, parent, seen, armed, quiet>>

\* The owner runs on outside the unit, and the unit is empty.
SeesRetired ==
  /\ harness = "retire"
  /\ "owner.retired" \in files
  /\ \E o \in Observe :
       /\ Reports(Running("owner") /\ o = "empty")
       /\ quiet' = (o = "empty")
  /\ files' = files \union {"owner.release"}
  /\ harness' = "await"
  /\ UNCHANGED <<setup, at, group, parent, seen, armed>>

AwaitsOwner ==
  /\ harness = "await"
  /\ at["owner"] = "dead"
  /\ at' = [at EXCEPT !["owner"] = "gone"]
  /\ harness' = "settle"
  /\ UNCHANGED <<setup, group, parent, seen, armed, files, quiet, wrong>>

\* The harness reaps whatever it has adopted.
Reaps ==
  /\ harness = "settle"
  /\ \E p \in Programs :
       /\ at[p] = "dead" /\ parent[p] = "harness"
       /\ at' = [at EXCEPT ![p] = "gone"]
  /\ UNCHANGED <<setup, watch, group, parent, seen, armed, files>>

SeesEmpty ==
  /\ harness = "settle"
  /\ "empty" \in Observe
  /\ quiet' = TRUE
  /\ harness' = "done"
  /\ UNCHANGED <<setup, at, group, parent, seen, armed, files, wrong>>

\* A wait that takes too long.
LosesPatience ==
  /\ harness \in {"ready", "late", "only", "retire", "settle"}
  /\ harness' = "kill unit"
  /\ UNCHANGED <<setup, at, group, parent, seen, armed, files, quiet, wrong>>

\* The cleaning up: the group, the owner, which may not have formed its group
\* yet, and the reaping of the owner and of what is dead already.
CleansUp ==
  /\ \/ /\ harness = "kill unit"
        /\ Dies({p \in Programs : group[p] = "unit" /\ Running(p)})
        /\ harness' = "kill owner"
     \/ /\ harness = "kill owner"
        /\ Dies({"owner"} \intersect {p \in Programs : Running(p)})
        /\ harness' = "reap"
     \/ /\ harness = "reap"
        /\ at' = [p \in Programs |->
                    IF at[p] = "dead" /\ (p = "owner" \/ parent[p] = "harness") THEN "gone" ELSE at[p]]
        /\ harness' = "done"
        /\ UNCHANGED parent
  /\ UNCHANGED <<setup, group, seen, armed, files, quiet, wrong>>

\* The directory is removed and the harness ends.
Ends ==
  /\ harness = "done"
  /\ harness' = "over"
  /\ files' = {}
  /\ LET dead == {p \in armed : Running(p) /\ parent[p] = "harness"}
     IN  /\ at' = [p \in Programs |-> IF p \in dead THEN "dead" ELSE at[p]]
         /\ parent' = [p \in Programs |-> IF parent[p] \in dead \union {"harness"} THEN "init"
                                          ELSE parent[p]]
  /\ UNCHANGED <<setup, group, seen, armed, quiet, wrong>>

-----------------------------------------------------------------------------
\* The writer runs out of patience, and the system reaps.

\* Mutant: the writer waits for as long as it takes.
WriterWaitsOn ==
  /\ at["writer"] = "wait"
  /\ harness = "over"
  /\ UNCHANGED vars

WriterGivesUp ==
  /\ at["writer"] = "wait"
  /\ harness = "over"
  /\ Dies({"writer"})
  /\ UNCHANGED <<setup, watch, group, seen, armed, files>>

InitReaps ==
  /\ \E p \in Programs :
       /\ at[p] = "dead" /\ parent[p] = "init"
       /\ at' = [at EXCEPT ![p] = "gone"]
  /\ UNCHANGED <<setup, watch, group, parent, seen, armed, files>>

Init ==
  /\ linux \in BOOLEAN /\ normal \in BOOLEAN
  /\ harness = "launch"
  /\ at = [p \in Programs |-> "unstarted"]
  /\ group = [p \in Programs |-> "harness"]
  /\ parent = [p \in Programs |-> "harness"]
  /\ seen = "init"
  /\ armed = {}
  /\ files = {}
  /\ quiet = FALSE /\ wrong = FALSE

OwnerNext ==
  \/ OwnerForms \/ OwnerForks \/ OwnerPublishes \/ OwnerReaps \/ OwnerRetires \/ OwnerEnds
DriverNext == DriverLooks \/ DriverArms \/ DriverForks \/ DriverPublishes \/ DriverAwaits
WriterNext == WriterPublishes \/ WriterWrites \/ WriterEnds \/ WriterGivesUp
HarnessNext ==
  \/ Launches \/ SeesReady \/ KillsOwner \/ SeesOrphan \/ SeesSurvivor \/ ReleasesWriter
  \/ SeesOutput \/ SeesOwnerOnly \/ SeesRetired \/ AwaitsOwner \/ Reaps \/ SeesEmpty
  \/ LosesPatience \/ CleansUp \/ Ends

Next == OwnerNext \/ DriverNext \/ WriterNext \/ HarnessNext \/ InitReaps

Spec ==
  /\ Init /\ [][Next]_vars
  /\ WF_vars(OwnerNext) /\ WF_vars(DriverNext) /\ WF_vars(WriterNext)
  /\ WF_vars(HarnessNext) /\ WF_vars(InitReaps)

-----------------------------------------------------------------------------
TypeOK ==
  /\ linux \in BOOLEAN /\ normal \in BOOLEAN
  /\ harness \in {"launch", "ready", "kill", "orphan", "survivor", "release", "late", "only",
                  "retire", "await", "settle", "kill unit", "kill owner", "reap", "done", "over"}
  /\ at \in [Programs -> {"unstarted", "form", "look", "arm", "fork", "publish", "serve",
                          "await", "wait", "leave", "dead", "gone"}]
  /\ group \in [Programs -> {"unit", "harness"}]
  /\ parent \in [Programs -> Programs \union {"harness", "init"}]
  /\ seen \in Programs \union {"harness", "init"}
  /\ armed \subseteq {"driver"}
  /\ files \subseteq Files
  /\ quiet \in BOOLEAN /\ wrong \in BOOLEAN

\* Whatever the order of the programs' steps, no check is reported as failed: a
\* unit with a writer at work is occupied though its leader is dead, the owner is
\* counted alone only once driver and writer were reaped, and an owner retired
\* does not keep its unit occupied.
ChecksHold == ~wrong

\* The harness observes the unit empty only when no program of it works, and none
\* enters it afterwards.  An owner that has retired is no program of it.
Promise == INSTANCE QuietUnit WITH
  Members <- Programs,
  working <- {p \in Programs : Running(p) /\ (group[p] = "unit" \/ p # "owner")},
  quiet <- quiet
ImplementsQuietUnit == Promise!QuietSpec

\* Wherever the harness ran out of patience, and whatever its cleaning up missed
\* because a program had not entered the group yet, it ends and no program of the
\* probe is left running.
NothingLingers == <>[](harness = "over" /\ \A p \in Programs : at[p] \in {"unstarted", "gone"})
=============================================================================
