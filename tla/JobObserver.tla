----------------------------- MODULE JobObserver -----------------------------
(***************************************************************************)
(* The exercise of observable units: a harness (the root) starts a helper, *)
(* the helper declares a unit, publishes a reference to it and waits to be *)
(* acknowledged before it admits a driver, which starts a writer.  The     *)
(* root watches the unit through the reference while the helper retires it,*)
(* is ended before it was acknowledged, is ended with descendants at work, *)
(* or was started by a launcher that has itself ended.                     *)
(*                                                                         *)
(* openkal.process itself is not in the repository: what starting, ending, *)
(* observing and retiring do is modelled from how the exercise uses them.  *)
(* A program that has ended stays a member until its parent, or the root   *)
(* that adopts it, has awaited it.  The five seconds the root allows are   *)
(* taken to be long enough: it waits for as long as the others take.       *)
(***************************************************************************)
EXTENDS Sequences

Programs == {"launcher", "helper", "driver", "writer"}
Modes == {"normal", "before", "kill", "retire-parent"}
Channels == {"gate", "results", "report", "start"}
States == {"unknown", "occupied", "empty"}

VARIABLES
  mode,      \* which of the four exercises this is
  root,      \* where the root is in exercise
  at,        \* where each program is: its own step, or one of NotRunning
  status,    \* what each ended program reports, 0 for success
  parent,    \* who awaits each program
  unit,      \* the programs placed in the declared unit
  chan,      \* per channel: the words in it, and the programs that hold its write end
  retained,  \* whether the root holds an observation reference
  quiet,     \* whether the root has observed the unit empty
  output     \* whether the writer's file exists

vars == <<mode, root, at, status, parent, unit, chan, retained, quiet, output>>

NotRunning == {"unstarted", "ended", "gone"}
Running(p) == at[p] \notin NotRunning

-----------------------------------------------------------------------------
\* What the environment does.

\* The members of S that are programs yet: an ended one is until it is awaited.
Occupants(S) == {p \in S : at[p] \notin {"unstarted", "gone"}}

Observe == IF Occupants(unit) = {} THEN "empty" ELSE "occupied"

\* A continuation that is not the running program it names is not joined, and
\* nothing is learnt of the unit.
RetireState(valid) ==
  IF ~valid THEN "unknown"
  ELSE IF Occupants(unit \ {"helper"}) = {} THEN "empty" ELSE "occupied"

\* Where the caller of a retirement may be afterwards.
RetireLeaves(state) ==
  {IF left THEN unit \ {"helper"} ELSE unit :
     left \in {l \in BOOLEAN : (state = "unknown" => ~l) /\ (state = "empty" => l)}}

\* q starts p and goes on at next.
Starts(q, p, first, next) ==
  /\ at' = [at EXCEPT ![p] = first, ![q] = next]
  /\ parent' = [parent EXCEPT ![p] = q]

Goes(p, next) == at' = [at EXCEPT ![p] = next]

Write(c, word) == [c EXCEPT !.words = Append(@, word)]
Open(c, p) == [c EXCEPT !.writers = @ \union {p}]
Close(c, p) == [c EXCEPT !.writers = @ \ {p}]
Rest(c) == [c EXCEPT !.words = Tail(@)]
AtEnd(c) == c.words = <<>> /\ c.writers = {}

\* A program ends.  It holds no write end any more, and the root adopts its
\* children.
Ends(p, code) ==
  /\ Goes(p, "ended")
  /\ status' = [status EXCEPT ![p] = code]
  /\ parent' = [q \in Programs |-> IF parent[q] = p THEN "root" ELSE parent[q]]
  /\ chan' = [c \in Channels |-> Close(chan[c], p)]

\* q may await p.
Awaits(q, p) == at[p] = "ended" /\ parent[p] = q

-----------------------------------------------------------------------------
\* The steps every program has.

Sends(p, here, c, word, next) ==
  /\ at[p] = here
  /\ chan' = [chan EXCEPT ![c] = Write(@, word)]
  /\ Goes(p, next)
  /\ UNCHANGED <<mode, root, status, parent, unit, retained, quiet, output>>

AwaitsChild(q, here, p, next) ==
  /\ at[q] = here
  /\ Awaits(q, p)
  /\ at' = [at EXCEPT ![p] = "gone", ![q] = next]
  /\ UNCHANGED <<mode, root, status, parent, unit, chan, retained, quiet, output>>

Leaves(p, code) ==
  /\ at[p] = "leave"
  /\ Ends(p, code)
  /\ UNCHANGED <<mode, root, unit, retained, quiet, output>>

-----------------------------------------------------------------------------
\* The writer and the driver.

DriverStarts ==
  /\ at["driver"] = "start"
  /\ Starts("driver", "writer", "gate", "await")
  /\ unit' = IF "driver" \in unit THEN unit \union {"writer"} ELSE unit
  /\ chan' = [chan EXCEPT !["results"] = Open(@, "writer")]
  /\ UNCHANGED <<mode, root, status, retained, quiet, output>>

\* The writer waits for the gate, and its end lets it go on just as a word does.
WriterWrites ==
  /\ at["writer"] = "gate"
  /\ chan["start"].words # <<>> \/ AtEnd(chan["start"])
  /\ output' = TRUE
  /\ Goes("writer", "leave")
  /\ chan' = IF AtEnd(chan["start"]) THEN chan ELSE [chan EXCEPT !["start"] = Rest(@)]
  /\ UNCHANGED <<mode, root, status, parent, unit, retained, quiet>>

WriterEnds == Leaves("writer", 0)

\* Mutant: the driver does not await the writer it started.
DriverLeavesWriter ==
  /\ at["driver"] = "await"
  /\ Goes("driver", "leave")
  /\ UNCHANGED <<mode, root, status, parent, unit, chan, retained, quiet, output>>

DriverAwaits == AwaitsChild("driver", "await", "writer", "leave")

DriverEnds == Leaves("driver", status["writer"])

-----------------------------------------------------------------------------
\* The helper.

\* Where the helper's reference goes: a launched helper's standard error is the
\* launcher's report.
Publishes == IF mode = "retire-parent" THEN "report" ELSE "results"

\* Mutant: the helper does not read the acknowledgement.
HelperStartsUnacknowledged ==
  /\ at["helper"] = "declare"
  /\ unit' = {"helper"}
  /\ chan' = [chan EXCEPT ![Publishes] = Write(@, "ref")]
  /\ Goes("helper", "start")
  /\ UNCHANGED <<mode, root, status, parent, retained, quiet, output>>

HelperDeclares ==
  /\ at["helper"] = "declare"
  /\ unit' = {"helper"}
  /\ chan' = [chan EXCEPT ![Publishes] = Write(@, "ref")]
  /\ Goes("helper", "ack")
  /\ UNCHANGED <<mode, root, status, parent, retained, quiet, output>>

\* The first word is the acknowledgement or the helper ends with 42.
HelperIsAcknowledged ==
  /\ at["helper"] = "ack"
  /\ chan["gate"].words # <<>>
  /\ chan' = [chan EXCEPT !["gate"] = Rest(@)]
  /\ Goes("helper", "start")
  /\ UNCHANGED <<mode, root, status, parent, unit, retained, quiet, output>>

\* Mutant: the driver is given the write end of its own standard input.
HelperSharesGate ==
  /\ at["helper"] = "start"
  /\ Starts("helper", "driver", "start", "doubt")
  /\ unit' = unit \union {"driver"}
  /\ chan' = [chan EXCEPT !["start"] = Open(Open(@, "helper"), "driver"),
                          !["results"] = Open(@, "driver")]
  /\ UNCHANGED <<mode, root, status, retained, quiet, output>>

\* A channel is made, its read end is the driver's standard input, and the
\* helper alone keeps its write end.
HelperStarts ==
  /\ at["helper"] = "start"
  /\ Starts("helper", "driver", "start", "doubt")
  /\ unit' = unit \union {"driver"}
  /\ chan' = [chan EXCEPT !["start"] = Open(@, "helper"), !["results"] = Open(@, "driver")]
  /\ UNCHANGED <<mode, root, status, retained, quiet, output>>

\* Retirements that must learn nothing: under the launcher, which has ended by
\* now, and under the root's identifier with another birth.
HelperDoubts ==
  /\ at["helper"] = "doubt"
  /\ IF mode = "retire-parent" /\ RetireState(Running("launcher")) # "unknown"
       THEN Ends("helper", 54)
     ELSE IF RetireState(FALSE) # "unknown" THEN Ends("helper", 49)
     ELSE Goes("helper", "ask") /\ UNCHANGED <<status, parent, chan>>
  /\ UNCHANGED <<mode, root, unit, retained, quiet, output>>

\* A retirement that must find the driver there.
HelperAsks ==
  /\ at["helper"] = "ask"
  /\ LET state == RetireState(TRUE) IN
       /\ unit' \in RetireLeaves(state)
       /\ IF state # "occupied" THEN Ends("helper", 44)
          ELSE /\ Goes("helper", IF mode = "kill" THEN "busy" ELSE "release")
               /\ UNCHANGED <<status, parent, chan>>
  /\ UNCHANGED <<mode, root, retained, quiet, output>>

\* The helper that is to be ended reads the gate again, where no word will come.
HelperIsBusy == Sends("helper", "busy", "results", "BUSY", "hold")

\* Mutant: the helper reports once it has let the writer go.
HelperReportsEarly ==
  /\ at["helper"] = "release"
  /\ chan' = [chan EXCEPT !["start"] = Close(Write(@, "R"), "helper")]
  /\ Goes("helper", "report")
  /\ UNCHANGED <<mode, root, status, parent, unit, retained, quiet, output>>

HelperReleases ==
  /\ at["helper"] = "release"
  /\ chan' = [chan EXCEPT !["start"] = Close(Write(@, "R"), "helper")]
  /\ Goes("helper", "await")
  /\ UNCHANGED <<mode, root, status, parent, unit, retained, quiet, output>>

HelperAwaits == AwaitsChild("helper", "await", "driver", "retire")

\* Twice, the second time of a unit it has retired already; the helper ends
\* with 47 or 48 when either does not find it empty.
HelperRetires ==
  /\ at["helper"] \in {"retire", "again"}
  /\ LET state == RetireState(TRUE) IN
       /\ unit' \in RetireLeaves(state)
       /\ IF state # "empty" THEN Ends("helper", IF at["helper"] = "retire" THEN 47 ELSE 48)
          ELSE /\ Goes("helper", IF at["helper"] = "retire" THEN "again" ELSE "report")
               /\ UNCHANGED <<status, parent, chan>>
  /\ UNCHANGED <<mode, root, retained, quiet, output>>

HelperReports == Sends("helper", "report", "results", "DONE", "leave")

HelperEnds == Leaves("helper", 0)

-----------------------------------------------------------------------------
\* The launcher, which starts the helper, passes the reference on and ends.

LauncherStarts ==
  /\ at["launcher"] = "start"
  /\ Starts("launcher", "helper", "declare", "forward")
  /\ chan' = [chan EXCEPT !["report"] = Open(@, "helper"), !["results"] = Open(@, "helper")]
  /\ UNCHANGED <<mode, root, status, unit, retained, quiet, output>>

LauncherForwards ==
  /\ at["launcher"] = "forward"
  /\ chan["report"].words # <<>>
  /\ chan' = [chan EXCEPT !["report"] = Rest(@),
                          !["results"] = Write(@, Head(chan["report"].words))]
  /\ Goes("launcher", "leave")
  /\ UNCHANGED <<mode, root, status, parent, unit, retained, quiet, output>>

LauncherEnds == Leaves("launcher", 0)

-----------------------------------------------------------------------------
\* The root.

Child == IF mode = "retire-parent" THEN "launcher" ELSE "helper"

\* A requirement of the exercise: it goes on at next, or the harness ends.
Requires(ok, next) == root' = IF ok THEN next ELSE "failed"

RootStarts ==
  /\ root = "start"
  /\ at' = [at EXCEPT ![Child] = IF Child = "launcher" THEN "start" ELSE "declare"]
  /\ parent' = [parent EXCEPT ![Child] = "root"]
  /\ chan' = [chan EXCEPT !["gate"] = Open(@, "root"), !["results"] = Open(@, Child)]
  /\ root' = "reference"
  /\ UNCHANGED <<mode, status, unit, retained, quiet, output>>

\* A line of the results, or the end of them: the harness ends of that.
Line == IF chan["results"].words = <<>> THEN "" ELSE Head(chan["results"].words)
ReadsLine ==
  /\ chan["results"].words # <<>> \/ AtEnd(chan["results"])
  /\ chan' = IF Line = "" THEN chan ELSE [chan EXCEPT !["results"] = Rest(@)]

RootReadsReference ==
  /\ root = "reference"
  /\ ReadsLine
  /\ Requires(Line # "", IF mode = "retire-parent" THEN "launched" ELSE "open")
  /\ UNCHANGED <<mode, at, status, parent, unit, retained, quiet, output>>

RootAwaitsLauncher ==
  /\ root = "launched"
  /\ Awaits("root", "launcher")
  /\ Goes("launcher", "gone")
  /\ Requires(status["launcher"] = 0, "open")
  /\ UNCHANGED <<mode, status, parent, unit, chan, retained, quiet, output>>

RootOpens ==
  /\ root = "open"
  /\ retained' = TRUE
  /\ Requires(Observe = "occupied", IF mode = "before" THEN "terminate" ELSE "acknowledge")
  /\ UNCHANGED <<mode, at, status, parent, unit, chan, quiet, output>>

RootAcknowledges ==
  /\ root = "acknowledge"
  /\ chan' = [chan EXCEPT !["gate"] = Write(@, "ACK")]
  /\ root' = "results"
  /\ UNCHANGED <<mode, at, status, parent, unit, retained, quiet, output>>

RootReadsResult ==
  /\ root = "results"
  /\ ReadsLine
  /\ IF mode = "kill" THEN Requires(Line = "BUSY", "terminate")
                      ELSE Requires(Line = "DONE", "close")
  /\ UNCHANGED <<mode, at, status, parent, unit, retained, quiet, output>>

\* Mutant: the status of an ended program is a signal's, not the helper's.
RootTerminatesBySignal ==
  /\ root = "terminate"
  /\ Ends("helper", 137)
  /\ root' = "close"
  /\ UNCHANGED <<mode, unit, retained, quiet, output>>

\* The helper is ended outright, and only then is the gate closed.
RootTerminates ==
  /\ root = "terminate"
  /\ Ends("helper", 128)
  /\ root' = "close"
  /\ UNCHANGED <<mode, unit, retained, quiet, output>>

\* A helper the launcher started is not the root's to await by name.
RootCloses ==
  /\ root = "close"
  /\ chan' = [chan EXCEPT !["gate"] = Close(@, "root")]
  /\ root' = IF mode = "retire-parent" THEN "settle" ELSE "await"
  /\ UNCHANGED <<mode, at, status, parent, unit, retained, quiet, output>>

RootAwaitsHelper ==
  /\ root = "await"
  /\ Awaits("root", "helper")
  /\ Goes("helper", "gone")
  /\ Requires(CASE mode = "before" -> ~output
                [] mode = "kill"   -> TRUE
                [] OTHER           -> status["helper"] = 0, "settle")
  /\ UNCHANGED <<mode, status, parent, unit, chan, retained, quiet, output>>

\* await_empty: whatever the root has adopted is reaped, then the unit is asked.
RootReaps ==
  /\ root = "settle"
  /\ \E p \in Programs : Awaits("root", p) /\ Goes(p, "gone")
  /\ UNCHANGED <<mode, root, status, parent, unit, chan, retained, quiet, output>>

\* Mutant: the unit is taken to be empty once its leader is gone.
RootTrustsLeader ==
  /\ root = "settle"
  /\ at["helper"] = "gone"
  /\ quiet' = TRUE
  /\ root' = "verify"
  /\ UNCHANGED <<mode, at, status, parent, unit, chan, retained, output>>

RootSeesEmpty ==
  /\ root = "settle"
  /\ Observe = "empty"
  /\ quiet' = TRUE
  /\ root' = "verify"
  /\ UNCHANGED <<mode, at, status, parent, unit, chan, retained, output>>

\* Every admitted writer's output is there, and the unit is empty under the
\* reference held and under the same reference opened again.
RootVerifies ==
  /\ root = "verify"
  /\ Requires((mode = "before" \/ output) /\ Observe = "empty", "done")
  /\ retained' = FALSE
  /\ UNCHANGED <<mode, at, status, parent, unit, chan, quiet, output>>

-----------------------------------------------------------------------------
Init ==
  /\ mode \in Modes
  /\ root = "start"
  /\ at = [p \in Programs |-> "unstarted"]
  /\ status = [p \in Programs |-> 0]
  /\ parent = [p \in Programs |-> "root"]
  /\ unit = {}
  /\ chan = [c \in Channels |-> [words |-> <<>>, writers |-> {}]]
  /\ retained = FALSE
  /\ quiet = FALSE
  /\ output = FALSE

LauncherNext == LauncherStarts \/ LauncherForwards \/ LauncherEnds
HelperNext ==
  \/ HelperDeclares \/ HelperIsAcknowledged \/ HelperStarts \/ HelperDoubts \/ HelperAsks
  \/ HelperIsBusy \/ HelperReleases \/ HelperAwaits \/ HelperRetires \/ HelperReports
  \/ HelperEnds
DriverNext == DriverStarts \/ DriverAwaits \/ DriverEnds
WriterNext == WriterWrites \/ WriterEnds
RootNext ==
  \/ RootStarts \/ RootReadsReference \/ RootAwaitsLauncher \/ RootOpens \/ RootAcknowledges
  \/ RootReadsResult \/ RootTerminates \/ RootCloses \/ RootAwaitsHelper \/ RootReaps
  \/ RootSeesEmpty \/ RootVerifies

Next == LauncherNext \/ HelperNext \/ DriverNext \/ WriterNext \/ RootNext

Spec ==
  /\ Init /\ [][Next]_vars
  /\ WF_vars(LauncherNext) /\ WF_vars(HelperNext) /\ WF_vars(DriverNext)
  /\ WF_vars(WriterNext) /\ WF_vars(RootNext)

-----------------------------------------------------------------------------
Chan == [words : Seq({"ref", "ACK", "BUSY", "DONE", "R"}), writers : SUBSET (Programs \union {"root"})]

TypeOK ==
  /\ mode \in Modes
  /\ root \in {"start", "reference", "launched", "open", "acknowledge", "results",
               "terminate", "close", "await", "settle", "verify", "done", "failed"}
  /\ at \in [Programs -> NotRunning \union
       {"declare", "ack", "start", "doubt", "ask", "busy", "hold", "release", "await",
        "retire", "again", "report", "forward", "gate", "leave"}]
  /\ status \in [Programs -> {0, 44, 47, 48, 49, 54, 128}]
  /\ parent \in [Programs -> Programs \union {"root"}]
  /\ unit \subseteq Programs
  /\ chan \in [Channels -> Chan]
  /\ retained \in BOOLEAN /\ quiet \in BOOLEAN /\ output \in BOOLEAN

\* Nothing is admitted to the declared unit before the root can observe it: the
\* acknowledgement separates publishing the reference from using the unit
\* ("original_unit_retained_before_admission", "no_writer_before_ack").
AdmissionIsWatched ==
  [][\A p \in {"driver", "writer"} : at[p] = "unstarted" /\ at'[p] # "unstarted" => retained]_vars

\* No requirement of the exercise fails and no program of it ends with a failure,
\* in whatever order the five programs take their steps: only a helper the root
\* has ended reports anything but success.
ChecksHold ==
  /\ root # "failed"
  /\ \A p \in Programs :
       status[p] # 0 => p = "helper" /\ mode \in {"before", "kill"} /\ status[p] = 128

\* The helper announces completion only when every descendant has ended and
\* been awaited, and has left its output ("external_members_quiet_before_completion").
DoneMeansQuiet ==
  ("DONE" \in {chan["results"].words[i] : i \in DOMAIN chan["results"].words}
     \/ (root \in {"close", "settle", "verify"} /\ mode \in {"normal", "retire-parent"}))
  => /\ output
     /\ at["driver"] = "gone" /\ at["writer"] = "gone"

\* Once the root has observed the unit empty no program of it works, and none is
\* admitted: the exercise keeps the promise of an observable unit even where the
\* helper was ended with its descendants at work.
Promise == INSTANCE QuietUnit WITH
  Members <- Programs,
  working <- {p \in unit \union {"driver", "writer"} : Running(p)},
  quiet <- quiet
ImplementsQuietUnit == Promise!QuietSpec

\* Every exercise comes to its end: a writer whose starter was ended is let go by
\* the end of the channel, and the root adopts and reaps what is left.
Completes == <>(root = "done")
=============================================================================
