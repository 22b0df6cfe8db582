-------------------------- MODULE JobObserverProofs --------------------------
(***************************************************************************)
(* The exercise of observable units, in every order its five programs may  *)
(* take their steps in and in all four of its modes.                       *)
(***************************************************************************)
EXTENDS JobObserver, SequenceTheorems, TLAPS

Launched == mode = "retire-parent"
Terminated == mode \in {"before", "kill"}

-----------------------------------------------------------------------------
\* Where a program may be for where the one it answers to is.

LauncherIs(S) == at["launcher"] \in S
HelperIs(S) == at["helper"] \in S
DriverIs(S) == at["driver"] \in S
WriterIs(S) == at["writer"] \in S

\* The root, step by step, and the launcher and the helper beside it.
Beginning ==
  /\ root = "start" => LauncherIs({"unstarted"}) /\ HelperIs({"unstarted"})
  /\ ~Launched => LauncherIs({"unstarted"})
  /\ Launched /\ root = "reference" =>
       \/ LauncherIs({"start"}) /\ HelperIs({"unstarted"})
       \/ LauncherIs({"forward"}) /\ HelperIs({"declare", "ack"})
       \/ LauncherIs({"leave", "ended"}) /\ HelperIs({"ack"})
  /\ ~Launched /\ root = "reference" => HelperIs({"declare", "ack"})
  /\ root = "launched" => Launched /\ LauncherIs({"leave", "ended"})
  /\ Launched => root \in {"start", "reference", "launched"} \/ LauncherIs({"gone"})
  /\ root \in {"launched", "open", "acknowledge"} => HelperIs({"ack"})

Middle ==
  /\ root \in {"acknowledge", "results"} => mode # "before"
  /\ root = "results" =>
       HelperIs({"ack", "start", "doubt", "ask"}
         \union IF mode = "kill" THEN {"busy", "hold"}
                ELSE {"release", "await", "retire", "again", "report", "leave", "ended"})
  /\ root = "terminate" => Terminated /\ HelperIs(IF mode = "kill" THEN {"hold"} ELSE {"ack"})

Closing ==
  /\ root = "await" => ~Launched
  /\ root \in {"close", "await"} => HelperIs(IF Terminated THEN {"ended"} ELSE {"leave", "ended"})
  /\ root \in {"settle", "verify", "done"} =>
       HelperIs(IF Launched THEN {"leave", "ended", "gone"} ELSE {"gone"})
  /\ root # "failed"

\* The driver for where the helper is, and the writer for where the driver is.
DescendantsFollow ==
  /\ HelperIs({"unstarted", "declare", "ack", "start"}) \/ mode = "before" => DriverIs({"unstarted"})
  /\ HelperIs({"doubt", "ask", "busy", "hold", "release", "await"}) =>
       DriverIs({"start", "await", "leave", "ended"})
  /\ HelperIs({"retire", "again", "report", "leave"}) => DriverIs({"gone"})
  /\ HelperIs({"ended", "gone"}) /\ ~Terminated => DriverIs({"gone"})
  /\ HelperIs({"ended", "gone"}) /\ mode = "kill" =>
       DriverIs({"start", "await", "leave", "ended", "gone"})
  /\ DriverIs({"unstarted", "start"}) => WriterIs({"unstarted"})
  /\ DriverIs({"await"}) => WriterIs({"gate", "leave", "ended"})
  /\ DriverIs({"leave", "ended", "gone"}) => WriterIs({"gone"})
  /\ DriverIs({"unstarted", "start", "await", "leave", "ended", "gone"})
  /\ WriterIs({"leave", "ended", "gone"}) <=> output

\* A descendant is its starter's to await until the starter has ended.
ParentsAwait ==
  /\ DriverIs({"start", "await", "leave", "ended"}) =>
       parent["driver"] = IF Running("helper") THEN "helper" ELSE "root"
  /\ DriverIs({"await"}) => parent["writer"] = "driver"

\* Nobody fails but a helper the root has ended.
NobodyFails ==
  status = [p \in Programs |->
    IF p = "helper" /\ Terminated /\ root \in {"close", "await", "settle", "verify", "done"}
    THEN 128 ELSE 0]

\* The unit holds its leader until that has retired, and all who were admitted.
UnitFollows ==
  /\ unit \subseteq {"helper", "driver", "writer"}
  /\ HelperIs({"unstarted", "declare"}) => unit = {}
  /\ HelperIs({"ack", "start"}) => unit = {"helper"}
  /\ DriverIs({"unstarted"}) => unit \subseteq {"helper"}
  /\ ~DriverIs({"unstarted"}) => "driver" \in unit
  /\ ~WriterIs({"unstarted"}) => "writer" \in unit
  /\ HelperIs({"again", "report", "leave"}) => "helper" \notin unit
  /\ HelperIs({"ended", "gone"}) /\ ~Terminated => "helper" \notin unit

\* What is in the channels, for where their two ends are.
GateHolds ==
  chan["gate"].words =
    IF root \notin {"start", "reference", "launched", "open", "acknowledge"} /\ mode # "before"
         /\ HelperIs({"ack"})
    THEN <<"ACK">> ELSE <<>>

ReportHolds ==
  chan["report"].words =
    IF Launched /\ LauncherIs({"forward"}) /\ HelperIs({"ack"}) THEN <<"ref">> ELSE <<>>

ResultsHold ==
  /\ root = "start" => chan["results"].words = <<>>
  /\ root = "reference" =>
       chan["results"].words =
         IF Launched THEN IF LauncherIs({"leave", "ended"}) THEN <<"ref">> ELSE <<>>
         ELSE IF HelperIs({"ack"}) THEN <<"ref">> ELSE <<>>
  /\ root = "results" =>
       chan["results"].words =
         IF HelperIs({"hold"}) THEN <<"BUSY">>
         ELSE IF HelperIs({"leave", "ended"}) THEN <<"DONE">> ELSE <<>>
  /\ root \notin {"start", "reference", "results"} => chan["results"].words = <<>>

\* Who runs can still be heard.
ResultsOpen == \A p \in {"launcher", "helper"} : Running(p) => p \in chan["results"].writers

\* What the root knows of the unit.
RootWatches ==
  /\ root \in {"acknowledge", "results", "terminate", "close", "await", "settle", "verify"} => retained
  /\ quiet <=> root \in {"verify", "done"}
  /\ quiet => Observe = "empty"

Places == Beginning /\ Middle /\ Closing /\ DescendantsFollow
Words == GateHolds /\ ReportHolds /\ ResultsHold /\ ResultsOpen
IInv == TypeOK /\ Places /\ ParentsAwait /\ NobodyFails /\ UnitFollows /\ Words /\ RootWatches

-----------------------------------------------------------------------------
\* What is written to a channel, released and read of it.

LEMMA OneWord ==
  ASSUME NEW w
  PROVE  /\ Append(<<>>, w) = <<w>> /\ <<w>> # <<>>
         /\ Head(<<w>>) = w /\ Tail(<<w>>) = <<>>
  OBVIOUS

LEMMA WriteChan ==
  ASSUME NEW c \in Chan, NEW w \in {"ref", "ACK", "BUSY", "DONE", "R"}
  PROVE  /\ Write(c, w) \in Chan
         /\ Write(c, w).words = Append(c.words, w)
         /\ Write(c, w).writers = c.writers
  BY DEF Chan, Write

LEMMA OpenChan ==
  ASSUME NEW c \in Chan, NEW p \in Programs \union {"root"}
  PROVE  /\ Open(c, p) \in Chan /\ Close(c, p) \in Chan
         /\ Open(c, p).words = c.words /\ Close(c, p).words = c.words
         /\ Open(c, p).writers = c.writers \union {p}
         /\ Close(c, p).writers = c.writers \ {p}
  BY DEF Chan, Open, Close

LEMMA RestChan ==
  ASSUME NEW c \in Chan, c.words # <<>>
  PROVE  /\ Rest(c) \in Chan
         /\ Rest(c).words = Tail(c.words)
         /\ Rest(c).writers = c.writers
         /\ Head(c.words) \in {"ref", "ACK", "BUSY", "DONE", "R"}
  <1>1. c.words \in Seq({"ref", "ACK", "BUSY", "DONE", "R"})  BY DEF Chan
  <1>2. /\ Tail(c.words) \in Seq({"ref", "ACK", "BUSY", "DONE", "R"})
        /\ Head(c.words) \in {"ref", "ACK", "BUSY", "DONE", "R"}
    BY <1>1, HeadTailProperties
  <1> QED  BY <1>2 DEF Chan, Rest

LEMMA RestOfOne ==
  ASSUME NEW c \in Chan, NEW w, c.words = <<w>>
  PROVE  Rest(c) \in Chan /\ Rest(c).words = <<>> /\ Rest(c).writers = c.writers
  <1>1. c.words # <<>> /\ Tail(c.words) = <<>>  OBVIOUS
  <1> QED  BY <1>1, RestChan

\* The line the root reads is the one it waits for, since who is to write it
\* runs until it has: the end of the results is not read before a line.
LEMMA LineIsExpected ==
  ASSUME TypeOK, Places, Words, ReadsLine, root \in {"reference", "results"}
  PROVE  /\ chan["results"].words = <<Line>>
         /\ chan' = [chan EXCEPT !["results"] = Rest(@)]
         /\ Line = IF root = "reference" THEN "ref" ELSE IF mode = "kill" THEN "BUSY" ELSE "DONE"
         /\ root = "reference" => HelperIs({"ack"}) /\ (Launched => LauncherIs({"leave", "ended"}))
         /\ root = "results" => HelperIs(IF mode = "kill" THEN {"hold"} ELSE {"leave", "ended"})
  <1> USE DEF Places, Beginning, Middle, LauncherIs, HelperIs, Launched
  <1>1. chan["results"].writers # {} \/ HelperIs({"leave", "ended"})
    BY DEF Words, ResultsOpen, Running, NotRunning
  <1>2. chan["results"].words # <<>>
    BY <1>1, OneWord DEF ReadsLine, AtEnd, Words, ResultsHold
  <1>3. Line = Head(chan["results"].words)  BY <1>2 DEF Line
  <1>4. Line # ""
    BY <1>2, <1>3, RestChan DEF TypeOK, Chan, Channels
  <1>5. chan' = [chan EXCEPT !["results"] = Rest(@)]  BY <1>4 DEF ReadsLine
  <1>6. CASE root = "reference"
    BY <1>2, <1>3, <1>5, <1>6, OneWord DEF Words, ResultsHold
  <1>7. CASE root = "results"
    BY <1>2, <1>3, <1>5, <1>7, OneWord DEF Words, ResultsHold
  <1> QED  BY <1>6, <1>7

\* What the helper learns of its unit is what it expects, so that it goes on: the
\* driver it started is there until it has awaited it, and with the driver the
\* writer has gone.
HelperGoesOn ==
  /\ HelperDoubts => at["helper"] = "doubt" /\ Goes("helper", "ask") /\ unit' = unit
  /\ HelperAsks =>
       /\ at["helper"] = "ask"
       /\ Goes("helper", IF mode = "kill" THEN "busy" ELSE "release")
       /\ unit' \in {unit, unit \ {"helper"}}
  /\ HelperRetires =>
       \E next \in {"again", "report"} :
         /\ at["helper"] = IF next = "again" THEN "retire" ELSE "again"
         /\ Goes("helper", next)
         /\ unit' = unit \ {"helper"}
  /\ HelperDoubts \/ HelperAsks \/ HelperRetires =>
       UNCHANGED <<mode, root, status, parent, chan, retained, quiet, output>>

LEMMA HelperLearns == TypeOK /\ Places /\ UnitFollows => HelperGoesOn
  <1> SUFFICES ASSUME TypeOK, Places, UnitFollows PROVE HelperGoesOn  OBVIOUS
  <1> USE DEF TypeOK, Programs, NotRunning, Places, Middle, Beginning, Closing, DescendantsFollow,
        Launched, Terminated, LauncherIs, HelperIs, DriverIs, WriterIs, UnitFollows
  <1>1. ASSUME HelperDoubts
        PROVE  /\ at["helper"] = "doubt" /\ Goes("helper", "ask")
               /\ UNCHANGED <<mode, root, status, parent, unit, chan, retained, quiet, output>>
    <2>1. ~(mode = "retire-parent" /\ RetireState(Running("launcher")) # "unknown")
      BY <1>1 DEF HelperDoubts, RetireState, Running
    <2> QED  BY <1>1, <2>1 DEF HelperDoubts, RetireState
  <1>2. ASSUME HelperAsks
        PROVE  /\ at["helper"] = "ask"
               /\ Goes("helper", IF mode = "kill" THEN "busy" ELSE "release")
               /\ unit' \in {unit, unit \ {"helper"}}
               /\ UNCHANGED <<mode, root, status, parent, chan, retained, quiet, output>>
    <2>1. "driver" \in Occupants(unit \ {"helper"})  BY <1>2 DEF HelperAsks, Occupants
    <2>2. RetireState(TRUE) = "occupied"  BY <2>1 DEF RetireState
    <2> QED  BY <1>2, <2>2 DEF HelperAsks, RetireLeaves
  <1>3. ASSUME HelperRetires
        PROVE  /\ at["helper"] \in {"retire", "again"}
               /\ Goes("helper", IF at["helper"] = "retire" THEN "again" ELSE "report")
               /\ unit' = unit \ {"helper"}
               /\ UNCHANGED <<mode, root, status, parent, chan, retained, quiet, output>>
    <2>1. Occupants(unit \ {"helper"}) = {}  BY <1>3 DEF HelperRetires, Occupants
    <2>2. RetireState(TRUE) = "empty"  BY <2>1 DEF RetireState
    <2> QED  BY <1>3, <2>2 DEF HelperRetires, RetireLeaves
  <1> QED  BY <1>1, <1>2, <1>3 DEF HelperGoesOn

\* The requirements of the root hold where it makes them.
ReadsTheLine ==
  /\ chan' = [chan EXCEPT !["results"] = Rest(@)]
  /\ \E w : chan["results"].words = <<w>>
RootGoesOn ==
  /\ RootReadsReference =>
       /\ root = "reference" /\ root' = IF Launched THEN "launched" ELSE "open"
       /\ HelperIs({"ack"}) /\ (Launched => LauncherIs({"leave", "ended"}))
       /\ ReadsTheLine
  /\ RootAwaitsLauncher => root' = "open"
  /\ RootOpens => root' = IF mode = "before" THEN "terminate" ELSE "acknowledge"
  /\ RootReadsResult =>
       /\ root = "results" /\ root' = IF mode = "kill" THEN "terminate" ELSE "close"
       /\ HelperIs(IF mode = "kill" THEN {"hold"} ELSE {"leave", "ended"})
       /\ ReadsTheLine
  /\ RootAwaitsHelper => root' = "settle"
  /\ RootVerifies => root' = "done"

LEMMA RequirementsHold ==
  TypeOK /\ Places /\ NobodyFails /\ UnitFollows /\ Words /\ RootWatches => RootGoesOn
  <1> SUFFICES ASSUME TypeOK, Places, NobodyFails, UnitFollows, Words, RootWatches
               PROVE  RootGoesOn
    OBVIOUS
  <1> USE DEF Requires, Places, Beginning, Middle, Closing, DescendantsFollow, Launched, Terminated,
        LauncherIs, HelperIs, DriverIs, WriterIs
  <1>1. RootReadsReference => root' = IF Launched THEN "launched" ELSE "open"
    BY LineIsExpected DEF RootReadsReference
  <1>2. RootAwaitsLauncher => root' = "open"
    BY DEF RootAwaitsLauncher, NobodyFails, Programs
  <1>3. RootOpens => root' = IF mode = "before" THEN "terminate" ELSE "acknowledge"
    BY DEF RootOpens, Observe, Occupants, UnitFollows
  <1>4. RootReadsResult => root' = IF mode = "kill" THEN "terminate" ELSE "close"
    BY LineIsExpected DEF RootReadsResult
  <1>5. RootAwaitsHelper => root' = "settle"
    BY DEF RootAwaitsHelper, NobodyFails, Programs
  <1>6. RootVerifies => root' = "done"
    BY DEF RootVerifies, RootWatches, UnitFollows, Observe, Occupants, TypeOK, Programs
  <1>7. RootReadsReference \/ RootReadsResult =>
          ReadsLine /\ root = IF RootReadsReference THEN "reference" ELSE "results"
    BY DEF RootReadsReference, RootReadsResult
  <1> QED  BY <1>1, <1>2, <1>3, <1>4, <1>5, <1>6, <1>7, LineIsExpected DEF RootGoesOn, ReadsTheLine

-----------------------------------------------------------------------------
\* Each program goes on from where the others let it.
LEMMA PlacesStep ==
  ASSUME TypeOK, Places, ParentsAwait, NobodyFails, UnitFollows, Words, RootWatches,
         HelperGoesOn, RootGoesOn, [Next]_vars
  PROVE  Places'
  <1> USE DEF TypeOK, Programs, NotRunning, Running, Goes, Starts, Ends, Sends, Leaves, AwaitsChild,
        Awaits, Places, Beginning, Middle, Closing, DescendantsFollow, Launched, Terminated,
        LauncherIs, HelperIs, DriverIs, WriterIs
  <1>1. CASE LauncherStarts  BY <1>1 DEF LauncherStarts
  <1>2. CASE LauncherForwards  BY <1>2 DEF LauncherForwards, Words, ReportHolds
  <1>3. CASE LauncherEnds  BY <1>3 DEF LauncherEnds
  <1>4. CASE HelperDeclares  BY <1>4 DEF HelperDeclares
  <1>5. CASE HelperIsAcknowledged  BY <1>5 DEF HelperIsAcknowledged, Words, GateHolds
  <1>6. CASE HelperStarts  BY <1>6 DEF HelperStarts
  <1>7. CASE HelperDoubts  BY <1>7 DEF HelperGoesOn
  <1>8. CASE HelperAsks  BY <1>8 DEF HelperGoesOn
  <1>9. CASE HelperIsBusy  BY <1>9 DEF HelperIsBusy
  <1>10. CASE HelperReleases  BY <1>10 DEF HelperReleases
  <1>11. CASE HelperAwaits  BY <1>11 DEF HelperAwaits
  <1>12. CASE HelperRetires  BY <1>12 DEF HelperGoesOn
  <1>13. CASE HelperReports  BY <1>13 DEF HelperReports
  <1>14. CASE HelperEnds  BY <1>14 DEF HelperEnds
  <1>15. CASE DriverStarts  BY <1>15 DEF DriverStarts
  <1>16. CASE DriverAwaits  BY <1>16 DEF DriverAwaits, ParentsAwait
  <1>17. CASE DriverEnds  BY <1>17 DEF DriverEnds
  <1>18. CASE WriterWrites  BY <1>18 DEF WriterWrites
  <1>19. CASE WriterEnds  BY <1>19 DEF WriterEnds
  <1>20. CASE RootStarts  BY <1>20 DEF RootStarts, Child
  <1>21. CASE RootReadsReference  BY <1>21 DEF RootGoesOn, RootReadsReference
  <1>22. CASE RootAwaitsLauncher  BY <1>22 DEF RootGoesOn, RootAwaitsLauncher
  <1>23. CASE RootOpens  BY <1>23 DEF RootGoesOn, RootOpens
  <1>24. CASE RootAcknowledges  BY <1>24 DEF RootAcknowledges
  <1>25. CASE RootReadsResult  BY <1>25 DEF RootGoesOn, RootReadsResult
  <1>26. CASE RootTerminates  BY <1>26 DEF RootTerminates
  <1>27. CASE RootCloses  BY <1>27 DEF RootCloses
  <1>28. CASE RootAwaitsHelper  BY <1>28 DEF RootGoesOn, RootAwaitsHelper
  <1>29. CASE RootReaps  BY <1>29 DEF RootReaps, ParentsAwait
  <1>30. CASE RootSeesEmpty  BY <1>30 DEF RootSeesEmpty
  <1>31. CASE RootVerifies  BY <1>31 DEF RootGoesOn, RootVerifies
  <1>32. CASE UNCHANGED vars  BY <1>32 DEF vars
  <1> QED
    BY <1>1, <1>2, <1>3, <1>4, <1>5, <1>6, <1>7, <1>8, <1>9, <1>10, <1>11, <1>12, <1>13, <1>14,
       <1>15, <1>16, <1>17, <1>18, <1>19, <1>20, <1>21, <1>22, <1>23, <1>24, <1>25, <1>26, <1>27, <1>28,
       <1>29, <1>30, <1>31, <1>32
       DEF Next, LauncherNext, HelperNext, DriverNext, WriterNext, RootNext

\* Every step keeps the type.
LEMMA TypeStep ==
  ASSUME TypeOK, Places, ParentsAwait, NobodyFails, UnitFollows, Words, RootWatches,
         HelperGoesOn, RootGoesOn, [Next]_vars
  PROVE  TypeOK'
  <1> USE DEF TypeOK, Programs, Modes, Channels, NotRunning, Goes, Starts, Ends, Sends, Leaves,
        AwaitsChild, Awaits
  <1>1. CASE LauncherStarts  BY <1>1, OpenChan DEF LauncherStarts
  <1>2. CASE LauncherForwards  BY <1>2, RestChan, WriteChan DEF LauncherForwards
  <1>3. CASE LauncherEnds  BY <1>3, OpenChan DEF LauncherEnds
  <1>4. CASE HelperDeclares  BY <1>4, WriteChan DEF HelperDeclares, Publishes
  <1>5. CASE HelperIsAcknowledged  BY <1>5, RestChan DEF HelperIsAcknowledged
  <1>6. CASE HelperStarts  BY <1>6, OpenChan DEF HelperStarts
  <1>7. CASE HelperDoubts
    <2>1. at["helper"] = "doubt" /\ Goes("helper", "ask") /\ unit' = unit
      BY <1>7 DEF HelperGoesOn
    <2>2. UNCHANGED <<mode, root, status, parent, chan, retained, quiet, output>>  BY <1>7 DEF HelperGoesOn
    <2> QED  BY <2>1, <2>2
  <1>8. CASE HelperAsks
    <2>1. /\ at["helper"] = "ask" /\ unit' \in {unit, unit \ {"helper"}}
          /\ Goes("helper", IF mode = "kill" THEN "busy" ELSE "release")
      BY <1>8 DEF HelperGoesOn
    <2>2. UNCHANGED <<mode, root, status, parent, chan, retained, quiet, output>>  BY <1>8 DEF HelperGoesOn
    <2> QED  BY <2>1, <2>2
  <1>9. CASE HelperIsBusy  BY <1>9, WriteChan DEF HelperIsBusy
  <1>10. CASE HelperReleases  BY <1>10, WriteChan, OpenChan DEF HelperReleases
  <1>11. CASE HelperAwaits  BY <1>11 DEF HelperAwaits
  <1>12. CASE HelperRetires
    <2>1. PICK next \in {"again", "report"} :
            /\ at["helper"] = IF next = "again" THEN "retire" ELSE "again"
            /\ Goes("helper", next) /\ unit' = unit \ {"helper"}
      BY <1>12 DEF HelperGoesOn
    <2>2. UNCHANGED <<mode, root, status, parent, chan, retained, quiet, output>>  BY <1>12 DEF HelperGoesOn
    <2> QED  BY <2>1, <2>2
  <1>13. CASE HelperReports  BY <1>13, WriteChan DEF HelperReports
  <1>14. CASE HelperEnds  BY <1>14, OpenChan DEF HelperEnds
  <1>15. CASE DriverStarts  BY <1>15, OpenChan DEF DriverStarts
  <1>16. CASE DriverAwaits  BY <1>16 DEF DriverAwaits
  <1>17. CASE DriverEnds  BY <1>17, OpenChan DEF DriverEnds
  <1>18. CASE WriterWrites  BY <1>18, RestChan DEF WriterWrites
  <1>19. CASE WriterEnds  BY <1>19, OpenChan DEF WriterEnds
  <1>20. CASE RootStarts  BY <1>20, OpenChan DEF RootStarts, Child
  <1>21. CASE RootReadsReference
    <2>1. ReadsTheLine  BY <1>21 DEF RootGoesOn
    <2>2. chan["results"] \in Chan /\ chan["results"].words # <<>>
      BY <2>1, OneWord DEF ReadsTheLine
    <2>3. chan' \in [Channels -> Chan]  BY <2>1, <2>2, RestChan DEF ReadsTheLine
    <2> QED  BY <1>21, <2>3 DEF RootReadsReference, RootGoesOn
  <1>22. CASE RootAwaitsLauncher  BY <1>22 DEF RootGoesOn, RootAwaitsLauncher
  <1>23. CASE RootOpens  BY <1>23 DEF RootGoesOn, RootOpens
  <1>24. CASE RootAcknowledges  BY <1>24, WriteChan DEF RootAcknowledges
  <1>25. CASE RootReadsResult
    <2>1. ReadsTheLine  BY <1>25 DEF RootGoesOn
    <2>2. chan["results"] \in Chan /\ chan["results"].words # <<>>
      BY <2>1, OneWord DEF ReadsTheLine
    <2>3. chan' \in [Channels -> Chan]  BY <2>1, <2>2, RestChan DEF ReadsTheLine
    <2> QED  BY <1>25, <2>3 DEF RootReadsResult, RootGoesOn
  <1>26. CASE RootTerminates  BY <1>26, OpenChan DEF RootTerminates
  <1>27. CASE RootCloses  BY <1>27, OpenChan DEF RootCloses
  <1>28. CASE RootAwaitsHelper  BY <1>28 DEF RootGoesOn, RootAwaitsHelper
  <1>29. CASE RootReaps  BY <1>29 DEF RootReaps
  <1>30. CASE RootSeesEmpty  BY <1>30 DEF RootSeesEmpty
  <1>31. CASE RootVerifies  BY <1>31 DEF RootGoesOn, RootVerifies
  <1>32. CASE UNCHANGED vars  BY <1>32 DEF vars
  <1> QED
    BY <1>1, <1>2, <1>3, <1>4, <1>5, <1>6, <1>7, <1>8, <1>9, <1>10, <1>11, <1>12, <1>13, <1>14,
       <1>15, <1>16, <1>17, <1>18, <1>19, <1>20, <1>21, <1>22, <1>23, <1>24, <1>25, <1>26, <1>27, <1>28,
       <1>29, <1>30, <1>31, <1>32
       DEF Next, LauncherNext, HelperNext, DriverNext, WriterNext, RootNext

\* A program becomes the root's to await only where its starter ends.
LEMMA ParentsStep ==
  ASSUME TypeOK, Places, ParentsAwait, NobodyFails, UnitFollows, Words, RootWatches,
         HelperGoesOn, RootGoesOn, [Next]_vars
  PROVE  ParentsAwait'
  <1> USE DEF TypeOK, Programs, NotRunning, Running, Goes, Starts, Ends, Sends, Leaves, AwaitsChild,
        Awaits, ParentsAwait, Places, Beginning, Middle, Closing, DescendantsFollow, Launched,
        Terminated, LauncherIs, HelperIs, DriverIs, WriterIs
  <1>1. CASE LauncherStarts  BY <1>1 DEF LauncherStarts
  <1>2. CASE LauncherForwards  BY <1>2 DEF LauncherForwards
  <1>3. CASE LauncherEnds  BY <1>3 DEF LauncherEnds
  <1>4. CASE HelperDeclares  BY <1>4 DEF HelperDeclares
  <1>5. CASE HelperIsAcknowledged  BY <1>5 DEF HelperIsAcknowledged
  <1>6. CASE HelperStarts  BY <1>6 DEF HelperStarts
  <1>7. CASE HelperDoubts  BY <1>7 DEF HelperGoesOn
  <1>8. CASE HelperAsks  BY <1>8 DEF HelperGoesOn
  <1>9. CASE HelperIsBusy  BY <1>9 DEF HelperIsBusy
  <1>10. CASE HelperReleases  BY <1>10 DEF HelperReleases
  <1>11. CASE HelperAwaits  BY <1>11 DEF HelperAwaits
  <1>12. CASE HelperRetires  BY <1>12 DEF HelperGoesOn
  <1>13. CASE HelperReports  BY <1>13 DEF HelperReports
  <1>14. CASE HelperEnds  BY <1>14 DEF HelperEnds
  <1>15. CASE DriverStarts  BY <1>15 DEF DriverStarts
  <1>16. CASE DriverAwaits  BY <1>16 DEF DriverAwaits
  <1>17. CASE DriverEnds  BY <1>17 DEF DriverEnds
  <1>18. CASE WriterWrites  BY <1>18 DEF WriterWrites
  <1>19. CASE WriterEnds  BY <1>19 DEF WriterEnds
  <1>20. CASE RootStarts  BY <1>20 DEF RootStarts, Child
  <1>21. CASE RootReadsReference  BY <1>21 DEF RootReadsReference
  <1>22. CASE RootAwaitsLauncher  BY <1>22 DEF RootAwaitsLauncher
  <1>23. CASE RootOpens  BY <1>23 DEF RootOpens
  <1>24. CASE RootAcknowledges  BY <1>24 DEF RootAcknowledges
  <1>25. CASE RootReadsResult  BY <1>25 DEF RootReadsResult
  <1>26. CASE RootTerminates  BY <1>26 DEF RootTerminates
  <1>27. CASE RootCloses  BY <1>27 DEF RootCloses
  <1>28. CASE RootAwaitsHelper  BY <1>28 DEF RootAwaitsHelper
  <1>29. CASE RootReaps  BY <1>29 DEF RootReaps
  <1>30. CASE RootSeesEmpty  BY <1>30 DEF RootSeesEmpty
  <1>31. CASE RootVerifies  BY <1>31 DEF RootVerifies
  <1>32. CASE UNCHANGED vars  BY <1>32 DEF vars
  <1> QED
    BY <1>1, <1>2, <1>3, <1>4, <1>5, <1>6, <1>7, <1>8, <1>9, <1>10, <1>11, <1>12, <1>13, <1>14,
       <1>15, <1>16, <1>17, <1>18, <1>19, <1>20, <1>21, <1>22, <1>23, <1>24, <1>25, <1>26, <1>27, <1>28,
       <1>29, <1>30, <1>31, <1>32
       DEF Next, LauncherNext, HelperNext, DriverNext, WriterNext, RootNext

\* A program that ends of itself ends with success.
LEMMA NobodyFailsStep ==
  ASSUME TypeOK, Places, ParentsAwait, NobodyFails, UnitFollows, Words, RootWatches,
         HelperGoesOn, RootGoesOn, [Next]_vars
  PROVE  NobodyFails'
  <1> USE DEF TypeOK, Programs, NotRunning, Running, Goes, Starts, Ends, Sends, Leaves, AwaitsChild,
        Awaits, NobodyFails, Places, Beginning, Middle, Closing, DescendantsFollow, Launched,
        Terminated, LauncherIs, HelperIs, DriverIs, WriterIs
  <1>1. CASE LauncherStarts  BY <1>1 DEF LauncherStarts
  <1>2. CASE LauncherForwards  BY <1>2 DEF LauncherForwards
  <1>3. CASE LauncherEnds  BY <1>3 DEF LauncherEnds
  <1>4. CASE HelperDeclares  BY <1>4 DEF HelperDeclares
  <1>5. CASE HelperIsAcknowledged  BY <1>5 DEF HelperIsAcknowledged
  <1>6. CASE HelperStarts  BY <1>6 DEF HelperStarts
  <1>7. CASE HelperDoubts  BY <1>7 DEF HelperGoesOn
  <1>8. CASE HelperAsks  BY <1>8 DEF HelperGoesOn
  <1>9. CASE HelperIsBusy  BY <1>9 DEF HelperIsBusy
  <1>10. CASE HelperReleases  BY <1>10 DEF HelperReleases
  <1>11. CASE HelperAwaits  BY <1>11 DEF HelperAwaits
  <1>12. CASE HelperRetires  BY <1>12 DEF HelperGoesOn
  <1>13. CASE HelperReports  BY <1>13 DEF HelperReports
  <1>14. CASE HelperEnds  BY <1>14 DEF HelperEnds
  <1>15. CASE DriverStarts  BY <1>15 DEF DriverStarts
  <1>16. CASE DriverAwaits  BY <1>16 DEF DriverAwaits
  <1>17. CASE DriverEnds  BY <1>17 DEF DriverEnds
  <1>18. CASE WriterWrites  BY <1>18 DEF WriterWrites
  <1>19. CASE WriterEnds  BY <1>19 DEF WriterEnds
  <1>20. CASE RootStarts  BY <1>20 DEF RootStarts
  <1>21. CASE RootReadsReference
    <2>1. root = "reference" /\ root' \in {"launched", "open"}  BY <1>21 DEF RootGoesOn
    <2>2. UNCHANGED <<mode, status>>  BY <1>21 DEF RootReadsReference
    <2> QED  BY <2>1, <2>2
  <1>22. CASE RootAwaitsLauncher  BY <1>22 DEF RootGoesOn, RootAwaitsLauncher
  <1>23. CASE RootOpens  BY <1>23 DEF RootGoesOn, RootOpens
  <1>24. CASE RootAcknowledges  BY <1>24 DEF RootAcknowledges
  <1>25. CASE RootReadsResult  BY <1>25 DEF RootGoesOn, RootReadsResult
  <1>26. CASE RootTerminates  BY <1>26 DEF RootTerminates
  <1>27. CASE RootCloses  BY <1>27 DEF RootCloses
  <1>28. CASE RootAwaitsHelper  BY <1>28 DEF RootGoesOn, RootAwaitsHelper
  <1>29. CASE RootReaps  BY <1>29 DEF RootReaps
  <1>30. CASE RootSeesEmpty  BY <1>30 DEF RootSeesEmpty
  <1>31. CASE RootVerifies  BY <1>31 DEF RootGoesOn, RootVerifies
  <1>32. CASE UNCHANGED vars  BY <1>32 DEF vars
  <1> QED
    BY <1>1, <1>2, <1>3, <1>4, <1>5, <1>6, <1>7, <1>8, <1>9, <1>10, <1>11, <1>12, <1>13, <1>14,
       <1>15, <1>16, <1>17, <1>18, <1>19, <1>20, <1>21, <1>22, <1>23, <1>24, <1>25, <1>26, <1>27, <1>28,
       <1>29, <1>30, <1>31, <1>32
       DEF Next, LauncherNext, HelperNext, DriverNext, WriterNext, RootNext

\* Whoever is admitted is placed in the unit, and only the helper leaves it.
LEMMA UnitStep ==
  ASSUME TypeOK, Places, ParentsAwait, NobodyFails, UnitFollows, Words, RootWatches,
         HelperGoesOn, RootGoesOn, [Next]_vars
  PROVE  UnitFollows'
  <1> USE DEF TypeOK, Programs, NotRunning, Running, Goes, Starts, Ends, Sends, Leaves, AwaitsChild,
        Awaits, UnitFollows, Places, Beginning, Middle, Closing, DescendantsFollow, Launched,
        Terminated, LauncherIs, HelperIs, DriverIs, WriterIs
  <1>1. CASE LauncherStarts  BY <1>1 DEF LauncherStarts
  <1>2. CASE LauncherForwards  BY <1>2 DEF LauncherForwards
  <1>3. CASE LauncherEnds  BY <1>3 DEF LauncherEnds
  <1>4. CASE HelperDeclares  BY <1>4 DEF HelperDeclares
  <1>5. CASE HelperIsAcknowledged  BY <1>5 DEF HelperIsAcknowledged
  <1>6. CASE HelperStarts  BY <1>6 DEF HelperStarts
  <1>7. CASE HelperDoubts
    <2>1. at["helper"] = "doubt" /\ Goes("helper", "ask") /\ unit' = unit
      BY <1>7 DEF HelperGoesOn
    <2>2. UNCHANGED <<mode, root, status, parent, chan, retained, quiet, output>>  BY <1>7 DEF HelperGoesOn
    <2> QED  BY <2>1, <2>2
  <1>8. CASE HelperAsks
    <2>1. /\ at["helper"] = "ask" /\ unit' \in {unit, unit \ {"helper"}}
          /\ Goes("helper", IF mode = "kill" THEN "busy" ELSE "release")
      BY <1>8 DEF HelperGoesOn
    <2>2. UNCHANGED <<mode, root, status, parent, chan, retained, quiet, output>>  BY <1>8 DEF HelperGoesOn
    <2> QED  BY <2>1, <2>2
  <1>9. CASE HelperIsBusy  BY <1>9 DEF HelperIsBusy
  <1>10. CASE HelperReleases  BY <1>10 DEF HelperReleases
  <1>11. CASE HelperAwaits  BY <1>11 DEF HelperAwaits
  <1>12. CASE HelperRetires
    <2>1. PICK next \in {"again", "report"} :
            /\ at["helper"] = IF next = "again" THEN "retire" ELSE "again"
            /\ Goes("helper", next) /\ unit' = unit \ {"helper"}
      BY <1>12 DEF HelperGoesOn
    <2>2. UNCHANGED <<mode, root, status, parent, chan, retained, quiet, output>>  BY <1>12 DEF HelperGoesOn
    <2> QED  BY <2>1, <2>2
  <1>13. CASE HelperReports  BY <1>13 DEF HelperReports
  <1>14. CASE HelperEnds  BY <1>14 DEF HelperEnds
  <1>15. CASE DriverStarts  BY <1>15 DEF DriverStarts
  <1>16. CASE DriverAwaits  BY <1>16 DEF DriverAwaits
  <1>17. CASE DriverEnds  BY <1>17 DEF DriverEnds
  <1>18. CASE WriterWrites  BY <1>18 DEF WriterWrites
  <1>19. CASE WriterEnds  BY <1>19 DEF WriterEnds
  <1>20. CASE RootStarts  BY <1>20 DEF RootStarts, Child
  <1>21. CASE RootReadsReference  BY <1>21 DEF RootReadsReference
  <1>22. CASE RootAwaitsLauncher  BY <1>22 DEF RootAwaitsLauncher
  <1>23. CASE RootOpens  BY <1>23 DEF RootOpens
  <1>24. CASE RootAcknowledges  BY <1>24 DEF RootAcknowledges
  <1>25. CASE RootReadsResult  BY <1>25 DEF RootReadsResult
  <1>26. CASE RootTerminates  BY <1>26 DEF RootTerminates
  <1>27. CASE RootCloses  BY <1>27 DEF RootCloses
  <1>28. CASE RootAwaitsHelper  BY <1>28 DEF RootAwaitsHelper
  <1>29. CASE RootReaps  BY <1>29 DEF RootReaps
  <1>30. CASE RootSeesEmpty  BY <1>30 DEF RootSeesEmpty
  <1>31. CASE RootVerifies  BY <1>31 DEF RootVerifies
  <1>32. CASE UNCHANGED vars  BY <1>32 DEF vars
  <1> QED
    BY <1>1, <1>2, <1>3, <1>4, <1>5, <1>6, <1>7, <1>8, <1>9, <1>10, <1>11, <1>12, <1>13, <1>14,
       <1>15, <1>16, <1>17, <1>18, <1>19, <1>20, <1>21, <1>22, <1>23, <1>24, <1>25, <1>26, <1>27, <1>28,
       <1>29, <1>30, <1>31, <1>32
       DEF Next, LauncherNext, HelperNext, DriverNext, WriterNext, RootNext

\* A word is in a channel from the step that writes it to the step that reads it.
LEMMA WordsStep ==
  ASSUME TypeOK, Places, ParentsAwait, NobodyFails, UnitFollows, Words, RootWatches,
         HelperGoesOn, RootGoesOn, [Next]_vars
  PROVE  Words'
  <1> USE DEF TypeOK, Programs, Modes, Channels, NotRunning, Running, Goes, Starts, Ends, Sends,
        Leaves, AwaitsChild, Awaits, Places, Beginning, Middle, Closing, DescendantsFollow,
        Launched, Terminated, LauncherIs, HelperIs, DriverIs, WriterIs, Words, GateHolds,
        ReportHolds, ResultsHold, ResultsOpen
  <1>1. CASE LauncherStarts  BY <1>1, OpenChan DEF LauncherStarts
  <1>2. CASE LauncherForwards
    <2>1. chan["report"].words = <<"ref">> /\ chan["results"].words = <<>>
      BY <1>2, OneWord DEF LauncherForwards
    <2>2. /\ chan'["report"] = Rest(chan["report"])
          /\ chan'["results"] = Write(chan["results"], "ref")
          /\ chan'["gate"] = chan["gate"]
      BY <1>2, <2>1, OneWord DEF LauncherForwards
    <2>3. /\ chan'["report"].words = <<>> /\ chan'["results"].words = <<"ref">>
          /\ chan'["results"].writers = chan["results"].writers
      BY <2>1, <2>2, RestOfOne, WriteChan, OneWord
    <2> QED  BY <1>2, <2>2, <2>3 DEF LauncherForwards
  <1>3. CASE LauncherEnds  BY <1>3, OpenChan DEF LauncherEnds
  <1>4. CASE HelperDeclares
    <2>1. chan[Publishes].words = <<>>  BY <1>4 DEF HelperDeclares, Publishes
    <2>2. /\ chan'[Publishes].words = <<"ref">>
          /\ chan'[Publishes].writers = chan[Publishes].writers
          /\ \A c \in Channels \ {Publishes} : chan'[c] = chan[c]
      BY <1>4, <2>1, WriteChan, OneWord DEF HelperDeclares, Publishes
    <2> QED  BY <1>4, <2>2 DEF HelperDeclares, Publishes
  <1>5. CASE HelperIsAcknowledged
    <2>1. chan["gate"].words = <<"ACK">>  BY <1>5 DEF HelperIsAcknowledged
    <2>2. chan'["gate"].words = <<>> /\ \A c \in Channels \ {"gate"} : chan'[c] = chan[c]
      BY <1>5, <2>1, RestOfOne DEF HelperIsAcknowledged
    <2> QED  BY <1>5, <2>2 DEF HelperIsAcknowledged
  <1>6. CASE HelperStarts  BY <1>6, OpenChan DEF HelperStarts
  <1>7. CASE HelperDoubts  BY <1>7 DEF HelperGoesOn
  <1>8. CASE HelperAsks  BY <1>8 DEF HelperGoesOn
  <1>9. CASE HelperIsBusy  BY <1>9, WriteChan, OneWord DEF HelperIsBusy
  <1>10. CASE HelperReleases  BY <1>10, WriteChan, OpenChan DEF HelperReleases
  <1>11. CASE HelperAwaits  BY <1>11 DEF HelperAwaits
  <1>12. CASE HelperRetires  BY <1>12 DEF HelperGoesOn
  <1>13. CASE HelperReports  BY <1>13, WriteChan, OneWord DEF HelperReports
  <1>14. CASE HelperEnds  BY <1>14, OpenChan DEF HelperEnds
  <1>15. CASE DriverStarts  BY <1>15, OpenChan DEF DriverStarts
  <1>16. CASE DriverAwaits  BY <1>16 DEF DriverAwaits, ParentsAwait
  <1>17. CASE DriverEnds  BY <1>17, OpenChan DEF DriverEnds
  <1>18. CASE WriterWrites  BY <1>18, RestChan DEF WriterWrites, AtEnd
  <1>19. CASE WriterEnds  BY <1>19, OpenChan DEF WriterEnds
  <1>20. CASE RootStarts  BY <1>20, OpenChan DEF RootStarts, Child
  <1>21. CASE RootReadsReference
    <2>1. ReadsTheLine  BY <1>21 DEF RootGoesOn
    <2>2. PICK w : chan["results"].words = <<w>>  BY <2>1 DEF ReadsTheLine
    <2>3. /\ chan'["results"].words = <<>>
          /\ chan'["results"].writers = chan["results"].writers
          /\ \A c \in Channels \ {"results"} : chan'[c] = chan[c]
      BY <2>1, <2>2, RestOfOne DEF ReadsTheLine
    <2>4. /\ root = "reference" /\ root' = IF Launched THEN "launched" ELSE "open"
          /\ HelperIs({"ack"}) /\ (Launched => LauncherIs({"leave", "ended"}))
      BY <1>21 DEF RootGoesOn
    <2>5. UNCHANGED <<mode, at>>  BY <1>21 DEF RootReadsReference
    <2>6. GateHolds' /\ ReportHolds'  BY <2>3, <2>4, <2>5
    <2>7. ResultsHold' /\ ResultsOpen'  BY <2>3, <2>4, <2>5
    <2> QED  BY <2>6, <2>7
  <1>22. CASE RootAwaitsLauncher  BY <1>22 DEF RootGoesOn, RootAwaitsLauncher
  <1>23. CASE RootOpens  BY <1>23 DEF RootGoesOn, RootOpens
  <1>24. CASE RootAcknowledges  BY <1>24, WriteChan, OneWord DEF RootAcknowledges
  <1>25. CASE RootReadsResult
    <2>1. ReadsTheLine  BY <1>25 DEF RootGoesOn
    <2>2. PICK w : chan["results"].words = <<w>>  BY <2>1 DEF ReadsTheLine
    <2>3. /\ chan'["results"].words = <<>>
          /\ chan'["results"].writers = chan["results"].writers
          /\ \A c \in Channels \ {"results"} : chan'[c] = chan[c]
      BY <2>1, <2>2, RestOfOne DEF ReadsTheLine
    <2> QED  BY <1>25, <2>3 DEF RootReadsResult, RootGoesOn
  <1>26. CASE RootTerminates  BY <1>26, OpenChan DEF RootTerminates
  <1>27. CASE RootCloses  BY <1>27, OpenChan DEF RootCloses
  <1>28. CASE RootAwaitsHelper  BY <1>28 DEF RootGoesOn, RootAwaitsHelper
  <1>29. CASE RootReaps  BY <1>29 DEF RootReaps
  <1>30. CASE RootSeesEmpty  BY <1>30 DEF RootSeesEmpty
  <1>31. CASE RootVerifies  BY <1>31 DEF RootGoesOn, RootVerifies
  <1>32. CASE UNCHANGED vars  BY <1>32 DEF vars
  <1> QED
    BY <1>1, <1>2, <1>3, <1>4, <1>5, <1>6, <1>7, <1>8, <1>9, <1>10, <1>11, <1>12, <1>13, <1>14,
       <1>15, <1>16, <1>17, <1>18, <1>19, <1>20, <1>21, <1>22, <1>23, <1>24, <1>25, <1>26, <1>27, <1>28,
       <1>29, <1>30, <1>31, <1>32
       DEF Next, LauncherNext, HelperNext, DriverNext, WriterNext, RootNext

\* The root knows the unit is empty from the step that finds it so, and it stays empty.
LEMMA WatchStep ==
  ASSUME TypeOK, Places, ParentsAwait, NobodyFails, UnitFollows, Words, RootWatches,
         HelperGoesOn, RootGoesOn, [Next]_vars
  PROVE  RootWatches'
  <1> USE DEF TypeOK, Programs, NotRunning, Running, Goes, Starts, Ends, Sends, Leaves, AwaitsChild,
        Awaits, RootWatches, Observe, Occupants, Places, Beginning, Middle, Closing,
        DescendantsFollow, Launched, Terminated, LauncherIs, HelperIs, DriverIs, WriterIs,
        UnitFollows
  <1>1. CASE LauncherStarts  BY <1>1 DEF LauncherStarts
  <1>2. CASE LauncherForwards  BY <1>2 DEF LauncherForwards
  <1>3. CASE LauncherEnds  BY <1>3 DEF LauncherEnds
  <1>4. CASE HelperDeclares  BY <1>4 DEF HelperDeclares
  <1>5. CASE HelperIsAcknowledged  BY <1>5 DEF HelperIsAcknowledged
  <1>6. CASE HelperStarts  BY <1>6 DEF HelperStarts
  <1>7. CASE HelperDoubts  BY <1>7 DEF HelperGoesOn
  <1>8. CASE HelperAsks  BY <1>8 DEF HelperGoesOn
  <1>9. CASE HelperIsBusy  BY <1>9 DEF HelperIsBusy
  <1>10. CASE HelperReleases  BY <1>10 DEF HelperReleases
  <1>11. CASE HelperAwaits  BY <1>11 DEF HelperAwaits
  <1>12. CASE HelperRetires  BY <1>12 DEF HelperGoesOn
  <1>13. CASE HelperReports  BY <1>13 DEF HelperReports
  <1>14. CASE HelperEnds  BY <1>14 DEF HelperEnds
  <1>15. CASE DriverStarts  BY <1>15 DEF DriverStarts
  <1>16. CASE DriverAwaits  BY <1>16 DEF DriverAwaits
  <1>17. CASE DriverEnds  BY <1>17 DEF DriverEnds
  <1>18. CASE WriterWrites  BY <1>18 DEF WriterWrites
  <1>19. CASE WriterEnds  BY <1>19 DEF WriterEnds
  <1>20. CASE RootStarts  BY <1>20 DEF RootStarts, Child
  <1>21. CASE RootReadsReference  BY <1>21 DEF RootGoesOn, RootReadsReference
  <1>22. CASE RootAwaitsLauncher  BY <1>22 DEF RootGoesOn, RootAwaitsLauncher
  <1>23. CASE RootOpens  BY <1>23 DEF RootGoesOn, RootOpens
  <1>24. CASE RootAcknowledges  BY <1>24 DEF RootAcknowledges
  <1>25. CASE RootReadsResult  BY <1>25 DEF RootGoesOn, RootReadsResult
  <1>26. CASE RootTerminates  BY <1>26 DEF RootTerminates
  <1>27. CASE RootCloses  BY <1>27 DEF RootCloses
  <1>28. CASE RootAwaitsHelper  BY <1>28 DEF RootGoesOn, RootAwaitsHelper
  <1>29. CASE RootReaps  BY <1>29 DEF RootReaps, ParentsAwait
  <1>30. CASE RootSeesEmpty  BY <1>30 DEF RootSeesEmpty
  <1>31. CASE RootVerifies  BY <1>31 DEF RootGoesOn, RootVerifies
  <1>32. CASE UNCHANGED vars  BY <1>32 DEF vars
  <1> QED
    BY <1>1, <1>2, <1>3, <1>4, <1>5, <1>6, <1>7, <1>8, <1>9, <1>10, <1>11, <1>12, <1>13, <1>14,
       <1>15, <1>16, <1>17, <1>18, <1>19, <1>20, <1>21, <1>22, <1>23, <1>24, <1>25, <1>26, <1>27, <1>28,
       <1>29, <1>30, <1>31, <1>32
       DEF Next, LauncherNext, HelperNext, DriverNext, WriterNext, RootNext

-----------------------------------------------------------------------------
LEMMA InitIInv == Init => IInv
  <1> SUFFICES ASSUME Init PROVE IInv  OBVIOUS
  <1> USE DEF Init, Programs, Modes, Channels, NotRunning, Launched, Terminated, LauncherIs, HelperIs,
        DriverIs, WriterIs
  <1>1. TypeOK
    <2>1. [words |-> <<>>, writers |-> {}] \in Chan  BY DEF Chan
    <2> QED  BY <2>1 DEF TypeOK
  <1>2. Places  BY DEF Places, Beginning, Middle, Closing, DescendantsFollow
  <1>3. ParentsAwait /\ NobodyFails /\ UnitFollows  BY DEF ParentsAwait, NobodyFails, UnitFollows
  <1>4. Words  BY DEF Words, GateHolds, ReportHolds, ResultsHold, ResultsOpen, Running
  <1>5. RootWatches  BY DEF RootWatches
  <1> QED  BY <1>1, <1>2, <1>3, <1>4, <1>5 DEF IInv

LEMMA IInvStep == IInv /\ [Next]_vars => IInv'
  <1> SUFFICES ASSUME IInv, [Next]_vars PROVE IInv'  OBVIOUS
  <1>1. /\ TypeOK /\ Places /\ ParentsAwait /\ NobodyFails /\ UnitFollows /\ Words
        /\ RootWatches
    BY DEF IInv
  <1>2. HelperGoesOn /\ RootGoesOn  BY <1>1, HelperLearns, RequirementsHold
  <1> QED
    BY <1>1, <1>2, TypeStep, PlacesStep, ParentsStep, NobodyFailsStep, UnitStep, WordsStep,
       WatchStep
    DEF IInv

LEMMA Invariance == Spec => []IInv
  BY InitIInv, IInvStep, PTL DEF Spec

-----------------------------------------------------------------------------
\* Every program is at a step of its source, and the channels hold words of the
\* exercise (job_observer.cpp, and the programs it starts).
THEOREM AlwaysTypeOK == Spec => []TypeOK
  <1>1. IInv => TypeOK  BY DEF IInv
  <1> QED  BY <1>1, Invariance, PTL

\* No requirement of the exercise fails and no program of it ends with a failure,
\* but for the helper the root ends (job_observer.cpp, the require calls).
THEOREM AlwaysChecksHold == Spec => []ChecksHold
  <1>1. IInv => ChecksHold
    BY DEF IInv, Places, Closing, NobodyFails, Terminated, ChecksHold, Programs
  <1> QED  BY <1>1, Invariance, PTL

\* "DONE" is written, and the root goes past it, only with every descendant
\* ended, awaited and its output left.
THEOREM AlwaysDoneMeansQuiet == Spec => []DoneMeansQuiet
  <1>1. ASSUME IInv PROVE DoneMeansQuiet
    <2> USE DEF IInv, Places, Middle, Closing, DescendantsFollow, Launched, Terminated, HelperIs,
          DriverIs, WriterIs
    <2>1. CASE root \in {"close", "settle", "verify"} /\ mode \in {"normal", "retire-parent"}
      BY <1>1, <2>1 DEF DoneMeansQuiet
    <2>2. CASE "DONE" \in {chan["results"].words[i] : i \in DOMAIN chan["results"].words}
      <3>1. chan["results"].words \notin {<<>>, <<"ref">>, <<"BUSY">>}
        BY <2>2
      <3>2. root = "results" /\ HelperIs({"leave", "ended"})
        BY <1>1, <3>1 DEF Words, ResultsHold
      <3> QED  BY <1>1, <3>2 DEF DoneMeansQuiet
    <2> QED  BY <2>1, <2>2 DEF DoneMeansQuiet
  <1> QED  BY <1>1, Invariance, PTL

\* The programs of the unit that work, as the promise counts them.
Working == {p \in unit \union {"driver", "writer"} : Running(p)}

Admitted == HelperDeclares \/ HelperStarts \/ DriverStarts

\* Nobody enters the unit, or starts in it, in any other step.
LEMMA OnlyTheseAdmit ==
  ASSUME IInv, Next, ~Admitted
  PROVE  /\ Working' \subseteq Working
         /\ \A p \in {"driver", "writer"} : at[p] = "unstarted" => at'[p] = "unstarted"
  <1>1. /\ TypeOK /\ Places /\ ParentsAwait /\ UnitFollows /\ HelperGoesOn
    BY HelperLearns DEF IInv
  <1>2. ~HelperDeclares /\ ~HelperStarts /\ ~DriverStarts  BY DEF Admitted
  <1> USE <1>1 DEF TypeOK, Programs, NotRunning, Running, Working, UnitFollows, Goes, Starts, Ends,
        Sends, Leaves, AwaitsChild, Awaits, LauncherIs, HelperIs, DriverIs, WriterIs
  <1>3. CASE LauncherStarts  BY <1>3 DEF LauncherStarts, Places, Beginning, Middle, Closing, Launched
  <1>4. CASE LauncherForwards  BY <1>4 DEF LauncherForwards
  <1>5. CASE LauncherEnds  BY <1>5 DEF LauncherEnds
  <1>6. CASE HelperIsAcknowledged  BY <1>6 DEF HelperIsAcknowledged
  <1>7. CASE HelperDoubts
    <2>1. Goes("helper", "ask") /\ unit' = unit  BY <1>7 DEF HelperGoesOn
    <2> QED  BY <1>7, <2>1 DEF HelperDoubts
  <1>8. CASE HelperAsks  BY <1>8 DEF HelperGoesOn
  <1>9. CASE HelperIsBusy  BY <1>9 DEF HelperIsBusy
  <1>10. CASE HelperReleases  BY <1>10 DEF HelperReleases
  <1>11. CASE HelperAwaits  BY <1>11 DEF HelperAwaits
  <1>12. CASE HelperRetires
    <2>1. PICK next \in {"again", "report"} : Goes("helper", next) /\ unit' = unit \ {"helper"}
      BY <1>12 DEF HelperGoesOn
    <2> QED  BY <1>12, <2>1 DEF HelperRetires
  <1>13. CASE HelperReports  BY <1>13 DEF HelperReports
  <1>14. CASE HelperEnds  BY <1>14 DEF HelperEnds
  <1>15. CASE DriverAwaits  BY <1>15 DEF DriverAwaits
  <1>16. CASE DriverEnds  BY <1>16 DEF DriverEnds
  <1>17. CASE WriterWrites  BY <1>17 DEF WriterWrites
  <1>18. CASE WriterEnds  BY <1>18 DEF WriterEnds
  <1>19. CASE RootStarts  BY <1>19 DEF RootStarts, Child, Places, Beginning
  <1>20. CASE RootReadsReference  BY <1>20 DEF RootReadsReference
  <1>21. CASE RootAwaitsLauncher  BY <1>21 DEF RootAwaitsLauncher
  <1>22. CASE RootOpens  BY <1>22 DEF RootOpens
  <1>23. CASE RootAcknowledges  BY <1>23 DEF RootAcknowledges
  <1>24. CASE RootReadsResult  BY <1>24 DEF RootReadsResult
  <1>25. CASE RootTerminates  BY <1>25 DEF RootTerminates
  <1>26. CASE RootCloses  BY <1>26 DEF RootCloses
  <1>27. CASE RootAwaitsHelper  BY <1>27 DEF RootAwaitsHelper
  <1>28. CASE RootReaps  BY <1>28 DEF RootReaps
  <1>29. CASE RootSeesEmpty  BY <1>29 DEF RootSeesEmpty
  <1>30. CASE RootVerifies  BY <1>30 DEF RootVerifies
  <1> QED
    BY <1>2, <1>3, <1>4, <1>5, <1>6, <1>7, <1>8, <1>9, <1>10, <1>11, <1>12, <1>13, <1>14, <1>15,
       <1>16, <1>17, <1>18, <1>19, <1>20, <1>21, <1>22, <1>23, <1>24, <1>25, <1>26, <1>27, <1>28, <1>29, <1>30
       DEF Next, LauncherNext, HelperNext, DriverNext, WriterNext, RootNext

\* Whoever is admitted is admitted before the unit was found empty, and nobody but
\* the helper before the root holds its reference.
LEMMA AdmittedInTime ==
  ASSUME IInv, Admitted
  PROVE  /\ ~quiet /\ quiet' = quiet
         /\ \E p \in Programs : Working' = Working \union {p}
         /\ HelperStarts \/ DriverStarts => retained
         /\ HelperDeclares => UNCHANGED <<at["driver"], at["writer"]>>
  <1> USE DEF IInv, TypeOK, Programs, NotRunning, Running, Working, UnitFollows, Goes, Starts, Places,
        Beginning, Middle, Closing, DescendantsFollow, Launched, Terminated, RootWatches,
        Observe, Occupants, LauncherIs, HelperIs, DriverIs, WriterIs
  <1>1. CASE HelperDeclares
    <2>1. ~quiet /\ quiet' = quiet  BY <1>1 DEF HelperDeclares
    <2>2. Working' = Working \union {"helper"}  BY <1>1 DEF HelperDeclares
    <2>3. UNCHANGED <<at["driver"], at["writer"]>>  BY <1>1 DEF HelperDeclares
    <2> QED  BY <1>1, <2>1, <2>2, <2>3 DEF HelperDeclares, HelperStarts, DriverStarts
  <1>2. CASE HelperStarts
    <2>1. retained /\ ~quiet /\ quiet' = quiet  BY <1>2 DEF HelperStarts
    <2>2. Working' = Working \union {"driver"}  BY <1>2 DEF HelperStarts
    <2> QED  BY <1>2, <2>1, <2>2 DEF HelperDeclares, HelperStarts
  <1>3. CASE DriverStarts
    <2>1. "driver" \in unit /\ "driver" \in Occupants(unit)  BY <1>3 DEF DriverStarts
    <2>2. ~quiet /\ quiet' = quiet  BY <1>3, <2>1 DEF DriverStarts
    <2>3. retained  BY <1>3, <2>2 DEF DriverStarts
    <2>4. Working' = Working \union {"writer"}  BY <1>3, <2>1 DEF DriverStarts
    <2>5. HelperDeclares => UNCHANGED <<at["driver"], at["writer"]>>
      BY <1>3 DEF HelperDeclares, DriverStarts
    <2> QED  BY <2>2, <2>3, <2>4, <2>5
  <1> QED  BY <1>1, <1>2, <1>3 DEF Admitted

\* A driver or a writer is admitted only while the root holds its reference to
\* the unit.
THEOREM AdmissionAlwaysWatched == Spec => AdmissionIsWatched
  <1> DEFINE Watched ==
        \A p \in {"driver", "writer"} : at[p] = "unstarted" /\ at'[p] # "unstarted" => retained
  <1>1. ASSUME IInv, Next PROVE Watched
    <2>1. CASE Admitted  BY <1>1, <2>1, AdmittedInTime DEF Admitted
    <2>2. CASE ~Admitted  BY <1>1, <2>2, OnlyTheseAdmit
    <2> QED  BY <2>1, <2>2
  <1>2. IInv /\ [Next]_vars => [Watched]_vars  BY <1>1
  <1> QED  BY <1>2, Invariance, PTL DEF AdmissionIsWatched, Spec

\* The exercise keeps the promise of an observable unit: once it was seen empty
\* nobody works in it and nobody is admitted, in all four modes.
THEOREM RefinesQuietUnit == Spec => ImplementsQuietUnit
  <1> USE DEF Promise!QuietNext, Promise!Admit, Promise!End, Promise!Report
  <1>1. Init => Promise!QuietInit
    BY DEF Init, Promise!QuietInit, Programs, Running, NotRunning
  <1>2. ASSUME IInv, Next
        PROVE  Promise!QuietNext \/ UNCHANGED <<Working, quiet>>
    <2>1. CASE Admitted
      <3>1. PICK p \in Programs : Working' = Working \union {p}  BY <1>2, <2>1, AdmittedInTime
      <3> QED  BY <1>2, <2>1, <3>1, AdmittedInTime DEF Working
    <2>2. CASE RootSeesEmpty
      <3>1. Working = {}
        BY <1>2, <2>2 DEF RootSeesEmpty, IInv, UnitFollows, Working, Running, NotRunning, Observe,
             Occupants, DriverIs, WriterIs
      <3>2. Working' = Working /\ quiet' = TRUE  BY <2>2 DEF RootSeesEmpty, Working, Running
      <3> QED  BY <3>1, <3>2 DEF Working
    <2>3. CASE ~Admitted /\ ~RootSeesEmpty
      <3>1. Working' \subseteq Working  BY <1>2, <2>3, OnlyTheseAdmit
      <3>2. quiet' = quiet
        BY <1>2, <2>3 DEF Admitted, Next, LauncherNext, HelperNext, DriverNext, WriterNext,
             RootNext, LauncherStarts, LauncherForwards, LauncherEnds, HelperIsAcknowledged,
             HelperDoubts, HelperAsks, HelperIsBusy, HelperReleases, HelperAwaits, HelperRetires,
             HelperReports, HelperEnds, DriverAwaits, DriverEnds, WriterWrites, WriterEnds,
             RootStarts, RootReadsReference, RootAwaitsLauncher, RootOpens, RootAcknowledges,
             RootReadsResult, RootTerminates, RootCloses, RootAwaitsHelper, RootReaps,
             RootVerifies, Sends, Leaves, AwaitsChild
      <3>3. Working \subseteq Programs
        BY <1>2 DEF Working, IInv, UnitFollows, Programs
      <3>4. Working' = Working \ (Working \ Working')  BY <3>1
      <3>5. Promise!End(Working \ Working')  BY <3>2, <3>4 DEF Working
      <3> QED  BY <3>3, <3>5
    <2> QED  BY <2>1, <2>2, <2>3
  <1>3. IInv /\ [Next]_vars => [Promise!QuietNext]_<<Working, quiet>>
    <2>1. UNCHANGED vars => UNCHANGED <<Working, quiet>>  BY DEF vars, Working, Running
    <2> QED  BY <1>2, <2>1
  <1> QED
    BY <1>1, <1>3, Invariance, PTL DEF Spec, ImplementsQuietUnit, Promise!QuietSpec, Working
=============================================================================
