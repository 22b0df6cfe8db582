--------------------------- MODULE ProcessSection ---------------------------
(* The section that examines openkal.process                                  *)
(* (conformance/src/sections/process.cpp), one definition for each block.     *)
(* What the capability word claims of units is one claim, "job": a block made *)
(* under two claims of them is made where an environment claims both.         *)
EXTENDS Copies

kNotProgram == "okc-conformance-not-a-program.tmp"
kGrantA     == "okc-grant-a.tmp"
kGrantB     == "okc-grant-b.tmp"

\* A program ends by itself with something else than success, or is ended.
NotSuccess == {Terminated, Limited} \cup 1..99

\* Starting, awaiting, and the status a program reports.
started_and_awaited ==
  start_copy("exit_with_33", {33}, "as_returned")
  \o IfElse("child",
       <<Observe({"child"})>> \o Claim("exit_status", <<Observe({"as_returned"})>>, <<Unobserved>>),
       <<Unobserved>>)

\* The first element of the vector, expected and not; nothing is said of a copy
\* that could not be started.
argument_vector ==
  start_copy("exit_with_33", {33}, "own") \o If("child", <<Observe({"own"})>>)
  \o <<Spawn("child", "exit_with_33", {"other_name"})>> \o awaited({36}, "another")
  \o If("child", <<Observe({"another"})>>)

\* A mutant: the copy is awaited without having been asked to end.
terminationUnrequested ==
  Claim("terminate",
    start_copy_running("wait_to_be_terminated")
      \o IfElse("child", <<Into(Wait("child", NotSuccess), "ended"), Observe({"ended"}), Close("child")>>, <<Unobserved>>),
    <<Unobserved>>)

\* A copy that waits for ever is terminated, and awaited.
termination ==
  Claim("terminate",
    start_copy_running("wait_to_be_terminated")
      \o IfElse("child",
           <<Into(Terminate("child"), "requested"), Into(Wait("child", NotSuccess), "ended"),
             Observe({"requested"}), Observe({"ended"}), Close("child")>>,
           <<Unobserved>>),
    <<Unobserved>>)

\* Ending as a request would have: without one it returns; a copy that took the
\* request over ends as the request would have ended it, or was never asked.
ending_as_requested ==
  <<Obs(Answer(Invalid))>>
  \o Claim("stop_requested",
       start_copy_running("end_as_requested")
         \o If("child",
              <<Terminate("child"), Into(Wait("child", {98}), "unasked")>>
              \o IfElse("unasked", <<Unobserved>>, <<Obs(EndedAs("child", {Terminated}))>>)
              \o <<Close("child")>>),
       <<>>)

\* What is known of the running program, and of one found by its identifier.
known_of_itself ==
  <<Obs(Obtain("self"))>>
  \o If("self",
       <<Obs(Use("self")), Obs(Use("self")), Obs(Use("self")), Obs(Bad("self", Invalid))>>
       \o Claim("info_memory", <<Obs(Use("self"))>>, <<Unobserved>>)
       \o <<Obs(Bad("self", Invalid))>>
       \o Claim("open_id",
            <<Obs(Obtain("again"))>>
            \o If("again", <<Use("again"), Obs(Use("again")), Obs(Bad("again", NotSupported)), Close("again")>>),
            <<Unobserved>>)
       \o <<Close("self")>>)

\* What is known of a program that ended, while its handle is held.
known_of_an_ended_one ==
  start_copy_running("exit_with_33")
  \o If("child", <<Wait("child", {33}), Obs(Use("child")), Obs(Use("child")), Close("child")>>)

\* A start that did not happen is reported, and by its reason.
no_such_program == <<start_refusal("no such program", {}, NotFound)>>

not_a_program ==
  <<Open("f", "here", kNotProgram, Afresh)>>
  \o IfElse("f",
       <<Write("f", 3), Close("f")>>
       \o Claim("executable",
            <<Mark("here", kNotProgram, {"executable"}), start_refusal("not a program", {}, NotProgram)>>,
            <<Obsd(Spawn("p", "not a program", {}), Errors)>>)
       \o <<Remove("here", kNotProgram)>>,
       <<Unobserved>>)

channel(mine, theirs) == [ObtainPair(mine, theirs) EXCEPT !.how = {"channel"}]

\* The pair of a channel: the end of input is what releasing the far end gives.
a_channel ==
  <<May("channel"), Obs(channel("mine", "theirs"))>>
  \o If("mine", <<Obs(Use("theirs")), Obs(Use("mine")), Close("theirs"), Obs(Use("mine")), Close("mine")>>)
  \o IfElse("channel", <<Observe({"mine"})>>, <<Obs(Answer(NotSupported))>>)

\* What a unit uses: asked until the copy has written enough or five seconds
\* passed; then the unit is ended and its program awaited.
what_a_unit_uses ==
  Claim("job",
    start_copy_in_unit("hold_memory")
      \o IfElse("child",
           <<Into(AwaitUse("unit", 3), "used"), Observe({"used"}), Observe({"used"}),
             UnitTerminate("unit"), Obs(Wait("child", {Terminated}))>>
           \o Claim("info_memory", <<Obs(Use("child"))>>, <<Unobserved>>)
           \o <<Close("child"), Close("unit")>>,
           <<Unobserved>>),
    <<Obs(Answer(NotSupported))>>)

a_limit_on_it ==
  Claim("job",
    start_copy_in_unit("grow_memory")
      \o IfElse("child",
           <<Obs(Bad("unit", Invalid)), Obs(UnitLimit("unit")), Obs(Wait("child", {Limited})),
             Close("child"), Close("unit")>>,
           <<Unobserved>>),
    <<Obs(Answer(NotSupported))>>)

\* A flag that is not claimed refuses rather than starting something else.
unclaimed_flags ==
  Claim("bound_lifetime", <<Unobserved>>, <<start_refusal("exit_with_33", {"bound_lifetime"}, NotSupported)>>)
  \o Claim("one_string", <<Unobserved>>, <<start_refusal("exit_with_33", {"one_string"}, NotSupported)>>)

the_null_device ==
  Claim("null_streams",
    start_copy_with("read_and_write_null", {"null_streams"}, {60}, "discarded")
      \o <<Observe({"child", "discarded"})>>
      \o Claim("channel", <<channel("mine", "theirs")>>, <<>>)
      \o IfElse("mine",
           <<[Spawn("child", "exit_with_33", {"null_streams", "placed"}) EXCEPT !.as = "invalid", !.want = {Invalid}],
             Close("theirs"), Close("mine"), Observe({"invalid"})>>,
           <<Unobserved>>),
    <<start_refusal("exit_with_33", {"null_streams"}, NotSupported)>>)

a_unit_that_cannot_be_formed ==
  Claim("job", <<Unobserved>>,
        <<start_refusal("exit_with_33", {"job"}, NotSupported), Obs(Answer(Ok))>>)

\* A directory to grant, with its marker; v tells that all of it was made.
made(g, name, v) ==
  <<OpenDir(g, "here", name)>>
  \o If(g, <<Open("f", g, grant_marker_file, Afresh)>> \o If("f", <<Into(Write("f", 1), v), Close("f")>>))

\* The second is made only after the first; both names are removed, through
\* the handles and then from the working directory.
grants ==
  Claim("grant_dir",
    <<Mkdir("here", kGrantA)>> \o made("grant_a", kGrantA, "made_a")
      \o <<Mkdir("here", kGrantB)>> \o If("made_a", made("grant_b", kGrantB, "made_b"))
      \o IfElse("made_b",
           start_copy_granting("report_grants", {}, {0}, "in_order") \o <<Observe({"child", "in_order"})>>,
           <<Unobserved>>)
      \o start_copy_granting("report_no_preopens", {"no_grants"}, {0}, "none") \o <<Observe({"child", "none"})>>
      \o <<Remove("grant_a", grant_marker_file)>> \o If("grant_a", <<Close("grant_a")>>) \o <<Remove("here", kGrantA)>>
      \o <<Remove("grant_b", grant_marker_file)>> \o If("grant_b", <<Close("grant_b")>>) \o <<Remove("here", kGrantB)>>,
    <<start_refusal("exit_with_33", {"grant_dir"}, NotSupported)>>)

\* A program reads the preference it was started with, or its caller's.
reported(how, status, v) == start_copy_with("report_resources", how, {status}, v) \o <<Observe({"child", v})>>
resource_preference ==
  reported({"economy"}, 42, "economy") \o reported({"performance"}, 41, "performance")
  \o reported({"balanced"}, 40, "balanced") \o reported({}, 40, "callers")
  \o <<start_refusal("report_resources", {"economy", "performance"}, Invalid)>>

\* A confined program creates nothing in a directory granted read-only.
confinement ==
  Claim("confine",
    Claim("attenuate",
      <<Attenuate("grant_a", "here", {"read_only"})>>
        \o If("grant_a",
             start_copy_with("write_in_first_grant", {"confine"}, {70}, "confined")
             \o <<Observe({"child", "confined"}), Close("grant_a")>>),
      <<Unobserved>>),
    <<start_refusal("exit_with_33", {"confine"}, NotSupported)>>)

page_faults ==
  <<Obtain("self")>>
  \o If("self",
       <<Into(Use("self"), "before"), Obtain("p")>> \o If("p", <<Use("p")>>)
       \o Claim("info_faults", <<Observe({"before"})>>, <<Unobserved>>)
       \o If("p", <<Close("p")>>) \o <<Close("self")>>)

\* Started and awaited many times; and again for what it costs.
many_times ==
  start_copy("exit_with_33", {33}, "all") \o If("all", start_copy("exit_with_33", {33}, "again"))
  \o <<Observe({"child", "all", "again"})>>
cost == start_copy("exit_with_33", {33}, "ended") \o If("child", start_copy("exit_with_33", {33}, "ended"))

ProcessSection ==
  <<started_and_awaited, argument_vector, termination, ending_as_requested, known_of_itself,
    known_of_an_ended_one, no_such_program, not_a_program, a_channel, what_a_unit_uses, a_limit_on_it,
    Asked(6), unclaimed_flags, the_null_device, a_unit_that_cannot_be_formed, grants,
    resource_preference, confinement, page_faults, many_times, cost>>
=============================================================================
