------------------------------- MODULE Copies -------------------------------
(* The copies the suite starts of itself (conformance/src/sections/child.cpp):*)
(* what each does when it was started for an errand, and how one is started.  *)
(* A copy is told its errand by its argument vector and answers by the status *)
(* it ends with; locate_self reaches nothing but names and is left out.       *)
EXTENDS Calls

grant_marker_file == "okc-grant-marker"
kMapShort         == "okc-conformance-map-short.tmp"
kConfined         == "okc-conformance-confined.tmp"

-----------------------------------------------------------------------------
\* What a copy asks of its own process.
Itself(op, want, v) == <<[Step(op) EXCEPT !.want = want, !.as = v]>>
ElseExit(v, k)      == Unless(v, <<Exit(k)>>)

\* 36 where the first element of its vector is not the one it expects.
exit_with_33 == Itself("own_name", {Ok}, "self") \o ElseExit("self", 36) \o <<Exit(33)>>

exit_after_writing == <<Exit(34)>>
abort_with_message == <<Step("abort")>>

\* The request to end is taken over and awaited for two seconds: 98 where none
\* came; 99 where ending as requested returns.
end_as_requested ==
  Itself("take_over", {Ok}, "word") \o Itself("await_request", {Ok}, "asked")
  \o ElseExit("asked", 98) \o <<Step("end_as_requested"), Exit(99)>>

wait_to_be_terminated == <<Step("wait_for_ever")>>

\* One of the two granted directories: its place, its name, its marker.
granted(g) ==
  <<Open("f", g, grant_marker_file, {"read"})>> \o ElseExit("f", 43)
  \o <<Into(Read("f", 1), "marker"), Close("f")>> \o ElseExit("marker", 44)

report_grants ==
  Itself("preopens", {2}, "two") \o ElseExit("two", 40)
  \o granted("grant_a") \o granted("grant_b") \o <<Exit(0)>>

report_no_preopens == Itself("preopens", {0}, "none") \o IfElse("none", <<Exit(0)>>, <<Exit(46)>>)

\* A file of three alignments is mapped and shortened beneath its region; the
\* region and the file go before the copy ends, unless the access is a fault.
map_beyond_shortened ==
  <<Open("f", "here", kMapShort, {"read", "write", "create", "truncate"})>> \o ElseExit("f", 100)
  \o Repeat(<<Into(Write("f", 3), "written")>> \o ElseExit("written", 56))
  \o <<MapRegion("f", "region")>> \o ElseExit("region", 57)
  \o <<May("shortens")>>
  \o Unless("shortens", <<Close("region"), Close("f"), Exit(50)>>)
  \o <<Truncate("f", 1), May("reads_zero")>>
  \o Unless("reads_zero", <<Step("fault")>>)
  \o <<Close("region"), Close("f"), Exit(52)>>

\* The null device at the three positions: 61, 62, 63 tell the one it is not at.
read_and_write_null ==
  Itself("null_device", {Ok}, "in") \o ElseExit("in", 61)
  \o Itself("null_device", {Ok}, "out") \o ElseExit("out", 62)
  \o Itself("null_device", {Ok}, "err") \o ElseExit("err", 63) \o <<Exit(60)>>

\* 40 and the preference it was started with.
report_resources ==
  Itself("preference", {2}, "economy") \o Itself("preference", {1}, "performance")
  \o If("economy", <<Exit(42)>>) \o If("performance", <<Exit(41)>>) \o <<Exit(40)>>

\* 70 where a file may not be created in the first directory it was given. A copy
\* is refused nothing else, so that the 72 of any other error is left out.
write_in_first_grant ==
  Itself("preopens", {1}, "first") \o ElseExit("first", 72)
  \o <<[Open("f", "grant_a", kConfined, {"write", "create"}) EXCEPT !.as = "refused", !.want = {Permission}]>>
  \o If("refused", <<Exit(70)>>)
  \o <<Close("f"), Remove("grant_a", kConfined), Exit(71)>>

\* Four parts of memory are written and held twenty seconds; or one after
\* another until the unit's limit ends the copy.
hold_memory ==
  Repeat(Repeat(<<Step("grow")>>)) \o <<Step("wait_long"), Exit(77)>>
grow_memory == Repeat(<<Step("grow")>>) \o <<Step("wait_long"), Exit(77)>>

fault == <<Step("fault"), Exit(50)>>

\* The entry of a context started in a copy of the space (space.cpp).
entry_with_argument    == <<Exit(7)>>
entry_without_argument == <<Exit(1)>>

errands ==
  [exit_with_33 |-> exit_with_33, exit_after_writing |-> exit_after_writing,
   abort_with_message |-> abort_with_message, end_as_requested |-> end_as_requested,
   wait_to_be_terminated |-> wait_to_be_terminated, report_grants |-> report_grants,
   report_no_preopens |-> report_no_preopens, map_beyond_shortened |-> map_beyond_shortened,
   read_and_write_null |-> read_and_write_null, report_resources |-> report_resources,
   write_in_first_grant |-> write_in_first_grant, hold_memory |-> hold_memory,
   grow_memory |-> grow_memory, fault |-> fault,
   entry_with_argument |-> entry_with_argument, entry_without_argument |-> entry_without_argument]

-----------------------------------------------------------------------------
\* Starting one. "child" tells whether it started; v whether it was waited for
\* and ended in one of the ways wanted.
start_copy_running(errand) == <<Spawn("child", errand, {})>>

awaited(want, v) == If("child", <<Into(Wait("child", want), v), Close("child")>>)
start_copy(errand, want, v) == start_copy_running(errand) \o awaited(want, v)

start_copy_in_unit(errand) == <<Spawn("child", errand, {"job"})>>

\* As the directories granted to it, "grant_a" and "grant_b"; or none.
start_copy_granting(errand, how, want, v) ==
  <<Spawn("child", errand, {"grant_dir"} \cup how)>> \o awaited(want, v)
\* With flags, and what was granted where it is confined; start_refusal observes
\* the answer the start itself gave.
start_copy_with(errand, how, want, v) == <<Spawn("child", errand, how)>> \o awaited(want, v)
start_refusal(errand, how, answer) == Obsd(Spawn("p", errand, how), {answer})
=============================================================================
