-------------------------- MODULE ContextSections --------------------------
(* The rest of the sections: what an implementation says of itself, streams,  *)
(* parameters, time, randomness, contexts, connections, displays, measures,   *)
(* and how a program ends (conformance/src/sections/*.cpp). An enquiry that   *)
(* reaches no state is an Asked. A context is obtained when it starts and     *)
(* released when it is joined.                                                *)
EXTENDS Copies

kRendezvous == "okc-rendezvous"

\* version.cpp, stream.cpp
VersionSection == <<Asked(4), Asked(1)>>
StreamSection  == <<Asked(1), Asked(1), Asked(3), Asked(3), Asked(1)>>

\* env.cpp: what was supplied decides what can be asked.
names_of_the_image == Asked(6)
arguments ==
  Asked(3) \o Claim("long_name", Asked(1), <<Unobserved>>) \o Asked(1)
variables ==
  Asked(1) \o Claim("set_by_the_runner", Asked(1), <<Unobserved>>)
  \o Claim("supplied", Asked(1), <<Unobserved>>) \o Asked(1)
EnvSection == <<names_of_the_image, arguments, variables, Asked(2), Asked(2), Asked(2)>>

\* time.cpp, random.cpp
wall_time == Claim("wall_available", Asked(1), <<Unobserved>>)
TimeSection == <<Asked(1), Asked(1), Asked(1), wall_time, Asked(2), Asked(1), Asked(1)>>

a_fill    == Asked(1) \o Claim("filled", Asked(1), <<>>)
two_fills == Claim("filled", Asked(1), <<Unobserved>>)
RandomSection == <<a_fill, two_fills, Asked(1)>>

-----------------------------------------------------------------------------
\* task.cpp. The mutex it contends for is a module of its own (CounterTest).
a_context ==
  <<Obs(Obtain("t"))>> \o If("t", <<Use("t"), Obs(Use("t")), Obs(Close("t"))>> \o Asked(2))

\* Bounds of its stack, of a started context's, and of one with a least size.
stack_bounds ==
  Asked(3)
  \o <<Obtain("t")>> \o IfElse("t", <<Close("t"), Observe({"t"}), Observe({"t"})>>, <<Unobserved>>)
  \o <<Obtain("sized")>>
  \o IfElse("sized", <<Close("sized"), Observe({"sized"}), Observe({"sized"})>>, <<Unobserved>>)
  \o <<Obtain("plain")>> \o IfElse("plain", <<Obs(Close("plain"))>>, <<Observe({"plain"})>>)

\* Four contexts are started, and as many as started are joined, from the first
\* on: with one refused a later one is not (of the two blocks that do this, this
\* one; the other is CounterTest). "one" to "four" tell that so many started.
Noted(vs, v) == Into([Step("observe") EXCEPT !.how = vs], v)
Counted(t) ==
  <<Obtain(t)>>
  \o If(t, <<Noted({"three"}, "four"), Noted({"two"}, "three"), Noted({"one"}, "two"), Noted({}, "one")>>)
identities ==
  Counted("t1") \o Counted("t2") \o Counted("t3") \o Counted("t4")
  \o If("one", <<Close("t1")>>) \o If("two", <<Close("t2")>>)
  \o If("three", <<Close("t3")>>) \o If("four", <<Close("t4")>>)
  \o <<Observe({"four"})>>

a_wait_that_elapses == Asked(1) \o Claim("wait_timeout", Asked(2), <<Unobserved>>)

its_own_storage ==
  Claim("thread_local",
    <<Obtain("t")>> \o IfElse("t", <<Close("t"), Observe({"t"})>>, <<Unobserved>>), <<Unobserved>>)

its_claim_on_processors ==
  Asked(6) \o <<Obtain("t")>>
  \o IfElse("t", <<Close("t")>> \o Claim("priority", Repeat(Repeat(<<Observe({"t"})>>)), <<Observe({"t"})>>),
            <<Unobserved>>)
  \o Asked(2)

contexts_many_times ==
  <<Obtain("t")>> \o If("t", <<Close("t"), Obtain("t")>> \o If("t", <<Close("t")>>)) \o <<Observe({"t"})>>
cost_of_contexts == Repeat(<<Obtain("t")>> \o If("t", <<Close("t")>>))

TaskSection ==
  <<a_context, stack_bounds, identities, a_wait_that_elapses, its_own_storage,
    its_claim_on_processors, contexts_many_times, cost_of_contexts>>

-----------------------------------------------------------------------------
\* net.cpp. What was opened is closed on every way out.
a_listener ==
  <<Obtain("listener")>> \o Unless("listener", <<Unobserved, Leave>>)
  \o <<Observe({"listener"}), Into(Use("listener"), "bound"), Observe({"bound"}), Observe({"bound"})>>
  \o Unless("bound", <<Close("listener"), Leave>>)
  \o <<Obs(Obtain("client"))>> \o Unless("client", <<Close("listener"), Leave>>)
  \o <<Obs(Obtain("server"))>> \o Unless("server", <<Close("client"), Close("listener"), Leave>>)

bytes_cross == <<Obs(Use("client")), Obs(Use("server"))>>

\* A write on the connection another context's read waits on.
write_beside_a_read ==
  <<Obtain("reader")>> \o If("reader", <<Obtain("releaser")>>)
  \o IfElse("releaser",
       <<Obs(Use("client")), Use("server"), Close("releaser"), Close("reader")>>,
       If("reader", <<Use("server"), Close("reader")>>) \o <<Unobserved>>)

half_closure ==
  <<Obs(Use("server"))>>
  \o Claim("halfclose", <<Obs(Use("client")), Obs(Use("server"))>>, <<Obs(Answer(NotSupported))>>)

\* Ending the read direction ends a read waiting in it; where it does not, the
\* peer's end does, so that the waiter is joined.
end_of_the_read_direction ==
  Claim("halfclose",
    <<Obtain("near")>> \o If("near", <<Obtain("far")>>)
      \o IfElse("far",
           <<Obtain("waiter")>>
           \o IfElse("waiter",
                <<Into(Use("far"), "shut"), May("ended")>> \o Unless("ended", <<Use("near")>>)
                \o <<Close("waiter"), Observe({"shut"}), Obs(Use("far"))>>,
                <<Unobserved>>),
           <<Unobserved>>)
      \o If("near", <<Close("near")>>) \o If("far", <<Close("far")>>),
    <<>>)

ends_of_the_connection == <<Close("server"), Close("client"), Close("listener"), Obs(Answer(Invalid))>>

\* A listener at a name is a node there.
rendezvous ==
  Claim("local_endpoint",
    <<Remove("here", kRendezvous), Obs(Open("l", "here", kRendezvous, {"create", "exclusive"}))>>
      \o If("l",
           <<Obsd(Open("second", "here", kRendezvous, {"create", "exclusive"}), {Exists}), Obs(Obtain("c"))>>
           \o If("c",
                <<Obtain("s")>> \o If("s", <<Obs(Use("s")), Obs(Bad("s", NotSupported)), Close("s")>>) \o <<Close("c")>>)
           \o <<Close("l")>>)
      \o <<Remove("here", kRendezvous), Obsd(Open("none", "here", kRendezvous, ReadOnly), {NotFound})>>,
    <<Unobserved>>)

NetSection ==
  <<a_listener, bytes_cross, write_beside_a_read, half_closure, end_of_the_read_direction,
    ends_of_the_connection, rendezvous>>

-----------------------------------------------------------------------------
\* datagram.cpp. A message is received by a call that waits for one.
two_endpoints ==
  <<Obtain("receiver")>> \o Unless("receiver", <<Unobserved, Leave>>)
  \o <<Observe({"receiver"}), Into(Use("receiver"), "bound"), Observe({"bound"})>>
  \o Unless("bound", <<Close("receiver"), Leave>>)
  \o <<Obs(Obtain("sender"))>> \o Unless("sender", <<Close("receiver"), Leave>>)
a_message_sent_whole == <<Obs(Use("sender")), Obs(Use("receiver")), Obs(Use("receiver"))>>
a_message_truncated ==
  <<Into(Use("sender"), "sent")>> \o IfElse("sent", <<Obs(Use("receiver"))>>, <<Unobserved>>)
ends_of_both == <<Close("sender"), Close("receiver"), Obs(Answer(Invalid))>>
DatagramSection == <<two_endpoints, a_message_sent_whole, a_message_truncated, ends_of_both>>

\* space.cpp. A context in a copy of the space is waited for as a program.
context_in_a_copy ==
  <<Spawn("p", "entry_with_argument", {})>> \o Unless("p", <<Unobserved, Leave>>)
  \o <<Observe({"p"}), Into(Wait("p", {7}), "seven"), Observe({"seven"}), Observe({"seven"}), Observe({"seven"}),
       Close("p"), Observe({"seven"})>>
second_context ==
  <<Spawn("p", "entry_without_argument", {})>>
  \o IfElse("p", <<Obs(Wait("p", {1})), Close("p")>>, <<Unobserved>>)
SpaceSection == <<context_in_a_copy, second_context>>

\* timeout.cpp. A bounded read may expire.
a_bounded_read == Asked(1) \o Claim("expired", Asked(1), <<>>)
TimeoutSection == <<Asked(1), a_bounded_read, Asked(1), Asked(1)>>

-----------------------------------------------------------------------------
\* terminal.cpp. The display is put back as it was found after every change.
an_interactive_stream ==
  Claim("interactive", Asked(2), <<Unobserved, Obs(Answer(NotSupported)), Leave>>)
mode_read_back     == <<Obs(Mode({}))>> \o Asked(1)
mode_unassigned    == <<Obs(Mode({})), Mode({})>>
mode_passed(what)  == <<Obs(Mode({what}))>> \o Asked(1) \o <<Mode({})>> \o Asked(1)
mode_pass_control  == mode_passed("pass_control")
mode_pass_input    == mode_passed("pass_input")
display_size       == Asked(1) \o Claim("has_size", Asked(1), <<>>) \o Claim("has_mode", Asked(1), <<>>) \o <<Mode({})>>
TerminalSection ==
  <<an_interactive_stream, mode_read_back, mode_unassigned, mode_pass_control, mode_pass_input, display_size>>

\* prof.cpp, debug.cpp. A copy that faults is started with the far end of a
\* channel, awaited, and what it wrote is read after that.
a_counter_and_a_phase == Asked(1) \o <<Obs(Answer(Ok)), Obs(Answer(Ok))>> \o Asked(1)
samples ==
  Claim("sampling",
    <<Obs(Answer(Invalid)), Obs(Obtain("sampling")), Obs(Bad("sampling", Again)), Obs(Use("sampling")),
      Obs(Free("sampling"))>>,
    <<Obs(Answer(NotSupported))>>)
ProfSection == <<a_counter_and_a_phase, samples>>

an_address_is_named == Asked(1) \o Claim("named", Asked(3), <<>>) \o Asked(2)
a_fault_is_reported ==
  Claim("channel",
    <<[ObtainPair("mine", "theirs") EXCEPT !.how = {"channel"}]>>
      \o If("mine",
           start_copy_with("fault", {}, {Terminated}, "faulted")
           \o <<Close("theirs"), Use("mine"), Close("mine"),
                Observe({"child", "faulted"}), Observe({"child", "faulted"})>>),
    <<Unobserved>>)
DebugSection == <<an_address_is_named, a_fault_is_reported>>

\* abort.cpp. How a program ends, observed in copies.
ends_in_a_copy(errand, want) ==
  start_copy(errand, want, "as_it_should") \o IfElse("child", <<Observe({"as_it_should"})>>, <<Unobserved>>)
exit_with_a_status == ends_in_a_copy("exit_with_33", {33})
exit_at_once       == ends_in_a_copy("exit_after_writing", {34})
abort_ends_it      == ends_in_a_copy("abort_with_message", {Terminated} \cup ((1..99) \ {33, 34}))
TerminationSection == <<exit_with_a_status, exit_at_once, abort_ends_it>>
=============================================================================
