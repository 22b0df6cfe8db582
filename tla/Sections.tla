------------------------------ MODULE Sections ------------------------------
(* The sections of the conformance suite in the order they are run            *)
(* (conformance/src/suite.cpp), and the blocks of them of which less holds.   *)
EXTENDS FsSection, ProcessSection, RegionSections, ContextSections

\* suite.cpp's order.
Suite == <<VersionSection, StreamSection, MemorySection, EnvSection, TimeSection, RandomSection,
           FsSection, ProcessSection, TaskSection, ExecSection, TerminalSection, NetSection,
           DatagramSection, SpaceSection, TimeoutSection, MapSection, RegionSection, ProfSection,
           DebugSection, TerminationSection>>

\* Blocks that go on with what they were told they did not obtain: task.cpp joins
\* by number what did not start (identities), and process.cpp removes a name
\* through a directory it did not open (grants).
Unchecked == {identities, grants}

\* What is left held: the region sealed for ever, the contexts that were not joined.
Unreleased == {"sealed", "t2", "t3", "t4"}

\* Blocks that are left without a word where they obtain less than they need.
SaysNothing ==
  {transfers_at_an_offset, held_open, released_handle, attenuation,
   argument_vector, ending_as_requested, known_of_an_ended_one, confinement, page_faults,
   published_twice, touches, from_a_file, rendezvous, refused_ranges,
   part_of_a_file, private_region, shared_regions, refused_regions, a_fault_is_reported}
=============================================================================
