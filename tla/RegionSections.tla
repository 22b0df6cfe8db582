--------------------------- MODULE RegionSections ---------------------------
(* The sections that examine what a program obtains of memory: openkal.memory,*)
(* openkal.region, openkal.exec and openkal.map                               *)
(* (conformance/src/sections/{memory,region,exec,map}.cpp).                   *)
(* What a region holds is left out: writing and reading it is a Use.          *)
EXTENDS Copies

kFile    == "okc-conformance-exec.tmp"
kMapName == "okc-conformance-map.tmp"

\* A region is obtained, used and released, observed where it is; or the refusal
\* of one that is not.
obtained(r, steps) == <<Obs(Obtain(r))>> \o If(r, steps \o <<Close(r)>>)

\* A file of several blocks is written; it is released whatever came of that,
\* and is left where it is.
make_file(name) ==
  <<Open("mk", "here", name, Afresh)>>
  \o If("mk", <<Into(Write("mk", 3), "made")>> \o If("made", <<Into(Write("mk", 6), "made")>>) \o <<Close("mk")>>)

-----------------------------------------------------------------------------
\* openkal.memory. Where two regions are wanted, or one whose refusal is an
\* observation of its own, what was not obtained is freed as well.
granularity == Asked(2) \o obtained("p", <<>>)
whole_region == obtained("p", <<Obs(Use("p"))>>)
alignments == Repeat(Repeat(obtained("p", <<>>)))
two_live_regions ==
  <<Obtain("a"), Obtain("b"), Observe({"a", "b"}), Free("a"), Free("b")>>
stated_alignment == <<Obs(Obtain("p")), Free("p")>>
obtained_many_times ==
  <<Obtain("p")>> \o If("p", <<Use("p"), Close("p"), Obtain("p")>> \o If("p", <<Use("p"), Close("p")>>))
  \o <<Observe({"p"}), Obs(Obtain("big")), Free("big")>>
what_can_be_given == Asked(2) \o Claim("available_bytes", Asked(1), <<>>) \o <<Obs(Answer(Invalid))>>
cost_of_memory == Repeat(<<Obtain("p"), Free("p")>>)

MemorySection ==
  <<granularity, whole_region, alignments, two_live_regions, stated_alignment,
    obtained_many_times, what_can_be_given, cost_of_memory>>

-----------------------------------------------------------------------------
\* openkal.region.
Uses(r, n) == [i \in 1..n |-> Obs(Use(r))]

backed_at_once == obtained("p", Uses("p", 9))
backed_in_part ==
  obtained("p", <<Into(Use("p"), "committed"), Observe({"committed"})>> \o If("committed", Uses("p", 2)))
  \o obtained("q", <<>>)
refused_ranges ==
  <<Obs(Answer(Invalid)), Obs(Answer(Invalid)), Obs(Answer(Invalid)), Obtain("p")>>
  \o If("p", <<Obs(Bad("p", Invalid)), Close("p")>>)
ranges_many_times ==
  Asked(1) \o <<Obtain("p")>>
  \o If("p", <<Use("p"), Close("p"), Obtain("p")>> \o If("p", <<Use("p"), Close("p")>>)) \o <<Observe({"p"})>>
cost_of_ranges ==
  <<Obtain("p")>> \o If("p", <<Close("p"), Obtain("p")>> \o If("p", <<Close("p")>>))
  \o <<Obtain("p")>> \o If("p", <<Use("p"), Close("p")>>)

RegionSection == <<backed_at_once, backed_in_part, refused_ranges, ranges_many_times, cost_of_ranges>>

-----------------------------------------------------------------------------
\* openkal.exec. A program that may not execute memory says so, and the rest of
\* the section is left.
published_and_executed ==
  Asked(1)
  \o Claim("available", <<Obs(Obtain("p"))>>, <<Obs(Answer(Ok)), Unobserved, Leave>>)
  \o Unless("p", <<Leave>>)
  \o <<Obs(Use("p")), Into(Use("p"), "published"), Observe({"published"})>>
  \o Unless("published", <<Close("p"), Leave>>)
  \o <<Obs(Use("p")), Close("p")>>

published_twice ==
  Claim("republish", <<Obtain("q")>> \o If("q", <<Obs(Use("q")), Close("q")>>), <<Unobserved>>)

part_of_a_region ==
  Asked(2) \o obtained("r", <<Obs(Bad("r", Invalid))>> \o Uses("r", 3))

\* A region's address, released, is given again; held, it is refused.
at_an_address ==
  <<Obtain("r")>> \o Unless("r", <<Unobserved, Return>>)
  \o <<Obs(Bad("r", Invalid))>>
  \o Claim("place", <<>>, <<Close("r"), Obs(Answer(NotSupported)), Return>>)
  \o <<Obs(Bad("r", Exists)), Obs(Use("r")), Close("r"), Obs(Obtain("again"))>>
  \o If("again", <<Obs(Use("again")), Close("again")>>)

\* A region of which a part was sealed for ever is not released.
zero_and_sealed ==
  <<Obtain("sealed")>> \o Unless("sealed", <<Unobserved, Return>>)
  \o <<Obs(Use("sealed")), Obs(Bad("sealed", Invalid)), Obs(Bad("sealed", Invalid))>>
  \o Uses("sealed", 2)
  \o Claim("seal_forever", <<Obs(Bad("sealed", Permission))>>,
           <<Unobserved, Obs(Use("sealed")), Close("sealed")>>)

\* The order the pages of a part are first executed in.
touches ==
  Claim("states_touches", <<>>, <<Obs(Answer(NotSupported)), Return>>)
  \o <<Obtain("r")>> \o Unless("r", <<Return>>)
  \o <<Obs(Bad("r", Invalid)), Into(Use("r"), "published")>>
  \o Unless("published", <<Close("r"), Return>>)
  \o <<Obs(Bad("r", Invalid)), Obs(Obtain("touching"))>>
  \o Uses("r", 2) \o <<Free("touching"), Obs(Use("r")), Close("r")>>

\* Part of a region is made a file's; the file is released and removed on every
\* way out but the one where it was not written whole.
from_a_file ==
  make_file(kFile) \o Unless("made", <<Unobserved, Return>>)
  \o <<Open("f", "here", kFile, ReadOnly)>>
  \o Unless("f", <<Unobserved, Remove("here", kFile), Return>>)
  \o <<Obtain("r")>> \o Unless("r", <<Close("f"), Remove("here", kFile), Return>>)
  \o Claim("file",
       <<Obs(Bad("r", Invalid)), Obs(Bad("r", Invalid)), Obs(Bad("r", Invalid)), Obs(Bad("r", Invalid))>>
         \o Uses("r", 2) \o <<Obtain("w")>>
         \o If("w",
              <<Obs(Bad("w", Invalid)), Into(Use("w"), "mapped"), Observe({"mapped"})>>
              \o If("mapped", <<Obs(ReadAt("f", 1, 5)), Obs(Use("w"))>>) \o <<Close("w")>>)
         \o <<Close("f")>> \o Uses("r", 3) \o <<Close("r")>>,
       <<Obs(Bad("r", NotSupported)), Unobserved, Close("r"), Close("f")>>)
  \o <<Remove("here", kFile)>>

ExecSection ==
  <<published_and_executed, published_twice, part_of_a_region, at_an_address, zero_and_sealed,
    touches, from_a_file>>

-----------------------------------------------------------------------------
\* openkal.map. The file is left behind where it could not be written whole.
open_as(f, how) == <<Open(f, "here", kMapName, how)>>

\* The byte of the file, read through a handle of its own.
file_byte ==
  open_as("g", ReadOnly) \o If("g", <<Seek("g", 1), Into(Read("g", 1), "byte"), Close("g")>>)
  \o <<Observe({"g", "byte"})>>

file_to_map == Asked(1) \o make_file(kMapName) \o Unless("made", <<Unobserved, Leave>>)

part_of_a_file ==
  open_as("f", ReadOnly)
  \o If("f", <<Obs(MapRegion("f", "r"))>> \o If("r", Uses("r", 2)) \o <<Close("f")>>
             \o If("r", <<Obs(Use("r")), Close("r")>>))

private_region ==
  open_as("f", ReadOnly)
  \o If("f", <<Obs(MapRegion("f", "r"))>> \o If("r", Uses("r", 2) \o file_byte \o <<Close("r")>>)
             \o <<Close("f")>>)

shared_regions ==
  open_as("f", ReadWrite)
  \o If("f",
       <<MapRegion("f", "one"), MapRegion("f", "two"), Observe({"one", "two"})>>
       \o If("one", If("two", <<Obs(Use("two")), Obs(Use("one"))>> \o file_byte))
       \o If("one", <<Close("one")>>) \o If("two", <<Close("two")>>) \o <<Close("f")>>)

refused_regions ==
  open_as("f", ReadOnly)
  \o If("f", Repeat(Repeat(<<Obs(Bad("f", Invalid))>>)) \o <<Obs(Bad("f", Permission)), Close("f")>>)

\* A mutant: the names are removed while the copy is at work.
shortened_fileUnawaited ==
  start_copy_running("map_beyond_shortened")
  \o <<Remove("here", kMapName), Remove("here", kMapShort)>>
  \o awaited({Terminated, 50, 52}, "ended")
  \o IfElse("child", <<Observe({"ended"}), Observe({"ended"}), Observe({"ended"})>>, <<Unobserved>>)

\* A copy shortens the file beneath a region; then both names are removed.
shortened_file ==
  start_copy("map_beyond_shortened", {Terminated, 50, 52}, "ended")
  \o IfElse("child", <<Observe({"ended"}), Observe({"ended"}), Observe({"ended"})>>, <<Unobserved>>)
  \o <<Remove("here", kMapName), Remove("here", kMapShort)>>

MapSection ==
  <<file_to_map, part_of_a_file, private_region, shared_regions, refused_regions, shortened_file>>
=============================================================================
