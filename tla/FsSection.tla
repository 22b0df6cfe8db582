----------------------------- MODULE FsSection -----------------------------
(* The section of the conformance suite that examines openkal.fs              *)
(* (conformance/src/sections/fs.cpp), one definition for each block of it.    *)
(* Enquiries about structures alone (sizes, positions not assigned, a name's  *)
(* greatest length) reach no state and are an Answer.                         *)
EXTENDS Calls

kName     == "okc-conformance.tmp"
kDir      == "okc-conformance.dir"
kOther    == "okc-conformance-2.tmp"
kRecord   == "okc-conformance.record"
kAbsent   == "okc-conformance-absent.tmp"
kHeld     == "okc-conformance-held.tmp"
kResolved == "okc-conformance-resolved.tmp"
kLink     == "okc-conformance-link.tmp"
kMoved    == "okc-conformance-link-moved.tmp"
kDangling == "okc-conformance-dangling.tmp"
kLinked   == "okc-conformance-linked-dir.tmp"
kDirLink  == "okc-conformance-dir-link.tmp"
kRunnable == "okc-conformance-runnable.tmp"

\* Opens, writes and releases in one step: put tells whether the file was opened,
\* whole whether it was written.
put_as(put, whole, name, k) ==
  <<Open(put, "here", name, Afresh)>>
    \o If(put, <<Into(Write(put, k), whole), Close(put)>>)
put_file(name, k) == put_as("put", "whole", name, k)

\* Reads a file until nothing more comes; v tells that it held k bytes.
read_file(name, k, v) ==
  <<Open("rd", "here", name, ReadOnly)>>
    \o If("rd", <<Into([Read("rd", k) EXCEPT !.do = "read_all"], v), Close("rd")>>)

\* What a listing gives of a file, and that a volume which states the position
\* gives size, time and identity.
listing_with_attributes ==
  put_file(kName, 4)
  \o <<Into(Gives(List("here", 0), 0..99), "listed")>>
  \o Unless("listed", <<Unobserved, Remove("here", kName), Return>>)
  \o <<Into(Info("here", kName, File), "agrees"), Observe({"listed"}), Observe({"agrees"})>>
  \o Claim("list_info", <<Obsd(List("here", 0), 0..99)>>, <<Unobserved>>)
  \o <<Remove("here", kName)>>

\* The record of what is reached through a handle: a file opened and a name asked
\* about, twice, and a listing.
the_record ==
  <<Open("rec", "here", kRecord, Afresh)>>
  \o If("rec",
       <<Attenuate("rd", "here", {"recorded"})>>
       \o If("rd",
            Repeat(<<Open("f", "rd", kName, ReadOnly)>> \o If("f", <<Close("f")>>)
                   \o <<Info("rd", kAbsent, Absent)>>)
            \o <<Gives(List("rd", 0), 0..99), Close("rd"),
                 Open("log", "here", kRecord, ReadOnly)>>
            \o If("log", <<Close("log")>>)
            \o <<Observe({"log"}), Observe({"log"}), Observe({"log"})>>)
       \o Unless("rd", <<Observe({"rd"})>>)
       \o <<Close("rec"), Remove("here", kRecord)>>)

\* A handle with less: what is refused through it, and that what is derived
\* from it has no more.
attenuation ==
  Claim("attenuate", <<>>,
        <<Obsd(Attenuate("ro", "here", {"read_only"}), {NotSupported}), Return>>)
  \o put_file(kName, 1)
  \o <<Remove("here", kDir), Mkdir("here", kDir),
       Obs(Answer(Invalid)), Obs(Answer(Invalid)), Obs(Answer(Invalid)),
       Attenuate("ro", "here", {"read_only"})>>
  \o Unless("ro", <<Observe({"ro"}), Remove("here", kName), Remove("here", kDir), Return>>)
  \o <<Observe({"ro"}), Open("f", "ro", kName, ReadOnly)>> \o If("f", <<Close("f")>>)
  \o <<Observe({"f"}),
       Obsd(Open("f", "ro", kOther, {"write", "create"}), {Permission}),
       Obsd(Open("f", "ro", kName, {"write"}), {Permission}),
       Obsd(Remove("ro", kName), {Permission}),
       Obsd(Rename("ro", kName, kOther, {}), {Permission}),
       Obsd(Mkdir("ro", kOther), {Permission}),
       OpenDir("sub", "ro", kDir)>>
  \o If("sub", <<Obsd(Open("f", "sub", kName, {"write", "create"}), {Permission}), Close("sub")>>)
  \o <<Attenuate("again", "ro", {})>>
  \o If("again", <<Obsd(Open("f", "again", kName, {"write"}), {Permission}), Close("again")>>)
  \o <<Close("ro"), Attenuate("un", "here", {"unchanging"})>>
  \o If("un", <<Obs(Info("un", kOther, Absent)), Close("un")>>)
  \o the_record
  \o <<Remove("here", kName), Remove("here", kOther), Remove("here", kDir)>>

-----------------------------------------------------------------------------
\* What was supplied: a count, a name, a name's length, distinct names.
preopens == <<Obs(Answer(Ok)), Obs(Answer(Ok)), Obs(Answer(Ok)), Obs(Answer(Ok))>>

\* A name that ascends or begins with a separator is refused.
beyond_the_directory ==
  <<Obsd(Open("f", "here", "../okc-conformance-escape", ReadOnly), Errors),
    Obsd(Open("f", "here", "/etc/passwd", ReadOnly), Errors)>>

\* The reserved name denotes the directory, and opens it a second time.
reserved_name ==
  <<Obs(Info("here", ".", Directory)), Obs(OpenDir("again", "here", "."))>>
  \o IfElse("again",
       put_file("okc-self.tmp", 1)
       \o <<Obs(Info("again", "okc-self.tmp", File)), Remove("here", "okc-self.tmp"), Close("again")>>,
       <<Unobserved>>)

\* A name that is not there is answered by an enquiry and refused by opening.
absent_name ==
  <<Remove("here", kName), Obs(Info("here", kName, Absent)),
    Obsd(Open("f", "here", kName, ReadOnly), {NotFound})>>

\* Creation, positioning, transfer, length; the time of an open file.
creation ==
  put_file(kName, 10) \o <<Observe({"put", "whole"}), Obs(Open("f", "here", kName, ReadWrite))>>
  \o If("f",
       <<Obs(Seek("f", 3)), Obs(Read("f", 4)), Obs(Size("f", 10)),
         Into(Truncate("f", 4), "cut"), Into(Size("f", 4), "short"), Observe({"cut", "short"})>>
       \o Claim("modified_time",
            <<Open("w", "here", kName, ReadWrite)>>
            \o If("w", <<Into(Use("w"), "set"), Close("w")>>) \o <<Observe({"w", "set"})>>,
            <<Unobserved>>)
       \o <<Close("f")>>)

\* Transfers at an offset leave the position where it was.
transfers_at_an_offset ==
  put_file(kName, 10) \o <<Observe({"put", "whole"}), Open("f", "here", kName, ReadWrite)>>
  \o If("f",
       <<Seek("f", 2), Obs(ReadAt("f", 3, 6)), Obs(Position("f", 2)),
         Obs(WriteAt("f", 2, 8)), Obs(Position("f", 2)), Obs(Read("f", 2)),
         Obsd(ReadAt("f", 4, 7), {3}), Obsd(ReadAt("f", 4, 10), {0}), Obsd(ReadAt("f", 4, 1000), {0}),
         Obs(WriteAt("f", 1, 12)), Obs(Size("f", 13)), Obs(ReadAt("f", 3, 10)), Close("f")>>)
  \o put_file(kName, 10)
  \o If("put", If("whole",
       <<Open("f", "here", kName, ReadOnly)>> \o If("f", <<ReadAt("f", 4, 0), Close("f")>>)))

\* Truncating, exclusive and appending opens, each by its effect.
three_conditions ==
  put_file(kName, 10) \o If("put", If("whole", put_as("again", "rewritten", kName, 3)))
  \o If("rewritten", read_file(kName, 3, "cut"))
  \o <<Observe({"cut"}),
       Obsd(Open("f", "here", kName, {"write", "create", "exclusive"}), {Exists})>>
  \o put_file(kName, 3) \o <<Open("f", "here", kName, {"write", "append"})>>
  \o If("f", <<Seek("f", 0), Write("f", 3), Close("f")>>)
  \o read_file(kName, 6, "appended") \o <<Observe({"appended"})>>

\* A mutant: the second entry is not removed.
directoriesKeepsEntry ==
  <<Remove("here", kDir), Obs(Mkdir("here", kDir)), Obs(OpenDir("d", "here", kDir))>>
  \o If("d",
       <<Open("f", "d", "a", {"write", "create"})>> \o If("f", <<Close("f")>>)
       \o <<Open("f", "d", "b", {"write", "create"})>> \o If("f", <<Close("f")>>)
       \o <<Obs(List("d", 2)), Remove("d", "a"), Close("d")>>)
  \o <<Obs(Remove("here", kDir))>>

\* A directory is created, holds two entries, is enumerated, emptied, removed.
directories ==
  <<Remove("here", kDir), Obs(Mkdir("here", kDir)), Obs(OpenDir("d", "here", kDir))>>
  \o If("d",
       <<Open("f", "d", "a", {"write", "create"})>> \o If("f", <<Close("f")>>)
       \o <<Open("f", "d", "b", {"write", "create"})>> \o If("f", <<Close("f")>>)
       \o <<Obs(List("d", 2)), Remove("d", "a"), Remove("d", "b"), Close("d")>>)
  \o <<Obs(Remove("here", kDir))>>

\* A name removed while its file is open, where the volume claims it.
held_open ==
  Claim("remove_open",
    <<Remove("here", kHeld), Mkdir("here", kHeld), OpenDir("d", "here", kHeld)>>
    \o If("d",
         <<Open("f", "d", "h", {"read", "write", "create"})>>
         \o If("f",
              <<Into(Remove("d", "h"), "removed"), Into(InfoItself("d", "h", Absent), "gone"),
                Observe({"removed", "gone"}), Obs(Write("f", 4)), Close("d"),
                Obs(Remove("here", kHeld)), Close("f")>>)
         \o Unless("f", <<Close("d")>>))
    \o <<Remove("here", kHeld)>>,
    <<Unobserved>>)

\* A mutant: the link is not removed.
the_resolved_nameLeaves ==
  Claim("resolved_name",
    put_file(kName, 1)
    \o <<Obs(Info("here", kName, File)), Obs(Answer(Ok))>>
    \o Claim("make_links",
         <<Remove("here", kResolved), LinkCreate("here", kResolved, kName)>>
         \o If(kResolved, <<Obs(Info("here", kResolved, File))>>),
         <<Unobserved>>)
    \o <<Obs(Info("here", "okc-conformance-missing.tmp", Absent))>>,
    <<Obs(Answer(NotSupported))>>)

\* The name with every link followed.
the_resolved_name ==
  Claim("resolved_name",
    put_file(kName, 1)
    \o <<Obs(Info("here", kName, File)), Obs(Answer(Ok))>>
    \o Claim("make_links",
         <<Remove("here", kResolved), LinkCreate("here", kResolved, kName)>>
         \o If(kResolved, <<Obs(Info("here", kResolved, File)), Remove("here", kResolved)>>),
         <<Unobserved>>)
    \o <<Obs(Info("here", "okc-conformance-missing.tmp", Absent))>>,
    <<Obs(Answer(NotSupported))>>)

renaming ==
  put_file(kName, 1)
  \o <<Remove("here", kOther), Obs(Rename("here", kName, kOther, {})),
       Obs(Info("here", kName, Absent)), Remove("here", kOther)>>

\* A rename that does not replace changes nothing when the name is there.
renaming_no_replace ==
  Claim("rename_no_replace",
    put_file(kName, 5) \o put_file(kOther, 6)
    \o <<Obsd(Rename("here", kName, kOther, {"no_replace"}), {Exists})>>
    \o read_file(kOther, 6, "second") \o If("second", read_file(kName, 5, "first"))
    \o <<Observe({"first"}), Remove("here", kOther),
         Obs(Rename("here", kName, kOther, {"no_replace"})), Remove("here", kOther)>>,
    <<Unobserved>>)
  \o put_file(kName, 1)
  \o <<Obsd(Rename("here", kName, kOther, {"unassigned"}), {Invalid}),
       Remove("here", kName), Remove("here", kOther)>>

\* What an enquiry fills, writes and identifies.
enquiry ==
  <<Obs(Answer(Ok))>> \o put_file(kName, 10)
  \o <<Obs(Info("here", kName, File)), Obs(Answer(Ok)), Obs(Info("here", kName, File))>>
  \o Claim("identity",
       <<Obs(Info("here", kName, File))>> \o put_file(kOther, 1)
       \o <<Obs(Info("here", kOther, File)), Remove("here", kOther)>>,
       <<Unobserved>>)
  \o <<Remove("here", kName)>>

\* Nodes whose content is another name: an enquiry resolves, a rename and a
\* removal do not.
links ==
  <<Remove("here", kLink)>>
  \o Claim("make_links",
       put_file(kName, 10)
       \o <<Obs(LinkCreate("here", kLink, kName)), Obs(LinkRead("here", kLink)),
            Obs(Info("here", kLink, File)), Obs(InfoItself("here", kLink, Link)),
            Remove("here", kDangling), LinkCreate("here", kDangling, "okc-no-such-target")>>
       \o If(kDangling, <<Obs(Info("here", kDangling, Absent)), Remove("here", kDangling)>>)
       \o <<Obs(LinkRead("here", kLink)), Remove("here", kMoved),
            Into(Rename("here", kLink, kMoved, {}), "moved"),
            Into(InfoItself("here", kMoved, Link), "itself"), Observe({"moved", "itself"}),
            Into(Remove("here", kMoved), "removed"), Into(Info("here", kName, File), "kept"),
            Observe({"removed", "kept"}),
            Remove("here", kDirLink), Mkdir("here", kLinked), LinkCreate("here", kDirLink, kLinked)>>
       \o If(kDirLink,
            <<Into(Remove("here", kDirLink), "gone"), Into(Info("here", kLinked, Directory), "stays"),
              Observe({"gone", "stays"})>>)
       \o <<Remove("here", kLinked), Remove("here", kName)>>,
       <<Unobserved, Obsd(LinkCreate("here", kLink, "x"), Errors)>>)

\* Exclusion upon a file: its holder is the open file, not the program.
exclusion ==
  Claim("locks",
    put_file(kName, 4) \o <<Open("a", "here", kName, ReadWrite)>>
    \o If("a", <<Into(Lock("a"), "taken")>>) \o <<Observe({"taken"}), Open("b", "here", kName, ReadWrite)>>
    \o If("b", <<Into(Gives(Lock("b"), {Again}), "second")>>) \o <<Observe({"second"})>>
    \o If("taken", <<Into(Unlock("a"), "freed")>>) \o <<Observe({"freed"})>>
    \o If("b", <<Into(Lock("b"), "after")>>) \o <<Observe({"after"})>>
    \o If("after", <<Unlock("b")>>)
    \o If("a", <<Obs(Bad("a", Invalid))>>)
    \o If("b", <<Close("b")>>) \o If("a", <<Close("a")>>) \o <<Remove("here", kName)>>,
    <<Unobserved>>)

capacity ==
  Claim("capacity", <<Obs(Answer(Ok)), Obs(Answer(Ok)), Obs(Answer(Ok))>>, <<Unobserved>>)

\* The modification time of a name, a directory's and a file's.
modified_by_name ==
  Claim("modified_time",
    <<Mkdir("here", kDir), Into(Mark("here", kDir, {"modified"}), "set"),
      Into(Info("here", kDir, Directory), "read"), Observe({"set", "read"}), Remove("here", kDir)>>
    \o put_file(kName, 1)
    \o <<Into(Mark("here", kName, {"modified"}), "set"), Into(Info("here", kName, File), "read"),
         Observe({"set", "read"}), Remove("here", kName)>>,
    <<Unobserved>>)

\* Whether a node may be started; a directory is refused in either case.
executable ==
  put_file(kRunnable, 14)
  \o Claim("executable",
       <<Into(Mark("here", kRunnable, {"executable"}), "on"), Into(Info("here", kRunnable, File), "a"),
         Observe({"on", "a"}), Into(Mark("here", kRunnable, {"executable"}), "off"),
         Into(Info("here", kRunnable, File), "b"), Observe({"off", "b"}), Obs(Info("here", kRunnable, File))>>,
       <<Unobserved, Obsd(Mark("here", kRunnable, {"executable"}), {NotSupported}),
         Obs(Info("here", kRunnable, File))>>)
  \o <<Remove("here", kRunnable), Mkdir("here", kDir),
       Obsd(Mark("here", kDir, {"executable"}), {IsDirectory, NotSupported}), Remove("here", kDir)>>

\* A released handle is not treated as valid.
released_handle ==
  <<Obs(Answer(Ok)), Obs(Answer(Ok))>> \o put_file(kName, 1)
  \o <<Open("f", "here", kName, ReadOnly)>>
  \o If("f", <<Close("f"), Obs(Stale("f"))>>) \o <<Remove("here", kName)>>

\* A file is opened and released many times, to see that it can be and to
\* measure what it costs.
opened_many_times ==
  LET once == <<Open("f", "here", kName, ReadOnly)>> \o If("f", <<Close("f")>>) IN
  put_file(kName, 1) \o once \o once \o <<Observe({"f"}), Remove("here", kName)>>
  \o put_file(kName, 1) \o once \o once \o <<Remove("here", kName)>>

\* The blocks of run(), in the order of the source; each is a scope of its own.
FsSection ==
  <<preopens, beyond_the_directory, reserved_name, absent_name, creation,
    transfers_at_an_offset, three_conditions, directories, held_open, the_resolved_name,
    renaming, renaming_no_replace, enquiry, links, exclusion, capacity, modified_by_name,
    executable, released_handle, opened_many_times, listing_with_attributes, attenuation>>
=============================================================================
