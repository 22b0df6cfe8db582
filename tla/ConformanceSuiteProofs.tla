----------------------- MODULE ConformanceSuiteProofs -----------------------
(***************************************************************************)
(* The suite with any number of names for its copies, in an environment    *)
(* that claims what it will and moves as few bytes as it will: the suite   *)
(* and its copies are always at a step of their sources, a program that    *)
(* has ended holds nothing, every node is in a directory that is there,    *)
(* and the suite does what it may do by itself (SuiteAlone).  Of what the  *)
(* sections do only what ConformanceSuite assumes of them is used; the     *)
(* last theorems, of what is held and what is said, also use what          *)
(* SectionWays computes of every way through every block.                  *)
(***************************************************************************)
EXTENDS ConformanceSuite, SectionWays, WellFoundedInduction, TLAPS

Programs == {"suite"} \cup CopyNames
Copies == [state : {"none", "running", "ended"}, errand : DOMAIN errands \cup {""},
           how : SUBSET STRING, result : Nat, took : BOOLEAN, asked : BOOLEAN, memory : Nat, limited : BOOLEAN]

Shape(o) ==
  o = [tree |-> o.tree, held |-> o.held, procs |-> o.procs, mode |-> o.mode, claims |-> o.claims]

\* A tree of nodes: what a name is in is there, and is not on its way out.
IsNode(n) ==
  /\ n = [kind |-> n.kind, size |-> n.size, to |-> n.to, doomed |-> n.doomed]
  /\ n.kind \in {File, Directory, Link} /\ (n.kind = Link => n.to \in STRING)
Parent(p) == SubSeq(p, 1, Len(p) - 1)
Rooted(t) ==
  \A p \in DOMAIN t :
    /\ p \in Seq(STRING) /\ IsNode(t[p])
    /\ Len(p) > 1 => Parent(p) \in DOMAIN t /\ ~t[Parent(p)].doomed

Formed(o) == Shape(o) /\ Rooted(o.tree)

\* What the environment is at any time, of its programs and what they hold.
Sound(o) ==
  /\ Formed(o)
  /\ o.procs \in [CopyNames -> Copies]
  /\ \A c \in CopyNames : o.procs[c].state = "running" => o.procs[c].errand \in DOMAIN errands
  /\ \A x \in DOMAIN o.held :
       /\ x = <<x[1], x[2]>>
       /\ x[1] = "suite" \/ (x[1] \in CopyNames /\ o.procs[x[1]].state = "running")

Acts(o, who) == who = "suite" \/ (who \in CopyNames /\ o.procs[who].state = "running")

\* A call that starts and ends nobody; one that does, where a copy that runs on
\* is about the errand it was about.
Same(o, who, p) ==
  /\ Formed(p) /\ p.procs = o.procs
  /\ \A x \in DOMAIN p.held : x \in DOMAIN o.held \/ x = <<who, x[2]>>
Evolves(o, p) ==
  /\ Sound(p)
  /\ \A c \in CopyNames :
       p.procs[c].state = "running" =>
         \/ o.procs[c].state = "none"
         \/ o.procs[c].state = "running" /\ p.procs[c].errand = o.procs[c].errand

LEMMA SameEvolves ==
  ASSUME NEW o, NEW p, NEW who, Sound(o), Acts(o, who), Same(o, who, p)
  PROVE  Evolves(o, p)
  BY DEF Sound, Acts, Same, Evolves, Programs

LEMMA EvolvesAgain ==
  ASSUME NEW o, NEW p, NEW q, Evolves(o, p), Evolves(p, q),
         \A c \in CopyNames : p.procs[c].state = "none" => o.procs[c].state = "none"
  PROVE  Evolves(o, q)
  BY DEF Evolves

-----------------------------------------------------------------------------
\* Trees.
Childless(t, p) == \A q \in DOMAIN t : Len(q) > 1 => Parent(q) # p

LEMMA NoChildren ==
  ASSUME NEW t, Rooted(t), NEW p, Children(t, p) = {}
  PROVE  Childless(t, p)
  <1> SUFFICES ASSUME NEW q \in DOMAIN t, Len(q) > 1, Parent(q) = p PROVE FALSE  BY DEF Childless
  <1>1. q \in Seq(STRING) /\ Len(q) \in Nat  BY DEF Rooted
  <1>2. Len(p) = Len(q) - 1  BY <1>1 DEF Parent
  <1>3. Len(q) = Len(p) + 1 /\ SubSeq(q, 1, Len(p)) = p  BY <1>1, <1>2 DEF Parent
  <1> QED  BY <1>3 DEF Children

\* What a name in a directory is in.
LEMMA ParentIs ==
  ASSUME NEW S, NEW d \in Seq(S), NEW n \in S
  PROVE  /\ Append(d, n) \in Seq(S) /\ Len(Append(d, n)) = Len(d) + 1
         /\ Append(d, n) # d /\ Append(d, n) # <<>> /\ Parent(Append(d, n)) = d
  <1>1. /\ Append(d, n) \in Seq(S) /\ Len(d) \in Nat
        /\ Len(Append(d, n)) = Len(d) + 1
    OBVIOUS
  <1>2. Append(d, n) # d  BY <1>1
  <1>3. Append(d, n) # <<>>
    <2>1. Len(<<>>) = 0  OBVIOUS
    <2>2. Len(Append(d, n)) # 0  BY <1>1
    <2> QED  BY <2>1, <2>2, Zenon
  <1>4. Parent(Append(d, n)) = d  BY <1>1 DEF Parent
  <1> QED  BY <1>1, <1>2, <1>3, <1>4

LEMMA PutRooted ==
  ASSUME NEW t, Rooted(t), NEW p \in Seq(STRING), NEW node, IsNode(node),
         Len(p) > 1 => Parent(p) \in DOMAIN t /\ ~t[Parent(p)].doomed,
         ~node.doomed \/ Childless(t, p)
  PROVE  Rooted(Put(t, p, node))
  <1> DEFINE new == Put(t, p, node)
  <1>1. DOMAIN new = DOMAIN t \cup {p} /\ \A q \in DOMAIN new : new[q] = IF q = p THEN node ELSE t[q]
    BY DEF Put
  <1> HIDE DEF new
  <1>2. Len(p) \in Nat /\ (Len(p) > 1 => Parent(p) # p)
    <2>1. Len(p) \in Nat  OBVIOUS
    <2>2. Len(p) > 1 => Len(Parent(p)) = Len(p) - 1  BY <2>1 DEF Parent
    <2> QED  BY <2>1, <2>2
  <1>3. ASSUME NEW q \in DOMAIN new
        PROVE  /\ q \in Seq(STRING) /\ IsNode(new[q])
               /\ Len(q) > 1 => Parent(q) \in DOMAIN new /\ ~new[Parent(q)].doomed
    <2>1. CASE q = p  BY <1>1, <1>2, <2>1
    <2>2. CASE q # p
      <3>1. /\ q \in DOMAIN t /\ q \in Seq(STRING) /\ IsNode(t[q])
            /\ Len(q) > 1 => Parent(q) \in DOMAIN t /\ ~t[Parent(q)].doomed
        BY <1>1, <1>3, <2>2 DEF Rooted
      <3>2. Len(q) > 1 => ~new[Parent(q)].doomed  BY <1>1, <3>1 DEF Childless
      <3> QED  BY <1>1, <2>2, <3>1, <3>2
    <2> QED  BY <2>1, <2>2
  <1> QED  BY <1>3 DEF Rooted, new

LEMMA DropRooted ==
  ASSUME NEW t, Rooted(t), NEW ps,
         \A q \in DOMAIN t : Len(q) > 1 => Parent(q) \notin ps
  PROVE  Rooted(Drop(t, ps))
  <1>1. /\ DOMAIN Drop(t, ps) = DOMAIN t \ ps
        /\ \A q \in DOMAIN Drop(t, ps) : Drop(t, ps)[q] = t[q]
    BY DEF Drop
  <1> QED  BY <1>1 DEF Rooted

\* A change of one node that neither moves it nor has it go, or that has it go
\* where nothing is in it.
LEMMA ChangeRooted ==
  ASSUME NEW t, Rooted(t), NEW p, NEW node,
         p \in DOMAIN t => IsNode(node) /\ (node.doomed => t[p].doomed \/ Childless(t, p))
  PROVE  Rooted([t EXCEPT ![p] = node])
  <1> DEFINE new == [t EXCEPT ![p] = node]
  <1>1. DOMAIN new = DOMAIN t /\ \A q \in DOMAIN t : new[q] = IF q = p THEN node ELSE t[q]
    OBVIOUS
  <1> HIDE DEF new
  <1>2. ASSUME NEW q \in DOMAIN t
        PROVE  /\ q \in Seq(STRING) /\ IsNode(new[q])
               /\ Len(q) > 1 => Parent(q) \in DOMAIN new /\ ~new[Parent(q)].doomed
    <2>1. /\ q \in Seq(STRING) /\ IsNode(t[q])
          /\ Len(q) > 1 => Parent(q) \in DOMAIN t /\ ~t[Parent(q)].doomed
      BY DEF Rooted
    <2>2. Len(q) > 1 => ~new[Parent(q)].doomed  BY <1>1, <2>1 DEF Childless
    <2> QED  BY <1>1, <2>1, <2>2
  <1> QED  BY <1>1, <1>2 DEF Rooted, new

LEMMA NodesAreNodes ==
  ASSUME NEW kind \in {File, Directory, Link}, NEW size, NEW to, kind = Link => to \in STRING
  PROVE  IsNode(Node(kind, size, to)) /\ ~Node(kind, size, to).doomed
  BY DEF Node, IsNode

\* A new file and a new directory, whose content is no name.
LEMMA NewNodes ==
  /\ \A size : IsNode(Node(File, size, "")) /\ ~Node(File, size, "").doomed
  /\ IsNode(Node(Directory, 0, "")) /\ ~Node(Directory, 0, "").doomed
  <1>1. \A size, to : IsNode(Node(File, size, to)) /\ ~Node(File, size, to).doomed
    BY NodesAreNodes DEF File, Link
  <1>2. \A size, to : IsNode(Node(Directory, size, to)) /\ ~Node(Directory, size, to).doomed
    BY NodesAreNodes DEF Directory, Link
  <1> QED  BY <1>1, <1>2, Zenon

LEMMA DoomedIsOne ==
  ASSUME NEW n, IsNode(n)
  PROVE  IsNode([n EXCEPT !.doomed = TRUE])
  <1> DEFINE yes == TRUE
             gone == [n EXCEPT !.doomed = yes]
  <1>1. /\ n = [kind |-> n.kind, size |-> n.size, to |-> n.to, doomed |-> n.doomed]
        /\ n.kind \in {File, Directory, Link} /\ (n.kind = Link => n.to \in STRING)
    BY DEF IsNode
  <1>2. gone = [kind |-> n.kind, size |-> n.size, to |-> n.to, doomed |-> yes]
    <2> DEFINE kind == n.kind
               size == n.size
               to   == n.to
               was  == n.doomed
    <2>1. n = [kind |-> kind, size |-> size, to |-> to, doomed |-> was]  BY <1>1
    <2> HIDE DEF kind, size, to, was, yes
    <2>2. gone = [kind |-> kind, size |-> size, to |-> to, doomed |-> yes]  BY <2>1
    <2> QED  BY <2>2 DEF kind, size, to
  <1> HIDE DEF gone
  <1>3. IsNode(gone)  BY <1>1, <1>2 DEF IsNode
  <1> QED  BY <1>3 DEF gone

LEMMA SizeIsOfANode ==
  ASSUME NEW t, Rooted(t), NEW p, NEW size
  PROVE  Rooted([t EXCEPT ![p].size = size])
  <1> DEFINE node == [t[p] EXCEPT !.size = size]
  <1>1. p \in DOMAIN t => IsNode(node) /\ node.doomed = t[p].doomed  BY DEF Rooted, IsNode
  <1> HIDE DEF node
  <1>2. Rooted([t EXCEPT ![p] = node])  BY <1>1, ChangeRooted
  <1> QED  BY <1>2 DEF node

-----------------------------------------------------------------------------
\* The environment's own operators.

LEMMA TakeSame ==
  ASSUME NEW o, Formed(o), NEW who, NEW f, NEW h
  PROVE  Same(o, who, Take(o, who, f, h))
  <1>1. Take(o, who, f, h) =
          [o EXCEPT !.held = [x \in DOMAIN o.held \cup {<<who, f>>} |->
                                IF x = <<who, f>> THEN h ELSE o.held[x]]]
    BY DEF Take
  <1> QED  BY <1>1 DEF Same, Formed, Shape

LEMMA LetSame ==
  ASSUME NEW o, Formed(o), NEW who, NEW gone
  PROVE  /\ Same(o, who, Let(o, gone))
         /\ DOMAIN Let(o, gone).held = DOMAIN o.held \ gone
  <1> DEFINE rest == [o EXCEPT !.held = [x \in DOMAIN o.held \ gone |-> o.held[x]]]
  <1>1. /\ Formed(rest) /\ rest.procs = o.procs /\ DOMAIN rest.held = DOMAIN o.held \ gone
        /\ rest.tree = o.tree
    BY DEF Formed, Shape
  <1> DEFINE left == Drop(rest.tree, {p \in DOMAIN rest.tree : rest.tree[p].doomed /\ ~Busy(rest, p)})
  <1>2. Let(o, gone) = [rest EXCEPT !.tree = left]  BY DEF Let
  <1> HIDE DEF rest
  <1>3. Rooted(left)
    <2>1. Rooted(rest.tree)  BY <1>1 DEF Formed
    <2>2. \A q \in DOMAIN rest.tree : Len(q) > 1 => ~rest.tree[Parent(q)].doomed  BY <2>1 DEF Rooted
    <2> QED  BY <2>1, <2>2, DropRooted
  <1> HIDE DEF left
  <1> QED  BY <1>1, <1>2, <1>3 DEF Same, Formed, Shape

LEMMA NoCopyIsOne ==
  /\ NoCopy \in Copies /\ NoCopy.state = "none"
  /\ \A result \in Nat : LET left == [NoCopy EXCEPT !.state = "ended", !.result = result]
                         IN  left \in Copies /\ left.state = "ended"
  <1>1. NoCopy \in Copies /\ NoCopy.state = "none"  BY DEF NoCopy, Copies
  <1>2. ASSUME NEW result \in Nat
        PROVE  LET left == [NoCopy EXCEPT !.state = "ended", !.result = result]
               IN  left \in Copies /\ left.state = "ended"
    <2> DEFINE ended == [NoCopy EXCEPT !.state = "ended"]
    <2>1. ended \in Copies /\ ended.state = "ended"  BY <1>1 DEF Copies
    <2> HIDE DEF ended
    <2>2. [ended EXCEPT !.result = result] \in Copies /\ [ended EXCEPT !.result = result].state = "ended"
      BY <2>1 DEF Copies
    <2> QED  BY <2>2 DEF ended
  <1> QED  BY <1>1, <1>2

LEMMA EndedEvolves ==
  ASSUME NEW o, Sound(o), NEW c, NEW result \in Nat
  PROVE  /\ Evolves(o, Ended(o, c, result))
         /\ c \in CopyNames => Ended(o, c, result).procs[c].state # "running"
         /\ \A d \in CopyNames \ {c} : Ended(o, c, result).procs[d] = o.procs[d]
  <1> DEFINE rest == Let(o, {x \in DOMAIN o.held : x[1] = c})
             left == IF Watched(o, c) THEN [NoCopy EXCEPT !.state = "ended", !.result = result] ELSE NoCopy
  <1>1. /\ Formed(rest) /\ rest.procs = o.procs
        /\ DOMAIN rest.held = DOMAIN o.held \ {x \in DOMAIN o.held : x[1] = c}
    BY LetSame DEF Sound, Same
  <1>2. left \in Copies /\ left.state # "running"  BY NoCopyIsOne
  <1>3. Ended(o, c, result) = [rest EXCEPT !.procs[c] = left]  BY DEF Ended
  <1> HIDE DEF rest, left
  <1>4. /\ Formed(Ended(o, c, result))
        /\ Ended(o, c, result).procs = [o.procs EXCEPT ![c] = left]
        /\ Ended(o, c, result).held = rest.held
    BY <1>1, <1>3 DEF Formed, Shape
  <1> QED  BY <1>1, <1>2, <1>4 DEF Sound, Evolves

LEMMA ReapedEvolves ==
  ASSUME NEW o, Sound(o)
  PROVE  /\ Evolves(o, Reaped(o))
         /\ \A c \in CopyNames : o.procs[c].state = "running" => Reaped(o).procs[c] = o.procs[c]
  <1> DEFINE left(c) == IF o.procs[c].state = "ended" /\ ~Watched(o, c) THEN NoCopy ELSE o.procs[c]
  <1>1. Reaped(o) = [o EXCEPT !.procs = [c \in CopyNames |-> left(c)]]  BY DEF Reaped
  <1>2. \A c \in CopyNames : left(c) \in Copies /\ (left(c).state = "running" => left(c) = o.procs[c])
                             /\ (o.procs[c].state = "running" => left(c) = o.procs[c])
    BY NoCopyIsOne DEF Sound
  <1> HIDE DEF left
  <1>3. Formed(Reaped(o)) /\ Reaped(o).procs = [c \in CopyNames |-> left(c)] /\ Reaped(o).held = o.held
    BY <1>1 DEF Sound, Formed, Shape
  <1> QED  BY <1>2, <1>3 DEF Sound, Evolves

-----------------------------------------------------------------------------
\* The calls that start and end nobody.

LEMMA Answering ==
  ASSUME NEW o, NEW r, NEW rs
  PROVE  /\ \A a \in Reply(r, o) : a.os = o
         /\ \A a \in Answers(rs, o) : a.os = o
  BY DEF Reply, Answers

LEMMA Unchanging ==
  ASSUME NEW o, Formed(o), NEW who
  PROVE  Same(o, who, o)
  BY DEF Same

LEMMA OfTheTree ==
  ASSUME NEW o, Formed(o), NEW who, NEW t, Rooted(t)
  PROVE  /\ Same(o, who, [o EXCEPT !.tree = t])
         /\ Formed([o EXCEPT !.tree = t])
         /\ [o EXCEPT !.tree = t].held = o.held
         /\ [o EXCEPT !.tree = t].procs = o.procs
  BY DEF Same, Formed, Shape

LEMMA OfWhatIsHeld ==
  ASSUME NEW o, Formed(o), NEW who, NEW h, DOMAIN h = DOMAIN o.held
  PROVE  Same(o, who, [o EXCEPT !.held = h])
  BY DEF Same, Formed, Shape

\* What a call names, in a directory that is there.
LEMMA PathIs ==
  ASSUME NEW o, Formed(o), NEW who, NEW s, s.n \in STRING, s.n # ".",
         Enterable(o.tree, DirOf(o, who, s.d).path)
  PROVE  LET p == PathOf(o, who, s)
         IN  /\ p \in Seq(STRING) /\ p = Append(DirOf(o, who, s.d).path, s.n)
             /\ Len(p) > 1 => Parent(p) \in DOMAIN o.tree /\ ~o.tree[Parent(p)].doomed
  <1> DEFINE d == DirOf(o, who, s.d).path
  <1>1. d = <<>> \/ (d \in DOMAIN o.tree /\ ~o.tree[d].doomed)  BY DEF Enterable
  <1>2. PathOf(o, who, s) = Append(d, s.n)  BY DEF PathOf
  <1> HIDE DEF d
  <1>3. d \in Seq(STRING)
    <2>1. d \in DOMAIN o.tree => d \in Seq(STRING)  BY DEF Formed, Rooted
    <2>2. <<>> \in Seq(STRING)  OBVIOUS
    <2> QED  BY <1>1, <2>1, <2>2, Zenon
  <1>4. /\ Append(d, s.n) \in Seq(STRING) /\ Len(Append(d, s.n)) = Len(d) + 1
        /\ Parent(Append(d, s.n)) = d
    BY <1>3, ParentIs
  <1>5. d = <<>> => Len(d) = 0  OBVIOUS
  <1> QED  BY <1>1, <1>2, <1>4, <1>5 DEF d

LEMMA OpenSame ==
  ASSUME NEW o, Formed(o), NEW who, NEW s, s.n \in STRING, NEW a \in DoOpen(o, who, s)
  PROVE  Same(o, who, a.os)
  <1> DEFINE t == o.tree
             named == PathOf(o, who, s)
             p == Follow(t, named)
  <1>1. \/ a.os = o
        \/ /\ KindAt(t, p) # Absent \/ Enterable(t, DirOf(o, who, s.d).path)
           /\ KindAt(t, p) # Directory
           /\ \E size, h : a.os = Take([o EXCEPT !.tree = Put(t, p, Node(File, size, ""))], who, s.f, h)
    BY Answering DEF DoOpen
  <1>2. ASSUME KindAt(t, p) # Absent \/ Enterable(t, DirOf(o, who, s.d).path), KindAt(t, p) # Directory
        PROVE  /\ p \in Seq(STRING)
               /\ Len(p) > 1 => Parent(p) \in DOMAIN t /\ ~t[Parent(p)].doomed
    <2>1. CASE p \in DOMAIN t  BY <2>1 DEF Formed, Rooted
    <2>2. CASE p # named
      <3>1. named \in DOMAIN t /\ t[named].kind = Link /\ p = <<t[named].to>>  BY <2>2 DEF Follow
      <3>2. t[named].to \in STRING  BY <3>1 DEF Formed, Rooted, IsNode
      <3> QED  BY <3>1, <3>2
    <2>3. CASE p \notin DOMAIN t /\ p = named
      <3>1. p # <<>> /\ KindAt(t, p) = Absent  BY <1>2, <2>3 DEF KindAt
      <3>2. Enterable(t, DirOf(o, who, s.d).path)  BY <1>2, <3>1
      <3>3. s.n # "."
        BY <2>3, <3>1, <3>2 DEF PathOf, Enterable
      <3> QED  BY <2>3, <3>2, <3>3, PathIs
    <2> QED  BY <2>1, <2>2, <2>3
  <1>3. ASSUME NEW size, NEW h,
               KindAt(t, p) # Absent \/ Enterable(t, DirOf(o, who, s.d).path), KindAt(t, p) # Directory,
               a.os = Take([o EXCEPT !.tree = Put(t, p, Node(File, size, ""))], who, s.f, h)
        PROVE  Same(o, who, a.os)
    <2> DEFINE node == Node(File, size, "")
               grown == Put(t, p, node)
    <2>1. IsNode(node) /\ ~node.doomed  BY NewNodes, Zenon
    <2> HIDE DEF node
    <2>2. Rooted(grown)  BY <1>2, <1>3, <2>1, PutRooted DEF Formed
    <2> HIDE DEF grown
    <2>3. Formed([o EXCEPT !.tree = grown])  BY <2>2, OfTheTree
    <2>4. Same([o EXCEPT !.tree = grown], who, a.os)  BY <1>3, <2>3, TakeSame DEF grown, node
    <2> QED  BY <2>2, <2>4, OfTheTree DEF Same
  <1> QED  BY <1>1, <1>2, <1>3, Unchanging

LEMMA OpenDirSame ==
  ASSUME NEW o, Formed(o), NEW who, NEW s, NEW a \in DoOpenDir(o, who, s)
  PROVE  Same(o, who, a.os)
  <1>1. a.os = o \/ \E h : a.os = Take(o, who, s.f, h)  BY Answering DEF DoOpenDir
  <1> QED  BY <1>1, Unchanging, TakeSame

LEMMA AttenuateSame ==
  ASSUME NEW o, Formed(o), NEW who, NEW vs, NEW s, NEW a \in DoAttenuate(o, who, vs, s)
  PROVE  Same(o, who, a.os)
  <1>1. a.os = o \/ \E h : a.os = Take(o, who, s.f, h)  BY Answering DEF DoAttenuate
  <1> QED  BY <1>1, Unchanging, TakeSame

\* The calls of the tree alone.
LEMMA MadeSame ==
  ASSUME NEW o, Formed(o), NEW who, NEW vs, NEW s, s.n \in STRING, s.to \in STRING,
         NEW a \in DoMkdir(o, who, s) \cup DoLinkCreate(o, who, vs, s)
  PROVE  Same(o, who, a.os)
  <1> DEFINE p == PathOf(o, who, s)
  <1>1. \/ a.os = o
        \/ /\ KindAt(o.tree, p) = Absent /\ Enterable(o.tree, DirOf(o, who, s.d).path)
           /\ \E node : /\ IsNode(node) /\ ~node.doomed
                       /\ a.os = [o EXCEPT !.tree = Put(o.tree, p, node)]
    <2>1. IsNode(Node(Link, 0, s.to)) /\ ~Node(Link, 0, s.to).doomed  BY NodesAreNodes
    <2>2. CASE a \in DoMkdir(o, who, s)  BY <2>2, NewNodes, Answering, Zenon DEF DoMkdir
    <2>3. CASE a \in DoLinkCreate(o, who, vs, s)  BY <2>1, <2>3, Answering DEF DoLinkCreate
    <2> QED  BY <2>2, <2>3
  <1>2. ASSUME KindAt(o.tree, p) = Absent, Enterable(o.tree, DirOf(o, who, s.d).path),
               NEW node, IsNode(node), ~node.doomed,
               a.os = [o EXCEPT !.tree = Put(o.tree, p, node)]
        PROVE  Same(o, who, a.os)
    <2>1. p # <<>> /\ p \notin DOMAIN o.tree
      <3>1. \A q \in DOMAIN o.tree : o.tree[q].kind # Absent
        <4>1. \A q \in DOMAIN o.tree : IsNode(o.tree[q])  BY DEF Formed, Rooted
        <4>2. \A n : IsNode(n) => n.kind \in {File, Directory, Link}  BY DEF IsNode
        <4> QED  BY <4>1, <4>2 DEF Absent, File, Directory, Link
      <3> QED  BY <1>2, <3>1 DEF KindAt, Absent, Directory
    <2>2. s.n # "."  BY <1>2, <2>1 DEF PathOf, Enterable
    <2>3. Rooted(Put(o.tree, p, node))  BY <1>2, <2>2, PathIs, PutRooted DEF Formed
    <2>4. Same(o, who, [o EXCEPT !.tree = Put(o.tree, p, node)])  BY <2>3, OfTheTree
    <2> QED  BY <1>2, <2>4
  <1> QED  BY <1>1, <1>2, Unchanging

LEMMA RemoveSame ==
  ASSUME NEW o, Formed(o), NEW who, NEW vs, NEW s, NEW a \in DoRemove(o, who, vs, s)
  PROVE  Same(o, who, a.os)
  <1> DEFINE p == PathOf(o, who, s)
             t == o.tree
             node == [t[p] EXCEPT !.doomed = TRUE]
  <1>1. \/ a.os = o
        \/ /\ Children(t, p) = {}
           /\ a.os = [o EXCEPT !.tree = Drop(t, {p})] \/ a.os = [o EXCEPT !.tree = [t EXCEPT ![p] = node]]
    BY Answering DEF DoRemove
  <1>2. CASE Children(t, p) = {} /\ a.os = [o EXCEPT !.tree = Drop(t, {p})]
    <2>1. Rooted(t) /\ Childless(t, p)  BY <1>2, NoChildren DEF Formed
    <2>2. Rooted(Drop(t, {p}))  BY <2>1, DropRooted DEF Childless
    <2> QED  BY <1>2, <2>2, OfTheTree
  <1>3. CASE Children(t, p) = {} /\ a.os = [o EXCEPT !.tree = [t EXCEPT ![p] = node]]
    <2>1. Rooted(t) /\ Childless(t, p)  BY <1>3, NoChildren DEF Formed
    <2>2. p \in DOMAIN t => IsNode(node)
      <3>1. p \in DOMAIN t => IsNode(t[p])  BY <2>1 DEF Rooted
      <3> QED  BY <3>1, DoomedIsOne
    <2> HIDE DEF node
    <2>3. Rooted([t EXCEPT ![p] = node])  BY <2>1, <2>2, ChangeRooted
    <2> QED  BY <1>3, <2>3, OfTheTree
  <1> QED  BY <1>1, <1>2, <1>3, Unchanging

LEMMA RenameSame ==
  ASSUME NEW o, Formed(o), NEW who, NEW s, s.n \in STRING, s.to \in STRING,
         NEW a \in DoRename(o, who, s)
  PROVE  Same(o, who, a.os)
  <1> DEFINE d == DirOf(o, who, s.d).path
             t == o.tree
             p == Append(d, s.n)
             q == Append(d, s.to)
             left == Drop(t, {p})
  <1>1. \/ a.os = o
        \/ /\ p \in DOMAIN t /\ Enterable(t, d) /\ Children(t, q) = {} /\ Children(t, p) = {}
           /\ a.os = [o EXCEPT !.tree = Put(left, q, t[p])]
    <2> DEFINE to == [s EXCEPT !.n = s.to]
               from == PathOf(o, who, s)
               into == PathOf(o, who, to)
    <2>1. \/ a.os = o
          \/ /\ s.n # "." /\ s.to # "." /\ from \in DOMAIN t
             /\ Enterable(t, d) /\ Children(t, into) = {} /\ Children(t, from) = {}
             /\ a.os = [o EXCEPT !.tree = Put(Drop(t, {from}), into, t[from])]
      BY Answering DEF DoRename
    <2>2. s.n # "." => from = p  BY DEF PathOf
    <2>3. s.to # "." => into = q  BY DEF PathOf
    <2> HIDE DEF to, from, into, p, q, d
    <2> QED  BY <2>1, <2>2, <2>3
  <1>2. ASSUME p \in DOMAIN t, Enterable(t, d), Children(t, q) = {}, Children(t, p) = {}
        PROVE  Rooted(Put(left, q, t[p]))
    <2>1. d \in Seq(STRING)
      <3>1. d = <<>> \/ d \in DOMAIN t  BY <1>2, Zenon DEF Enterable
      <3>2. d \in DOMAIN t => d \in Seq(STRING)  BY DEF Formed, Rooted
      <3>3. <<>> \in Seq(STRING)  OBVIOUS
      <3> QED  BY <3>1, <3>2, <3>3, Zenon
    <2>2. /\ q \in Seq(STRING) /\ Len(q) = Len(d) + 1 /\ Parent(q) = d /\ p # d
      BY <2>1, ParentIs
    <2>3. Rooted(t) /\ Childless(t, p) /\ Childless(t, q)  BY <1>2, NoChildren DEF Formed
    <2>4. Rooted(left)  BY <2>3, DropRooted DEF Childless
    <2>5. DOMAIN left = DOMAIN t \ {p} /\ \A x \in DOMAIN left : left[x] = t[x]  BY DEF Drop
    <2>6. IsNode(t[p])  BY <1>2, <2>3 DEF Rooted
    <2>7. d = <<>> => Len(d) = 0  OBVIOUS
    <2> HIDE DEF left, p, q, d
    <2>8. Len(q) > 1 => Parent(q) \in DOMAIN left /\ ~left[Parent(q)].doomed
      BY <1>2, <2>2, <2>5, <2>7 DEF Enterable
    <2>9. Childless(left, q)  BY <2>3, <2>5 DEF Childless
    <2> QED  BY <2>2, <2>4, <2>6, <2>8, <2>9, PutRooted
  <1> QED  BY <1>1, <1>2, OfTheTree, Unchanging

LEMMA TreeCallsSame ==
  ASSUME NEW o, Formed(o), NEW who, NEW vs, NEW s, s.n \in STRING, s.to \in STRING,
         NEW a \in DoMkdir(o, who, s) \cup DoRemove(o, who, vs, s) \cup DoRename(o, who, s)
                   \cup DoLinkCreate(o, who, vs, s) \cup DoInfo(o, who, s) \cup DoMark(o, who, vs, s)
  PROVE  Same(o, who, a.os)
  <1>1. CASE a \in DoMkdir(o, who, s) \cup DoLinkCreate(o, who, vs, s)  BY <1>1, MadeSame
  <1>2. CASE a \in DoRemove(o, who, vs, s)  BY <1>2, RemoveSame
  <1>3. CASE a \in DoRename(o, who, s)  BY <1>3, RenameSame
  <1>4. CASE a \in DoInfo(o, who, s) \cup DoMark(o, who, vs, s)
    <2>1. a.os = o  BY <1>4, Answering DEF DoInfo, DoMark
    <2> QED  BY <2>1, Unchanging
  <1> QED  BY <1>1, <1>2, <1>3, <1>4

LEMMA FileCallsSame ==
  ASSUME NEW o, Formed(o), NEW who, NEW s, s.do \in OfFiles, NEW a \in OnFile(o, who, s)
  PROVE  Same(o, who, a.os)
  <1> DEFINE x == <<who, s.f>>
             h == HandleOf(o, who, s.f)
  <1>1. \A p, at : Formed(p) /\ p.procs = o.procs /\ p.held = o.held =>
                     Same(o, who, Moved(p, who, s.f, at))
    <2> SUFFICES ASSUME NEW p, NEW at, Formed(p), p.procs = o.procs, p.held = o.held
                 PROVE  Same(o, who, Moved(p, who, s.f, at))
      OBVIOUS
    <2>1. Moved(p, who, s.f, at) = [p EXCEPT !.held = [p.held EXCEPT ![x].at = at]]  BY DEF Moved
    <2>2. Same(p, who, Moved(p, who, s.f, at))  BY <2>1, OfWhatIsHeld
    <2> QED  BY <2>2 DEF Same
  <1>2. \A to : /\ Formed(Grown(o, h, to)) /\ Grown(o, h, to).procs = o.procs
                /\ Grown(o, h, to).held = o.held
    <2> SUFFICES ASSUME NEW to
                 PROVE  /\ Formed(Grown(o, h, to)) /\ Grown(o, h, to).procs = o.procs
                        /\ Grown(o, h, to).held = o.held
      OBVIOUS
    <2> DEFINE grown == [o.tree EXCEPT ![h.path].size = to]
    <2>1. Grown(o, h, to) = o \/ Grown(o, h, to) = [o EXCEPT !.tree = grown]  BY DEF Grown
    <2>2. Rooted(grown)  BY SizeIsOfANode DEF Formed
    <2> HIDE DEF grown
    <2>3. /\ Formed([o EXCEPT !.tree = grown]) /\ [o EXCEPT !.tree = grown].procs = o.procs
          /\ [o EXCEPT !.tree = grown].held = o.held
      BY <2>2, OfTheTree
    <2> HIDE DEF h
    <2> QED  BY <2>1, <2>3
  <1>3. \A to : Same(o, who, Grown(o, h, to))  BY <1>2 DEF Same
  <1>4. CASE s.do \in {"read", "read_all", "read_at", "position", "size"}
    <2>1. a.os = o \/ \E at : a.os = Moved(o, who, s.f, at)
      <3>1. CASE s.do = "read"  BY <3>1 DEF OnFile
      <3>2. CASE s.do \in {"read_all", "read_at", "position", "size"}  BY <3>2, Answering DEF OnFile
      <3> QED  BY <1>4, <3>1, <3>2
    <2> QED  BY <1>1, <2>1, Unchanging
  <1>5. CASE s.do = "write"
    <2>1. \E to, at : a.os = Moved(Grown(o, h, to), who, s.f, at)  BY <1>5, Answering DEF OnFile
    <2> QED  BY <1>1, <1>2, <2>1
  <1>6. CASE s.do = "write_at"
    <2>1. \E to : a.os = Grown(o, h, to)  BY <1>6, Answering DEF OnFile
    <2> QED  BY <1>3, <2>1
  <1>7. CASE s.do = "seek"
    <2>1. \E at : a.os = Moved(o, who, s.f, at)  BY <1>7, Answering DEF OnFile
    <2> QED  BY <1>1, <2>1
  <1>8. CASE s.do = "truncate"
    <2> DEFINE cut == [o.tree EXCEPT ![h.path].size = s.k]
    <2>1. a.os = o \/ a.os = [o EXCEPT !.tree = cut]  BY <1>8, Answering DEF OnFile
    <2>2. Rooted(cut)  BY SizeIsOfANode DEF Formed
    <2> HIDE DEF cut
    <2> QED  BY <2>1, <2>2, OfTheTree, Unchanging
  <1>9. CASE s.do \in {"lock", "unlock"}
    <2>1. \/ a.os = o
          \/ a.os = [o EXCEPT !.held = [o.held EXCEPT ![x].locked = TRUE]]
          \/ a.os = [o EXCEPT !.held = [o.held EXCEPT ![x].locked = FALSE]]
      BY <1>9, Answering DEF OnFile
    <2> QED  BY <2>1, Unchanging, OfWhatIsHeld
  <1> QED  BY <1>4, <1>5, <1>6, <1>7, <1>8, <1>9 DEF OfFiles

-----------------------------------------------------------------------------
\* The calls that start or end a copy.

LEMMA CallIs ==
  ASSUME NEW s \in Call
  PROVE  /\ s.do \in Operations /\ s.k \in Nat /\ s.how \in SUBSET STRING
         /\ s.n \in STRING /\ s.to \in STRING
         /\ s.do = "spawn" => s.to \in DOMAIN errands \cup NoPrograms
  BY DEF Call

\* What Started gives: the copy that runs, and what it and its starter hold then.
LEMMA StartedEvolves ==
  ASSUME NEW o, Sound(o), NEW who, Acts(o, who), NEW s, s.to \in DOMAIN errands,
         s.how \in SUBSET STRING, Idle(o) # {}
  PROVE  Evolves(o, Started(o, who, s))
  <1> DEFINE c == CHOOSE d \in Idle(o) : TRUE
             copy == [NoCopy EXCEPT !.state = "running", !.errand = s.to, !.how = s.how]
             run == [o EXCEPT !.procs[c] = copy]
             got == Take(run, who, s.f, [kind |-> "process", of |-> c])
             unit == IF "job" \in s.how THEN Take(got, who, "unit", [kind |-> "job", of |-> c]) ELSE got
             Give(p, g) == IF Granting(s.how) /\ Holds(o, who, g) THEN Take(p, c, g, HandleOf(o, who, g)) ELSE p
  <1>1. c \in CopyNames /\ o.procs[c].state = "none"  BY DEF Idle
  <1>2. copy \in Copies /\ copy.state = "running" /\ copy.errand = s.to
    <2> DEFINE r1 == [NoCopy EXCEPT !.state = "running"]
    <2>1. r1 \in Copies /\ r1.state = "running"  BY NoCopyIsOne DEF Copies
    <2> DEFINE r2 == [r1 EXCEPT !.errand = s.to]
    <2> HIDE DEF r1
    <2>2. r2 \in Copies /\ r2.state = "running" /\ r2.errand = s.to  BY <2>1 DEF Copies
    <2> HIDE DEF r2
    <2>3. /\ [r2 EXCEPT !.how = s.how] \in Copies
          /\ [r2 EXCEPT !.how = s.how].state = "running" /\ [r2 EXCEPT !.how = s.how].errand = s.to
      BY <2>2 DEF Copies
    <2> QED  BY <2>3 DEF r1, r2
  <1> HIDE DEF copy, c
  <1>3. Formed(run) /\ run.procs = [o.procs EXCEPT ![c] = copy] /\ run.held = o.held
    BY DEF Sound, Formed, Shape
  <1> HIDE DEF run
  <1>4. Evolves(o, run) /\ Acts(run, who) /\ Acts(run, c)
    BY <1>1, <1>2, <1>3 DEF Sound, Evolves, Acts
  <1>5. Same(run, who, got)  BY <1>3, TakeSame
  <1> HIDE DEF got
  <1>6. Same(run, who, unit)
    <2>1. Formed(got) /\ Same(got, who, unit)  BY <1>5, TakeSame, Unchanging DEF Same
    <2> QED  BY <1>5, <2>1 DEF Same
  <1> HIDE DEF unit
  <1>7. Evolves(run, unit) /\ Acts(unit, c)  BY <1>4, <1>6, SameEvolves DEF Evolves, Same, Acts
  <1>8. \A p, g : Formed(p) => Same(p, c, Give(p, g))
    <2> SUFFICES ASSUME NEW p, NEW g, Formed(p) PROVE Same(p, c, Give(p, g))  OBVIOUS
    <2>1. Give(p, g) = p \/ Give(p, g) = Take(p, c, g, HandleOf(o, who, g))  OBVIOUS
    <2> HIDE DEF Give
    <2> QED  BY <2>1, Unchanging, TakeSame
  <1>9. Started(o, who, s) = Give(Give(unit, "grant_a"), "grant_b")
    BY DEF Started, unit, got, run, copy, c
  <1> HIDE DEF Give
  <1>10. Same(unit, c, Give(unit, "grant_a"))  BY <1>7, <1>8 DEF Evolves, Sound
  <1>11. Same(Give(unit, "grant_a"), c, Give(Give(unit, "grant_a"), "grant_b"))
    BY <1>8, <1>10 DEF Same
  <1>12. Same(unit, c, Started(o, who, s))  BY <1>9, <1>10, <1>11 DEF Same
  <1>13. Evolves(unit, Started(o, who, s))
    BY <1>7, <1>12, SameEvolves DEF Evolves
  <1>14. unit.procs = run.procs /\ run.procs = [o.procs EXCEPT ![c] = copy]
    BY <1>3, <1>6 DEF Same
  <1>15. Started(o, who, s).procs = run.procs  BY <1>12, <1>14 DEF Same
  <1> QED  BY <1>1, <1>2, <1>13, <1>14, <1>15 DEF Evolves, Sound

LEMMA SpawnEvolves ==
  ASSUME NEW o, Sound(o), NEW who, Acts(o, who), NEW vs, NEW s \in Call, s.do = "spawn",
         NEW a \in DoSpawn(o, who, vs, s)
  PROVE  Evolves(o, a.os)
  <1>1. s.to \in DOMAIN errands \cup NoPrograms /\ s.how \in SUBSET STRING  BY CallIs
  <1>2. \/ a.os = o
        \/ s.to \notin NoPrograms /\ Idle(o) # {} /\ a.os = Started(o, who, s)
    BY Answering DEF DoSpawn, NoPrograms
  <1>3. Evolves(o, o)  BY DEF Evolves
  <1> QED  BY <1>1, <1>2, <1>3, StartedEvolves

LEMMA ReflexiveEvolves ==
  ASSUME NEW o, Sound(o)
  PROVE  Evolves(o, o)
  BY DEF Evolves

\* A change of what is known of one copy, but for its errand and whether it runs.
LEMMA OfACopyEvolves ==
  ASSUME NEW o, Sound(o), NEW c, NEW p, Formed(p), p.held = o.held,
         NEW copy, p.procs = [o.procs EXCEPT ![c] = copy],
         c \in CopyNames => /\ copy \in Copies /\ copy.state = o.procs[c].state
                            /\ copy.errand = o.procs[c].errand
  PROVE  Evolves(o, p)
  BY DEF Evolves, Sound

LEMMA MarkedCopies ==
  ASSUME NEW copy \in Copies
  PROVE  \A marked \in {[copy EXCEPT !.asked = TRUE], [copy EXCEPT !.took = TRUE],
                      [copy EXCEPT !.limited = TRUE], [copy EXCEPT !.memory = @ + 1]} :
           marked \in Copies /\ marked.state = copy.state /\ marked.errand = copy.errand
  <1>1. /\ [copy EXCEPT !.asked = TRUE] \in Copies
        /\ [copy EXCEPT !.asked = TRUE].state = copy.state
        /\ [copy EXCEPT !.asked = TRUE].errand = copy.errand
    BY DEF Copies
  <1>2. /\ [copy EXCEPT !.took = TRUE] \in Copies
        /\ [copy EXCEPT !.took = TRUE].state = copy.state
        /\ [copy EXCEPT !.took = TRUE].errand = copy.errand
    BY DEF Copies
  <1>3. /\ [copy EXCEPT !.limited = TRUE] \in Copies
        /\ [copy EXCEPT !.limited = TRUE].state = copy.state
        /\ [copy EXCEPT !.limited = TRUE].errand = copy.errand
    BY DEF Copies
  <1>4. /\ [copy EXCEPT !.memory = @ + 1] \in Copies
        /\ [copy EXCEPT !.memory = @ + 1].state = copy.state
        /\ [copy EXCEPT !.memory = @ + 1].errand = copy.errand
    <2>0. copy.memory \in Nat  BY DEF Copies
    <2>1. copy.memory + 1 \in Nat  BY <2>0
    <2>2. \A n \in Nat : /\ [copy EXCEPT !.memory = n] \in Copies
                         /\ [copy EXCEPT !.memory = n].state = copy.state
                         /\ [copy EXCEPT !.memory = n].errand = copy.errand
      BY DEF Copies
    <2> QED  BY <2>1, <2>2
  <1> QED  BY <1>1, <1>2, <1>3, <1>4

LEMMA MarkedEvolves ==
  ASSUME NEW o, Sound(o), NEW c
  PROVE  /\ Evolves(o, [o EXCEPT !.procs[c].asked = TRUE])
         /\ Evolves(o, [o EXCEPT !.procs[c].took = TRUE])
         /\ Evolves(o, [o EXCEPT !.procs[c].limited = TRUE])
         /\ Evolves(o, [o EXCEPT !.procs[c].memory = @ + 1])
  <1>1. ASSUME NEW copy,
               c \in CopyNames => /\ copy \in Copies /\ copy.state = o.procs[c].state
                                  /\ copy.errand = o.procs[c].errand
        PROVE  Evolves(o, [o EXCEPT !.procs = [o.procs EXCEPT ![c] = copy]])
    <2> DEFINE p == [o EXCEPT !.procs = [o.procs EXCEPT ![c] = copy]]
    <2>1. Formed(p) /\ p.held = o.held /\ p.procs = [o.procs EXCEPT ![c] = copy]
      BY DEF Sound, Formed, Shape
    <2> HIDE DEF p
    <2>2. Evolves(o, p)  BY <1>1, <2>1, OfACopyEvolves
    <2> QED  BY <2>2 DEF p
  <1>2. c \in CopyNames => o.procs[c] \in Copies  BY DEF Sound
  <1>3. Evolves(o, [o EXCEPT !.procs[c].asked = TRUE])
    <2> DEFINE marked == [o.procs[c] EXCEPT !.asked = TRUE]
    <2>1. c \in CopyNames => marked \in Copies /\ marked.state = o.procs[c].state /\ marked.errand = o.procs[c].errand
      BY <1>2, MarkedCopies
    <2> QED  BY <1>1, <2>1
  <1>4. Evolves(o, [o EXCEPT !.procs[c].took = TRUE])
    <2> DEFINE marked == [o.procs[c] EXCEPT !.took = TRUE]
    <2>1. c \in CopyNames => marked \in Copies /\ marked.state = o.procs[c].state /\ marked.errand = o.procs[c].errand
      BY <1>2, MarkedCopies
    <2> QED  BY <1>1, <2>1
  <1>5. Evolves(o, [o EXCEPT !.procs[c].limited = TRUE])
    <2> DEFINE marked == [o.procs[c] EXCEPT !.limited = TRUE]
    <2>1. c \in CopyNames => marked \in Copies /\ marked.state = o.procs[c].state /\ marked.errand = o.procs[c].errand
      BY <1>2, MarkedCopies
    <2> QED  BY <1>1, <2>1
  <1>6. Evolves(o, [o EXCEPT !.procs[c].memory = @ + 1])
    <2> DEFINE marked == [o.procs[c] EXCEPT !.memory = @ + 1]
    <2>1. c \in CopyNames => marked \in Copies /\ marked.state = o.procs[c].state /\ marked.errand = o.procs[c].errand
      BY <1>2, MarkedCopies
    <2> QED  BY <1>1, <2>1
  <1> QED  BY <1>3, <1>4, <1>5, <1>6

LEMMA TerminateEvolves ==
  ASSUME NEW o, Sound(o), NEW who, NEW s, NEW a \in DoTerminate(o, who, s)
  PROVE  Evolves(o, a.os)
  <1> DEFINE c == HandleOf(o, who, s.f).of
  <1>1. \/ a.os = o
        \/ a.os = Ended(o, c, Terminated)
        \/ a.os = [o EXCEPT !.procs[c].asked = TRUE]
    BY Answering DEF DoTerminate
  <1>2. Evolves(o, Ended(o, c, Terminated))  BY EndedEvolves DEF Terminated
  <1>3. Evolves(o, [o EXCEPT !.procs[c].asked = TRUE])  BY MarkedEvolves
  <1> QED  BY <1>1, <1>2, <1>3, ReflexiveEvolves

LEMMA UnitCallsEvolve ==
  ASSUME NEW o, Sound(o), NEW who, NEW s, s.do \in {"job_terminate", "job_limit", "await_use"},
         NEW a \in OnUnit(o, who, s)
  PROVE  Evolves(o, a.os)
  <1> DEFINE c == HandleOf(o, who, s.f).of
  <1>1. \/ a.os = o
        \/ a.os = Ended(o, c, Terminated)
        \/ a.os = [o EXCEPT !.procs[c].limited = TRUE]
    BY Answering DEF OnUnit
  <1>2. Evolves(o, Ended(o, c, Terminated))  BY EndedEvolves DEF Terminated
  <1>3. Evolves(o, [o EXCEPT !.procs[c].limited = TRUE])  BY MarkedEvolves
  <1> QED  BY <1>1, <1>2, <1>3, ReflexiveEvolves

\* What a copy does of itself, and that it ends where its errand has it end.
LEMMA ItselfEvolves ==
  ASSUME NEW o, Sound(o), NEW c, NEW s, s.k \in Nat, s.do \in OfACopy, NEW a \in OfItself(o, c, s)
  PROVE  /\ Evolves(o, a.os)
         /\ Ends(s) /\ c \in CopyNames => a.os.procs[c].state # "running"
  <1>1. ASSUME NEW result \in Nat, a.os = Ended(o, c, result)
        PROVE  /\ Evolves(o, a.os)
               /\ c \in CopyNames => a.os.procs[c].state # "running"
    BY <1>1, EndedEvolves
  <1>2. CASE s.do = "exit"
    <2>1. a.os = Ended(o, c, s.k)  BY <1>2, Answering DEF OfItself
    <2> QED  BY <1>1, <2>1
  <1>3. CASE s.do \in {"end_as_requested", "fault", "abort"}
    <2>1. a.os = Ended(o, c, Terminated)  BY <1>3, Answering DEF OfItself
    <2> QED  BY <1>1, <2>1 DEF Terminated
  <1>4. CASE s.do = "wait_for_ever"  BY <1>4 DEF OfItself
  <1>5. CASE s.do \in {"take_over", "grow"}
    <2>1. CASE s.do = "take_over"
      <3>1. a.os = [o EXCEPT !.procs[c].took = TRUE]  BY <2>1, Answering DEF OfItself
      <3>2. Evolves(o, [o EXCEPT !.procs[c].took = TRUE])  BY MarkedEvolves
      <3> QED  BY <2>1, <3>1, <3>2 DEF Ends
    <2>2. CASE s.do = "grow"
      <3>1. a.os = Ended(o, c, Limited) \/ a.os = [o EXCEPT !.procs[c].memory = @ + 1]
        BY <2>2, Answering DEF OfItself
      <3>2. CASE a.os = Ended(o, c, Limited)  BY <1>1, <3>2 DEF Limited
      <3>3. CASE a.os = [o EXCEPT !.procs[c].memory = @ + 1]
        <4>1. Evolves(o, [o EXCEPT !.procs[c].memory = @ + 1])  BY MarkedEvolves
        <4> QED  BY <2>2, <3>3, <4>1 DEF Ends
      <3> QED  BY <3>1, <3>2, <3>3
    <2> QED  BY <1>5, <2>1, <2>2
  <1>6. CASE s.do \in {"await_request", "wait_long", "own_name", "null_device", "preopens", "preference"}
    <2>1. a.os = o \/ a.os = Ended(o, c, Limited)
      <3>1. CASE s.do = "await_request"  BY <3>1, Answering DEF OfItself
      <3>2. CASE s.do = "wait_long"  BY <3>2, Answering DEF OfItself
      <3>3. CASE s.do = "own_name"  BY <3>3, Answering DEF OfItself
      <3>4. CASE s.do = "null_device"  BY <3>4, Answering DEF OfItself
      <3>5. CASE s.do = "preopens"  BY <3>5, Answering DEF OfItself
      <3>6. CASE s.do = "preference"  BY <3>6, Answering DEF OfItself
      <3> QED  BY <1>6, <3>1, <3>2, <3>3, <3>4, <3>5, <3>6
    <2>2. ~Ends(s)  BY <1>6 DEF Ends
    <2> QED  BY <1>1, <2>1, <2>2, ReflexiveEvolves DEF Limited
  <1> QED  BY <1>2, <1>3, <1>4, <1>5, <1>6 DEF OfACopy

LEMMA CloseEvolves ==
  ASSUME NEW o, Sound(o), NEW who, Acts(o, who), NEW f
  PROVE  Evolves(o, Reaped(Let(o, {<<who, f>>})))
  <1> DEFINE p == Let(o, {<<who, f>>})
  <1>1. Same(o, who, p)  BY LetSame DEF Sound
  <1>2. Evolves(o, p) /\ p.procs = o.procs  BY <1>1, SameEvolves DEF Same
  <1> HIDE DEF p
  <1>3. Evolves(p, Reaped(p))  BY <1>2, ReapedEvolves DEF Evolves
  <1>4. Evolves(o, Reaped(p))  BY <1>2, <1>3, EvolvesAgain
  <1> QED  BY <1>4 DEF p

\* Every call: whatever a program asks of the environment, a program that has
\* ended holds nothing, and a copy that runs on is about its errand.
LEMMA DoEvolves ==
  ASSUME NEW o, Sound(o), NEW who, Acts(o, who), NEW vs, NEW s \in Call, NEW a \in Do(o, who, vs, s)
  PROVE  /\ Evolves(o, a.os)
         /\ Ends(s) /\ who \in CopyNames => a.os.procs[who].state # "running"
  <1>1. s.do \in Operations /\ s.k \in Nat /\ s.n \in STRING /\ s.to \in STRING  BY CallIs
  <1>2. Formed(o)  BY DEF Sound
  <1>3. Same(o, who, a.os) => Evolves(o, a.os)  BY SameEvolves
  <1>4. a.os = o => Evolves(o, a.os)  BY ReflexiveEvolves
  <1>5. CASE (UsesHandle(s) /\ ~Holds(o, who, s.f)) \/ (UsesDir(s) /\ ~Holds(o, who, s.d))
    <2>1. a.os = o  BY <1>5, Answering DEF Do
    <2>2. ~Ends(s)  BY <1>5 DEF Ends, UsesDir, UsesHandle, OfHandles, OfFiles
    <2> QED  BY <1>4, <2>1, <2>2
  <1>6. CASE ~((UsesHandle(s) /\ ~Holds(o, who, s.f)) \/ (UsesDir(s) /\ ~Holds(o, who, s.d)))
    <2>1. CASE s.do \in OfFiles
      <3>1. a \in OnFile(o, who, s)  BY <1>6, <2>1 DEF Do, OfFiles, OfACopy
      <3> QED  BY <1>2, <1>3, <2>1, <3>1, FileCallsSame DEF Ends, OfFiles
    <2>2. CASE s.do = "open"
      <3>1. a \in DoOpen(o, who, s)  BY <1>6, <2>2 DEF Do, OfFiles, OfACopy
      <3> QED  BY <1>1, <1>2, <1>3, <2>2, <3>1, OpenSame DEF Ends
    <2>3. CASE s.do = "open_dir"
      <3>1. a \in DoOpenDir(o, who, s)  BY <1>6, <2>3 DEF Do, OfFiles, OfACopy
      <3> QED  BY <1>2, <1>3, <2>3, <3>1, OpenDirSame DEF Ends
    <2>4. CASE s.do \in {"close", "free"}
      <3>1. a.os = Reaped(Let(o, {<<who, s.f>>}))  BY <1>6, <2>4, Answering DEF Do, OfFiles, OfACopy
      <3> QED  BY <2>4, <3>1, CloseEvolves DEF Ends
    <2>5. CASE s.do \in {"mkdir", "remove", "rename", "info", "link_create", "mark"}
      <3>1. a \in DoMkdir(o, who, s) \cup DoRemove(o, who, vs, s) \cup DoRename(o, who, s)
                  \cup DoLinkCreate(o, who, vs, s) \cup DoInfo(o, who, s) \cup DoMark(o, who, vs, s)
        BY <1>6, <2>5 DEF Do, OfFiles, OfACopy
      <3> QED  BY <1>1, <1>2, <1>3, <2>5, <3>1, TreeCallsSame DEF Ends
    <2>6. CASE s.do = "attenuate"
      <3>1. a \in DoAttenuate(o, who, vs, s)  BY <1>6, <2>6 DEF Do, OfFiles, OfACopy
      <3> QED  BY <1>2, <1>3, <2>6, <3>1, AttenuateSame DEF Ends
    <2>7. CASE s.do = "spawn"
      <3>1. a \in DoSpawn(o, who, vs, s)  BY <1>6, <2>7 DEF Do, OfFiles, OfACopy
      <3> QED  BY <2>7, <3>1, SpawnEvolves DEF Ends
    <2>8. CASE s.do \in {"wait", "ended_as"}
      <3>1. a \in DoWait(o, who, s)  BY <1>6, <2>8 DEF Do, OfFiles, OfACopy
      <3>2. a.os = o  BY <3>1, Answering DEF DoWait
      <3> QED  BY <1>4, <2>8, <3>2 DEF Ends
    <2>9. CASE s.do = "terminate"
      <3>1. a \in DoTerminate(o, who, s)  BY <1>6, <2>9 DEF Do, OfFiles, OfACopy
      <3> QED  BY <2>9, <3>1, TerminateEvolves DEF Ends
    <2>10. CASE s.do \in {"job_terminate", "job_limit", "await_use"}
      <3>1. a \in OnUnit(o, who, s)  BY <1>6, <2>10 DEF Do, OfFiles, OfACopy
      <3> QED  BY <2>10, <3>1, UnitCallsEvolve DEF Ends
    <2>11. CASE s.do \in OfACopy
      <3>1. a \in OfItself(o, who, s)  BY <1>6, <2>11 DEF Do, OfFiles, OfACopy
      <3> QED  BY <1>1, <2>11, <3>1, ItselfEvolves
    <2>12. CASE s.do = "obtain"
      <3>1. \/ a.os = o
            \/ \E h : a.os = Take(o, who, s.f, h)
            \/ \E h, g : a.os = Take(Take(o, who, s.f, h), who, s.to, g)
        <4>1. a \in DoObtain(o, who, vs, s)  BY <1>6, <2>12 DEF Do, OfFiles, OfACopy
        <4> QED  BY <4>1, Answering DEF DoObtain
      <3>2. \A h : Same(o, who, Take(o, who, s.f, h))  BY <1>2, TakeSame
      <3>3. \A h, g : Same(o, who, Take(Take(o, who, s.f, h), who, s.to, g))
        <4> SUFFICES ASSUME NEW h, NEW g PROVE Same(o, who, Take(Take(o, who, s.f, h), who, s.to, g))
          OBVIOUS
        <4>1. Same(Take(o, who, s.f, h), who, Take(Take(o, who, s.f, h), who, s.to, g))
          BY <3>2, TakeSame DEF Same
        <4> QED  BY <3>2, <4>1 DEF Same
      <3> QED  BY <1>3, <1>4, <2>12, <3>1, <3>2, <3>3 DEF Ends
    <2>13. CASE s.do = "mode"
      <3>1. a.os = [o EXCEPT !.mode = s.how]  BY <1>6, <2>13, Answering DEF Do, OfFiles, OfACopy
      <3>2. Same(o, who, a.os)  BY <1>2, <3>1 DEF Same, Formed, Shape
      <3> QED  BY <1>3, <2>13, <3>2 DEF Ends
    <2>14. CASE s.do = "map_region"
      <3>1. \E h : a.os = Take(o, who, s.to, h)
        BY <1>6, <2>14, Answering DEF Do, OfFiles, OfACopy
      <3> QED  BY <1>2, <1>3, <2>14, <3>1, TakeSame DEF Ends
    <2>15. CASE s.do \in {"list", "link_read", "stale", "use", "bad", "answer", "may", "observe",
                         "unobserved", "return", "leave"}
      <3>1. a.os = o  BY <1>6, <2>15, Answering DEF Do, OfFiles, OfACopy
      <3> QED  BY <1>4, <2>15, <3>1 DEF Ends
    <2> QED
      BY <1>1, <2>1, <2>2, <2>3, <2>4, <2>5, <2>6, <2>7, <2>8, <2>9, <2>10, <2>11, <2>12, <2>13,
         <2>14, <2>15
      DEF Operations, OfHandles, Acquires
  <1> QED  BY <1>5, <1>6

-----------------------------------------------------------------------------
\* Where a program goes on.

LEMMA LeastOf ==
  ASSUME NEW S \in SUBSET Nat, S # {}
  PROVE  Alone!Min(S) \in S /\ \A n \in S : Alone!Min(S) <= n
  <1>1. PICK m \in S : \A n \in S : ~(<<n, m>> \in OpToRel(<, Nat))
    BY WFMin, NatLessThanWellFounded
  <1>2. \A n \in S : m <= n
    <2> SUFFICES ASSUME NEW n \in S, ~(m <= n) PROVE FALSE  OBVIOUS
    <2>1. n < m  OBVIOUS
    <2> QED  BY <1>1, <2>1 DEF OpToRel
  <1> QED  BY <1>2 DEF Alone!Min

LEMMA NextInBlock ==
  ASSUME NEW b \in Seq(Call), NEW i \in 1..Len(b) + 1, NEW vs
  PROVE  /\ Alone!NextIn(b, i, vs) \in i..Len(b) + 1
         /\ \A j \in i..Len(b) : Alone!IsMade(b[j], vs) => Alone!NextIn(b, i, vs) <= j
  <1> DEFINE S == {j \in i..Len(b) : Alone!IsMade(b[j], vs)} \cup {Len(b) + 1}
  <1>1. Len(b) \in Nat  OBVIOUS
  <1>2. S \in SUBSET Nat /\ S # {} /\ \A n \in S : n \in i..Len(b) + 1  BY <1>1
  <1>3. Alone!NextIn(b, i, vs) = Alone!Min(S)  BY DEF Alone!NextIn
  <1>4. \A j \in i..Len(b) : Alone!IsMade(b[j], vs) => j \in S  OBVIOUS
  <1> HIDE DEF S
  <1>5. Alone!Min(S) \in S /\ \A n \in S : Alone!Min(S) <= n  BY <1>2, LeastOf
  <1>6. Alone!NextIn(b, i, vs) \in i..Len(b) + 1  BY <1>2, <1>3, <1>5
  <1>7. \A j \in i..Len(b) : Alone!IsMade(b[j], vs) => Alone!NextIn(b, i, vs) <= j  BY <1>3, <1>4, <1>5
  <1> QED  BY <1>6, <1>7

\* A step of an errand that does not end its copy is followed by another.
LEMMA ErrandGoesOn ==
  ASSUME NEW e \in DOMAIN errands, NEW i \in DOMAIN errands[e], ~Ends(errands[e][i]), NEW vs
  PROVE  Alone!NextIn(errands[e], i + 1, vs) \in DOMAIN errands[e]
  <1> DEFINE b == errands[e]
             known == vs \cap Tested(b)
  <1>1. b \in Seq(Call)  BY ErrandsEnd
  <1>2. Len(b) \in Nat /\ DOMAIN b = 1..Len(b)  BY <1>1
  <1>3. PICK j \in DOMAIN b : j > i /\ Alone!IsMade(b[j], known)
    <2>1. known \in SUBSET Tested(b)  OBVIOUS
    <2> QED  BY <2>1, ErrandsEnd
  <1>4. Alone!IsMade(b[j], vs)
    <2> SUFFICES ASSUME NEW w \in b[j].when PROVE (w[1] \in vs) = w[2]  BY DEF Alone!IsMade
    <2>1. w[1] \in Tested(b)  BY DEF Tested
    <2>2. (w[1] \in known) = w[2]  BY <1>3 DEF Alone!IsMade
    <2> QED  BY <2>1, <2>2
  <1> HIDE DEF b
  <1>5. i + 1 \in 1..Len(b) + 1 /\ j \in i + 1..Len(b)  BY <1>2, <1>3 DEF b
  <1>6. Alone!NextIn(b, i + 1, vs) \in i + 1..Len(b) + 1 /\ Alone!NextIn(b, i + 1, vs) <= j
    BY <1>1, <1>4, <1>5, NextInBlock
  <1>7. Alone!NextIn(b, i + 1, vs) \in DOMAIN b  BY <1>2, <1>3, <1>5, <1>6
  <1> QED  BY <1>7 DEF b

-----------------------------------------------------------------------------
\* The suite is at a step of its source, or past the last of its sections.
SuitePlace ==
  /\ pc \in Nat \X Nat \X Nat
  /\ pc = Alone!End \/ (pc[1] \in DOMAIN Suite /\ pc[2] \in DOMAIN Suite[pc[1]] /\ pc[3] \in DOMAIN Alone!Block)

\* So is a copy of its errand, and one that does not run will begin with the first.
CopyPlaces ==
  /\ copy_pc \in [CopyNames -> Nat]
  /\ \A c \in CopyNames :
       IF os.procs[c].state = "running" THEN copy_pc[c] \in DOMAIN errands[os.procs[c].errand]
       ELSE copy_pc[c] = 1

Outcome == mishaps \in [refused : Nat, killed : Nat] /\ verdict \in {0, 1, 2, 9}

IInv == Sound(os) /\ SuitePlace /\ CopyPlaces /\ Outcome

LEMMA SuiteIs ==
  /\ Suite \in Seq(Seq(Seq(Call))) /\ Len(Suite) \in Nat /\ Len(Suite) >= 1
  /\ \A i \in DOMAIN Suite : /\ Suite[i] \in Seq(Seq(Call)) /\ Len(Suite[i]) \in Nat /\ Len(Suite[i]) >= 1
                             /\ \A j \in DOMAIN Suite[i] : /\ Suite[i][j] \in Seq(Call)
                                                           /\ Len(Suite[i][j]) \in Nat
                                                           /\ Len(Suite[i][j]) >= 1
  <1>1. Suite \in Seq(Seq(Seq(Call))) /\ Suite # <<>>  BY SectionsAreCalls
  <1>2. \A i \in DOMAIN Suite : Suite[i] \in Seq(Seq(Call)) /\ Suite[i] # <<>>
    BY <1>1, SectionsAreCalls
  <1>3. \A i \in DOMAIN Suite : \A j \in DOMAIN Suite[i] : Suite[i][j] \in Seq(Call) /\ Suite[i][j] # <<>>
    BY <1>2, SectionsAreCalls
  <1>4. \A S, T : T \in Seq(S) /\ T # <<>> => Len(T) \in Nat /\ Len(T) >= 1  OBVIOUS
  <1> QED  BY <1>1, <1>2, <1>3, <1>4

LEMMA ErrandsBegin ==
  ASSUME NEW e \in DOMAIN errands
  PROVE  1 \in DOMAIN errands[e] /\ errands[e] \in Seq(Call)
  <1>1. errands[e] \in Seq(Call) /\ errands[e] # <<>>  BY ErrandsEnd
  <1> QED  BY <1>1

\* Where the suite goes on from a step is a step, or the end.
LEMMA AfterAStep ==
  ASSUME SuitePlace, Alone!Running, NEW vs, NEW next, next = Alone!Onward(vs)
  PROVE  /\ next \in Nat \X Nat \X Nat
         /\ \/ next = Alone!End
            \/ /\ next[1] \in DOMAIN Suite /\ next[2] \in DOMAIN Suite[next[1]]
               /\ next[3] \in DOMAIN Suite[next[1]][next[2]]
  <1> DEFINE i == Alone!NextIn(Alone!Block, pc[3] + 1, vs)
  <1>1. pc[1] \in DOMAIN Suite /\ pc[2] \in DOMAIN Suite[pc[1]] /\ pc[3] \in DOMAIN Alone!Block
    BY DEF SuitePlace, Alone!Running
  <1>2. Alone!Block \in Seq(Call) /\ Alone!Block = Suite[pc[1]][pc[2]] /\ Len(Alone!Block) \in Nat  BY <1>1, SuiteIs DEF Alone!Block
  <1>3. i \in pc[3] + 1..Len(Alone!Block) + 1
    <2>1. pc[3] + 1 \in 1..Len(Alone!Block) + 1  BY <1>1, <1>2
    <2> QED  BY <1>2, <2>1, NextInBlock
  <1> HIDE DEF i
  <1>4. /\ pc[1] \in 1..Len(Suite) /\ pc[2] \in 1..Len(Suite[pc[1]]) /\ pc[3] \in 1..Len(Alone!Block)
        /\ Len(Suite) \in Nat /\ Len(Suite[pc[1]]) \in Nat
    <2>1. pc[1] \in 1..Len(Suite) /\ Len(Suite) \in Nat  BY <1>1, SuiteIs
    <2>2. Suite[pc[1]] \in Seq(Seq(Call)) /\ Len(Suite[pc[1]]) \in Nat  BY <1>1, SuiteIs
    <2>3. pc[2] \in 1..Len(Suite[pc[1]])  BY <1>1, <2>2
    <2>4. pc[3] \in 1..Len(Alone!Block)  BY <1>1, <1>2
    <2> QED  BY <2>1, <2>2, <2>3, <2>4
  <1>5. \A n \in 1..Len(Suite) : 1 \in DOMAIN Suite[n] /\ 1 \in DOMAIN Suite[n][1]
    <2> SUFFICES ASSUME NEW n \in 1..Len(Suite) PROVE 1 \in DOMAIN Suite[n] /\ 1 \in DOMAIN Suite[n][1]
      OBVIOUS
    <2>1. n \in DOMAIN Suite  BY SuiteIs
    <2>2. 1 \in DOMAIN Suite[n]  BY <2>1, SuiteIs
    <2> QED  BY <2>1, <2>2, SuiteIs
  <1>6. ASSUME next = <<pc[1] + 1, 1, 1>>
        PROVE  /\ next \in Nat \X Nat \X Nat
               /\ \/ next = Alone!End
                  \/ /\ next[1] \in DOMAIN Suite /\ next[2] \in DOMAIN Suite[next[1]]
                     /\ next[3] \in DOMAIN Suite[next[1]][next[2]]
    <2>1. CASE pc[1] = Len(Suite)  BY <1>4, <1>6, <2>1 DEF Alone!End
    <2>2. CASE pc[1] + 1 \in 1..Len(Suite)
      <3>1. pc[1] + 1 \in DOMAIN Suite  BY <2>2, SuiteIs
      <3> QED  BY <1>4, <1>5, <1>6, <2>2, <3>1
    <2> QED  BY <1>4, <2>1, <2>2
  <1>7. ASSUME next = <<pc[1], pc[2] + 1, 1>>, pc[2] < Len(Suite[pc[1]])
        PROVE  /\ next \in Nat \X Nat \X Nat
               /\ next[1] \in DOMAIN Suite /\ next[2] \in DOMAIN Suite[next[1]]
               /\ next[3] \in DOMAIN Suite[next[1]][next[2]]
    <2> DEFINE j == pc[2] + 1
    <2>1. j \in DOMAIN Suite[pc[1]]  BY <1>1, <1>4, <1>7, SuiteIs
    <2>2. 1 \in DOMAIN Suite[pc[1]][j]
      <3> DEFINE b == Suite[pc[1]][j]
      <3>1. b \in Seq(Call) /\ Len(b) \in Nat /\ Len(b) >= 1  BY <1>1, <2>1, SuiteIs
      <3> HIDE DEF b
      <3>2. 1 \in DOMAIN b  BY <3>1
      <3> QED  BY <3>2 DEF b
    <2>3. j \in Nat /\ pc[1] \in Nat  BY <1>4
    <2>4. next = <<pc[1], j, 1>>  BY <1>7
    <2> HIDE DEF j
    <2>5. next[1] = pc[1] /\ next[2] = j /\ next[3] = 1  BY <2>4
    <2>6. next \in Nat \X Nat \X Nat  BY <2>3, <2>4
    <2> QED  BY <1>1, <2>1, <2>2, <2>5, <2>6
  <1>8. ASSUME next = <<pc[1], pc[2], i>>, i <= Len(Alone!Block)
        PROVE  /\ next \in Nat \X Nat \X Nat
               /\ next[1] \in DOMAIN Suite /\ next[2] \in DOMAIN Suite[next[1]]
               /\ next[3] \in DOMAIN Suite[next[1]][next[2]]
    <2>1. i \in DOMAIN Alone!Block /\ i \in Nat
      <3>1. DOMAIN Alone!Block = 1..Len(Alone!Block)  BY <1>2
      <3>2. i \in Nat /\ i >= 1  BY <1>2, <1>3, <1>4
      <3> QED  BY <1>2, <1>8, <3>1, <3>2
    <2>2. next[1] = pc[1] /\ next[2] = pc[2] /\ next[3] = i  BY <1>8
    <2>3. next \in Nat \X Nat \X Nat  BY <1>4, <1>8, <2>1
    <2> QED  BY <1>1, <1>2, <2>1, <2>2, <2>3
  <1>9. \/ next = <<pc[1] + 1, 1, 1>>
        \/ next = <<pc[1], pc[2] + 1, 1>> /\ pc[2] < Len(Suite[pc[1]])
        \/ next = <<pc[1], pc[2], i>> /\ i <= Len(Alone!Block)
    <2>1. next = Alone!After(i)  BY DEF i, Alone!Onward
    <2>2. i \in Nat  BY <1>2, <1>3, <1>4
    <2>3. ~(i > Len(Alone!Block)) => i <= Len(Alone!Block)  BY <1>2, <2>2
    <2>4. \/ Alone!NextBlock = <<pc[1] + 1, 1, 1>>
          \/ Alone!NextBlock = <<pc[1], pc[2] + 1, 1>> /\ pc[2] < Len(Suite[pc[1]])
      BY Zenon DEF Alone!NextBlock
    <2>5. \/ next = <<pc[1] + 1, 1, 1>>
          \/ next = Alone!NextBlock
          \/ next = <<pc[1], pc[2], i>> /\ ~(i > Len(Alone!Block))
      BY <2>1, Zenon DEF Alone!After
    <2> QED  BY <2>3, <2>4, <2>5, Zenon
  <1> QED  BY <1>6, <1>7, <1>8, <1>9

\* The suite goes on with an answer.
LEMMA AnsweredKeeps ==
  ASSUME IInv, Alone!Running, NEW o, NEW r, NEW refused, Evolves(os, o), Answered(o, r, refused)
  PROVE  Sound(os)' /\ SuitePlace' /\ CopyPlaces'
  <1>1. PICK vs : pc' = Alone!Onward(vs)  BY DEF Answered
  <1>2. /\ os' = o
        /\ copy_pc' = [c \in CopyNames |-> IF o.procs[c].state = "running" THEN copy_pc[c] ELSE 1]
    BY DEF Answered
  <1>3. Sound(os)'  BY <1>2 DEF Evolves, Sound, Formed, Shape, Rooted, IsNode, Parent
  <1>4. SuitePlace'
    BY <1>1, AfterAStep DEF IInv, SuitePlace, Alone!Block, Alone!End
  <1>5. CopyPlaces'
    <2>1. copy_pc' \in [CopyNames -> Nat]  BY <1>2 DEF IInv, CopyPlaces
    <2>2. ASSUME NEW c \in CopyNames, o.procs[c].state = "running"
          PROVE  copy_pc'[c] \in DOMAIN errands[o.procs[c].errand]
      <3>1. copy_pc'[c] = copy_pc[c]  BY <1>2, <2>2
      <3>2. CASE os.procs[c].state = "none"
        BY <2>2, <3>1, <3>2, ErrandsBegin DEF IInv, CopyPlaces, Evolves, Sound
      <3>3. CASE os.procs[c].state = "running" /\ o.procs[c].errand = os.procs[c].errand
        BY <3>1, <3>3 DEF IInv, CopyPlaces
      <3> QED  BY <2>2, <3>2, <3>3 DEF Evolves
    <2>3. ASSUME NEW c \in CopyNames, o.procs[c].state # "running" PROVE copy_pc'[c] = 1
      BY <1>2, <2>3
    <2> QED  BY <1>2, <2>1, <2>2, <2>3 DEF CopyPlaces
  <1> QED  BY <1>3, <1>4, <1>5

LEMMA CopyStepKeeps ==
  ASSUME IInv, NEW c \in CopyNames, CopyStep(c)
  PROVE  IInv'
  <1> DEFINE e == os.procs[c].errand
             s == errands[e][copy_pc[c]]
  <1>1. e \in DOMAIN errands /\ copy_pc[c] \in DOMAIN errands[e] /\ os.procs[c].state = "running"
    BY DEF CopyStep, IInv, Sound, CopyPlaces
  <1>2. s \in Call  BY <1>1, ErrandsBegin
  <1>3. PICK a \in Do(os, c, vars[c], s) :
          \E vs : /\ os' = a.os
                  /\ copy_pc' = [d \in CopyNames |->
                                   IF a.os.procs[d].state # "running" THEN 1
                                   ELSE IF d = c THEN Alone!NextIn(errands[e], copy_pc[d] + 1, vs)
                                   ELSE copy_pc[d]]
    BY DEF CopyStep
  <1>4. PICK vs : /\ os' = a.os
                  /\ copy_pc' = [d \in CopyNames |->
                                   IF a.os.procs[d].state # "running" THEN 1
                                   ELSE IF d = c THEN Alone!NextIn(errands[e], copy_pc[d] + 1, vs)
                                   ELSE copy_pc[d]]
    BY <1>3
  <1>5. Acts(os, c) /\ Sound(os)  BY <1>1 DEF Acts, IInv
  <1>6. Evolves(os, a.os) /\ (Ends(s) => a.os.procs[c].state # "running")
    BY <1>2, <1>5, DoEvolves
  <1>7. ~Ends(s) => Alone!NextIn(errands[e], copy_pc[c] + 1, vs) \in DOMAIN errands[e]
    BY <1>1, ErrandGoesOn
  <1>8. UNCHANGED <<pc, mishaps, verdict>>  BY DEF CopyStep
  <1> HIDE DEF e, s
  <1>9. Sound(os)'  BY <1>4, <1>6 DEF Evolves, Sound, Formed, Shape, Rooted, IsNode, Parent
  <1>10. SuitePlace' /\ Outcome'  BY <1>8 DEF IInv, SuitePlace, Outcome, Alone!Block, Alone!End
  <1>11. CopyPlaces'
    <2>1. ASSUME NEW d \in CopyNames
          PROVE  IF a.os.procs[d].state = "running"
                 THEN copy_pc'[d] \in DOMAIN errands[a.os.procs[d].errand] ELSE copy_pc'[d] = 1
      <3>1. CASE a.os.procs[d].state # "running"  BY <1>4, <3>1
      <3>2. CASE a.os.procs[d].state = "running" /\ d = c
        <4>1. a.os.procs[c].errand = e  BY <1>1, <1>6, <3>2 DEF Evolves, e
        <4> QED  BY <1>4, <1>6, <1>7, <3>2, <4>1
      <3>3. CASE a.os.procs[d].state = "running" /\ d # c
        <4>1. copy_pc'[d] = copy_pc[d]  BY <1>4, <3>3
        <4>2. CASE os.procs[d].state = "none"
          BY <1>6, <3>3, <4>1, <4>2, ErrandsBegin DEF IInv, CopyPlaces, Evolves, Sound
        <4>3. CASE os.procs[d].state = "running" /\ a.os.procs[d].errand = os.procs[d].errand
          BY <3>3, <4>1, <4>3 DEF IInv, CopyPlaces
        <4> QED  BY <1>6, <3>3, <4>2, <4>3 DEF Evolves
      <3> QED  BY <3>1, <3>2, <3>3
    <2>2. \A d \in CopyNames : copy_pc'[d] \in Nat
      <3>1. \A x \in DOMAIN errands : DOMAIN errands[x] \subseteq Nat  BY ErrandsBegin
      <3>2. \A d \in CopyNames : a.os.procs[d].state = "running" => a.os.procs[d].errand \in DOMAIN errands
        BY <1>6 DEF Evolves, Sound
      <3> QED  BY <2>1, <3>1, <3>2
    <2>3. copy_pc' \in [CopyNames -> Nat]  BY <1>4, <2>2
    <2> QED  BY <1>4, <2>1, <2>3 DEF CopyPlaces
  <1> QED  BY <1>9, <1>10, <1>11 DEF IInv

LEMMA KillKeeps ==
  ASSUME IInv, Kill
  PROVE  IInv'
  <1> DEFINE gone == {x \in DOMAIN os.held : x[1] = "suite"}
             o == Reaped(Let(os, gone))
  <1>1. /\ os' = [o EXCEPT !.claims = @ \cup Known]
        /\ copy_pc' = [c \in CopyNames |-> IF o.procs[c].state = "running" THEN copy_pc[c] ELSE 1]
        /\ pc' = Alone!Beginning /\ mishaps' = [mishaps EXCEPT !.killed = @ + 1] /\ verdict' = verdict
    BY DEF Kill
  <1>2. Evolves(os, o)
    <2>1. Same(os, "suite", Let(os, gone))  BY LetSame DEF IInv, Sound
    <2>2. Evolves(os, Let(os, gone)) /\ Let(os, gone).procs = os.procs
      BY <2>1, SameEvolves DEF IInv, Acts, Same
    <2>3. Evolves(Let(os, gone), o)  BY <2>2, ReapedEvolves DEF Evolves
    <2> QED  BY <2>2, <2>3, EvolvesAgain
  <1> HIDE DEF o
  <1>3. Formed(os') /\ os'.procs = o.procs /\ os'.held = o.held
    BY <1>1, <1>2 DEF Evolves, Sound, Formed, Shape
  <1>4. Sound(os)'  BY <1>2, <1>3 DEF Evolves, Sound, Formed, Shape, Rooted, IsNode, Parent
  <1>5. SuitePlace'
    <2>1. 1 \in DOMAIN Suite /\ 1 \in DOMAIN Suite[1] /\ 1 \in DOMAIN Suite[1][1]
      <3>1. 1 \in DOMAIN Suite  BY SuiteIs
      <3>2. 1 \in DOMAIN Suite[1]  BY <3>1, SuiteIs
      <3> QED  BY <3>1, <3>2, SuiteIs
    <2> QED  BY <1>1, <2>1 DEF SuitePlace, Alone!Beginning, Alone!Block
  <1>6. CopyPlaces'
    <2>1. copy_pc' \in [CopyNames -> Nat]  BY <1>1 DEF IInv, CopyPlaces
    <2>2. ASSUME NEW c \in CopyNames, o.procs[c].state = "running"
          PROVE  copy_pc'[c] \in DOMAIN errands[o.procs[c].errand]
      <3>1. copy_pc'[c] = copy_pc[c]  BY <1>1, <2>2
      <3>2. CASE os.procs[c].state = "none"
        BY <1>2, <2>2, <3>1, <3>2, ErrandsBegin DEF IInv, CopyPlaces, Evolves, Sound
      <3>3. CASE os.procs[c].state = "running" /\ o.procs[c].errand = os.procs[c].errand
        BY <3>1, <3>3 DEF IInv, CopyPlaces
      <3> QED  BY <1>2, <2>2, <3>2, <3>3 DEF Evolves
    <2>3. ASSUME NEW c \in CopyNames, o.procs[c].state # "running" PROVE copy_pc'[c] = 1
      BY <1>1, <2>3
    <2> QED  BY <1>3, <2>1, <2>2, <2>3 DEF CopyPlaces
  <1>7. Outcome'  BY <1>1 DEF IInv, Outcome
  <1> QED  BY <1>4, <1>5, <1>6, <1>7 DEF IInv

LEMMA InitIInv == Init => IInv
  <1> SUFFICES ASSUME Init PROVE IInv  OBVIOUS
  <1>1. /\ os = Boot /\ pc = Alone!Beginning /\ copy_pc = [c \in CopyNames |-> 1]
        /\ mishaps = [refused |-> 0, killed |-> 0] /\ verdict = 9
    BY DEF Init
  <1>2. /\ Formed(os) /\ os.procs = [c \in CopyNames |-> NoCopy] /\ os.held = <<>>
    <2>1. /\ Shape(os) /\ os.procs = [c \in CopyNames |-> NoCopy]
          /\ os.held = <<>> /\ os.tree = <<>>
      BY <1>1 DEF Boot, Shape
    <2>2. DOMAIN os.tree = {}  BY <2>1
    <2> QED  BY <2>1, <2>2 DEF Formed, Rooted
  <1>3. Sound(os)
    <2>1. DOMAIN os.held = {}  BY <1>2
    <2> QED  BY <1>2, <2>1, NoCopyIsOne DEF Sound
  <1>4. SuitePlace
    <2>1. 1 \in DOMAIN Suite /\ 1 \in DOMAIN Suite[1] /\ 1 \in DOMAIN Suite[1][1]
      <3>1. 1 \in DOMAIN Suite  BY SuiteIs
      <3>2. 1 \in DOMAIN Suite[1]  BY <3>1, SuiteIs
      <3> QED  BY <3>1, <3>2, SuiteIs
    <2> QED  BY <1>1, <2>1 DEF SuitePlace, Alone!Beginning, Alone!Block
  <1>5. CopyPlaces  BY <1>1, <1>2, NoCopyIsOne DEF CopyPlaces
  <1>6. Outcome  BY <1>1 DEF Outcome
  <1> QED  BY <1>3, <1>4, <1>5, <1>6 DEF IInv

LEMMA IInvStep == IInv /\ [Next]_state => IInv'
  <1> SUFFICES ASSUME IInv, [Next]_state PROVE IInv'  OBVIOUS
  <1>1. Sound(os) /\ Outcome  BY DEF IInv
  <1>2. CASE SuiteStep
    <2>1. Alone!Running /\ mishaps' = mishaps  BY <1>2 DEF SuiteStep
    <2>2. PICK a \in Do(os, "suite", vars["suite"], Alone!Here) : Answered(a.os, a.r, report.refused)
      BY <1>2 DEF SuiteStep
    <2>3. Alone!Here \in Call
      <3>1. pc[1] \in DOMAIN Suite /\ pc[2] \in DOMAIN Suite[pc[1]] /\ pc[3] \in DOMAIN Alone!Block
        BY <2>1 DEF IInv, SuitePlace, Alone!Running
      <3>2. Alone!Block \in Seq(Call)  BY <3>1, SuiteIs DEF Alone!Block
      <3> QED  BY <3>1, <3>2 DEF Alone!Here
    <2>4. Evolves(os, a.os)  BY <1>1, <2>3, DoEvolves DEF Acts
    <2>5. Sound(os)' /\ SuitePlace' /\ CopyPlaces'  BY <2>1, <2>2, <2>4, AnsweredKeeps
    <2>6. Outcome'  BY <1>1, <2>1, <2>2 DEF Outcome, Answered
    <2> QED  BY <2>5, <2>6 DEF IInv
  <1>3. CASE SuiteRefused
    <2>1. Alone!Running /\ Answered(os, NoMemory, Alone!Here.as) /\ mishaps' = [mishaps EXCEPT !.refused = @ + 1]
      BY <1>3 DEF SuiteRefused
    <2>2. Sound(os)' /\ SuitePlace' /\ CopyPlaces'
      BY <1>1, <2>1, ReflexiveEvolves, AnsweredKeeps
    <2>3. Outcome'  BY <1>1, <2>1 DEF Outcome, Answered
    <2> QED  BY <2>2, <2>3 DEF IInv
  <1>4. CASE \E c \in CopyNames : CopyStep(c)  BY <1>4, CopyStepKeeps
  <1>5. CASE Kill  BY <1>5, KillKeeps
  <1>6. CASE summarise
    <2>1. /\ UNCHANGED <<os, pc, copy_pc, mishaps>> /\ verdict' \in {0, 1, 2}
      BY <1>6 DEF summarise
    <2> QED
      BY <2>1
      DEF IInv, Sound, Formed, Shape, Rooted, IsNode, Parent, SuitePlace, CopyPlaces, Outcome, Alone!Block, Alone!End
  <1>7. CASE UNCHANGED state
    BY <1>7
    DEF state, IInv, Sound, Formed, Shape, Rooted, IsNode, Parent, SuitePlace, CopyPlaces, Outcome, Alone!Block, Alone!End
  <1> QED  BY <1>2, <1>3, <1>4, <1>5, <1>6, <1>7 DEF Next, Works, Over

LEMMA Invariance == Spec => []IInv
  BY InitIInv, IInvStep, PTL DEF Spec

-----------------------------------------------------------------------------
\* Whatever is answered, refused or killed, and with any number of copies: the
\* suite never leaves its sections nor a copy its errand (suite.cpp's order,
\* child.cpp's errands); a copy that has ended holds nothing, however it ended,
\* by itself, ended by another or left behind by a suite that was killed; and
\* what a program made is in a directory that is there, whatever is removed,
\* renamed or kept until it is released (fs.cpp's calls, in any order).
THEOREM AlwaysTypeOK == Spec => []TypeOK
  <1>1. IInv => AtTheirSource  BY DEF IInv, SuitePlace, CopyPlaces, AtTheirSource
  <1>2. IInv => TheEndedHoldNothing  BY DEF IInv, Sound, TheEndedHoldNothing
  <1>3. IInv => \A p \in DOMAIN os.tree : Len(p) > 1 => SubSeq(p, 1, Len(p) - 1) \in DOMAIN os.tree
    BY DEF IInv, Sound, Formed, Rooted, Parent
  <1>4. IInv => mishaps \in [refused : Nat, killed : Nat] /\ verdict \in {0, 1, 2, 9}
    BY DEF IInv, Outcome
  <1>5. IInv => TypeOK  BY <1>1, <1>2, <1>3, <1>4 DEF TypeOK
  <1> QED  BY <1>5, Invariance, PTL

-----------------------------------------------------------------------------
\* What every call leaves the suite holding.
Has(o, v) == <<"suite", v>> \in DOMAIN o.held
AsBefore(o, p) == \A v : Has(p, v) <=> Has(o, v)

LEMMA Replying ==
  ASSUME NEW o, NEW r, NEW rs
  PROVE  /\ \A a \in Reply(r, o) : a.r = r /\ a.os = o
         /\ \A a \in Answers(rs, o) : a.r \in rs /\ a.os = o
  BY DEF Reply, Answers

LEMMA TakeGives ==
  ASSUME NEW o, Shape(o), NEW who, NEW f, NEW h
  PROVE  /\ DOMAIN Take(o, who, f, h).held = DOMAIN o.held \cup {<<who, f>>}
         /\ Shape(Take(o, who, f, h))
  BY DEF Take, Shape

LEMMA TreeIsNotHeld ==
  ASSUME NEW o, Shape(o), NEW t
  PROVE  [o EXCEPT !.tree = t].held = o.held /\ Shape([o EXCEPT !.tree = t])
  BY DEF Shape

\* A copy that ends takes nothing of the suite's with it.
LEMMA EndedLeaves ==
  ASSUME NEW o, Sound(o), NEW c \in CopyNames, NEW result
  PROVE  AsBefore(o, Ended(o, c, result))
  <1> DEFINE rest == Let(o, {x \in DOMAIN o.held : x[1] = c})
             left == IF Watched(o, c) THEN [NoCopy EXCEPT !.state = "ended", !.result = result] ELSE NoCopy
  <1>1. Formed(rest) /\ DOMAIN rest.held = DOMAIN o.held \ {x \in DOMAIN o.held : x[1] = c}
    BY LetSame DEF Sound, Same
  <1>2. Ended(o, c, result) = [rest EXCEPT !.procs[c] = left]  BY DEF Ended
  <1> HIDE DEF rest, left
  <1>3. Ended(o, c, result).held = rest.held  BY <1>1, <1>2 DEF Formed, Shape
  <1>4. c # "suite"  BY CopyNamesType
  <1> QED  BY <1>1, <1>3, <1>4 DEF AsBefore, Has

LEMMA ProcsAreNotHeld ==
  ASSUME NEW o, Sound(o), NEW c
  PROVE  /\ [o EXCEPT !.procs[c].asked = TRUE].held = o.held
         /\ [o EXCEPT !.procs[c].took = TRUE].held = o.held
         /\ [o EXCEPT !.procs[c].limited = TRUE].held = o.held
         /\ [o EXCEPT !.procs[c].memory = @ + 1].held = o.held
  BY DEF Sound, Formed, Shape

\* The calls that give a handle: it is held where they succeed, and nothing else
\* is, where they do not.
LEMMA OpenGives ==
  ASSUME NEW o, Shape(o), NEW who, NEW s, NEW a \in DoOpen(o, who, s)
  PROVE  \/ a.r # Ok /\ a.os = o
         \/ a.r = Ok /\ DOMAIN a.os.held = DOMAIN o.held \cup {<<who, s.f>>}
  <1>1. \/ \E r \in Errors : a \in Reply(r, o)
        \/ a \in Answers({Invalid, Permission, NotFound}, o)
        \/ \E t, h : a \in Reply(Ok, Take([o EXCEPT !.tree = t], who, s.f, h))
    BY DEF DoOpen, Errors
  <1>2. \A r \in Errors : r # Ok
    BY DEF Errors, Ok, Invalid, Again, NoMemory, Permission, NotSupported, NotFound, Exists,
           NotEmpty, IsDirectory, NotDirectory, NotProgram
  <1>3. \/ a.r \in Errors /\ a.os = o
        \/ a.r = Ok /\ \E t, h : a.os = Take([o EXCEPT !.tree = t], who, s.f, h)
    <2>1. {Invalid, Permission, NotFound} \subseteq Errors  BY DEF Errors
    <2>2. CASE \E r \in Errors : a \in Reply(r, o)  BY <2>2, Replying
    <2>3. CASE a \in Answers({Invalid, Permission, NotFound}, o)
      <3>1. \A b \in Answers({Invalid, Permission, NotFound}, o) :
              b.r \in {Invalid, Permission, NotFound} /\ b.os = o
        BY Replying
      <3> QED  BY <2>1, <2>3, <3>1
    <2>4. CASE \E t, h : a \in Reply(Ok, Take([o EXCEPT !.tree = t], who, s.f, h))
      BY <2>4, Replying
    <2> QED  BY <1>1, <2>2, <2>3, <2>4
  <1>4. \A t, h : DOMAIN Take([o EXCEPT !.tree = t], who, s.f, h).held = DOMAIN o.held \cup {<<who, s.f>>}
    <2> SUFFICES ASSUME NEW t, NEW h
                 PROVE  DOMAIN Take([o EXCEPT !.tree = t], who, s.f, h).held
                          = DOMAIN o.held \cup {<<who, s.f>>}
      OBVIOUS
    <2> DEFINE p == [o EXCEPT !.tree = t]
    <2>1. Shape(p) /\ p.held = o.held  BY TreeIsNotHeld
    <2> HIDE DEF p
    <2>2. DOMAIN Take(p, who, s.f, h).held = DOMAIN o.held \cup {<<who, s.f>>}  BY <2>1, TakeGives
    <2> QED  BY <2>2 DEF p
  <1> QED  BY <1>2, <1>3, <1>4

LEMMA OpenDirGives ==
  ASSUME NEW o, Shape(o), NEW who, NEW s, NEW a \in DoOpenDir(o, who, s)
  PROVE  \/ a.r # Ok /\ a.os = o
         \/ a.r = Ok /\ DOMAIN a.os.held = DOMAIN o.held \cup {<<who, s.f>>}
  <1>1. \/ a \in Reply(NotFound, o) \cup Reply(NotDirectory, o)
        \/ \E h : a \in Reply(Ok, Take(o, who, s.f, h))
    BY DEF DoOpenDir
  <1>2. \/ a.r \in {NotFound, NotDirectory} /\ a.os = o
        \/ a.r = Ok /\ \E h : a.os = Take(o, who, s.f, h)
    BY <1>1, Replying
  <1> QED  BY <1>2, TakeGives DEF Ok, NotFound, NotDirectory

LEMMA AttenuateGives ==
  ASSUME NEW o, Shape(o), NEW who, NEW vs, NEW s, NEW a \in DoAttenuate(o, who, vs, s)
  PROVE  \/ a.r # Ok /\ a.os = o
         \/ a.r = Ok /\ DOMAIN a.os.held = DOMAIN o.held \cup {<<who, s.f>>}
  <1>1. \/ a \in Reply(NotSupported, o)
        \/ \E h : a \in Reply(Ok, Take(o, who, s.f, h))
    BY DEF DoAttenuate
  <1>2. \/ a.r = NotSupported /\ a.os = o
        \/ a.r = Ok /\ \E h : a.os = Take(o, who, s.f, h)
    BY <1>1, Replying
  <1> QED  BY <1>2, TakeGives DEF Ok, NotSupported

LEMMA ObtainGives ==
  ASSUME NEW o, Shape(o), NEW who, NEW vs, NEW s, s.do = "obtain", NEW a \in DoObtain(o, who, vs, s)
  PROVE  \/ a.r # Ok /\ a.os = o
         \/ a.r = Ok /\ DOMAIN a.os.held = DOMAIN o.held \cup {<<who, v>> : v \in Alone!Obtained(s)}
  <1> DEFINE two == s.to # ""
             one == Take(o, who, s.f, [kind |-> "other"])
  <1>1. \/ a.r = NotSupported /\ a.os = o
        \/ /\ a.r = Ok
           /\ a.os = IF two THEN Take(one, who, s.to, [kind |-> "other"]) ELSE one
    BY Replying DEF DoObtain, OfTwo
  <1>2. Alone!Obtained(s) = IF two THEN {s.f, s.to} ELSE {s.f}  BY Zenon DEF Alone!Obtained
  <1>3. Shape(one) /\ DOMAIN one.held = DOMAIN o.held \cup {<<who, s.f>>}  BY TakeGives
  <1> HIDE DEF two, one
  <1>4. DOMAIN Take(one, who, s.to, [kind |-> "other"]).held = DOMAIN one.held \cup {<<who, s.to>>}
    BY <1>3, TakeGives
  <1> QED  BY <1>1, <1>2, <1>3, <1>4 DEF Ok, NotSupported
LEMMA SpawnGives ==
  ASSUME NEW o, Sound(o), NEW who, NEW vs, NEW s, s.do = "spawn", NEW a \in DoSpawn(o, who, vs, s)
  PROVE  \/ a.r # Ok /\ a.os = o
         \/ /\ a.r = Ok
            /\ \A v : <<"suite", v>> \in DOMAIN a.os.held <=>
                       <<"suite", v>> \in DOMAIN o.held \cup {<<who, w>> : w \in Alone!Obtained(s)}
  <1> DEFINE c == CHOOSE d \in Idle(o) : TRUE
             copy == [NoCopy EXCEPT !.state = "running", !.errand = s.to, !.how = s.how]
             run == [o EXCEPT !.procs[c] = copy]
             got == Take(run, who, s.f, [kind |-> "process", of |-> c])
             both == "job" \in s.how
             unit == IF both THEN Take(got, who, "unit", [kind |-> "job", of |-> c]) ELSE got
             Give(p, g) == IF Granting(s.how) /\ Holds(o, who, g) THEN Take(p, c, g, HandleOf(o, who, g)) ELSE p
  <1>1. \/ a.r # Ok /\ a.os = o
        \/ a.r = Ok /\ Idle(o) # {} /\ a.os = Started(o, who, s)
    <2>1. \/ \E r \in Errors : a \in Reply(r, o)
          \/ a \in Answers({NotProgram, Permission, Invalid}, o)
          \/ Idle(o) # {} /\ a \in Reply(Ok, Started(o, who, s))
      BY DEF DoSpawn, Errors
    <2>2. \A r \in Errors : r # Ok
      BY DEF Errors, Ok, Invalid, Again, NoMemory, Permission, NotSupported, NotFound, Exists,
             NotEmpty, IsDirectory, NotDirectory, NotProgram
    <2>3. CASE \E r \in Errors : a \in Reply(r, o)
      <3>1. PICK r \in Errors : a \in Reply(r, o)  BY <2>3
      <3>2. a.r = r /\ a.os = o  BY <3>1, Replying
      <3> QED  BY <2>2, <3>2
    <2>4. CASE a \in Answers({NotProgram, Permission, Invalid}, o)
      <3>1. \A b \in Answers({NotProgram, Permission, Invalid}, o) :
              b.r \in {NotProgram, Permission, Invalid} /\ b.os = o
        BY Replying
      <3>2. {NotProgram, Permission, Invalid} \subseteq Errors  BY DEF Errors
      <3> QED  BY <2>2, <2>4, <3>1, <3>2
    <2>5. CASE Idle(o) # {} /\ a \in Reply(Ok, Started(o, who, s))  BY <2>5, Replying
    <2> QED  BY <2>1, <2>3, <2>4, <2>5
  <1>2. Started(o, who, s) = Give(Give(unit, "grant_a"), "grant_b")  BY DEF Started
  <1>3. Alone!Obtained(s) = IF both THEN {s.f, "unit"} ELSE {s.f}  BY Zenon DEF Alone!Obtained
  <1>4. Idle(o) # {} => c # "suite"  BY CopyNamesType DEF Idle
  <1> HIDE DEF c, copy
  <1>5. Shape(run) /\ run.held = o.held  BY DEF Sound, Formed, Shape
  <1> HIDE DEF run, both
  <1>6. Shape(got) /\ DOMAIN got.held = DOMAIN o.held \cup {<<who, s.f>>}  BY <1>5, TakeGives
  <1> HIDE DEF got
  <1>7. Shape(unit) /\ DOMAIN unit.held = DOMAIN o.held \cup {<<who, v>> : v \in Alone!Obtained(s)}
    <2>1. CASE both
      <3>1. unit = Take(got, who, "unit", [kind |-> "job", of |-> c])  BY <2>1
      <3>2. Shape(unit) /\ DOMAIN unit.held = DOMAIN got.held \cup {<<who, "unit">>}
        <4> DEFINE job == [kind |-> "job", of |-> c]
        <4>1. unit = Take(got, who, "unit", job)  BY <3>1
        <4> HIDE DEF job, unit
        <4> QED  BY <1>6, <4>1, TakeGives
      <3>3. {<<who, v>> : v \in Alone!Obtained(s)} = {<<who, s.f>>, <<who, "unit">>}  BY <1>3, <2>1, Zenon
      <3> QED  BY <1>6, <3>2, <3>3
    <2>2. CASE ~both
      <3>1. {<<who, v>> : v \in Alone!Obtained(s)} = {<<who, s.f>>}  BY <1>3, <2>2, Zenon
      <3>2. unit = got  BY <2>2
      <3> QED  BY <1>6, <3>1, <3>2
    <2> QED  BY <2>1, <2>2
  <1> HIDE DEF unit
  <1>8. ASSUME NEW p, Shape(p), NEW g, Idle(o) # {}
        PROVE  Shape(Give(p, g)) /\ AsBefore(p, Give(p, g))
    <2>1. \/ Give(p, g) = p
          \/ /\ Shape(Give(p, g))
             /\ DOMAIN Give(p, g).held = DOMAIN p.held \cup {<<c, g>>}
      BY <1>8, TakeGives
    <2> HIDE DEF Give
    <2> QED  BY <1>4, <1>8, <2>1 DEF AsBefore, Has
  <1> HIDE DEF Give
  <1>9. Idle(o) # {} => AsBefore(unit, Started(o, who, s))
    <2> SUFFICES ASSUME Idle(o) # {} PROVE AsBefore(unit, Started(o, who, s))  OBVIOUS
    <2>1. Shape(Give(unit, "grant_a")) /\ AsBefore(unit, Give(unit, "grant_a"))  BY <1>7, <1>8
    <2>2. AsBefore(Give(unit, "grant_a"), Give(Give(unit, "grant_a"), "grant_b"))  BY <1>8, <2>1
    <2> QED  BY <1>2, <2>1, <2>2 DEF AsBefore
  <1> QED  BY <1>1, <1>7, <1>9 DEF AsBefore, Has

\* The calls that give and release nothing.
LEMMA TreeCallsHold ==
  ASSUME NEW o, Shape(o), NEW who, NEW vs, NEW s,
         NEW a \in DoMkdir(o, who, s) \cup DoRemove(o, who, vs, s) \cup DoRename(o, who, s)
                   \cup DoLinkCreate(o, who, vs, s) \cup DoInfo(o, who, s) \cup DoMark(o, who, vs, s)
  PROVE  a.os.held = o.held
  <1> DEFINE p == PathOf(o, who, s)
  <1>1. CASE a \in DoMkdir(o, who, s)
    <2>1. a.os = o \/ \E t : a.os = [o EXCEPT !.tree = t]  BY <1>1, Answering DEF DoMkdir
    <2> QED  BY <2>1, TreeIsNotHeld
  <1>2. CASE a \in DoRemove(o, who, vs, s)
    <2>1. \/ a.os = o
          \/ a.os = [o EXCEPT !.tree = Drop(o.tree, {p})]
          \/ a.os = [o EXCEPT !.tree = [o.tree EXCEPT ![p] = [o.tree[p] EXCEPT !.doomed = TRUE]]]
      BY <1>2, Answering DEF DoRemove
    <2> QED  BY <2>1, TreeIsNotHeld
  <1>3. CASE a \in DoRename(o, who, s)
    <2>1. a.os = o \/ \E t : a.os = [o EXCEPT !.tree = t]  BY <1>3, Answering DEF DoRename
    <2> QED  BY <2>1, TreeIsNotHeld
  <1>4. CASE a \in DoLinkCreate(o, who, vs, s)
    <2>1. a.os = o \/ \E t : a.os = [o EXCEPT !.tree = t]  BY <1>4, Answering DEF DoLinkCreate
    <2> QED  BY <2>1, TreeIsNotHeld
  <1>5. CASE a \in DoInfo(o, who, s) \cup DoMark(o, who, vs, s)
    BY <1>5, Answering DEF DoInfo, DoMark
  <1> QED  BY <1>1, <1>2, <1>3, <1>4, <1>5

LEMMA FileCallsHold ==
  ASSUME NEW o, Shape(o), NEW who, NEW s, s.do \in OfFiles, NEW a \in OnFile(o, who, s)
  PROVE  DOMAIN a.os.held = DOMAIN o.held
  <1> DEFINE x == <<who, s.f>>
             h == HandleOf(o, who, s.f)
  <1>1. \A p, at : Shape(p) => DOMAIN Moved(p, who, s.f, at).held = DOMAIN p.held
    BY DEF Moved, Shape
  <1>2. \A to : Shape(Grown(o, h, to)) /\ Grown(o, h, to).held = o.held
    <2> SUFFICES ASSUME NEW to PROVE Shape(Grown(o, h, to)) /\ Grown(o, h, to).held = o.held
      OBVIOUS
    <2> DEFINE grown == [o.tree EXCEPT ![h.path].size = to]
    <2>1. Grown(o, h, to) = o \/ Grown(o, h, to) = [o EXCEPT !.tree = grown]  BY DEF Grown
    <2> HIDE DEF h, grown
    <2>2. [o EXCEPT !.tree = grown].held = o.held /\ Shape([o EXCEPT !.tree = grown])
      BY TreeIsNotHeld
    <2> QED  BY <2>1, <2>2
  <1>3. CASE s.do \in {"read", "read_all", "read_at", "position", "size"}
    <2>1. a.os = o \/ \E at : a.os = Moved(o, who, s.f, at)
      <3>1. CASE s.do = "read"  BY <3>1 DEF OnFile
      <3>2. CASE s.do \in {"read_all", "read_at", "position", "size"}  BY <3>2, Answering DEF OnFile
      <3> QED  BY <1>3, <3>1, <3>2
    <2> QED  BY <1>1, <2>1
  <1>4. CASE s.do = "write"
    <2>1. \E to, at : a.os = Moved(Grown(o, h, to), who, s.f, at)  BY <1>4, Answering DEF OnFile
    <2> QED  BY <1>1, <1>2, <2>1
  <1>5. CASE s.do = "write_at"
    <2>1. \E to : a.os = Grown(o, h, to)  BY <1>5, Answering DEF OnFile
    <2> QED  BY <1>2, <2>1
  <1>6. CASE s.do = "seek"
    <2>1. \E at : a.os = Moved(o, who, s.f, at)  BY <1>6, Answering DEF OnFile
    <2> QED  BY <1>1, <2>1
  <1>7. CASE s.do = "truncate"
    <2>1. a.os = o \/ \E t : a.os = [o EXCEPT !.tree = t]  BY <1>7, Answering DEF OnFile
    <2> QED  BY <2>1, TreeIsNotHeld
  <1>8. CASE s.do \in {"lock", "unlock"}
    <2>1. \/ a.os = o
          \/ a.os = [o EXCEPT !.held = [o.held EXCEPT ![x].locked = TRUE]]
          \/ a.os = [o EXCEPT !.held = [o.held EXCEPT ![x].locked = FALSE]]
      BY <1>8, Answering DEF OnFile
    <2>2. \A g : DOMAIN g = DOMAIN o.held => DOMAIN [o EXCEPT !.held = g].held = DOMAIN o.held
      BY DEF Shape
    <2> DEFINE locked == [o.held EXCEPT ![x].locked = TRUE]
               unlocked == [o.held EXCEPT ![x].locked = FALSE]
    <2>3. DOMAIN locked = DOMAIN o.held /\ DOMAIN unlocked = DOMAIN o.held  OBVIOUS
    <2>4. a.os = o \/ a.os = [o EXCEPT !.held = locked] \/ a.os = [o EXCEPT !.held = unlocked]
      BY <2>1
    <2> HIDE DEF locked, unlocked
    <2> QED  BY <2>2, <2>3, <2>4
  <1> QED  BY <1>3, <1>4, <1>5, <1>6, <1>7, <1>8 DEF OfFiles

\* Every call, by what the suite holds of it afterwards.
Holding(o, who, s, r, v) ==
  IF who = "suite" /\ s.do \in Acquires /\ r = Ok THEN Has(o, v) \/ v \in Alone!Obtained(s)
  ELSE IF who = "suite" /\ s.do \in {"close", "free"} THEN Has(o, v) /\ v # s.f
  ELSE Has(o, v)

LEMMA ClosingHolds ==
  ASSUME NEW o, Sound(o), NEW who, NEW f
  PROVE  \A v : Has(Reaped(Let(o, {<<who, f>>})), v) <=> Has(o, v) /\ (who # "suite" \/ v # f)
  <1> DEFINE p == Let(o, {<<who, f>>})
  <1>1. Shape(p) /\ DOMAIN p.held = DOMAIN o.held \ {<<who, f>>}
    BY LetSame DEF Sound, Same, Formed
  <1> HIDE DEF p
  <1>2. Reaped(p).held = p.held
    <2> DEFINE procs == [c \in CopyNames |->
                          IF p.procs[c].state = "ended" /\ ~Watched(p, c) THEN NoCopy ELSE p.procs[c]]
    <2>1. Reaped(p) = [p EXCEPT !.procs = procs]  BY DEF Reaped
    <2> HIDE DEF procs
    <2> QED  BY <1>1, <2>1 DEF Shape
  <1>3. \A v : <<who, f>> = <<"suite", v>> <=> who = "suite" /\ v = f  OBVIOUS
  <1>4. \A v : Has(Reaped(p), v) <=> Has(o, v) /\ (who # "suite" \/ v # f)
    BY <1>1, <1>2, <1>3 DEF Has
  <1> QED  BY <1>4 DEF p

LEMMA TerminateHolds ==
  ASSUME NEW o, Sound(o), NEW who, NEW s, NEW a \in DoTerminate(o, who, s)
  PROVE  AsBefore(o, a.os)
  <1> DEFINE c == HandleOf(o, who, s.f).of
  <1>1. \/ a.os = o
        \/ c \in CopyNames /\ a.os = Ended(o, c, Terminated)
        \/ a.os = [o EXCEPT !.procs[c].asked = TRUE]
    BY Answering DEF DoTerminate, Runs
  <1> HIDE DEF c
  <1>2. CASE a.os = o  BY <1>2 DEF AsBefore
  <1>3. CASE c \in CopyNames /\ a.os = Ended(o, c, Terminated)  BY <1>3, EndedLeaves
  <1>4. CASE a.os = [o EXCEPT !.procs[c].asked = TRUE]
    <2>1. [o EXCEPT !.procs[c].asked = TRUE].held = o.held  BY ProcsAreNotHeld
    <2> QED  BY <1>4, <2>1 DEF AsBefore, Has
  <1> QED  BY <1>1, <1>2, <1>3, <1>4

LEMMA UnitCallsHold ==
  ASSUME NEW o, Sound(o), NEW who, NEW s, s.do \in {"job_terminate", "job_limit", "await_use"},
         NEW a \in OnUnit(o, who, s)
  PROVE  AsBefore(o, a.os)
  <1> DEFINE c == HandleOf(o, who, s.f).of
  <1>1. \/ a.os = o
        \/ c \in CopyNames /\ a.os = Ended(o, c, Terminated)
        \/ a.os = [o EXCEPT !.procs[c].limited = TRUE]
    BY Answering DEF OnUnit, Runs
  <1> HIDE DEF c
  <1>2. CASE a.os = o  BY <1>2 DEF AsBefore
  <1>3. CASE c \in CopyNames /\ a.os = Ended(o, c, Terminated)  BY <1>3, EndedLeaves
  <1>4. CASE a.os = [o EXCEPT !.procs[c].limited = TRUE]
    <2>1. [o EXCEPT !.procs[c].limited = TRUE].held = o.held  BY ProcsAreNotHeld
    <2> QED  BY <1>4, <2>1 DEF AsBefore, Has
  <1> QED  BY <1>1, <1>2, <1>3, <1>4

LEMMA ItselfHolds ==
  ASSUME NEW o, Sound(o), NEW c \in CopyNames, NEW s, s.do \in OfACopy, NEW a \in OfItself(o, c, s)
  PROVE  AsBefore(o, a.os)
  <1>1. \/ a.os = o
        \/ \E result : a.os = Ended(o, c, result)
        \/ a.os = [o EXCEPT !.procs[c].took = TRUE]
        \/ a.os = [o EXCEPT !.procs[c].memory = @ + 1]
    <2>1. CASE s.do = "exit"  BY <2>1, Answering DEF OfItself
    <2>2. CASE s.do \in {"end_as_requested", "fault", "abort"}  BY <2>2, Answering DEF OfItself
    <2>3. CASE s.do = "wait_for_ever"  BY <2>3 DEF OfItself
    <2>4. CASE s.do = "take_over"  BY <2>4, Answering DEF OfItself
    <2>5. CASE s.do = "grow"  BY <2>5, Answering DEF OfItself
    <2>6. CASE s.do = "wait_long"  BY <2>6, Answering DEF OfItself
    <2>7. CASE s.do = "await_request"  BY <2>7, Answering DEF OfItself
    <2>8. CASE s.do = "own_name"  BY <2>8, Answering DEF OfItself
    <2>9. CASE s.do = "null_device"  BY <2>9, Answering DEF OfItself
    <2>10. CASE s.do = "preopens"  BY <2>10, Answering DEF OfItself
    <2>11. CASE s.do = "preference"  BY <2>11, Answering DEF OfItself
    <2> QED  BY <2>1, <2>2, <2>3, <2>4, <2>5, <2>6, <2>7, <2>8, <2>9, <2>10, <2>11 DEF OfACopy
  <1>2. CASE a.os = o  BY <1>2 DEF AsBefore
  <1>3. CASE \E result : a.os = Ended(o, c, result)  BY <1>3, EndedLeaves
  <1>4. CASE a.os = [o EXCEPT !.procs[c].took = TRUE]
    <2>1. [o EXCEPT !.procs[c].took = TRUE].held = o.held  BY ProcsAreNotHeld
    <2> QED  BY <1>4, <2>1 DEF AsBefore, Has
  <1>5. CASE a.os = [o EXCEPT !.procs[c].memory = @ + 1]
    <2>1. [o EXCEPT !.procs[c].memory = @ + 1].held = o.held  BY ProcsAreNotHeld
    <2> QED  BY <1>5, <2>1 DEF AsBefore, Has
  <1> QED  BY <1>1, <1>2, <1>3, <1>4, <1>5

LEMMA DoHolds ==
  ASSUME NEW o, Sound(o), NEW who, Acts(o, who), NEW vs, NEW s \in Call,
         who = "suite" => s.do \notin OfACopy, NEW a \in Do(o, who, vs, s)
  PROVE  \A v : Has(a.os, v) <=> Holding(o, who, s, a.r, v)
  <1>1. s.do \in Operations  BY CallIs
  <1>2. Shape(o)  BY DEF Sound, Formed
  <1>3. ASSUME s.do \notin Acquires \cup {"close", "free"}, AsBefore(o, a.os)
        PROVE  \A v : Has(a.os, v) <=> Holding(o, who, s, a.r, v)
    BY <1>3 DEF AsBefore, Holding
  <1>4. a.os.held = o.held => AsBefore(o, a.os)  BY DEF AsBefore, Has
  <1>5. DOMAIN a.os.held = DOMAIN o.held => AsBefore(o, a.os)  BY DEF AsBefore, Has
  <1>6. ASSUME s.do \in Acquires,
               \/ a.r # Ok /\ a.os = o
               \/ /\ a.r = Ok
                  /\ \A v : <<"suite", v>> \in DOMAIN a.os.held <=>
                             <<"suite", v>> \in DOMAIN o.held \cup {<<who, w>> : w \in Alone!Obtained(s)}
        PROVE  \A v : Has(a.os, v) <=> Holding(o, who, s, a.r, v)
    <2>1. s.do \notin {"close", "free"}  BY <1>6 DEF Acquires
    <2>2. \A v : <<"suite", v>> \in {<<who, w>> : w \in Alone!Obtained(s)}
                   <=> who = "suite" /\ v \in Alone!Obtained(s)
      OBVIOUS
    <2> QED  BY <1>6, <2>1, <2>2 DEF Holding, Has
  <1>7. CASE (UsesHandle(s) /\ ~Holds(o, who, s.f)) \/ (UsesDir(s) /\ ~Holds(o, who, s.d))
    <2>1. a.os = o /\ a.r = Invalid
      <3>1. a \in Reply(Invalid, o)  BY <1>7 DEF Do
      <3> QED  BY <3>1, Replying
    <2>2. s.do \in {"close", "free"} => s.do = "close" /\ ~Holds(o, who, s.f)
      <3>1. s.do \in {"close", "free"} => s.d = "here"  BY DEF Call
      <3> QED  BY <1>7, <3>1 DEF UsesDir, UsesHandle, OfHandles, OfFiles
    <2>3. Invalid # Ok  BY DEF Invalid, Ok
    <2> QED  BY <2>1, <2>2, <2>3 DEF Holding, Has, Holds
  <1>8. CASE ~((UsesHandle(s) /\ ~Holds(o, who, s.f)) \/ (UsesDir(s) /\ ~Holds(o, who, s.d)))
    <2>1. CASE s.do \in OfFiles
      <3>1. a \in OnFile(o, who, s)  BY <1>8, <2>1 DEF Do, OfFiles, OfACopy
      <3>2. s.do \notin Acquires \cup {"close", "free"}  BY <2>1 DEF OfFiles, Acquires
      <3> QED  BY <1>2, <1>3, <1>5, <2>1, <3>1, <3>2, FileCallsHold
    <2>2. CASE s.do \in {"open", "open_dir", "attenuate"}
      <3>1. a \in DoOpen(o, who, s) \/ a \in DoOpenDir(o, who, s) \/ a \in DoAttenuate(o, who, vs, s)
        BY <1>8, <2>2 DEF Do, OfFiles, OfACopy
      <3>2. \/ a.r # Ok /\ a.os = o
            \/ a.r = Ok /\ DOMAIN a.os.held = DOMAIN o.held \cup {<<who, s.f>>}
        <4>1. CASE a \in DoOpen(o, who, s)  BY <1>2, <4>1, OpenGives
        <4>2. CASE a \in DoOpenDir(o, who, s)  BY <1>2, <4>2, OpenDirGives
        <4>3. CASE a \in DoAttenuate(o, who, vs, s)  BY <1>2, <4>3, AttenuateGives
        <4> QED  BY <3>1, <4>1, <4>2, <4>3
      <3>3. Alone!Obtained(s) = {s.f}  BY <2>2 DEF Alone!Obtained
      <3>4. {<<who, w>> : w \in Alone!Obtained(s)} = {<<who, s.f>>}  BY <3>3, Zenon
      <3> QED  BY <1>6, <2>2, <3>2, <3>4 DEF Acquires
    <2>3. CASE s.do \in {"close", "free"}
      <3>1. a.os = Reaped(Let(o, {<<who, s.f>>}))
        BY <1>8, <2>3, Answering DEF Do, OfFiles, OfACopy
      <3>2. \A v : Has(a.os, v) <=> Has(o, v) /\ (who # "suite" \/ v # s.f)
        <4>1. \A v : Has(Reaped(Let(o, {<<who, s.f>>})), v) <=> Has(o, v) /\ (who # "suite" \/ v # s.f)
          BY ClosingHolds
        <4> QED  BY <3>1, <4>1, Zenon
      <3>3. s.do \notin Acquires  BY <2>3 DEF Acquires
      <3> QED  BY <2>3, <3>2, <3>3 DEF Holding
    <2>4. CASE s.do \in {"mkdir", "remove", "rename", "info", "link_create", "mark"}
      <3>1. a \in DoMkdir(o, who, s) \cup DoRemove(o, who, vs, s) \cup DoRename(o, who, s)
                  \cup DoLinkCreate(o, who, vs, s) \cup DoInfo(o, who, s) \cup DoMark(o, who, vs, s)
        BY <1>8, <2>4 DEF Do, OfFiles, OfACopy
      <3> QED  BY <1>2, <1>3, <1>4, <2>4, <3>1, TreeCallsHold DEF Acquires
    <2>5. CASE s.do = "spawn"
      <3>1. a \in DoSpawn(o, who, vs, s)  BY <1>8, <2>5 DEF Do, OfFiles, OfACopy
      <3>2. \/ a.r # Ok /\ a.os = o
            \/ /\ a.r = Ok
               /\ \A v : <<"suite", v>> \in DOMAIN a.os.held <=>
                          <<"suite", v>> \in DOMAIN o.held \cup {<<who, w>> : w \in Alone!Obtained(s)}
        BY <2>5, <3>1, SpawnGives
      <3>3. s.do \in Acquires  BY <2>5 DEF Acquires
      <3> QED  BY <1>6, <3>2, <3>3
    <2>6. CASE s.do \in {"wait", "ended_as"}
      <3>1. a \in DoWait(o, who, s)  BY <1>8, <2>6 DEF Do, OfFiles, OfACopy
      <3>2. a.os = o  BY <3>1, Answering DEF DoWait
      <3> QED  BY <1>3, <1>4, <2>6, <3>2 DEF Acquires
    <2>7. CASE s.do = "terminate"
      <3>1. a \in DoTerminate(o, who, s)  BY <1>8, <2>7 DEF Do, OfFiles, OfACopy
      <3> QED  BY <1>3, <2>7, <3>1, TerminateHolds DEF Acquires
    <2>8. CASE s.do \in {"job_terminate", "job_limit", "await_use"}
      <3>1. a \in OnUnit(o, who, s)  BY <1>8, <2>8 DEF Do, OfFiles, OfACopy
      <3> QED  BY <1>3, <2>8, <3>1, UnitCallsHold DEF Acquires
    <2>9. CASE s.do \in OfACopy
      <3>1. a \in OfItself(o, who, s)  BY <1>8, <2>9 DEF Do, OfFiles, OfACopy
      <3>2. who \in CopyNames  BY <2>9 DEF Acts
      <3> QED  BY <1>3, <2>9, <3>1, <3>2, ItselfHolds DEF OfACopy, Acquires
    <2>10. CASE s.do = "obtain"
      <3>1. a \in DoObtain(o, who, vs, s)  BY <1>8, <2>10 DEF Do, OfFiles, OfACopy
      <3>2. \/ a.r # Ok /\ a.os = o
            \/ a.r = Ok /\ DOMAIN a.os.held = DOMAIN o.held \cup {<<who, v>> : v \in Alone!Obtained(s)}
        BY <1>2, <2>10, <3>1, ObtainGives
      <3>3. s.do \in Acquires  BY <2>10 DEF Acquires
      <3> QED  BY <1>6, <3>2, <3>3
    <2>11. CASE s.do = "mode"
      <3>1. a.os = [o EXCEPT !.mode = s.how]  BY <1>8, <2>11, Answering DEF Do, OfFiles, OfACopy
      <3>2. a.os.held = o.held  BY <1>2, <3>1 DEF Shape
      <3> QED  BY <1>3, <1>4, <2>11, <3>2 DEF Acquires
    <2>12. CASE s.do = "map_region"
      <3> DEFINE h == [kind |-> "region", path |-> HandleOf(o, who, s.f).path]
      <3>1. a \in Reply(Ok, Take(o, who, s.to, h))  BY <1>8, <2>12 DEF Do, OfFiles, OfACopy
      <3> HIDE DEF h
      <3>2. a.r = Ok /\ DOMAIN a.os.held = DOMAIN o.held \cup {<<who, s.to>>}
        <4>1. a.r = Ok /\ a.os = Take(o, who, s.to, h)  BY <3>1, Replying
        <4> QED  BY <1>2, <4>1, TakeGives
      <3>3. Alone!Obtained(s) = {s.to}  BY <2>12 DEF Alone!Obtained
      <3>4. {<<who, w>> : w \in Alone!Obtained(s)} = {<<who, s.to>>}  BY <3>3, Zenon
      <3>5. s.do \in Acquires  BY <2>12 DEF Acquires
      <3> QED  BY <1>6, <3>2, <3>4, <3>5
    <2>13. CASE s.do \in {"list", "link_read", "stale", "use", "bad", "answer", "may", "observe",
                         "unobserved", "return", "leave"}
      <3>1. a.os = o  BY <1>8, <2>13, Answering DEF Do, OfFiles, OfACopy
      <3> QED  BY <1>3, <1>4, <2>13, <3>1 DEF Acquires
    <2> QED
      BY <1>1, <2>1, <2>2, <2>3, <2>4, <2>5, <2>6, <2>7, <2>8, <2>9, <2>10, <2>11, <2>12, <2>13
      DEF Operations, OfHandles, Acquires
  <1> QED  BY <1>7, <1>8

-----------------------------------------------------------------------------
\* The suite in its environment takes the steps of the suite by itself: what a
\* copy does is none of them, and an answer it does not tell apart is Another.
HasVariables == "suite" \in DOMAIN vars
RInv == IInv /\ HasVariables

LEMMA AlwaysRInv == Spec => []RInv
  <1>1. Init => HasVariables  BY DEF Init, HasVariables
  <1>2. HasVariables /\ [Next]_state => HasVariables'
    <2> SUFFICES ASSUME "suite" \in DOMAIN vars, [Next]_state PROVE "suite" \in DOMAIN vars'
      BY DEF HasVariables
    <2>1. CASE SuiteStep
      <3>1. PICK o, r : Answered(o, r, report.refused)  BY <2>1 DEF SuiteStep
      <3> QED  BY <3>1 DEF Answered, Variables
    <2>2. CASE SuiteRefused  BY <2>2 DEF SuiteRefused, Answered, Variables
    <2>3. CASE \E c \in CopyNames : CopyStep(c)
      <3>1. PICK c \in CopyNames : CopyStep(c)  BY <2>3
      <3>2. \E new : vars' = [vars EXCEPT ![c] = new]  BY <3>1 DEF CopyStep
      <3> QED  BY <3>2
    <2>4. CASE Kill  BY <2>4 DEF Kill
    <2>5. CASE summarise \/ UNCHANGED state  BY <2>5 DEF summarise, state
    <2> QED  BY <2>1, <2>2, <2>3, <2>4, <2>5 DEF Next, Works, Over
  <1> QED  BY <1>1, <1>2, Invariance, PTL DEF Spec, RInv

LEMMA HereIsACall ==
  ASSUME IInv, Alone!Running
  PROVE  /\ pc[1] \in DOMAIN Suite /\ pc[2] \in DOMAIN Suite[pc[1]] /\ pc[3] \in DOMAIN Alone!Block
         /\ Alone!Block = Suite[pc[1]][pc[2]] /\ Alone!Here = Alone!Block[pc[3]]
         /\ Alone!Here \in Call /\ Alone!Here.do \notin OfACopy
  <1>1. pc[1] \in DOMAIN Suite /\ pc[2] \in DOMAIN Suite[pc[1]] /\ pc[3] \in DOMAIN Alone!Block
    BY DEF IInv, SuitePlace, Alone!Running
  <1>2. Alone!Block \in Seq(Call)  BY <1>1, SuiteIs DEF Alone!Block
  <1>3. Alone!Here \in Call  BY <1>1, <1>2 DEF Alone!Here
  <1>4. Alone!Here.do \notin OfACopy  BY <1>1, SectionsEndNothing DEF Alone!Here, Alone!Block
  <1> QED  BY <1>1, <1>3, <1>4 DEF Alone!Here, Alone!Block

LEMMA WhatIsHeld ==
  /\ Sound(os) => \A v : v \in HeldBy("suite") <=> Has(os, v)
  /\ Sound(os') => \A v : v \in HeldBy("suite")' <=> Has(os', v)
  BY DEF Sound, HeldBy, Has

LEMMA SoundIsSound == Sound(os)' <=> Sound(os')
  BY DEF Sound, Formed, Shape, Rooted, IsNode, Parent

\* What an answer is told apart by.
LEMMA ToldApart ==
  ASSUME NEW r, NEW q, Alone!Ok = r <=> Alone!Ok = q, r \in Alone!Here.want <=> q \in Alone!Here.want
  PROVE  /\ \A vs : Alone!Kept(Alone!Here, r, vs) = Alone!Kept(Alone!Here, q, vs)
         /\ \A refused, ends : Alone!Reported(r, refused, ends) = Alone!Reported(q, refused, ends)
         /\ \A held : Alone!HoldsAfter(Alone!Here, r, held) = Alone!HoldsAfter(Alone!Here, q, held)
  <1>1. \A vs : Alone!Kept(Alone!Here, r, vs) = Alone!Kept(Alone!Here, q, vs)
    BY Zenon DEF Alone!Kept
  <1>2. \A refused, said : Alone!Says(Alone!Here, r, refused, said) = Alone!Says(Alone!Here, q, refused, said)
    BY DEF Alone!Says, Alone!Fails
  <1>3. Alone!Fails(Alone!Here, r) = Alone!Fails(Alone!Here, q)  BY DEF Alone!Fails
  <1>4. Alone!Exceeds(Alone!Here, r) = Alone!Exceeds(Alone!Here, q)  BY DEF Alone!Exceeds
  <1>5. \A refused, ends : Alone!Reported(r, refused, ends) = Alone!Reported(q, refused, ends)
    BY <1>2, <1>3, <1>4, Zenon DEF Alone!Reported
  <1>6. \A held : Alone!HoldsAfter(Alone!Here, r, held) = Alone!HoldsAfter(Alone!Here, q, held)
    BY DEF Alone!HoldsAfter
  <1> QED  BY <1>1, <1>5, <1>6

\* What the suite goes on with is what the suite by itself goes on with.
LEMMA AnsweredAlone ==
  ASSUME RInv, NEW o, NEW r, NEW refused, Answered(o, r, refused),
         NEW q, Alone!Ok = r <=> Alone!Ok = q, r \in Alone!Here.want <=> q \in Alone!Here.want
  PROVE  Alone!Answered(q, refused)
  <1> DEFINE vs == Alone!Kept(Alone!Here, r, vars["suite"])
             next == Alone!Onward(vs)
             ends == Alone!EndsWith(next)
  <1>1. /\ pc' = next /\ report' = Alone!Reported(r, refused, ends)
        /\ vars' = Variables(o, vs, ends) /\ verdict' = verdict
    BY DEF Answered
  <1>2. vars'["suite"] = IF ends THEN {} ELSE vs
    BY <1>1 DEF Variables, RInv, HasVariables
  <1>3. /\ vs = Alone!Kept(Alone!Here, q, vars["suite"])
        /\ Alone!Reported(r, refused, ends) = Alone!Reported(q, refused, ends)
    BY ToldApart
  <1> HIDE DEF vs, next, ends
  <1>4. next = Alone!Onward(vs) /\ ends = Alone!EndsWith(next)  BY DEF next, ends
  <1> QED  BY <1>1, <1>2, <1>3, <1>4 DEF Alone!Answered

LEMMA SuiteStepAlone ==
  ASSUME RInv, RInv', SuiteStep
  PROVE  Alone!SuiteStep
  <1> DEFINE s == Alone!Here
  <1>1. Alone!Running /\ s \in Call /\ s.do \notin OfACopy  BY HereIsACall DEF SuiteStep, RInv
  <1>2. PICK a \in Do(os, "suite", vars["suite"], s) : Answered(a.os, a.r, report.refused)
    BY DEF SuiteStep
  <1> DEFINE q == IF s.do = "observe" \/ a.r \in s.want \cup {Alone!Ok} THEN a.r ELSE Alone!Another
  <1>3. s.want \in SUBSET Nat  BY <1>1 DEF Call
  <1>4. (Alone!Ok = a.r <=> Alone!Ok = q) /\ (a.r \in s.want <=> q \in s.want)
    BY <1>3 DEF Alone!Ok, Alone!Another
  <1>5. Alone!Answered(q, report.refused)  BY <1>2, <1>4, AnsweredAlone
  <1>6. q \in Alone!AnswersTo(s, vars["suite"])
    <2>1. CASE s.do = "observe"
      <3>1. s.d = "here"  BY <1>1, <2>1 DEF Call
      <3>2. ~UsesHandle(s) /\ ~UsesDir(s)  BY <2>1, <3>1 DEF UsesHandle, UsesDir, OfHandles, OfFiles
      <3>3. a \in Reply(IF s.how \subseteq vars["suite"] THEN Ok ELSE Invalid, os)
        BY <1>2, <2>1, <3>2 DEF Do, OfFiles, OfACopy
      <3>4. a.r = IF s.how \subseteq vars["suite"] THEN Ok ELSE Invalid  BY <3>3, Replying
      <3> QED  BY <2>1, <3>4 DEF Alone!AnswersTo, Ok, Invalid, Alone!Ok, Alone!Invalid
    <2>2. CASE s.do # "observe"  BY <2>2 DEF Alone!AnswersTo
    <2> QED  BY <2>1, <2>2
  <1>7. HeldBy("suite")' = Alone!HoldsAfter(s, q, HeldBy("suite"))
    <2>1. os' = a.os  BY <1>2 DEF Answered
    <2>2. Sound(os) /\ Sound(os')  BY SoundIsSound DEF RInv, IInv
    <2>3. \A v : Has(os', v) <=> Holding(os, "suite", s, a.r, v)
      BY <1>1, <1>2, <2>1, <2>2, DoHolds DEF Acts
    <2>4. \A v : v \in HeldBy("suite")' <=> v \in Alone!HoldsAfter(s, a.r, HeldBy("suite"))
      <3>1. Ok = Alone!Ok /\ Acquires = Alone!Acquires  BY DEF Ok, Alone!Ok, Acquires, Alone!Acquires
      <3> QED  BY <2>2, <2>3, <3>1, WhatIsHeld DEF Holding, Alone!HoldsAfter
    <2>5. HeldBy("suite")' = Alone!HoldsAfter(s, a.r, HeldBy("suite"))
      <3> DEFINE after == Alone!HoldsAfter(s, a.r, HeldBy("suite"))
                 held == HeldBy("suite")'
      <3>1. \A v : v \in held <=> v \in after  BY <2>4
      <3> HIDE DEF after, held
      <3>2. held = after  BY <3>1
      <3> QED  BY <3>2 DEF held, after
    <2> QED  BY <1>4, <2>5, ToldApart
  <1> QED  BY <1>1, <1>5, <1>6, <1>7 DEF Alone!SuiteStep

LEMMA KillAlone ==
  ASSUME RInv, RInv', Kill
  PROVE  Alone!Kill
  <1> DEFINE gone == {x \in DOMAIN os.held : x[1] = "suite"}
             o == Reaped(Let(os, gone))
  <1>1. /\ Alone!Running /\ os' = [o EXCEPT !.claims = @ \cup Known]
        /\ vars' = [w \in DOMAIN vars |-> IF w # "suite" /\ o.procs[w].state = "running" THEN vars[w] ELSE {}]
        /\ pc' = Alone!Beginning /\ report' = Alone!NoReport /\ verdict' = verdict
    BY DEF Kill
  <1>2. vars'["suite"] = {}  BY <1>1 DEF RInv, HasVariables
  <1>3. Sound(os) /\ Sound(os')  BY SoundIsSound DEF RInv, IInv
  <1>4. Shape(o) /\ DOMAIN o.held = DOMAIN os.held \ gone
    <2> DEFINE p == Let(os, gone)
    <2>1. Shape(p) /\ DOMAIN p.held = DOMAIN os.held \ gone  BY <1>3, LetSame DEF Sound, Same, Formed
    <2> HIDE DEF p
    <2> DEFINE procs == [c \in CopyNames |->
                          IF p.procs[c].state = "ended" /\ ~Watched(p, c) THEN NoCopy ELSE p.procs[c]]
    <2>2. Reaped(p) = [p EXCEPT !.procs = procs]  BY DEF Reaped
    <2> HIDE DEF procs
    <2>3. Shape(Reaped(p)) /\ Reaped(p).held = p.held  BY <2>1, <2>2 DEF Shape
    <2> QED  BY <2>1, <2>3 DEF p
  <1> HIDE DEF o
  <1>5. os'.held = o.held  BY <1>1, <1>4 DEF Shape
  <1>6. \A v : v \notin HeldBy("suite")'
    <2>1. \A v : <<"suite", v>> \notin DOMAIN os'.held  BY <1>4, <1>5
    <2> QED  BY <1>3, <2>1, WhatIsHeld DEF Has
  <1>7. HeldBy("suite")' = {}  BY <1>6
  <1> QED  BY <1>1, <1>2, <1>7 DEF Alone!Kill

LEMMA CopyStepAlone ==
  ASSUME RInv, RInv', NEW c \in CopyNames, CopyStep(c)
  PROVE  UNCHANGED Alone!alone
  <1> DEFINE s == errands[os.procs[c].errand][copy_pc[c]]
  <1>1. Acts(os, c) /\ c # "suite"  BY CopyNamesType DEF CopyStep, Acts
  <1>2. s \in Call
    <2>1. os.procs[c].errand \in DOMAIN errands /\ copy_pc[c] \in DOMAIN errands[os.procs[c].errand]
      BY DEF CopyStep, RInv, IInv, Sound, CopyPlaces
    <2> QED  BY <2>1, ErrandsBegin
  <1>3. PICK a \in Do(os, c, vars[c], s) :
          os' = a.os /\ \E new : vars' = [vars EXCEPT ![c] = new]
    BY DEF CopyStep
  <1>4. vars'["suite"] = vars["suite"]  BY <1>1, <1>3
  <1>5. Sound(os) /\ Sound(os')  BY SoundIsSound DEF RInv, IInv
  <1>6. \A v : Has(os', v) <=> Has(os, v)
    BY <1>1, <1>2, <1>3, <1>5, DoHolds DEF Holding
  <1>7. HeldBy("suite")' = HeldBy("suite")
    <2> DEFINE before == HeldBy("suite")
               after == HeldBy("suite")'
    <2>1. \A v : v \in after <=> v \in before  BY <1>5, <1>6, WhatIsHeld
    <2> HIDE DEF before, after
    <2>2. after = before  BY <2>1
    <2> QED  BY <2>2 DEF before, after
  <1>8. UNCHANGED <<pc, report, verdict>>  BY DEF CopyStep
  <1> QED  BY <1>4, <1>7, <1>8 DEF Alone!alone

LEMMA StepsAlone == RInv /\ RInv' /\ [Next]_state => [Alone!Next]_(Alone!alone)
  <1> SUFFICES ASSUME RInv, RInv', [Next]_state PROVE [Alone!Next]_(Alone!alone)  OBVIOUS
  <1>1. os' = os => HeldBy("suite")' = HeldBy("suite")  BY DEF HeldBy
  <1>2. CASE SuiteStep  BY <1>2, SuiteStepAlone DEF Alone!Next
  <1>3. CASE SuiteRefused
    <2>1. Alone!Running /\ Alone!Here.do \in Alone!Refusable
          /\ Answered(os, NoMemory, Alone!Here.as)
      BY <1>3 DEF SuiteRefused
    <2>2. NoMemory = Alone!NoMemory  BY DEF NoMemory, Alone!NoMemory
    <2>3. Alone!Answered(Alone!NoMemory, Alone!Here.as)  BY <2>1, <2>2, AnsweredAlone
    <2>4. HeldBy("suite")' = HeldBy("suite")  BY <1>1, <2>1 DEF Answered
    <2> QED  BY <2>1, <2>3, <2>4 DEF Alone!SuiteRefused, Alone!Next
  <1>4. CASE \E c \in CopyNames : CopyStep(c)  BY <1>4, CopyStepAlone
  <1>5. CASE Kill  BY <1>5, KillAlone DEF Alone!Next
  <1>6. CASE summarise
    <2>1. UNCHANGED <<os, pc, vars, report>>  BY <1>6 DEF summarise
    <2>2. Alone!summarise  BY <1>1, <1>6, <2>1, Zenon DEF summarise, Alone!summarise
    <2> QED  BY <2>2 DEF Alone!Next
  <1>7. CASE UNCHANGED state
    <2>1. UNCHANGED <<os, pc, vars, report, verdict>>  BY <1>7 DEF state
    <2> QED  BY <1>1, <2>1 DEF Alone!alone
  <1> QED  BY <1>2, <1>3, <1>4, <1>5, <1>6, <1>7 DEF Next, Works, Over

\* The suite in its environment, whatever is answered, refused or killed and with
\* any number of copies, does nothing the suite by itself may not do
\* (SuiteAlone): what it holds is what its own calls gave and did not release,
\* whatever its copies open, are granted or leave behind when they end.
THEOREM RefinesSuiteAlone == Spec => ImplementsSuiteAlone
  <1>1. Init => Alone!Init
    <2> SUFFICES ASSUME Init PROVE Alone!Init  OBVIOUS
    <2>1. os.held = <<>>  BY DEF Init, Boot
    <2>2. HeldBy("suite") = {}  BY <2>1 DEF HeldBy
    <2>3. vars["suite"] = {}  BY DEF Init
    <2> QED  BY <2>2, <2>3 DEF Init, Alone!Init
  <1> QED  BY <1>1, StepsAlone, AlwaysRInv, PTL DEF Spec, ImplementsSuiteAlone, Alone!Spec

-----------------------------------------------------------------------------
\* The suite is on one of the ways through its block that SectionWays computes.

\* The operators of Blocks, as the suite by itself has them.
LEMMA SameBlocks ==
  /\ \A b, i, vs : Alone!NextIn(b, i, vs) = NextIn(b, i, vs)
  /\ \A s, r, vs : Alone!Kept(s, r, vs) = Kept(s, r, vs)
  /\ \A s, vs : Alone!AnswersTo(s, vs) = AnswersTo(s, vs)
  /\ \A s, r : Alone!Exceeds(s, r) = Exceeds(s, r)
  /\ \A s, r, held : Alone!HoldsAfter(s, r, held) = HoldsAfter(s, r, held)
  /\ \A s, r, refused, said : Alone!Says(s, r, refused, said) <=> Says(s, r, refused, said)
  /\ \A b, s, refused : Alone!Unmade(b, s, refused) <=> Unmade(b, s, refused)
  /\ Alone!NoMemory = NoMemory /\ Alone!Refusable = Refusable /\ Alone!Ok = Ok
  <1>1. Alone!NoMemory = NoMemory /\ Alone!Ok = Ok /\ Alone!Invalid = Invalid /\ Alone!Another = Another
    BY DEF Alone!NoMemory, NoMemory, Alone!Ok, Ok, Alone!Invalid, Invalid, Alone!Another, Another
  <1>2. Alone!Acquires = Acquires  BY DEF Alone!Acquires, Acquires
  <1>3. Alone!Refusable = Refusable  BY <1>2, Zenon DEF Alone!Refusable, Refusable
  <1>4. \A b, i, vs : Alone!NextIn(b, i, vs) = NextIn(b, i, vs)
    <2>1. \A S : Alone!Min(S) = Min(S)  BY Zenon DEF Alone!Min, Min
    <2>2. \A s, vs : Alone!IsMade(s, vs) <=> IsMade(s, vs)  BY Zenon DEF Alone!IsMade, IsMade
    <2> SUFFICES ASSUME NEW b, NEW i, NEW vs PROVE Alone!NextIn(b, i, vs) = NextIn(b, i, vs)
      OBVIOUS
    <2>3. {j \in i..Len(b) : Alone!IsMade(b[j], vs)} = {j \in i..Len(b) : IsMade(b[j], vs)}  BY <2>2
    <2> QED  BY <2>1, <2>3 DEF Alone!NextIn, NextIn
  <1>5. \A s, r, vs : Alone!Kept(s, r, vs) = Kept(s, r, vs)  BY Zenon DEF Alone!Kept, Kept
  <1>6. \A s, vs : Alone!AnswersTo(s, vs) = AnswersTo(s, vs)
    BY <1>1, Zenon DEF Alone!AnswersTo, AnswersTo
  <1>7. \A s, r : Alone!Exceeds(s, r) = Exceeds(s, r)
    BY <1>1, <1>2, Zenon DEF Alone!Exceeds, Exceeds
  <1>8. \A s, r, held : Alone!HoldsAfter(s, r, held) = HoldsAfter(s, r, held)
    <2>1. \A s : Alone!Obtained(s) = Obtained(s)  BY Zenon DEF Alone!Obtained, Obtained
    <2> QED  BY <1>1, <1>2, <2>1, Zenon DEF Alone!HoldsAfter, HoldsAfter
  <1>9. \A s, r, refused, said : Alone!Says(s, r, refused, said) <=> Says(s, r, refused, said)
    BY Zenon DEF Alone!Says, Says, Alone!Fails, Fails
  <1>10. \A b, s, refused : Alone!Unmade(b, s, refused) <=> Unmade(b, s, refused)
    BY Zenon DEF Alone!Unmade, Unmade
  <1> QED  BY <1>1, <1>3, <1>4, <1>5, <1>6, <1>7, <1>8, <1>9, <1>10

\* Where the suite goes on: in its block, at the next block, at the next section.
LEMMA WhereItGoesOn ==
  ASSUME SuitePlace, Alone!Running, NEW vs, NEW i, i = NextIn(Alone!Block, pc[3] + 1, vs),
         NEW next, next = Alone!Onward(vs)
  PROVE  \/ /\ ~Leaves(Alone!Block, pc[3], i)
            /\ next = <<pc[1], pc[2], i>> /\ next # Alone!End /\ ~Alone!EndsWith(next)
         \/ /\ Leaves(Alone!Block, pc[3], i) /\ (Alone!Here.do = "leave" \/ pc[2] = Len(Suite[pc[1]]))
            /\ next = <<pc[1] + 1, 1, 1>> /\ Alone!EndsWith(next)
            /\ \/ next = Alone!End /\ pc[1] = Len(Suite)
               \/ next # Alone!End /\ pc[1] + 1 \in DOMAIN Suite /\ 1 \in DOMAIN Suite[pc[1] + 1]
         \/ /\ Leaves(Alone!Block, pc[3], i) /\ ~(Alone!Here.do = "leave" \/ pc[2] = Len(Suite[pc[1]]))
            /\ next = <<pc[1], pc[2] + 1, 1>> /\ next # Alone!End /\ Alone!EndsWith(next)
            /\ pc[2] + 1 \in DOMAIN Suite[pc[1]]
  <1> DEFINE leaves == Leaves(Alone!Block, pc[3], i)
             goes == Alone!Here.do = "leave"
  <1>1. pc[1] \in DOMAIN Suite /\ pc[2] \in DOMAIN Suite[pc[1]] /\ pc[3] \in DOMAIN Alone!Block
    BY DEF SuitePlace, Alone!Running
  <1>2. /\ Len(Suite) \in Nat /\ pc[1] \in 1..Len(Suite)
        /\ Len(Suite[pc[1]]) \in Nat /\ pc[2] \in 1..Len(Suite[pc[1]])
    <2>1. Suite[pc[1]] \in Seq(Seq(Call)) /\ Len(Suite[pc[1]]) \in Nat  BY <1>1, SuiteIs
    <2>2. pc[2] \in 1..Len(Suite[pc[1]])  BY <1>1, <2>1
    <2> QED  BY <1>1, <2>1, <2>2, SuiteIs
  <1>3. next = Alone!After(i)  BY SameBlocks DEF Alone!Onward
  <1>4. \/ ~leaves /\ next = <<pc[1], pc[2], i>>
        \/ leaves /\ goes /\ next = <<pc[1] + 1, 1, 1>>
        \/ leaves /\ ~goes /\ next = Alone!NextBlock
    <2>1. leaves <=> (Alone!Here.do = "return" \/ goes \/ i > Len(Alone!Block))
      BY DEF Leaves, Alone!Here
    <2> QED  BY <1>3, <2>1, Zenon DEF Alone!After
  <1>5. \/ pc[2] < Len(Suite[pc[1]]) /\ Alone!NextBlock = <<pc[1], pc[2] + 1, 1>>
        \/ ~(pc[2] < Len(Suite[pc[1]])) /\ Alone!NextBlock = <<pc[1] + 1, 1, 1>>
    BY Zenon DEF Alone!NextBlock
  <1>6. pc[2] < Len(Suite[pc[1]]) <=> pc[2] # Len(Suite[pc[1]])  BY <1>2
  <1>7. pc[1] # Len(Suite) => pc[1] + 1 \in DOMAIN Suite /\ 1 \in DOMAIN Suite[pc[1] + 1]
    <2> SUFFICES ASSUME pc[1] # Len(Suite)
                 PROVE  pc[1] + 1 \in DOMAIN Suite /\ 1 \in DOMAIN Suite[pc[1] + 1]
      OBVIOUS
    <2> DEFINE n == pc[1] + 1
    <2>1. n \in 1..Len(Suite)  BY <1>2
    <2> HIDE DEF n
    <2>2. n \in DOMAIN Suite  BY <2>1, SuiteIs
    <2>3. 1 \in DOMAIN Suite[n]  BY <2>2, SuiteIs
    <2> QED  BY <2>2, <2>3 DEF n
  <1>8. pc[2] < Len(Suite[pc[1]]) => pc[2] + 1 \in DOMAIN Suite[pc[1]]
    <2>1. Suite[pc[1]] \in Seq(Seq(Call))  BY <1>1, SuiteIs
    <2> QED  BY <1>2, <2>1
  <1> HIDE DEF leaves, goes
  <1>9. ASSUME next = <<pc[1], pc[2], i>>
        PROVE  next # Alone!End /\ ~Alone!EndsWith(next)
    <2>1. next[1] = pc[1] /\ next[2] = pc[2]  BY <1>9
    <2>2. Alone!End[1] = Len(Suite) + 1  BY DEF Alone!End
    <2>3. next # Alone!End  BY <1>2, <2>1, <2>2
    <2> QED  BY <2>1, <2>3 DEF Alone!EndsWith
  <1>10. ASSUME next = <<pc[1] + 1, 1, 1>>
         PROVE  /\ Alone!EndsWith(next)
                /\ \/ next = Alone!End /\ pc[1] = Len(Suite)
                   \/ next # Alone!End /\ pc[1] + 1 \in DOMAIN Suite /\ 1 \in DOMAIN Suite[pc[1] + 1]
    <2>1. next[1] = pc[1] + 1  BY <1>10
    <2>2. Alone!EndsWith(next)  BY <1>2, <2>1 DEF Alone!EndsWith
    <2>3. pc[1] = Len(Suite) => next = Alone!End  BY <1>10 DEF Alone!End
    <2>4. Alone!End[1] = Len(Suite) + 1  BY DEF Alone!End
    <2>5. pc[1] # Len(Suite) => next # Alone!End  BY <1>2, <2>1, <2>4
    <2> QED  BY <1>7, <2>2, <2>3, <2>5
  <1>11. ASSUME next = <<pc[1], pc[2] + 1, 1>>
         PROVE  next # Alone!End /\ Alone!EndsWith(next)
    <2>1. next[1] = pc[1] /\ next[2] = pc[2] + 1  BY <1>11
    <2>2. Alone!End[1] = Len(Suite) + 1  BY DEF Alone!End
    <2>3. next # Alone!End  BY <1>2, <2>1, <2>2
    <2> QED  BY <1>2, <2>1, <2>3 DEF Alone!EndsWith
  <1>12. CASE ~leaves /\ next = <<pc[1], pc[2], i>>  BY <1>9, <1>12 DEF leaves
  <1>13. CASE leaves /\ goes /\ next = <<pc[1] + 1, 1, 1>>  BY <1>10, <1>13 DEF leaves, goes
  <1>14. CASE leaves /\ ~goes /\ next = Alone!NextBlock
    <2>1. CASE pc[2] < Len(Suite[pc[1]]) /\ Alone!NextBlock = <<pc[1], pc[2] + 1, 1>>
      BY <1>6, <1>8, <1>11, <1>14, <2>1 DEF leaves, goes
    <2>2. CASE ~(pc[2] < Len(Suite[pc[1]])) /\ Alone!NextBlock = <<pc[1] + 1, 1, 1>>
      BY <1>6, <1>10, <1>14, <2>2 DEF leaves, goes
    <2> QED  BY <1>5, <2>1, <2>2
  <1> QED  BY <1>4, <1>12, <1>13, <1>14

\* What the suite knows and holds is on one of the ways through its block, and
\* when it has ended it holds no more than the last of them leaves.
SuiteHolds == HeldBy("suite")
OnItsWay ==
  ~report.given =>
    IF pc = Alone!End THEN SuiteHolds \in Begins(Len(Suite) + 1, 1)
    ELSE /\ verdict = 9
         /\ Way(pc[3], vars["suite"], SuiteHolds) \in WaysOf(pc[1], pc[2])

LEMMA WaysBegin ==
  ASSUME NEW i \in DOMAIN Suite, NEW j \in DOMAIN Suite[i], NEW h \in Begins(i, j)
  PROVE  Way(1, {}, h) \in WaysOf(i, j)
  BY HandlesAreLedThrough

LEMMA WaysLead ==
  ASSUME NEW i \in DOMAIN Suite, NEW j \in DOMAIN Suite[i], NEW x \in WaysOf(i, j)
  PROVE  LET b == Suite[i][j] IN
         /\ KeepsHandles(b[x.at], x.known, x.holds, b \in Unchecked)
         /\ \A r \in Likely(b[x.at], x.known) :
              IF ~Leaves(b, x.at, Onto(b, x, r).at) THEN Onto(b, x, r) \in WaysOf(i, j)
              ELSE IF b[x.at].do = "leave" \/ j = Len(Suite[i]) THEN Onto(b, x, r).holds \in Begins(i + 1, 1)
              ELSE Onto(b, x, r).holds \in Begins(i, j + 1)
  BY HandlesAreLedThrough DEF WellLed

LEMMA WayIs ==
  ASSUME NEW at, NEW known, NEW holds
  PROVE  Way(at, known, holds).at = at /\ Way(at, known, holds).known = known /\ Way(at, known, holds).holds = holds
  BY DEF Way

LEMMA FirstOfTheSuite == 1 \in DOMAIN Suite /\ 1 \in DOMAIN Suite[1] /\ Alone!Beginning # Alone!End
  <1>1. 1 \in DOMAIN Suite /\ Len(Suite) \in Nat /\ Len(Suite) >= 1  BY SuiteIs
  <1>2. 1 \in DOMAIN Suite[1]  BY <1>1, SuiteIs
  <1>3. Alone!Beginning[1] = 1 /\ Alone!End[1] = Len(Suite) + 1  BY DEF Alone!Beginning, Alone!End
  <1> QED  BY <1>1, <1>2, <1>3

\* An answer leads the suite on along its way.
LEMMA AnswerLeadsOn ==
  ASSUME RInv, OnItsWay, Alone!Running, NEW refused, NEW r,
         r \in AnswersTo(Alone!Here, vars["suite"]) \cup IF Alone!Here.do \in Refusable THEN {NoMemory} ELSE {},
         Alone!Answered(r, refused), SuiteHolds' = HoldsAfter(Alone!Here, r, SuiteHolds)
  PROVE  OnItsWay'
  <1> DEFINE b == Alone!Block
             s == Alone!Here
             x == Way(pc[3], vars["suite"], SuiteHolds)
             y == Onto(b, x, r)
  <1>1. PICK vs, next : /\ vs = Alone!Kept(s, r, vars["suite"]) /\ next = Alone!Onward(vs)
                        /\ pc' = next /\ report' = Alone!Reported(r, refused, Alone!EndsWith(next))
                        /\ vars'["suite"] = IF Alone!EndsWith(next) THEN {} ELSE vs
                        /\ verdict' = verdict
    BY DEF Alone!Answered
  <1>2. SUFFICES ASSUME ~report'.given
                 PROVE  IF pc' = Alone!End THEN SuiteHolds' \in Begins(Len(Suite) + 1, 1)
                        ELSE /\ verdict' = 9
                             /\ Way(pc'[3], vars'["suite"], SuiteHolds') \in WaysOf(pc'[1], pc'[2])
    BY DEF OnItsWay, Alone!End
  <1>3. ~report.given /\ ~Exceeds(s, r)
    <2>1. report'.given = (report.given \/ Alone!Exceeds(s, r))
      BY <1>1, Zenon DEF Alone!Reported
    <2> QED  BY <1>2, <2>1, SameBlocks
  <1>4. /\ pc[1] \in DOMAIN Suite /\ pc[2] \in DOMAIN Suite[pc[1]] /\ b = Suite[pc[1]][pc[2]] /\ s = b[pc[3]]
        /\ pc # Alone!End /\ verdict = 9
    BY HereIsACall DEF RInv, Alone!Running
  <1>5. x \in WaysOf(pc[1], pc[2]) /\ x.at = pc[3] /\ x.known = vars["suite"] /\ x.holds = SuiteHolds
    BY <1>3, <1>4, WayIs DEF OnItsWay
  <1>6. r \in Likely(s, vars["suite"])  BY <1>3 DEF Likely
  <1>7. y = Way(NextIn(b, pc[3] + 1, vs), vs, SuiteHolds')
    <2>1. vs = Kept(s, r, vars["suite"])  BY <1>1, SameBlocks
    <2>2. y = Way(NextIn(b, x.at + 1, Kept(b[x.at], r, x.known)), Kept(b[x.at], r, x.known),
                  HoldsAfter(b[x.at], r, x.holds))
      BY Zenon DEF Onto
    <2> HIDE DEF x, y, b, s
    <2> QED  BY <1>4, <1>5, <2>1, <2>2 DEF s
  <1> DEFINE i == NextIn(b, pc[3] + 1, vs)
  <1>8. y.at = i /\ y.holds = SuiteHolds'  BY <1>7, WayIs
  <1>9. IF ~Leaves(b, pc[3], i) THEN y \in WaysOf(pc[1], pc[2])
        ELSE IF s.do = "leave" \/ pc[2] = Len(Suite[pc[1]]) THEN SuiteHolds' \in Begins(pc[1] + 1, 1)
        ELSE SuiteHolds' \in Begins(pc[1], pc[2] + 1)
    <2> HIDE DEF x, y, b, s, i
    <2>1. IF ~Leaves(b, x.at, Onto(b, x, r).at) THEN Onto(b, x, r) \in WaysOf(pc[1], pc[2])
          ELSE IF b[x.at].do = "leave" \/ pc[2] = Len(Suite[pc[1]]) THEN Onto(b, x, r).holds \in Begins(pc[1] + 1, 1)
          ELSE Onto(b, x, r).holds \in Begins(pc[1], pc[2] + 1)
      BY <1>4, <1>5, <1>6, WaysLead
    <2> QED  BY <1>4, <1>5, <1>8, <2>1 DEF y
  <1> HIDE DEF x, y
  <1>10. \/ /\ ~Leaves(b, pc[3], i)
            /\ next = <<pc[1], pc[2], i>> /\ next # Alone!End /\ ~Alone!EndsWith(next)
         \/ /\ Leaves(b, pc[3], i) /\ (s.do = "leave" \/ pc[2] = Len(Suite[pc[1]]))
            /\ next = <<pc[1] + 1, 1, 1>> /\ Alone!EndsWith(next)
            /\ \/ next = Alone!End /\ pc[1] = Len(Suite)
               \/ next # Alone!End /\ pc[1] + 1 \in DOMAIN Suite /\ 1 \in DOMAIN Suite[pc[1] + 1]
         \/ /\ Leaves(b, pc[3], i) /\ ~(s.do = "leave" \/ pc[2] = Len(Suite[pc[1]]))
            /\ next = <<pc[1], pc[2] + 1, 1>> /\ next # Alone!End /\ Alone!EndsWith(next)
            /\ pc[2] + 1 \in DOMAIN Suite[pc[1]]
    BY <1>1, WhereItGoesOn DEF RInv, IInv
  <1> HIDE DEF i, b, s
  <1>11. CASE ~Leaves(b, pc[3], i)
    <2>1. next = <<pc[1], pc[2], i>> /\ next # Alone!End /\ ~Alone!EndsWith(next)  BY <1>10, <1>11
    <2>2. y = Way(i, vs, SuiteHolds') /\ y \in WaysOf(pc[1], pc[2])  BY <1>7, <1>9, <1>11 DEF i
    <2>3. next[1] = pc[1] /\ next[2] = pc[2] /\ next[3] = i  BY <2>1
    <2> QED  BY <1>1, <1>4, <2>1, <2>2, <2>3
  <1>12. CASE Leaves(b, pc[3], i) /\ (s.do = "leave" \/ pc[2] = Len(Suite[pc[1]]))
    <2>1. next = <<pc[1] + 1, 1, 1>> /\ Alone!EndsWith(next)  BY <1>10, <1>12
    <2>2. SuiteHolds' \in Begins(pc[1] + 1, 1)  BY <1>9, <1>12
    <2>3. CASE next = Alone!End /\ pc[1] = Len(Suite)  BY <1>1, <2>2, <2>3
    <2>4. CASE next # Alone!End /\ pc[1] + 1 \in DOMAIN Suite /\ 1 \in DOMAIN Suite[pc[1] + 1]
      <3>1. Way(1, {}, SuiteHolds') \in WaysOf(pc[1] + 1, 1)  BY <2>2, <2>4, WaysBegin
      <3>2. next[1] = pc[1] + 1 /\ next[2] = 1 /\ next[3] = 1  BY <2>1
      <3> QED  BY <1>1, <1>4, <2>1, <2>4, <3>1, <3>2
    <2> QED  BY <1>10, <1>12, <2>3, <2>4
  <1>13. CASE Leaves(b, pc[3], i) /\ ~(s.do = "leave" \/ pc[2] = Len(Suite[pc[1]]))
    <2>1. /\ next = <<pc[1], pc[2] + 1, 1>> /\ next # Alone!End /\ Alone!EndsWith(next)
          /\ pc[2] + 1 \in DOMAIN Suite[pc[1]]
      BY <1>10, <1>13
    <2>2. SuiteHolds' \in Begins(pc[1], pc[2] + 1)  BY <1>9, <1>13
    <2>3. Way(1, {}, SuiteHolds') \in WaysOf(pc[1], pc[2] + 1)  BY <1>4, <2>1, <2>2, WaysBegin
    <2>4. next[1] = pc[1] /\ next[2] = pc[2] + 1 /\ next[3] = 1  BY <2>1
    <2> QED  BY <1>1, <1>4, <2>1, <2>3, <2>4
  <1> QED  BY <1>11, <1>12, <1>13

LEMMA StaysOnItsWay == RInv /\ OnItsWay /\ [Alone!Next]_(Alone!alone) => OnItsWay'
  <1> SUFFICES ASSUME RInv, OnItsWay, [Alone!Next]_(Alone!alone) PROVE OnItsWay'  OBVIOUS
  <1>1. CASE Alone!SuiteStep
    <2>1. Alone!Running  BY <1>1 DEF Alone!SuiteStep
    <2>2. PICK r \in Alone!AnswersTo(Alone!Here, vars["suite"]) :
            /\ Alone!Answered(r, report.refused)
            /\ SuiteHolds' = Alone!HoldsAfter(Alone!Here, r, SuiteHolds)
      BY <1>1 DEF Alone!SuiteStep, SuiteHolds
    <2>3. /\ r \in AnswersTo(Alone!Here, vars["suite"])
          /\ SuiteHolds' = HoldsAfter(Alone!Here, r, SuiteHolds)
      BY <2>2, SameBlocks
    <2> QED  BY <2>1, <2>2, <2>3, AnswerLeadsOn
  <1>2. CASE Alone!SuiteRefused
    <2>1. /\ Alone!Running /\ Alone!Here.do \in Refusable /\ Alone!Answered(NoMemory, Alone!Here.as)
          /\ SuiteHolds' = SuiteHolds
      BY <1>2, SameBlocks DEF Alone!SuiteRefused, SuiteHolds
    <2>2. SuiteHolds = HoldsAfter(Alone!Here, NoMemory, SuiteHolds)
      <3>1. Alone!Here.do \notin {"close", "free"} /\ NoMemory # Ok
        BY <2>1 DEF Refusable, Acquires, NoMemory, Ok
      <3> QED  BY <3>1, Zenon DEF HoldsAfter
    <2> QED  BY <2>1, <2>2, AnswerLeadsOn
  <1>3. CASE Alone!Kill
    <2>1. /\ pc' = Alone!Beginning /\ vars'["suite"] = {} /\ SuiteHolds' = {} /\ verdict' = verdict
          /\ verdict = 9
      BY <1>3 DEF Alone!Kill, Alone!Running, SuiteHolds
    <2>2. Way(1, {}, {}) \in WaysOf(1, 1)  BY FirstOfTheSuite, WaysBegin, HandlesAreLedThrough
    <2>3. pc'[1] = 1 /\ pc'[2] = 1 /\ pc'[3] = 1 /\ pc' # Alone!End
      BY <2>1, FirstOfTheSuite DEF Alone!Beginning
    <2> QED  BY <2>1, <2>2, <2>3 DEF OnItsWay, Alone!End
  <1>4. CASE Alone!summarise
    <2>1. UNCHANGED <<pc, report, SuiteHolds>> /\ pc = Alone!End
      BY <1>4 DEF Alone!summarise, SuiteHolds
    <2> QED  BY <2>1 DEF OnItsWay, Alone!End
  <1>5. CASE UNCHANGED Alone!alone
    <2>1. UNCHANGED <<pc, report, SuiteHolds, verdict>> /\ vars'["suite"] = vars["suite"]
      BY <1>5 DEF Alone!alone, SuiteHolds
    <2> QED  BY <2>1 DEF OnItsWay, Alone!End
  <1> QED  BY <1>1, <1>2, <1>3, <1>4, <1>5 DEF Alone!Next

LEMMA AlwaysOnItsWay == Spec => []OnItsWay
  <1>1. Init => OnItsWay
    <2> SUFFICES ASSUME Init PROVE OnItsWay  OBVIOUS
    <2>1. os.held = <<>>  BY DEF Init, Boot
    <2>2. SuiteHolds = {}  BY <2>1 DEF HeldBy, SuiteHolds
    <2>3. vars["suite"] = {} /\ pc = Alone!Beginning /\ verdict = 9  BY DEF Init
    <2>4. Way(1, {}, {}) \in WaysOf(1, 1)  BY FirstOfTheSuite, WaysBegin, HandlesAreLedThrough
    <2>5. pc[1] = 1 /\ pc[2] = 1 /\ pc[3] = 1 /\ pc # Alone!End
      BY <2>3, FirstOfTheSuite DEF Alone!Beginning
    <2> QED  BY <2>2, <2>3, <2>4, <2>5 DEF OnItsWay
  <1> QED  BY <1>1, StaysOnItsWay, StepsAlone, AlwaysRInv, PTL DEF Spec

\* No handle of the suite is lost to another kept in its place or used when it is
\* not held, apart from the blocks that go on with what they know they did not
\* obtain: whatever the environment answers, refuses or kills, as often as it
\* will, with any number of copies, as long as it gives nothing where it is to
\* refuse (every block of conformance/src/sections, on every way through it).
THEOREM HandlesAreAlwaysKept == Spec => []HandlesAreKept
  <1>1. RInv /\ OnItsWay => HandlesAreKept
    <2> SUFFICES ASSUME RInv, OnItsWay, Alone!Running, ~report.given
                 PROVE  Alone!KeepsHandles(Alone!Here, vars["suite"], SuiteHolds, Alone!Block \in Unchecked)
      BY DEF HandlesAreKept, Alone!HandlesAreKept, SuiteHolds
    <2> DEFINE x == Way(pc[3], vars["suite"], SuiteHolds)
    <2>1. /\ pc[1] \in DOMAIN Suite /\ pc[2] \in DOMAIN Suite[pc[1]]
          /\ Alone!Block = Suite[pc[1]][pc[2]] /\ Alone!Here = Alone!Block[pc[3]]
      BY HereIsACall DEF RInv
    <2>2. x \in WaysOf(pc[1], pc[2]) /\ x.at = pc[3] /\ x.known = vars["suite"] /\ x.holds = SuiteHolds
      BY WayIs DEF OnItsWay, Alone!Running
    <2> HIDE DEF x
    <2>3. KeepsHandles(Alone!Here, vars["suite"], SuiteHolds, Alone!Block \in Unchecked)
      BY <2>1, <2>2, WaysLead
    <2>4. /\ \A s : Alone!UsesHandle(s) <=> UsesHandle(s)
          /\ \A s : Alone!UsesDir(s) <=> UsesDir(s)
          /\ Alone!Acquires = Acquires
          /\ \A s : Alone!Obtained(s) = Obtained(s)
      BY Zenon DEF Alone!UsesHandle, UsesHandle, Alone!UsesDir, UsesDir, Alone!OfHandles, OfHandles,
                   Alone!OfFiles, OfFiles, Alone!Acquires, Acquires, Alone!Obtained, Obtained
    <2> QED  BY <2>3, <2>4, Zenon DEF KeepsHandles, Alone!KeepsHandles
  <1> QED  BY <1>1, AlwaysRInv, AlwaysOnItsWay, PTL

\* What the suite obtained it has released when it ends, on every way out of every
\* block, whatever it was refused: it holds no more than the region sealed for
\* ever and the context that was not joined, unless it was given something where
\* it was to be refused (conformance/src/sections).
THEOREM HoldsNothingMore == Spec => []Alone!HoldsNothingAtItsEnd
  <1>1. OnItsWay => Alone!HoldsNothingAtItsEnd
    <2> SUFFICES ASSUME OnItsWay, verdict # 9, ~report.given PROVE SuiteHolds \subseteq Unreleased
      BY DEF Alone!HoldsNothingAtItsEnd, SuiteHolds
    <2>1. SuiteHolds \in Begins(Len(Suite) + 1, 1)  BY DEF OnItsWay
    <2> QED  BY <2>1, HandlesAreLedThrough
  <1> QED  BY <1>1, AlwaysOnItsWay, PTL

-----------------------------------------------------------------------------
\* What the suite was refused and has said of its block is told on one of the ways
\* through it.
HasSaid ==
  pc # Alone!End =>
    /\ verdict = 9
    /\ Word(pc[3], vars["suite"], report.refused, report.said) \in WordsOf(pc[1], pc[2])

LEMMA WordsBegin ==
  ASSUME NEW i \in DOMAIN Suite, NEW j \in DOMAIN Suite[i]
  PROVE  Word(1, {}, "", FALSE) \in WordsOf(i, j)
  BY RefusalsAreTold

LEMMA WordsLead ==
  ASSUME NEW i \in DOMAIN Suite, NEW j \in DOMAIN Suite[i], NEW x \in WordsOf(i, j)
  PROVE  LET b == Suite[i][j] IN
         \A a \in Hears(b[x.at], x) :
           IF ~Leaves(b, x.at, Tells(b, x, a).at) THEN Tells(b, x, a) \in WordsOf(i, j)
           ELSE Tells(b, x, a).refused # "" /\ ~Tells(b, x, a).said /\ Unmade(b, b[x.at], Tells(b, x, a).refused)
                => b \in SaysNothing
  BY RefusalsAreTold DEF WellTold

LEMMA WordIs ==
  ASSUME NEW at, NEW known, NEW refused, NEW said
  PROVE  /\ Word(at, known, refused, said).at = at /\ Word(at, known, refused, said).known = known
         /\ Word(at, known, refused, said).refused = refused /\ Word(at, known, refused, said).said = said
  BY DEF Word

\* An answer is told on, and a block that it ends has said what it was to say.
LEMMA AnswerIsTold ==
  ASSUME RInv, HasSaid, Alone!Running, NEW refused, NEW r,
         \/ r \in AnswersTo(Alone!Here, vars["suite"]) /\ refused = report.refused
         \/ Alone!Here.do \in Refusable /\ r = NoMemory /\ refused = Alone!Here.as,
         Alone!Answered(r, refused)
  PROVE  HasSaid' /\ (report'.silent /\ ~report.silent => Alone!Block \in SaysNothing)
  <1> DEFINE b == Alone!Block
             s == Alone!Here
             x == Word(pc[3], vars["suite"], report.refused, report.said)
             a == <<r, refused>>
             y == Tells(b, x, a)
             said == Says(s, r, refused, report.said)
  <1>1. PICK vs, next : /\ vs = Alone!Kept(s, r, vars["suite"]) /\ next = Alone!Onward(vs)
                        /\ pc' = next /\ report' = Alone!Reported(r, refused, Alone!EndsWith(next))
                        /\ vars'["suite"] = IF Alone!EndsWith(next) THEN {} ELSE vs
                        /\ verdict' = verdict
    BY DEF Alone!Answered
  <1> DEFINE ends == Alone!EndsWith(next)
             i == NextIn(b, pc[3] + 1, vs)
  <1>2. /\ report'.refused = IF ends THEN "" ELSE refused
        /\ report'.said = (~ends /\ said)
        /\ report'.silent = (report.silent \/ (ends /\ refused # "" /\ ~said /\ Unmade(b, s, refused)))
    <2>1. /\ Alone!Says(s, r, refused, report.said) = said
          /\ Alone!Unmade(b, s, refused) = Unmade(b, s, refused)
      BY SameBlocks, Zenon DEF Alone!Says, Says, Alone!Unmade, Unmade
    <2>2. report' = Alone!Reported(r, refused, ends)  BY <1>1
    <2> HIDE DEF b, s, said, ends
    <2> QED  BY <2>1, <2>2 DEF Alone!Reported, b, s
  <1>3. /\ pc[1] \in DOMAIN Suite /\ pc[2] \in DOMAIN Suite[pc[1]] /\ b = Suite[pc[1]][pc[2]] /\ s = b[pc[3]]
        /\ pc # Alone!End /\ verdict = 9
    BY HereIsACall DEF RInv, Alone!Running
  <1>4. /\ x \in WordsOf(pc[1], pc[2]) /\ x.at = pc[3] /\ x.known = vars["suite"]
        /\ x.refused = report.refused /\ x.said = report.said
    BY <1>3, WordIs DEF HasSaid
  <1>5. a \in Hears(s, x)
    <2> HIDE DEF x, s
    <2>1. CASE r \in AnswersTo(s, vars["suite"]) /\ refused = report.refused
      BY <1>4, <2>1 DEF Hears
    <2>2. CASE s.do \in Refusable /\ r = NoMemory /\ refused = s.as
      BY <2>2 DEF Hears
    <2> QED  BY <2>1, <2>2 DEF s
  <1>6. y = Word(i, vs, refused, said)
    <2>1. vs = Kept(s, r, vars["suite"])  BY <1>1, SameBlocks
    <2>2. y = Word(NextIn(b, x.at + 1, Kept(b[x.at], a[1], x.known)), Kept(b[x.at], a[1], x.known), a[2],
                   Says(b[x.at], a[1], a[2], x.said))
      BY Zenon DEF Tells
    <2>3. a[1] = r /\ a[2] = refused  OBVIOUS
    <2> HIDE DEF x, y, b, s, a
    <2> QED  BY <1>3, <1>4, <2>1, <2>2, <2>3
  <1>7. y.at = i /\ y.refused = refused /\ y.said = said  BY <1>6, WordIs
  <1>8. IF ~Leaves(b, pc[3], i) THEN y \in WordsOf(pc[1], pc[2])
        ELSE refused # "" /\ ~said /\ Unmade(b, s, refused) => b \in SaysNothing
    <2> HIDE DEF x, b, s, i, a, said
    <2>1. IF ~Leaves(b, x.at, Tells(b, x, a).at) THEN Tells(b, x, a) \in WordsOf(pc[1], pc[2])
          ELSE Tells(b, x, a).refused # "" /\ ~Tells(b, x, a).said /\ Unmade(b, b[x.at], Tells(b, x, a).refused)
               => b \in SaysNothing
      BY <1>3, <1>4, <1>5, WordsLead
    <2> HIDE DEF y
    <2>2. IF ~Leaves(b, x.at, y.at) THEN y \in WordsOf(pc[1], pc[2])
          ELSE y.refused # "" /\ ~y.said /\ Unmade(b, b[x.at], y.refused) => b \in SaysNothing
      BY <2>1, Zenon DEF y
    <2> QED  BY <1>3, <1>4, <1>7, <2>2
  <1> HIDE DEF x, y, a
  <1>9. \/ /\ ~Leaves(b, pc[3], i)
           /\ next = <<pc[1], pc[2], i>> /\ next # Alone!End /\ ~ends
        \/ /\ Leaves(b, pc[3], i) /\ (s.do = "leave" \/ pc[2] = Len(Suite[pc[1]]))
           /\ next = <<pc[1] + 1, 1, 1>> /\ ends
           /\ \/ next = Alone!End /\ pc[1] = Len(Suite)
              \/ next # Alone!End /\ pc[1] + 1 \in DOMAIN Suite /\ 1 \in DOMAIN Suite[pc[1] + 1]
        \/ /\ Leaves(b, pc[3], i) /\ ~(s.do = "leave" \/ pc[2] = Len(Suite[pc[1]]))
           /\ next = <<pc[1], pc[2] + 1, 1>> /\ next # Alone!End /\ ends
           /\ pc[2] + 1 \in DOMAIN Suite[pc[1]]
    BY <1>1, WhereItGoesOn DEF RInv, IInv
  <1>10. SUFFICES HasSaid' /\ (report'.silent /\ ~report.silent => b \in SaysNothing)  OBVIOUS
  <1>11. SUFFICES
           /\ pc' # Alone!End =>
                /\ verdict' = 9
                /\ Word(pc'[3], vars'["suite"], report'.refused, report'.said) \in WordsOf(pc'[1], pc'[2])
           /\ report'.silent /\ ~report.silent => b \in SaysNothing
    BY DEF HasSaid, Alone!End
  <1> HIDE DEF i, b, s, said, ends
  <1>12. ASSUME ends, next # Alone!End => next[3] = 1 /\ next[1] \in DOMAIN Suite /\ next[2] \in DOMAIN Suite[next[1]]
         PROVE  pc' # Alone!End =>
                  /\ verdict' = 9
                  /\ Word(pc'[3], vars'["suite"], report'.refused, report'.said) \in WordsOf(pc'[1], pc'[2])
    <2>1. vars'["suite"] = {} /\ report'.refused = "" /\ report'.said = FALSE
      BY <1>1, <1>2, <1>12 DEF ends
    <2>2. next # Alone!End => Word(1, {}, "", FALSE) \in WordsOf(next[1], next[2])
      BY <1>12, WordsBegin
    <2> QED  BY <1>1, <1>3, <1>12, <2>1, <2>2
  <1>13. CASE ~Leaves(b, pc[3], i)
    <2>1. next = <<pc[1], pc[2], i>> /\ next # Alone!End /\ ~ends  BY <1>9, <1>13
    <2>2. y = Word(i, vs, refused, said) /\ y \in WordsOf(pc[1], pc[2])  BY <1>6, <1>8, <1>13 DEF i, said
    <2>3. next[1] = pc[1] /\ next[2] = pc[2] /\ next[3] = i  BY <2>1
    <2>4. vars'["suite"] = vs  BY <1>1, <2>1 DEF ends
    <2>5. report'.refused = refused /\ report'.said = said  BY <1>2, <2>1 DEF said, Says
    <2>6. report'.silent = report.silent \/ ~report'.silent  BY <1>2, <2>1
    <2> QED  BY <1>1, <1>2, <1>3, <2>1, <2>2, <2>3, <2>4, <2>5, <2>6
  <1>14. CASE Leaves(b, pc[3], i) /\ (s.do = "leave" \/ pc[2] = Len(Suite[pc[1]]))
    <2>1. next = <<pc[1] + 1, 1, 1>> /\ ends
          /\ (next # Alone!End => pc[1] + 1 \in DOMAIN Suite /\ 1 \in DOMAIN Suite[pc[1] + 1])
      BY <1>9, <1>14
    <2>2. next[1] = pc[1] + 1 /\ next[2] = 1 /\ next[3] = 1  BY <2>1
    <2>3. report'.silent /\ ~report.silent => b \in SaysNothing  BY <1>2, <1>8, <1>14
    <2> QED  BY <1>12, <2>1, <2>2, <2>3
  <1>15. CASE Leaves(b, pc[3], i) /\ ~(s.do = "leave" \/ pc[2] = Len(Suite[pc[1]]))
    <2>1. next = <<pc[1], pc[2] + 1, 1>> /\ ends /\ pc[2] + 1 \in DOMAIN Suite[pc[1]]  BY <1>9, <1>15
    <2>2. next[1] = pc[1] /\ next[2] = pc[2] + 1 /\ next[3] = 1  BY <2>1
    <2>3. report'.silent /\ ~report.silent => b \in SaysNothing  BY <1>2, <1>8, <1>15
    <2> QED  BY <1>3, <1>12, <2>1, <2>2, <2>3
  <1> QED  BY <1>13, <1>14, <1>15

LEMMA StepsAreTold ==
  RInv /\ HasSaid /\ [Alone!Next]_(Alone!alone) =>
    HasSaid' /\ (report'.silent /\ ~report.silent => Alone!Block \in SaysNothing)
  <1> SUFFICES ASSUME RInv, HasSaid, [Alone!Next]_(Alone!alone)
               PROVE  HasSaid' /\ (report'.silent /\ ~report.silent => Alone!Block \in SaysNothing)
    OBVIOUS
  <1>1. CASE Alone!SuiteStep
    <2>1. Alone!Running  BY <1>1 DEF Alone!SuiteStep
    <2>2. PICK r \in Alone!AnswersTo(Alone!Here, vars["suite"]) : Alone!Answered(r, report.refused)
      BY <1>1 DEF Alone!SuiteStep
    <2>3. r \in AnswersTo(Alone!Here, vars["suite"])  BY <2>2, SameBlocks
    <2> QED  BY <2>1, <2>2, <2>3, AnswerIsTold
  <1>2. CASE Alone!SuiteRefused
    <2>1. Alone!Running /\ Alone!Here.do \in Refusable /\ Alone!Answered(NoMemory, Alone!Here.as)
      BY <1>2, SameBlocks DEF Alone!SuiteRefused
    <2> QED  BY <2>1, AnswerIsTold
  <1>3. CASE Alone!Kill
    <2>1. /\ pc' = Alone!Beginning /\ vars'["suite"] = {} /\ report' = Alone!NoReport /\ verdict' = verdict
          /\ verdict = 9
      BY <1>3 DEF Alone!Kill, Alone!Running
    <2>2. Word(1, {}, "", FALSE) \in WordsOf(1, 1)  BY FirstOfTheSuite, WordsBegin
    <2>3. pc'[1] = 1 /\ pc'[2] = 1 /\ pc'[3] = 1  BY <2>1 DEF Alone!Beginning
    <2>4. report'.refused = "" /\ report'.said = FALSE /\ report'.silent = FALSE
      BY <2>1 DEF Alone!NoReport
    <2> QED  BY <2>1, <2>2, <2>3, <2>4 DEF HasSaid, Alone!End
  <1>4. CASE Alone!summarise
    <2>1. UNCHANGED <<pc, report>> /\ pc = Alone!End  BY <1>4 DEF Alone!summarise
    <2> QED  BY <2>1 DEF HasSaid, Alone!End
  <1>5. CASE UNCHANGED Alone!alone
    <2>1. UNCHANGED <<pc, report, verdict>> /\ vars'["suite"] = vars["suite"]  BY <1>5 DEF Alone!alone
    <2> QED  BY <2>1 DEF HasSaid, Alone!End
  <1> QED  BY <1>1, <1>2, <1>3, <1>4, <1>5 DEF Alone!Next

\* A block that a refusal keeps from an observation says so before it is left,
\* apart from the blocks named as the ones that do not: whichever calls are
\* refused and in whatever environment (conformance/src/sections, and report.cpp).
THEOREM UnmadeIsAlwaysReported == Spec => UnmadeIsReported
  <1>1. Init => HasSaid
    <2> SUFFICES ASSUME Init PROVE HasSaid  OBVIOUS
    <2>1. vars["suite"] = {} /\ pc = Alone!Beginning /\ verdict = 9 /\ report = Alone!NoReport  BY DEF Init
    <2>2. Word(1, {}, "", FALSE) \in WordsOf(1, 1)  BY FirstOfTheSuite, WordsBegin
    <2>3. pc[1] = 1 /\ pc[2] = 1 /\ pc[3] = 1  BY <2>1 DEF Alone!Beginning
    <2>4. report.refused = "" /\ report.said = FALSE  BY <2>1 DEF Alone!NoReport
    <2> QED  BY <2>1, <2>2, <2>3, <2>4 DEF HasSaid
  <1>2. RInv /\ HasSaid /\ [Alone!Next]_(Alone!alone) => HasSaid'  BY StepsAreTold
  <1>3. RInv /\ HasSaid /\ [Alone!Next]_(Alone!alone) =>
          [report'.silent /\ ~report.silent => Alone!Block \in SaysNothing]_(Alone!alone)
    BY StepsAreTold
  <1> QED  BY <1>1, <1>2, <1>3, StepsAlone, AlwaysRInv, PTL
           DEF Spec, UnmadeIsReported, Alone!UnmadeIsReported
=============================================================================
