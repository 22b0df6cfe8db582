----------------------------- MODULE SectionWays -----------------------------
(* Every way through the blocks of the sections, one block at a time: what is  *)
(* known and held at each of its steps, beginning with what the blocks before  *)
(* it hand on. The sections are finite and without parameters, so that what is *)
(* said of them here is computed, once and for all.                            *)
EXTENDS Sections, Blocks

\* A block is left at a step that returns or leaves, or after its last.
Leaves(b, at, next) == b[at].do \in {"return", "leave"} \/ next > Len(b)

\* Where a block can be, step after step from the first, x being followed by Then(x).
Through(b, first, Then(_)) ==
  LET from[n \in 0..Len(b)] ==
        IF n = 0 THEN first
        ELSE LET before == from[n - 1]
             IN before \cup {y \in UNION {Then(x) : x \in {z \in before : z.at = n}} : ~Leaves(b, n, y.at)}
  IN from[Len(b)]

-----------------------------------------------------------------------------
\* What is held on the way. A program that was given what it was to be refused is
\* on none.
Way(at, known, holds) == [at |-> at, known |-> known, holds |-> holds]
Likely(s, vs) ==
  {r \in AnswersTo(s, vs) \cup IF s.do \in Refusable THEN {NoMemory} ELSE {} : ~Exceeds(s, r)}
Onto(b, x, r) ==
  LET vs == Kept(b[x.at], r, x.known)
  IN Way(NextIn(b, x.at + 1, vs), vs, HoldsAfter(b[x.at], r, x.holds))

\* What a block finds held: the ends of the connection its section made, and what
\* an earlier block may have left held.
OfAConnection == {bytes_cross, write_beside_a_read, half_closure, end_of_the_read_direction,
                  ends_of_the_connection}
OfTwoEndpoints == {a_message_sent_whole, a_message_truncated, ends_of_both}
HandedOn(b) == IF b \in OfAConnection THEN {"listener", "client", "server"}
               ELSE IF b \in OfTwoEndpoints THEN {"receiver", "sender"} ELSE {}
Fills(b) == UNION {Obtained(b[n]) : n \in {m \in DOMAIN b : b[m].do \in Acquires}}
LeftBefore(i, j) ==
  {v \in Unreleased : \E k \in DOMAIN Suite : \E l \in DOMAIN Suite[k] :
                         (k < i \/ (k = i /\ l < j)) /\ v \in Fills(Suite[k][l])}
Begins(i, j) ==
  {h \cup left : h \in {IF i \in DOMAIN Suite THEN HandedOn(Suite[i][j]) ELSE {}}, left \in SUBSET LeftBefore(i, j)}

WaysOf(i, j) ==
  LET b == Suite[i][j]
      Went(x) == {Onto(b, x, r) : r \in Likely(b[x.at], x.known)}
  IN Through(b, {Way(1, {}, h) : h \in Begins(i, j)}, Went)

\* On every way through a block handles are kept, and the next block, or the
\* first of the next section, finds what it is to find.
WellLed(i, j, ways) ==
  LET b == Suite[i][j] IN
  \A x \in ways :
    /\ KeepsHandles(b[x.at], x.known, x.holds, b \in Unchecked)
    /\ \A r \in Likely(b[x.at], x.known) : \A y \in {Onto(b, x, r)} :
         IF ~Leaves(b, x.at, y.at) THEN y \in ways
         ELSE IF b[x.at].do = "leave" \/ j = Len(Suite[i]) THEN y.holds \in Begins(i + 1, 1)
         ELSE y.holds \in Begins(i, j + 1)

ASSUME HandlesAreLedThrough ==
  /\ {} \in Begins(1, 1)
  /\ \A i \in DOMAIN Suite : \A j \in DOMAIN Suite[i] :
       /\ \A h \in Begins(i, j) : Way(1, {}, h) \in WaysOf(i, j)
       /\ WellLed(i, j, WaysOf(i, j))
  /\ \A h \in Begins(Len(Suite) + 1, 1) : h \subseteq Unreleased

-----------------------------------------------------------------------------
\* What was refused on the way, and whether anything was said since: an answer is
\* <<r, refused>>, refused being the variable a refused call was to fill.
Word(at, known, refused, said) == [at |-> at, known |-> known, refused |-> refused, said |-> said]
Hears(s, x) == (AnswersTo(s, x.known) \X {x.refused})
               \cup IF s.do \in Refusable THEN {<<NoMemory, s.as>>} ELSE {}
Tells(b, x, a) ==
  LET vs == Kept(b[x.at], a[1], x.known)
  IN Word(NextIn(b, x.at + 1, vs), vs, a[2], Says(b[x.at], a[1], a[2], x.said))

WordsOf(i, j) ==
  LET b == Suite[i][j]
      Told(x) == {Tells(b, x, a) : a \in Hears(b[x.at], x)}
  IN Through(b, {Word(1, {}, "", FALSE)}, Told)

\* However a block is left, it has said so where it was kept from an observation.
WellTold(i, j, words) ==
  LET b == Suite[i][j] IN
  \A x \in words : \A a \in Hears(b[x.at], x) : \A y \in {Tells(b, x, a)} :
    IF ~Leaves(b, x.at, y.at) THEN y \in words
    ELSE y.refused # "" /\ ~y.said /\ Unmade(b, b[x.at], y.refused) => b \in SaysNothing

ASSUME RefusalsAreTold ==
  \A i \in DOMAIN Suite : \A j \in DOMAIN Suite[i] :
    Word(1, {}, "", FALSE) \in WordsOf(i, j) /\ WellTold(i, j, WordsOf(i, j))
=============================================================================
