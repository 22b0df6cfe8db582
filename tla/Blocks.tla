------------------------------- MODULE Blocks -------------------------------
(* How a program of calls goes through a block (Calls): the steps it makes of  *)
(* it, by what it knows, the answers a step tells apart, and what it holds and *)
(* has said of the block after each.                                           *)
EXTENDS Calls, Integers, FiniteSetsExt

\* The step a program makes next of block b, at or after its i-th; one past the
\* last where it makes none.
IsMade(s, vs) == \A w \in s.when : (w[1] \in vs) = w[2]
NextIn(b, i, vs) == Min({j \in i..Len(b) : IsMade(b[j], vs)} \cup {Len(b) + 1})
Kept(s, r, vs) ==
  IF s.as = "" THEN vs ELSE IF r \in s.want THEN vs \cup {s.as} ELSE vs \ {s.as}

\* The answers a step tells apart: success, the ones it wants, and Another. An
\* observation of variables has its answer from them. A call that obtains, makes
\* or writes something may be refused.
Another == -1
AnswersTo(s, vs) == IF s.do = "observe" THEN {IF s.how \subseteq vs THEN Ok ELSE Invalid}
                    ELSE s.want \cup {Ok, Another}
Refusable == Acquires \cup {"write", "mkdir", "await_use", "terminate"}

\* The variables a call fills that gives what it is for, and those held after it.
Obtained(s) ==
  CASE s.do = "map_region" -> {s.to}
    [] s.do = "spawn" /\ "job" \in s.how -> {s.f, "unit"}
    [] s.do = "obtain" /\ s.to # "" -> {s.f, s.to}
    [] OTHER -> {s.f}
HoldsAfter(s, r, held) ==
  IF s.do \in Acquires /\ r = Ok THEN held \cup Obtained(s)
  ELSE IF s.do \in {"close", "free"} THEN held \ {s.f}
  ELSE held

\* A program is given something where it is to be refused.
Exceeds(s, r) == s.do \in Acquires /\ r = Ok /\ Ok \notin s.want

\* A handle is neither lost to another kept in its place nor used when it is not
\* held; but by a block that goes on with what it knows it did not obtain.
KeepsHandles(s, vs, held, unchecked) ==
  /\ s.do \in Acquires => Obtained(s) \cap held = {}
  /\ UsesHandle(s) => s.f \in held \/ (unchecked /\ s.f \notin vs)
  /\ UsesDir(s) => s.d \in held \/ (unchecked /\ s.d \notin vs)

\* observe: an observation fails. The block says something since a call of it was
\* refused: that it fails, or that something is not observed. An observation was
\* not made for want of what was refused: it was to be made with it, or the block
\* was left without it.
Fails(s, r) == s.obs /\ r \notin s.want
Says(s, r, refused, said) == said \/ Fails(s, r) \/ (refused # "" /\ s.do = "unobserved")
Unmade(b, s, refused) ==
  \/ \E i \in DOMAIN b : b[i].obs /\ <<refused, TRUE>> \in b[i].when
  \/ s.do \in {"return", "leave"} /\ <<refused, FALSE>> \in s.when
=============================================================================
