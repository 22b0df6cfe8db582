------------------------------- MODULE Endpoint -------------------------------
(***************************************************************************)
(* openkal.kit.endpoint: the text of an address and a port, as a program   *)
(* writes it (format_v4) and reads it again (parse_v4).                    *)
(*                                                                         *)
(* A text is its numbers as the digits they are written with: four of an   *)
(* address, and one of a port or none.  The full stops and the colon       *)
(* between them, and the refusal of anything else, are left to the kit's   *)
(* own tests.                                                              *)
(***************************************************************************)
EXTENDS Naturals, Sequences, SequencesExt

CONSTANTS Octets, Ports   \* the numbers of the endpoints that are written, of 8 and 16 bits

VARIABLES
  pc,
  ep,      \* the endpoint a program has
  text,    \* what it was written as
  read     \* the endpoint read of that, or none
vars == <<pc, ep, text, read>>

Endpoints == [addr : [1..4 -> Octets], port : Ports]

-----------------------------------------------------------------------------
\* The digits a number is written with.
Digits(v) ==
  (IF v >= 100 THEN <<(v \div 100) % 10>> ELSE <<>>)
    \o (IF v >= 10 THEN <<(v \div 10) % 10>> ELSE <<>>)
    \o <<v % 10>>

\* A port of zero is not written.
Text(e) ==
  [addr |-> [i \in 1..4 |-> Digits(e.addr[i])],
   port |-> IF e.port = 0 THEN <<>> ELSE Digits(e.port)]

Value(digits) == FoldLeft(LAMBDA v, d : 10 * v + d, 0, digits)

\* No number is read of no digits, of a zero before others, or beyond its limit.
Reads(digits, limit) ==
  /\ digits # <<>>
  /\ Len(digits) > 1 => digits[1] # 0
  /\ Value(digits) <= limit

Accepts(t) ==
  /\ \A i \in 1..4 : Len(t.addr[i]) <= 3 /\ Reads(t.addr[i], 255)
  /\ t.port # <<>> => Reads(t.port, 65535)

\* An address alone has port zero.
Parse(t) == [addr |-> [i \in 1..4 |-> Value(t.addr[i])], port |-> Value(t.port)]

-----------------------------------------------------------------------------
Init == pc = "format" /\ ep \in Endpoints /\ text = <<>> /\ read = {}

Formats ==
  /\ pc = "format"
  /\ text' = Text(ep)
  /\ pc' = "parse"
  /\ UNCHANGED <<ep, read>>

Parses ==
  /\ pc = "parse"
  /\ read' = IF Accepts(text) THEN {Parse(text)} ELSE {}
  /\ pc' = "done"
  /\ UNCHANGED <<ep, text>>

Next == Formats \/ Parses
Spec == Init /\ [][Next]_vars
-----------------------------------------------------------------------------
\* "Formatting and parsing are inverses": what is read of what an endpoint was
\* written as is that endpoint.
FormatsBack == pc = "done" => read = {ep}
=============================================================================
