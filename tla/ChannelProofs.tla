--------------------------- MODULE ChannelProofs ---------------------------
(***************************************************************************)
(* Theorems of Channel, for every capacity, index range and stream length. *)
(***************************************************************************)
EXTENDS Channel, TLAPS

-----------------------------------------------------------------------------
(* The inductive invariant, in parts.                                       *)

(* The indices are the histories, wrapped.                                  *)
Wrapped == head = sent % IndexRange /\ tail = taken % IndexRange

(* The ring holds no less than nothing and no more than its capacity.       *)
Bounded == sent - taken \in 0..Capacity

WriterBetween == w.pc \in {"idle", "closeHead", "closeTail", "gone"}
Published == IF w.pc = "copy" /\ w.stored THEN w.n ELSE 0

(* What the writer's locals say of the ring while it is inside a call.      *)
WriterInv ==
  /\ w.reported + w.done + Published = sent
  /\ WriterBetween => w.done = 0
  /\ ~WriterBetween => w.done < w.len
  /\ w.reported + (IF WriterBetween THEN 0 ELSE w.len) < w.offered => closed
  /\ w.pc \in {"wait", "asleep"} => Used(head, w.tail) = Capacity
  /\ w.pc = "copy" =>
       /\ w.n > 0 /\ w.i <= w.n /\ w.done + w.n <= w.len
       /\ ~w.stored => w.head = head /\ sent + w.n - taken <= Capacity
       /\ Ordered /\ w.stored => w.i = w.n

ReaderInv ==
  /\ r.pc \in {"load", "test", "wait", "asleep"} => r.len > 0
  /\ r.pc \in {"test", "wait", "asleep"} => r.head = tail
  /\ r.pc = "copy" =>
       /\ r.n > 0 /\ r.i <= r.n
       /\ ~r.stored => r.tail = tail /\ r.n <= sent - taken
       /\ Ordered /\ r.stored => r.i = r.n

(* What channel_pending answered, carried to the end of the next call.      *)
PendingInv ==
  /\ w.pc = "idle" => sent - taken + w.room <= Capacity
  /\ ~WriterBetween /\ w.len <= w.room =>
       /\ sent - taken + (w.len - w.done) - Published <= Capacity
       /\ w.pc \notin {"wait", "asleep"}
  /\ r.pc \in {"idle", "load"} => r.ready <= sent - taken
  /\ r.pc \in {"test", "wait", "asleep"} => r.ready = 0

(* Who is suspended, upon what, and what is owed to whom.                   *)
SleepInv ==
  /\ asleep["writer"] # Task!Awake => asleep["writer"] = "tail" /\ w.pc = "asleep"
  /\ asleep["reader"] # Task!Awake => asleep["reader"] = "head" /\ r.pc = "asleep"
  /\ NoLostWake

IInv == /\ TypeOK /\ Bounded /\ Wrapped /\ WriterInv /\ ReaderInv /\ PendingInv
        /\ SleepInv

(* The bytes held are the bytes sent and not yet taken, and the reader has  *)
(* been given every byte before them.                                       *)
Stored == IF w.pc = "copy" /\ ~w.stored THEN w.i ELSE 0
Loaded == IF r.pc = "copy" /\ ~r.stored THEN r.i ELSE 0

DataInv == /\ \A k \in taken..(sent + Stored - 1) : bytes[k % Capacity] = k
           /\ Len(out) = taken + Loaded
           /\ BytesIntact

-----------------------------------------------------------------------------
(* Arithmetic of wrapped indices.                                           *)

(* A quotient and a remainder below the divisor are unique.                 *)
LEMMA DivisionUnique ==
  ASSUME NEW m \in Nat \ {0}, NEW p \in Int, NEW q \in Int,
         NEW a \in 0..(m - 1), NEW b \in 0..(m - 1),
         m * p + a = m * q + b
  PROVE  p = q /\ a = b
<1>1. m * (p - q) = b - a
  OBVIOUS
<1>2. ~(p - q >= 1)
  <2>1. ASSUME p - q >= 1 PROVE m * (p - q) >= m
    BY <2>1
  <2>2. QED
    BY <2>1, <1>1
<1>3. ~(p - q <= -1)
  <2>1. ASSUME p - q <= -1 PROVE m * (p - q) <= -m
    BY <2>1
  <2>2. QED
    BY <2>1, <1>1
<1>4. QED
  BY <1>1, <1>2, <1>3

(* x is a multiple of m and a more.  A name for the equation, so that a     *)
(* lemma about it can be applied without matching a product.                *)
Splits(x, m, q, a) == x = m * q + a

(* A number is a multiple of the divisor, and a remainder below it.         *)
LEMMA Division ==
  ASSUME NEW a \in Int, NEW m \in Nat \ {0}
  PROVE  \E q \in Int, b \in 0..(m - 1) : b = a % m /\ Splits(a, m, q, b)
<1>1. /\ a \div m \in Int
      /\ a % m \in 0..(m - 1)
      /\ a = m * (a \div m) + (a % m)
  OBVIOUS
<1>2. QED
  BY <1>1 DEF Splits

(* What is written as a quotient and a remainder has that remainder.        *)
LEMMA RemainderIs ==
  ASSUME NEW m \in Nat \ {0}, NEW q \in Int, NEW b \in 0..(m - 1), NEW x \in Int,
         Splits(x, m, q, b)
  PROVE  x % m = b
<1>1. PICK p \in Int, a \in 0..(m - 1) : a = x % m /\ Splits(x, m, p, a)
  BY Division
<1>2. m * p + a = m * q + b
  BY <1>1 DEF Splits
<1>3. a = b
  BY <1>2, DivisionUnique
<1>4. QED
  BY <1>1, <1>3

(* The remainder of a sum does not see a multiple of the divisor.           *)
LEMMA AddMultiple ==
  ASSUME NEW m \in Nat \ {0}, NEW q \in Int, NEW a \in Int, NEW x \in Int,
         Splits(x, m, q, a)
  PROVE  x % m = a % m
<1>1. PICK p \in Int, b \in 0..(m - 1) : b = a % m /\ Splits(a, m, p, b)
  BY Division
<1>2. x = m * (q + p) + b
  BY <1>1 DEF Splits
<1>3. PICK d \in Int : d = q + p
  OBVIOUS
<1>4. Splits(x, m, d, b)
  BY <1>2, <1>3 DEF Splits
<1>5. x % m = b
  BY <1>4, RemainderIs
<1>6. QED
  BY <1>1, <1>5

(* The index after n more bytes is the history after n more bytes, wrapped. *)
LEMMA AdvanceWraps ==
  ASSUME NEW a \in Nat, NEW n \in Nat
  PROVE  Advance(a % IndexRange, n) = (a + n) % IndexRange
<1>1. IndexRange \in Nat \ {0}
  BY CapacityAssumption
<1>2. PICK q \in Int, x \in 0..(IndexRange - 1) :
        x = a % IndexRange /\ Splits(a, IndexRange, q, x)
  <2>1. a \in Int
    OBVIOUS
  <2>2. QED
    BY <1>1, <2>1, Division, Zenon
<1>3. a + n \in Int /\ x + n \in Int /\ Splits(a + n, IndexRange, q, x + n)
  BY <1>1, <1>2 DEF Splits
<1>4. (a + n) % IndexRange = (x + n) % IndexRange
  BY <1>1, <1>3, AddMultiple
<1>5. QED
  BY <1>2, <1>4 DEF Advance

(* The difference of two wrapped indices is the difference of the histories *)
(* when that is below the range: the subtraction that unsigned words do.    *)
LEMMA UsedIsDifference ==
  ASSUME NEW a \in Nat, NEW b \in Nat, a - b \in 0..(IndexRange - 1)
  PROVE  Used(a % IndexRange, b % IndexRange) = a - b
<1>1. IndexRange \in Nat \ {0}
  BY CapacityAssumption
<1>2. PICK p \in Int, x \in 0..(IndexRange - 1) :
        x = a % IndexRange /\ Splits(a, IndexRange, p, x)
  <2>1. a \in Int
    OBVIOUS
  <2>2. QED
    BY <1>1, <2>1, Division, Zenon
<1>3. PICK q \in Int, y \in 0..(IndexRange - 1) :
        y = b % IndexRange /\ Splits(b, IndexRange, q, y)
  <2>1. b \in Int
    OBVIOUS
  <2>2. QED
    BY <1>1, <2>1, Division, Zenon
<1>4. PICK d \in Int : d = q - p
  OBVIOUS
<1>5. Splits(x - y, IndexRange, d, a - b)
  <2>1. IndexRange * d = IndexRange * q - IndexRange * p
    BY <1>1, <1>4
  <2>2. a = IndexRange * p + x /\ b = IndexRange * q + y
    BY <1>2, <1>3 DEF Splits
  <2>3. x - y = IndexRange * d + (a - b)
    BY <1>1, <2>1, <2>2
  <2>4. QED
    BY <2>3 DEF Splits
<1>6. (x - y) % IndexRange = a - b
  BY <1>1, <1>5, RemainderIs
<1>7. QED
  BY <1>2, <1>3, <1>6 DEF Used

(* The slot of byte i of a chunk is the slot of its place in the stream:    *)
(* the capacity divides the range, so a wrapped index names the same slot.  *)
LEMMA SlotOfByte ==
  ASSUME NEW a \in Nat, NEW i \in Nat
  PROVE  Slot(a % IndexRange, i) = (a + i) % Capacity
<1>1. IndexRange \in Nat \ {0} /\ Capacity \in Nat \ {0}
  BY CapacityAssumption
<1>2. PICK q \in Int, x \in 0..(IndexRange - 1) :
        x = a % IndexRange /\ Splits(a, IndexRange, q, x)
  BY <1>1, Division
<1>3. PICK k \in Int : IndexRange = Capacity * k
  <2>1. PICK k \in Int : k = IndexRange \div Capacity
    BY <1>1
  <2>2. IndexRange = Capacity * k + (IndexRange % Capacity)
    BY <1>1, <2>1
  <2>3. IndexRange % Capacity = 0
    BY CapacityAssumption
  <2>4. QED
    BY <1>1, <2>2, <2>3
<1>4. PICK d \in Int : d = k * q
  OBVIOUS
<1>5. a + i \in Int /\ x + i \in Int /\ Splits(a + i, Capacity, d, x + i)
  <2>1. IndexRange * q = Capacity * d
    BY <1>1, <1>3, <1>4
  <2>2. QED
    BY <1>1, <1>2, <2>1 DEF Splits
<1>6. (a + i) % Capacity = (x + i) % Capacity
  BY <1>1, <1>5, AddMultiple
<1>7. QED
  BY <1>2, <1>6 DEF Slot

(* Bytes closer than the capacity have slots of their own.                  *)
LEMMA SlotsDistinct ==
  ASSUME NEW a \in Nat, NEW b \in Nat, a - b \in 1..(Capacity - 1)
  PROVE  a % Capacity # b % Capacity
<1>1. Capacity \in Nat \ {0}
  BY CapacityAssumption
<1>2. PICK q \in Int, x \in 0..(Capacity - 1) :
        x = b % Capacity /\ Splits(b, Capacity, q, x)
  <2>1. b \in Int
    OBVIOUS
  <2>2. QED
    BY <1>1, <2>1, Division, Zenon
<1>3. PICK p \in Int, y \in 0..(Capacity - 1) :
        y = a % Capacity /\ Splits(a, Capacity, p, y)
  <2>1. a \in Int
    OBVIOUS
  <2>2. QED
    BY <1>1, <2>1, Division, Zenon
<1>4. ASSUME x = y PROVE FALSE
  <2>1. Capacity * (p - q) = a - b
    BY <1>1, <1>2, <1>3, <1>4 DEF Splits
  <2>2. ASSUME p - q >= 1 PROVE Capacity * (p - q) >= Capacity
    BY <1>1, <2>2
  <2>3. ASSUME p - q <= 0 PROVE Capacity * (p - q) <= 0
    BY <1>1, <2>3
  <2>4. QED
    BY <1>1, <2>1, <2>2, <2>3
<1>5. QED
  BY <1>2, <1>3, <1>4

(* A slot and a wrapped index are within the ring and within the range.     *)
LEMMA IndexRanges ==
  ASSUME NEW a \in Int
  PROVE  /\ a % Capacity \in 0..(Capacity - 1)
         /\ a % IndexRange \in 0..(IndexRange - 1)
<1>1. IndexRange \in Nat \ {0} /\ Capacity \in Nat \ {0}
  BY CapacityAssumption
<1>2. QED
  BY <1>1

-----------------------------------------------------------------------------
(* What a wake does to the contexts.                                        *)

(* A wake keeps every context that was not suspended upon the word as it    *)
(* was, and suspends none.                                                  *)
LEMMA WakeKeeps ==
  ASSUME Task!SleepTypeOK, NEW word, Task!WakeOne(word) \/ Task!WakeAll(word)
  PROVE  /\ Task!SleepTypeOK'
         /\ \A c \in Contexts : /\ asleep'[c] \in {asleep[c], Task!Awake}
                                /\ asleep[c] # word => asleep'[c] = asleep[c]
  BY DEF Task!SleepTypeOK, Task!WakeOne, Task!WakeAll, Task!Sleepers

(* A wake of one leaves nobody suspended where only one could be.           *)
LEMMA WakeReaches ==
  ASSUME Task!SleepTypeOK, NEW word \in Words, Task!WakeOne(word),
         NEW c \in Contexts, Task!Sleepers(word) \subseteq {c}
  PROVE  asleep'[c] # word
  BY DEF Task!SleepTypeOK, Task!WakeOne, Task!Sleepers, Words, Task!Awake

-----------------------------------------------------------------------------
(* The indices compute what is held.                                        *)
LEMMA UsedIsHeld ==
  ASSUME TypeOK, Bounded, Wrapped
  PROVE  Used(head, tail) = sent - taken
<1>1. sent \in Nat /\ taken \in Nat /\ sent - taken \in 0..(IndexRange - 1)
  BY CapacityAssumption DEF TypeOK, Bounded
<1>2. QED
  BY <1>1, UsedIsDifference DEF Wrapped

LEMMA InitIInv == Init => IInv
<1> SUFFICES ASSUME Init PROVE IInv
  OBVIOUS
<1>1. 0 \in 0..(IndexRange - 1) /\ 0 % IndexRange = 0 /\ 0 \in 0..Capacity
  BY CapacityAssumption
<1>2. TypeOK
  <2>1. w \in Writers /\ w.n <= Capacity
    BY CapacityAssumption DEF Init, Writers, WriterAt
  <2>2. r \in Readers /\ r.n <= Capacity
    BY CapacityAssumption DEF Init, Readers, ReaderAt
  <2>3. Task!SleepTypeOK
    BY DEF Init, Task!SleepInit, Task!SleepTypeOK
  <2>4. out \in Seq(Nat \union {Junk})
    BY DEF Init
  <2>5. QED
    BY <1>1, <2>1, <2>2, <2>3, <2>4 DEF Init, TypeOK
<1>3. Bounded /\ Wrapped
  BY <1>1 DEF Init, Bounded, Wrapped
<1>4. WriterInv /\ ReaderInv /\ PendingInv
  BY <1>1 DEF Init, WriterInv, ReaderInv, PendingInv, Published, WriterBetween
<1>5. SleepInv
  BY DEF Init, SleepInv, NoLostWake, Task!SleepInit, Contexts
<1>6. QED
  BY <1>2, <1>3, <1>4, <1>5 DEF IInv

-----------------------------------------------------------------------------
(* Each action preserves the inductive invariant.                           *)

(* What every step needs of the state it starts in.                         *)
Known == /\ Capacity \in Nat /\ Capacity > 0
         /\ IndexRange \in Nat /\ IndexRange > Capacity
         /\ w \in Writers /\ w.n <= Capacity
         /\ r \in Readers /\ r.n <= Capacity
         /\ head \in Nat /\ tail \in Nat
         /\ sent \in Nat /\ taken \in Nat
         /\ sent - taken \in 0..Capacity
         /\ Used(head, tail) = sent - taken
         /\ Task!SleepTypeOK
         /\ asleep["writer"] \in {"head", "tail", Task!Awake}
         /\ asleep["reader"] \in {"head", "tail", Task!Awake}

LEMMA Facts == IInv => Known
  BY UsedIsHeld, CapacityAssumption
  DEF IInv, Known, TypeOK, Bounded, Task!SleepTypeOK, Contexts, Words

LEMMA WriteCallStep ==
  ASSUME IInv, NEW len \in WriteLens, WriteCall(len)
  PROVE  IInv'
<1>1. Known
  BY Facts
<1>2. w \in Writers /\ len \in Nat /\ len > 0 /\ w.offered + len \in Nat
  BY <1>1, LensAssumption DEF Known, Writers
<1>3. w' = [w EXCEPT !.pc = "test", !.len = len, !.done = 0,
                     !.offered = w.offered + len]
  BY <1>1, <1>2 DEF WriteCall, Writers
<1>4. w' \in Writers
  BY <1>2, <1>3 DEF Writers, WriterAt
<1>5. /\ w'.pc = "test"
      /\ w'.len = len
      /\ w'.done = 0
      /\ w'.head = w.head
      /\ w'.tail = w.tail
      /\ w'.n = w.n
      /\ w'.i = w.i
      /\ w'.stored = w.stored
      /\ w'.offered = w.offered + len
      /\ w'.reported = w.reported
      /\ w'.room = w.room
  BY <1>2, <1>3 DEF Writers
<1>6. TypeOK'
  BY <1>1, <1>2, <1>4, <1>5
  DEF IInv, TypeOK, Known, WriteCall, Task!SleepTypeOK, ring, history
<1>7. Bounded' /\ Wrapped'
  BY <1>1, <1>2, <1>4, <1>5
  DEF IInv, Bounded, Wrapped, Known, WriteCall, ring, history
<1>8. WriterInv'
  BY <1>1, <1>2, <1>4, <1>5
  DEF IInv, WriterInv, WriterBetween, Published, Known, WriteCall, Writers, ring,
      history
<1>9. ReaderInv'
  BY <1>1, <1>2, <1>4, <1>5
  DEF IInv, ReaderInv, Known, WriteCall, Readers, ring, history
<1>10. PendingInv'
  BY <1>1, <1>2, <1>4, <1>5
  DEF IInv, WriterInv, ReaderInv, PendingInv, WriterBetween, Published, Known,
      WriteCall, Writers, Readers, ring, history
<1>11. SleepInv'
  BY <1>1, <1>2, <1>4, <1>5
  DEF IInv, SleepInv, NoLostWake, WriterInv, ReaderInv, Known, WriteCall, Contexts,
      ring, history
<1>12. QED
  BY <1>6, <1>7, <1>8, <1>9, <1>10, <1>11 DEF IInv

LEMMA WriteTestStep ==
  ASSUME IInv, WriteTest
  PROVE  IInv'
<1>1. Known
  BY Facts
<1>2. w \in Writers /\ w.reported + w.done \in Nat
  BY <1>1 DEF Known, Writers
<1>3. w' = [w EXCEPT !.pc = IF closed THEN "idle" ELSE "load",
                     !.reported = IF closed THEN w.reported + w.done ELSE w.reported,
                     !.done = IF closed THEN 0 ELSE w.done,
                     !.room = IF closed THEN 0 ELSE w.room]
  BY <1>1, <1>2 DEF WriteTest, WriterReturned, Writers
<1>4. w' \in Writers
  <2>1. CASE closed
    <3>1. w' = [w EXCEPT !.pc = "idle", !.reported = w.reported + w.done, !.done = 0,
                         !.room = 0]
      BY <1>2, <1>3, <2>1 DEF Writers
    <3>2. QED
      BY <1>2, <3>1 DEF Writers, WriterAt
  <2>2. CASE ~closed
    <3>1. w' = [w EXCEPT !.pc = "load"]
      BY <1>2, <1>3, <2>2 DEF Writers
    <3>2. QED
      BY <1>2, <3>1 DEF Writers, WriterAt
  <2>3. QED
    BY <2>1, <2>2
<1>5. /\ w'.pc = IF closed THEN "idle" ELSE "load"
      /\ w'.len = w.len
      /\ w'.done = IF closed THEN 0 ELSE w.done
      /\ w'.head = w.head
      /\ w'.tail = w.tail
      /\ w'.n = w.n
      /\ w'.i = w.i
      /\ w'.stored = w.stored
      /\ w'.offered = w.offered
      /\ w'.reported = IF closed THEN w.reported + w.done ELSE w.reported
      /\ w'.room = IF closed THEN 0 ELSE w.room
  BY <1>2, <1>3 DEF Writers
<1>6. TypeOK'
  BY <1>1, <1>2, <1>4, <1>5
  DEF IInv, TypeOK, Known, WriteTest, Task!SleepTypeOK, ring, history
<1>7. Bounded' /\ Wrapped'
  BY <1>1, <1>2, <1>4, <1>5
  DEF IInv, Bounded, Wrapped, Known, WriteTest, ring, history
<1>8. WriterInv'
  BY <1>1, <1>2, <1>4, <1>5
  DEF IInv, WriterInv, WriterBetween, Published, Known, WriteTest, Writers, ring,
      history
<1>9. ReaderInv'
  BY <1>1, <1>2, <1>4, <1>5
  DEF IInv, ReaderInv, Known, WriteTest, Readers, ring, history
<1>10. PendingInv'
  BY <1>1, <1>2, <1>4, <1>5
  DEF IInv, WriterInv, ReaderInv, PendingInv, WriterBetween, Published, Known,
      WriteTest, Writers, Readers, ring, history
<1>11. SleepInv'
  BY <1>1, <1>2, <1>4, <1>5
  DEF IInv, SleepInv, NoLostWake, WriterInv, ReaderInv, Known, WriteTest, Contexts,
      ring, history
<1>12. QED
  BY <1>6, <1>7, <1>8, <1>9, <1>10, <1>11 DEF IInv

LEMMA WriteLoadStep ==
  ASSUME IInv, WriteLoad
  PROVE  IInv'
<1>1. Known
  BY Facts
<1>2. PICK n \in 0..Capacity : /\ n = Least(w.len - w.done, Capacity - Used(head, tail))
                               /\ n <= w.len - w.done /\ n <= Capacity - (sent - taken)
                               /\ Used(head, tail) # Capacity => n > 0
  BY <1>1 DEF WriteLoad, Known, IInv, WriterInv, WriterBetween, Writers, Least
<1>3. w \in Writers /\ n \in Nat /\ head \in Nat /\ tail \in Nat
  BY <1>1, <1>2 DEF Known, Writers
<1>4. w' = [w EXCEPT !.pc = IF Used(head, tail) = Capacity THEN "wait" ELSE "copy",
                     !.head = head, !.tail = tail, !.n = n, !.i = 0, !.stored = FALSE]
  <2>1. n = Least(w.len - w.done, Capacity - Used(head, tail))
    BY <1>2
  <2>2. QED
    BY <2>1 DEF WriteLoad
<1>5. w' \in Writers
  BY <1>3, <1>4 DEF Writers, WriterAt
<1>6. /\ w'.pc = IF Used(head, tail) = Capacity THEN "wait" ELSE "copy"
      /\ w'.len = w.len
      /\ w'.done = w.done
      /\ w'.head = head
      /\ w'.tail = tail
      /\ w'.n = n
      /\ w'.i = 0
      /\ w'.stored = FALSE
      /\ w'.offered = w.offered
      /\ w'.reported = w.reported
      /\ w'.room = w.room
  BY <1>3, <1>4 DEF Writers
<1>7. TypeOK'
  BY <1>1, <1>2, <1>3, <1>5, <1>6
  DEF IInv, TypeOK, Known, WriteLoad, Task!SleepTypeOK, ring, history
<1>8. Bounded' /\ Wrapped'
  BY <1>1, <1>2, <1>3, <1>5, <1>6
  DEF IInv, Bounded, Wrapped, Known, WriteLoad, ring, history
<1>9. WriterInv'
  <2>1. UNCHANGED <<head, tail, closed, sent, taken>> /\ w.pc = "load"
    BY DEF WriteLoad, ring, history
  <2>2. w.reported + w.done = sent /\ w.done < w.len
    BY <1>1, <1>2, <1>3, <1>5, <1>6, <2>1
    DEF IInv, WriterInv, WriterBetween, Published, Writers
  <2>3. w.reported + w.len < w.offered => closed
    BY <1>1, <1>2, <1>3, <1>5, <1>6, <2>1 DEF IInv, WriterInv, WriterBetween
  <2>4. CASE Used(head, tail) = Capacity
    BY <1>1, <1>2, <1>3, <1>5, <1>6, <2>1, <2>2, <2>3, <2>4
    DEF WriterInv, WriterBetween, Published, Writers
  <2>5. CASE Used(head, tail) # Capacity
    <3>1. /\ w'.pc = "copy" /\ w'.n > 0
          /\ w'.n <= w.len - w.done /\ w'.n <= Capacity - (sent - taken)
      BY <1>2, <1>6, <2>5
    <3>2. /\ w.done \in Nat /\ w.len \in Nat /\ w.reported \in Nat
          /\ w.offered \in Nat /\ w'.n \in Nat
      BY <1>3, <1>6 DEF Writers
    <3>3. w'.done + w'.n <= w'.len /\ w'.i <= w'.n /\ sent' + w'.n - taken' <= Capacity
      BY <1>1, <1>6, <2>1, <3>1, <3>2 DEF Known
    <3>4. QED
      BY <1>6, <2>1, <2>2, <2>3, <3>1, <3>2, <3>3
      DEF WriterInv, WriterBetween, Published
  <2>6. QED
    BY <2>4, <2>5
<1>10. ReaderInv'
  BY <1>1, <1>2, <1>3, <1>5, <1>6
  DEF IInv, ReaderInv, Known, WriteLoad, Readers, ring, history
<1>11. PendingInv'
  BY <1>1, <1>2, <1>3, <1>5, <1>6
  DEF IInv, WriterInv, ReaderInv, PendingInv, WriterBetween, Published, Known,
      WriteLoad, Writers, Readers, ring, history
<1>12. SleepInv'
  BY <1>1, <1>2, <1>3, <1>5, <1>6
  DEF IInv, SleepInv, NoLostWake, WriterInv, ReaderInv, Known, WriteLoad, Contexts,
      ring, history
<1>13. QED
  BY <1>7, <1>8, <1>9, <1>10, <1>11, <1>12 DEF IInv

LEMMA WriteWaitStep ==
  ASSUME IInv, WriteWait
  PROVE  IInv'
<1>1. Known
  BY Facts
<1>2. w \in Writers
  BY <1>1 DEF Known, Writers
<1>3. w' = [w EXCEPT !.pc = IF tail = w.tail THEN "asleep" ELSE "test"]
  BY <1>1, <1>2 DEF WriteWait, Writers
<1>4. w' \in Writers
  BY <1>2, <1>3 DEF Writers, WriterAt
<1>5. /\ w'.pc = IF tail = w.tail THEN "asleep" ELSE "test"
      /\ w'.len = w.len
      /\ w'.done = w.done
      /\ w'.head = w.head
      /\ w'.tail = w.tail
      /\ w'.n = w.n
      /\ w'.i = w.i
      /\ w'.stored = w.stored
      /\ w'.offered = w.offered
      /\ w'.reported = w.reported
      /\ w'.room = w.room
  BY <1>2, <1>3 DEF Writers
<1>6. Task!SleepTypeOK'
  BY <1>1
  DEF WriteWait, Known, Task!SleepTypeOK, Task!Suspend, Task!Spurious, Contexts,
      Words
<1>7. TypeOK'
  BY <1>1, <1>2, <1>4, <1>5, <1>6
  DEF IInv, TypeOK, Known, WriteWait, Task!SleepTypeOK, ring, history
<1>8. Bounded' /\ Wrapped'
  BY <1>1, <1>2, <1>4, <1>5, <1>6
  DEF IInv, Bounded, Wrapped, Known, WriteWait, ring, history
<1>9. WriterInv'
  BY <1>1, <1>2, <1>4, <1>5, <1>6
  DEF IInv, WriterInv, WriterBetween, Published, Known, WriteWait, Writers, ring,
      history
<1>10. ReaderInv'
  BY <1>1, <1>2, <1>4, <1>5, <1>6
  DEF IInv, ReaderInv, Known, WriteWait, Readers, ring, history
<1>11. PendingInv'
  BY <1>1, <1>2, <1>4, <1>5, <1>6
  DEF IInv, WriterInv, ReaderInv, PendingInv, WriterBetween, Published, Known,
      WriteWait, Writers, Readers, ring, history
<1>12. SleepInv'
  BY <1>1, <1>2, <1>4, <1>5, <1>6
  DEF IInv, SleepInv, NoLostWake, WriterInv, ReaderInv, Known, WriteWait, Contexts,
      Task!SleepTypeOK, Task!Suspend, Words, ring, history
<1>13. QED
  BY <1>7, <1>8, <1>9, <1>10, <1>11, <1>12 DEF IInv

LEMMA WriteResumeStep ==
  ASSUME IInv, WriteResume
  PROVE  IInv'
<1>1. Known
  BY Facts
<1>2. w \in Writers
  BY <1>1 DEF Known, Writers
<1>3. w' = [w EXCEPT !.pc = "test"]
  BY <1>1, <1>2 DEF WriteResume, Writers
<1>4. w' \in Writers
  BY <1>2, <1>3 DEF Writers, WriterAt
<1>5. /\ w'.pc = "test"
      /\ w'.len = w.len
      /\ w'.done = w.done
      /\ w'.head = w.head
      /\ w'.tail = w.tail
      /\ w'.n = w.n
      /\ w'.i = w.i
      /\ w'.stored = w.stored
      /\ w'.offered = w.offered
      /\ w'.reported = w.reported
      /\ w'.room = w.room
  BY <1>2, <1>3 DEF Writers
<1>6. TypeOK'
  BY <1>1, <1>2, <1>4, <1>5
  DEF IInv, TypeOK, Known, WriteResume, Task!SleepTypeOK, ring, history
<1>7. Bounded' /\ Wrapped'
  BY <1>1, <1>2, <1>4, <1>5
  DEF IInv, Bounded, Wrapped, Known, WriteResume, ring, history
<1>8. WriterInv'
  BY <1>1, <1>2, <1>4, <1>5
  DEF IInv, WriterInv, WriterBetween, Published, Known, WriteResume, Writers, ring,
      history
<1>9. ReaderInv'
  BY <1>1, <1>2, <1>4, <1>5
  DEF IInv, ReaderInv, Known, WriteResume, Readers, ring, history
<1>10. PendingInv'
  BY <1>1, <1>2, <1>4, <1>5
  DEF IInv, WriterInv, ReaderInv, PendingInv, WriterBetween, Published, Known,
      WriteResume, Writers, Readers, ring, history
<1>11. SleepInv'
  BY <1>1, <1>2, <1>4, <1>5
  DEF IInv, SleepInv, NoLostWake, WriterInv, ReaderInv, Known, WriteResume, Contexts,
      ring, history
<1>12. QED
  BY <1>6, <1>7, <1>8, <1>9, <1>10, <1>11 DEF IInv

LEMMA WriteByteStep ==
  ASSUME IInv, WriteByte
  PROVE  IInv'
<1>1. Known
  BY Facts
<1>2. w \in Writers /\ w.i + 1 \in Nat
  BY <1>1 DEF Known, Writers
<1>3. w' = [w EXCEPT !.i = w.i + 1]
  BY <1>1, <1>2 DEF WriteByte, Writers
<1>4. w' \in Writers
  BY <1>2, <1>3 DEF Writers, WriterAt
<1>5. /\ w'.pc = w.pc
      /\ w'.len = w.len
      /\ w'.done = w.done
      /\ w'.head = w.head
      /\ w'.tail = w.tail
      /\ w'.n = w.n
      /\ w'.i = w.i + 1
      /\ w'.stored = w.stored
      /\ w'.offered = w.offered
      /\ w'.reported = w.reported
      /\ w'.room = w.room
  BY <1>2, <1>3 DEF Writers
<1>6. TypeOK'
  <2>1. Slot(w.head, w.i) \in 0..(Capacity - 1)
    BY <1>1, <1>2, <1>4, <1>5, IndexRanges DEF Slot, Writers
  <2>2. w.reported + w.done + w.i \in Nat
    BY <1>1, <1>2, <1>4, <1>5 DEF Writers
  <2>3. bytes' \in [0..(Capacity - 1) -> Nat \union {Junk}]
    BY <2>1, <2>2 DEF IInv, TypeOK, WriteByte
  <2>4. QED
    BY <1>1, <1>2, <1>4, <1>5, <2>3
    DEF IInv, TypeOK, Known, WriteByte, Task!SleepTypeOK, ring, history
<1>7. Bounded' /\ Wrapped'
  BY <1>1, <1>2, <1>4, <1>5
  DEF IInv, Bounded, Wrapped, Known, WriteByte, ring, history
<1>8. WriterInv'
  BY <1>1, <1>2, <1>4, <1>5
  DEF IInv, WriterInv, WriterBetween, Published, Known, WriteByte, Writers, ring,
      history
<1>9. ReaderInv'
  BY <1>1, <1>2, <1>4, <1>5
  DEF IInv, ReaderInv, Known, WriteByte, Readers, ring, history
<1>10. PendingInv'
  BY <1>1, <1>2, <1>4, <1>5
  DEF IInv, WriterInv, ReaderInv, PendingInv, WriterBetween, Published, Known,
      WriteByte, Writers, Readers, ring, history
<1>11. SleepInv'
  BY <1>1, <1>2, <1>4, <1>5
  DEF IInv, SleepInv, NoLostWake, WriterInv, ReaderInv, Known, WriteByte, Contexts,
      ring, history
<1>12. QED
  BY <1>6, <1>7, <1>8, <1>9, <1>10, <1>11 DEF IInv

LEMMA WriteHeadStep ==
  ASSUME IInv, WriteHead
  PROVE  IInv'
<1>1. Known
  BY Facts
<1>2. w \in Writers
  BY <1>1 DEF Known, Writers
<1>3. w' = [w EXCEPT !.stored = TRUE]
  BY <1>1, <1>2 DEF WriteHead, Writers
<1>4. w' \in Writers
  BY <1>2, <1>3 DEF Writers, WriterAt
<1>5. /\ w'.pc = w.pc
      /\ w'.len = w.len
      /\ w'.done = w.done
      /\ w'.head = w.head
      /\ w'.tail = w.tail
      /\ w'.n = w.n
      /\ w'.i = w.i
      /\ w'.stored = TRUE
      /\ w'.offered = w.offered
      /\ w'.reported = w.reported
      /\ w'.room = w.room
  BY <1>2, <1>3 DEF Writers
<1>6. TypeOK'
  <2>1. head' \in 0..(IndexRange - 1)
    BY <1>1, <1>2, <1>4, <1>5, IndexRanges DEF WriteHead, Advance, Writers
  <2>2. sent' \in Nat
    BY <1>1, <1>2, <1>4, <1>5 DEF Known, WriteHead, Writers
  <2>3. QED
    BY <1>1, <1>2, <1>4, <1>5, <2>1, <2>2
    DEF IInv, TypeOK, Known, WriteHead, Task!SleepTypeOK, ring, history
<1>7. Bounded' /\ Wrapped'
  <2>1. w.head = head /\ sent + w.n - taken <= Capacity /\ w.n \in Nat /\ w.n > 0
    BY <1>1, <1>2, <1>4, <1>5 DEF IInv, WriterInv, WriteHead, Writers
  <2>2. Advance(head, w.n) = (sent + w.n) % IndexRange
    BY <1>1, <1>2, <1>4, <1>5, <2>1, AdvanceWraps DEF IInv, Wrapped, Known
  <2>3. QED
    BY <1>1, <1>2, <1>4, <1>5, <2>1, <2>2 DEF IInv, Bounded, Wrapped, Known, WriteHead
<1>8. WriterInv'
  BY <1>1, <1>2, <1>4, <1>5
  DEF IInv, WriterInv, WriterBetween, Published, Known, WriteHead, Writers, ring,
      history
<1>9. ReaderInv'
  <2>1. w.n \in Nat /\ sent' = sent + w.n
    BY <1>1, <1>2, <1>4, <1>5 DEF WriteHead, Writers
  <2>2. QED
    BY <1>1, <1>2, <1>4, <1>5, <2>1 DEF IInv, ReaderInv, Known, WriteHead, Readers
<1>10. PendingInv'
  BY <1>1, <1>2, <1>4, <1>5
  DEF IInv, WriterInv, ReaderInv, PendingInv, WriterBetween, Published, Known,
      WriteHead, Writers, Readers, ring, history
<1>11. SleepInv'
  BY <1>1, <1>2, <1>4, <1>5
  DEF IInv, SleepInv, NoLostWake, WriterInv, ReaderInv, Known, WriteHead, Contexts,
      ring, history
<1>12. QED
  BY <1>6, <1>7, <1>8, <1>9, <1>10, <1>11 DEF IInv

LEMMA WriteWakeStep ==
  ASSUME IInv, WriteWake
  PROVE  IInv'
<1>1. Known
  BY Facts
<1>2. w \in Writers /\ w.done + w.n \in Nat /\ w.reported + (w.done + w.n) \in Nat
  BY <1>1 DEF Known, Writers
<1>3. w' = [w EXCEPT !.pc = IF w.done + w.n < w.len THEN "test" ELSE "idle",
                     !.done = IF w.done + w.n < w.len THEN w.done + w.n ELSE 0,
                     !.reported = IF w.done + w.n < w.len THEN w.reported
                                  ELSE w.reported + (w.done + w.n),
                     !.room = IF w.done + w.n < w.len THEN w.room ELSE 0]
  BY <1>1, <1>2 DEF WriteWake, WriterReturned, Writers
<1>4. w' \in Writers
  <2>1. CASE w.done + w.n < w.len
    <3>1. w' = [w EXCEPT !.pc = "test", !.done = w.done + w.n]
      BY <1>2, <1>3, <2>1 DEF Writers
    <3>2. QED
      BY <1>2, <3>1 DEF Writers, WriterAt
  <2>2. CASE ~(w.done + w.n < w.len)
    <3>1. w' = [w EXCEPT !.pc = "idle", !.reported = w.reported + (w.done + w.n),
                         !.done = 0, !.room = 0]
      BY <1>2, <1>3, <2>2 DEF Writers
    <3>2. QED
      BY <1>2, <3>1 DEF Writers, WriterAt
  <2>3. QED
    BY <2>1, <2>2
<1>5. /\ w'.pc = IF w.done + w.n < w.len THEN "test" ELSE "idle"
      /\ w'.len = w.len
      /\ w'.done = IF w.done + w.n < w.len THEN w.done + w.n ELSE 0
      /\ w'.head = w.head
      /\ w'.tail = w.tail
      /\ w'.n = w.n
      /\ w'.i = w.i
      /\ w'.stored = w.stored
      /\ w'.offered = w.offered
      /\ w'.reported = IF w.done + w.n < w.len THEN w.reported
                                               ELSE w.reported + (w.done + w.n)
      /\ w'.room = IF w.done + w.n < w.len THEN w.room ELSE 0
  BY <1>2, <1>3 DEF Writers
<1>6. /\ Task!SleepTypeOK'
      /\ \A c \in Contexts : asleep'[c] \in {asleep[c], Task!Awake}
  BY <1>1, WakeKeeps DEF WriteWake, Known
<1>7. TypeOK'
  BY <1>1, <1>2, <1>4, <1>5, <1>6
  DEF IInv, TypeOK, Known, WriteWake, Task!SleepTypeOK, ring, history
<1>8. Bounded' /\ Wrapped'
  BY <1>1, <1>2, <1>4, <1>5, <1>6
  DEF IInv, Bounded, Wrapped, Known, WriteWake, ring, history
<1>9. WriterInv'
  BY <1>1, <1>2, <1>4, <1>5, <1>6
  DEF IInv, WriterInv, WriterBetween, Published, Known, WriteWake, Writers, ring,
      history
<1>10. ReaderInv'
  BY <1>1, <1>2, <1>4, <1>5, <1>6
  DEF IInv, ReaderInv, Known, WriteWake, Readers, ring, history
<1>11. PendingInv'
  BY <1>1, <1>2, <1>4, <1>5, <1>6
  DEF IInv, WriterInv, ReaderInv, PendingInv, WriterBetween, Published, Known,
      WriteWake, Writers, Readers, ring, history
<1>12. SleepInv'
  <2>1. Task!Sleepers("head") \subseteq {"reader"}
    BY DEF IInv, SleepInv, Task!Sleepers, Task!Awake, Contexts
  <2>2. asleep'["reader"] # "head"
    BY <1>1, <2>1, WakeReaches DEF WriteWake, Known, Contexts, Words
  <2>3. QED
    BY <1>1, <1>2, <1>4, <1>5, <1>6, <2>2
    DEF IInv, SleepInv, NoLostWake, WriterInv, ReaderInv, Known, WriteWake, Contexts,
        ring, history
<1>13. QED
  BY <1>7, <1>8, <1>9, <1>10, <1>11, <1>12 DEF IInv

LEMMA WriterAsksStep ==
  ASSUME IInv, WriterAsks
  PROVE  IInv'
<1>1. Known
  BY Facts
<1>2. w \in Writers /\ Capacity - Used(head, tail) \in Nat
  BY <1>1 DEF Known, Writers
<1>3. w' = [w EXCEPT !.room = Capacity - Used(head, tail)]
  BY <1>1, <1>2 DEF WriterAsks, Writers
<1>4. w' \in Writers
  BY <1>2, <1>3 DEF Writers, WriterAt
<1>5. /\ w'.pc = w.pc
      /\ w'.len = w.len
      /\ w'.done = w.done
      /\ w'.head = w.head
      /\ w'.tail = w.tail
      /\ w'.n = w.n
      /\ w'.i = w.i
      /\ w'.stored = w.stored
      /\ w'.offered = w.offered
      /\ w'.reported = w.reported
      /\ w'.room = Capacity - Used(head, tail)
  BY <1>2, <1>3 DEF Writers
<1>6. TypeOK'
  BY <1>1, <1>2, <1>4, <1>5
  DEF IInv, TypeOK, Known, WriterAsks, Task!SleepTypeOK, ring, history
<1>7. Bounded' /\ Wrapped'
  BY <1>1, <1>2, <1>4, <1>5
  DEF IInv, Bounded, Wrapped, Known, WriterAsks, ring, history
<1>8. WriterInv'
  BY <1>1, <1>2, <1>4, <1>5
  DEF IInv, WriterInv, WriterBetween, Published, Known, WriterAsks, Writers, ring,
      history
<1>9. ReaderInv'
  BY <1>1, <1>2, <1>4, <1>5
  DEF IInv, ReaderInv, Known, WriterAsks, Readers, ring, history
<1>10. PendingInv'
  BY <1>1, <1>2, <1>4, <1>5
  DEF IInv, WriterInv, ReaderInv, PendingInv, WriterBetween, Published, Known,
      WriterAsks, Writers, Readers, ring, history
<1>11. SleepInv'
  BY <1>1, <1>2, <1>4, <1>5
  DEF IInv, SleepInv, NoLostWake, WriterInv, ReaderInv, Known, WriterAsks, Contexts,
      ring, history
<1>12. QED
  BY <1>6, <1>7, <1>8, <1>9, <1>10, <1>11 DEF IInv

LEMMA WriterClosesStep ==
  ASSUME IInv, WriterCloses
  PROVE  IInv'
<1>1. Known
  BY Facts
<1>2. w \in Writers
  BY <1>1 DEF Known, Writers
<1>3. w' = [w EXCEPT !.pc = "closeHead"]
  BY <1>1, <1>2 DEF WriterCloses, Writers
<1>4. w' \in Writers
  BY <1>2, <1>3 DEF Writers, WriterAt
<1>5. /\ w'.pc = "closeHead"
      /\ w'.len = w.len
      /\ w'.done = w.done
      /\ w'.head = w.head
      /\ w'.tail = w.tail
      /\ w'.n = w.n
      /\ w'.i = w.i
      /\ w'.stored = w.stored
      /\ w'.offered = w.offered
      /\ w'.reported = w.reported
      /\ w'.room = w.room
  BY <1>2, <1>3 DEF Writers
<1>6. TypeOK'
  BY <1>1, <1>2, <1>4, <1>5
  DEF IInv, TypeOK, Known, WriterCloses, Task!SleepTypeOK, ring, history
<1>7. Bounded' /\ Wrapped'
  BY <1>1, <1>2, <1>4, <1>5
  DEF IInv, Bounded, Wrapped, Known, WriterCloses, ring, history
<1>8. WriterInv'
  BY <1>1, <1>2, <1>4, <1>5
  DEF IInv, WriterInv, WriterBetween, Published, Known, WriterCloses, Writers, ring,
      history
<1>9. ReaderInv'
  BY <1>1, <1>2, <1>4, <1>5
  DEF IInv, ReaderInv, Known, WriterCloses, Readers, ring, history
<1>10. PendingInv'
  BY <1>1, <1>2, <1>4, <1>5
  DEF IInv, WriterInv, ReaderInv, PendingInv, WriterBetween, Published, Known,
      WriterCloses, Writers, Readers, ring, history
<1>11. SleepInv'
  BY <1>1, <1>2, <1>4, <1>5
  DEF IInv, SleepInv, NoLostWake, WriterInv, ReaderInv, Known, WriterCloses,
      Contexts, ring, history
<1>12. QED
  BY <1>6, <1>7, <1>8, <1>9, <1>10, <1>11 DEF IInv

LEMMA WriterCloseWakesHeadStep ==
  ASSUME IInv, WriterCloseWakesHead
  PROVE  IInv'
<1>1. Known
  BY Facts
<1>2. w \in Writers
  BY <1>1 DEF Known, Writers
<1>3. w' = [w EXCEPT !.pc = "closeTail"]
  BY <1>1, <1>2 DEF WriterCloseWakesHead, Writers
<1>4. w' \in Writers
  BY <1>2, <1>3 DEF Writers, WriterAt
<1>5. /\ w'.pc = "closeTail"
      /\ w'.len = w.len
      /\ w'.done = w.done
      /\ w'.head = w.head
      /\ w'.tail = w.tail
      /\ w'.n = w.n
      /\ w'.i = w.i
      /\ w'.stored = w.stored
      /\ w'.offered = w.offered
      /\ w'.reported = w.reported
      /\ w'.room = w.room
  BY <1>2, <1>3 DEF Writers
<1>6. /\ Task!SleepTypeOK'
      /\ \A c \in Contexts : asleep'[c] \in {asleep[c], Task!Awake}
  BY <1>1, WakeKeeps DEF WriterCloseWakesHead, Known
<1>7. TypeOK'
  BY <1>1, <1>2, <1>4, <1>5, <1>6
  DEF IInv, TypeOK, Known, WriterCloseWakesHead, Task!SleepTypeOK, ring, history
<1>8. Bounded' /\ Wrapped'
  BY <1>1, <1>2, <1>4, <1>5, <1>6
  DEF IInv, Bounded, Wrapped, Known, WriterCloseWakesHead, ring, history
<1>9. WriterInv'
  BY <1>1, <1>2, <1>4, <1>5, <1>6
  DEF IInv, WriterInv, WriterBetween, Published, Known, WriterCloseWakesHead,
      Writers, ring, history
<1>10. ReaderInv'
  BY <1>1, <1>2, <1>4, <1>5, <1>6
  DEF IInv, ReaderInv, Known, WriterCloseWakesHead, Readers, ring, history
<1>11. PendingInv'
  BY <1>1, <1>2, <1>4, <1>5, <1>6
  DEF IInv, WriterInv, ReaderInv, PendingInv, WriterBetween, Published, Known,
      WriterCloseWakesHead, Writers, Readers, ring, history
<1>12. SleepInv'
  BY <1>1, <1>2, <1>4, <1>5, <1>6
  DEF IInv, SleepInv, NoLostWake, WriterInv, ReaderInv, Known, WriterCloseWakesHead,
      Contexts, ring, history
<1>13. QED
  BY <1>7, <1>8, <1>9, <1>10, <1>11, <1>12 DEF IInv

LEMMA WriterCloseWakesTailStep ==
  ASSUME IInv, WriterCloseWakesTail
  PROVE  IInv'
<1>1. Known
  BY Facts
<1>2. w \in Writers
  BY <1>1 DEF Known, Writers
<1>3. w' = [w EXCEPT !.pc = "gone"]
  BY <1>1, <1>2 DEF WriterCloseWakesTail, Writers
<1>4. w' \in Writers
  BY <1>2, <1>3 DEF Writers, WriterAt
<1>5. /\ w'.pc = "gone"
      /\ w'.len = w.len
      /\ w'.done = w.done
      /\ w'.head = w.head
      /\ w'.tail = w.tail
      /\ w'.n = w.n
      /\ w'.i = w.i
      /\ w'.stored = w.stored
      /\ w'.offered = w.offered
      /\ w'.reported = w.reported
      /\ w'.room = w.room
  BY <1>2, <1>3 DEF Writers
<1>6. /\ Task!SleepTypeOK'
      /\ \A c \in Contexts : asleep'[c] \in {asleep[c], Task!Awake}
  BY <1>1, WakeKeeps DEF WriterCloseWakesTail, Known
<1>7. TypeOK'
  BY <1>1, <1>2, <1>4, <1>5, <1>6
  DEF IInv, TypeOK, Known, WriterCloseWakesTail, Task!SleepTypeOK, ring, history
<1>8. Bounded' /\ Wrapped'
  BY <1>1, <1>2, <1>4, <1>5, <1>6
  DEF IInv, Bounded, Wrapped, Known, WriterCloseWakesTail, ring, history
<1>9. WriterInv'
  BY <1>1, <1>2, <1>4, <1>5, <1>6
  DEF IInv, WriterInv, WriterBetween, Published, Known, WriterCloseWakesTail,
      Writers, ring, history
<1>10. ReaderInv'
  BY <1>1, <1>2, <1>4, <1>5, <1>6
  DEF IInv, ReaderInv, Known, WriterCloseWakesTail, Readers, ring, history
<1>11. PendingInv'
  BY <1>1, <1>2, <1>4, <1>5, <1>6
  DEF IInv, WriterInv, ReaderInv, PendingInv, WriterBetween, Published, Known,
      WriterCloseWakesTail, Writers, Readers, ring, history
<1>12. SleepInv'
  BY <1>1, <1>2, <1>4, <1>5, <1>6
  DEF IInv, SleepInv, NoLostWake, WriterInv, ReaderInv, Known, WriterCloseWakesTail,
      Contexts, ring, history
<1>13. QED
  BY <1>7, <1>8, <1>9, <1>10, <1>11, <1>12 DEF IInv

LEMMA ReadCallStep ==
  ASSUME IInv, NEW len \in ReadLens, ReadCall(len)
  PROVE  IInv'
<1>1. Known
  BY Facts
<1>2. r \in Readers /\ len \in Nat /\ len > 0
  BY <1>1, LensAssumption DEF Known, Readers
<1>3. r' = [r EXCEPT !.pc = "load", !.len = len]
  BY <1>1, <1>2 DEF ReadCall, Readers
<1>4. r' \in Readers
  BY <1>2, <1>3 DEF Readers, ReaderAt
<1>5. /\ r'.pc = "load"
      /\ r'.len = len
      /\ r'.head = r.head
      /\ r'.tail = r.tail
      /\ r'.n = r.n
      /\ r'.i = r.i
      /\ r'.stored = r.stored
      /\ r'.eof = r.eof
      /\ r'.ready = r.ready
  BY <1>2, <1>3 DEF Readers
<1>6. TypeOK'
  BY <1>1, <1>2, <1>4, <1>5
  DEF IInv, TypeOK, Known, ReadCall, Task!SleepTypeOK, ring, history
<1>7. Bounded' /\ Wrapped'
  BY <1>1, <1>2, <1>4, <1>5 DEF IInv, Bounded, Wrapped, Known, ReadCall, ring, history
<1>8. WriterInv'
  BY <1>1, <1>2, <1>4, <1>5
  DEF IInv, WriterInv, WriterBetween, Published, Known, ReadCall, Writers, ring,
      history
<1>9. ReaderInv'
  BY <1>1, <1>2, <1>4, <1>5
  DEF IInv, ReaderInv, Known, ReadCall, Readers, ring, history
<1>10. PendingInv'
  BY <1>1, <1>2, <1>4, <1>5
  DEF IInv, WriterInv, ReaderInv, PendingInv, WriterBetween, Published, Known,
      ReadCall, Writers, Readers, ring, history
<1>11. SleepInv'
  BY <1>1, <1>2, <1>4, <1>5
  DEF IInv, SleepInv, NoLostWake, WriterInv, ReaderInv, Known, ReadCall, Contexts,
      ring, history
<1>12. QED
  BY <1>6, <1>7, <1>8, <1>9, <1>10, <1>11 DEF IInv

LEMMA ReadLoadStep ==
  ASSUME IInv, ReadLoad
  PROVE  IInv'
<1>1. Known
  BY Facts
<1>2. PICK n \in 0..Capacity : /\ n = Least(Used(head, tail), r.len)
                               /\ n <= sent - taken
                               /\ Used(head, tail) # 0 => n > 0
  BY <1>1 DEF ReadLoad, Known, IInv, ReaderInv, Readers, Least
<1>3. r \in Readers /\ n \in Nat /\ head \in Nat /\ tail \in Nat
  BY <1>1, <1>2 DEF Known, Readers
<1>4. r' = [r EXCEPT !.pc = IF Used(head, tail) = 0 THEN "test" ELSE "copy",
                     !.head = head, !.tail = tail, !.n = n, !.i = 0, !.stored = FALSE]
  <2>1. n = Least(Used(head, tail), r.len)
    BY <1>2
  <2>2. QED
    BY <2>1 DEF ReadLoad
<1>5. r' \in Readers
  BY <1>3, <1>4 DEF Readers, ReaderAt
<1>6. /\ r'.pc = IF Used(head, tail) = 0 THEN "test" ELSE "copy"
      /\ r'.len = r.len
      /\ r'.head = head
      /\ r'.tail = tail
      /\ r'.n = n
      /\ r'.i = 0
      /\ r'.stored = FALSE
      /\ r'.eof = r.eof
      /\ r'.ready = r.ready
  BY <1>3, <1>4 DEF Readers
<1>7. TypeOK'
  BY <1>1, <1>2, <1>3, <1>5, <1>6
  DEF IInv, TypeOK, Known, ReadLoad, Task!SleepTypeOK, ring, history
<1>8. Bounded' /\ Wrapped'
  BY <1>1, <1>2, <1>3, <1>5, <1>6
  DEF IInv, Bounded, Wrapped, Known, ReadLoad, ring, history
<1>9. WriterInv'
  BY <1>1, <1>2, <1>3, <1>5, <1>6
  DEF IInv, WriterInv, WriterBetween, Published, Known, ReadLoad, Writers, ring,
      history
<1>10. ReaderInv'
  <2>1. UNCHANGED <<head, tail, sent, taken>>
    BY DEF ReadLoad, ring, history
  <2>2. CASE Used(head, tail) = 0
    <3>1. sent = taken
      BY <1>1, <1>2, <1>3, <1>5, <1>6, <2>2 DEF Known
    <3>2. head = tail
      BY <3>1 DEF IInv, Wrapped
    <3>3. r.len > 0
      BY DEF IInv, ReaderInv, ReadLoad
    <3>4. QED
      BY <1>1, <1>2, <1>3, <1>5, <1>6, <2>1, <2>2, <3>2, <3>3 DEF ReaderInv
  <2>3. CASE Used(head, tail) # 0
    <3>1. r'.pc = "copy" /\ r'.n > 0 /\ r'.n <= sent - taken /\ r'.i <= r'.n
      BY <1>2, <1>3, <1>6, <2>3
    <3>2. QED
      BY <1>6, <2>1, <3>1 DEF ReaderInv
  <2>4. QED
    BY <2>2, <2>3
<1>11. PendingInv'
  BY <1>1, <1>2, <1>3, <1>5, <1>6
  DEF IInv, WriterInv, ReaderInv, PendingInv, WriterBetween, Published, Known,
      ReadLoad, Writers, Readers, ring, history
<1>12. SleepInv'
  BY <1>1, <1>2, <1>3, <1>5, <1>6
  DEF IInv, SleepInv, NoLostWake, WriterInv, ReaderInv, Known, ReadLoad, Contexts,
      ring, history
<1>13. QED
  BY <1>7, <1>8, <1>9, <1>10, <1>11, <1>12 DEF IInv

LEMMA ReadTestStep ==
  ASSUME IInv, ReadTest
  PROVE  IInv'
<1>1. Known
  BY Facts
<1>2. r \in Readers
  BY <1>1 DEF Known, Readers
<1>3. r' = [r EXCEPT !.pc = IF closed THEN "idle" ELSE "wait",
                     !.eof = IF closed THEN TRUE ELSE r.eof,
                     !.ready = IF closed THEN 0 ELSE r.ready]
  BY <1>1, <1>2 DEF ReadTest, Readers
<1>4. r' \in Readers
  <2>1. CASE closed
    <3>1. r' = [r EXCEPT !.pc = "idle", !.eof = TRUE, !.ready = 0]
      BY <1>2, <1>3, <2>1 DEF Readers
    <3>2. QED
      BY <1>2, <3>1 DEF Readers, ReaderAt
  <2>2. CASE ~closed
    <3>1. r' = [r EXCEPT !.pc = "wait"]
      BY <1>2, <1>3, <2>2 DEF Readers
    <3>2. QED
      BY <1>2, <3>1 DEF Readers, ReaderAt
  <2>3. QED
    BY <2>1, <2>2
<1>5. /\ r'.pc = IF closed THEN "idle" ELSE "wait"
      /\ r'.len = r.len
      /\ r'.head = r.head
      /\ r'.tail = r.tail
      /\ r'.n = r.n
      /\ r'.i = r.i
      /\ r'.stored = r.stored
      /\ r'.eof = IF closed THEN TRUE ELSE r.eof
      /\ r'.ready = IF closed THEN 0 ELSE r.ready
  BY <1>2, <1>3 DEF Readers
<1>6. TypeOK'
  BY <1>1, <1>2, <1>4, <1>5
  DEF IInv, TypeOK, Known, ReadTest, Task!SleepTypeOK, ring, history
<1>7. Bounded' /\ Wrapped'
  BY <1>1, <1>2, <1>4, <1>5 DEF IInv, Bounded, Wrapped, Known, ReadTest, ring, history
<1>8. WriterInv'
  BY <1>1, <1>2, <1>4, <1>5
  DEF IInv, WriterInv, WriterBetween, Published, Known, ReadTest, Writers, ring,
      history
<1>9. ReaderInv'
  BY <1>1, <1>2, <1>4, <1>5
  DEF IInv, ReaderInv, Known, ReadTest, Readers, ring, history
<1>10. PendingInv'
  BY <1>1, <1>2, <1>4, <1>5
  DEF IInv, WriterInv, ReaderInv, PendingInv, WriterBetween, Published, Known,
      ReadTest, Writers, Readers, ring, history
<1>11. SleepInv'
  BY <1>1, <1>2, <1>4, <1>5
  DEF IInv, SleepInv, NoLostWake, WriterInv, ReaderInv, Known, ReadTest, Contexts,
      ring, history
<1>12. QED
  BY <1>6, <1>7, <1>8, <1>9, <1>10, <1>11 DEF IInv

LEMMA ReadWaitStep ==
  ASSUME IInv, ReadWait
  PROVE  IInv'
<1>1. Known
  BY Facts
<1>2. r \in Readers
  BY <1>1 DEF Known, Readers
<1>3. r' = [r EXCEPT !.pc = IF head = r.head THEN "asleep" ELSE "load"]
  BY <1>1, <1>2 DEF ReadWait, Readers
<1>4. r' \in Readers
  BY <1>2, <1>3 DEF Readers, ReaderAt
<1>5. /\ r'.pc = IF head = r.head THEN "asleep" ELSE "load"
      /\ r'.len = r.len
      /\ r'.head = r.head
      /\ r'.tail = r.tail
      /\ r'.n = r.n
      /\ r'.i = r.i
      /\ r'.stored = r.stored
      /\ r'.eof = r.eof
      /\ r'.ready = r.ready
  BY <1>2, <1>3 DEF Readers
<1>6. Task!SleepTypeOK'
  BY <1>1
  DEF ReadWait, Known, Task!SleepTypeOK, Task!Suspend, Task!Spurious, Contexts, Words
<1>7. TypeOK'
  BY <1>1, <1>2, <1>4, <1>5, <1>6
  DEF IInv, TypeOK, Known, ReadWait, Task!SleepTypeOK, ring, history
<1>8. Bounded' /\ Wrapped'
  BY <1>1, <1>2, <1>4, <1>5, <1>6
  DEF IInv, Bounded, Wrapped, Known, ReadWait, ring, history
<1>9. WriterInv'
  BY <1>1, <1>2, <1>4, <1>5, <1>6
  DEF IInv, WriterInv, WriterBetween, Published, Known, ReadWait, Writers, ring,
      history
<1>10. ReaderInv'
  BY <1>1, <1>2, <1>4, <1>5, <1>6
  DEF IInv, ReaderInv, Known, ReadWait, Readers, ring, history
<1>11. PendingInv'
  BY <1>1, <1>2, <1>4, <1>5, <1>6
  DEF IInv, WriterInv, ReaderInv, PendingInv, WriterBetween, Published, Known,
      ReadWait, Writers, Readers, ring, history
<1>12. SleepInv'
  BY <1>1, <1>2, <1>4, <1>5, <1>6
  DEF IInv, SleepInv, NoLostWake, WriterInv, ReaderInv, Known, ReadWait, Contexts,
      Task!SleepTypeOK, Task!Suspend, Words, ring, history
<1>13. QED
  BY <1>7, <1>8, <1>9, <1>10, <1>11, <1>12 DEF IInv

LEMMA ReadResumeStep ==
  ASSUME IInv, ReadResume
  PROVE  IInv'
<1>1. Known
  BY Facts
<1>2. r \in Readers
  BY <1>1 DEF Known, Readers
<1>3. r' = [r EXCEPT !.pc = "load"]
  BY <1>1, <1>2 DEF ReadResume, Readers
<1>4. r' \in Readers
  BY <1>2, <1>3 DEF Readers, ReaderAt
<1>5. /\ r'.pc = "load"
      /\ r'.len = r.len
      /\ r'.head = r.head
      /\ r'.tail = r.tail
      /\ r'.n = r.n
      /\ r'.i = r.i
      /\ r'.stored = r.stored
      /\ r'.eof = r.eof
      /\ r'.ready = r.ready
  BY <1>2, <1>3 DEF Readers
<1>6. TypeOK'
  BY <1>1, <1>2, <1>4, <1>5
  DEF IInv, TypeOK, Known, ReadResume, Task!SleepTypeOK, ring, history
<1>7. Bounded' /\ Wrapped'
  BY <1>1, <1>2, <1>4, <1>5
  DEF IInv, Bounded, Wrapped, Known, ReadResume, ring, history
<1>8. WriterInv'
  BY <1>1, <1>2, <1>4, <1>5
  DEF IInv, WriterInv, WriterBetween, Published, Known, ReadResume, Writers, ring,
      history
<1>9. ReaderInv'
  BY <1>1, <1>2, <1>4, <1>5
  DEF IInv, ReaderInv, Known, ReadResume, Readers, ring, history
<1>10. PendingInv'
  BY <1>1, <1>2, <1>4, <1>5
  DEF IInv, WriterInv, ReaderInv, PendingInv, WriterBetween, Published, Known,
      ReadResume, Writers, Readers, ring, history
<1>11. SleepInv'
  BY <1>1, <1>2, <1>4, <1>5
  DEF IInv, SleepInv, NoLostWake, WriterInv, ReaderInv, Known, ReadResume, Contexts,
      ring, history
<1>12. QED
  BY <1>6, <1>7, <1>8, <1>9, <1>10, <1>11 DEF IInv

LEMMA ReadByteStep ==
  ASSUME IInv, ReadByte
  PROVE  IInv'
<1>1. Known
  BY Facts
<1>2. r \in Readers /\ r.i + 1 \in Nat
  BY <1>1 DEF Known, Readers
<1>3. r' = [r EXCEPT !.i = r.i + 1]
  BY <1>1, <1>2 DEF ReadByte, Readers
<1>4. r' \in Readers
  BY <1>2, <1>3 DEF Readers, ReaderAt
<1>5. /\ r'.pc = r.pc
      /\ r'.len = r.len
      /\ r'.head = r.head
      /\ r'.tail = r.tail
      /\ r'.n = r.n
      /\ r'.i = r.i + 1
      /\ r'.stored = r.stored
      /\ r'.eof = r.eof
      /\ r'.ready = r.ready
  BY <1>2, <1>3 DEF Readers
<1>6. TypeOK'
  <2>1. Slot(r.tail, r.i) \in 0..(Capacity - 1)
    BY <1>1, <1>2, <1>4, <1>5, IndexRanges DEF Slot, Readers
  <2>2. out' = Append(out, bytes[Slot(r.tail, r.i)])
    BY DEF ReadByte
  <2>3. bytes[Slot(r.tail, r.i)] \in Nat \union {Junk} /\ out \in Seq(Nat \union {Junk})
    BY <2>1 DEF IInv, TypeOK
  <2>4. out' \in Seq(Nat \union {Junk})
    BY <2>2, <2>3
  <2>5. QED
    BY <1>1, <1>2, <1>4, <1>5, <2>4
    DEF IInv, TypeOK, Known, ReadByte, Task!SleepTypeOK, ring, history
<1>7. Bounded' /\ Wrapped'
  BY <1>1, <1>2, <1>4, <1>5 DEF IInv, Bounded, Wrapped, Known, ReadByte, ring, history
<1>8. WriterInv'
  BY <1>1, <1>2, <1>4, <1>5
  DEF IInv, WriterInv, WriterBetween, Published, Known, ReadByte, Writers, ring,
      history
<1>9. ReaderInv'
  <2>1. r.pc = "copy" /\ r.i < r.n /\ UNCHANGED <<tail, sent, taken>>
    BY DEF ReadByte, ring
  <2>2. QED
    BY <1>1, <1>2, <1>4, <1>5, <2>1 DEF IInv, ReaderInv, Known, Readers
<1>10. PendingInv'
  BY <1>1, <1>2, <1>4, <1>5
  DEF IInv, WriterInv, ReaderInv, PendingInv, WriterBetween, Published, Known,
      ReadByte, Writers, Readers, ring, history
<1>11. SleepInv'
  BY <1>1, <1>2, <1>4, <1>5
  DEF IInv, SleepInv, NoLostWake, WriterInv, ReaderInv, Known, ReadByte, Contexts,
      ring, history
<1>12. QED
  BY <1>6, <1>7, <1>8, <1>9, <1>10, <1>11 DEF IInv

LEMMA ReadTailStep ==
  ASSUME IInv, ReadTail
  PROVE  IInv'
<1>1. Known
  BY Facts
<1>2. r \in Readers
  BY <1>1 DEF Known, Readers
<1>3. r' = [r EXCEPT !.stored = TRUE]
  BY <1>1, <1>2 DEF ReadTail, Readers
<1>4. r' \in Readers
  BY <1>2, <1>3 DEF Readers, ReaderAt
<1>5. /\ r'.pc = r.pc
      /\ r'.len = r.len
      /\ r'.head = r.head
      /\ r'.tail = r.tail
      /\ r'.n = r.n
      /\ r'.i = r.i
      /\ r'.stored = TRUE
      /\ r'.eof = r.eof
      /\ r'.ready = r.ready
  BY <1>2, <1>3 DEF Readers
<1>6. TypeOK'
  <2>1. tail' \in 0..(IndexRange - 1)
    BY <1>1, <1>2, <1>4, <1>5, IndexRanges DEF ReadTail, Advance, Readers
  <2>2. taken' \in Nat
    BY <1>1, <1>2, <1>4, <1>5 DEF Known, ReadTail, Readers
  <2>3. QED
    BY <1>1, <1>2, <1>4, <1>5, <2>1, <2>2
    DEF IInv, TypeOK, Known, ReadTail, Task!SleepTypeOK, ring, history
<1>7. Bounded' /\ Wrapped'
  <2>1. r.tail = tail /\ r.n <= sent - taken /\ r.n \in Nat
    BY <1>1, <1>2, <1>4, <1>5 DEF IInv, ReaderInv, ReadTail, Readers
  <2>2. Advance(tail, r.n) = (taken + r.n) % IndexRange
    BY <1>1, <1>2, <1>4, <1>5, <2>1, AdvanceWraps DEF IInv, Wrapped, Known
  <2>3. QED
    BY <1>1, <1>2, <1>4, <1>5, <2>1, <2>2 DEF IInv, Bounded, Wrapped, Known, ReadTail
<1>8. WriterInv'
  <2>1. r.n \in Nat /\ taken' = taken + r.n /\ UNCHANGED <<head, closed, w, sent>>
    BY <1>1, <1>2, <1>4, <1>5 DEF ReadTail, Readers
  <2>2. QED
    BY <1>1, <1>2, <1>4, <1>5, <2>1
    DEF IInv, WriterInv, WriterBetween, Published, Known, Writers
<1>9. ReaderInv'
  BY <1>1, <1>2, <1>4, <1>5
  DEF IInv, ReaderInv, Known, ReadTail, Readers, ring, history
<1>10. PendingInv'
  BY <1>1, <1>2, <1>4, <1>5
  DEF IInv, WriterInv, ReaderInv, PendingInv, WriterBetween, Published, Known,
      ReadTail, Writers, Readers, ring, history
<1>11. SleepInv'
  BY <1>1, <1>2, <1>4, <1>5
  DEF IInv, SleepInv, NoLostWake, WriterInv, ReaderInv, Known, ReadTail, Contexts,
      ring, history
<1>12. QED
  BY <1>6, <1>7, <1>8, <1>9, <1>10, <1>11 DEF IInv

LEMMA ReadWakeStep ==
  ASSUME IInv, ReadWake
  PROVE  IInv'
<1>1. Known
  BY Facts
<1>2. r \in Readers
  BY <1>1 DEF Known, Readers
<1>3. r' = [r EXCEPT !.pc = "idle", !.ready = 0]
  BY <1>1, <1>2 DEF ReadWake, Readers
<1>4. r' \in Readers
  BY <1>2, <1>3 DEF Readers, ReaderAt
<1>5. /\ r'.pc = "idle"
      /\ r'.len = r.len
      /\ r'.head = r.head
      /\ r'.tail = r.tail
      /\ r'.n = r.n
      /\ r'.i = r.i
      /\ r'.stored = r.stored
      /\ r'.eof = r.eof
      /\ r'.ready = 0
  BY <1>2, <1>3 DEF Readers
<1>6. /\ Task!SleepTypeOK'
      /\ \A c \in Contexts : asleep'[c] \in {asleep[c], Task!Awake}
  BY <1>1, WakeKeeps DEF ReadWake, Known
<1>7. TypeOK'
  BY <1>1, <1>2, <1>4, <1>5, <1>6
  DEF IInv, TypeOK, Known, ReadWake, Task!SleepTypeOK, ring, history
<1>8. Bounded' /\ Wrapped'
  BY <1>1, <1>2, <1>4, <1>5, <1>6
  DEF IInv, Bounded, Wrapped, Known, ReadWake, ring, history
<1>9. WriterInv'
  BY <1>1, <1>2, <1>4, <1>5, <1>6
  DEF IInv, WriterInv, WriterBetween, Published, Known, ReadWake, Writers, ring,
      history
<1>10. ReaderInv'
  BY <1>1, <1>2, <1>4, <1>5, <1>6
  DEF IInv, ReaderInv, Known, ReadWake, Readers, ring, history
<1>11. PendingInv'
  BY <1>1, <1>2, <1>4, <1>5, <1>6
  DEF IInv, WriterInv, ReaderInv, PendingInv, WriterBetween, Published, Known,
      ReadWake, Writers, Readers, ring, history
<1>12. SleepInv'
  <2>1. Task!Sleepers("tail") \subseteq {"writer"}
    BY DEF IInv, SleepInv, Task!Sleepers, Task!Awake, Contexts
  <2>2. asleep'["writer"] # "tail"
    BY <1>1, <2>1, WakeReaches DEF ReadWake, Known, Contexts, Words
  <2>3. QED
    BY <1>1, <1>2, <1>4, <1>5, <1>6, <2>2
    DEF IInv, SleepInv, NoLostWake, WriterInv, ReaderInv, Known, ReadWake, Contexts,
        ring, history
<1>13. QED
  BY <1>7, <1>8, <1>9, <1>10, <1>11, <1>12 DEF IInv

LEMMA ReaderAsksStep ==
  ASSUME IInv, ReaderAsks
  PROVE  IInv'
<1>1. Known
  BY Facts
<1>2. r \in Readers /\ Used(head, tail) \in Nat
  BY <1>1 DEF Known, Readers
<1>3. r' = [r EXCEPT !.ready = Used(head, tail)]
  BY <1>1, <1>2 DEF ReaderAsks, Readers
<1>4. r' \in Readers
  BY <1>2, <1>3 DEF Readers, ReaderAt
<1>5. /\ r'.pc = r.pc
      /\ r'.len = r.len
      /\ r'.head = r.head
      /\ r'.tail = r.tail
      /\ r'.n = r.n
      /\ r'.i = r.i
      /\ r'.stored = r.stored
      /\ r'.eof = r.eof
      /\ r'.ready = Used(head, tail)
  BY <1>2, <1>3 DEF Readers
<1>6. TypeOK'
  BY <1>1, <1>2, <1>4, <1>5
  DEF IInv, TypeOK, Known, ReaderAsks, Task!SleepTypeOK, ring, history
<1>7. Bounded' /\ Wrapped'
  BY <1>1, <1>2, <1>4, <1>5
  DEF IInv, Bounded, Wrapped, Known, ReaderAsks, ring, history
<1>8. WriterInv'
  BY <1>1, <1>2, <1>4, <1>5
  DEF IInv, WriterInv, WriterBetween, Published, Known, ReaderAsks, Writers, ring,
      history
<1>9. ReaderInv'
  BY <1>1, <1>2, <1>4, <1>5
  DEF IInv, ReaderInv, Known, ReaderAsks, Readers, ring, history
<1>10. PendingInv'
  BY <1>1, <1>2, <1>4, <1>5
  DEF IInv, WriterInv, ReaderInv, PendingInv, WriterBetween, Published, Known,
      ReaderAsks, Writers, Readers, ring, history
<1>11. SleepInv'
  BY <1>1, <1>2, <1>4, <1>5
  DEF IInv, SleepInv, NoLostWake, WriterInv, ReaderInv, Known, ReaderAsks, Contexts,
      ring, history
<1>12. QED
  BY <1>6, <1>7, <1>8, <1>9, <1>10, <1>11 DEF IInv

LEMMA ReaderClosesStep ==
  ASSUME IInv, ReaderCloses
  PROVE  IInv'
<1>1. Known
  BY Facts
<1>2. r \in Readers
  BY <1>1 DEF Known, Readers
<1>3. r' = [r EXCEPT !.pc = "closeHead"]
  BY <1>1, <1>2 DEF ReaderCloses, Readers
<1>4. r' \in Readers
  BY <1>2, <1>3 DEF Readers, ReaderAt
<1>5. /\ r'.pc = "closeHead"
      /\ r'.len = r.len
      /\ r'.head = r.head
      /\ r'.tail = r.tail
      /\ r'.n = r.n
      /\ r'.i = r.i
      /\ r'.stored = r.stored
      /\ r'.eof = r.eof
      /\ r'.ready = r.ready
  BY <1>2, <1>3 DEF Readers
<1>6. TypeOK'
  BY <1>1, <1>2, <1>4, <1>5
  DEF IInv, TypeOK, Known, ReaderCloses, Task!SleepTypeOK, ring, history
<1>7. Bounded' /\ Wrapped'
  BY <1>1, <1>2, <1>4, <1>5
  DEF IInv, Bounded, Wrapped, Known, ReaderCloses, ring, history
<1>8. WriterInv'
  BY <1>1, <1>2, <1>4, <1>5
  DEF IInv, WriterInv, WriterBetween, Published, Known, ReaderCloses, Writers, ring,
      history
<1>9. ReaderInv'
  BY <1>1, <1>2, <1>4, <1>5
  DEF IInv, ReaderInv, Known, ReaderCloses, Readers, ring, history
<1>10. PendingInv'
  BY <1>1, <1>2, <1>4, <1>5
  DEF IInv, WriterInv, ReaderInv, PendingInv, WriterBetween, Published, Known,
      ReaderCloses, Writers, Readers, ring, history
<1>11. SleepInv'
  BY <1>1, <1>2, <1>4, <1>5
  DEF IInv, SleepInv, NoLostWake, WriterInv, ReaderInv, Known, ReaderCloses,
      Contexts, ring, history
<1>12. QED
  BY <1>6, <1>7, <1>8, <1>9, <1>10, <1>11 DEF IInv

LEMMA ReaderCloseWakesHeadStep ==
  ASSUME IInv, ReaderCloseWakesHead
  PROVE  IInv'
<1>1. Known
  BY Facts
<1>2. r \in Readers
  BY <1>1 DEF Known, Readers
<1>3. r' = [r EXCEPT !.pc = "closeTail"]
  BY <1>1, <1>2 DEF ReaderCloseWakesHead, Readers
<1>4. r' \in Readers
  BY <1>2, <1>3 DEF Readers, ReaderAt
<1>5. /\ r'.pc = "closeTail"
      /\ r'.len = r.len
      /\ r'.head = r.head
      /\ r'.tail = r.tail
      /\ r'.n = r.n
      /\ r'.i = r.i
      /\ r'.stored = r.stored
      /\ r'.eof = r.eof
      /\ r'.ready = r.ready
  BY <1>2, <1>3 DEF Readers
<1>6. /\ Task!SleepTypeOK'
      /\ \A c \in Contexts : asleep'[c] \in {asleep[c], Task!Awake}
  BY <1>1, WakeKeeps DEF ReaderCloseWakesHead, Known
<1>7. TypeOK'
  BY <1>1, <1>2, <1>4, <1>5, <1>6
  DEF IInv, TypeOK, Known, ReaderCloseWakesHead, Task!SleepTypeOK, ring, history
<1>8. Bounded' /\ Wrapped'
  BY <1>1, <1>2, <1>4, <1>5, <1>6
  DEF IInv, Bounded, Wrapped, Known, ReaderCloseWakesHead, ring, history
<1>9. WriterInv'
  BY <1>1, <1>2, <1>4, <1>5, <1>6
  DEF IInv, WriterInv, WriterBetween, Published, Known, ReaderCloseWakesHead,
      Writers, ring, history
<1>10. ReaderInv'
  BY <1>1, <1>2, <1>4, <1>5, <1>6
  DEF IInv, ReaderInv, Known, ReaderCloseWakesHead, Readers, ring, history
<1>11. PendingInv'
  BY <1>1, <1>2, <1>4, <1>5, <1>6
  DEF IInv, WriterInv, ReaderInv, PendingInv, WriterBetween, Published, Known,
      ReaderCloseWakesHead, Writers, Readers, ring, history
<1>12. SleepInv'
  BY <1>1, <1>2, <1>4, <1>5, <1>6
  DEF IInv, SleepInv, NoLostWake, WriterInv, ReaderInv, Known, ReaderCloseWakesHead,
      Contexts, ring, history
<1>13. QED
  BY <1>7, <1>8, <1>9, <1>10, <1>11, <1>12 DEF IInv

LEMMA ReaderCloseWakesTailStep ==
  ASSUME IInv, ReaderCloseWakesTail
  PROVE  IInv'
<1>1. Known
  BY Facts
<1>2. r \in Readers
  BY <1>1 DEF Known, Readers
<1>3. r' = [r EXCEPT !.pc = "left"]
  BY <1>1, <1>2 DEF ReaderCloseWakesTail, Readers
<1>4. r' \in Readers
  BY <1>2, <1>3 DEF Readers, ReaderAt
<1>5. /\ r'.pc = "left"
      /\ r'.len = r.len
      /\ r'.head = r.head
      /\ r'.tail = r.tail
      /\ r'.n = r.n
      /\ r'.i = r.i
      /\ r'.stored = r.stored
      /\ r'.eof = r.eof
      /\ r'.ready = r.ready
  BY <1>2, <1>3 DEF Readers
<1>6. /\ Task!SleepTypeOK'
      /\ \A c \in Contexts : asleep'[c] \in {asleep[c], Task!Awake}
  BY <1>1, WakeKeeps DEF ReaderCloseWakesTail, Known
<1>7. TypeOK'
  BY <1>1, <1>2, <1>4, <1>5, <1>6
  DEF IInv, TypeOK, Known, ReaderCloseWakesTail, Task!SleepTypeOK, ring, history
<1>8. Bounded' /\ Wrapped'
  BY <1>1, <1>2, <1>4, <1>5, <1>6
  DEF IInv, Bounded, Wrapped, Known, ReaderCloseWakesTail, ring, history
<1>9. WriterInv'
  BY <1>1, <1>2, <1>4, <1>5, <1>6
  DEF IInv, WriterInv, WriterBetween, Published, Known, ReaderCloseWakesTail,
      Writers, ring, history
<1>10. ReaderInv'
  BY <1>1, <1>2, <1>4, <1>5, <1>6
  DEF IInv, ReaderInv, Known, ReaderCloseWakesTail, Readers, ring, history
<1>11. PendingInv'
  BY <1>1, <1>2, <1>4, <1>5, <1>6
  DEF IInv, WriterInv, ReaderInv, PendingInv, WriterBetween, Published, Known,
      ReaderCloseWakesTail, Writers, Readers, ring, history
<1>12. SleepInv'
  BY <1>1, <1>2, <1>4, <1>5, <1>6
  DEF IInv, SleepInv, NoLostWake, WriterInv, ReaderInv, Known, ReaderCloseWakesTail,
      Contexts, ring, history
<1>13. QED
  BY <1>7, <1>8, <1>9, <1>10, <1>11, <1>12 DEF IInv

LEMMA DestroyStep ==
  ASSUME IInv, Destroy
  PROVE  IInv'
<1>1. Known
  BY Facts
<1>2. r \in Readers
  BY <1>1 DEF Known, Readers
<1>3. r' = [r EXCEPT !.pc = "done"]
  BY <1>1, <1>2 DEF Destroy, Readers
<1>4. r' \in Readers
  BY <1>2, <1>3 DEF Readers, ReaderAt
<1>5. /\ r'.pc = "done"
      /\ r'.len = r.len
      /\ r'.head = r.head
      /\ r'.tail = r.tail
      /\ r'.n = r.n
      /\ r'.i = r.i
      /\ r'.stored = r.stored
      /\ r'.eof = r.eof
      /\ r'.ready = r.ready
  BY <1>2, <1>3 DEF Readers
<1>6. TypeOK'
  BY <1>1, <1>2, <1>4, <1>5
  DEF IInv, TypeOK, Known, Destroy, Task!SleepTypeOK, ring, history
<1>7. Bounded' /\ Wrapped'
  BY <1>1, <1>2, <1>4, <1>5 DEF IInv, Bounded, Wrapped, Known, Destroy, ring, history
<1>8. WriterInv'
  BY <1>1, <1>2, <1>4, <1>5
  DEF IInv, WriterInv, WriterBetween, Published, Known, Destroy, Writers, ring,
      history
<1>9. ReaderInv'
  BY <1>1, <1>2, <1>4, <1>5
  DEF IInv, ReaderInv, Known, Destroy, Readers, ring, history
<1>10. PendingInv'
  BY <1>1, <1>2, <1>4, <1>5
  DEF IInv, WriterInv, ReaderInv, PendingInv, WriterBetween, Published, Known,
      Destroy, Writers, Readers, ring, history
<1>11. SleepInv'
  BY <1>1, <1>2, <1>4, <1>5
  DEF IInv, SleepInv, NoLostWake, WriterInv, ReaderInv, Known, Destroy, Contexts,
      ring, history
<1>12. QED
  BY <1>6, <1>7, <1>8, <1>9, <1>10, <1>11 DEF IInv

LEMMA SpuriousWakeStep ==
  ASSUME IInv, SpuriousWake
  PROVE  IInv'
<1>1. Known
  BY Facts
<1>2. Task!SleepTypeOK'
  BY <1>1
  DEF SpuriousWake, Known, Task!SleepTypeOK, Task!Suspend, Task!Spurious, Contexts,
      Words
<1>3. TypeOK'
  BY <1>1, <1>2 DEF IInv, TypeOK, Known, SpuriousWake, Task!SleepTypeOK, ring, history
<1>4. Bounded' /\ Wrapped'
  BY <1>1, <1>2 DEF IInv, Bounded, Wrapped, Known, SpuriousWake, ring, history
<1>5. WriterInv'
  BY <1>1, <1>2
  DEF IInv, WriterInv, WriterBetween, Published, Known, SpuriousWake, Writers, ring,
      history
<1>6. ReaderInv'
  BY <1>1, <1>2 DEF IInv, ReaderInv, Known, SpuriousWake, Readers, ring, history
<1>7. PendingInv'
  BY <1>1, <1>2
  DEF IInv, WriterInv, ReaderInv, PendingInv, WriterBetween, Published, Known,
      SpuriousWake, Writers, Readers, ring, history
<1>8. SleepInv'
  BY <1>1, <1>2
  DEF IInv, SleepInv, NoLostWake, WriterInv, ReaderInv, Known, SpuriousWake,
      Contexts, Task!SleepTypeOK, Task!Spurious, Words, ring, history
<1>9. QED
  BY <1>3, <1>4, <1>5, <1>6, <1>7, <1>8 DEF IInv

-----------------------------------------------------------------------------
(* The invariant is inductive, and what it implies.                         *)

LEMMA Inductive == IInv /\ [Next]_vars => IInv'
<1> SUFFICES ASSUME IInv, [Next]_vars PROVE IInv'
  OBVIOUS
<1>1. CASE \E len \in WriteLens : WriteCall(len)
  BY <1>1, WriteCallStep
<1>2. CASE \E len \in ReadLens : ReadCall(len)
  BY <1>2, ReadCallStep
<1>3. CASE WriterRuns
  BY <1>3, WriteTestStep, WriteLoadStep, WriteWaitStep, WriteResumeStep,
     WriteByteStep, WriteHeadStep, WriteWakeStep,
     WriterCloseWakesHeadStep, WriterCloseWakesTailStep DEF WriterRuns
<1>4. CASE ReaderRuns
  BY <1>4, ReadLoadStep, ReadTestStep, ReadWaitStep, ReadResumeStep,
     ReadByteStep, ReadTailStep, ReadWakeStep,
     ReaderCloseWakesHeadStep, ReaderCloseWakesTailStep DEF ReaderRuns
<1>5. CASE WriterAsks \/ ReaderAsks
  BY <1>5, WriterAsksStep, ReaderAsksStep
<1>6. CASE WriterCloses \/ ReaderCloses \/ Destroy \/ SpuriousWake
  BY <1>6, WriterClosesStep, ReaderClosesStep, DestroyStep, SpuriousWakeStep
<1>7. CASE UNCHANGED vars
  BY <1>7 DEF vars, ring, history, IInv, TypeOK, Bounded, Wrapped, WriterInv,
     ReaderInv, PendingInv, SleepInv, NoLostWake, WriterBetween,
     Published, Task!SleepTypeOK
<1>8. QED
  BY <1>1, <1>2, <1>3, <1>4, <1>5, <1>6, <1>7 DEF Next

LEMMA AlwaysIInv == Spec => []IInv
<1>1. Init => IInv
  BY InitIInv
<1>2. IInv /\ [Next]_vars => IInv'
  BY Inductive
<1>3. QED
  BY <1>1, <1>2, PTL DEF Spec

(* Every word and local of the ring keeps its width, however long it runs.  *)
THEOREM AlwaysTypeOK == Spec => []TypeOK
<1>1. IInv => TypeOK
  BY DEF IInv
<1>2. QED
  BY <1>1, AlwaysIInv, PTL

(* The ring holds between nothing and its capacity, and the subtraction of  *)
(* the wrapped indices says how much, for every capacity dividing the range *)
(* of an index.                                                             *)
THEOREM AlwaysRingBounded == Spec => []RingBounded
<1>1. IInv => RingBounded
  BY UsedIsHeld DEF IInv, Bounded, RingBounded
<1>2. QED
  BY <1>1, AlwaysIInv, PTL

(* A write between two calls has reported every byte it put in, and fewer   *)
(* than it was asked for only after an end was closed.                      *)
THEOREM AlwaysWriteCountExact == Spec => []WriteCountExact
<1>1. IInv => WriteCountExact
  <2> SUFFICES ASSUME IInv, WriterBetween
               PROVE  w.reported = sent /\ (w.reported < w.offered => closed)
    BY DEF WriteCountExact, WriterBetween
  <2>1. w.done = 0 /\ Published = 0 /\ w.reported \in Nat /\ w.offered \in Nat
    BY DEF IInv, TypeOK, WriterInv, WriterBetween, Published, Writers
  <2>2. QED
    BY <2>1 DEF IInv, WriterInv
<1>2. QED
  BY <1>1, AlwaysIInv, PTL

(* The answer of channel_pending holds until the end of the next call.      *)
THEOREM AlwaysPendingHolds == Spec => []PendingHolds
<1>1. IInv => PendingHolds
  <2> SUFFICES ASSUME IInv PROVE PendingHolds
    OBVIOUS
  <2>1. w.len \in Nat /\ w.room \in Nat
    BY DEF IInv, TypeOK, Writers
  <2>2. QED
    BY <2>1 DEF IInv, PendingInv, PendingHolds, WriterBetween
<1>2. QED
  BY <1>1, AlwaysIInv, PTL

(* A context suspended upon an index that has moved is owed a wake.         *)
THEOREM AlwaysNoLostWake == Spec => []NoLostWake
<1>1. IInv => NoLostWake
  BY DEF IInv, SleepInv
<1>2. QED
  BY <1>1, AlwaysIInv, PTL

(* The writer sleeps upon a full ring and the reader upon an empty one, and *)
(* neither index can have moved without a wake being owed: they never sleep *)
(* together.                                                                *)
THEOREM AlwaysNeverBothAsleep == Spec => []NeverBothAsleep
<1>1. IInv => NeverBothAsleep
  <2> SUFFICES ASSUME IInv, asleep["writer"] # Task!Awake, asleep["reader"] # Task!Awake
               PROVE  FALSE
    BY DEF NeverBothAsleep
  <2>1. /\ asleep["writer"] = "tail" /\ w.pc = "asleep"
        /\ asleep["reader"] = "head" /\ r.pc = "asleep"
    BY DEF IInv, SleepInv
  <2>2. tail = w.tail /\ head = r.head
    BY <2>1 DEF IInv, SleepInv, NoLostWake
  <2>3. Used(head, tail) = Capacity /\ head = tail
    BY <2>1, <2>2 DEF IInv, WriterInv, ReaderInv
  <2>4. Used(head, tail) = sent - taken /\ sent = taken
    <3>1. Used(head, head) = 0
      BY CapacityAssumption DEF IInv, TypeOK, Used
    <3>2. QED
      BY <2>3, <3>1, UsedIsHeld, CapacityAssumption DEF IInv
  <2>5. QED
    BY <2>3, <2>4, CapacityAssumption DEF IInv, TypeOK
<1>2. QED
  BY <1>1, AlwaysIInv, PTL

(* What the bytes are, where the build keeps the order of the stores.       *)

LEMMA DataInit == Init => DataInv
<1> SUFFICES ASSUME Init PROVE DataInv
  OBVIOUS
<1>1. sent = 0 /\ taken = 0 /\ out = <<>> /\ Stored = 0 /\ Loaded = 0
  BY DEF Init, Stored, Loaded
<1>2. QED
  BY <1>1 DEF DataInv, BytesIntact

(* A step that neither stores nor loads nor publishes keeps it.             *)
LEMMA DataKept ==
  ASSUME DataInv, UNCHANGED <<bytes, out, sent, taken>>,
         Stored' = Stored, Loaded' = Loaded
  PROVE  DataInv'
  BY DEF DataInv, BytesIntact

(* The facts of the invariant the data steps use.                           *)
LEMMA DataFacts ==
  ASSUME IInv
  PROVE  /\ w \in Writers /\ r \in Readers /\ sent \in Nat /\ taken \in Nat
         /\ sent - taken \in 0..Capacity /\ Capacity \in Nat /\ Capacity > 0
         /\ out \in Seq(Nat \union {Junk})
         /\ bytes \in [0..(Capacity - 1) -> Nat \union {Junk}]
  BY CapacityAssumption DEF IInv, TypeOK, Bounded

LEMMA DataWriteLoad ==
  ASSUME IInv, DataInv, WriteLoad PROVE DataInv'
<1>1. w' = [w EXCEPT !.pc = IF Used(head, tail) = Capacity THEN "wait" ELSE "copy",
                     !.head = head, !.tail = tail,
                     !.n = Least(w.len - w.done, Capacity - Used(head, tail)),
                     !.i = 0, !.stored = FALSE]
  BY DEF WriteLoad
<1>2. w'.i = 0
  BY <1>1, DataFacts DEF Writers
<1>3. Stored = 0 /\ Stored' = 0
  BY <1>2 DEF WriteLoad, Stored
<1>4. QED
  BY <1>3, DataKept DEF WriteLoad, Loaded, ring, history

LEMMA DataReadLoad ==
  ASSUME IInv, DataInv, ReadLoad PROVE DataInv'
<1>1. r' = [r EXCEPT !.pc = IF Used(head, tail) = 0 THEN "test" ELSE "copy",
                     !.head = head, !.tail = tail,
                     !.n = Least(Used(head, tail), r.len),
                     !.i = 0, !.stored = FALSE]
  BY DEF ReadLoad
<1>2. r'.i = 0
  BY <1>1, DataFacts DEF Readers
<1>3. Loaded = 0 /\ Loaded' = 0
  BY <1>2 DEF ReadLoad, Loaded
<1>4. QED
  BY <1>3, DataKept DEF ReadLoad, Stored, ring, history

(* The byte stored goes into a slot that holds no byte the reader has still *)
(* to take: the slots of the bytes held are distinct.                       *)
LEMMA DataWriteByte ==
  ASSUME Ordered, IInv, DataInv, WriteByte PROVE DataInv'
<1>1. w.pc = "copy" /\ w.i < w.n /\ UNCHANGED <<out, sent, taken, r>>
  BY DEF WriteByte, history
<1>2. /\ ~w.stored /\ w.head = head /\ sent + w.n - taken <= Capacity
      /\ w.reported + w.done = sent /\ w.i \in Nat /\ w.n \in Nat
  <2>1. w.i \in Nat /\ w.n \in Nat /\ w.reported \in Nat /\ w.done \in Nat
    BY DataFacts DEF Writers
  <2>2. ~w.stored /\ w.head = head /\ sent + w.n - taken <= Capacity
    BY <1>1, <2>1 DEF IInv, WriterInv
  <2>3. w.reported + w.done = sent
    BY <1>1, <2>1, <2>2, DataFacts DEF IInv, WriterInv, Published
  <2>4. QED
    BY <2>1, <2>2, <2>3
<1>3. PICK k \in Nat : k = sent + w.i
  BY <1>2, DataFacts
<1>4. Slot(w.head, w.i) = k % Capacity
  <2>1. w.head = sent % IndexRange
    BY <1>2 DEF IInv, Wrapped
  <2>2. Slot(sent % IndexRange, w.i) = (sent + w.i) % Capacity
    BY <1>2, DataFacts, SlotOfByte
  <2>3. QED
    BY <1>3, <2>1, <2>2
<1>5. bytes' = [bytes EXCEPT ![k % Capacity] = k]
  <2>1. w.reported + w.done + w.i = k
    BY <1>2, <1>3
  <2>2. bytes' = [bytes EXCEPT ![Slot(w.head, w.i)] = w.reported + w.done + w.i]
    BY DEF WriteByte
  <2>3. QED
    BY <1>4, <2>1, <2>2
<1>6. Stored = w.i /\ Stored' = w.i + 1 /\ Loaded' = Loaded
  <2>1. w' = [w EXCEPT !.i = @ + 1]
    BY DEF WriteByte
  <2>2. w'.pc = "copy" /\ ~w'.stored /\ w'.i = w.i + 1
    BY <1>1, <1>2, <2>1, DataFacts DEF Writers
  <2>3. QED
    BY <1>1, <1>2, <2>2 DEF Stored, Loaded
<1>7. \A j \in taken..(sent + Stored' - 1) : bytes'[j % Capacity] = j
  <2> TAKE j \in taken..(sent + Stored' - 1)
  <2>1. j \in Nat /\ taken <= j /\ j <= k
    BY <1>2, <1>3, <1>6, DataFacts
  <2>2. j % Capacity \in 0..(Capacity - 1) /\ k % Capacity \in 0..(Capacity - 1)
    BY <2>1, <1>3, IndexRanges
  <2>3. CASE j = k
    BY <1>5, <2>2, <2>3, DataFacts
  <2>4. CASE j # k
    <3>1. k - j \in 1..(Capacity - 1)
      <4>1. sent \in Nat /\ taken \in Nat /\ Capacity \in Nat
        BY DataFacts
      <4>2. w.i < w.n /\ w.i \in Nat /\ w.n \in Nat /\ sent + w.n - taken <= Capacity
        BY <1>1, <1>2
      <4>3. k - taken < Capacity
        BY <1>3, <4>1, <4>2
      <4>4. QED
        BY <2>1, <2>4, <4>1, <4>3
    <3>2. k % Capacity # j % Capacity
      BY <2>1, <3>1, SlotsDistinct
    <3>3. j \in taken..(sent + Stored - 1)
      <4>1. sent \in Nat /\ taken \in Nat /\ Stored = w.i /\ w.i \in Nat
        BY <1>2, <1>6, DataFacts
      <4>2. QED
        BY <1>3, <2>1, <2>4, <4>1
    <3>4. bytes[j % Capacity] = j
      BY <3>3 DEF DataInv
    <3>5. QED
      BY <1>5, <2>2, <3>2, <3>4, DataFacts
  <2>5. QED
    BY <2>3, <2>4
<1>8. QED
  BY <1>1, <1>6, <1>7 DEF DataInv, BytesIntact

(* The bytes were stored before the head that publishes them.               *)
LEMMA DataWriteHead ==
  ASSUME Ordered, IInv, DataInv, WriteHead PROVE DataInv'
<1>1. /\ w.pc = "copy" /\ ~w.stored /\ w.i = w.n /\ w.n \in Nat
      /\ UNCHANGED <<bytes, out, taken, r>> /\ sent' = sent + w.n
  BY DataFacts DEF WriteHead, Writers
<1>2. w'.stored = TRUE
  BY DataFacts DEF WriteHead, Writers
<1>3. Stored = w.n /\ Stored' = 0 /\ Loaded' = Loaded
  BY <1>1, <1>2 DEF Stored, Loaded
<1>4. taken'..(sent' + Stored' - 1) = taken..(sent + Stored - 1)
  BY <1>1, <1>3, DataFacts
<1>5. \A k \in taken'..(sent' + Stored' - 1) : bytes'[k % Capacity] = k
  BY <1>1, <1>4 DEF DataInv
<1>6. QED
  BY <1>1, <1>3, <1>5 DEF DataInv, BytesIntact

(* The byte a read copies is the next of the stream.                        *)
LEMMA NextByte ==
  ASSUME Ordered, IInv, DataInv, ReadByte
  PROVE  /\ ~r.stored /\ r.i \in Nat /\ Len(out) = taken + r.i /\ Len(out) < sent
         /\ bytes[Slot(r.tail, r.i)] = Len(out)
<1>1. r.pc = "copy" /\ r.i < r.n /\ r.i \in Nat /\ r.n \in Nat
  BY DataFacts DEF ReadByte, Readers
<1>2. ~r.stored /\ r.tail = tail /\ r.n <= sent - taken
  BY <1>1 DEF IInv, ReaderInv
<1>3. Len(out) = taken + r.i
  BY <1>1, <1>2 DEF DataInv, Loaded
<1>4. PICK k \in Nat : k = taken + r.i
  BY <1>1, DataFacts
<1>5. Slot(r.tail, r.i) = k % Capacity
  <2>1. r.tail = taken % IndexRange
    BY <1>2 DEF IInv, Wrapped
  <2>2. Slot(taken % IndexRange, r.i) = (taken + r.i) % Capacity
    BY <1>1, DataFacts, SlotOfByte
  <2>3. QED
    BY <1>4, <2>1, <2>2
<1>6. k \in taken..(sent + Stored - 1) /\ k < sent
  <2>1. Stored \in Nat
    BY DataFacts DEF Stored, Writers
  <2>2. QED
    BY <1>1, <1>2, <1>4, <2>1, DataFacts
<1>7. bytes[k % Capacity] = k
  BY <1>6 DEF DataInv
<1>8. QED
  BY <1>1, <1>2, <1>3, <1>4, <1>5, <1>6, <1>7

LEMMA DataReadByte ==
  ASSUME Ordered, IInv, DataInv, ReadByte PROVE DataInv'
<1>1. PICK k \in Nat : k = Len(out)
  BY DataFacts
<1>2. out' = Append(out, k) /\ UNCHANGED <<bytes, sent, taken, w>>
  <2>1. out' = Append(out, bytes[Slot(r.tail, r.i)])
    BY DEF ReadByte
  <2>2. QED
    BY <1>1, <2>1, NextByte DEF ReadByte, ring
<1>3. Len(out') = k + 1 /\ out'[k + 1] = k /\ \A j \in 1..k : out'[j] = out[j]
  BY <1>1, <1>2, DataFacts
<1>4. r'.pc = "copy" /\ ~r'.stored /\ r'.i = r.i + 1
  BY NextByte, DataFacts DEF ReadByte, Readers
<1>5. Loaded' = r.i + 1 /\ Stored' = Stored
  BY <1>2, <1>4 DEF Loaded, Stored
<1>6. Len(out') = taken' + Loaded'
  <2>1. k = taken + r.i /\ taken' = taken /\ Loaded' = r.i + 1 /\ Len(out') = k + 1
    BY <1>1, <1>2, <1>3, <1>5, NextByte
  <2>2. taken \in Nat /\ r.i \in Nat
    BY NextByte, DataFacts
  <2>3. QED
    BY <2>1, <2>2
<1>7. BytesIntact'
  BY <1>1, <1>3 DEF DataInv, BytesIntact
<1>8. QED
  BY <1>2, <1>5, <1>6, <1>7 DEF DataInv

(* The bytes were loaded before the tail that gives their slots back.       *)
LEMMA DataReadTail ==
  ASSUME Ordered, IInv, DataInv, ReadTail PROVE DataInv'
<1>1. /\ r.pc = "copy" /\ ~r.stored /\ r.i = r.n /\ r.n \in Nat
      /\ UNCHANGED <<bytes, out, sent, w>> /\ taken' = taken + r.n
  BY DataFacts DEF ReadTail, Readers
<1>2. r'.stored = TRUE
  BY DataFacts DEF ReadTail, Readers
<1>3. Loaded = r.n /\ Loaded' = 0 /\ Stored' = Stored
  BY <1>1, <1>2 DEF Stored, Loaded
<1>4. Len(out') = taken' + Loaded'
  BY <1>1, <1>3, DataFacts DEF DataInv
<1>5. taken'..(sent' + Stored' - 1) \subseteq taken..(sent + Stored - 1)
  <2>1. Stored \in Nat
    BY DataFacts DEF Stored, Writers
  <2>2. QED
    BY <1>1, <1>3, <2>1, DataFacts
<1>6. QED
  BY <1>1, <1>4, <1>5 DEF DataInv, BytesIntact

(* Every other step leaves the bytes, and what is stored and loaded, alone. *)
LEMMA DataQuiet ==
  ASSUME IInv, DataInv,
         \/ \E len \in WriteLens : WriteCall(len)
         \/ \E len \in ReadLens : ReadCall(len)
         \/ WriteTest \/ WriteWait \/ WriteResume \/ WriteWake
         \/ WriterCloseWakesHead \/ WriterCloseWakesTail
         \/ ReadTest \/ ReadWait \/ ReadResume \/ ReadWake
         \/ ReaderCloseWakesHead \/ ReaderCloseWakesTail
         \/ WriterAsks \/ ReaderAsks \/ WriterCloses \/ ReaderCloses
         \/ Destroy \/ SpuriousWake \/ UNCHANGED vars
  PROVE  DataInv'
<1>1. w \in Writers /\ r \in Readers
  BY DataFacts
<1>2. CASE \E len \in WriteLens : WriteCall(len)
  <2>1. PICK len \in WriteLens : WriteCall(len)
    BY <1>2
  <2>2. Stored = 0 /\ Stored' = 0
    BY <1>1, <2>1 DEF WriteCall, Stored, Writers
  <2>3. QED
    BY <2>1, <2>2, DataKept DEF WriteCall, Loaded, ring, history
<1>3. CASE \E len \in ReadLens : ReadCall(len)
  <2>1. PICK len \in ReadLens : ReadCall(len)
    BY <1>3
  <2>2. Loaded = 0 /\ Loaded' = 0
    BY <1>1, <2>1 DEF ReadCall, Loaded, Readers
  <2>3. QED
    BY <2>1, <2>2, DataKept DEF ReadCall, Stored, ring, history
<1>4. CASE WriteTest
  <2>1. Stored = 0 /\ Stored' = 0
    <3>1. CASE closed
      BY <1>1, <1>4, <3>1 DEF WriteTest, WriterReturned, Stored, Writers
    <3>2. CASE ~closed
      BY <1>1, <1>4, <3>2 DEF WriteTest, Stored, Writers
    <3>3. QED
      BY <3>1, <3>2
  <2>2. QED
    BY <1>4, <2>1, DataKept DEF WriteTest, Loaded, ring, history
<1>5. CASE WriteWait \/ WriteResume
  <2>1. Stored = 0 /\ Stored' = 0
    BY <1>1, <1>5 DEF WriteWait, WriteResume, Stored, Writers
  <2>2. QED
    BY <1>5, <2>1, DataKept DEF WriteWait, WriteResume, Loaded, ring, history
<1>6. CASE WriteWake
  <2>1. Stored = 0 /\ Stored' = 0
    <3>1. CASE w.done + w.n < w.len
      BY <1>1, <1>6, <3>1 DEF WriteWake, Stored, Writers
    <3>2. CASE ~(w.done + w.n < w.len)
      BY <1>1, <1>6, <3>2 DEF WriteWake, WriterReturned, Stored, Writers
    <3>3. QED
      BY <3>1, <3>2
  <2>2. QED
    BY <1>6, <2>1, DataKept DEF WriteWake, Loaded, ring, history
<1>7. CASE WriterCloseWakesHead \/ WriterCloseWakesTail \/ WriterAsks \/ WriterCloses
  <2>1. Stored = 0 /\ Stored' = 0
    BY <1>1, <1>7 DEF WriterCloseWakesHead, WriterCloseWakesTail, WriterAsks,
       WriterCloses, Stored, Writers
  <2>2. QED
    BY <1>7, <2>1, DataKept DEF WriterCloseWakesHead, WriterCloseWakesTail,
       WriterAsks, WriterCloses, Loaded, ring, history
<1>8. CASE ReadTest \/ ReadWait \/ ReadResume \/ ReadWake
  <2>1. Loaded = 0 /\ Loaded' = 0
    BY <1>1, <1>8 DEF ReadTest, ReadWait, ReadResume, ReadWake, Loaded, Readers
  <2>2. QED
    BY <1>8, <2>1, DataKept
    DEF ReadTest, ReadWait, ReadResume, ReadWake, Stored, ring, history
<1>9. CASE ReaderCloseWakesHead \/ ReaderCloseWakesTail \/ ReaderAsks
           \/ ReaderCloses \/ Destroy
  <2>1. Loaded = 0 /\ Loaded' = 0
    BY <1>1, <1>9 DEF ReaderCloseWakesHead, ReaderCloseWakesTail, ReaderAsks,
       ReaderCloses, Destroy, Loaded, Readers
  <2>2. QED
    BY <1>9, <2>1, DataKept DEF ReaderCloseWakesHead, ReaderCloseWakesTail,
       ReaderAsks, ReaderCloses, Destroy, Stored, ring, history
<1>10. CASE SpuriousWake \/ UNCHANGED vars
  BY <1>10, DataKept DEF SpuriousWake, vars, Stored, Loaded, ring, history
<1>11. QED
  BY <1>2, <1>3, <1>4, <1>5, <1>6, <1>7, <1>8, <1>9, <1>10

LEMMA DataInductive ==
  ASSUME Ordered
  PROVE  IInv /\ DataInv /\ [Next]_vars => DataInv'
<1> SUFFICES ASSUME IInv, DataInv, [Next]_vars PROVE DataInv'
  OBVIOUS
<1>1. CASE WriteLoad \/ WriteByte \/ WriteHead
  BY <1>1, DataWriteLoad, DataWriteByte, DataWriteHead
<1>2. CASE ReadLoad \/ ReadByte \/ ReadTail
  BY <1>2, DataReadLoad, DataReadByte, DataReadTail
<1>3. CASE ~(WriteLoad \/ WriteByte \/ WriteHead \/ ReadLoad \/ ReadByte \/ ReadTail)
  BY <1>3, DataQuiet DEF Next, WriterRuns, ReaderRuns
<1>4. QED
  BY <1>1, <1>2, <1>3

LEMMA AlwaysDataInv == ASSUME Ordered PROVE Spec => [](IInv /\ DataInv)
<1>1. Init => IInv /\ DataInv
  BY InitIInv, DataInit
<1>2. IInv /\ DataInv /\ [Next]_vars => (IInv /\ DataInv)'
  BY Inductive, DataInductive
<1>3. QED
  BY <1>1, <1>2, PTL DEF Spec

(* The bytes read are the bytes written, for every capacity and every       *)
(* interleaving, where the build keeps the order of each context's stores.  *)
THEOREM AlwaysBytesIntact == ASSUME Ordered PROVE Spec => []BytesIntact
<1>1. DataInv => BytesIntact
  BY DEF DataInv
<1>2. QED
  BY <1>1, AlwaysDataInv, PTL

-----------------------------------------------------------------------------
(* The ring implements the stream.                                          *)

LEMMA StreamStarts == Init => Stream!StreamInit
  BY DEF Init, Stream!StreamInit

LEMMA StreamSteps ==
  ASSUME Ordered
  PROVE  IInv /\ DataInv /\ [Next]_vars => [Stream!StreamNext]_(Stream!streamVars)
<1> SUFFICES ASSUME IInv, DataInv, [Next]_vars
             PROVE  Stream!StreamNext \/ UNCHANGED <<sent, out, closed, r.eof>>
  BY DEF Stream!streamVars
<1>1. w \in Writers /\ r \in Readers
  BY DataFacts
<1>2. CASE WriteHead
  <2>1. /\ w.pc = "copy" /\ ~w.stored /\ sent' = sent + w.n
        /\ UNCHANGED <<out, closed, r>>
    BY <1>2 DEF WriteHead
  <2>2. w.n \in 1..Capacity /\ sent + w.n - taken <= Capacity
    BY <1>1, <2>1, DataFacts DEF IInv, TypeOK, WriterInv, Writers
  <2>3. Len(out) \in Nat /\ Len(out) >= taken
    BY <1>1, DataFacts DEF DataInv, Loaded, Readers
  <2>4. Stream!Accept(w.n)
    BY <2>1, <2>2, <2>3, DataFacts DEF Stream!Accept
  <2>5. QED
    BY <2>2, <2>4 DEF Stream!StreamNext
<1>3. CASE ReadByte
  <2>1. UNCHANGED <<sent, closed, r.eof>>
    BY <1>1, <1>3 DEF ReadByte, Readers, ring
  <2>2. out' = Append(out, Len(out)) /\ Len(out) < sent
    BY <1>3, NextByte DEF ReadByte
  <2>3. QED
    BY <2>1, <2>2 DEF Stream!StreamNext, Stream!Deliver
<1>4. CASE WriterCloses \/ ReaderCloses
  <2>1. closed' = TRUE /\ UNCHANGED <<sent, out, r.eof>>
    BY <1>1, <1>4 DEF WriterCloses, ReaderCloses, Readers, history
  <2>2. QED
    BY <2>1 DEF Stream!StreamNext, Stream!Shut
<1>5. CASE ReadTest
  <2>1. UNCHANGED <<sent, out, closed>>
    BY <1>5 DEF ReadTest, ring, history
  <2>2. CASE closed
    <3>1. r'.eof = TRUE
      BY <1>1, <1>5, <2>2 DEF ReadTest, Readers
    <3>2. QED
      BY <2>1, <2>2, <3>1 DEF Stream!StreamNext, Stream!Finish
  <2>3. CASE ~closed
    BY <1>1, <1>5, <2>1, <2>3 DEF ReadTest, Readers
  <2>4. QED
    BY <2>2, <2>3
<1>6. CASE \/ \E len \in WriteLens : WriteCall(len)
           \/ WriteTest \/ WriteLoad \/ WriteWait \/ WriteResume \/ WriteByte \/ WriteWake
           \/ WriterCloseWakesHead \/ WriterCloseWakesTail \/ WriterAsks
           \/ SpuriousWake \/ UNCHANGED vars
  <2>1. UNCHANGED <<sent, out, closed, r>>
    BY <1>6 DEF WriteCall, WriteTest, WriteLoad, WriteWait, WriteResume, WriteByte,
       WriteWake, WriterCloseWakesHead, WriterCloseWakesTail, WriterAsks, SpuriousWake,
       vars, ring, history
  <2>2. QED
    BY <2>1
<1>7. CASE \/ \E len \in ReadLens : ReadCall(len)
           \/ ReadLoad \/ ReadWait \/ ReadResume \/ ReadTail \/ ReadWake
           \/ ReaderCloseWakesHead \/ ReaderCloseWakesTail \/ ReaderAsks \/ Destroy
  <2>1. UNCHANGED <<sent, out, closed>>
    BY <1>7 DEF ReadCall, ReadLoad, ReadWait, ReadResume, ReadTail, ReadWake,
       ReaderCloseWakesHead, ReaderCloseWakesTail, ReaderAsks, Destroy, ring, history
  <2>2. r'.eof = r.eof
    BY <1>1, <1>7 DEF ReadCall, ReadLoad, ReadWait, ReadResume, ReadTail, ReadWake,
       ReaderCloseWakesHead, ReaderCloseWakesTail, ReaderAsks, Destroy, Readers
  <2>3. QED
    BY <2>1, <2>2
<1>8. QED
  BY <1>2, <1>3, <1>4, <1>5, <1>6, <1>7 DEF Next, WriterRuns, ReaderRuns

(* Every behaviour of the ring is one of the bounded stream of bytes it     *)
(* promises its two ends, where the build keeps the order of the stores.    *)
THEOREM RefinesByteStream == ASSUME Ordered PROVE Spec => ImplementsByteStream
<1>1. Spec => [](IInv /\ DataInv)
  BY AlwaysDataInv
<1>2. QED
  BY <1>1, StreamStarts, StreamSteps, PTL
  DEF Spec, ImplementsByteStream, Stream!StreamSpec

=============================================================================
