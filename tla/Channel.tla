------------------------------ MODULE Channel ------------------------------
(***************************************************************************)
(* openkal.kit.channel (kit/src/channel.cppm): a ring of bytes between one *)
(* writing context and one reading context of the same address space.      *)
(*                                                                         *)
(* Every access to a word of the ring that the other context writes is a   *)
(* step of its own; what a context does with its own locals and with the   *)
(* index only it writes is part of the step before it.  head, tail, closed *)
(* and bytes are plain words: Ordered says whether the build makes the     *)
(* stores of one context visible in program order.                         *)
(*                                                                         *)
(* A byte is named by its place in the stream (0, 1, 2, ...).  sent, taken *)
(* and out are history: the program does not hold them.                    *)
(***************************************************************************)
EXTENDS Integers, Sequences

CONSTANTS Capacity,     (* detail::capacity                                *)
          IndexRange,   (* how many values an index has: 2^32 for kal_u32  *)
          StreamLen,    (* bound: the most bytes the writer's calls carry  *)
          WriteLens,    (* the lengths a write is called with              *)
          ReadLens,     (* the lengths a read is called with               *)
          Ordered,      (* stores become visible in program order          *)
          Junk          (* what a byte of the region holds before any store *)

ASSUME CapacityAssumption ==
  /\ Capacity \in Nat \ {0}
  /\ IndexRange \in Nat
  /\ IndexRange > Capacity
  /\ IndexRange % Capacity = 0

ASSUME LensAssumption == /\ StreamLen \in Nat
                         /\ WriteLens \subseteq Nat \ {0}
                         /\ ReadLens \subseteq Nat \ {0}

ASSUME OrderAssumption == Ordered \in BOOLEAN

ASSUME JunkAssumption == Junk \notin Nat

VARIABLES head,         (* the ring's words                                *)
          tail,
          closed,
          bytes,
          asleep,       (* the word each context is suspended upon         *)
          w,            (* the writing context: where it is, and its locals *)
          r,            (* the reading context                             *)
          sent,         (* history: bytes whose head has been stored       *)
          taken,        (* history: bytes whose tail has been stored       *)
          out           (* history: every byte copied to the reader        *)

ring == <<head, tail, closed, bytes>>
history == <<sent, taken, out>>
vars == <<ring, asleep, w, r, history>>

Contexts == {"writer", "reader"}
Words == {"head", "tail"}

Task == INSTANCE TaskWait

-----------------------------------------------------------------------------
(* Arithmetic of the indices, which are unsigned and wrap.                  *)

(* static_cast<kal_uintptr>(head - tail)                                    *)
Used(h, t) == (h - t) % IndexRange

(* Mutant: the index is kept in a wider word.                               *)
AdvanceUnwrapped(index, n) == index + n

(* head + static_cast<kal_u32>(n)                                           *)
Advance(index, n) == (index + n) % IndexRange

(* (index + i) & (capacity - 1)                                             *)
Slot(index, i) == (index + i) % Capacity

Least(a, b) == IF a <= b THEN a ELSE b

-----------------------------------------------------------------------------
(* Where a context is.  A writer in "copy" has computed n and is storing    *)
(* bytes and head; a reader in "copy" is loading bytes and storing tail.    *)
WriterAt == {"idle", "test", "load", "wait", "asleep", "copy",
             "closeHead", "closeTail", "gone"}
ReaderAt == {"idle", "load", "test", "wait", "asleep", "copy",
             "closeHead", "closeTail", "left", "done"}

Writers == [pc : WriterAt,
            len : Nat,          (* the call's len                          *)
            done : Nat,         (* the call's done                         *)
            head : Nat,         (* the call's head and tail                *)
            tail : Nat,
            n : Nat,            (* the chunk being stored                  *)
            i : Nat,            (* how much of it has been stored          *)
            stored : BOOLEAN,   (* its head has been stored                *)
            offered : Nat,      (* history: the lengths of the calls made  *)
            reported : Nat,     (* history: what they returned             *)
            room : Nat]         (* capacity less what channel_pending said *)

Readers == [pc : ReaderAt,
            len : Nat,
            head : Nat,
            tail : Nat,
            n : Nat,
            i : Nat,
            stored : BOOLEAN,   (* tail has been stored                    *)
            eof : BOOLEAN,      (* a read has returned 0                   *)
            ready : Nat]        (* what channel_pending said               *)

(* channel_open, and a second context started with the writing end.         *)
Init ==
  /\ head = 0 /\ tail = 0
  /\ closed = FALSE
  /\ bytes = [s \in 0..(Capacity - 1) |-> Junk]
  /\ Task!SleepInit
  /\ w = [pc |-> "idle", len |-> 0, done |-> 0, head |-> 0, tail |-> 0,
          n |-> 0, i |-> 0, stored |-> FALSE, offered |-> 0, reported |-> 0,
          room |-> 0]
  /\ r = [pc |-> "idle", len |-> 0, head |-> 0, tail |-> 0, n |-> 0, i |-> 0,
          stored |-> FALSE, eof |-> FALSE, ready |-> 0]
  /\ sent = 0 /\ taken = 0 /\ out = <<>>

-----------------------------------------------------------------------------
(* channel_write                                                            *)

WriteCall(len) ==
  /\ w.pc = "idle"
  /\ w.offered + len <= StreamLen
  /\ w' = [w EXCEPT !.pc = "test", !.len = len, !.done = 0,
                    !.offered = @ + len]
  /\ UNCHANGED <<ring, asleep, r, history>>

(* The call returns count: the loop ended, or the far end was closed.       *)
WriterReturned(count) ==
  [w EXCEPT !.pc = "idle", !.reported = @ + count, !.done = 0, !.room = 0]

(* Mutant: a write that meets the close forgets what it has written.        *)
WriteTestForgets ==
  /\ w.pc = "test"
  /\ w' = IF closed THEN WriterReturned(0) ELSE [w EXCEPT !.pc = "load"]
  /\ UNCHANGED <<ring, asleep, r, history>>

WriteTest ==
  /\ w.pc = "test"
  /\ w' = IF closed THEN WriterReturned(w.done) ELSE [w EXCEPT !.pc = "load"]
  /\ UNCHANGED <<ring, asleep, r, history>>

WriteLoad ==
  /\ w.pc = "load"
  /\ w' = [w EXCEPT !.pc = IF Used(head, tail) = Capacity THEN "wait" ELSE "copy",
                    !.head = head, !.tail = tail,
                    !.n = Least(w.len - w.done, Capacity - Used(head, tail)),
                    !.i = 0, !.stored = FALSE]
  /\ UNCHANGED <<ring, asleep, r, history>>

(* kal_task_wait(&r->tail, tail, 0)                                         *)
WriteWait ==
  /\ w.pc = "wait"
  /\ IF tail = w.tail
     THEN w' = [w EXCEPT !.pc = "asleep"] /\ Task!Suspend("writer", "tail")
     ELSE w' = [w EXCEPT !.pc = "test"] /\ UNCHANGED asleep
  /\ UNCHANGED <<ring, r, history>>

WriteResume ==
  /\ w.pc = "asleep"
  /\ asleep["writer"] = Task!Awake
  /\ w' = [w EXCEPT !.pc = "test"]
  /\ UNCHANGED <<ring, asleep, r, history>>

WriteByte ==
  /\ w.pc = "copy"
  /\ w.i < w.n
  /\ bytes' = [bytes EXCEPT ![Slot(w.head, w.i)] = w.reported + w.done + w.i]
  /\ w' = [w EXCEPT !.i = @ + 1]
  /\ UNCHANGED <<head, tail, closed, asleep, r, history>>

(* Mutant: head is stored before the bytes it publishes.                    *)
WriteHeadEarly ==
  /\ w.pc = "copy"
  /\ ~w.stored
  /\ head' = Advance(w.head, w.n)
  /\ sent' = sent + w.n
  /\ w' = [w EXCEPT !.stored = TRUE]
  /\ UNCHANGED <<tail, closed, bytes, asleep, r, taken, out>>

(* The store of head follows the stores of the bytes in the program; it is  *)
(* seen after them only where the build keeps that order.                   *)
WriteHead ==
  /\ w.pc = "copy"
  /\ ~w.stored
  /\ Ordered => w.i = w.n
  /\ head' = Advance(w.head, w.n)
  /\ sent' = sent + w.n
  /\ w' = [w EXCEPT !.stored = TRUE]
  /\ UNCHANGED <<tail, closed, bytes, asleep, r, taken, out>>

(* Mutant: the writer wakes the word it waits upon itself.                  *)
WriteWakeOwnWord ==
  /\ w.pc = "copy"
  /\ w.i = w.n /\ w.stored
  /\ Task!WakeOne("tail")
  /\ LET done == w.done + w.n
     IN  w' = IF done < w.len THEN [w EXCEPT !.pc = "test", !.done = done]
                              ELSE WriterReturned(done)
  /\ UNCHANGED <<ring, r, history>>

(* kal_task_wake(&r->head, 1, &woken), and the test of done < len.          *)
WriteWake ==
  /\ w.pc = "copy"
  /\ w.i = w.n /\ w.stored
  /\ Task!WakeOne("head")
  /\ LET done == w.done + w.n
     IN  w' = IF done < w.len THEN [w EXCEPT !.pc = "test", !.done = done]
                              ELSE WriterReturned(done)
  /\ UNCHANGED <<ring, r, history>>

-----------------------------------------------------------------------------
(* channel_read                                                             *)

ReadCall(len) ==
  /\ r.pc = "idle"
  /\ r' = [r EXCEPT !.pc = "load", !.len = len]
  /\ UNCHANGED <<ring, asleep, w, history>>

ReadLoad ==
  /\ r.pc = "load"
  /\ r' = [r EXCEPT !.pc = IF Used(head, tail) = 0 THEN "test" ELSE "copy",
                    !.head = head, !.tail = tail,
                    !.n = Least(Used(head, tail), r.len),
                    !.i = 0, !.stored = FALSE]
  /\ UNCHANGED <<ring, asleep, w, history>>

(* Mutant: an empty ring is reported as the end of input.                   *)
ReadTestUnclosed ==
  /\ r.pc = "test"
  /\ r' = [r EXCEPT !.pc = "idle", !.eof = TRUE, !.ready = 0]
  /\ UNCHANGED <<ring, asleep, w, history>>

(* if (r->closed) return 0                                                  *)
ReadTest ==
  /\ r.pc = "test"
  /\ r' = IF closed THEN [r EXCEPT !.pc = "idle", !.eof = TRUE, !.ready = 0]
                    ELSE [r EXCEPT !.pc = "wait"]
  /\ UNCHANGED <<ring, asleep, w, history>>

(* Mutant: the expected value is loaded again for the wait.                 *)
ReadWaitRereads ==
  /\ r.pc = "wait"
  /\ r' = [r EXCEPT !.pc = "asleep"]
  /\ Task!Suspend("reader", "head")
  /\ UNCHANGED <<ring, w, history>>

(* Mutant: the reader waits upon the index it moves itself.                 *)
ReadWaitOwnWord ==
  /\ r.pc = "wait"
  /\ r' = [r EXCEPT !.pc = "asleep"]
  /\ Task!Suspend("reader", "tail")
  /\ UNCHANGED <<ring, w, history>>

(* kal_task_wait(&r->head, head, 0)                                         *)
ReadWait ==
  /\ r.pc = "wait"
  /\ IF head = r.head
     THEN r' = [r EXCEPT !.pc = "asleep"] /\ Task!Suspend("reader", "head")
     ELSE r' = [r EXCEPT !.pc = "load"] /\ UNCHANGED asleep
  /\ UNCHANGED <<ring, w, history>>

ReadResume ==
  /\ r.pc = "asleep"
  /\ asleep["reader"] = Task!Awake
  /\ r' = [r EXCEPT !.pc = "load"]
  /\ UNCHANGED <<ring, asleep, w, history>>

ReadByte ==
  /\ r.pc = "copy"
  /\ r.i < r.n
  /\ out' = Append(out, bytes[Slot(r.tail, r.i)])
  /\ r' = [r EXCEPT !.i = @ + 1]
  /\ UNCHANGED <<ring, asleep, w, sent, taken>>

ReadTail ==
  /\ r.pc = "copy"
  /\ ~r.stored
  /\ Ordered => r.i = r.n
  /\ tail' = Advance(r.tail, r.n)
  /\ taken' = taken + r.n
  /\ r' = [r EXCEPT !.stored = TRUE]
  /\ UNCHANGED <<head, closed, bytes, asleep, w, sent, out>>

(* Mutant: the reader wakes the word it waits upon itself.                  *)
ReadWakeOwnWord ==
  /\ r.pc = "copy"
  /\ r.i = r.n /\ r.stored
  /\ Task!WakeOne("head")
  /\ r' = [r EXCEPT !.pc = "idle", !.ready = 0]
  /\ UNCHANGED <<ring, w, history>>

(* kal_task_wake(&r->tail, 1, &woken), and the return of n.                 *)
ReadWake ==
  /\ r.pc = "copy"
  /\ r.i = r.n /\ r.stored
  /\ Task!WakeOne("tail")
  /\ r' = [r EXCEPT !.pc = "idle", !.ready = 0]
  /\ UNCHANGED <<ring, w, history>>

-----------------------------------------------------------------------------
(* channel_pending, asked by each end's own context.                        *)

(* Mutant: each end is told what the other may do.                          *)
WriterAsksSwapped ==
  /\ w.pc = "idle"
  /\ w' = [w EXCEPT !.room = Used(head, tail)]
  /\ UNCHANGED <<ring, asleep, r, history>>

WriterAsks ==
  /\ w.pc = "idle"
  /\ w' = [w EXCEPT !.room = Capacity - Used(head, tail)]
  /\ UNCHANGED <<ring, asleep, r, history>>

ReaderAsks ==
  /\ r.pc = "idle"
  /\ r' = [r EXCEPT !.ready = Used(head, tail)]
  /\ UNCHANGED <<ring, asleep, w, history>>

-----------------------------------------------------------------------------
(* channel_close, by either context between two calls; channel_destroy.     *)
(* A close wakes at most 64 contexts upon each index: at most one is there. *)

WriterCloses ==
  /\ w.pc = "idle"
  /\ closed' = TRUE
  /\ w' = [w EXCEPT !.pc = "closeHead"]
  /\ UNCHANGED <<head, tail, bytes, asleep, r, history>>

WriterCloseWakesHead ==
  /\ w.pc = "closeHead"
  /\ Task!WakeAll("head")
  /\ w' = [w EXCEPT !.pc = "closeTail"]
  /\ UNCHANGED <<ring, r, history>>

(* The writing context ends when its close returns.                         *)
WriterCloseWakesTail ==
  /\ w.pc = "closeTail"
  /\ Task!WakeAll("tail")
  /\ w' = [w EXCEPT !.pc = "gone"]
  /\ UNCHANGED <<ring, r, history>>

ReaderCloses ==
  /\ r.pc = "idle"
  /\ closed' = TRUE
  /\ r' = [r EXCEPT !.pc = "closeHead"]
  /\ UNCHANGED <<head, tail, bytes, asleep, w, history>>

ReaderCloseWakesHead ==
  /\ r.pc = "closeHead"
  /\ Task!WakeAll("head")
  /\ r' = [r EXCEPT !.pc = "closeTail"]
  /\ UNCHANGED <<ring, w, history>>

ReaderCloseWakesTail ==
  /\ r.pc = "closeTail"
  /\ Task!WakeAll("tail")
  /\ r' = [r EXCEPT !.pc = "left"]
  /\ UNCHANGED <<ring, w, history>>

(* The owner of the pair joins the writing context, then destroys the pair: *)
(* the region is given back.                                                *)
Destroy ==
  /\ r.pc = "left"
  /\ w.pc = "gone"
  /\ r' = [r EXCEPT !.pc = "done"]
  /\ UNCHANGED <<ring, asleep, w, history>>

SpuriousWake ==
  /\ \E c \in Contexts : Task!Spurious(c)
  /\ UNCHANGED <<ring, w, r, history>>

-----------------------------------------------------------------------------
(* The steps of an operation that has been called, and the whole.           *)
WriterRuns == \/ WriteTest \/ WriteLoad \/ WriteWait \/ WriteResume
              \/ WriteByte \/ WriteHead \/ WriteWake
              \/ WriterCloseWakesHead \/ WriterCloseWakesTail
ReaderRuns == \/ ReadLoad \/ ReadTest \/ ReadWait \/ ReadResume
              \/ ReadByte \/ ReadTail \/ ReadWake
              \/ ReaderCloseWakesHead \/ ReaderCloseWakesTail

Next == \/ \E len \in WriteLens : WriteCall(len)
        \/ \E len \in ReadLens : ReadCall(len)
        \/ WriterRuns
        \/ ReaderRuns
        \/ WriterAsks
        \/ ReaderAsks
        \/ WriterCloses
        \/ ReaderCloses
        \/ Destroy
        \/ SpuriousWake

(* A context that is inside an operation and not suspended keeps running.   *)
(* Nothing obliges a context to call an operation, nor a wait to return.    *)
Fairness == WF_vars(WriterRuns) /\ WF_vars(ReaderRuns)

Spec == Init /\ [][Next]_vars /\ Fairness

-----------------------------------------------------------------------------
(* Properties                                                               *)

(* Every word and local keeps its width: an index is below the range its    *)
(* unsigned type wraps at, a chunk below what it was computed from.         *)
TypeOK ==
  /\ head \in 0..(IndexRange - 1) /\ tail \in 0..(IndexRange - 1)
  /\ closed \in BOOLEAN
  /\ bytes \in [0..(Capacity - 1) -> Nat \union {Junk}]
  /\ Task!SleepTypeOK
  /\ w \in Writers /\ w.n <= Capacity
  /\ r \in Readers /\ r.n <= Capacity
  /\ sent \in Nat /\ taken \in Nat
  /\ out \in Seq(Nat \union {Junk})

(* The ring never holds more than it has room for nor less than nothing,    *)
(* and what channel_pending computes from the wrapped indices is what is    *)
(* held: a writer never passes the reader, however often they wrap.         *)
RingBounded == /\ sent - taken \in 0..Capacity
               /\ Used(head, tail) = sent - taken

(* The bytes read are the bytes written (kit/tests/kit.cpp): what has been  *)
(* copied to the reader is a prefix of what was written, in order, nothing  *)
(* lost to a slot reused too early or read before it was stored.            *)
BytesIntact == \A k \in 1..Len(out) : out[k] = k - 1

(* channel_write reports what it wrote, and a short write occurs only when  *)
(* an end has been closed.                                                  *)
WriteCountExact ==
  w.pc \in {"idle", "closeHead", "closeTail", "gone"} =>
    /\ w.reported = sent
    /\ w.reported < w.offered => closed

(* What channel_pending told an end's own context stays true until its next *)
(* call: a writer that writes no more than the room it was told of never    *)
(* sleeps, and a reader told of bytes neither sleeps nor meets end of input. *)
PendingHolds ==
  /\ w.pc \in {"wait", "asleep"} => w.len > w.room
  /\ r.pc \in {"test", "wait", "asleep"} => r.ready = 0

(* A context suspended upon an index that has moved past what it expected   *)
(* is owed a wake the mover has still to make: moving an index and waking   *)
(* are two steps, and the wait between them must not be lost.               *)
NoLostWake ==
  /\ asleep["reader"] = "head" /\ head # r.head => w.pc = "copy" /\ w.stored
  /\ asleep["writer"] = "tail" /\ tail # w.tail => r.pc = "copy" /\ r.stored

(* A writer waits for room only the reader makes and a reader for bytes     *)
(* only the writer puts in: the two never sleep at once, whatever moved and *)
(* whoever was woken between a wait's load, its test and its suspension.    *)
NeverBothAsleep == ~(asleep["writer"] # Task!Awake /\ asleep["reader"] # Task!Awake)

Stream == INSTANCE ByteStream
            WITH accepted <- sent, got <- out, shut <- closed, ended <- r.eof

(* The ring implements the stream: what is accepted and delivered, and that *)
(* a read returns 0 only when an end has been closed.                       *)
ImplementsByteStream == Stream!StreamSpec

WriterInside == w.pc \in {"wait", "asleep"}
ReaderInside == r.pc \in {"load", "test", "wait", "asleep"}

(* A reader that sleeps is woken by a write, and returns with its bytes.    *)
ReadReturns == (ReaderInside /\ sent > taken) ~> ~ReaderInside

(* A writer waiting for room stops waiting once a read has made some.       *)
WriteReturns == (WriterInside /\ sent - taken < Capacity) ~> ~WriterInside

(* The comment above channel_close: "a writer waiting for room and a reader *)
(* waiting for bytes must both learn that no more is coming".               *)
CloseIsLearned == closed ~> ~(WriterInside \/ ReaderInside)

(* The comment in channel_read: a reader does not report an end of input    *)
(* that lost data, because the close is tested after the indices.           *)
EndOfInputLosesNothing == r.eof => Len(out) = sent

=============================================================================
