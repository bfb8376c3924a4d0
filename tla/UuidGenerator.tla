--------------------------- MODULE UuidGenerator ---------------------------
(***************************************************************************)
(* pkg/uuid/internal_generator.go: the lock-free generator of 63-bit ids.  *)
(* One 64-bit counter per id type holds a unix second (high 32 bits) and a *)
(* sequence number (low 32 bits); GenerateUuids claims count numbers by an *)
(* atomic add, and moves the counter to a new second by compare-and-swap.  *)
(* Goroutines interleave at every atomic operation, and the wall clock may *)
(* be set back between any two readings.                                   *)
(*                                                                         *)
(* One lifetime of one server process: the counters start at zero, and the *)
(* server id, a constant field of every id, is left out.                   *)
(***************************************************************************)
EXTENDS Integers, Sequences

CONSTANTS
    Caller,       \* goroutines inside the generator at one time
    Type,         \* the id types (uuid_type.go)
    SeqIds,       \* sequence numbers an id has room for: 2^19
    SeqSpan,      \* sequence numbers the counter has room for: 2^32
    MaxCount,     \* the largest batch: 2^16 - 1
    LastSecond    \* bound: the clock stays below this second

ASSUME UuidAssumption ==
    /\ SeqIds \in Nat \ {0} /\ SeqSpan \in Nat /\ MaxCount \in Nat \ {0}
    /\ SeqIds + MaxCount <= SeqSpan
    /\ LastSecond \in Nat \ {0}

VARIABLES
    clock,            \* the wall clock, in seconds
    uuidSeqNumbers,   \* [Type -> the counter of the type]
    calls,            \* [Caller -> the locals of its GenerateUuids]
    handed            \* history: the ids returned to callers, in the order they won them

vars == <<clock, uuidSeqNumbers, calls, handed>>

-----------------------------------------------------------------------------
(* The counter: second << 32 | number, as a pair with carry and borrow     *)

Counter == [sec : Nat, num : 0 .. SeqSpan - 1]

\* Mutants: the carry into the second is lost, or not taken out of the low half.
PlusHigh(c, k) == [c EXCEPT !.num = @ + k]
PlusLow(c, k) == [c EXCEPT !.num = (@ + k) % SeqSpan]
Plus(c, k) ==
    IF c.num + k < SeqSpan THEN [c EXCEPT !.num = @ + k]
    ELSE [sec |-> c.sec + 1, num |-> c.num + k - SeqSpan]

Minus(c, k) ==
    IF c.num >= k THEN [c EXCEPT !.num = @ - k]
    ELSE [sec |-> c.sec - 1, num |-> c.num - k + SeqSpan]

\* the counter values a batch of k that ends with c has claimed, first to last
Claimed(c, k) == [j \in 1 .. k |-> Minus(c, k - j)]

\* assembleUuid, which keeps the low bits of the number only
AssembleUuid(now, y, v) == [UnixTime |-> now, UuidType |-> y, SequentialId |-> v.num % SeqIds]

Idle == [pc |-> "idle"]
At(c, pc) == calls[c].pc = pc
Zero == [sec |-> 0, num |-> 0]
Turn(y, k) == [pc |-> "clock", type |-> y, count |-> k, now |-> 0, last |-> Zero]
Continue(c) == calls' = [calls EXCEPT ![c] = Turn(@.type, @.count)]

-----------------------------------------------------------------------------
(* The wall clock *)

Tick == clock < LastSecond /\ clock' = clock + 1 /\ UNCHANGED <<uuidSeqNumbers, calls, handed>>
SetBack == clock' \in 1 .. clock - 1 /\ UNCHANGED <<uuidSeqNumbers, calls, handed>>

-----------------------------------------------------------------------------
(* GenerateUuids *)

Call(c, y, k) ==
    /\ At(c, "idle")
    /\ calls' = [calls EXCEPT ![c] = Turn(y, k)]
    /\ UNCHANGED <<clock, uuidSeqNumbers, handed>>

ReadClock(c) ==
    /\ At(c, "clock")
    /\ calls' = [calls EXCEPT ![c].pc = "add", ![c].now = clock]
    /\ UNCHANGED <<clock, uuidSeqNumbers, handed>>

Assembled(r, batch) == [j \in DOMAIN batch |-> AssembleUuid(r.now, r.type, batch[j])]

\* Mutant: numbers past the 19 bits are masked and handed out.
ReturnMasked(c, last) ==
    LET r == calls[c]
    IN  /\ calls' = [calls EXCEPT ![c] = Idle]
        /\ handed' = handed \o Assembled(r, Claimed(last, r.count))

\* The batch that ends with last, or nil when a number of it does not fit an id. The
\* loop that assembles it reads the caller's own locals: it joins the step that won
\* them.
Return(c, last) ==
    LET r == calls[c]
        batch == Claimed(last, r.count)
    IN  /\ calls' = [calls EXCEPT ![c] = Idle]
        /\ handed' = IF \E j \in DOMAIN batch : batch[j].num >= SeqIds THEN handed
                     ELSE handed \o Assembled(r, batch)

\* the counter's Add; a counter ahead of the reading was moved by another caller or
\* the clock was set back, and the loop turns with the numbers claimed for nothing
AddToCounter(c) ==
    LET r == calls[c]
        last == Plus(uuidSeqNumbers[r.type], r.count)
    IN  /\ At(c, "add")
        /\ last.sec <= LastSecond
        /\ uuidSeqNumbers' = [uuidSeqNumbers EXCEPT ![r.type] = last]
        /\ \/ r.now = last.sec /\ Return(c, last)
           \/ r.now < last.sec /\ Continue(c) /\ UNCHANGED handed
           \/ r.now > last.sec /\ calls' = [calls EXCEPT ![c].pc = "swap", ![c].last = last] /\ UNCHANGED handed
        /\ UNCHANGED clock

\* Mutant: the counter is stored without comparing.
SwapAlways(c) ==
    LET r == calls[c]
        newLast == [sec |-> r.now, num |-> r.count - 1]
    IN  /\ At(c, "swap")
        /\ uuidSeqNumbers' = [uuidSeqNumbers EXCEPT ![r.type] = newLast]
        /\ Return(c, newLast)
        /\ UNCHANGED clock

\* the first caller of a new second starts its numbers at 0
SwapCounter(c) ==
    LET r == calls[c]
        newLast == [sec |-> r.now, num |-> r.count - 1]
    IN  /\ At(c, "swap")
        /\ \/ /\ uuidSeqNumbers[r.type] = r.last
              /\ uuidSeqNumbers' = [uuidSeqNumbers EXCEPT ![r.type] = newLast]
              /\ Return(c, newLast)
           \/ /\ uuidSeqNumbers[r.type] # r.last
              /\ Continue(c)
              /\ UNCHANGED <<uuidSeqNumbers, handed>>
        /\ UNCHANGED clock

-----------------------------------------------------------------------------
Init ==
    /\ clock = 1
    /\ uuidSeqNumbers = [y \in Type |-> Zero]
    /\ calls = [c \in Caller |-> Idle]
    /\ handed = <<>>

Next ==
    \/ Tick
    \/ SetBack
    \/ \E c \in Caller :
         \/ \E y \in Type, k \in 1 .. MaxCount : Call(c, y, k)
         \/ ReadClock(c)
         \/ AddToCounter(c)
         \/ SwapCounter(c)

Spec == Init /\ [][Next]_vars

-----------------------------------------------------------------------------
(* Properties *)

TypeOK ==
    /\ clock \in 1 .. LastSecond
    /\ uuidSeqNumbers \in [Type -> Counter]
    /\ calls \in [Caller -> {Idle} \cup
           [pc : {"clock", "add", "swap"}, type : Type, count : 1 .. MaxCount, now : Nat, last : Counter]]
    /\ handed \in Seq([UnixTime : Nat, UuidType : Type, SequentialId : 0 .. SeqIds - 1])

\* The ids of a type grow from one id returned to the next, within a batch and from
\* batch to batch, so no id is handed out twice, neither to one caller nor to two,
\* whatever goroutines race for the counter and however the clock jumps.
Allocator == INSTANCE IdAllocator
HandsOutGrowingIds == Allocator!Spec

\* No id handed out is ahead of the counter it came from: a caller that moves the
\* counter to a new second never moves it below what another caller has claimed.
CounterCoversIds ==
    \A n \in DOMAIN handed :
        LET i == handed[n]
            c == uuidSeqNumbers[i.UuidType]
        IN  i.UnixTime < c.sec \/ (i.UnixTime = c.sec /\ i.SequentialId <= c.num)

\* A caller about to move the counter reads a clock ahead of the value it compares
\* with, so a swap that succeeds moves the counter forward.
SwapsMoveForward == \A c \in Caller : At(c, "swap") => calls[c].last.sec < calls[c].now

UuidInv == TypeOK /\ CounterCoversIds /\ SwapsMoveForward
=============================================================================
