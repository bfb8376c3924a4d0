---------------------------- MODULE IdAllocator ----------------------------
(***************************************************************************)
(* What a generator of ids promises: every id it hands out is above all    *)
(* the ids of its type handed out before, those of its own batch included. *)
(* The history is a sequence, one place for each time an id is handed out: *)
(* handing an id out again is a step, and one that the allocator forbids.  *)
(***************************************************************************)
EXTENDS Integers, Sequences

CONSTANTS Type, SeqIds

VARIABLE handed    \* the ids in the order in which they were handed out

Id == [UnixTime : Nat, UuidType : Type, SequentialId : 0 .. SeqIds - 1]

\* the order of the ids of one type, which is that of the 63-bit numbers
Below(i, j) ==
    \/ i.UnixTime < j.UnixTime
    \/ i.UnixTime = j.UnixTime /\ i.SequentialId < j.SequentialId

\* the history keeps what it holds, and every place added is of type y and above all
\* the places before it that are of the type
HandOut(y) ==
    /\ handed' \in Seq(Id)
    /\ Len(handed) <= Len(handed')
    /\ \A n \in 1 .. Len(handed') :
         IF n <= Len(handed) THEN handed'[n] = handed[n]
         ELSE /\ handed'[n].UuidType = y
              /\ \A m \in 1 .. n - 1 : handed'[m].UuidType = y => Below(handed'[m], handed'[n])

Init == handed = <<>>
Next == \E y \in Type : HandOut(y)
Spec == Init /\ [][Next]_handed
=============================================================================
