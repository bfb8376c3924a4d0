----------------------------- MODULE UuidProofs -----------------------------
(***************************************************************************)
(* The generator of UuidGenerator never repeats an id, for every number of *)
(* goroutines and types, every width of the counter and every clock.       *)
(*                                                                         *)
(* The argument: the counter never moves backward and covers every id      *)
(* handed out (CounterCoversIds); an add claims numbers above the counter, *)
(* a swap that succeeds moves it to a later second (SwapsMoveForward); and *)
(* a batch whose numbers cross into a new second still holds a number of   *)
(* the old one that no id has room for, and is refused.                    *)
(***************************************************************************)
EXTENDS UuidGenerator, TLAPS

Running == [pc : {"clock", "add", "swap"}, type : Type, count : 1 .. MaxCount, now : Nat, last : Counter]

\* A counter value stays a counter value when a batch is added: the carry moves at
\* most one second (the atomic Add of GenerateUuids).
LEMMA PlusIsCounter ==
    ASSUME NEW c \in Counter, NEW k \in 1 .. MaxCount
    PROVE  /\ Plus(c, k) \in Counter
           /\ c.sec < Plus(c, k).sec \/ (c.sec = Plus(c, k).sec /\ c.num + k = Plus(c, k).num)
<1>1. CASE c.num + k < SeqSpan
  BY <1>1, UuidAssumption DEF Plus, Counter
<1>2. CASE ~(c.num + k < SeqSpan)
  BY <1>2, UuidAssumption DEF Plus, Counter
<1> QED BY <1>1, <1>2

\* A batch none of whose numbers is refused lies in one second and ends with last: had it
\* borrowed from the second before, a number of it would be too large for an id.
LEMMA AcceptedBatch ==
    ASSUME NEW last \in Counter, NEW k \in 1 .. MaxCount,
           \A j \in 1 .. k : Claimed(last, k)[j].num < SeqIds
    PROVE  \A j \in 1 .. k :
             LET v == Claimed(last, k)[j]
             IN  /\ v.num = last.num - k + j
                 /\ v.num \in 0 .. SeqIds - 1
                 /\ v.num % SeqIds = v.num
<1>1. last.num \in Nat /\ last.sec \in Nat /\ last.num < SeqSpan /\ k \in Nat /\ k >= 1 /\ k <= MaxCount
  BY UuidAssumption DEF Counter
<1>2. last.num >= k - 1
  <2>1. SUFFICES ASSUME last.num < k - 1 PROVE FALSE
    BY <1>1
  <2>2. Claimed(last, k)[1] = Minus(last, k - 1)
    BY <1>1 DEF Claimed
  <2>3. Minus(last, k - 1).num = last.num - (k - 1) + SeqSpan
    BY <2>1, <1>1, UuidAssumption DEF Minus
  <2> QED BY <2>2, <2>3, <1>1, UuidAssumption
<1>3. ASSUME NEW j \in 1 .. k
      PROVE  LET v == Claimed(last, k)[j]
             IN  /\ v.num = last.num - k + j
                 /\ v.num \in 0 .. SeqIds - 1
                 /\ v.num % SeqIds = v.num
  <2>1. Claimed(last, k)[j] = Minus(last, k - j)
    BY DEF Claimed
  <2>2. Minus(last, k - j).num = last.num - (k - j)
    BY <1>1, <1>2 DEF Minus, Counter
  <2>3. Claimed(last, k)[j].num = last.num - k + j
    BY <2>1, <2>2, <1>1
  <2>4. Claimed(last, k)[j].num \in 0 .. SeqIds - 1
    BY <2>3, <1>1, <1>2, UuidAssumption
  <2>5. Claimed(last, k)[j].num % SeqIds = Claimed(last, k)[j].num
    BY <2>4, UuidAssumption
  <2> QED BY <2>3, <2>4, <2>5
<1> QED BY <1>3

Ids == [UnixTime : Nat, UuidType : Type, SequentialId : 0 .. SeqIds - 1]

\* A batch appended to the history keeps what the history holds and follows it.
LEMMA Appended ==
    ASSUME NEW S, NEW s \in Seq(S), NEW t \in Seq(S)
    PROVE  /\ s \o t \in Seq(S)
           /\ Len(s \o t) = Len(s) + Len(t)
           /\ \A n \in 1 .. Len(s) : (s \o t)[n] = s[n]
           /\ \A n \in Len(s) + 1 .. Len(s \o t) : (s \o t)[n] = t[n - Len(s)]
<1>1. s \o t \in Seq(S) /\ Len(s \o t) = Len(s) + Len(t)
  OBVIOUS
<1>2. \A n \in 1 .. Len(s) : (s \o t)[n] = s[n]
  OBVIOUS
<1>3. \A n \in Len(s) + 1 .. Len(s \o t) : (s \o t)[n] = t[n - Len(s)]
  OBVIOUS
<1> QED BY <1>1, <1>2, <1>3

\* What Return hands out: nothing, or ids of the caller's type and second whose numbers
\* follow each other and end with last (the check and assembleUuid at the end of
\* GenerateUuids).
LEMMA ReturnedIds ==
    ASSUME TypeOK, NEW c \in Caller, ~At(c, "idle"), NEW last \in Counter, Return(c, last)
    PROVE  /\ calls' = [calls EXCEPT ![c] = Idle]
           /\ handed' \in Seq(Ids)
           /\ Len(handed) <= Len(handed')
           /\ \A n \in 1 .. Len(handed) : handed'[n] = handed[n]
           /\ \A n \in Len(handed) + 1 .. Len(handed') :
                LET i == handed'[n]
                IN  /\ i.UnixTime = calls[c].now
                    /\ i.UuidType = calls[c].type
                    /\ i.SequentialId = last.num - calls[c].count + (n - Len(handed))
                    /\ i.SequentialId <= last.num
<1> DEFINE r == calls[c]
           batch == Claimed(last, r.count)
<1>1. r \in Running /\ handed \in Seq(Ids)
  BY DEF TypeOK, At, Idle, Running, Ids
<1>2. calls' = [calls EXCEPT ![c] = Idle]
  BY DEF Return
<1>3. CASE \E j \in DOMAIN batch : batch[j].num >= SeqIds
  <2>1. handed' = handed
    BY <1>3 DEF Return
  <2> QED BY <1>1, <1>2, <2>1
<1>4. CASE ~(\E j \in DOMAIN batch : batch[j].num >= SeqIds)
  <2> DEFINE k == r.count
             ids == Assembled(r, batch)
  <2>1. k \in 1 .. MaxCount /\ k \in Nat /\ r.now \in Nat /\ r.type \in Type /\ last.num \in Int
    BY <1>1, UuidAssumption DEF Running, Counter
  <2>2. handed' = handed \o ids
    BY <1>4 DEF Return
  <2>3. \A j \in 1 .. k : batch[j].num < SeqIds
    <3>1. SUFFICES ASSUME NEW j \in 1 .. k PROVE batch[j].num < SeqIds
      OBVIOUS
    <3>2. j \in DOMAIN batch /\ batch[j] = Minus(last, k - j)
      BY DEF Claimed
    <3>3. batch[j].num \in Int
      BY <3>2, <2>1, UuidAssumption DEF Minus, Counter
    <3>4. ~(batch[j].num >= SeqIds)
      BY <1>4, <3>2
    <3> QED BY <3>3, <3>4, UuidAssumption
  <2>4. \A j \in 1 .. k : /\ batch[j].num = last.num - k + j
                          /\ batch[j].num \in 0 .. SeqIds - 1
                          /\ batch[j].num % SeqIds = batch[j].num
    BY <2>1, <2>3, AcceptedBatch
  <2>5. \A j \in 1 .. k : /\ ids[j] = [UnixTime |-> r.now, UuidType |-> r.type, SequentialId |-> last.num - k + j]
                          /\ ids[j] \in Ids
    BY <2>1, <2>4 DEF Assembled, AssembleUuid, Ids, Claimed
  <2>6. ids \in [1 .. k -> Ids]
    BY <2>5 DEF Assembled, Claimed
  <2>7. ids \in Seq(Ids) /\ Len(ids) = k
    BY <2>1, <2>6
  <2>8. /\ handed' \in Seq(Ids)
        /\ Len(handed') = Len(handed) + k
        /\ \A n \in 1 .. Len(handed) : handed'[n] = handed[n]
        /\ \A n \in Len(handed) + 1 .. Len(handed') : handed'[n] = ids[n - Len(handed)]
    <3> HIDE DEF ids
    <3>1. handed \in Seq(Ids) /\ ids \in Seq(Ids)
      BY <1>1, <2>7
    <3>2. /\ handed \o ids \in Seq(Ids)
          /\ Len(handed \o ids) = Len(handed) + Len(ids)
          /\ \A n \in 1 .. Len(handed) : (handed \o ids)[n] = handed[n]
          /\ \A n \in Len(handed) + 1 .. Len(handed \o ids) : (handed \o ids)[n] = ids[n - Len(handed)]
      BY <3>1, Appended, Zenon
    <3>3. Len(ids) = k
      BY <2>7
    <3> HIDE DEF k
    <3> QED BY <3>2, <3>3, <2>2, Zenon
  <2>9. ASSUME NEW n \in Len(handed) + 1 .. Len(handed')
        PROVE  LET i == handed'[n]
               IN  /\ i.UnixTime = r.now
                   /\ i.UuidType = r.type
                   /\ i.SequentialId = last.num - k + (n - Len(handed))
                   /\ i.SequentialId <= last.num
    <3>1. Len(handed) \in Nat /\ n - Len(handed) \in 1 .. k
      BY <1>1, <2>1, <2>8
    <3>2. handed'[n] = [UnixTime |-> r.now, UuidType |-> r.type,
                        SequentialId |-> last.num - k + (n - Len(handed))]
      BY <3>1, <2>5, <2>8
    <3> QED BY <3>1, <3>2, <2>1
  <2> QED BY <1>1, <1>2, <2>1, <2>8, <2>9
<1> QED BY <1>3, <1>4

\* A batch handed out while its counter moves to its last number, forward from where
\* the counter was, is of growing ids above all earlier ones, and the counter covers them.
LEMMA HandOutGrows ==
    ASSUME UuidInv, NEW c \in Caller, ~At(c, "idle"), NEW last \in Counter, Return(c, last),
           calls[c].now = last.sec,
           uuidSeqNumbers' = [uuidSeqNumbers EXCEPT ![calls[c].type] = last],
           LET old == uuidSeqNumbers[calls[c].type]
           IN  old.sec < last.sec \/ (old.sec = last.sec /\ old.num + calls[c].count = last.num)
    PROVE  /\ Allocator!Next
           /\ CounterCoversIds'
           /\ uuidSeqNumbers' \in [Type -> Counter]
           /\ handed' \in Seq(Ids)
<1> DEFINE y == calls[c].type
           k == calls[c].count
           old == uuidSeqNumbers[y]
           before == Len(handed)
<1>1. TypeOK /\ CounterCoversIds
  BY DEF UuidInv
<1>2. y \in Type /\ k \in 1 .. MaxCount
  BY <1>1 DEF TypeOK, At, Idle
<1>3. /\ old \in Counter
      /\ uuidSeqNumbers' \in [Type -> Counter]
      /\ uuidSeqNumbers'[y] = last
      /\ \A z \in Type \ {y} : uuidSeqNumbers'[z] = uuidSeqNumbers[z]
  BY <1>1, <1>2 DEF TypeOK
<1>4. /\ handed' \in Seq(Ids)
      /\ before <= Len(handed')
      /\ \A n \in 1 .. before : handed'[n] = handed[n]
      /\ \A n \in before + 1 .. Len(handed') :
           /\ handed'[n].UnixTime = last.sec
           /\ handed'[n].UuidType = y
           /\ handed'[n].SequentialId = last.num - k + (n - before)
           /\ handed'[n].SequentialId <= last.num
  BY <1>1, ReturnedIds
<1>5. /\ old.sec \in Nat /\ old.num \in Nat /\ last.sec \in Nat /\ last.num \in Nat /\ k \in Nat
      /\ old.sec < last.sec \/ (old.sec = last.sec /\ old.num + k = last.num)
  BY <1>2, <1>3, UuidAssumption DEF Counter
<1>6. /\ handed \in Seq(Ids) /\ before \in Nat /\ Len(handed') \in Nat
      /\ DOMAIN handed = 1 .. before /\ DOMAIN handed' = 1 .. Len(handed')
  BY <1>1, <1>4 DEF TypeOK, Ids
<1>7. \A n \in 1 .. before :
        /\ handed[n] \in Ids
        /\ handed[n].UnixTime \in Nat /\ handed[n].SequentialId \in Int /\ handed[n].UuidType \in Type
        /\ LET d == uuidSeqNumbers[handed[n].UuidType]
           IN  handed[n].UnixTime < d.sec \/ (handed[n].UnixTime = d.sec /\ handed[n].SequentialId <= d.num)
  <2>1. SUFFICES ASSUME NEW n \in 1 .. before
        PROVE  /\ handed[n] \in Ids
               /\ handed[n].UnixTime \in Nat /\ handed[n].SequentialId \in Int /\ handed[n].UuidType \in Type
               /\ LET d == uuidSeqNumbers[handed[n].UuidType]
                  IN  handed[n].UnixTime < d.sec \/ (handed[n].UnixTime = d.sec /\ handed[n].SequentialId <= d.num)
    OBVIOUS
  <2>2. handed[n] \in Ids
    BY <2>1, <1>6
  <2>3. handed[n].UnixTime \in Nat /\ handed[n].SequentialId \in Int /\ handed[n].UuidType \in Type
    BY <2>2, UuidAssumption DEF Ids
  <2> QED BY <2>1, <2>2, <2>3, <1>1, <1>6 DEF CounterCoversIds
<1>8. Allocator!Next
  <2>1. ASSUME NEW n \in before + 1 .. Len(handed'), NEW m \in 1 .. n - 1, handed'[m].UuidType = y
        PROVE  Allocator!Below(handed'[m], handed'[n])
    <3>1. CASE m <= before
      <4>1. m \in 1 .. before /\ handed'[m] = handed[m]
        BY <2>1, <3>1, <1>4, <1>6
      <4>2. handed[m].UnixTime < old.sec \/ (handed[m].UnixTime = old.sec /\ handed[m].SequentialId <= old.num)
        BY <4>1, <2>1, <1>7
      <4>3. handed'[n].UnixTime = last.sec /\ handed'[n].SequentialId = last.num - k + (n - before)
        BY <2>1, <1>4
      <4>4. handed[m].UnixTime \in Nat /\ handed[m].SequentialId \in Int
        BY <4>1, <1>7
      <4>5. last.num - k + (n - before) \in Int /\ last.num - k + (n - before) > last.num - k
        BY <2>1, <1>5, <1>6
      <4>6. \/ handed[m].UnixTime < last.sec
            \/ handed[m].UnixTime = last.sec /\ handed[m].SequentialId < last.num - k + (n - before)
        <5>1. CASE old.sec < last.sec
          <6>1. CASE handed[m].UnixTime < old.sec
            <7> HIDE DEF old, k, before
            <7> QED BY <6>1, <5>1, <4>4, <1>5
          <6>2. CASE handed[m].UnixTime = old.sec
            BY <6>2, <5>1
          <6> QED BY <6>1, <6>2, <4>2
        <5>2. CASE old.sec = last.sec /\ old.num + k = last.num
          <6>1. old.num = last.num - k
            BY <5>2, <1>5
          <6>2. old.num < last.num - k + (n - before)
            BY <6>1, <4>5
          <6>3. CASE handed[m].UnixTime < old.sec
            BY <6>3, <5>2
          <6>4. CASE handed[m].UnixTime = old.sec /\ handed[m].SequentialId <= old.num
            <7>1. handed[m].SequentialId < last.num - k + (n - before)
              BY <6>2, <6>4, <4>4, <4>5, <1>5
            <7> QED BY <7>1, <6>4, <5>2
          <6> QED BY <6>3, <6>4, <4>2
        <5> QED BY <5>1, <5>2, <1>5
      <4> QED BY <4>1, <4>3, <4>6 DEF Allocator!Below
    <3>2. CASE ~(m <= before)
      <4>1. m \in before + 1 .. Len(handed')
        BY <2>1, <3>2, <1>6
      <4>2. handed'[m].UnixTime = last.sec /\ handed'[m].SequentialId = last.num - k + (m - before)
        BY <4>1, <1>4
      <4>3. handed'[n].UnixTime = last.sec /\ handed'[n].SequentialId = last.num - k + (n - before)
        BY <2>1, <1>4
      <4>4. last.num - k + (m - before) < last.num - k + (n - before)
        BY <2>1, <4>1, <1>5, <1>6
      <4> QED BY <4>2, <4>3, <4>4 DEF Allocator!Below
    <3> QED BY <3>1, <3>2
  <2>2. ASSUME NEW n \in 1 .. Len(handed')
        PROVE  IF n <= before THEN handed'[n] = handed[n]
               ELSE /\ handed'[n].UuidType = y
                    /\ \A m \in 1 .. n - 1 : handed'[m].UuidType = y => Allocator!Below(handed'[m], handed'[n])
    <3>1. CASE n <= before
      <4>1. n \in 1 .. before
        BY <3>1, <1>6
      <4> QED BY <3>1, <4>1, <1>4
    <3>2. CASE ~(n <= before)
      <4>1. n \in before + 1 .. Len(handed')
        BY <3>2, <1>6
      <4>2. handed'[n].UuidType = y
        BY <4>1, <1>4
      <4> QED BY <3>2, <4>1, <4>2, <2>1
    <3> QED BY <3>1, <3>2
  <2>3. handed' \in Seq(Allocator!Id)
    BY <1>4 DEF Allocator!Id, Ids
  <2>4. Allocator!HandOut(y)
    BY <2>2, <2>3, <1>4 DEF Allocator!HandOut
  <2> QED BY <2>4, <1>2 DEF Allocator!Next
<1>9. CounterCoversIds'
  <2>1. SUFFICES ASSUME NEW n \in 1 .. Len(handed')
        PROVE  LET i == handed'[n]
                   d == uuidSeqNumbers'[i.UuidType]
               IN  i.UnixTime < d.sec \/ (i.UnixTime = d.sec /\ i.SequentialId <= d.num)
    BY <1>6 DEF CounterCoversIds
  <2>2. CASE n > before
    <3>1. n \in before + 1 .. Len(handed')
      BY <2>2, <1>6
    <3> QED BY <3>1, <1>3, <1>4
  <2>3. CASE ~(n > before)
    <3>1. n \in 1 .. before /\ handed'[n] = handed[n]
      BY <2>3, <1>4, <1>6
    <3>2. CASE handed[n].UuidType = y
      <4>1. uuidSeqNumbers'[handed'[n].UuidType] = last
        BY <3>1, <3>2, <1>3
      <4>2. /\ handed[n].UnixTime \in Nat /\ handed[n].SequentialId \in Int
            /\ handed[n].UnixTime < old.sec \/ (handed[n].UnixTime = old.sec /\ handed[n].SequentialId <= old.num)
        BY <3>1, <3>2, <1>7
      <4>3. handed[n].UnixTime < last.sec \/ (handed[n].UnixTime = last.sec /\ handed[n].SequentialId <= last.num)
        BY <4>2, <1>5
      <4> QED BY <3>1, <4>1, <4>3
    <3>3. CASE handed[n].UuidType # y
      BY <3>1, <3>3, <1>3, <1>7
    <3> QED BY <3>2, <3>3
  <2> QED BY <2>2, <2>3
<1> QED BY <1>3, <1>4, <1>8, <1>9

-----------------------------------------------------------------------------
(* The steps *)

\* One step keeps the invariant and hands out a growing batch or nothing: the step of
\* the counter's Add, where the caller's second is the counter's own.
LEMMA AddStep ==
    ASSUME UuidInv, NEW c \in Caller, AddToCounter(c)
    PROVE  UuidInv' /\ (Allocator!Next \/ UNCHANGED handed)
<1> DEFINE y == calls[c].type
           old == uuidSeqNumbers[y]
           last == Plus(old, calls[c].count)
<1>1. TypeOK /\ CounterCoversIds /\ SwapsMoveForward
  BY DEF UuidInv
<1>2. calls[c] \in Running /\ ~At(c, "idle")
  BY <1>1 DEF TypeOK, AddToCounter, At, Idle, Running
<1>3. y \in Type /\ calls[c].count \in 1 .. MaxCount /\ calls[c].now \in Nat
  BY <1>2 DEF Running
<1>4. old \in Counter
  BY <1>1, <1>3 DEF TypeOK
<1>5. last \in Counter /\ (old.sec < last.sec \/ (old.sec = last.sec /\ old.num + calls[c].count = last.num))
  BY <1>3, <1>4, PlusIsCounter
<1>6. uuidSeqNumbers' = [uuidSeqNumbers EXCEPT ![y] = last] /\ UNCHANGED clock
  BY DEF AddToCounter
<1>7. CASE calls[c].now = last.sec /\ Return(c, last)
  <2>1. /\ Allocator!Next
        /\ CounterCoversIds'
        /\ uuidSeqNumbers' \in [Type -> Counter]
        /\ handed' \in Seq(Ids)
    BY <1>2, <1>5, <1>6, <1>7, HandOutGrows
  <2>2. calls' = [calls EXCEPT ![c] = Idle]
    BY <1>1, <1>2, <1>5, <1>7, ReturnedIds
  <2>3. TypeOK'
    BY <2>1, <2>2, <1>1, <1>6 DEF TypeOK, Ids
  <2>4. SwapsMoveForward'
    BY <2>2, <1>1 DEF SwapsMoveForward, At, Idle, TypeOK
  <2> QED BY <2>1, <2>3, <2>4 DEF UuidInv
<1>8. CASE UNCHANGED handed
  <2>1. uuidSeqNumbers' \in [Type -> Counter]
    BY <1>1, <1>5, <1>6 DEF TypeOK
  <2>2. CounterCoversIds'
    <3>1. SUFFICES ASSUME NEW n \in DOMAIN handed
          PROVE  LET i == handed[n]
                     d == uuidSeqNumbers'[i.UuidType]
                 IN  i.UnixTime < d.sec \/ (i.UnixTime = d.sec /\ i.SequentialId <= d.num)
      BY <1>8 DEF CounterCoversIds
    <3> DEFINE i == handed[n]
    <3>2. i.UuidType \in Type /\ i.UnixTime \in Nat /\ i.SequentialId \in Int
      <4>1. handed \in Seq(Ids)
        BY <1>1 DEF TypeOK, Ids
      <4>2. i \in Ids
        BY <4>1
      <4> QED BY <4>2, UuidAssumption DEF Ids
    <3>3. i.UnixTime < uuidSeqNumbers[i.UuidType].sec
          \/ (i.UnixTime = uuidSeqNumbers[i.UuidType].sec /\ i.SequentialId <= uuidSeqNumbers[i.UuidType].num)
      BY <1>1 DEF CounterCoversIds
    <3>4. CASE i.UuidType # y
      BY <3>2, <3>3, <3>4, <1>1, <1>6 DEF TypeOK
    <3>5. CASE i.UuidType = y
      <4>1. uuidSeqNumbers'[i.UuidType] = last
        BY <3>5, <1>1, <1>3, <1>6 DEF TypeOK
      <4>2. /\ old.sec \in Nat /\ old.num \in Int /\ last.sec \in Nat /\ last.num \in Int
            /\ calls[c].count \in Nat
        BY <1>3, <1>4, <1>5, UuidAssumption DEF Counter
      <4> QED BY <3>2, <3>3, <3>5, <4>1, <4>2, <1>5
    <3> QED BY <3>4, <3>5
  <2>3. \/ calls' = [calls EXCEPT ![c] = Idle]
        \/ calls' = [calls EXCEPT ![c] = Turn(y, calls[c].count)]
        \/ /\ calls[c].now > last.sec
           /\ calls' = [calls EXCEPT ![c].pc = "swap", ![c].last = last]
    BY <1>1, <1>2, <1>5, ReturnedIds DEF AddToCounter, Continue
  <2>4. TypeOK' /\ SwapsMoveForward'
    <3>1. CASE calls' = [calls EXCEPT ![c] = Idle]
      BY <3>1, <2>1, <1>1, <1>6, <1>8 DEF TypeOK, SwapsMoveForward, At, Idle
    <3>2. CASE calls' = [calls EXCEPT ![c] = Turn(y, calls[c].count)]
      <4>1. Turn(y, calls[c].count) \in Running /\ Turn(y, calls[c].count).pc = "clock"
        BY <1>3, UuidAssumption DEF Turn, Zero, Running, Counter
      <4> QED BY <3>2, <4>1, <2>1, <1>1, <1>6, <1>8 DEF TypeOK, SwapsMoveForward, At, Running
    <3>3. CASE calls[c].now > last.sec /\ calls' = [calls EXCEPT ![c].pc = "swap", ![c].last = last]
      <4>1. /\ calls'[c] \in Running
            /\ calls'[c].last.sec < calls'[c].now
            /\ \A d \in Caller \ {c} : calls'[d] = calls[d]
            /\ DOMAIN calls' = Caller
        BY <3>3, <1>1, <1>2, <1>3, <1>5 DEF TypeOK, Running, Counter
      <4>2. calls' \in [Caller -> {Idle} \cup Running]
        BY <3>3, <4>1, <1>1 DEF TypeOK, Running
      <4> QED BY <4>1, <4>2, <2>1, <1>1, <1>6, <1>8 DEF TypeOK, SwapsMoveForward, At, Running
    <3> QED BY <2>3, <3>1, <3>2, <3>3
  <2> QED BY <2>2, <2>4, <1>8 DEF UuidInv
<1> QED BY <1>7, <1>8 DEF AddToCounter

\* The same of the compare-and-swap: it moves the counter to a second ahead of the
\* value compared, or changes nothing but the caller's own locals.
LEMMA SwapStep ==
    ASSUME UuidInv, NEW c \in Caller, SwapCounter(c)
    PROVE  UuidInv' /\ (Allocator!Next \/ UNCHANGED handed)
<1> DEFINE y == calls[c].type
           last == [sec |-> calls[c].now, num |-> calls[c].count - 1]
<1>1. TypeOK /\ CounterCoversIds /\ SwapsMoveForward
  BY DEF UuidInv
<1>2. calls[c] \in Running /\ ~At(c, "idle")
  BY <1>1 DEF TypeOK, SwapCounter, At, Idle, Running
<1>3. y \in Type /\ calls[c].count \in 1 .. MaxCount /\ calls[c].now \in Nat
  BY <1>2 DEF Running
<1>4. last \in Counter
  BY <1>3, UuidAssumption DEF Counter
<1>5. CASE /\ uuidSeqNumbers[y] = calls[c].last
           /\ uuidSeqNumbers' = [uuidSeqNumbers EXCEPT ![y] = last]
           /\ Return(c, last)
  <2>1. uuidSeqNumbers[y].sec < last.sec
    BY <1>1, <1>5 DEF SwapsMoveForward, SwapCounter
  <2>2. /\ Allocator!Next
        /\ CounterCoversIds'
        /\ uuidSeqNumbers' \in [Type -> Counter]
        /\ handed' \in Seq(Ids)
    BY <1>2, <1>4, <1>5, <2>1, HandOutGrows
  <2>3. calls' = [calls EXCEPT ![c] = Idle]
    BY <1>1, <1>2, <1>4, <1>5, ReturnedIds
  <2>4. TypeOK'
    BY <2>2, <2>3, <1>1 DEF TypeOK, SwapCounter, Ids
  <2>5. SwapsMoveForward'
    BY <2>3, <1>1 DEF SwapsMoveForward, At, Idle, TypeOK
  <2> QED BY <2>2, <2>4, <2>5 DEF UuidInv
<1>6. CASE Continue(c) /\ UNCHANGED <<uuidSeqNumbers, handed>>
  <2>1. /\ Turn(y, calls[c].count) \in Running
        /\ Turn(y, calls[c].count).pc = "clock"
        /\ calls' = [calls EXCEPT ![c] = Turn(y, calls[c].count)]
    BY <1>3, <1>6, UuidAssumption DEF Turn, Zero, Running, Counter, Continue
  <2>2. TypeOK' /\ SwapsMoveForward'
    BY <2>1, <1>1, <1>6 DEF TypeOK, SwapsMoveForward, At, Running, SwapCounter
  <2>3. CounterCoversIds'
    BY <1>1, <1>6 DEF CounterCoversIds
  <2> QED BY <2>2, <2>3, <1>6 DEF UuidInv
<1> QED BY <1>5, <1>6 DEF SwapCounter

\* Calling and reading the clock change only the caller's own locals.
LEMMA LocalStep ==
    ASSUME UuidInv, NEW c \in Caller,
           ReadClock(c) \/ \E y \in Type, k \in 1 .. MaxCount : Call(c, y, k)
    PROVE  UuidInv' /\ UNCHANGED handed
<1>1. TypeOK /\ CounterCoversIds /\ SwapsMoveForward
  BY DEF UuidInv
<1>2. UNCHANGED <<clock, uuidSeqNumbers, handed>>
  BY DEF ReadClock, Call
<1>3. CounterCoversIds'
  BY <1>1, <1>2 DEF CounterCoversIds
<1>4. ASSUME ReadClock(c) PROVE TypeOK' /\ SwapsMoveForward'
  <2>1. calls[c] \in Running /\ clock \in Nat
    BY <1>1, <1>4, UuidAssumption DEF TypeOK, ReadClock, At, Idle, Running
  <2>2. /\ calls'[c] \in Running /\ calls'[c].pc = "add"
        /\ \A d \in Caller \ {c} : calls'[d] = calls[d]
        /\ calls' \in [Caller -> {Idle} \cup Running]
    BY <2>1, <1>1, <1>4 DEF ReadClock, TypeOK, Running
  <2> QED BY <2>2, <1>1, <1>2 DEF TypeOK, SwapsMoveForward, At, Running
<1>5. ASSUME NEW y \in Type, NEW k \in 1 .. MaxCount, Call(c, y, k)
      PROVE  TypeOK' /\ SwapsMoveForward'
  <2>1. Turn(y, k) \in Running /\ Turn(y, k).pc = "clock"
    BY UuidAssumption DEF Turn, Zero, Running, Counter
  <2> QED BY <2>1, <1>1, <1>2, <1>5 DEF Call, TypeOK, SwapsMoveForward, At, Running
<1> QED BY <1>2, <1>3, <1>4, <1>5 DEF UuidInv

\* The invariant holds at the start: nothing is handed out and nobody calls.
LEMMA UuidInit == Init => UuidInv /\ Allocator!Init
<1> SUFFICES ASSUME Init PROVE UuidInv /\ Allocator!Init
  OBVIOUS
<1>1. TypeOK
  BY UuidAssumption DEF Init, TypeOK, Zero, Counter
<1>2. CounterCoversIds /\ SwapsMoveForward /\ Allocator!Init
  BY DEF Init, CounterCoversIds, SwapsMoveForward, At, Idle, Allocator!Init
<1> QED BY <1>1, <1>2 DEF UuidInv

\* Every step keeps the invariant, and hands out a growing batch of one type or
\* nothing at all.
LEMMA UuidStep == UuidInv /\ [Next]_vars => UuidInv' /\ [Allocator!Next]_handed
<1> SUFFICES ASSUME UuidInv, [Next]_vars PROVE UuidInv' /\ [Allocator!Next]_handed
  OBVIOUS
<1>1. TypeOK /\ CounterCoversIds /\ SwapsMoveForward
  BY DEF UuidInv
<1>2. CASE Tick \/ SetBack
  <2>1. clock' \in 1 .. LastSecond /\ UNCHANGED <<uuidSeqNumbers, calls, handed>>
    BY <1>1, <1>2, UuidAssumption DEF Tick, SetBack, TypeOK
  <2> QED BY <2>1, <1>1 DEF UuidInv, TypeOK, CounterCoversIds, SwapsMoveForward, At
<1>3. CASE UNCHANGED vars
  BY <1>1, <1>3 DEF vars, UuidInv, TypeOK, CounterCoversIds, SwapsMoveForward, At
<1>4. ASSUME NEW c \in Caller,
             \/ \E y \in Type, k \in 1 .. MaxCount : Call(c, y, k)
             \/ ReadClock(c)
             \/ AddToCounter(c)
             \/ SwapCounter(c)
      PROVE  UuidInv' /\ [Allocator!Next]_handed
  BY <1>4, LocalStep, AddStep, SwapStep
<1> QED BY <1>2, <1>3, <1>4 DEF Next

-----------------------------------------------------------------------------
(* The theorems *)

\* UuidInv holds in every reachable state of the generator.
THEOREM UuidIsInductive == Spec => []UuidInv
<1>1. Init => UuidInv
  BY UuidInit
<1>2. UuidInv /\ [Next]_vars => UuidInv'
  BY UuidStep
<1> QED BY <1>1, <1>2, PTL DEF Spec

\* The counters keep their width through carries and no id overflows its 19 bits.
THEOREM UuidIsTyped == Spec => []TypeOK
<1>1. UuidInv => TypeOK
  BY DEF UuidInv
<1> QED BY <1>1, UuidIsInductive, PTL

\* No id handed out is ahead of the counter of its type.
THEOREM UuidCoversIds == Spec => []CounterCoversIds
<1>1. UuidInv => CounterCoversIds
  BY DEF UuidInv
<1> QED BY <1>1, UuidIsInductive, PTL

\* The generator implements the allocator of growing ids: no id is handed out twice,
\* whatever goroutines race for the counter and however the clock jumps.
THEOREM UuidImplementsAllocator == Spec => HandsOutGrowingIds
<1>1. Init => UuidInv /\ Allocator!Init
  BY UuidInit
<1>2. UuidInv /\ [Next]_vars => UuidInv' /\ [Allocator!Next]_handed
  BY UuidStep
<1> QED BY <1>1, <1>2, PTL DEF Spec, HandsOutGrowingIds, Allocator!Spec

\* The history grows in the order of the numbers, type by type.
Growing ==
    /\ handed \in Seq(Ids)
    /\ \A n \in 1 .. Len(handed) : \A m \in 1 .. n - 1 :
         handed[m].UuidType = handed[n].UuidType => Allocator!Below(handed[m], handed[n])

\* What the allocator hands out keeps the history growing.
LEMMA HandOutKeepsGrowing == Growing /\ [Allocator!Next]_handed => Growing'
<1> SUFFICES ASSUME Growing, [Allocator!Next]_handed PROVE Growing'
  OBVIOUS
<1>1. CASE UNCHANGED handed
  BY <1>1 DEF Growing
<1>2. ASSUME NEW y \in Type, Allocator!HandOut(y) PROVE Growing'
  <2>1. handed' \in Seq(Ids) /\ handed \in Seq(Ids) /\ Len(handed') \in Nat /\ Len(handed) \in Nat
    BY <1>2 DEF Allocator!HandOut, Allocator!Id, Ids, Growing
  <2>2. SUFFICES ASSUME NEW n \in 1 .. Len(handed'), NEW m \in 1 .. n - 1,
                        handed'[m].UuidType = handed'[n].UuidType
                 PROVE  Allocator!Below(handed'[m], handed'[n])
    BY <2>1 DEF Growing, Allocator!Below
  <2>3. CASE n <= Len(handed)
    <3>1. n \in 1 .. Len(handed) /\ m \in 1 .. Len(handed) /\ m \in 1 .. Len(handed') /\ m <= Len(handed)
      BY <2>1, <2>2, <2>3
    <3>2. handed'[n] = handed[n] /\ handed'[m] = handed[m]
      BY <3>1, <1>2, <2>3 DEF Allocator!HandOut
    <3> QED BY <3>1, <3>2, <2>2 DEF Growing
  <2>4. CASE ~(n <= Len(handed))
    BY <2>2, <2>4, <1>2 DEF Allocator!HandOut
  <2> QED BY <2>3, <2>4
<1> QED BY <1>1, <1>2 DEF Allocator!Next

\* No id is handed out twice, in one batch or in two, to one caller or to two.
NoIdTwice == \A m, n \in 1 .. Len(handed) : handed[m] = handed[n] => m = n

\* No id is handed out twice in a lifetime of the server, so the primary keys made from
\* the ids never collide (GenerateUuids).
THEOREM UuidRepeatsNoId == Spec => []NoIdTwice
<1>1. Init => UuidInv /\ Growing
  BY UuidInit, UuidAssumption DEF Init, Growing, Ids
<1>2. UuidInv /\ Growing /\ [Next]_vars => UuidInv' /\ Growing'
  BY UuidStep, HandOutKeepsGrowing
<1>3. Growing => NoIdTwice
  <2> SUFFICES ASSUME Growing, NEW m \in 1 .. Len(handed), NEW n \in 1 .. Len(handed), handed[m] = handed[n]
               PROVE  m = n
    BY DEF NoIdTwice
  <2>1. /\ handed[n] \in Ids /\ handed[n].UnixTime \in Nat /\ handed[n].SequentialId \in Int
        /\ m \in Nat /\ n \in Nat
    <3>1. handed \in Seq(Ids)
      BY DEF Growing
    <3>2. handed[n] \in Ids
      BY <3>1
    <3> QED BY <3>2, UuidAssumption DEF Ids
  <2>2. ~Allocator!Below(handed[n], handed[n])
    BY <2>1 DEF Allocator!Below
  <2>3. ~(m < n)
    BY <2>1, <2>2 DEF Growing
  <2>4. ~(n < m)
    BY <2>1, <2>2 DEF Growing
  <2> QED BY <2>1, <2>3, <2>4
<1> QED BY <1>1, <1>2, <1>3, PTL DEF Spec
=============================================================================
