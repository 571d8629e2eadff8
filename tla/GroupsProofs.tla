---------------------------- MODULE GroupsProofs ----------------------------
(***************************************************************************)
(* Proofs about Groups for any number of names, senders and slots.         *)
(*                                                                         *)
(* The invariant follows the slice.  The entry is the newest array, or the *)
(* one before while an attach has moved the names and not yet assigned the *)
(* entry (HeadersOk, Written).  Every name is in one slot, except that a   *)
(* detach has one slot to which it will move the next name: what stands    *)
(* there is the leaving name, or also in the slot before (Members,         *)
(* Moving).  A send reads an array that nobody writes to within the length *)
(* it ranges over, unless a detach does (Ranged); and whatever is in its   *)
(* array is a name that was in the group, or came or went since (Reads).   *)
(***************************************************************************)
EXTENDS Groups, SequenceTheorems, FiniteSetTheorems, TLAPS

Exclusive == \A m, n \in Adding \cup Removing : m = n

\* The array of a header has room for it; array 0 is no array.
Fits(h) ==
    /\ h.array = 0 <=> h.len = 0
    /\ h.array # 0 => h.len <= Len(arrays[h.array])

HeadersOk ==
    /\ next.array = Len(arrays)
    /\ Fits(entry) /\ Fits(next)
    /\ Adding = {} => entry = next
    /\ Adding # {} =>
          /\ next.len = entry.len + 1
          /\ \/ entry.array = next.array
             \/ /\ entry.array = next.array - 1
                /\ entry.array # 0 => entry.len = Len(arrays[entry.array])

\* The names stand in the newest array as in the entry, then the joining
\* name, if any, then nothing.
Written ==
    /\ \A i \in 1..entry.len : arrays[next.array][i] = arrays[entry.array][i]
    /\ \A n \in Adding : arrays[next.array][next.len] = n
    /\ next.array # 0 =>
          \A i \in 1..Len(arrays[next.array]) :
             i > next.len => arrays[next.array][i] = Hole

\* The slots S of an array hold every name at most once; they hold M.
Distinct(s, S) == \A i, j \in S : s[i] = s[j] /\ s[i] # Hole => i = j
Holds(s, S, M) ==
    /\ \A i \in S : s[i] \in M \cup {Hole}
    /\ \A m \in M : \E i \in S : s[i] = m

\* The slots of the entry but the one that a detach is about to fill.
Kept == {i \in 1..entry.len : Removing # {} => i # shift.to}

Members ==
    /\ Distinct(arrays[entry.array], Kept)
    /\ Holds(arrays[entry.array], Kept, belongs)
    /\ (Adding \cup Removing) \cap belongs = {}

Moving ==
    Removing # {} =>
        /\ shift.to \in 1..entry.len /\ shift.from = shift.to + 1
        /\ \/ arrays[entry.array][shift.to] \in Removing
           \/ /\ shift.to > 1
              /\ arrays[entry.array][shift.to - 1] = arrays[entry.array][shift.to]

Ranging(n) == pc[n] = "sending" /\ n \notin disturbed /\ iter[n].array # 0

\* What an undisturbed send ranges over, and what it has read of it.
Ranged(n) ==
    Ranging(n) =>
        LET s == arrays[iter[n].array]  l == iter[n].len IN
        /\ Removing # {} => iter[n].array # entry.array
        /\ l <= Len(s) /\ (iter[n].array = next.array => l <= next.len)
        /\ Distinct(s, 1..l) /\ Holds(s, 1..l, expect[n])
        /\ iter[n].at <= l + 1 /\ Len(got[n]) = iter[n].at - 1
        /\ \A i \in 1..iter[n].at - 1 : got[n][i] = s[i]

Known(n) == expect[n] \cup around[n] \cup {Hole}

\* What any send has read, and may still read.
Reads(n) ==
    /\ pc[n] # "sending" => got[n] = <<>>
    /\ pc[n] = "sending" =>
          /\ \A i \in 1..Len(got[n]) : got[n][i] \in Known(n) \cup {Garbled}
          /\ iter[n].array # 0 =>
                \A i \in 1..Len(arrays[iter[n].array]) :
                   arrays[iter[n].array][i] \in Known(n)

IInv ==
    /\ TypeOK /\ Exclusive /\ HeadersOk /\ Written /\ Members /\ Moving
    /\ \A n \in Names : Ranged(n) /\ Reads(n)

-----------------------------------------------------------------------------
(***************************************************************************)
(* Arrays.                                                                 *)
(***************************************************************************)

\* A write to slot k of array a changes this slot and nothing else.
LEMMA WriteFacts ==
    ASSUME NEW S, NEW s \in Seq(Seq(S)), NEW a \in 1..Len(s),
           NEW k \in 1..Len(s[a]), NEW v \in S,
           NEW t, t = [s EXCEPT ![a][k] = v]
    PROVE  /\ t \in Seq(Seq(S)) /\ Len(t) = Len(s)
           /\ \A b \in 1..Len(s) :
                 /\ Len(t[b]) = Len(s[b])
                 /\ b # a => t[b] = s[b]
           /\ \A i \in 1..Len(s[a]) : t[a][i] = IF i = k THEN v ELSE s[a][i]
<1> DEFINE r == [s[a] EXCEPT ![k] = v]
<1>1. s[a] \in Seq(S)
  BY ElementOfSeq
<1>2. /\ r \in Seq(S) /\ Len(r) = Len(s[a])
      /\ \A i \in 1..Len(s[a]) : r[i] = IF i = k THEN v ELSE s[a][i]
  BY <1>1, ExceptSeq
<1>3. t = [s EXCEPT ![a] = r]
  OBVIOUS
<1> HIDE DEF r
<1>4. /\ t \in Seq(Seq(S)) /\ Len(t) = Len(s)
      /\ \A b \in 1..Len(s) : t[b] = IF b = a THEN r ELSE s[b]
  BY <1>2, <1>3, ExceptSeq
<1>. QED
  BY <1>2, <1>4

\* The array into which n is moved with the names of the entry.
Moved(n) == [i \in 1..NewCapacity |->
                IF i <= entry.len THEN arrays[entry.array][i]
                ELSE IF i = entry.len + 1 THEN n ELSE Hole]

LEMMA MovedFacts ==
    ASSUME TypeOK, HeadersOk, NEW n \in Names, entry.len = Capacity
    PROVE  /\ Moved(n) \in Seq(Names \cup {Hole})
           /\ Len(Moved(n)) > entry.len
           /\ \A i \in 1..Len(Moved(n)) :
                 Moved(n)[i] = IF i <= entry.len THEN arrays[entry.array][i]
                               ELSE IF i = entry.len + 1 THEN n ELSE Hole
<1>1. entry.array \in 0..Len(arrays) /\ entry.len \in Nat
  BY GroupsAssumption DEF TypeOK, Headers
<1>2. entry.array # 0 => arrays[entry.array] \in Seq(Names \cup {Hole})
  BY <1>1, ElementOfSeq DEF TypeOK
<1>3. entry.array = 0 => entry.len = 0
  BY DEF HeadersOk, Fits
<1>4. NewCapacity \in Nat /\ NewCapacity > entry.len
  BY <1>1, <1>2, <1>3 DEF NewCapacity, Capacity
<1>5. \A i \in 1..entry.len : arrays[entry.array][i] \in Names \cup {Hole}
  BY <1>1, <1>2, <1>3, ElementOfSeq DEF Capacity
<1>6. Moved(n) \in [1..NewCapacity -> Names \cup {Hole}]
  BY <1>4, <1>5 DEF Moved
<1>7. Moved(n) \in Seq(Names \cup {Hole}) /\ Len(Moved(n)) = NewCapacity
  BY <1>4, <1>6
<1>. QED
  BY <1>1, <1>4, <1>7 DEF Moved

\* The inductive invariant holds before anybody attaches.
LEMMA InitIInv == Init => IInv
<1> SUFFICES ASSUME Init PROVE IInv
  OBVIOUS
<1>1. TypeOK
  <2>1. <<>> \in Seq(Seq(Names \cup {Hole})) /\ Len(<<>>) = 0
    BY EmptySeq
  <2>2. <<>> \in Seq(Names \cup {Hole, Garbled})
    BY EmptySeq
  <2>3. entry \in Headers /\ next = entry /\ entry.array = 0
    BY <2>1, GroupsAssumption DEF Init, Headers
  <2>4. /\ iter \in [Names -> [array : 0..Len(arrays), len : 0..MaxLen,
                               at : 1..MaxLen + 1]]
        /\ shift \in [to : 0..MaxLen, from : 0..MaxLen + 1]
    BY <2>1, GroupsAssumption DEF Init
  <2>5. got \in [Names -> Seq(Names \cup {Hole, Garbled})]
    BY <2>2 DEF Init
  <2>. QED
    BY <2>1, <2>3, <2>4, <2>5 DEF Init, TypeOK
<1>2. Adding = {} /\ Removing = {}
  BY DEF Init, Adding, Removing
<1>3. Exclusive /\ HeadersOk /\ Written /\ Moving
  BY <1>2 DEF Init, Exclusive, HeadersOk, Fits, Written, Moving
<1>4. Members
  BY <1>2 DEF Init, Members, Distinct, Holds, Kept
<1>5. ASSUME NEW n \in Names PROVE Ranged(n) /\ Reads(n)
  BY DEF Init, Ranged, Ranging, Reads
<1>. QED
  BY <1>1, <1>3, <1>4, <1>5 DEF IInv
-----------------------------------------------------------------------------
(***************************************************************************)
(* AddToGroup.                                                             *)
(***************************************************************************)

\* What both ways of append do: n stands behind the names of the entry, in
\* the newest array; no other slot of an array in use is written.
Appends(n) ==
    /\ arrays' \in Seq(Seq(Names \cup {Hole})) /\ Len(arrays) <= Len(arrays')
    /\ next' \in [array : 1..Len(arrays'), len : 1..MaxLen]
    /\ next'.array = Len(arrays') /\ next'.len = entry.len + 1
    /\ next'.len <= Len(arrays'[next'.array])
    /\ \/ next'.array = entry.array
       \/ /\ next'.array = entry.array + 1
          /\ entry.array # 0 => entry.len = Len(arrays[entry.array])
    /\ \A i \in 1..Len(arrays'[next'.array]) :
          arrays'[next'.array][i] = IF i <= entry.len THEN arrays[entry.array][i]
                                    ELSE IF i = next'.len THEN n ELSE Hole
    /\ \A b \in 1..Len(arrays) :
          /\ Len(arrays'[b]) = Len(arrays[b])
          /\ \A i \in 1..Len(arrays[b]) :
                (b = next'.array /\ i = next'.len) \/ arrays'[b][i] = arrays[b][i]

LEMMA AppendInPlaceAppends ==
    ASSUME TypeOK, HeadersOk, Written, entry = next, entry.len < MaxLen,
           NEW n \in Names, AppendInPlace(n)
    PROVE  Appends(n)
<1> DEFINE a == entry.array  k == entry.len + 1
<1>1. entry.array \in 0..Len(arrays) /\ entry.len \in 0..MaxLen /\ MaxLen \in Nat
  BY GroupsAssumption DEF TypeOK, Headers
<1>2. a # 0 /\ k <= Len(arrays[a])
  BY <1>1 DEF AppendInPlace, Capacity
<1>3. a \in 1..Len(arrays) /\ k \in 1..Len(arrays[a])
  <2>1. arrays[a] \in Seq(Names \cup {Hole})
    BY <1>1, <1>2, ElementOfSeq DEF TypeOK
  <2>. QED
    BY <1>1, <1>2, <2>1
<1>4. /\ arrays' \in Seq(Seq(Names \cup {Hole})) /\ Len(arrays') = Len(arrays)
      /\ \A b \in 1..Len(arrays) : /\ Len(arrays'[b]) = Len(arrays[b])
                                   /\ b # a => arrays'[b] = arrays[b]
      /\ \A i \in 1..Len(arrays[a]) : arrays'[a][i] = IF i = k THEN n ELSE arrays[a][i]
  <2>1. arrays' = [arrays EXCEPT ![a][k] = n]
    BY DEF AppendInPlace
  <2>. HIDE DEF a, k
  <2>. QED
    BY <1>3, <2>1, WriteFacts DEF TypeOK
<1>5. /\ next' \in [array : 1..Len(arrays), len : 1..MaxLen]
      /\ next'.array = a /\ next'.len = k
  <2>1. next' = [entry EXCEPT !.len = @ + 1]
    BY DEF AppendInPlace
  <2>2. entry \in [array : 0..Len(arrays), len : 0..MaxLen]
    BY DEF TypeOK, Headers
  <2>. QED
    BY <1>1, <1>3, <2>1, <2>2
<1>6. a = Len(arrays) /\ \A i \in 1..Len(arrays[a]) : i > entry.len => arrays[a][i] = Hole
  BY <1>2 DEF HeadersOk, Written
<1>7. \A b \in 1..Len(arrays) : \A i \in 1..Len(arrays[b]) :
         (b = next'.array /\ i = next'.len) \/ arrays'[b][i] = arrays[b][i]
  BY <1>4, <1>5
<1>8. \A i \in 1..Len(arrays'[next'.array]) :
         arrays'[next'.array][i] = IF i <= entry.len THEN arrays[entry.array][i]
                                   ELSE IF i = next'.len THEN n ELSE Hole
  BY <1>1, <1>3, <1>4, <1>5, <1>6
<1>. QED
  BY <1>1, <1>2, <1>3, <1>4, <1>5, <1>6, <1>7, <1>8 DEF Appends

LEMMA AppendMovingAppends ==
    ASSUME TypeOK, HeadersOk, Written, entry = next, entry.len < MaxLen,
           NEW n \in Names, AppendMoving(n)
    PROVE  Appends(n)
<1> DEFINE v == Len(arrays) + 1
<1>1. /\ entry.array \in 0..Len(arrays) /\ entry.len \in 0..MaxLen /\ MaxLen \in Nat
      /\ Len(arrays) \in Nat
  BY GroupsAssumption DEF TypeOK, Headers
<1>2. entry.len = Capacity /\ arrays' = Append(arrays, Moved(n))
  BY DEF AppendMoving, Moved
<1>3. /\ Moved(n) \in Seq(Names \cup {Hole})
      /\ Len(Moved(n)) > entry.len
      /\ \A i \in 1..Len(Moved(n)) :
            Moved(n)[i] = IF i <= entry.len THEN arrays[entry.array][i]
                          ELSE IF i = entry.len + 1 THEN n ELSE Hole
  BY <1>2, MovedFacts
<1>4. /\ arrays' \in Seq(Seq(Names \cup {Hole})) /\ Len(arrays') = v
      /\ arrays'[v] = Moved(n)
      /\ \A b \in 1..Len(arrays) : arrays'[b] = arrays[b]
  BY <1>2, <1>3, AppendProperties DEF TypeOK
<1>5. /\ next' \in [array : 1..v, len : 1..MaxLen]
      /\ next'.array = v /\ next'.len = entry.len + 1
  BY <1>1 DEF AppendMoving
<1>6. /\ entry.array = Len(arrays)
      /\ entry.array # 0 => entry.len = Len(arrays[entry.array])
  BY <1>2 DEF HeadersOk, Capacity
<1>7. next'.len <= Len(arrays'[next'.array])
  <2>1. Len(Moved(n)) \in Nat
    BY <1>3
  <2>. QED
    BY <1>1, <1>3, <1>4, <1>5, <2>1
<1> HIDE DEF v
<1>. QED
  BY <1>1, <1>3, <1>4, <1>5, <1>6, <1>7 DEF Appends, v
\* The types and headers are right while n is being added.
LEMMA AttachHeaders ==
    ASSUME IInv, NEW n \in Names, Attach(n)
    PROVE  /\ Appends(n) /\ entry = next /\ n \notin belongs
           /\ Adding = {} /\ Removing = {} /\ Adding' = {n} /\ Removing' = {}
           /\ TypeOK' /\ Exclusive' /\ HeadersOk' /\ Written' /\ Moving'
           /\ \A i \in 1..entry.len : arrays'[entry.array][i] = arrays[entry.array][i]
<1>1. Adding = {} /\ Removing = {} /\ entry = next /\ pc[n] = "idle" /\ entry.len < MaxLen
  BY DEF Attach, Locked, IInv, HeadersOk
<1>2. Appends(n)
  BY <1>1, AppendInPlaceAppends, AppendMovingAppends DEF Attach, IInv
<1>3. n \notin belongs
  <2>1. SUFFICES ASSUME n \in belongs PROVE FALSE
    OBVIOUS
  <2>2. PICK i \in 1..entry.len : arrays[entry.array][i] = n
    BY <2>1 DEF IInv, Members, Holds, Kept
  <2>3. entry.array # 0
    BY <2>2 DEF IInv, HeadersOk, Fits, TypeOK, Headers
  <2>. QED
    BY <2>2, <2>3 DEF Attach, Slice, Slots
<1>4. Adding' = {n} /\ Removing' = {} /\ pc' = [pc EXCEPT ![n] = "adding"]
  BY <1>1 DEF Attach, Adding, Removing, IInv, TypeOK
<1>5. /\ Len(arrays) \in Nat /\ Len(arrays') \in Nat
      /\ entry \in [array : 0..Len(arrays), len : 0..MaxLen] /\ MaxLen \in Nat
  BY <1>2, GroupsAssumption DEF Appends, IInv, TypeOK, Headers
<1>6. TypeOK'
  <2>1. next' \in Headers' /\ entry' \in Headers'
    BY <1>2, <1>5 DEF Appends, Attach, Headers
  <2>2. iter' \in [Names -> [array : 0..Len(arrays'), len : 0..MaxLen,
                             at : 1..MaxLen + 1]]
    <3>1. \A k \in 0..Len(arrays) : k \in 0..Len(arrays')
      BY <1>2, <1>5 DEF Appends
    <3>2. iter' = iter
      BY DEF Attach, sendVars
    <3>. QED
      BY <3>1, <3>2 DEF IInv, TypeOK
  <2>3. around' \in [Names -> SUBSET Names]
    BY DEF Attach, Around, IInv, TypeOK
  <2>4. /\ arrays' \in Seq(Seq(Names \cup {Hole}))
        /\ next'.array # 0 => next'.len <= Len(arrays'[next'.array])
    BY <1>2 DEF Appends
  <2>5. pc' \in [Names -> {"idle", "adding", "removing", "sending"}]
    BY <1>4 DEF IInv, TypeOK
  <2>6. UNCHANGED <<shift, got, belongs, expect, disturbed, dead>>
    BY DEF Attach, sendVars
  <2>. QED
    BY <2>1, <2>2, <2>3, <2>4, <2>5, <2>6 DEF IInv, TypeOK
<1>7. HeadersOk' /\ Exclusive' /\ Moving'
  <2>1. Fits(entry)' /\ Fits(next)'
    BY <1>2, <1>5 DEF Appends, Attach, IInv, HeadersOk, Fits
  <2>2. (entry.array # 0 => entry.len = Len(arrays[entry.array]))
           => (entry.array # 0 => entry.len = Len(arrays[entry.array]))'
    BY <1>2, <1>5 DEF Appends, Attach
  <2>. QED
    BY <1>2, <1>4, <1>5, <2>1, <2>2 DEF Appends, Attach, HeadersOk, Exclusive, Moving
<1>8. \A i \in 1..entry.len : arrays'[entry.array][i] = arrays[entry.array][i]
  <2>1. SUFFICES ASSUME NEW i \in 1..entry.len
                 PROVE  arrays'[entry.array][i] = arrays[entry.array][i]
    OBVIOUS
  <2>2. entry.array \in 1..Len(arrays) /\ i \in 1..Len(arrays[entry.array])
    <3>1. entry.array # 0 /\ entry.len <= Len(arrays[entry.array])
      BY <1>5, <2>1 DEF IInv, HeadersOk, Fits
    <3>2. entry.array \in 1..Len(arrays)
      BY <1>5, <3>1
    <3>3. Len(arrays[entry.array]) \in Nat
      BY <3>2, ElementOfSeq DEF IInv, TypeOK
    <3>. QED
      BY <1>5, <3>1, <3>2, <3>3
  <2>3. (entry.array = next'.array /\ i = next'.len)
             \/ arrays'[entry.array][i] = arrays[entry.array][i]
    BY <1>2, <2>2 DEF Appends
  <2>. QED
    BY <1>2, <1>5, <2>3 DEF Appends
<1>9. Written'
  <2>1. entry' = entry /\ entry.len \in Nat /\ next'.len = entry.len + 1
    BY <1>2, <1>5 DEF Appends, Attach
  <2>2. /\ next'.len <= Len(arrays'[next'.array])
        /\ \A i \in 1..Len(arrays'[next'.array]) :
              arrays'[next'.array][i] = IF i <= entry.len THEN arrays[entry.array][i]
                                        ELSE IF i = next'.len THEN n ELSE Hole
    BY <1>2 DEF Appends
  <2>3. Len(arrays'[next'.array]) \in Nat
    BY <1>2, ElementOfSeq DEF Appends
  <2>. QED
    BY <1>4, <1>8, <2>1, <2>2, <2>3 DEF Written
<1>. QED
  BY <1>1, <1>2, <1>3, <1>4, <1>6, <1>7, <1>8, <1>9

\* An attach preserves the inductive invariant: it writes behind what the
\* entry and the sends under way can see, or into an array of its own.
LEMMA AttachStep ==
    ASSUME IInv, NEW n \in Names, Attach(n)
    PROVE  IInv'
<1>1. /\ Appends(n) /\ entry = next /\ n \notin belongs
      /\ Adding = {} /\ Removing = {} /\ Adding' = {n} /\ Removing' = {}
      /\ TypeOK' /\ Exclusive' /\ HeadersOk' /\ Written' /\ Moving'
      /\ \A i \in 1..entry.len : arrays'[entry.array][i] = arrays[entry.array][i]
  BY AttachHeaders
<1>2. /\ entry' = entry /\ belongs' = belongs /\ disturbed' = disturbed
      /\ iter' = iter /\ got' = got /\ expect' = expect
      /\ pc' = [pc EXCEPT ![n] = "adding"] /\ pc[n] = "idle"
  BY DEF Attach, sendVars
<1>3. Len(arrays) \in Nat /\ entry \in [array : 0..Len(arrays), len : 0..MaxLen]
  BY DEF IInv, TypeOK, Headers
<1>4. Members'
  <2>1. Kept' = 1..entry.len /\ Kept = 1..entry.len
    BY <1>1, <1>2 DEF Kept
  <2>. QED
    BY <1>1, <1>2, <2>1 DEF IInv, Members, Distinct, Holds
<1>5. ASSUME NEW m \in Names
      PROVE  Ranged(m)'
  <2>1. SUFFICES ASSUME Ranging(m)' PROVE Ranged(m)'
    BY DEF Ranged
  <2>2. Ranging(m) /\ Ranged(m)
    BY <1>2, <2>1 DEF Ranging, IInv, TypeOK
  <2> DEFINE a == iter[m].array  l == iter[m].len
  <2>3. a \in 1..Len(arrays) /\ l \in Nat /\ l <= Len(arrays[a])
    BY <2>2 DEF Ranging, Ranged, IInv, TypeOK
  <2>4. a = next'.array => l <= entry.len /\ l <= next'.len
    BY <1>1, <1>3, <2>2, <2>3 DEF Ranged, Appends, IInv, HeadersOk
  <2>5. ASSUME NEW i \in 1..l
        PROVE  arrays'[a][i] = arrays[a][i]
    <3>1. i \in 1..Len(arrays[a])
      <4>1. Len(arrays[a]) \in Nat
        BY <2>3, ElementOfSeq DEF IInv, TypeOK
      <4>. QED
        BY <2>3, <4>1
    <3>2. (a = next'.array /\ i = next'.len) \/ arrays'[a][i] = arrays[a][i]
      BY <1>1, <2>3, <3>1 DEF Appends
    <3>3. next'.len = entry.len + 1
      BY <1>1 DEF Appends
    <3>. QED
      BY <1>3, <2>3, <2>4, <3>2, <3>3
  <2>6. Len(arrays'[a]) = Len(arrays[a])
    BY <1>1, <2>3 DEF Appends
  <2>7. Removing' = {} /\ expect'[m] = expect[m] /\ iter'[m] = iter[m] /\ got'[m] = got[m]
    BY <1>1, <1>2
  <2>8. /\ Distinct(arrays[a], 1..l) /\ Holds(arrays[a], 1..l, expect[m])
        /\ iter[m].at <= l + 1 /\ Len(got[m]) = iter[m].at - 1
        /\ \A i \in 1..iter[m].at - 1 : got[m][i] = arrays[a][i]
    BY <2>2 DEF Ranged
  <2>9. Distinct(arrays'[a], 1..l) /\ Holds(arrays'[a], 1..l, expect[m])
    BY <2>5, <2>8 DEF Distinct, Holds
  <2>10. \A i \in 1..iter[m].at - 1 : got[m][i] = arrays'[a][i]
    <3> SUFFICES ASSUME NEW i \in 1..iter[m].at - 1
                 PROVE  got[m][i] = arrays'[a][i]
      OBVIOUS
    <3>1. iter[m].at \in Nat
      BY DEF IInv, TypeOK
    <3>2. l \in Nat /\ iter[m].at <= l + 1 /\ got[m][i] = arrays[a][i]
      BY <2>3, <2>8
    <3> HIDE DEF a, l
    <3>3. i \in 1..l
      BY <3>1, <3>2
    <3>. QED
      BY <2>5, <3>2, <3>3
  <2> HIDE DEF a, l
  <2>. QED
    BY <2>3, <2>4, <2>6, <2>7, <2>8, <2>9, <2>10 DEF Ranged, a, l
<1>6. ASSUME NEW m \in Names
      PROVE  Reads(m)'
  <2>1. CASE pc'[m] # "sending"
    BY <1>2, <2>1 DEF Reads, IInv, TypeOK
  <2>2. CASE pc'[m] = "sending"
    <3> DEFINE a == iter[m].array
    <3>1. pc[m] = "sending" /\ Reads(m) /\ Known(m)' = Known(m) \cup {n}
      BY <1>2, <2>2 DEF Attach, Around, Known, IInv, TypeOK
    <3>2. ASSUME a # 0, NEW i \in 1..Len(arrays'[a])
          PROVE  arrays'[a][i] \in Known(m)'
      <4>1. a \in 1..Len(arrays)
        BY <3>2 DEF IInv, TypeOK
      <4>2. Len(arrays'[a]) = Len(arrays[a])
        BY <1>1, <4>1 DEF Appends
      <4>3. (a = next'.array /\ i = next'.len) \/ arrays'[a][i] = arrays[a][i]
        BY <1>1, <3>2, <4>1, <4>2 DEF Appends
      <4>4. CASE a = next'.array /\ i = next'.len
        BY <1>1, <1>3, <3>1, <3>2, <4>4 DEF Appends
      <4>5. CASE arrays'[a][i] = arrays[a][i]
        BY <3>1, <3>2, <4>2, <4>5 DEF Reads
      <4>. QED
        BY <4>3, <4>4, <4>5
    <3>3. \A i \in 1..Len(got[m]) : got[m][i] \in Known(m)' \cup {Garbled}
      BY <3>1 DEF Reads
    <3> HIDE DEF a
    <3>. QED
      BY <1>2, <2>2, <3>2, <3>3 DEF Reads, a
  <2>. QED
    BY <2>1, <2>2
<1>. QED
  BY <1>1, <1>4, <1>5, <1>6 DEF IInv
\* The entry is assigned: now it holds n as well.
LEMMA AttachDoneStep ==
    ASSUME IInv, NEW n \in Names, AttachDone(n)
    PROVE  IInv'
<1>1. Adding = {n} /\ Removing = {} /\ Adding' = {} /\ Removing' = {}
  BY DEF AttachDone, IInv, TypeOK, Exclusive, Adding, Removing
<1>2. /\ entry' = next /\ next' = next /\ arrays' = arrays /\ belongs' = belongs \cup {n}
      /\ iter' = iter /\ got' = got /\ expect' = expect /\ around' = around
      /\ disturbed' = disturbed /\ pc' = [pc EXCEPT ![n] = "idle"]
      /\ pc[n] = "adding"
  BY DEF AttachDone, sendVars
<1>3. entry \in [array : 0..Len(arrays), len : 0..MaxLen] /\ MaxLen \in Nat
  BY GroupsAssumption DEF IInv, TypeOK, Headers
<1>4. TypeOK'
  BY <1>2 DEF AttachDone, IInv, TypeOK, Headers
<1>5. Exclusive' /\ HeadersOk' /\ Moving'
  BY <1>1, <1>2 DEF IInv, HeadersOk, Fits, Exclusive, Moving
<1>6. Written'
  BY <1>1, <1>2 DEF IInv, Written
<1>7. Members'
  <2> DEFINE s == arrays[next.array]  o == arrays[entry.array]
  <2>1. Kept' = 1..next.len /\ Kept = 1..entry.len /\ next.len = entry.len + 1
    BY <1>1, <1>2 DEF Kept, IInv, HeadersOk
  <2>2. /\ \A i \in 1..entry.len : s[i] = o[i]
        /\ s[next.len] = n /\ n \notin belongs
    BY <1>1 DEF IInv, Written, Members
  <2>3. Distinct(o, 1..entry.len) /\ Holds(o, 1..entry.len, belongs)
    BY <2>1 DEF IInv, Members
  <2>4. \A i \in 1..next.len : i \in 1..entry.len \/ i = next.len
    BY <1>3, <2>1
  <2>5. next.len \in 1..next.len /\ \A i \in 1..entry.len : i \in 1..next.len
    BY <1>3, <2>1
  <2>6. \A i \in 1..entry.len : s[i] \in belongs \cup {Hole} /\ s[i] # n
    BY <2>2, <2>3, GroupsAssumption DEF Holds
  <2> HIDE DEF s, o
  <2>7. Distinct(s, 1..next.len)
    BY <2>2, <2>3, <2>4, <2>6 DEF Distinct
  <2>8. Holds(s, 1..next.len, belongs \cup {n})
    BY <2>2, <2>3, <2>4, <2>5, <2>6 DEF Holds
  <2>. QED
    BY <1>1, <1>2, <2>1, <2>7, <2>8 DEF Members, s
<1>8. ASSUME NEW m \in Names
      PROVE  Ranged(m)' /\ Reads(m)'
  <2>1. pc'[m] = "sending" <=> pc[m] = "sending"
    BY <1>2 DEF IInv, TypeOK
  <2>2. Ranged(m) /\ Reads(m)
    BY DEF IInv
  <2>3. Ranged(m)'
    BY <1>1, <1>2, <2>1, <2>2 DEF Ranged, Ranging
  <2>4. Reads(m)'
    BY <1>2, <2>1, <2>2 DEF Reads, Known
  <2>. QED
    BY <2>3, <2>4
<1>. QED
  BY <1>4, <1>5, <1>6, <1>7, <1>8 DEF IInv

-----------------------------------------------------------------------------
(***************************************************************************)
(* RemoveFromGroup.                                                        *)
(***************************************************************************)

\* A detach begins: n has one slot, and the other slots hold the others.
LEMMA DetachStep ==
    ASSUME IInv, NEW n \in Names, Detach(n)
    PROVE  IInv' /\ n \in belongs
<1>1. /\ Adding = {} /\ Removing = {} /\ pc[n] = "idle" /\ pc' = [pc EXCEPT ![n] = "removing"]
      /\ arrays' = arrays /\ entry' = entry /\ next' = next /\ iter' = iter
      /\ got' = got /\ expect' = expect /\ belongs' = belongs \ {n}
      /\ disturbed' = disturbed \cup
            {m \in Names : pc[m] = "sending" /\ iter[m].array = entry.array}
  BY DEF Detach, Locked, sendVars
<1>2. Adding' = {} /\ Removing' = {n}
  BY <1>1 DEF Adding, Removing, IInv, TypeOK
<1>3. PICK k \in 1..entry.len : /\ entry.array # 0 /\ arrays[entry.array][k] = n
                                /\ shift' = [to |-> k, from |-> k + 1]
  BY DEF Detach, Slots
<1>4. entry \in [array : 0..Len(arrays), len : 0..MaxLen] /\ MaxLen \in Nat
  BY GroupsAssumption DEF IInv, TypeOK, Headers
<1>5. TypeOK'
  <2>1. shift' \in [to : 0..MaxLen, from : 0..MaxLen + 1]
    BY <1>3, <1>4
  <2>2. around' \in [Names -> SUBSET Names]
    BY DEF Detach, Around, IInv, TypeOK
  <2>3. disturbed' \in SUBSET Names
    BY <1>1 DEF IInv, TypeOK
  <2>4. pc' \in [Names -> {"idle", "adding", "removing", "sending"}]
    BY <1>1 DEF IInv, TypeOK
  <2>5. dead' = dead
    BY DEF Detach
  <2>. QED
    BY <1>1, <2>1, <2>2, <2>3, <2>4, <2>5 DEF IInv, TypeOK, Headers
<1>6. HeadersOk' /\ Written' /\ Exclusive'
  BY <1>1, <1>2 DEF IInv, HeadersOk, Fits, Written, Exclusive
<1>7. shift'.to = k /\ shift'.from = k + 1
  BY <1>3
<1>8. Moving'
  BY <1>1, <1>2, <1>3, <1>7 DEF Moving
<1>9. Members' /\ n \in belongs
  <2> DEFINE s == arrays[entry.array]
  <2>1. Kept = 1..entry.len /\ Kept' = {i \in 1..entry.len : i # k}
    BY <1>1, <1>2, <1>7 DEF Kept
  <2>2. Distinct(s, 1..entry.len) /\ Holds(s, 1..entry.len, belongs) /\ s[k] = n
    BY <1>3, <2>1 DEF IInv, Members
  <2> HIDE DEF s
  <2>3. n \in belongs
    BY <2>2, GroupsAssumption DEF Holds
  <2>4. \A i \in Kept' : s[i] # n
    BY <2>1, <2>2, GroupsAssumption DEF Distinct
  <2>5. Distinct(s, Kept')
    BY <2>1, <2>2 DEF Distinct
  <2>6. Holds(s, Kept', belongs \ {n})
    BY <2>1, <2>2, <2>4 DEF Holds
  <2>. QED
    BY <1>1, <1>2, <2>3, <2>5, <2>6 DEF Members, s
<1>10. ASSUME NEW m \in Names
       PROVE  Ranged(m)' /\ Reads(m)'
  <2>1. pc'[m] = "sending" <=> pc[m] = "sending"
    BY <1>1 DEF IInv, TypeOK
  <2>2. Ranged(m) /\ Reads(m)
    BY DEF IInv
  <2>3. Ranged(m)'
    BY <1>1, <2>1, <2>2 DEF Ranged, Ranging
  <2>4. Known(m) \subseteq Known(m)'
    BY <1>1 DEF Known, Detach, Around, IInv, TypeOK
  <2>5. Reads(m)'
    BY <1>1, <2>1, <2>2, <2>4 DEF Reads
  <2>. QED
    BY <2>3, <2>5
<1>. QED
  BY <1>5, <1>6, <1>8, <1>9, <1>10 DEF IInv
\* A detach writes to one slot k of the entry: nothing, or what another slot
\* of it holds.
Overwrites(k, v) ==
    /\ Adding = {} /\ Removing # {} /\ Adding' = {} /\ Removing' \subseteq Removing
    /\ k \in 1..entry.len
    /\ v = Hole \/ \E j \in 1..entry.len : v = arrays[entry.array][j]
    /\ arrays' = [arrays EXCEPT ![entry.array][k] = v]
    /\ \A m \in Names : pc'[m] = "sending" <=> pc[m] = "sending"
    /\ UNCHANGED <<entry, next, sendVars, belongs, around, disturbed, dead>>

\* Then the headers stay right, an undisturbed send does not see it, and no
\* send sees a name that it could not have seen before.
LEMMA OverwriteStep ==
    ASSUME IInv, NEW k, NEW v, Overwrites(k, v)
    PROVE  /\ arrays' \in Seq(Seq(Names \cup {Hole})) /\ Len(arrays') = Len(arrays)
           /\ \A i \in 1..entry.len :
                 arrays'[entry.array][i] = IF i = k THEN v ELSE arrays[entry.array][i]
           /\ HeadersOk' /\ Written' /\ (Adding' \cup Removing') \cap belongs' = {}
           /\ \A m \in Names : Ranged(m)' /\ Reads(m)'
<1> DEFINE a == entry.array
<1>1. entry \in [array : 0..Len(arrays), len : 0..MaxLen] /\ entry = next /\ MaxLen \in Nat
  BY GroupsAssumption DEF Overwrites, IInv, TypeOK, Headers, HeadersOk
<1>2. a \in 1..Len(arrays) /\ entry.len \in Nat /\ k \in 1..entry.len
  BY <1>1 DEF Overwrites, IInv, HeadersOk, Fits
<1>3. arrays[a] \in Seq(Names \cup {Hole}) /\ entry.len <= Len(arrays[a])
  BY <1>1, <1>2, ElementOfSeq DEF IInv, TypeOK, HeadersOk, Fits
<1>4. k \in 1..Len(arrays[a]) /\ \A i \in 1..entry.len : i \in 1..Len(arrays[a])
  BY <1>2, <1>3
<1>5. v = Hole \/ \E j \in 1..Len(arrays[a]) : v = arrays[a][j]
  BY <1>4 DEF Overwrites
<1>6. v \in Names \cup {Hole}
  BY <1>3, <1>5, ElementOfSeq
<1>7. /\ arrays' \in Seq(Seq(Names \cup {Hole})) /\ Len(arrays') = Len(arrays)
      /\ \A b \in 1..Len(arrays) : /\ Len(arrays'[b]) = Len(arrays[b])
                                   /\ b # a => arrays'[b] = arrays[b]
      /\ \A i \in 1..Len(arrays[a]) : arrays'[a][i] = IF i = k THEN v ELSE arrays[a][i]
  <2>1. arrays' = [arrays EXCEPT ![a][k] = v]
    BY DEF Overwrites
  <2>. HIDE DEF a
  <2>. QED
    BY <1>2, <1>4, <1>6, <2>1, WriteFacts DEF IInv, TypeOK
<1>8. HeadersOk'
  BY <1>1, <1>2, <1>7 DEF Overwrites, IInv, HeadersOk, Fits
<1>9. Written'
  <2>1. \A i \in 1..Len(arrays[a]) : i > next.len => arrays'[a][i] = Hole
    BY <1>1, <1>2, <1>7 DEF IInv, Written
  <2>. QED
    BY <1>1, <1>2, <1>7, <2>1 DEF Overwrites, Written
<1>10. (Adding' \cup Removing') \cap belongs' = {}
  BY DEF Overwrites, IInv, Members
<1>11. ASSUME NEW m \in Names
       PROVE  Ranged(m)'
  <2>1. SUFFICES ASSUME Ranging(m)' PROVE Ranged(m)'
    BY DEF Ranged
  <2>2. /\ Ranging(m) /\ Ranged(m) /\ iter' = iter /\ got' = got /\ expect' = expect
        /\ entry' = entry /\ next' = next
    BY <2>1 DEF Ranging, IInv, Overwrites, sendVars
  <2> DEFINE b == iter[m].array
  <2>3. b \in 1..Len(arrays) /\ b # a
    BY <2>2 DEF Ranging, Ranged, IInv, TypeOK, Overwrites
  <2>4. arrays'[b] = arrays[b]
    BY <1>7, <2>3
  <2>. QED
    BY <2>2, <2>3, <2>4 DEF Ranged
<1>12. ASSUME NEW m \in Names
       PROVE  Reads(m)'
  <2>1. /\ iter' = iter /\ got' = got /\ Known(m)' = Known(m) /\ Reads(m)
        /\ pc'[m] = "sending" <=> pc[m] = "sending"
    BY DEF Overwrites, sendVars, Known, IInv
  <2>2. ASSUME pc[m] = "sending", iter[m].array # 0,
               NEW i \in 1..Len(arrays'[iter[m].array])
        PROVE  arrays'[iter[m].array][i] \in Known(m)
    <3>1. iter[m].array \in 1..Len(arrays)
      BY <2>2 DEF IInv, TypeOK
    <3>2. \A j \in 1..Len(arrays[iter[m].array]) :
             arrays[iter[m].array][j] \in Known(m)
      BY <2>1, <2>2 DEF Reads
    <3>3. v = Hole => v \in Known(m)
      BY DEF Known
    <3> HIDE DEF a
    <3>4. CASE iter[m].array = a
      BY <1>5, <1>7, <2>2, <3>1, <3>2, <3>3, <3>4
    <3>5. CASE iter[m].array # a
      BY <1>7, <2>2, <3>1, <3>2, <3>5
    <3>. QED
      BY <3>4, <3>5
  <2>. QED
    BY <2>1, <2>2 DEF Reads
<1>. QED
  BY <1>4, <1>7, <1>8, <1>9, <1>10, <1>11, <1>12

\* A name moves one slot forward; the slot it comes from is the next to fill.
LEMMA DetachShiftStep ==
    ASSUME IInv, NEW n \in Names, DetachShift(n)
    PROVE  IInv'
<1> DEFINE s == arrays[entry.array]  t == arrays'[entry.array]  k == shift.to
<1>1. /\ Removing = {n} /\ Adding = {} /\ Removing' = {n} /\ Adding' = {} /\ pc' = pc
      /\ entry' = entry /\ belongs' = belongs
  BY DEF DetachShift, IInv, TypeOK, Exclusive, Adding, Removing
<1>2. /\ k \in 1..entry.len /\ shift.from = k + 1 /\ k + 1 \in 1..entry.len
      /\ entry.len \in 0..MaxLen /\ MaxLen \in Nat
  BY <1>1, GroupsAssumption DEF DetachShift, IInv, Moving, TypeOK, Headers
<1>3. shift' = [to |-> k + 1, from |-> k + 2]
  BY <1>2 DEF DetachShift
<1>4. Overwrites(k, s[k + 1])
  BY <1>1, <1>2 DEF DetachShift, Overwrites
<1>5. /\ arrays' \in Seq(Seq(Names \cup {Hole})) /\ Len(arrays') = Len(arrays)
      /\ \A i \in 1..entry.len : t[i] = IF i = k THEN s[k + 1] ELSE s[i]
      /\ HeadersOk' /\ Written' /\ (Adding' \cup Removing') \cap belongs' = {}
      /\ \A m \in Names : Ranged(m)' /\ Reads(m)'
  BY <1>4, OverwriteStep
<1>6. TypeOK'
  <2>1. shift' \in [to : 0..MaxLen, from : 0..MaxLen + 1]
    BY <1>2, <1>3
  <2>2. (next.array # 0 => next.len <= Len(arrays[next.array]))'
    BY <1>5 DEF HeadersOk, Fits
  <2>3. UNCHANGED <<entry, next, iter, got, expect, pc, belongs, around, disturbed, dead>>
    BY DEF DetachShift, sendVars
  <2>. QED
    BY <1>5, <2>1, <2>2, <2>3 DEF IInv, TypeOK, Headers
<1>7. Exclusive'
  BY <1>1 DEF Exclusive
<1>8. Kept = {i \in 1..entry.len : i # k} /\ Kept' = {i \in 1..entry.len : i # k + 1}
  BY <1>1, <1>3 DEF Kept
<1>9. Moving'
  <2>1. shift'.to = k + 1 /\ shift'.from = (k + 1) + 1
    BY <1>2, <1>3
  <2> HIDE DEF s, t, k
  <2>2. t[k + 1] = t[k] /\ (k + 1) - 1 = k
    <3>1. k + 1 \in 1..entry.len /\ k + 1 # k /\ (k + 1) - 1 = k
      BY <1>2
    <3>2. t[k] = s[k + 1]
      BY <1>2, <1>5
    <3>3. t[k + 1] = s[k + 1]
      BY <1>5, <3>1
    <3>. QED
      BY <3>1, <3>2, <3>3
  <2>3. t[shift'.to - 1] = t[shift'.to] /\ shift'.to > 1
    BY <1>2, <2>1, <2>2
  <2>. QED
    BY <1>1, <1>2, <2>1, <2>3 DEF Moving, t
<1>10. Members'
  <2>1. Distinct(s, Kept) /\ Holds(s, Kept, belongs)
    BY DEF IInv, Members
  <2> HIDE DEF s, t, k
  \* Slot k takes the place of slot k + 1.
  <2> DEFINE from(i) == IF i = k THEN k + 1 ELSE i
  <2>2. \A i \in Kept' : from(i) \in Kept /\ t[i] = s[from(i)]
    BY <1>2, <1>5, <1>8
  <2>3. \A i, j \in Kept' : from(i) = from(j) => i = j
    BY <1>2, <1>8
  <2>4. \A j \in Kept : \E i \in Kept' : j = from(i)
    <3>1. SUFFICES ASSUME NEW j \in Kept PROVE \E i \in Kept' : j = from(i)
      OBVIOUS
    <3>2. CASE j = k + 1
      BY <1>2, <1>8, <3>2
    <3>3. CASE j # k + 1
      BY <1>2, <1>8, <3>3
    <3>. QED
      BY <3>2, <3>3
  <2> HIDE DEF from
  <2>5. Distinct(t, Kept')
    BY <2>1, <2>2, <2>3 DEF Distinct
  <2>6. Holds(t, Kept', belongs)
    BY <2>1, <2>2, <2>4 DEF Holds
  <2>. QED
    BY <1>1, <1>5, <2>5, <2>6 DEF Members, t
<1>. QED
  BY <1>5, <1>6, <1>7, <1>9, <1>10 DEF IInv

\* The last slot is cleared: again every member has one slot.
LEMMA DetachDoneStep ==
    ASSUME IInv, NEW n \in Names, DetachDone(n)
    PROVE  IInv'
<1> DEFINE s == arrays[entry.array]  t == arrays'[entry.array]  k == shift.to
<1>1. /\ Removing = {n} /\ Adding = {} /\ Removing' = {} /\ Adding' = {}
      /\ pc' = [pc EXCEPT ![n] = "idle"] /\ pc[n] = "removing"
      /\ entry' = entry /\ belongs' = belongs /\ shift' = shift
  BY DEF DetachDone, IInv, TypeOK, Exclusive, Adding, Removing
<1>2. /\ k = entry.len /\ k \in 1..entry.len /\ entry.len \in 0..MaxLen /\ MaxLen \in Nat
  BY <1>1, GroupsAssumption DEF DetachDone, IInv, Moving, TypeOK, Headers
<1>3. Overwrites(k, Hole)
  <2>1. \A m \in Names : pc'[m] = "sending" <=> pc[m] = "sending"
    BY <1>1 DEF IInv, TypeOK
  <2>. QED
    BY <1>1, <1>2, <2>1 DEF DetachDone, Overwrites
<1>4. /\ arrays' \in Seq(Seq(Names \cup {Hole})) /\ Len(arrays') = Len(arrays)
      /\ \A i \in 1..entry.len : t[i] = IF i = k THEN Hole ELSE s[i]
      /\ HeadersOk' /\ Written' /\ (Adding' \cup Removing') \cap belongs' = {}
      /\ \A m \in Names : Ranged(m)' /\ Reads(m)'
  BY <1>3, OverwriteStep
<1>5. TypeOK'
  <2>1. (next.array # 0 => next.len <= Len(arrays[next.array]))'
    BY <1>4 DEF HeadersOk, Fits
  <2>2. UNCHANGED <<entry, next, iter, got, expect, shift, belongs, around, disturbed, dead>>
    BY DEF DetachDone, sendVars
  <2>3. pc' \in [Names -> {"idle", "adding", "removing", "sending"}]
    BY <1>1 DEF IInv, TypeOK
  <2>. QED
    BY <1>4, <2>1, <2>2, <2>3 DEF IInv, TypeOK, Headers
<1>6. Exclusive' /\ Moving'
  BY <1>1 DEF Exclusive, Moving
<1>7. Members'
  <2>1. Distinct(s, Kept) /\ Holds(s, Kept, belongs)
    BY DEF IInv, Members
  <2>2. Kept = {i \in 1..entry.len : i # k} /\ Kept' = 1..entry.len
    BY <1>1 DEF Kept
  <2>3. \A m \in belongs : m # Hole
    BY GroupsAssumption DEF IInv, TypeOK
  <2> HIDE DEF s, t, k
  <2>4. Distinct(t, Kept')
    BY <1>4, <2>1, <2>2 DEF Distinct
  <2>5. Holds(t, Kept', belongs)
    BY <1>4, <2>1, <2>2, <2>3 DEF Holds
  <2>. QED
    BY <1>1, <1>4, <2>4, <2>5 DEF Members, t
<1>. QED
  BY <1>4, <1>5, <1>6, <1>7 DEF IInv
-----------------------------------------------------------------------------
(***************************************************************************)
(* send.                                                                   *)
(***************************************************************************)

\* The entry is looked up for n; nothing else changes.
LookupOf(n, a, l) ==
    LET hdr == [array |-> a, len |-> l] IN
    /\ a \in {entry.array, next.array} /\ l \in {entry.len, next.len}
    /\ iter' = [iter EXCEPT ![n] = [array |-> a, len |-> l, at |-> 1]]
    /\ disturbed' = IF Removing # {} \/ hdr \notin {entry, next}
                    THEN disturbed \cup {n} ELSE disturbed
    /\ expect' = [expect EXCEPT ![n] =
          IF hdr = next THEN belongs \cup Adding ELSE belongs]

\* Whatever stands in the entry is a member, or leaving, or nothing.
LEMMA EntrySees ==
    ASSUME IInv, NEW j \in 1..entry.len
    PROVE  arrays[entry.array][j] \in belongs \cup Removing \cup {Hole}
<1>1. entry \in [array : 0..Len(arrays), len : 0..MaxLen] /\ MaxLen \in Nat
  BY GroupsAssumption DEF IInv, TypeOK, Headers
<1>2. \A x \in Kept : arrays[entry.array][x] \in belongs \cup {Hole}
  BY DEF IInv, Members, Holds
<1>3. CASE j \in Kept
  BY <1>2, <1>3
<1>4. CASE j \notin Kept
  <2>1. Removing # {} /\ j = shift.to
    BY <1>4 DEF Kept
  <2>2. CASE arrays[entry.array][shift.to] \in Removing
    BY <2>1, <2>2
  <2>3. CASE /\ shift.to > 1
             /\ arrays[entry.array][shift.to - 1] = arrays[entry.array][shift.to]
    <3>1. shift.to - 1 \in Kept
      BY <1>1, <2>1, <2>3 DEF Kept
    <3>. QED
      BY <1>2, <2>1, <2>3, <3>1
  <2>. QED
    BY <2>1, <2>2, <2>3 DEF IInv, Moving
<1>. QED
  BY <1>3, <1>4

\* What stands in the array that was looked up.
LEMMA LookupSees ==
    ASSUME IInv, NEW a \in {entry.array, next.array}, a # 0,
           NEW i \in 1..Len(arrays[a])
    PROVE  arrays[a][i] \in belongs \cup Adding \cup Removing \cup {Hole}
<1>1. /\ entry \in [array : 0..Len(arrays), len : 0..MaxLen]
      /\ next \in [array : 0..Len(arrays), len : 0..MaxLen] /\ MaxLen \in Nat
  BY GroupsAssumption DEF IInv, TypeOK, Headers
<1>2. \A j \in 1..entry.len : arrays[entry.array][j] \in belongs \cup Removing \cup {Hole}
  BY EntrySees
<1>3. CASE a = next.array
  <2>1. i \in 1..entry.len \/ (Adding # {} /\ i = next.len) \/ i > next.len
    BY <1>1 DEF IInv, HeadersOk
  <2>2. CASE i \in 1..entry.len
    BY <1>2, <1>3, <2>2 DEF IInv, Written
  <2>3. CASE Adding # {} /\ i = next.len
    BY <1>3, <2>3 DEF IInv, Written
  <2>4. CASE i > next.len
    BY <1>3, <2>4 DEF IInv, Written
  <2>. QED
    BY <2>1, <2>2, <2>3, <2>4
<1>4. CASE a = entry.array /\ a # next.array
  <2>1. entry.len = Len(arrays[a])
    BY <1>4 DEF IInv, HeadersOk
  <2>. QED
    BY <1>2, <1>4, <2>1
<1>. QED
  BY <1>3, <1>4

\* A lookup outside of an assignment or a detach finds the group as it is.
LEMMA LookupRanged ==
    ASSUME IInv, NEW h \in {entry, next}, h.array # 0, Removing = {},
           NEW M, M = IF h = next THEN belongs \cup Adding ELSE belongs
    PROVE  LET s == arrays[h.array] IN
           /\ h.len <= Len(s) /\ (h.array = next.array => h.len <= next.len)
           /\ Distinct(s, 1..h.len) /\ Holds(s, 1..h.len, M)
<1> DEFINE s == arrays[next.array]  o == arrays[entry.array]
<1>1. /\ entry \in [array : 0..Len(arrays), len : 0..MaxLen]
      /\ next \in [array : 0..Len(arrays), len : 0..MaxLen] /\ MaxLen \in Nat
  BY GroupsAssumption DEF IInv, TypeOK, Headers
<1>2. h.len <= Len(arrays[h.array]) /\ (h.array = next.array => h.len <= next.len)
  BY <1>1 DEF IInv, HeadersOk, Fits
<1>3. Distinct(o, 1..entry.len) /\ Holds(o, 1..entry.len, belongs)
  <2>1. Kept = 1..entry.len
    BY DEF Kept
  <2>. QED
    BY <2>1 DEF IInv, Members
<1>4. CASE Adding = {}
  <2>1. h = entry /\ M = belongs
    BY <1>4 DEF IInv, HeadersOk
  <2>. QED
    BY <1>2, <1>3, <2>1
<1>5. CASE Adding # {} /\ h = entry /\ h # next
  BY <1>2, <1>3, <1>5
<1>6. CASE Adding # {} /\ h = next
  <2>1. PICK n \in Adding : Adding = {n}
    BY <1>6 DEF IInv, Exclusive
  <2>2. n \notin belongs /\ n # Hole
    BY <2>1, GroupsAssumption DEF IInv, Members, Adding
  <2>3. next.len = entry.len + 1 /\ s[next.len] = n
    BY <2>1 DEF IInv, Written, HeadersOk
  <2>4. \A i \in 1..entry.len : s[i] = o[i]
    BY DEF IInv, Written
  <2>5. /\ \A i \in 1..next.len : i \in 1..entry.len \/ i = next.len
        /\ next.len \in 1..next.len /\ \A i \in 1..entry.len : i \in 1..next.len
    BY <1>1, <2>3
  <2> HIDE DEF s, o
  <2>6. \A i \in 1..entry.len : s[i] \in belongs \cup {Hole} /\ s[i] # n
    BY <1>3, <2>2, <2>4 DEF Holds
  <2>7. Distinct(s, 1..next.len)
    BY <1>3, <2>3, <2>4, <2>5, <2>6 DEF Distinct
  <2>8. Holds(s, 1..next.len, belongs \cup {n})
    BY <1>3, <2>3, <2>4, <2>5, <2>6 DEF Holds
  <2>. QED
    BY <1>2, <1>6, <2>1, <2>7, <2>8 DEF s
<1>. QED
  BY <1>4, <1>5, <1>6
\* A step of n's send that changes neither the slice nor the handlers' calls.
SendStep(n) ==
    /\ UNCHANGED <<arrays, entry, next, shift, belongs>>
    /\ \A m \in Names : pc'[m] \in {"adding", "removing"} \/ pc[m] \in {"adding", "removing"}
                           => pc'[m] = pc[m]
    /\ \A m \in Names \ {n} :
          /\ iter'[m] = iter[m] /\ got'[m] = got[m] /\ expect'[m] = expect[m]
          /\ around'[m] = around[m] /\ (m \in disturbed' <=> m \in disturbed)
          /\ pc'[m] = pc[m]

\* It leaves the slice right, and the other sends.
LEMMA SendStepFrame ==
    ASSUME IInv, NEW n \in Names, SendStep(n)
    PROVE  /\ Adding' = Adding /\ Removing' = Removing
           /\ Exclusive' /\ HeadersOk' /\ Written' /\ Members' /\ Moving'
           /\ \A m \in Names \ {n} : Ranged(m)' /\ Reads(m)'
<1>1. Adding' = Adding /\ Removing' = Removing
  BY DEF SendStep, Adding, Removing
<1>2. UNCHANGED <<arrays, entry, next, shift, belongs>>
  BY DEF SendStep
<1>3. Exclusive' /\ HeadersOk' /\ Written' /\ Moving'
  BY <1>1, <1>2 DEF IInv, Exclusive, HeadersOk, Fits, Written, Moving
<1>4. Members'
  <2>1. Kept' = Kept
    BY <1>1, <1>2 DEF Kept
  <2>. QED
    BY <1>1, <1>2, <2>1 DEF IInv, Members
<1>5. ASSUME NEW m \in Names \ {n}
      PROVE  Ranged(m)' /\ Reads(m)'
  <2>1. /\ iter'[m] = iter[m] /\ got'[m] = got[m] /\ expect'[m] = expect[m]
        /\ around'[m] = around[m] /\ (m \in disturbed' <=> m \in disturbed)
        /\ pc'[m] = pc[m]
    BY DEF SendStep
  <2>2. Ranged(m) /\ Reads(m)
    BY DEF IInv
  <2>3. Ranged(m)'
    BY <1>1, <1>2, <2>1, <2>2 DEF Ranged, Ranging
  <2>4. Reads(m)'
    BY <1>2, <2>1, <2>2 DEF Reads, Known
  <2>. QED
    BY <2>3, <2>4
<1>. QED
  BY <1>1, <1>3, <1>4, <1>5

\* A lookup begins a send that knows what it may see.
LEMMA LookupStep ==
    ASSUME IInv, NEW n \in Senders, Lookup(n)
    PROVE  IInv'
<1>1. n \in Names /\ pc[n] = "idle" /\ pc' = [pc EXCEPT ![n] = "sending"]
  BY GroupsAssumption DEF Lookup
<1>2. PICK a \in {entry.array, next.array}, l \in {entry.len, next.len} : LookupOf(n, a, l)
  BY DEF Lookup, LookupOf
<1>3. /\ entry \in [array : 0..Len(arrays), len : 0..MaxLen]
      /\ next \in [array : 0..Len(arrays), len : 0..MaxLen] /\ MaxLen \in Nat
  BY GroupsAssumption DEF IInv, TypeOK, Headers
<1>4. iter' = [iter EXCEPT ![n] = [array |-> a, len |-> l, at |-> 1]]
  BY <1>2 DEF LookupOf
<1> DEFINE hdr == [array |-> a, len |-> l]
           M == IF hdr = next THEN belongs \cup Adding ELSE belongs
<1>5. expect' = [expect EXCEPT ![n] = M]
  BY <1>2 DEF LookupOf
<1>6. /\ disturbed' = IF Removing # {} \/ hdr \notin {entry, next}
                      THEN disturbed \cup {n} ELSE disturbed
  BY <1>2 DEF LookupOf
<1>7. around' = [around EXCEPT ![n] = Adding \cup Removing] /\ got' = got
  BY DEF Lookup
<1>8. M \in SUBSET Names /\ Adding \subseteq Names /\ Removing \subseteq Names
  BY DEF IInv, TypeOK, Adding, Removing
<1>9. SendStep(n)
  <2>1. UNCHANGED <<arrays, entry, next, shift, belongs>>
    BY DEF Lookup
  <2>2. \A m \in Names \ {n} : m \in disturbed' <=> m \in disturbed
    BY <1>6
  <2> HIDE DEF M
  <2>. QED
    BY <1>1, <1>4, <1>5, <1>7, <2>1, <2>2 DEF SendStep, IInv, TypeOK
<1>10. TypeOK'
  <2>1. iter' \in [Names -> [array : 0..Len(arrays), len : 0..MaxLen,
                             at : 1..MaxLen + 1]]
    <3>1. a \in 0..Len(arrays) /\ l \in 0..MaxLen /\ 1 \in 1..MaxLen + 1
      BY <1>3
    <3>. QED
      BY <1>1, <1>4, <3>1 DEF IInv, TypeOK
  <2>2. expect' \in [Names -> SUBSET Names] /\ around' \in [Names -> SUBSET Names]
    <3> HIDE DEF M
    <3>. QED
      BY <1>1, <1>5, <1>7, <1>8 DEF IInv, TypeOK
  <2>3. disturbed' \in SUBSET Names
    BY <1>1, <1>6 DEF IInv, TypeOK
  <2>4. pc' \in [Names -> {"idle", "adding", "removing", "sending"}]
    BY <1>1 DEF IInv, TypeOK
  <2>5. UNCHANGED <<arrays, entry, next, shift, got, belongs, dead>>
    BY DEF Lookup
  <2>. QED
    BY <2>1, <2>2, <2>3, <2>4, <2>5 DEF IInv, TypeOK, Headers
<1>11. /\ iter'[n] = [array |-> a, len |-> l, at |-> 1] /\ got'[n] = <<>> /\ pc'[n] = "sending"
       /\ expect'[n] = M /\ around'[n] = Adding \cup Removing
       /\ arrays' = arrays /\ entry' = entry /\ next' = next
  <2> HIDE DEF M
  <2>. QED
    BY <1>1, <1>4, <1>5, <1>7, <1>9 DEF IInv, TypeOK, Reads, SendStep
<1>12. Adding' = Adding /\ Removing' = Removing
  BY <1>1, <1>9, SendStepFrame
<1>13. Reads(n)'
  <2>1. Known(n)' = M \cup Adding \cup Removing \cup {Hole}
    BY <1>11 DEF Known
  <2>2. a # 0 => \A i \in 1..Len(arrays[a]) : arrays[a][i] \in Known(n)'
    BY <2>1, LookupSees
  <2>3. Len(got'[n]) = 0
    BY <1>11, EmptySeq
  <2> HIDE DEF M
  <2>. QED
    BY <1>11, <2>2, <2>3 DEF Reads
<1>14. Ranged(n)'
  <2>1. SUFFICES ASSUME Ranging(n)' PROVE Ranged(n)'
    BY DEF Ranged
  <2>2. Removing = {} /\ hdr \in {entry, next} /\ a # 0
    BY <1>1, <1>6, <1>11, <2>1 DEF Ranging
  <2>3. hdr.array = a /\ hdr.len = l
    OBVIOUS
  <2>4. LET s == arrays[a] IN
        /\ l <= Len(s) /\ (a = next.array => l <= next.len)
        /\ Distinct(s, 1..l) /\ Holds(s, 1..l, M)
    <3>1. M = IF hdr = next THEN belongs \cup Adding ELSE belongs
      OBVIOUS
    <3> HIDE DEF M, hdr
    <3>. QED
      BY <2>2, <2>3, <3>1, LookupRanged
  <2>5. /\ iter'[n].array = a /\ iter'[n].len = l /\ iter'[n].at = 1 /\ Len(got'[n]) = 0
        /\ l \in Nat
    BY <1>3, <1>11, EmptySeq
  <2> HIDE DEF M
  <2>6. iter'[n].at <= l + 1 /\ Len(got'[n]) = iter'[n].at - 1
    BY <2>5
  <2>7. \A i \in 1..iter'[n].at - 1 : got'[n][i] = arrays[a][i]
    BY <2>5
  <2>. QED
    BY <1>11, <1>12, <2>2, <2>4, <2>5, <2>6, <2>7 DEF Ranged
<1>. QED
  BY <1>1, <1>9, <1>10, <1>13, <1>14, SendStepFrame DEF IInv
\* A send reads one more slot.
LEMMA EmitStep ==
    ASSUME IInv, NEW n \in Senders, Emit(n)
    PROVE  IInv'
<1> DEFINE a == iter[n].array  k == iter[n].at
<1>1. /\ n \in Names /\ pc[n] = "sending" /\ a \in 1..Len(arrays)
      /\ k \in 1..iter[n].len /\ iter[n].len \in 0..MaxLen /\ MaxLen \in Nat
  BY GroupsAssumption DEF Emit, IInv, TypeOK
<1>2. PICK v \in Readable(a, k) : got' = [got EXCEPT ![n] = Append(@, v)]
  BY DEF Emit
<1>3. /\ iter' = [iter EXCEPT ![n].at = @ + 1] /\ pc' = pc
      /\ UNCHANGED <<arrays, entry, next, shift, belongs, expect, around, disturbed, dead>>
  BY DEF Emit
<1>4. arrays[a] \in Seq(Names \cup {Hole}) /\ Len(arrays[a]) \in Nat
  BY <1>1, ElementOfSeq DEF IInv, TypeOK
<1>5. v = Garbled \/ (k \in 1..Len(arrays[a]) /\ v = arrays[a][k])
  BY <1>1, <1>4 DEF Readable
<1>6. v \in Names \cup {Hole, Garbled}
  BY <1>4, <1>5, ElementOfSeq
<1>7. got[n] \in Seq(Names \cup {Hole, Garbled})
  BY <1>1 DEF IInv, TypeOK
<1>8. /\ Append(got[n], v) \in Seq(Names \cup {Hole, Garbled})
      /\ Len(Append(got[n], v)) = Len(got[n]) + 1
      /\ \A i \in 1..Len(got[n]) : Append(got[n], v)[i] = got[n][i]
      /\ Append(got[n], v)[Len(got[n]) + 1] = v
  BY <1>6, <1>7, AppendProperties
<1>9. /\ got'[n] = Append(got[n], v) /\ iter'[n].array = a /\ iter'[n].len = iter[n].len
      /\ iter'[n].at = k + 1
      /\ \A m \in Names \ {n} : got'[m] = got[m] /\ iter'[m] = iter[m]
  BY <1>1, <1>2, <1>3 DEF IInv, TypeOK
<1>10. TypeOK'
  <2>1. iter' \in [Names -> [array : 0..Len(arrays), len : 0..MaxLen,
                             at : 1..MaxLen + 1]]
    <3>1. k + 1 \in 1..MaxLen + 1
      BY <1>1
    <3>. QED
      BY <1>1, <1>3, <3>1 DEF IInv, TypeOK
  <2>2. got' \in [Names -> Seq(Names \cup {Hole, Garbled})]
    BY <1>1, <1>2, <1>8 DEF IInv, TypeOK
  <2>. QED
    BY <1>3, <2>1, <2>2 DEF IInv, TypeOK, Headers
<1>11. SendStep(n)
  BY <1>3, <1>9 DEF SendStep
<1>12. Adding' = Adding /\ Removing' = Removing
  BY <1>1, <1>11, SendStepFrame
<1>13. Len(got[n]) \in Nat /\ \A i \in 1..Len(got'[n]) : i \in 1..Len(got[n]) \/ i = Len(got[n]) + 1
  BY <1>7, <1>8, <1>9
<1>14. Reads(n)'
  <2>1. Known(n)' = Known(n) /\ Reads(n)
    BY <1>1, <1>3 DEF Known, IInv
  <2>2. v \in Known(n) \cup {Garbled}
    BY <1>1, <1>5, <2>1 DEF Reads
  <2>3. \A i \in 1..Len(got'[n]) : got'[n][i] \in Known(n) \cup {Garbled}
    BY <1>1, <1>8, <1>9, <1>13, <2>1, <2>2 DEF Reads
  <2>4. \A i \in 1..Len(arrays[a]) : arrays[a][i] \in Known(n)
    BY <1>1, <2>1 DEF Reads
  <2> HIDE DEF a, k
  <2>. QED
    BY <1>1, <1>3, <1>9, <2>1, <2>3, <2>4 DEF Reads
<1>15. Ranged(n)'
  <2>1. SUFFICES ASSUME Ranging(n)' PROVE Ranged(n)'
    BY DEF Ranged
  <2>2. Ranging(n) /\ Ranged(n)
    BY <1>1, <1>3, <1>9, <2>1 DEF Ranging, IInv
  <2>3. v = arrays[a][k]
    BY <1>1, <2>2 DEF Ranged, Readable
  <2>4. /\ k \in Nat /\ Len(got[n]) = k - 1
        /\ \A i \in 1..k - 1 : got[n][i] = arrays[a][i]
    BY <1>1, <2>2 DEF Ranged
  <2> HIDE DEF a, k
  <2>5. ASSUME NEW i \in 1..(k + 1) - 1
        PROVE  got'[n][i] = arrays[a][i]
    <3>1. i \in 1..k - 1 \/ i = k
      BY <2>4
    <3>2. CASE i = k
      BY <1>8, <1>9, <2>3, <2>4, <3>2
    <3>3. CASE i \in 1..k - 1
      BY <1>8, <1>9, <2>4, <3>3
    <3>. QED
      BY <3>1, <3>2, <3>3
  <2>6. Len(got'[n]) = (k + 1) - 1 /\ k + 1 <= iter[n].len + 1
    BY <1>1, <1>8, <1>9, <2>4
  <2>. QED
    BY <1>3, <1>9, <1>12, <2>2, <2>5, <2>6 DEF Ranged, a
<1>. QED
  BY <1>1, <1>10, <1>11, <1>14, <1>15, SendStepFrame DEF IInv

\* A send that is done forgets what it read.
LEMMA SendDoneStep ==
    ASSUME IInv, NEW n \in Senders, SendDone(n)
    PROVE  IInv'
<1>1. n \in Names /\ pc[n] = "sending" /\ MaxLen \in Nat
  BY GroupsAssumption DEF SendDone
<1>2. /\ pc' = [pc EXCEPT ![n] = "idle"]
      /\ iter' = [iter EXCEPT ![n] = [array |-> 0, len |-> 0, at |-> 1]]
      /\ got' = [got EXCEPT ![n] = <<>>]
      /\ expect' = [expect EXCEPT ![n] = {}] /\ around' = [around EXCEPT ![n] = {}]
      /\ disturbed' = disturbed \ {n}
      /\ UNCHANGED <<arrays, entry, next, shift, belongs, dead>>
  BY DEF SendDone
<1>3. TypeOK'
  <2>1. <<>> \in Seq(Names \cup {Hole, Garbled})
    BY EmptySeq
  <2>2. got' \in [Names -> Seq(Names \cup {Hole, Garbled})]
    BY <1>2, <2>1 DEF IInv, TypeOK
  <2>3. iter' \in [Names -> [array : 0..Len(arrays), len : 0..MaxLen,
                             at : 1..MaxLen + 1]]
    BY <1>1, <1>2 DEF IInv, TypeOK
  <2>4. pc' \in [Names -> {"idle", "adding", "removing", "sending"}]
    BY <1>2 DEF IInv, TypeOK
  <2>5. /\ expect' \in [Names -> SUBSET Names] /\ around' \in [Names -> SUBSET Names]
        /\ disturbed' \in SUBSET Names
    BY <1>2 DEF IInv, TypeOK
  <2>. QED
    BY <1>2, <2>2, <2>3, <2>4, <2>5 DEF IInv, TypeOK, Headers
<1>4. SendStep(n)
  BY <1>1, <1>2 DEF SendStep, IInv, TypeOK
<1>5. Ranged(n)' /\ Reads(n)'
  BY <1>1, <1>2 DEF Ranged, Ranging, Reads, IInv, TypeOK
<1>. QED
  BY <1>1, <1>3, <1>4, <1>5, SendStepFrame DEF IInv

\* A step that only stops the process, or nothing.
LEMMA StillStep ==
    ASSUME IInv, dead' \in BOOLEAN,
           UNCHANGED <<arrays, entry, next, pc, shift, sendVars, belongs, around, disturbed>>
    PROVE  IInv'
<1>1. Adding' = Adding /\ Removing' = Removing
  BY DEF Adding, Removing
<1>2. TypeOK' /\ Exclusive' /\ HeadersOk' /\ Written' /\ Moving'
  BY <1>1 DEF sendVars, IInv, TypeOK, Headers, Exclusive, HeadersOk, Fits, Written, Moving
<1>3. Kept' = Kept
  BY <1>1 DEF Kept
<1>4. Members'
  BY <1>1, <1>3 DEF IInv, Members
<1>5. ASSUME NEW m \in Names
      PROVE  Ranged(m)' /\ Reads(m)'
  BY <1>1 DEF sendVars, IInv, Ranged, Ranging, Reads, Known
<1>. QED
  BY <1>2, <1>4, <1>5 DEF IInv

\* Every step preserves the inductive invariant.
LEMMA NextIInv == IInv /\ [Next]_vars => IInv'
<1> SUFFICES ASSUME IInv, [Next]_vars PROVE IInv'
  OBVIOUS
<1>1. CASE UNCHANGED vars
  BY <1>1, StillStep DEF vars, sendVars, IInv, TypeOK
<1>2. ASSUME NEW n \in Names,
             \/ Attach(n) \/ AttachDone(n)
             \/ Detach(n) \/ DetachShift(n) \/ DetachDone(n)
      PROVE  IInv'
  BY <1>2, AttachStep, AttachDoneStep, DetachStep, DetachShiftStep, DetachDoneStep
<1>3. ASSUME NEW n \in Senders, Lookup(n) \/ Emit(n) \/ SendDone(n)
      PROVE  IInv'
  BY <1>3, LookupStep, EmitStep, SendDoneStep
<1>4. ASSUME NEW n \in Senders, LookupFatal(n)
      PROVE  IInv'
  BY <1>4, StillStep DEF LookupFatal
<1>5. CASE Terminated
  BY <1>1, <1>5 DEF Terminated
<1>. QED
  BY <1>1, <1>2, <1>3, <1>4, <1>5 DEF Next

\* The inductive invariant holds in every reachable state.
THEOREM Inductive == Spec => []IInv
  BY InitIInv, NextIInv, PTL DEF Spec

-----------------------------------------------------------------------------
(***************************************************************************)
(* The theorems.                                                           *)
(***************************************************************************)

\* The slice, the headers and the sends keep their types.
THEOREM TypeCorrect == Spec => []TypeOK
<1>1. IInv => TypeOK
  BY DEF IInv
<1>. QED
  BY <1>1, Inductive, PTL

\* The number of jobs for m among jobs that name nobody twice.
LEMMA JobsOfDistinct ==
    ASSUME NEW n, NEW m, Len(got[n]) \in Nat,
           \A i, j \in 1..Len(got[n]) : got[n][i] = m /\ got[n][j] = m => i = j
    PROVE  Jobs(n, m) = IF \E i \in 1..Len(got[n]) : got[n][i] = m THEN 1 ELSE 0
<1> DEFINE I == {i \in 1..Len(got[n]) : got[n][i] = m}
<1>1. CASE \E i \in 1..Len(got[n]) : got[n][i] = m
  <2>1. PICK i \in 1..Len(got[n]) : got[n][i] = m
    BY <1>1
  <2>2. I = {i}
    BY <2>1
  <2>3. Cardinality(I) = 1
    BY <2>2, FS_Singleton
  <2>. QED
    BY <1>1, <2>3 DEF Jobs
<1>2. CASE ~\E i \in 1..Len(got[n]) : got[n][i] = m
  <2>1. I = {}
    BY <1>2
  <2>2. Cardinality(I) = 0
    BY <2>1, FS_EmptySet
  <2>. QED
    BY <1>2, <2>2 DEF Jobs
<1>. QED
  BY <1>1, <1>2

\* Attaches that a send overlaps neither add to it, nor take from it, nor
\* repeat a job: it serves exactly the members it began with.
THEOREM FanOutIsExact == Spec => []ExactFanOut
<1>1. IInv => ExactFanOut
  <2> SUFFICES ASSUME IInv, NEW n \in Names, Complete(n), n \notin disturbed
               PROVE  /\ Jobs(n, Garbled) = 0
                      /\ \A m \in Names : Jobs(n, m) = IF m \in expect[n] THEN 1 ELSE 0
    BY DEF ExactFanOut
  <2> DEFINE s == arrays[iter[n].array]  l == iter[n].len
  <2>1. /\ Distinct(s, 1..l) /\ Holds(s, 1..l, expect[n])
        /\ iter[n].at <= l + 1 /\ Len(got[n]) = iter[n].at - 1
        /\ \A i \in 1..iter[n].at - 1 : got[n][i] = s[i]
    BY DEF Complete, IInv, Ranged, Ranging
  <2>2. iter[n].at > l /\ l \in Nat /\ iter[n].at \in Nat /\ expect[n] \subseteq Names
    BY GroupsAssumption DEF Complete, IInv, TypeOK
  <2> HIDE DEF s, l
  <2>3. iter[n].at - 1 = l
    BY <2>1, <2>2
  <2>4. Len(got[n]) = l /\ \A i \in 1..l : got[n][i] = s[i]
    BY <2>1, <2>3
  <2>5. Jobs(n, Garbled) = 0
    <3>1. \A i \in 1..l : got[n][i] # Garbled
      BY <2>1, <2>2, <2>4, GroupsAssumption DEF Holds
    <3>. QED
      BY <2>2, <2>4, <3>1, JobsOfDistinct
  <2>6. ASSUME NEW m \in Names
        PROVE  Jobs(n, m) = IF m \in expect[n] THEN 1 ELSE 0
    <3>1. \A i, j \in 1..l : got[n][i] = m /\ got[n][j] = m => i = j
      BY <2>1, <2>4, GroupsAssumption DEF Distinct
    <3>2. m \in expect[n] <=> \E i \in 1..l : got[n][i] = m
      BY <2>1, <2>4, GroupsAssumption DEF Holds
    <3>. QED
      BY <2>2, <2>4, <3>1, <3>2, JobsOfDistinct
  <2>. QED
    BY <2>5, <2>6
<1>. QED
  BY <1>1, Inductive, PTL

\* Whatever a send overlaps, it serves nobody who was out before it began
\* and stayed out.
THEOREM MembersOnly == Spec => []OnlyMembers
<1>1. IInv => OnlyMembers
  BY DEF IInv, Reads, Known, OnlyMembers
<1>. QED
  BY <1>1, Inductive, PTL

-----------------------------------------------------------------------------
(***************************************************************************)
(* Groups implements Membership.  The names in the entry are the members   *)
(* at every moment (EntryIsGroup); the end of an attach brings one in, the *)
(* begin of a detach takes one out, and everything else, the moving of     *)
(* names in the array in particular, is a stutter.                         *)
(***************************************************************************)
LEMMA EntryIsGroup ==
    ASSUME IInv
    PROVE  Slice(entry) \ ({Hole} \cup Removing) = belongs
<1>1. ASSUME NEW m \in belongs
      PROVE  m \in Slice(entry) \ ({Hole} \cup Removing)
  <2>1. PICK i \in 1..entry.len : arrays[entry.array][i] = m
    BY DEF IInv, Members, Holds, Kept
  <2>2. entry.array # 0
    BY <2>1 DEF IInv, HeadersOk, Fits, TypeOK, Headers
  <2>3. m \in Slice(entry)
    BY <2>1, <2>2 DEF Slice, Slots
  <2>. QED
    BY <2>3, GroupsAssumption DEF IInv, Members, TypeOK
<1>2. ASSUME NEW m \in Slice(entry) \ ({Hole} \cup Removing)
      PROVE  m \in belongs
  <2>1. PICK i \in 1..entry.len : arrays[entry.array][i] = m
    BY DEF Slice, Slots
  <2>. QED
    BY <2>1, EntrySees
<1>. QED
  BY <1>1, <1>2

LEMMA StepSimulates ==
    ASSUME IInv, IInv', [Next]_vars,
           NEW mem, mem = belongs, NEW mem1, mem1 = belongs'
    PROVE  \/ \E n \in Names :
                 \/ /\ Adding = {} /\ Removing = {} /\ n \notin mem
                    /\ Adding' = {n} /\ mem1 = mem /\ Removing' = Removing
                 \/ /\ n \in Adding
                    /\ mem1 = mem \cup {n} /\ Adding' = {} /\ Removing' = Removing
                 \/ /\ Adding = {} /\ Removing = {} /\ n \in mem
                    /\ mem1 = mem \ {n} /\ Removing' = {n} /\ Adding' = Adding
                 \/ /\ n \in Removing
                    /\ Removing' = {} /\ mem1 = mem /\ Adding' = Adding
           \/ mem1 = mem /\ Adding' = Adding /\ Removing' = Removing
<1>1. ASSUME NEW n \in Names, Attach(n)
      PROVE  /\ Adding = {} /\ Removing = {} /\ n \notin mem
             /\ Adding' = {n} /\ mem1 = mem /\ Removing' = Removing
  BY <1>1, AttachHeaders DEF Attach
<1>2. ASSUME NEW n \in Names, AttachDone(n)
      PROVE  /\ n \in Adding
             /\ mem1 = mem \cup {n} /\ Adding' = {} /\ Removing' = Removing
  BY <1>2 DEF AttachDone, Adding, Removing, IInv, TypeOK, Exclusive
<1>3. ASSUME NEW n \in Names, Detach(n)
      PROVE  /\ Adding = {} /\ Removing = {} /\ n \in mem
             /\ mem1 = mem \ {n} /\ Removing' = {n} /\ Adding' = Adding
  <2>1. Adding = {} /\ Removing = {}
    BY <1>3 DEF Detach, Locked
  <2>2. pc' = [pc EXCEPT ![n] = "removing"] /\ pc[n] = "idle" /\ belongs' = belongs \ {n}
    BY <1>3 DEF Detach
  <2>3. Removing' = {n} /\ Adding' = Adding
    BY <2>1, <2>2 DEF Adding, Removing, IInv, TypeOK
  <2>. QED
    BY <1>3, <2>1, <2>2, <2>3, DetachStep
<1>4. ASSUME NEW n \in Names, DetachShift(n)
      PROVE  mem1 = mem /\ Adding' = Adding /\ Removing' = Removing
  BY <1>4 DEF DetachShift, Adding, Removing
<1>5. ASSUME NEW n \in Names, DetachDone(n)
      PROVE  /\ n \in Removing
             /\ Removing' = {} /\ mem1 = mem /\ Adding' = Adding
  BY <1>5 DEF DetachDone, Adding, Removing, IInv, TypeOK, Exclusive
<1>6. ASSUME NEW n \in Senders, Lookup(n) \/ LookupFatal(n) \/ Emit(n) \/ SendDone(n)
      PROVE  mem1 = mem /\ Adding' = Adding /\ Removing' = Removing
  BY <1>6, GroupsAssumption
     DEF Lookup, LookupFatal, Emit, SendDone, Adding, Removing, IInv, TypeOK
<1>7. CASE UNCHANGED vars
  BY <1>7 DEF vars, Adding, Removing
<1>. QED
  BY <1>1, <1>2, <1>3, <1>4, <1>5, <1>6, <1>7 DEF Next, Terminated

\* A group is a set of names that only its own calls change, one at a time.
THEOREM GroupsImplementMembership == Spec => ImplementsMembership
<1>1. Init => Slice(entry) \ ({Hole} \cup Removing) = {} /\ GroupSet!Idle
  BY DEF Init, Slice, Slots, GroupSet!Idle, Adding, Removing
<1>2. IInv => Slice(entry) \ ({Hole} \cup Removing) = belongs
  BY EntryIsGroup
<1>3. (IInv => Slice(entry) \ ({Hole} \cup Removing) = belongs)'
  BY <1>2, PTL
<1>4. IInv /\ IInv' /\ [Next]_vars
         => [\E n \in Names : \/ GroupSet!Attach(n) \/ GroupSet!Attached(n)
                              \/ GroupSet!Detach(n) \/ GroupSet!Detached(n)]_
               <<Slice(entry) \ ({Hole} \cup Removing), Adding, Removing>>
  <2> SUFFICES ASSUME IInv, IInv', [Next]_vars
               PROVE  \/ \E n \in Names : \/ GroupSet!Attach(n) \/ GroupSet!Attached(n)
                                          \/ GroupSet!Detach(n) \/ GroupSet!Detached(n)
                      \/ UNCHANGED <<Slice(entry) \ ({Hole} \cup Removing), Adding, Removing>>
    OBVIOUS
  <2>. QED
    BY <1>2, <1>3, StepSimulates
       DEF GroupSet!Attach, GroupSet!Attached, GroupSet!Detach, GroupSet!Detached, GroupSet!Idle
<1>. QED
  BY <1>1, <1>4, Inductive, PTL DEF Spec, ImplementsMembership, GroupSet!MembershipSpec
=============================================================================
