------------------------------- MODULE Groups -------------------------------
(***************************************************************************)
(* One group of the proxy: its entry of the map groups of                  *)
(* connectionManager, which AddToGroup and RemoveFromGroup change under    *)
(* groupsMu and which send reads without it                                *)
(* (pkg/proxy/connectionmanager.go).                                       *)
(*                                                                         *)
(* The entry is a Go slice: a header (array, length) over an array that    *)
(* other headers may share.  send ranges over a copy of the header, and so *)
(* sees what is written into its array meanwhile.  append writes past the  *)
(* length of all earlier headers, or into a new array; slices.DeleteFunc   *)
(* moves the names behind the deleted one forward, one at a time, and      *)
(* clears the slot that becomes free.  Its result, the shorter header, is  *)
(* thrown away by RemoveFromGroup: the entry keeps its length, and the     *)
(* free slot, an empty name, stays in it.                                  *)
(*                                                                         *)
(* The unlocked reads are data races.  A slot that is read while a name is *)
(* written to it may come out garbled, and so may the last name of a       *)
(* header of which only one word was updated; and Go's runtime may stop    *)
(* the process when it notices a map read during a map write.              *)
(*                                                                         *)
(* One handler per name is enough: two of them can do no more to a group   *)
(* than two names can, and the lock keeps their changes apart.             *)
(***************************************************************************)
EXTENDS Naturals, Sequences, FiniteSets

CONSTANTS
    Names,    \* the names of the connections, and so of their handlers
    Senders,  \* bound: those that send to the group
    Hole,     \* the empty name, left in a slot by a deletion
    Garbled,  \* a name torn by a data race
    MaxLen    \* bound: slots of the slice

ASSUME GroupsAssumption ==
    /\ Senders \subseteq Names
    /\ MaxLen \in Nat
    /\ Hole \notin Names /\ Garbled \notin Names /\ Hole # Garbled

VARIABLES
    arrays,    \* the arrays allocated so far, as long as their capacity
    entry,     \* the header in the map; array 0 if the group is no key yet
    next,      \* the header an attach is assigning, else equal to entry
    pc,        \* what each handler is doing
    shift,     \* the detach under way: from slot "from" to slot "to"
    iter,      \* the copied header over which each send ranges, and where
    got,       \* the destinations of each send so far
    belongs,   \* history: the names that have attached and not detached
    expect,    \* history: those names when each send read the entry
    around,    \* history: names that attached or detached during each send
    disturbed, \* history: sends that overlapped a detach, or read a torn header
    dead       \* the runtime has stopped the process

vars == <<arrays, entry, next, pc, shift, iter, got,
          belongs, expect, around, disturbed, dead>>
sendVars == <<iter, got, expect>>

Slots(hdr) == IF hdr.array = 0 THEN {} ELSE 1..hdr.len
Slice(hdr) == {arrays[hdr.array][i] : i \in Slots(hdr)}
Headers == [array : 0..Len(arrays), len : 0..MaxLen]
Adding == {n \in Names : pc[n] = "adding"}
Removing == {n \in Names : pc[n] = "removing"}
Locked == Adding \cup Removing # {}    \* groupsMu

TypeOK ==
    /\ arrays \in Seq(Seq(Names \cup {Hole}))
    /\ entry \in Headers /\ next \in Headers
    /\ next.array # 0 => next.len <= Len(arrays[next.array])
    /\ pc \in [Names -> {"idle", "adding", "removing", "sending"}]
    /\ shift \in [to : 0..MaxLen, from : 0..MaxLen + 1]
    /\ iter \in [Names -> [array : 0..Len(arrays), len : 0..MaxLen, at : 1..MaxLen + 1]]
    /\ got \in [Names -> Seq(Names \cup {Hole, Garbled})]
    /\ belongs \in SUBSET Names
    /\ expect \in [Names -> SUBSET Names] /\ around \in [Names -> SUBSET Names]
    /\ disturbed \in SUBSET Names
    /\ dead \in BOOLEAN

Init ==
    /\ arrays = <<>>
    /\ entry = [array |-> 0, len |-> 0] /\ next = entry
    /\ pc = [n \in Names |-> "idle"]
    /\ shift = [to |-> 0, from |-> 0]
    /\ iter = [n \in Names |-> [array |-> 0, len |-> 0, at |-> 1]]
    /\ got = [n \in Names |-> <<>>]
    /\ belongs = {}
    /\ expect = [n \in Names |-> {}] /\ around = [n \in Names |-> {}]
    /\ disturbed = {}
    /\ dead = FALSE

\* History: n attaches or detaches around every send under way.
Around(n) ==
    around' = [m \in Names |-> IF pc[m] = "sending" THEN around[m] \cup {n}
                               ELSE around[m]]

-----------------------------------------------------------------------------
(***************************************************************************)
(* AddToGroup.  append uses the spare capacity of the array, or doubles it *)
(* into a new one; then the map entry is assigned.                         *)
(***************************************************************************)
Capacity == IF entry.array = 0 THEN 0 ELSE Len(arrays[entry.array])
NewCapacity == IF Capacity = 0 THEN 1 ELSE 2 * Capacity

AppendInPlace(n) ==
    /\ entry.len < Capacity
    /\ arrays' = [arrays EXCEPT ![entry.array][entry.len + 1] = n]
    /\ next' = [entry EXCEPT !.len = @ + 1]

\* Slip: the new array has no room for the new name.
AppendMovingShort(n) ==
    /\ entry.len = Capacity
    /\ arrays' = Append(arrays, [i \in 1..Capacity |-> arrays[entry.array][i]])
    /\ next' = [array |-> Len(arrays) + 1, len |-> entry.len + 1]

AppendMoving(n) ==
    /\ entry.len = Capacity
    /\ arrays' = Append(arrays,
                    [i \in 1..NewCapacity |->
                        IF i <= entry.len THEN arrays[entry.array][i]
                        ELSE IF i = entry.len + 1 THEN n ELSE Hole])
    /\ next' = [array |-> Len(arrays) + 1, len |-> entry.len + 1]

\* Slip: a name is added again although the group has it.
AttachAgain(n) ==
    /\ ~dead /\ pc[n] = "idle" /\ ~Locked
    /\ entry.len < MaxLen
    /\ AppendInPlace(n) \/ AppendMoving(n)
    /\ pc' = [pc EXCEPT ![n] = "adding"]
    /\ Around(n)
    /\ UNCHANGED <<entry, shift, sendVars, belongs, disturbed, dead>>

\* Up to the assignment of the map entry.  A name the group has is not added.
Attach(n) ==
    /\ ~dead /\ pc[n] = "idle" /\ ~Locked
    /\ n \notin Slice(entry) /\ entry.len < MaxLen
    /\ AppendInPlace(n) \/ AppendMoving(n)
    /\ pc' = [pc EXCEPT ![n] = "adding"]
    /\ Around(n)
    /\ UNCHANGED <<entry, shift, sendVars, belongs, disturbed, dead>>

\* The map entry is assigned and groupsMu released.
AttachDone(n) ==
    /\ ~dead /\ pc[n] = "adding"
    /\ entry' = next
    /\ pc' = [pc EXCEPT ![n] = "idle"]
    /\ belongs' = belongs \cup {n}
    /\ UNCHANGED <<arrays, next, shift, sendVars, around, disturbed, dead>>

-----------------------------------------------------------------------------
(***************************************************************************)
(* RemoveFromGroup: slices.DeleteFunc on the array of the entry.  Without  *)
(* the group or the name nothing happens.                                  *)
(***************************************************************************)
Detach(n) ==
    /\ ~dead /\ pc[n] = "idle" /\ ~Locked
    /\ \E i \in Slots(entry) :
          /\ arrays[entry.array][i] = n
          /\ shift' = [to |-> i, from |-> i + 1]
    /\ pc' = [pc EXCEPT ![n] = "removing"]
    /\ belongs' = belongs \ {n}
    /\ Around(n)
    /\ disturbed' = disturbed \cup
          {m \in Names : pc[m] = "sending" /\ iter[m].array = entry.array}
    /\ UNCHANGED <<arrays, entry, next, sendVars, dead>>

DetachShift(n) ==
    /\ ~dead /\ pc[n] = "removing" /\ shift.from <= entry.len
    /\ arrays' = [arrays EXCEPT ![entry.array][shift.to] =
                                     arrays[entry.array][shift.from]]
    /\ shift' = [to |-> shift.to + 1, from |-> shift.from + 1]
    /\ UNCHANGED <<entry, next, pc, sendVars, belongs, around, disturbed, dead>>

\* Slip: DeleteFunc of Go before 1.22, which leaves the freed slot as it was.
DetachDoneUncleared(n) ==
    /\ ~dead /\ pc[n] = "removing" /\ shift.from > entry.len
    /\ pc' = [pc EXCEPT ![n] = "idle"]
    /\ UNCHANGED <<arrays, entry, next, shift, sendVars,
                   belongs, around, disturbed, dead>>

\* The freed slot is cleared, the result dropped, groupsMu released.
DetachDone(n) ==
    /\ ~dead /\ pc[n] = "removing" /\ shift.from > entry.len
    /\ arrays' = [arrays EXCEPT ![entry.array][shift.to] = Hole]
    /\ pc' = [pc EXCEPT ![n] = "idle"]
    /\ UNCHANGED <<entry, next, shift, sendVars, belongs, around, disturbed, dead>>

-----------------------------------------------------------------------------
(***************************************************************************)
(* send to the group: a lookup without the lock, then one job per slot.    *)
(***************************************************************************)

\* While an attach assigns the entry, each word read may be old or new.
Lookup(n) ==
    /\ ~dead /\ pc[n] = "idle"
    /\ \E a \in {entry.array, next.array}, l \in {entry.len, next.len} :
          LET hdr == [array |-> a, len |-> l] IN
          /\ iter' = [iter EXCEPT ![n] = [array |-> a, len |-> l, at |-> 1]]
          /\ disturbed' = IF Removing # {} \/ hdr \notin {entry, next}
                          THEN disturbed \cup {n} ELSE disturbed
          /\ expect' = [expect EXCEPT ![n] =
                IF hdr = next THEN belongs \cup Adding ELSE belongs]
    /\ around' = [around EXCEPT ![n] = Adding \cup Removing]
    /\ pc' = [pc EXCEPT ![n] = "sending"]
    /\ UNCHANGED <<arrays, entry, next, shift, got, belongs, dead>>

\* fatal error: concurrent map read and map write.
LookupFatal(n) ==
    /\ ~dead /\ pc[n] = "idle" /\ Adding # {}
    /\ dead' = TRUE
    /\ UNCHANGED <<arrays, entry, next, pc, shift, sendVars,
                   belongs, around, disturbed>>

\* What a read of slot i of array a may return.
Readable(a, i) ==
    IF i > Len(arrays[a]) THEN {Garbled}
    ELSE {arrays[a][i]} \cup {g \in {Garbled} :
                 Removing # {} /\ a = entry.array /\ i = shift.to}

\* Another job, for the next slot.  The channel may make the handler wait
\* before it, for any time.
Emit(n) ==
    /\ ~dead /\ pc[n] = "sending"
    /\ iter[n].array # 0 /\ iter[n].at <= iter[n].len
    /\ \E v \in Readable(iter[n].array, iter[n].at) :
          got' = [got EXCEPT ![n] = Append(@, v)]
    /\ iter' = [iter EXCEPT ![n].at = @ + 1]
    /\ UNCHANGED <<arrays, entry, next, pc, shift,
                   belongs, expect, around, disturbed, dead>>

\* All slots are done.  If the group is no key the event goes, as one job,
\* to the connection that has the group's name; while the first attach is
\* under way it may be a key already, of an empty slice, and there is no job
\* at all.
SendDone(n) ==
    /\ ~dead /\ pc[n] = "sending"
    /\ iter[n].array = 0 \/ iter[n].at > iter[n].len
    /\ pc' = [pc EXCEPT ![n] = "idle"]
    /\ iter' = [iter EXCEPT ![n] = [array |-> 0, len |-> 0, at |-> 1]]
    /\ got' = [got EXCEPT ![n] = <<>>]
    /\ expect' = [expect EXCEPT ![n] = {}]
    /\ around' = [around EXCEPT ![n] = {}]
    /\ disturbed' = disturbed \ {n}
    /\ UNCHANGED <<arrays, entry, next, shift, belongs, dead>>

Terminated == dead /\ UNCHANGED vars

-----------------------------------------------------------------------------
Next ==
    \/ \E n \in Names :
          \/ Attach(n) \/ AttachDone(n)
          \/ Detach(n) \/ DetachShift(n) \/ DetachDone(n)
    \/ \E n \in Senders : Lookup(n) \/ LookupFatal(n) \/ Emit(n) \/ SendDone(n)
    \/ Terminated

Spec == Init /\ [][Next]_vars

-----------------------------------------------------------------------------
(***************************************************************************)
(* Properties.                                                             *)
(***************************************************************************)

\* The names in the entry are the members, although RemoveFromGroup throws the
\* new length away: only the calls change them, each by its own name, and a
\* name that was taken out does not come back with the stale tail.  (While
\* DeleteFunc moves names, one may be in two slots and the leaving one in any.)
GroupSet == INSTANCE Membership
    WITH members <- Slice(entry) \ ({Hole} \cup Removing),
         joining <- Adding, leaving <- Removing
ImplementsMembership == GroupSet!MembershipSpec

\* A send that overlapped no detach, and did not read the entry in the middle
\* of an assignment, makes one job for every name that was in the group when
\* it began and none for others, whatever attaches happen meanwhile.
Jobs(n, m) == Cardinality({i \in 1..Len(got[n]) : got[n][i] = m})
Complete(n) == pc[n] = "sending" /\ iter[n].at > iter[n].len /\ iter[n].array # 0
ExactFanOut ==
    \A n \in Names : (Complete(n) /\ n \notin disturbed) =>
        /\ Jobs(n, Garbled) = 0
        /\ \A m \in Names : Jobs(n, m) = IF m \in expect[n] THEN 1 ELSE 0

\* Even a disturbed send makes no job for a name that was out of the group
\* before it began and did not come in: nobody who left for good is served.
\* (A name that comes in after the send began may be: a detach can move it
\* into a slot that the send has still to read.)
OnlyMembers ==
    \A n \in Names : pc[n] = "sending" =>
        \A i \in 1..Len(got[n]) :
            got[n][i] \in expect[n] \cup around[n] \cup {Hole, Garbled}
=============================================================================
