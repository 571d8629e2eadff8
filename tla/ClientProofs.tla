---------------------------- MODULE ClientProofs ----------------------------
(***************************************************************************)
(* Proofs about the two clients, Communication (pkg/client) and Pumps (its *)
(* predecessor pkg/client0), for any number of events and stale answers, of *)
(* sockets, callers and messages.                                          *)
(*                                                                         *)
(* Communication: HandOverSafe is about a display that met neither a       *)
(* timeout nor a stale answer.  There the one answer is in exactly one     *)
(* place: still owed by the proxy, on its way, or with the reader          *)
(* (OneAnswer); it can be in one of them only while main waits for it, and *)
(* a reader that has it holds the open channel of the query (Waiting).     *)
(*                                                                         *)
(* Pumps: InOrder is proved place by place: what is written, open and      *)
(* queued are three stretches of the numbers 1, 2, ... that follow each    *)
(* other (Stretches), as long as the writer is at work; nothing is open    *)
(* when it waits for a message.  Settled needs that a pump at one of the   *)
(* deletes has seen the end of its own connection (PumpsEnded).            *)
(***************************************************************************)
EXTENDS Communication, Pumps, SequenceTheorems, TLAPS

Clean == ~late /\ stales = 0
AnswerIn(i) == i \in 1..Len(inbox) /\ inbox[i] \in {"answer", "stale"}
ReaderHasIt == reader \in {"decode", "sending"}

OneAnswer ==
    Clean =>
        /\ \A i, j \in 1..Len(inbox) : AnswerIn(i) /\ AnswerIn(j) => i = j
        /\ asked => ~ReaderHasIt /\ \A i \in 1..Len(inbox) : ~AnswerIn(i)
        /\ ReaderHasIt => \A i \in 1..Len(inbox) : ~AnswerIn(i)

Waiting ==
    Clean /\ main \notin {"reading", "panicRead", "killed"} =>
        ~asked /\ ~ReaderHasIt /\ \A i \in 1..Len(inbox) : ~AnswerIn(i)

\* The field and the channel, as main leaves them on its way.
FieldOk ==
    /\ main \in {"query", "reading"} => field = "ch"
    /\ main \in {"attach", "setup", "query", "reading", "close"} => chOpen
    /\ main = "closeAgain" => field = "nil"
    /\ Clean /\ reader = "sending" => sendTo = "ch"
    /\ main # "panicClose"
    /\ main = "panicSend" => ~Clean
    /\ main = "panicRead" => reader = "recv"

IInv == TypeOK /\ OneAnswer /\ Waiting /\ FieldOk

Proxy == Answer \/ StaleAnswer \/ OtherEvent \/ HangUp \/ Reset

-----------------------------------------------------------------------------
\* The display starts with nothing asked and nothing on the way.
LEMMA InitIInv == Init => IInv
<1> SUFFICES ASSUME Init PROVE IInv
  OBVIOUS
<1> USE CommunicationAssumption DEF Init
<1>1. inbox \in Seq({"answer", "stale", "error", "event"}) /\ Len(inbox) = 0
  OBVIOUS
<1>2. stales \in 0..MaxStale /\ events \in 0..MaxEvents
  OBVIOUS
<1>3. TypeOK
  BY <1>1, <1>2 DEF TypeOK, Channels
<1>4. OneAnswer /\ Waiting /\ FieldOk
  BY <1>1 DEF OneAnswer, Waiting, FieldOk, ReaderHasIt
<1>. QED
  BY <1>3, <1>4 DEF IInv

\* What the proxy and the network do keeps the types.
LEMMA TypeProxy ==
    ASSUME TypeOK, Proxy
    PROVE  TypeOK'
<1> USE CommunicationAssumption DEF TypeOK, proxyVars
<1>1. CASE Answer
  <2>1. inbox' \in Seq({"answer", "stale", "error", "event"})
    BY <1>1 DEF Answer
  <2>. QED
    BY <1>1, <2>1 DEF Answer
<1>2. CASE StaleAnswer
  BY <1>2 DEF StaleAnswer
<1>3. CASE OtherEvent
  BY <1>3 DEF OtherEvent
<1>4. CASE HangUp
  BY <1>4 DEF HangUp
<1>5. CASE Reset
  BY <1>5 DEF Reset
<1>. QED
  BY <1>1, <1>2, <1>3, <1>4, <1>5 DEF Proxy

\* The steps of the two goroutines keep the types.
LEMMA TypeDisplay ==
    ASSUME TypeOK, Begin \/ Reads \/ MainRuns \/ Killed \/ Signal
    PROVE  TypeOK'
<1> USE DEF TypeOK, proxyVars, Channels, Ended
<1>1. CASE Begin \/ ChooseChannel \/ SendPanics \/ ReadEnds \/ ReadPanics
  BY <1>1 DEF Begin, ChooseChannel, SendPanics, ReadEnds, ReadPanics
<1>2. CASE ReceiveEvent \/ ReceiveError \/ ReceiveAnswer
  BY <1>2 DEF ReceiveEvent, ReceiveError, ReceiveAnswer, Receives
<1>3. CASE Setup \/ Query \/ Rendezvous \/ Timeout
  BY <1>3 DEF Setup, Query, Rendezvous, Timeout
<1>4. CASE CloseReceiver \/ ClearReceiver \/ CloseAgain
  BY <1>4 DEF CloseReceiver, ClearReceiver, CloseAgain
<1>5. CASE Signal \/ SendClose \/ Joined \/ Cut \/ Exit
  BY <1>5 DEF Signal, SendClose, Joined, Cut, Exit
<1>6. CASE Attach \/ Launch \/ Killed
  BY <1>6 DEF Attach, Launch, Killed
<1>. QED
  BY <1>1, <1>2, <1>3, <1>4, <1>5, <1>6 DEF Reads, MainRuns

\* Every step keeps the types.
LEMMA TypeStep ==
    ASSUME TypeOK, [Next]_vars
    PROVE  TypeOK'
<1>1. CASE UNCHANGED vars
  BY <1>1 DEF TypeOK, vars
<1>. QED
  BY <1>1, TypeProxy, TypeDisplay DEF Next, Proxy, Terminated

-----------------------------------------------------------------------------
\* Appending a frame that is no answer adds no answer.
LEMMA AppendOther ==
    ASSUME TypeOK, NEW k \in {"error", "event"}, inbox' = Append(inbox, k),
           NEW i \in 1..Len(inbox'), AnswerIn(i)'
    PROVE  i \in 1..Len(inbox) /\ AnswerIn(i)
BY DEF TypeOK, AnswerIn

\* The proxy answers once, and keeps the one answer the only one.
LEMMA AnswersProxy ==
    ASSUME IInv, Proxy
    PROVE  OneAnswer' /\ Waiting' /\ FieldOk'
<1> USE DEF IInv, TypeOK, OneAnswer, Waiting, FieldOk, Clean, ReaderHasIt,
            proxyVars
<1>1. CASE Answer
  <2>1. PICK kind \in {"answer", "error"} : inbox' = Append(inbox, kind)
    BY <1>1 DEF Answer
  <2>2. /\ asked /\ ~asked' /\ Alive
        /\ UNCHANGED <<main, reader, field, chOpen, sendTo, stales, late>>
    BY <1>1 DEF Answer
  <2>3. Len(inbox') = Len(inbox) + 1
        /\ \A i \in 1..Len(inbox) : inbox'[i] = inbox[i]
    BY <2>1
  <2>4. \A i \in 1..Len(inbox) : AnswerIn(i)' <=> AnswerIn(i)
    BY <2>3 DEF AnswerIn
  <2>. QED
    BY <2>2, <2>3, <2>4
<1>2. CASE StaleAnswer
  <2>1. ~Clean'
    BY <1>2 DEF StaleAnswer
  <2>. QED
    BY <1>2, <2>1 DEF StaleAnswer
<1>3. CASE OtherEvent
  <2>1. /\ inbox' = Append(inbox, "event")
        /\ UNCHANGED <<main, reader, field, chOpen, sendTo, asked, stales, late>>
    BY <1>3 DEF OtherEvent
  <2>2. \A i \in 1..Len(inbox') : AnswerIn(i)' => i \in 1..Len(inbox) /\ AnswerIn(i)
    BY <2>1, AppendOther
  <2>. QED
    BY <2>1, <2>2
<1>4. CASE HangUp
  BY <1>4 DEF HangUp, AnswerIn
<1>5. CASE Reset
  <2>1. PICK k \in 0..Len(inbox) : inbox' = SubSeq(inbox, 1, k)
    BY <1>5 DEF Reset
  <2>2. Len(inbox') = k /\ \A i \in 1..k : inbox'[i] = inbox[i]
    BY <2>1
  <2>3. \A i \in 1..Len(inbox') : AnswerIn(i)' => i \in 1..Len(inbox) /\ AnswerIn(i)
    BY <2>2 DEF AnswerIn
  <2>4. UNCHANGED <<main, reader, field, chOpen, sendTo, asked, stales, late>>
    BY <1>5 DEF Reset
  <2>. QED
    BY <2>2, <2>3, <2>4
<1>. QED
  BY <1>1, <1>2, <1>3, <1>4, <1>5 DEF Proxy

\* A frame that is read leaves the others in order.
LEMMA TailIn ==
    ASSUME TypeOK, NEW kinds, Receives(kinds)
    PROVE  /\ Len(inbox') = Len(inbox) - 1
           /\ \A i \in 1..Len(inbox') :
                 i + 1 \in 1..Len(inbox) /\ (AnswerIn(i)' <=> AnswerIn(i + 1))
<1>1. inbox # <<>> /\ inbox' = Tail(inbox)
  BY DEF Receives
<1>2. Len(inbox') = Len(inbox) - 1
      /\ \A i \in 1..Len(inbox') : inbox'[i] = inbox[i + 1]
  BY <1>1 DEF TypeOK
<1>. QED
  BY <1>2 DEF AnswerIn, TypeOK

\* The reader moves the answer on, and picks the open channel for it.
LEMMA AnswersReader ==
    ASSUME IInv, Begin \/ Reads
    PROVE  OneAnswer' /\ Waiting' /\ FieldOk'
<1> USE DEF IInv, TypeOK, OneAnswer, Waiting, FieldOk, Clean, ReaderHasIt,
            proxyVars, Alive, Ended
<1>1. CASE Begin \/ ReadEnds
  BY <1>1 DEF Begin, ReadEnds, AnswerIn
<1>2. CASE ReceiveEvent \/ ReceiveError
  <2>1. Receives({"event"}) \/ Receives({"error"})
    BY <1>2 DEF ReceiveEvent, ReceiveError
  <2>2. UNCHANGED <<main, reader, field, chOpen, sendTo, asked, stales, late>>
    BY <1>2 DEF ReceiveEvent, ReceiveError, Receives
  <2>3. /\ Len(inbox') = Len(inbox) - 1
        /\ \A i \in 1..Len(inbox') :
              i + 1 \in 1..Len(inbox) /\ (AnswerIn(i)' <=> AnswerIn(i + 1))
    BY <2>1, TailIn
  <2>. QED
    BY <2>2, <2>3
<1>3. CASE ReceiveAnswer
  <2>1. Receives({"answer", "stale"})
    BY <1>3 DEF ReceiveAnswer
  <2>2. /\ UNCHANGED <<main, field, chOpen, sendTo, asked, stales, late>>
        /\ reader' \in {"recv", "decode"} /\ inbox # <<>>
        /\ Head(inbox) \in {"answer", "stale"} /\ main \notin {"panicRead", "killed"}
    BY <1>3 DEF ReceiveAnswer, Receives
  <2>3. /\ Len(inbox') = Len(inbox) - 1
        /\ \A i \in 1..Len(inbox') :
              i + 1 \in 1..Len(inbox) /\ (AnswerIn(i)' <=> AnswerIn(i + 1))
    BY <2>1, TailIn
  <2>4. 1 \in 1..Len(inbox) /\ AnswerIn(1)
    BY <2>2 DEF AnswerIn
  <2>5. Clean => \A i \in 1..Len(inbox') : ~AnswerIn(i)'
    <3> SUFFICES ASSUME Clean, NEW i \in 1..Len(inbox'), AnswerIn(i)'
                 PROVE  FALSE
      OBVIOUS
    <3>1. i + 1 \in 1..Len(inbox) /\ AnswerIn(i + 1)
      BY <2>3
    <3>2. i + 1 = 1
      BY <3>1, <2>4
    <3>. QED
      BY <3>2, <2>3
  <2>6. Clean => main = "reading" /\ ~asked
    BY <2>2, <2>4
  <2>. QED
    BY <2>2, <2>5, <2>6
<1>4. CASE ChooseChannel
  BY <1>4 DEF ChooseChannel, AnswerIn
<1>5. CASE SendPanics
  <2>1. ~Clean
    <3> SUFFICES ASSUME Clean PROVE FALSE
      OBVIOUS
    <3>1. main = "reading"
      BY <1>5 DEF SendPanics
    <3>. QED
      BY <1>5, <3>1 DEF SendPanics
  <2>. QED
    BY <1>5, <2>1 DEF SendPanics
<1>6. CASE ReadPanics
  BY <1>6 DEF ReadPanics, AnswerIn
<1>. QED
  BY <1>1, <1>2, <1>3, <1>4, <1>5, <1>6 DEF Reads

\* main leaves Read with the answer, and so with no other to come.
LEMMA AnswersMain ==
    ASSUME IInv, MainRuns \/ Killed \/ Signal
    PROVE  OneAnswer' /\ Waiting' /\ FieldOk'
<1> USE DEF IInv, TypeOK, OneAnswer, Waiting, FieldOk, Clean, ReaderHasIt,
            AnswerIn, proxyVars
<1>1. CASE Setup
  BY <1>1 DEF Setup
<1>2. CASE Query
  BY <1>2 DEF Query
<1>3. CASE Rendezvous
  BY <1>3 DEF Rendezvous
<1>4. CASE Timeout
  BY <1>4 DEF Timeout
<1>5. CASE CloseReceiver
  BY <1>5 DEF CloseReceiver
<1>6. CASE ClearReceiver
  BY <1>6 DEF ClearReceiver
<1>7. CASE CloseAgain
  BY <1>7 DEF CloseAgain
<1>8. CASE Signal \/ SendClose \/ Joined \/ Cut \/ Exit
  BY <1>8 DEF Signal, SendClose, Joined, Cut, Exit
<1>9. CASE Attach \/ Launch \/ Killed
  BY <1>9 DEF Attach, Launch, Killed, Alive, Ended
<1>. QED
  BY <1>1, <1>2, <1>3, <1>4, <1>5, <1>6, <1>7, <1>8, <1>9 DEF MainRuns

\* Every step preserves the inductive invariant.
LEMMA NextIInv == IInv /\ [Next]_vars => IInv'
<1> SUFFICES ASSUME IInv, [Next]_vars PROVE IInv'
  OBVIOUS
<1>1. TypeOK'
  BY TypeStep DEF IInv
<1>2. CASE UNCHANGED vars
  BY <1>1, <1>2 DEF vars, IInv, OneAnswer, Waiting, FieldOk, Clean,
                    ReaderHasIt, AnswerIn
<1>3. CASE Next /\ ~UNCHANGED vars
  BY <1>1, <1>3, AnswersProxy, AnswersReader, AnswersMain
     DEF Next, Proxy, Terminated, IInv
<1>. QED
  BY <1>2, <1>3

\* The inductive invariant holds in every reachable state.
THEOREM Inductive == Spec => []IInv
  BY InitIInv, NextIInv, PTL DEF Spec

-----------------------------------------------------------------------------
(***************************************************************************)
(* The theorems about the display.                                         *)
(***************************************************************************)

\* The types are correct.
THEOREM TypeCorrect == Spec => []TypeOK
<1>1. IInv => TypeOK
  BY DEF IInv
<1>. QED
  BY <1>1, Inductive, PTL

\* The hand-over of a timely answer neither blocks nor kills the reader, and
\* the channel of the query is never closed a second time.
THEOREM HandOverIsSafe == Spec => []HandOverSafe
<1>1. IInv => HandOverSafe
  BY DEF IInv, TypeOK, Waiting, FieldOk, ReaderHasIt, Clean, HandOverSafe,
         Jammed, Alive, Ended
<1>. QED
  BY <1>1, Inductive, PTL

-----------------------------------------------------------------------------
(***************************************************************************)
(* The pumps of the old client.                                            *)
(***************************************************************************)
AtWork == {"none", "select", "taken", "open"}

\* What is written, open and queued, how many were sent, where the writer is.
Follow(w, b, q, n, at) ==
    /\ \A i \in 1..Len(w) : w[i] = i
    /\ at \in AtWork =>
          /\ n = Len(w) + Len(b) + Len(q)
          /\ \A i \in 1..Len(b) : b[i] = Len(w) + i
          /\ \A i \in 1..Len(q) : q[i] = Len(w) + Len(b) + i
    /\ at \in {"none", "select"} => b = <<>>

Stretches(s) == Follow(wrote[s], batch[s], send[s], sent[s], writePump[s])

PumpsEnded(s) ==
    /\ conn[s] = "up" => /\ readPump[s] = "read"
                         /\ writePump[s] \in {"select", "taken", "open"}
    /\ conn[s] = "none" => readPump[s] = "none" /\ writePump[s] = "none"

PumpsIInv == PumpsTypeOK /\ \A s \in Sockets : Stretches(s) /\ PumpsEnded(s)

\* The steps that leave the channels, and what is made of them, alone.
Elsewhere(s) ==
    \/ SetGroupWebsocket(s) \/ Breaks(s) \/ ReaderRuns(s)
    \/ PingFails(s) \/ WriterDeletes(s) \/ WriterCloses(s)
CallerStep(p) ==
    Call(p) \/ GetGroupWebsocket(p) \/ \E s \in Sockets : SendGroupWebsocket(p, s)
Writes(s) == WriterTakes(s) \/ WriterOpens(s) \/ WriterAdds(s) \/ WriterFlushes(s)

\* Every step is one of these.
LEMMA PumpsCases ==
    ASSUME [PumpsNext]_pumpVars
    PROVE  \/ \E s \in Sockets : Elsewhere(s) \/ Writes(s)
           \/ \E p \in Callers : CallerStep(p)
           \/ Fatal
           \/ UNCHANGED pumpVars
BY DEF PumpsNext, Elsewhere, Writes, CallerStep, WriterRuns, Finished

-----------------------------------------------------------------------------
(***************************************************************************)
(* The stretches, as sequences.                                            *)
(***************************************************************************)

\* A sequence of numbers that are their own places.
LEMMA OwnPlaces ==
    ASSUME NEW q \in Seq(Nat), NEW n, n = Len(q), \A i \in 1..Len(q) : q[i] = i
    PROVE  q = [i \in 1..n |-> i]
<1>1. q \in [1..n -> Nat]
  BY LenProperties
<1>. QED
  BY <1>1

\* The writer takes the first of the queue ...
LEMMA FollowTake ==
    ASSUME NEW w \in Seq(Nat), NEW q \in Seq(Nat), q # <<>>, NEW n \in Nat,
           Follow(w, <<>>, q, n, "select")
    PROVE  /\ Follow(w, <<Head(q)>>, Tail(q), n, "taken")
           /\ Tail(q) \in Seq(Nat) /\ Len(Tail(q)) = Len(q) - 1
           /\ <<Head(q)>> \in Seq(Nat)
<1>1. /\ Head(q) \in Nat /\ Tail(q) \in Seq(Nat) /\ Len(Tail(q)) = Len(q) - 1
      /\ \A i \in 1..Len(Tail(q)) : Tail(q)[i] = q[i + 1]
  BY HeadTailProperties
<1>2. Len(q) \in Nat \ {0} /\ Head(q) = q[1] /\ Len(w) \in Nat
  BY LenProperties, EmptySeq
<1>3. Len(<<Head(q)>>) = 1 /\ <<Head(q)>>[1] = q[1] /\ <<Head(q)>> \in Seq(Nat)
  BY <1>1, <1>2
<1>. QED
  BY <1>1, <1>2, <1>3 DEF Follow, AtWork

\* ... or adds it to what is open.
LEMMA FollowAdd ==
    ASSUME NEW w \in Seq(Nat), NEW b \in Seq(Nat), NEW q \in Seq(Nat), q # <<>>,
           NEW n \in Nat, Follow(w, b, q, n, "open")
    PROVE  /\ Follow(w, Append(b, Head(q)), Tail(q), n, "open")
           /\ Tail(q) \in Seq(Nat) /\ Len(Tail(q)) = Len(q) - 1
           /\ Append(b, Head(q)) \in Seq(Nat)
<1> DEFINE a == Append(b, Head(q))
<1>1. /\ Head(q) \in Nat /\ Tail(q) \in Seq(Nat) /\ Len(Tail(q)) = Len(q) - 1
      /\ \A i \in 1..Len(Tail(q)) : Tail(q)[i] = q[i + 1]
  BY HeadTailProperties
<1>2. Len(q) \in Nat \ {0} /\ Head(q) = q[1] /\ Len(w) \in Nat /\ Len(b) \in Nat
  BY LenProperties, EmptySeq
<1>3. /\ a \in Seq(Nat) /\ Len(a) = Len(b) + 1
      /\ \A i \in 1..Len(b) : a[i] = b[i]
      /\ a[Len(b) + 1] = q[1]
  BY <1>1, <1>2, AppendProperties
<1> HIDE DEF a
<1>4. n = Len(w) + Len(a) + Len(Tail(q))
  BY <1>1, <1>2, <1>3 DEF Follow, AtWork
<1>5. \A i \in 1..Len(a) : a[i] = Len(w) + i
  <2>1. q[1] = Len(w) + Len(b) + 1 /\ \A i \in 1..Len(b) : b[i] = Len(w) + i
    BY <1>2 DEF Follow, AtWork
  <2> SUFFICES ASSUME NEW i \in 1..Len(a) PROVE a[i] = Len(w) + i
    OBVIOUS
  <2>2. CASE i \in 1..Len(b)
    BY <1>3, <2>1, <2>2
  <2>3. CASE i = Len(b) + 1
    BY <1>2, <1>3, <2>1, <2>3
  <2>. QED
    BY <1>2, <1>3, <2>2, <2>3
<1>6. \A i \in 1..Len(Tail(q)) : Tail(q)[i] = Len(w) + Len(a) + i
  <2> SUFFICES ASSUME NEW i \in 1..Len(Tail(q))
               PROVE  Tail(q)[i] = Len(w) + Len(a) + i
    OBVIOUS
  <2>1. i + 1 \in 1..Len(q) /\ Tail(q)[i] = q[i + 1]
    BY <1>1, <1>2
  <2>2. q[i + 1] = Len(w) + Len(b) + (i + 1)
    BY <2>1 DEF Follow, AtWork
  <2>. QED
    BY <1>2, <1>3, <2>1, <2>2
<1>7. Follow(w, a, Tail(q), n, "open")
  BY <1>4, <1>5, <1>6 DEF Follow, AtWork
<1>. QED
  BY <1>1, <1>3, <1>7 DEF a

\* What is open is written.
LEMMA FollowFlush ==
    ASSUME NEW w \in Seq(Nat), NEW b \in Seq(Nat), NEW q \in Seq(Nat),
           NEW n \in Nat, Follow(w, b, q, n, "open")
    PROVE  /\ Follow(w \o b, <<>>, q, n, "select")
           /\ w \o b \in Seq(Nat)
<1> DEFINE c == w \o b
<1>1. /\ c \in Seq(Nat) /\ Len(c) = Len(w) + Len(b)
      /\ \A i \in 1..Len(w) + Len(b) :
            c[i] = IF i <= Len(w) THEN w[i] ELSE b[i - Len(w)]
  BY ConcatProperties
<1>2. Len(q) \in Nat /\ Len(w) \in Nat /\ Len(b) \in Nat
  BY LenProperties
<1> HIDE DEF c
<1>3. \A i \in 1..Len(c) : c[i] = i
  <2> SUFFICES ASSUME NEW i \in 1..Len(c) PROVE c[i] = i
    OBVIOUS
  <2>1. CASE i <= Len(w)
    <3>1. i \in 1..Len(w) /\ c[i] = w[i]
      BY <1>1, <1>2, <2>1
    <3>. QED
      BY <3>1 DEF Follow
  <2>2. CASE i > Len(w)
    <3>1. i - Len(w) \in 1..Len(b) /\ c[i] = b[i - Len(w)]
      BY <1>1, <1>2, <2>2
    <3>2. b[i - Len(w)] = Len(w) + (i - Len(w))
      BY <3>1 DEF Follow, AtWork
    <3>. QED
      BY <1>1, <1>2, <3>1, <3>2
  <2>. QED
    BY <1>1, <1>2, <2>1, <2>2
<1>4. Follow(c, <<>>, q, n, "select")
  BY <1>1, <1>2, <1>3 DEF Follow, AtWork
<1>. QED
  BY <1>1, <1>4 DEF c

\* The queue gets another number.
LEMMA FollowSend ==
    ASSUME NEW w \in Seq(Nat), NEW b \in Seq(Nat), NEW q \in Seq(Nat),
           NEW n \in Nat, NEW at, Follow(w, b, q, n, at)
    PROVE  /\ Follow(w, b, Append(q, n + 1), n + 1, at)
           /\ Append(q, n + 1) \in Seq(Nat) /\ Len(Append(q, n + 1)) = Len(q) + 1
<1> DEFINE a == Append(q, n + 1)
<1>1. /\ a \in Seq(Nat) /\ Len(a) = Len(q) + 1
      /\ \A i \in 1..Len(q) : a[i] = q[i]
      /\ a[Len(q) + 1] = n + 1
  BY AppendProperties
<1>2. Len(q) \in Nat /\ Len(w) \in Nat /\ Len(b) \in Nat
  BY LenProperties
<1> HIDE DEF a
<1>3. CASE at \in AtWork
  <2>1. /\ n = Len(w) + Len(b) + Len(q)
        /\ \A i \in 1..Len(q) : q[i] = Len(w) + Len(b) + i
    BY <1>3 DEF Follow
  <2>2. n + 1 = Len(w) + Len(b) + Len(a)
    BY <1>1, <1>2, <2>1
  <2>3. ASSUME NEW i \in 1..Len(a) PROVE a[i] = Len(w) + Len(b) + i
    <3>1. CASE i \in 1..Len(q)
      BY <1>1, <2>1, <3>1
    <3>2. CASE i = Len(q) + 1
      BY <1>1, <2>1, <3>2, <1>2
    <3>. QED
      BY <1>1, <1>2, <3>1, <3>2
  <2>. QED
    BY <1>1, <1>3, <2>2, <2>3 DEF Follow, a
<1>4. CASE at \notin AtWork
  BY <1>1, <1>4 DEF Follow, a, AtWork
<1>. QED
  BY <1>3, <1>4

\* A writer that gives up leaves what is written.
LEMMA FollowEnd ==
    ASSUME NEW w, NEW b, NEW q, NEW n, NEW at, Follow(w, b, q, n, at),
           NEW b2, NEW q2, NEW at2, at2 \notin AtWork
    PROVE  Follow(w, b2, q2, n, at2)
BY DEF Follow, AtWork

-----------------------------------------------------------------------------
\* No websocket yet, and nothing sent.
LEMMA InitPumpsIInv == PumpsInit => PumpsIInv
<1> SUFFICES ASSUME PumpsInit PROVE PumpsIInv
  OBVIOUS
<1> USE PumpsAssumption DEF PumpsInit
<1>1. <<>> \in Seq(Nat) /\ Len(<<>>) = 0 /\ 0 \in 0..Cap
  OBVIOUS
<1>2. /\ send \in [Sockets -> Seq(Nat)] /\ batch = send /\ wrote = send
      /\ \A s \in Sockets : send[s] = <<>> /\ Len(send[s]) = 0
  BY <1>1
<1>3. /\ left \in [Sockets -> 0..Cap] /\ sent \in [Sockets -> Nat]
      /\ \A s \in Sockets : sent[s] = 0
  BY <1>1
<1>4. /\ caller \in [Callers -> {"idle", "get"} \cup Sockets]
      /\ conn \in [Sockets -> {"none", "up", "broken", "closed"}]
      /\ readPump \in [Sockets -> {"none", "read", "delete", "deleteAgain", "close",
                               "gone"}]
      /\ writePump \in [Sockets -> {"none", "select", "taken", "open", "delete", "close",
                                "gone"}]
  OBVIOUS
<1>5. PumpsTypeOK
  <2>1. \A s \in Sockets : Len(send[s]) <= Cap
    BY <1>2
  <2>. QED
    BY <1>2, <1>3, <1>4, <2>1 DEF PumpsTypeOK
<1>6. \A s \in Sockets : Stretches(s) /\ PumpsEnded(s)
  BY <1>2, <1>3, <1>4 DEF Stretches, PumpsEnded, Follow
<1>. QED
  BY <1>5, <1>6 DEF PumpsIInv

\* The map, the connections and the ends of the pumps.
LEMMA ElsewhereKeeps ==
    ASSUME PumpsIInv, NEW s \in Sockets, Elsewhere(s)
    PROVE  PumpsIInv'
<1> USE DEF PumpsIInv, PumpsTypeOK, ReaderTo, WriterTo, ReaderAt, WriterAt, outVars
<1>0. UNCHANGED outVars
  BY DEF Elsewhere, SetGroupWebsocket, Breaks, ReaderRuns, ReadFails, ReaderDeletes,
         ReaderCloses, PingFails, WriterDeletes, WriterCloses
<1>1. PumpsTypeOK' /\ \A t \in Sockets : PumpsEnded(t)'
  <2> USE DEF PumpsEnded
  <2>1. CASE SetGroupWebsocket(s)
    BY <1>0, <2>1 DEF SetGroupWebsocket
  <2>2. CASE Breaks(s)
    BY <1>0, <2>2 DEF Breaks
  <2>3. CASE ReadFails(s)
    BY <1>0, <2>3 DEF ReadFails
  <2>4. CASE ReaderDeletes(s)
    BY <1>0, <2>4 DEF ReaderDeletes
  <2>5. CASE ReaderCloses(s)
    BY <1>0, <2>5 DEF ReaderCloses
  <2>6. CASE PingFails(s)
    BY <1>0, <2>6 DEF PingFails
  <2>7. CASE WriterDeletes(s)
    BY <1>0, <2>7 DEF WriterDeletes
  <2>8. CASE WriterCloses(s)
    BY <1>0, <2>8 DEF WriterCloses
  <2>. QED
    BY <2>1, <2>2, <2>3, <2>4, <2>5, <2>6, <2>7, <2>8 DEF Elsewhere, ReaderRuns
<1>2. ASSUME NEW t \in Sockets PROVE Stretches(t)'
  <2>1. /\ writePump'[t] \in AtWork => writePump[t] \in AtWork
        /\ writePump'[t] \in {"none", "select"} => writePump[t] \in {"none", "select"}
    BY DEF Elsewhere, SetGroupWebsocket, Breaks, ReaderRuns, ReadFails, ReaderDeletes,
           ReaderCloses, PingFails, WriterDeletes, WriterCloses, AtWork, PumpsEnded
  <2>. QED
    BY <1>0, <2>1 DEF Stretches, Follow
<1>. QED
  BY <1>1, <1>2

\* The callers: a message gets the next number, at the end of the queue.
LEMMA CallerKeeps ==
    ASSUME PumpsIInv, NEW p \in Callers, CallerStep(p)
    PROVE  PumpsIInv'
<1> USE DEF PumpsIInv, PumpsTypeOK, CallerTo, outVars
<1>1. CASE Call(p)
  BY <1>1 DEF Call, Stretches, PumpsEnded
<1>2. CASE GetGroupWebsocket(p)
  BY <1>2 DEF GetGroupWebsocket, Stretches, PumpsEnded
<1>3. ASSUME NEW s \in Sockets, SendGroupWebsocket(p, s) PROVE PumpsIInv'
  <2> DEFINE q == Append(send[s], sent[s] + 1)
  <2>1. /\ Follow(wrote[s], batch[s], q, sent[s] + 1, writePump[s])
        /\ q \in Seq(Nat) /\ Len(q) = Len(send[s]) + 1
    BY FollowSend DEF Stretches
  <2>2. /\ send' = [send EXCEPT ![s] = q] /\ sent' = [sent EXCEPT ![s] = @ + 1]
        /\ Len(send[s]) < Cap
        /\ caller' = [caller EXCEPT ![p] = "idle"]
        /\ UNCHANGED <<wsGroup, batch, left, wrote, conn, readPump, writePump, dead>>
    BY <1>3 DEF SendGroupWebsocket
  <2> HIDE DEF q
  <2>3. \A t \in Sockets : Len(send'[t]) <= Cap
    BY <2>1, <2>2, PumpsAssumption
  <2>4. PumpsTypeOK'
    BY <2>1, <2>2, <2>3, SMTT(30)
  <2>5. \A t \in Sockets : Stretches(t)'
    BY <2>1, <2>2 DEF Stretches
  <2>6. \A t \in Sockets : PumpsEnded(t)'
    BY <2>2 DEF PumpsEnded
  <2>. QED
    BY <2>4, <2>5, <2>6
<1>. QED
  BY <1>1, <1>2, <1>3 DEF CallerStep

\* The writer: the stretches stay one after the other.
LEMMA WritesKeeps ==
    ASSUME PumpsIInv, NEW s \in Sockets, Writes(s)
    PROVE  PumpsIInv'
<1> USE DEF PumpsIInv, PumpsTypeOK, WriterAt, WriterTo
<1>1. CASE WriterTakes(s)
  <2>1. /\ send[s] # <<>> /\ writePump[s] = "select" /\ batch[s] = <<>>
        /\ send' = [send EXCEPT ![s] = Tail(send[s])]
        /\ batch' = [batch EXCEPT ![s] = <<Head(send[s])>>]
        /\ writePump' = [writePump EXCEPT ![s] = "taken"]
        /\ UNCHANGED <<wsGroup, left, wrote, sent, conn, readPump, caller, dead>>
    BY <1>1 DEF WriterTakes, Stretches, Follow
  <2>2. /\ Follow(wrote[s], <<Head(send[s])>>, Tail(send[s]), sent[s], "taken")
        /\ Tail(send[s]) \in Seq(Nat) /\ Len(Tail(send[s])) = Len(send[s]) - 1
        /\ <<Head(send[s])>> \in Seq(Nat)
    BY <2>1, FollowTake DEF Stretches
  <2>3. \A t \in Sockets : Len(send'[t]) <= Cap
    BY <2>1, <2>2, PumpsAssumption
  <2>4. PumpsTypeOK'
    BY <2>1, <2>2, <2>3
  <2>5. \A t \in Sockets : Stretches(t)'
    BY <2>1, <2>2 DEF Stretches
  <2>6. \A t \in Sockets : PumpsEnded(t)'
    BY <2>1 DEF PumpsEnded
  <2>. QED
    BY <2>4, <2>5, <2>6
<1>2. CASE WriterOpens(s)
  <2>1. CASE /\ writePump' = [writePump EXCEPT ![s] = "open"]
             /\ left' = [left EXCEPT ![s] = Len(send[s])] /\ UNCHANGED batch
    <3>1. Len(send[s]) \in 0..Cap
      BY PumpsAssumption
    <3>2. PumpsTypeOK'
      BY <1>2, <2>1, <3>1 DEF WriterOpens
    <3>3. \A t \in Sockets : Stretches(t)'
      BY <1>2, <2>1 DEF WriterOpens, Stretches, Follow, AtWork
    <3>4. \A t \in Sockets : PumpsEnded(t)'
      BY <1>2, <2>1 DEF WriterOpens, PumpsEnded
    <3>. QED
      BY <3>2, <3>3, <3>4
  <2>2. CASE /\ conn[s] # "up" /\ writePump' = [writePump EXCEPT ![s] = "delete"]
             /\ batch' = [batch EXCEPT ![s] = <<>>] /\ UNCHANGED left
    <3>1. PumpsTypeOK'
      BY <1>2, <2>2 DEF WriterOpens
    <3>2. Follow(wrote[s], <<>>, send[s], sent[s], "delete")
      BY FollowEnd DEF Stretches, AtWork
    <3>3. \A t \in Sockets : Stretches(t)'
      BY <1>2, <2>2, <3>2 DEF WriterOpens, Stretches
    <3>4. \A t \in Sockets : PumpsEnded(t)'
      BY <1>2, <2>2 DEF WriterOpens, PumpsEnded
    <3>. QED
      BY <3>1, <3>3, <3>4
  <2>. QED
    BY <1>2, <2>1, <2>2 DEF WriterOpens
<1>3. CASE WriterAdds(s)
  <2>1. /\ send[s] # <<>> /\ writePump[s] = "open" /\ left[s] > 0
        /\ send' = [send EXCEPT ![s] = Tail(send[s])]
        /\ batch' = [batch EXCEPT ![s] = Append(batch[s], Head(send[s]))]
        /\ left' = [left EXCEPT ![s] = left[s] - 1]
        /\ UNCHANGED <<wsGroup, wrote, sent, conn, readPump, writePump, caller, dead>>
    BY <1>3 DEF WriterAdds
  <2>2. /\ Follow(wrote[s], Append(batch[s], Head(send[s])), Tail(send[s]), sent[s],
                  "open")
        /\ Tail(send[s]) \in Seq(Nat) /\ Len(Tail(send[s])) = Len(send[s]) - 1
        /\ Append(batch[s], Head(send[s])) \in Seq(Nat)
    BY <2>1, FollowAdd DEF Stretches
  <2>3. left[s] - 1 \in 0..Cap
    BY <2>1, PumpsAssumption
  <2>4. \A t \in Sockets : Len(send'[t]) <= Cap
    BY <2>1, <2>2, PumpsAssumption
  <2>5. PumpsTypeOK'
    BY <2>1, <2>2, <2>3, <2>4
  <2>6. \A t \in Sockets : Stretches(t)'
    BY <2>1, <2>2 DEF Stretches
  <2>7. \A t \in Sockets : PumpsEnded(t)'
    BY <2>1 DEF PumpsEnded
  <2>. QED
    BY <2>5, <2>6, <2>7
<1>4. CASE WriterFlushes(s)
  <2>1. /\ writePump[s] = "open" /\ batch' = [batch EXCEPT ![s] = <<>>]
        /\ UNCHANGED <<wsGroup, send, left, sent, conn, readPump, caller, dead>>
    BY <1>4 DEF WriterFlushes
  <2>2. CASE /\ wrote' = [wrote EXCEPT ![s] = wrote[s] \o batch[s]]
             /\ writePump' = [writePump EXCEPT ![s] = "select"]
    <3>1. /\ Follow(wrote[s] \o batch[s], <<>>, send[s], sent[s], "select")
          /\ wrote[s] \o batch[s] \in Seq(Nat)
      BY <2>1, FollowFlush DEF Stretches
    <3>2. PumpsTypeOK'
      BY <2>1, <2>2, <3>1
    <3>3. \A t \in Sockets : Stretches(t)'
      BY <2>1, <2>2, <3>1 DEF Stretches
    <3>4. \A t \in Sockets : PumpsEnded(t)'
      BY <2>1, <2>2 DEF PumpsEnded
    <3>. QED
      BY <3>2, <3>3, <3>4
  <2>3. CASE /\ conn[s] # "up" /\ UNCHANGED wrote
             /\ writePump' = [writePump EXCEPT ![s] = "delete"]
    <3>1. PumpsTypeOK'
      BY <2>1, <2>3
    <3>2. Follow(wrote[s], <<>>, send[s], sent[s], "delete")
      BY FollowEnd DEF Stretches, AtWork
    <3>3. \A t \in Sockets : Stretches(t)'
      BY <2>1, <2>3, <3>2 DEF Stretches
    <3>4. \A t \in Sockets : PumpsEnded(t)'
      BY <2>1, <2>3 DEF PumpsEnded
    <3>. QED
      BY <3>1, <3>3, <3>4
  <2>. QED
    BY <1>4, <2>2, <2>3 DEF WriterFlushes
<1>. QED
  BY <1>1, <1>2, <1>3, <1>4 DEF Writes

\* Every step preserves the inductive invariant.
LEMMA NextPumpsIInv == PumpsIInv /\ [PumpsNext]_pumpVars => PumpsIInv'
<1> SUFFICES ASSUME PumpsIInv, [PumpsNext]_pumpVars PROVE PumpsIInv'
  OBVIOUS
<1>1. CASE UNCHANGED pumpVars
  BY <1>1 DEF pumpVars, PumpsIInv, PumpsTypeOK, Stretches, PumpsEnded
<1>2. CASE Fatal
  BY <1>2 DEF Fatal, outVars, PumpsIInv, PumpsTypeOK, Stretches, PumpsEnded
<1>. QED
  BY <1>1, <1>2, PumpsCases, ElsewhereKeeps, CallerKeeps, WritesKeeps

\* The inductive invariant holds in every reachable state.
THEOREM PumpsInductive == PumpsSpec => []PumpsIInv
  BY InitPumpsIInv, NextPumpsIInv, PTL DEF PumpsSpec

-----------------------------------------------------------------------------
(***************************************************************************)
(* The theorems about the pumps.                                           *)
(***************************************************************************)

\* The types are correct: no channel is ever over its capacity.
THEOREM PumpsTypeCorrect == PumpsSpec => []PumpsTypeOK
<1>1. PumpsIInv => PumpsTypeOK
  BY DEF PumpsIInv
<1>. QED
  BY <1>1, PumpsInductive, PTL

\* Three stretches that follow each other are, together, all of it.
LEMMA FollowAll ==
    ASSUME NEW w \in Seq(Nat), NEW b \in Seq(Nat), NEW q \in Seq(Nat),
           NEW n \in Nat, NEW at \in AtWork, Follow(w, b, q, n, at)
    PROVE  w \o b \o q = [i \in 1..n |-> i]
<1>1. Follow(w, b, q, n, "open")
  BY DEF Follow, AtWork
<1> DEFINE c == w \o b
<1>2. c \in Seq(Nat) /\ Follow(c, <<>>, q, n, "select")
  BY <1>1, FollowFlush
<1> HIDE DEF c
<1>3. /\ n = Len(c) + Len(q)
      /\ \A i \in 1..Len(q) : q[i] = Len(c) + i
      /\ \A i \in 1..Len(c) : c[i] = i
  <2>1. n = Len(c) + 0 + Len(q) /\ \A i \in 1..Len(q) : q[i] = Len(c) + 0 + i
    BY <1>2, EmptySeq DEF Follow, AtWork
  <2>2. Len(c) \in Nat /\ Len(q) \in Nat
    BY <1>2, LenProperties
  <2>. QED
    BY <1>2, <2>1, <2>2 DEF Follow
<1>4. Follow(c, q, <<>>, n, "open")
  <2>1. Len(c) \in Nat /\ Len(q) \in Nat /\ Len(<<>>) = 0
    BY <1>2, LenProperties, EmptySeq
  <2>. QED
    BY <1>3, <2>1 DEF Follow, AtWork
<1>5. c \o q \in Seq(Nat) /\ Follow(c \o q, <<>>, <<>>, n, "select")
  BY <1>2, <1>4, EmptySeq, FollowFlush
<1> DEFINE d == c \o q
<1> HIDE DEF d
<1>6. d \in Seq(Nat) /\ Follow(d, <<>>, <<>>, n, "select")
  BY <1>5 DEF d
<1>7. n = Len(d) /\ \A i \in 1..Len(d) : d[i] = i
  <2>1. n = Len(d) + 0 + 0 /\ \A i \in 1..Len(d) : d[i] = i
    BY <1>6, EmptySeq DEF Follow, AtWork
  <2>. QED
    BY <1>6, <2>1, LenProperties
<1>8. d = [i \in 1..n |-> i]
  BY <1>6, <1>7, OwnPlaces
<1>. QED
  BY <1>8 DEF c, d

\* So what is in order place by place is in order.
LEMMA InOrderOf == PumpsIInv => InOrder
<1> SUFFICES ASSUME PumpsIInv, NEW s \in Sockets
             PROVE  /\ wrote[s] = [i \in 1..Len(wrote[s]) |-> i]
                    /\ writePump[s] \in {"select", "taken", "open"} =>
                         wrote[s] \o batch[s] \o send[s] = [i \in 1..sent[s] |-> i]
  BY DEF InOrder
<1>1. /\ wrote[s] \in Seq(Nat) /\ batch[s] \in Seq(Nat) /\ send[s] \in Seq(Nat)
      /\ sent[s] \in Nat
      /\ Follow(wrote[s], batch[s], send[s], sent[s], writePump[s])
  BY DEF PumpsIInv, PumpsTypeOK, Stretches
<1>2. wrote[s] = [i \in 1..Len(wrote[s]) |-> i]
  BY <1>1, OwnPlaces DEF Follow
<1>3. ASSUME writePump[s] \in {"select", "taken", "open"}
      PROVE  wrote[s] \o batch[s] \o send[s] = [i \in 1..sent[s] |-> i]
  <2>1. writePump[s] \in AtWork
    BY <1>3 DEF AtWork
  <2>. QED
    BY <1>1, <2>1, FollowAll
<1>. QED
  BY <1>2, <1>3

\* What a channel accepts is written in order, once.
THEOREM WrittenInOrder == PumpsSpec => []InOrder
  BY InOrderOf, PumpsInductive, PTL

\* Only the pumps of others can take a websocket in use out of the map.
THEOREM InUseIsSettled == PumpsSpec => Settled
<1> DEFINE Keeps(s) ==
        /\ wsGroup = s /\ conn[s] = "up"
        /\ \A t \in Sockets \ {s} : conn[t] # "none" => Gone(t)
        => \/ wsGroup' = s
           \/ \E t \in Sockets : conn[t] = "none" /\ wsGroup' = t
<1>1. ASSUME PumpsIInv, [PumpsNext]_pumpVars, NEW s \in Sockets PROVE Keeps(s)
  <2> SUFFICES ASSUME wsGroup = s, conn[s] = "up",
                      \A t \in Sockets \ {s} : conn[t] # "none" => Gone(t)
               PROVE  \/ wsGroup' = s
                      \/ \E t \in Sockets : conn[t] = "none" /\ wsGroup' = t
    OBVIOUS
  <2>1. \A t \in Sockets : /\ readPump[t] \notin {"delete", "deleteAgain"}
                           /\ writePump[t] # "delete"
    BY <1>1 DEF PumpsIInv, PumpsEnded, Gone
  <2>2. ASSUME NEW t \in Sockets, Elsewhere(t)
        PROVE  \/ wsGroup' = wsGroup
               \/ conn[t] = "none" /\ wsGroup' = t
    BY <2>1, <2>2 DEF Elsewhere, SetGroupWebsocket, Breaks, ReaderRuns, ReadFails,
         ReaderDeletes, ReaderCloses, PingFails, WriterDeletes, WriterCloses,
         ReaderAt, WriterAt
  <2>3. ASSUME NEW t \in Sockets, Writes(t) PROVE wsGroup' = wsGroup
    BY <2>3 DEF Writes, WriterTakes, WriterOpens, WriterAdds, WriterFlushes
  <2>4. ASSUME NEW p \in Callers, CallerStep(p) PROVE wsGroup' = wsGroup
    BY <2>4 DEF CallerStep, Call, GetGroupWebsocket, SendGroupWebsocket
  <2>5. CASE Fatal \/ UNCHANGED pumpVars
    BY <2>5 DEF Fatal, pumpVars
  <2>. QED
    BY <1>1, <2>2, <2>3, <2>4, <2>5, PumpsCases
<1>2. PumpsIInv /\ [PumpsNext]_pumpVars => [\A s \in Sockets : Keeps(s)]_pumpVars
  BY <1>1
<1>3. PumpsSpec => [][\A s \in Sockets : Keeps(s)]_pumpVars
  BY <1>2, PumpsInductive, PTL DEF PumpsSpec
<1>. QED
  BY <1>3 DEF Settled
=============================================================================
