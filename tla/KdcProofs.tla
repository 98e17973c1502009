------------------------------ MODULE KdcProofs ------------------------------
(***************************************************************************)
(* KdcProxy implements KdcRace, for any number of KDCs.                     *)
(*                                                                          *)
(* The handler only counts the messages it takes.  The invariant says what  *)
(* the count stands for: every goroutine that has ended sent one message,   *)
(* which was taken or is in the channel, so that a count of all started     *)
(* goroutines leaves no reply unread.                                       *)
(***************************************************************************)
EXTENDS KdcProxy, FiniteSetTheorems, TLAPS

Ended == {k \in Endpoints : reader[k] = "ended"}

\* A reply is complete only after the read, and dialling comes before reading.
ReaderInv ==
  /\ \A k \in Endpoints : reader[k] \in {"none", "read", "body"} => ~got[k]
  /\ \A k \in Endpoints : reader[k] # "none" => k \in dialed
  /\ pc = "handle" => dialed = {}

\* The channel holds ended goroutines, each once, and with the messages taken it
\* accounts for all of them.
ChannelInv ==
  /\ \A i \in 1..Len(replies) : reader[replies[i]] = "ended"
  /\ \A i, j \in 1..Len(replies) : replies[i] = replies[j] => i = j
  /\ Cardinality(Ended) = taken + Len(replies)
  /\ pc # "done" =>
       \A k \in Ended : got[k] => \E i \in 1..Len(replies) : replies[i] = k

\* While the handler has not answered, the first reply is the first in the channel.
FirstInv ==
  pc # "done" =>
    IF first = None
    THEN \A k \in Ended : ~got[k]
    ELSE \E i \in 1..Len(replies) :
           /\ replies[i] = first /\ got[first]
           /\ \A j \in 1..(i - 1) : ~got[replies[j]]

AnswerInv ==
  /\ pc # "done" => status = None /\ answer = None
  /\ pc = "done" =>
       \/ status = 200 /\ answer = first /\ first # None
       \/ /\ status \notin {None, 200} /\ answer = None /\ first = None
          /\ \A k \in Endpoints : ~got[k] /\ reader[k] \in {"none", "ended"}

IInv == TypeOK /\ ReaderInv /\ ChannelInv /\ FirstInv /\ AnswerInv

LEMMA EndpointsFinite == IsFiniteSet(Endpoints)
  BY KdcAssumption, FS_Union DEF Endpoints

LEMMA RefusalType == ASSUME NEW r \in Request PROVE Refusal(r) \in {None, 400, 405, 411, 413, 500}
  BY DEF Request, Refusal

LEMMA InitInv == Init => IInv
  <1> SUFFICES ASSUME Init PROVE IInv
    OBVIOUS
  <1>1. Ended = {}
    BY DEF Init, Ended
  <1>2. Cardinality({}) = 0
    BY FS_EmptySet
  <1> QED
    BY <1>1, <1>2 DEF Init, IInv, TypeOK, ReaderInv, ChannelInv, FirstInv, AnswerInv

LEMMA NextInv == IInv /\ [Next]_vars => IInv'
  <1> SUFFICES ASSUME IInv, [Next]_vars PROVE IInv'
    OBVIOUS
  <1> USE DEF IInv
  <1>fin. /\ IsFiniteSet(Ended) /\ IsFiniteSet(Started) /\ Ended \subseteq Started
          /\ Cardinality(Ended) \in Nat /\ Cardinality(Started) \in Nat
    BY EndpointsFinite, FS_Subset, FS_CardinalityType DEF Ended, Started
  <1>1. CASE Refuse
    <2>1. Refusal(req) \in {400, 405, 411, 413, 500}
      BY <1>1, RefusalType DEF Refuse, TypeOK
    <2>2. \A k \in Endpoints : ~got[k] /\ reader[k] = "none"
      BY <1>1 DEF Refuse, ReaderInv, TypeOK
    <2>3. first = None
      BY <1>1, <2>2 DEF Refuse, FirstInv, ChannelInv, TypeOK
    <2> QED
      BY <1>1, <2>1, <2>2, <2>3, KdcAssumption
      DEF Refuse, Return, TypeOK, ReaderInv, ChannelInv, FirstInv, AnswerInv, Ended, Statuses
  <1>2. CASE NoKdcs
    <2>2. \A k \in Endpoints : ~got[k] /\ reader[k] = "none"
      BY <1>2 DEF NoKdcs, ReaderInv, TypeOK
    <2>3. first = None
      BY <1>2, <2>2 DEF NoKdcs, FirstInv, ChannelInv, TypeOK
    <2> QED
      BY <1>2, <2>2, <2>3, KdcAssumption
      DEF NoKdcs, Return, TypeOK, ReaderInv, ChannelInv, FirstInv, AnswerInv, Ended, Statuses
  <1>3. CASE Forward
    BY <1>3 DEF Forward, forwardVars, TypeOK, ReaderInv, ChannelInv, FirstInv, AnswerInv, Ended
  <1>4. CASE Collect
    BY <1>4 DEF Collect, forwardVars, TypeOK, ReaderInv, ChannelInv, FirstInv, AnswerInv, Ended
  <1>5. CASE Take
    <2> DEFINE k == Head(replies)
    <2>1. /\ k \in Endpoints /\ replies[1] = k /\ Len(replies) > 0 /\ Len(replies) \in Nat
          /\ replies' \in Seq(Endpoints) /\ Len(replies') = Len(replies) - 1
          /\ \A i \in 1..Len(replies') : replies'[i] = replies[i + 1]
      BY <1>5 DEF Take, TypeOK
    <2>2. Ended' = Ended /\ reader' = reader /\ got' = got /\ first' = first /\ taken' = taken + 1
      BY <1>5 DEF Take, Ended
    <2>3. /\ \A i \in 1..Len(replies') : reader[replies'[i]] = "ended"
          /\ \A i, j \in 1..Len(replies') : replies'[i] = replies'[j] => i = j
          /\ Cardinality(Ended) = taken' + Len(replies')
      <3>1. \A i \in 1..Len(replies') : i + 1 \in 1..Len(replies)
        BY <2>1
      <3>2. Cardinality(Ended) = taken + Len(replies) /\ taken \in Nat
        BY DEF ChannelInv, TypeOK
      <3>3. Cardinality(Ended) = taken' + Len(replies')
        BY <3>2, <2>1, <2>2
      <3>4. \A i, j \in 1..Len(replies') : replies'[i] = replies'[j] => i = j
        <4> SUFFICES ASSUME NEW i \in 1..Len(replies'), NEW j \in 1..Len(replies'),
                            replies'[i] = replies'[j]
                     PROVE  i = j
          OBVIOUS
        <4>1. i + 1 = j + 1
          BY <3>1, <2>1 DEF ChannelInv
        <4> QED
          BY <4>1
      <3> QED
        BY <3>1, <3>3, <3>4, <2>1 DEF ChannelInv
    <2>4. CASE got[k]
      <3>1. first = k
        <4>1. k \in Ended
          BY <2>1 DEF ChannelInv, Ended
        <4>2. first # None
          BY <4>1, <2>4, <1>5 DEF Take, FirstInv
        <4>3. PICK i \in 1..Len(replies) :
                /\ replies[i] = first /\ got[first]
                /\ \A j \in 1..(i - 1) : ~got[replies[j]]
          BY <4>2, <1>5 DEF Take, FirstInv
        <4>4. i = 1
          BY <4>3, <2>1, <2>4
        <4> QED
          BY <4>3, <4>4, <2>1
      <3>2. pc' = "done" /\ status' = 200 /\ answer' = k
            /\ conn' = [e \in Endpoints |-> IF conn[e] = "open" THEN "closed" ELSE conn[e]]
            /\ UNCHANGED <<req, dialed>>
        BY <1>5, <2>4 DEF Take, Return
      <3>3. TypeOK'
        BY <3>2, <2>1, <2>2 DEF TypeOK, Statuses
      <3>4. ReaderInv'
        BY <3>2, <2>2 DEF ReaderInv
      <3>5. ChannelInv'
        BY <3>2, <2>2, <2>3 DEF ChannelInv
      <3> QED
        BY <3>1, <3>2, <3>3, <3>4, <3>5, <2>1, <2>2, KdcAssumption DEF FirstInv, AnswerInv
    <2>5. CASE ~got[k]
      <3>2. UNCHANGED <<pc, conn, status, answer, req, dialed>>
        BY <1>5, <2>5 DEF Take
      <3>3. TypeOK'
        BY <3>2, <2>1, <2>2 DEF TypeOK
      <3>4. ReaderInv'
        BY <3>2, <2>2 DEF ReaderInv
      <3>5. \A e \in Ended : got[e] => \E i \in 1..Len(replies') : replies'[i] = e
        <4> SUFFICES ASSUME NEW e \in Ended, got[e]
                     PROVE  \E i \in 1..Len(replies') : replies'[i] = e
          OBVIOUS
        <4>1. PICK i \in 1..Len(replies) : replies[i] = e
          BY <1>5 DEF Take, ChannelInv
        <4>2. i # 1
          BY <4>1, <2>1, <2>5
        <4>3. i - 1 \in 1..Len(replies') /\ i - 1 + 1 = i
          BY <4>2, <2>1
        <4>4. replies'[i - 1] = e
          BY <4>1, <4>3, <2>1
        <4> QED
          BY <4>3, <4>4
      <3>6. ChannelInv'
        BY <3>2, <3>5, <2>2, <2>3 DEF ChannelInv
      <3>7. FirstInv'
        <4>1. CASE first = None
          BY <4>1, <3>2, <2>2 DEF FirstInv
        <4>2. CASE first # None
          <5>1. PICK i \in 1..Len(replies) :
                  /\ replies[i] = first /\ got[first]
                  /\ \A j \in 1..(i - 1) : ~got[replies[j]]
            BY <4>2, <1>5 DEF Take, FirstInv
          <5>2. i - 1 \in 1..Len(replies')
            BY <5>1, <2>1, <2>5
          <5>3. \A j \in 1..(i - 1 - 1) : ~got[replies'[j]]
            BY <5>1, <5>2, <2>1
          <5>4. replies'[i - 1] = first
            BY <5>1, <5>2, <2>1
          <5> QED
            BY <5>1, <5>2, <5>3, <5>4, <2>2, <4>2 DEF FirstInv
        <4> QED
          BY <4>1, <4>2
      <3> QED
        BY <3>2, <3>3, <3>4, <3>6, <3>7, <2>2, <1>5 DEF AnswerInv, Take
    <2> QED
      BY <2>4, <2>5
  <1>6. CASE GiveUp
    <2>1. Len(replies) \in Nat /\ taken \in Nat
      BY DEF TypeOK
    <2>2. Cardinality(Ended) <= Cardinality(Started)
      BY <1>fin, FS_Subset
    <2>3. Len(replies) = 0 /\ Cardinality(Ended) = Cardinality(Started)
      BY <1>6, <1>fin, <2>1, <2>2 DEF GiveUp, ChannelInv
    <2>4. Ended = Started
      BY <1>fin, <2>3, FS_Subset
    <2>5. \A k \in Endpoints : ~got[k] /\ reader[k] \in {"none", "ended"}
      <3> SUFFICES ASSUME NEW k \in Endpoints PROVE ~got[k] /\ reader[k] \in {"none", "ended"}
        OBVIOUS
      <3>1. CASE reader[k] = "none"
        BY <3>1 DEF ReaderInv
      <3>2. CASE reader[k] # "none"
        <4>1. k \in Ended
          BY <2>4, <3>2 DEF Started
        <4> QED
          BY <4>1, <2>3, <1>6 DEF GiveUp, ChannelInv, Ended
      <3> QED
        BY <3>1, <3>2
    <2>6. first = None
      BY <2>3, <1>6 DEF GiveUp, FirstInv
    <2> QED
      BY <1>6, <2>5, <2>6, KdcAssumption
      DEF GiveUp, Return, TypeOK, ReaderInv, ChannelInv, FirstInv, AnswerInv, Ended, Statuses
  <1>7. CASE \E k \in Endpoints : Connect(k)
    <2>1. PICK k \in Endpoints : Connect(k)
      BY <1>7
    <2>2. CASE Dial(k)
      <3>1. reader[k] = "none" /\ k \notin dialed /\ dialed' = dialed \union {k}
        BY <2>2 DEF Dial, NextKdc, ReaderInv
      <3>2. reader' = [reader EXCEPT ![k] = "read"] /\ conn' = [conn EXCEPT ![k] = "open"]
            /\ UNCHANGED <<req, pc, got, replies, taken, status, answer, first>> /\ pc = "dial"
        BY <2>2 DEF Dial, NextKdc
      <3>3. Ended' = Ended
        BY <3>1, <3>2 DEF Ended, TypeOK
      <3>4. TypeOK'
        BY <3>1, <3>2 DEF TypeOK
      <3>5. ReaderInv'
        BY <3>1, <3>2 DEF ReaderInv, TypeOK
      <3>6. ChannelInv'
        BY <3>1, <3>2, <3>3 DEF ChannelInv, TypeOK
      <3> QED
        BY <3>2, <3>3, <3>4, <3>5, <3>6 DEF FirstInv, AnswerInv
    <2>3. CASE DialFails(k)
      BY <2>3 DEF DialFails, NextKdc, TypeOK, ReaderInv, ChannelInv, FirstInv, AnswerInv, Ended
    <2> QED
      BY <2>1, <2>2, <2>3 DEF Connect
  <1>8. ASSUME NEW k \in Endpoints, ReadPrefix(k) \/ ReadReply(k) \/ ReadFails(k) PROVE IInv'
    <2>1. /\ reader[k] \in {"read", "body"} /\ reader'[k] \in {"body", "send"}
          /\ reader' \in [Endpoints -> {"none", "read", "body", "send", "ended"}]
          /\ \A e \in Endpoints \ {k} : reader'[e] = reader[e] /\ got'[e] = got[e]
          /\ got' \in [Endpoints -> BOOLEAN] /\ (reader'[k] = "body" => ~got'[k])
          /\ UNCHANGED <<req, pc, dialed, conn, replies, taken, status, answer, first>>
      BY <1>8 DEF ReadPrefix, ReadReply, ReadFails, TypeOK, ReaderInv
    <2>2. Ended' = Ended /\ k \notin Ended
      BY <2>1 DEF Ended
    <2>3. \A e \in Ended : got'[e] = got[e]
      BY <2>1, <2>2 DEF Ended
    <2>4. \A i \in 1..Len(replies) : replies[i] \in Ended
      BY DEF ChannelInv, Ended, TypeOK
    <2>5. TypeOK' /\ ReaderInv'
      BY <2>1 DEF TypeOK, ReaderInv
    <2>6. ChannelInv'
      BY <2>1, <2>2, <2>3, <2>4 DEF ChannelInv, Ended
    <2>7. FirstInv'
      BY <2>1, <2>2, <2>3, <2>4, KdcAssumption DEF FirstInv, TypeOK
    <2>8. AnswerInv'
      BY <2>1 DEF AnswerInv
    <2> QED
      BY <2>5, <2>6, <2>7, <2>8
  <1>9. ASSUME NEW k \in Endpoints, Send(k) PROVE IInv'
    <2>1. /\ reader[k] = "send" /\ reader' = [reader EXCEPT ![k] = "ended"]
          /\ replies' = Append(replies, k)
          /\ first' = IF got[k] /\ first = None THEN k ELSE first
          /\ UNCHANGED <<req, pc, dialed, conn, got, taken, status, answer>>
      BY <1>9 DEF Send
    <2>2. Ended' = Ended \union {k} /\ k \notin Ended
      BY <2>1 DEF Ended, TypeOK
    <2>3. Cardinality(Ended') = Cardinality(Ended) + 1
      BY <2>2, <1>fin, FS_AddElement
    <2>4. /\ replies' \in Seq(Endpoints) /\ Len(replies) \in Nat /\ Len(replies') = Len(replies) + 1
          /\ replies'[Len(replies')] = k
          /\ \A i \in 1..Len(replies) : replies'[i] = replies[i]
          /\ \A i \in 1..Len(replies) : replies[i] \in Ended
      BY <2>1 DEF TypeOK, ChannelInv, Ended
    <2>5. TypeOK'
      BY <2>1, <2>4 DEF TypeOK
    <2>6. ReaderInv'
      BY <2>1 DEF ReaderInv, TypeOK
    <2>7. ChannelInv'
      <3>1. \A i \in 1..Len(replies') : reader'[replies'[i]] = "ended"
        BY <2>1, <2>2, <2>4, <2>5 DEF Ended
      <3>2. \A i, j \in 1..Len(replies') : replies'[i] = replies'[j] => i = j
        BY <2>2, <2>4 DEF ChannelInv
      <3>3. Cardinality(Ended') = taken' + Len(replies')
        BY <2>1, <2>3, <2>4, <1>fin DEF ChannelInv, TypeOK
      <3>4. ASSUME pc' # "done", NEW e \in Ended', got'[e]
            PROVE  \E i \in 1..Len(replies') : replies'[i] = e
        <4>1. CASE e = k
          BY <4>1, <2>4
        <4>2. CASE e # k
          BY <4>2, <3>4, <2>1, <2>2, <2>4 DEF ChannelInv
        <4> QED
          BY <4>1, <4>2
      <3> QED
        BY <3>1, <3>2, <3>3, <3>4 DEF ChannelInv
    <2>8. FirstInv'
      <3> SUFFICES ASSUME pc # "done" PROVE FirstInv'
        BY <2>1 DEF FirstInv
      <3>1. CASE first = None /\ got[k]
        <4>1. first' = k /\ k # None
          BY <3>1, <2>1, KdcAssumption
        <4>2. \A j \in 1..(Len(replies') - 1) : ~got'[replies'[j]]
          BY <3>1, <2>1, <2>4 DEF FirstInv
        <4> QED
          BY <4>1, <4>2, <2>1, <2>4, <3>1 DEF FirstInv
      <3>2. CASE first = None /\ ~got[k]
        BY <3>2, <2>1, <2>2 DEF FirstInv
      <3>3. CASE first # None
        <4>1. PICK i \in 1..Len(replies) :
                /\ replies[i] = first /\ got[first]
                /\ \A j \in 1..(i - 1) : ~got[replies[j]]
          BY <3>3 DEF FirstInv
        <4>2. i \in 1..Len(replies') /\ replies'[i] = first' /\ first' = first
          BY <4>1, <3>3, <2>1, <2>4
        <4>3. \A j \in 1..(i - 1) : ~got'[replies'[j]]
          BY <4>1, <2>1, <2>4
        <4> QED
          BY <4>1, <4>2, <4>3, <2>1, <3>3 DEF FirstInv
      <3> QED
        BY <3>1, <3>2, <3>3
    <2>9. AnswerInv'
      BY <2>1, KdcAssumption DEF AnswerInv
    <2> QED
      BY <2>5, <2>6, <2>7, <2>8, <2>9
  <1>10. CASE UNCHANGED vars
    BY <1>10 DEF vars, forwardVars, TypeOK, ReaderInv, ChannelInv, FirstInv, AnswerInv, Ended
  <1> QED
    BY <1>1, <1>2, <1>3, <1>4, <1>5, <1>6, <1>7, <1>8, <1>9, <1>10
    DEF Next, Handle, AwaitReply

-----------------------------------------------------------------------------
LEMMA InvAlways == Safety => []IInv
  BY InitInv, NextInv, PTL DEF Safety

\* The type invariant of the proxy, for any number of KDCs.
THEOREM KdcTypeCorrect == Safety => []TypeOK
  <1>1. IInv => TypeOK
    BY DEF IInv
  <1> QED
    BY <1>1, InvAlways, PTL

\* forward gives up only if no awaitReply had a reply: the number of messages it
\* has taken then equals the number of goroutines, and each of them was nil.
THEOREM UnavailableMeansNoReply == Safety => []ErrorMeansNoReply
  <1>1. IInv => ErrorMeansNoReply
    BY KdcAssumption DEF IInv, AnswerInv, ErrorMeansNoReply
  <1> QED
    BY <1>1, InvAlways, PTL

\* Every step of the handler, of the dials and of the goroutines is a step of
\* KdcRace or leaves its variables alone: the first reply wins.
THEOREM ImplementsRace == Safety => Race!Safety
  <1>1. Init => Race!Init
    BY DEF Init, Race!Init
  <1>2. IInv /\ IInv' /\ [Next]_vars => [Race!Next]_Race!vars
    <2> SUFFICES ASSUME IInv, IInv', [Next]_vars PROVE [Race!Next]_Race!vars
      OBVIOUS
    <2> USE DEF Race!Next, Race!vars
    <2>1. CASE Refuse \/ NoKdcs \/ GiveUp
      <3>1. /\ pc # "done" /\ pc' = "done" /\ answer' = None /\ first' = first
            /\ answer = None
        BY <2>1 DEF Refuse, NoKdcs, GiveUp, Return, IInv, AnswerInv
      <3>2. status' # 200 /\ first = None
        BY <3>1, KdcAssumption DEF IInv, AnswerInv
      <3> QED
        BY <3>1, <3>2 DEF Race!Fail
    <2>2. CASE Take
      <3>1. CASE pc' = "done"
        <4>1. pc # "done" /\ status' = 200 /\ first' = first /\ answer' = first /\ first # None
          BY <2>2, <3>1, KdcAssumption DEF Take, Return, IInv, AnswerInv
        <4> QED
          BY <3>1, <4>1 DEF Race!Reply
      <3>2. CASE pc' # "done"
        BY <2>2, <3>2 DEF Take, Return
      <3> QED
        BY <3>1, <3>2
    <2>3. CASE Forward \/ Collect \/ \E k \in Endpoints : Connect(k)
      BY <2>3 DEF Forward, Collect, Connect, Dial, DialFails
    <2>4. ASSUME NEW k \in Endpoints, AwaitReply(k) PROVE [Race!Next]_Race!vars
      <3>1. UNCHANGED <<pc, status, answer>> /\ first' \in {first, k} /\ (first' # first => first = None)
        BY <2>4 DEF AwaitReply, ReadPrefix, ReadReply, ReadFails, Send
      <3>2. first' # first => pc # "done"
        BY <3>1 DEF IInv, AnswerInv
      <3> QED
        BY <3>1, <3>2 DEF Race!Hear
    <2>5. CASE UNCHANGED vars
      BY <2>5 DEF vars
    <2> QED
      BY <2>1, <2>2, <2>3, <2>4, <2>5 DEF Next, Handle
  <1> QED
    BY <1>1, <1>2, InvAlways, PTL DEF Safety, Race!Safety

=============================================================================
