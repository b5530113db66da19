----------------------- MODULE BatchQueryClientProofs -----------------------
(***************************************************************************)
(* The safety of the batching client, for any set of requests, any choice  *)
(* of ids and any batch size.                                              *)
(***************************************************************************)
EXTENDS BatchQueryClient, TLAPS

Distinct(s) == \A i, j \in DOMAIN s : s[i] = s[j] => i = j

\* the requests of the queue and of a batch are distinct
NoRepeats == /\ Distinct(queue)
             /\ \A batch \in inFlight : Distinct(batch)

IInv == TypeOK /\ WithinLimit /\ NoRepeats /\ SentOnce /\ NoneLeftWaiting
               /\ OwnAnswer

Promises == [state : States \cup {"answered"}, by : SUBSET Requests]

-----------------------------------------------------------------------------
(* Splitting a queue into a batch and a rest.                               *)

Batch(s) == SubSeq(s, 1, Taken(s))
Rest(s) == SubSeq(s, Taken(s) + 1, Len(s))

LEMMA TakenBounds ==
    ASSUME NEW s \in Seq(Requests)
    PROVE  /\ Taken(s) \in 0 .. Len(s)
           /\ Taken(s) <= BatchSizeLimit
           /\ s # <<>> => Taken(s) >= 1
           /\ Len(s) <= BatchSizeLimit => Taken(s) = Len(s)
  BY BatchAssumption DEF Taken

LEMMA Halves ==
    ASSUME NEW s \in Seq(Requests)
    PROVE  /\ Batch(s) \in Seq(Requests) /\ Rest(s) \in Seq(Requests)
           /\ Len(Batch(s)) = Taken(s)
           /\ Len(Rest(s)) = Len(s) - Taken(s)
           /\ \A i \in 1 .. Taken(s) : Batch(s)[i] = s[i]
           /\ \A i \in 1 .. Len(s) - Taken(s) : Rest(s)[i] = s[Taken(s) + i]
  BY TakenBounds DEF Batch, Rest

LEMMA Members ==
    ASSUME NEW s \in Seq(Requests)
    PROVE  /\ DOMAIN s = 1 .. Len(s) /\ Len(s) \in Nat
           /\ \A e : e \in ToSet(s) <=> \E i \in 1 .. Len(s) : s[i] = e
<1>1. DOMAIN s = 1 .. Len(s) /\ Len(s) \in Nat
  OBVIOUS
<1> QED  BY <1>1, Zenon DEF ToSet

LEMMA HalvesMembers ==
    ASSUME NEW s \in Seq(Requests)
    PROVE  /\ DOMAIN Batch(s) = 1 .. Taken(s)
           /\ DOMAIN Rest(s) = 1 .. Len(s) - Taken(s)
           /\ \A e : e \in ToSet(Batch(s)) <=> \E i \in 1 .. Taken(s) : s[i] = e
           /\ \A e : e \in ToSet(Rest(s))
                      <=> \E i \in 1 .. Len(s) - Taken(s) : s[Taken(s) + i] = e
<1> DEFINE b == Batch(s)
           t == Rest(s)
           n == Taken(s)
           m == Len(s) - Taken(s)
<1>1. /\ b \in Seq(Requests) /\ Len(b) = n
      /\ t \in Seq(Requests) /\ Len(t) = m
      /\ \A i \in 1 .. n : b[i] = s[i]
      /\ \A i \in 1 .. m : t[i] = s[n + i]
  BY Halves
<1> HIDE DEF b, t, n, m
<1>2. DOMAIN b = 1 .. n /\ \A e : e \in ToSet(b) <=> \E i \in 1 .. n : b[i] = e
  BY <1>1, Members
<1>3. DOMAIN t = 1 .. m /\ \A e : e \in ToSet(t) <=> \E i \in 1 .. m : t[i] = e
  BY <1>1, Members
<1>4. \A e : e \in ToSet(b) <=> \E i \in 1 .. n : s[i] = e
  BY <1>1, <1>2, Zenon
<1>5. \A e : e \in ToSet(t) <=> \E i \in 1 .. m : s[n + i] = e
  BY <1>1, <1>3, Zenon
<1> QED  BY <1>2, <1>3, <1>4, <1>5 DEF b, t, n, m

LEMMA SplitCovers ==
    ASSUME NEW s \in Seq(Requests)
    PROVE  ToSet(s) = ToSet(Batch(s)) \cup ToSet(Rest(s))
<1>1. ASSUME NEW e, e \in ToSet(Batch(s)) PROVE e \in ToSet(s)
  <2>1. PICK i \in 1 .. Taken(s) : s[i] = e
    BY <1>1, HalvesMembers
  <2>2. i \in 1 .. Len(s)
    BY TakenBounds
  <2> QED  BY <2>1, <2>2, Members
<1>2. ASSUME NEW e, e \in ToSet(Rest(s)) PROVE e \in ToSet(s)
  <2>1. PICK i \in 1 .. Len(s) - Taken(s) : s[Taken(s) + i] = e
    BY <1>2, HalvesMembers
  <2>2. Taken(s) + i \in 1 .. Len(s)
    BY TakenBounds, Members
  <2> QED  BY <2>1, <2>2, Members
<1>3. ASSUME NEW e, e \in ToSet(s) PROVE e \in ToSet(Batch(s)) \cup ToSet(Rest(s))
  <2>1. PICK i \in 1 .. Len(s) : s[i] = e
    BY <1>3, Members
  <2>2. CASE i <= Taken(s)
    <3>1. i \in 1 .. Taken(s)
      BY <2>2, TakenBounds
    <3> QED  BY <2>1, <3>1, HalvesMembers
  <2>3. CASE i > Taken(s)
    <3>1. i - Taken(s) \in 1 .. Len(s) - Taken(s) /\ Taken(s) + (i - Taken(s)) = i
      BY <2>3, TakenBounds, Members
    <3> QED  BY <2>1, <3>1, HalvesMembers
  <2> QED  BY <2>2, <2>3, TakenBounds
<1> QED  BY <1>1, <1>2, <1>3

LEMMA SplitSeparates ==
    ASSUME NEW s \in Seq(Requests), Distinct(s)
    PROVE  /\ Distinct(Batch(s)) /\ Distinct(Rest(s))
           /\ ToSet(Batch(s)) \cap ToSet(Rest(s)) = {}
<1>1. \A i, j \in 1 .. Len(s) : s[i] = s[j] => i = j
  BY Members DEF Distinct
<1>2. Taken(s) \in 0 .. Len(s) /\ Len(s) \in Nat
  BY TakenBounds, Members
<1>3. Distinct(Batch(s))
  <2>1. DOMAIN Batch(s) = 1 .. Taken(s)
    BY HalvesMembers, Zenon
  <2>2. 1 .. Taken(s) \subseteq 1 .. Len(s)
    BY <1>2
  <2>3. \A i \in 1 .. Taken(s) : Batch(s)[i] = s[i]
    BY Halves
  <2> QED  BY <1>1, <2>1, <2>2, <2>3, Zenon DEF Distinct
<1>4. Distinct(Rest(s))
  <2>1. ASSUME NEW i \in 1 .. Len(s) - Taken(s), NEW j \in 1 .. Len(s) - Taken(s),
               s[Taken(s) + i] = s[Taken(s) + j]
        PROVE  i = j
    <3>1. Taken(s) + i \in 1 .. Len(s) /\ Taken(s) + j \in 1 .. Len(s)
      BY <1>2
    <3>2. Taken(s) + i = Taken(s) + j
      BY <1>1, <2>1, <3>1
    <3> QED  BY <1>2, <3>2
  <2>2. /\ DOMAIN Rest(s) = 1 .. Len(s) - Taken(s)
        /\ \A i \in DOMAIN Rest(s) : Rest(s)[i] = s[Taken(s) + i]
    BY Halves, HalvesMembers
  <2> QED  BY <2>1, <2>2 DEF Distinct
<1>5. ASSUME NEW i \in 1 .. Taken(s), NEW j \in 1 .. Len(s) - Taken(s),
             s[i] = s[Taken(s) + j]
      PROVE  FALSE
  <2>1. i \in 1 .. Len(s) /\ Taken(s) + j \in 1 .. Len(s) /\ i # Taken(s) + j
    BY <1>2
  <2> QED  BY <1>1, <1>5, <2>1
<1>6. ASSUME NEW e, e \in ToSet(Batch(s)), e \in ToSet(Rest(s)) PROVE FALSE
  <2>1. PICK i \in 1 .. Taken(s) : s[i] = e
    BY <1>6, HalvesMembers
  <2>2. PICK j \in 1 .. Len(s) - Taken(s) : s[Taken(s) + j] = e
    BY <1>6, HalvesMembers
  <2> QED  BY <1>5, <2>1, <2>2
<1> QED  BY <1>3, <1>4, <1>6

LEMMA Appended ==
    ASSUME NEW s \in Seq(Requests), NEW r \in Requests
    PROVE  /\ Append(s, r) \in Seq(Requests)
           /\ Len(Append(s, r)) = Len(s) + 1
           /\ ToSet(Append(s, r)) = ToSet(s) \cup {r}
           /\ Distinct(s) /\ r \notin ToSet(s) => Distinct(Append(s, r))
<1> DEFINE t == Append(s, r)
<1>1. /\ t \in Seq(Requests) /\ Len(t) = Len(s) + 1 /\ Len(s) \in Nat
      /\ \A i \in 1 .. Len(s) : t[i] = s[i]
      /\ t[Len(s) + 1] = r
  OBVIOUS
<1> HIDE DEF t
<1>2. 1 .. Len(t) = (1 .. Len(s)) \cup {Len(s) + 1}
  BY <1>1
<1>3. ToSet(t) = ToSet(s) \cup {r}
  <2>1. \A e : e \in ToSet(t) <=> e \in ToSet(s) \/ e = r
    BY <1>1, <1>2, Members
  <2> QED  BY <2>1
<1>4. ASSUME Distinct(s), r \notin ToSet(s) PROVE Distinct(t)
  <2>1. \A i \in 1 .. Len(s) : s[i] # r
    BY <1>4, Members
  <2> QED  BY <1>1, <1>2, <1>4, <2>1, Members DEF Distinct
<1> QED  BY <1>1, <1>3, <1>4 DEF t

\* what tick() does with a queue: all its requests travel or wait, once
LEMMA SendSplits ==
    ASSUME NEW s \in Seq(Requests), s # <<>>, Len(s) <= BatchSizeLimit,
           Distinct(s), Send(s),
           inFlight \subseteq Seq(Requests), NoRepeats
    PROVE  /\ queue' \in Seq(Requests)
           /\ inFlight' \subseteq Seq(Requests)
           /\ NoRepeats'
           /\ inFlight' = inFlight \cup {Batch(s)}
           /\ Len(Batch(s)) \in 1 .. BatchSizeLimit
           /\ Len(queue') < BatchSizeLimit
           /\ ToSet(queue') \cup ToSet(Batch(s)) = ToSet(s)
           /\ ToSet(queue') \cap ToSet(Batch(s)) = {}
<1>1. queue' = Rest(s) /\ inFlight' = inFlight \cup {Batch(s)}
  BY DEF Send, Batch, Rest
<1>2. Len(Batch(s)) \in 1 .. BatchSizeLimit /\ Len(Rest(s)) = 0
  BY Halves, TakenBounds, BatchAssumption
<1>3. NoRepeats'
  BY <1>1, SplitSeparates DEF NoRepeats
<1>4. Len(queue') < BatchSizeLimit
  BY <1>1, <1>2, BatchAssumption
<1>5. /\ ToSet(queue') \cup ToSet(Batch(s)) = ToSet(s)
      /\ ToSet(queue') \cap ToSet(Batch(s)) = {}
  BY <1>1, SplitCovers, SplitSeparates
<1> QED  BY <1>1, <1>2, <1>3, <1>4, <1>5, Halves

-----------------------------------------------------------------------------
(* The steps                                                                *)

LEMMA InitInvariant == Init => IInv
<1> SUFFICES ASSUME Init PROVE IInv
  OBVIOUS
<1>1. TypeOK
  BY DEF Init, TypeOK, Now, States
<1>2. Len(queue) = 0 /\ DOMAIN queue = {} /\ ToSet(queue) = {} /\ Sent = {}
  BY DEF Init, ToSet, Sent
<1>3. Pending = {} /\ \A r \in Requests : promise[r].by = {}
  BY DEF Init, Pending, Now
<1> QED  BY <1>1, <1>2, <1>3, BatchAssumption
         DEF Init, IInv, WithinLimit, NoRepeats, Distinct, SentOnce,
             NoneLeftWaiting, OwnAnswer

\* tick() of a queue s of pending requests, in the old or the new state
LEMMA SendKeeps ==
    ASSUME IInv, NEW s \in Seq(Requests), s # <<>>, Len(s) <= BatchSizeLimit,
           Distinct(s), Send(s), ToSet(s) \cap Sent = {},
           ToSet(queue) \subseteq ToSet(s), ToSet(s) \cup Sent \subseteq Pending',
           Pending' \subseteq Pending \cup ToSet(s), UNCHANGED garbled
    PROVE  /\ queue' \in Seq(Requests) /\ inFlight' \subseteq Seq(Requests)
           /\ WithinLimit' /\ NoRepeats' /\ SentOnce' /\ NoneLeftWaiting'
<1>1. PICK batch \in Seq(Requests) :
         /\ inFlight' = inFlight \cup {batch}
         /\ Len(batch) \in 1 .. BatchSizeLimit
         /\ ToSet(queue') \cup ToSet(batch) = ToSet(s)
         /\ ToSet(queue') \cap ToSet(batch) = {}
  BY SendSplits, Halves DEF IInv, TypeOK
<1>2. /\ queue' \in Seq(Requests) /\ inFlight' \subseteq Seq(Requests)
      /\ NoRepeats' /\ Len(queue') < BatchSizeLimit
  BY SendSplits DEF IInv, TypeOK
<1>3. WithinLimit'
  BY <1>1, <1>2 DEF IInv, WithinLimit
<1>4. Sent' = Sent \cup ToSet(batch)
  BY <1>1 DEF Sent
<1>5. SentOnce'
  <2>1. \A a \in inFlight : ToSet(a) \cap ToSet(batch) = {}
    BY <1>1 DEF Sent
  <2> QED  BY <1>1, <1>4, <2>1 DEF IInv, SentOnce
<1>6. NoneLeftWaiting'
  BY <1>1, <1>4 DEF IInv, NoneLeftWaiting, SharesId
<1> QED  BY <1>2, <1>3, <1>5, <1>6

LEMMA ExecuteKeeps == ASSUME IInv, NEW r \in Requests, Execute(r) PROVE IInv'
<1> DEFINE s == Append(queue, r)
<1>1. /\ promise' \in [Requests -> Promises]
      /\ \A q \in Requests : promise'[q].by \subseteq promise[q].by
      /\ Pending' = Pending \cup {r} /\ r \notin Pending
  <2>1. promise' = [promise EXCEPT ![r] = Now("pending")]
    BY DEF Execute
  <2>2. Now("pending") \in Promises /\ Now("pending").by = {}
        /\ Now("pending").state = "pending"
    BY DEF Now, Promises, States
  <2>3. promise \in [Requests -> Promises]
    BY DEF IInv, TypeOK, Promises
  <2> HIDE DEF Promises
  <2>4. /\ promise' \in [Requests -> Promises]
        /\ promise'[r] = Now("pending")
        /\ \A q \in Requests \ {r} : promise'[q] = promise[q]
    BY <2>1, <2>2, <2>3
  <2>5. promise[r].state = "new"
    BY DEF Execute
  <2> QED  BY <2>2, <2>4, <2>5 DEF Pending
<1>2. OwnAnswer'
  BY <1>1 DEF IInv, OwnAnswer, Execute
<1>3. /\ s \in Seq(Requests) /\ s # <<>> /\ Len(s) = Len(queue) + 1
      /\ Len(s) <= BatchSizeLimit
      /\ ToSet(s) = ToSet(queue) \cup {r} /\ Distinct(s)
      /\ ToSet(s) \cap Sent = {}
  <2>1. queue \in Seq(Requests) /\ Len(queue) < BatchSizeLimit
        /\ r \notin ToSet(queue) \cup Sent /\ Distinct(queue)
    BY <1>1 DEF IInv, TypeOK, WithinLimit, SentOnce, NoRepeats
  <2> QED  BY <2>1, Appended, BatchAssumption DEF IInv, SentOnce
<1> HIDE DEF s
<1>4. CASE Full(s)
  <2>1. Send(s)
    BY <1>4 DEF Execute, s
  <2>2. ToSet(s) \cup Sent \subseteq Pending' /\ Pending' \subseteq Pending \cup ToSet(s)
    BY <1>1, <1>3 DEF IInv, SentOnce
  <2>3. /\ queue' \in Seq(Requests) /\ inFlight' \subseteq Seq(Requests)
        /\ WithinLimit' /\ NoRepeats' /\ SentOnce' /\ NoneLeftWaiting'
    BY <1>3, <2>1, <2>2, SendKeeps DEF Execute
  <2> QED  BY <1>1, <1>2, <2>3 DEF IInv, TypeOK, Execute, Promises
<1>5. CASE ~Full(s)
  <2>1. queue' = s /\ UNCHANGED <<inFlight, timer, garbled>>
    BY <1>5 DEF Execute, s
  <2>2. TypeOK'
    BY <1>1, <1>3, <2>1 DEF IInv, TypeOK, Promises
  <2>3. WithinLimit' /\ NoRepeats'
    BY <1>3, <1>5, <2>1, BatchAssumption DEF IInv, WithinLimit, NoRepeats, Full
  <2>4. Sent' = Sent
    BY <2>1 DEF Sent
  <2>5. SentOnce' /\ NoneLeftWaiting'
    BY <1>1, <1>3, <2>1, <2>4 DEF IInv, SentOnce, NoneLeftWaiting, SharesId
  <2> QED  BY <1>2, <2>2, <2>3, <2>5 DEF IInv
<1> QED  BY <1>4, <1>5

LEMMA TickKeeps == ASSUME IInv, Tick PROVE IInv'
<1>1. Pending' = Pending
  BY DEF Tick, Pending
<1>2. queue \in Seq(Requests) /\ Len(queue) <= BatchSizeLimit
  BY BatchAssumption DEF IInv, TypeOK, WithinLimit
<1>3. /\ queue' \in Seq(Requests) /\ inFlight' \subseteq Seq(Requests)
      /\ WithinLimit' /\ NoRepeats' /\ SentOnce' /\ NoneLeftWaiting'
  BY <1>1, <1>2, SendKeeps DEF Tick, IInv, NoRepeats, SentOnce
<1> QED  BY <1>3 DEF IInv, TypeOK, OwnAnswer, Tick

\* a batch comes back: what it leaves when its requests settle as they do
LEMMA BatchReturns ==
    ASSUME IInv, NEW batch \in inFlight, inFlight' = inFlight \ {batch},
           UNCHANGED <<queue, timer>>,
           garbled' \in {garbled, garbled \cup ToSet(batch)},
           promise' \in [Requests -> Promises],
           \A r \in Requests \ ToSet(batch) : promise'[r] = promise[r],
           \A r \in ToSet(batch) \cap Pending' : r \in garbled' \/ SharesId(r),
           \A r \in ToSet(batch) \ garbled' : promise'[r].by \subseteq {r}
    PROVE  IInv'
<1>1. ToSet(batch) \subseteq Requests /\ ToSet(batch) \subseteq Sent
  BY DEF IInv, TypeOK, ToSet, Sent
<1>2. TypeOK'
  BY <1>1 DEF IInv, TypeOK, Promises
<1>3. WithinLimit' /\ NoRepeats'
  BY DEF IInv, WithinLimit, NoRepeats
<1>4. Sent' = Sent \ ToSet(batch)
  BY DEF IInv, SentOnce, Sent
<1>5. Pending \ ToSet(batch) = Pending' \ ToSet(batch)
  BY DEF Pending
<1>6. SentOnce'
  BY <1>1, <1>4, <1>5 DEF IInv, SentOnce
<1>7. NoneLeftWaiting'
  <2> SUFFICES ASSUME NEW r \in Pending'
               PROVE  r \in ToSet(queue) \cup Sent' \cup garbled' \/ SharesId(r)
    BY DEF NoneLeftWaiting, SharesId
  <2>1. CASE r \in ToSet(batch)
    BY <2>1
  <2>2. CASE r \notin ToSet(batch)
    BY <1>4, <1>5, <2>2 DEF IInv, NoneLeftWaiting
  <2> QED  BY <2>1, <2>2
<1>8. OwnAnswer'
  BY DEF IInv, OwnAnswer
<1> QED  BY <1>2, <1>3, <1>6, <1>7, <1>8 DEF IInv

LEMMA SettledOnce ==
    ASSUME NEW batch \in Seq(Requests), NEW order \in Seq(Requests), NEW kinds,
           promise \in [Requests -> Promises], Len(order) <= Len(batch),
           kinds \in [DOMAIN order -> Element]
    PROVE  /\ SettledBy(batch, order, kinds) \in [Requests -> Promises]
           /\ \A r \in Requests \ ToSet(batch) :
                 SettledBy(batch, order, kinds)[r] = promise[r]
           /\ WellFormed(batch, order, kinds) =>
                 \A r \in ToSet(batch) :
                    \/ SettledBy(batch, order, kinds)[r] = Now("error")
                    \/ SettledBy(batch, order, kinds)[r] = AnsweredBy(r)
<1>0. Parsed(kinds) \subseteq DOMAIN order /\ DOMAIN order \subseteq DOMAIN batch
  BY DEF Parsed
<1>1. Now("error") \in Promises /\ \A r \in Requests : AnsweredBy(r) \in Promises
  BY DEF Now, AnsweredBy, Promises, States
<1>2. ASSUME NEW r \in Requests
      PROVE  LET value == IF \E i \in Parsed(kinds) : batch[i] = r
                          THEN LET i == CHOOSE i \in Parsed(kinds) : batch[i] = r IN
                               IF kinds[i] = "error" THEN Now("error")
                               ELSE AnsweredBy(order[i])
                          ELSE promise[r]
             IN  /\ value \in Promises
                 /\ r \notin ToSet(batch) => value = promise[r]
                 /\ WellFormed(batch, order, kinds) /\ r \in ToSet(batch)
                       => value = Now("error") \/ value = AnsweredBy(r)
  <2> HIDE DEF Promises
  <2>1. CASE \E i \in Parsed(kinds) : batch[i] = r
    <3> DEFINE i == CHOOSE i \in Parsed(kinds) : batch[i] = r
    <3>1. i \in Parsed(kinds) /\ batch[i] = r
      BY <2>1
    <3> HIDE DEF i
    <3>2. order[i] \in Requests /\ r \in ToSet(batch)
      BY <1>0, <3>1 DEF ToSet
    <3>3. WellFormed(batch, order, kinds) => order[i] = r
      BY <3>1 DEF WellFormed
    <3> QED  BY <1>1, <2>1, <3>1, <3>2, <3>3 DEF i
  <2>2. CASE ~\E i \in Parsed(kinds) : batch[i] = r
    <3>1. WellFormed(batch, order, kinds) => r \notin ToSet(batch)
      <4> SUFFICES ASSUME WellFormed(batch, order, kinds), r \in ToSet(batch)
                   PROVE  FALSE
        OBVIOUS
      <4>1. PICK i \in DOMAIN batch : batch[i] = r
        BY DEF ToSet
      <4>2. DOMAIN kinds = 1 .. Len(batch)
        BY DEF WellFormed
      <4>3. i \in Parsed(kinds)
        BY <4>2 DEF WellFormed, Parsed
      <4> QED  BY <2>2, <4>1, <4>3
    <3> QED  BY <2>2, <3>1
  <2> QED  BY <2>1, <2>2
<1>3. ToSet(batch) \subseteq Requests
  BY DEF ToSet
<1> HIDE DEF Promises
<1> QED  BY <1>2, <1>3 DEF SettledBy

LEMMA AnswersKeep == ASSUME IInv, NEW batch \in inFlight, Answers(batch) PROVE IInv'
<1>1. PICK order \in Sequels(batch) : \E kinds \in [DOMAIN order -> Element] :
          /\ promise' = SettledBy(batch, order, kinds)
          /\ garbled' = IF WellFormed(batch, order, kinds) THEN garbled
                        ELSE garbled \cup ToSet(batch)
  BY DEF Answers
<1>2. PICK kinds \in [DOMAIN order -> Element] :
          /\ promise' = SettledBy(batch, order, kinds)
          /\ garbled' = IF WellFormed(batch, order, kinds) THEN garbled
                        ELSE garbled \cup ToSet(batch)
  BY <1>1
<1>3. batch \in Seq(Requests) /\ ToSet(batch) \subseteq Requests
  BY DEF IInv, TypeOK, ToSet
<1>4. order \in Seq(Requests) /\ Len(order) <= Len(batch)
  <2>1. PICK n \in 0 .. Len(batch) : order \in [1 .. n -> ToSet(batch)]
    BY DEF Sequels
  <2>2. order \in Seq(Requests)
    BY <1>3, <2>1
  <2> QED  BY <1>3, <2>1, <2>2
<1>5. promise \in [Requests -> Promises]
  BY DEF IInv, TypeOK, Promises
<1> HIDE DEF Promises
<1>6. /\ promise' \in [Requests -> Promises]
      /\ \A r \in Requests \ ToSet(batch) : promise'[r] = promise[r]
      /\ WellFormed(batch, order, kinds) =>
            \A r \in ToSet(batch) : \/ promise'[r] = Now("error")
                                    \/ promise'[r] = AnsweredBy(r)
  BY <1>2, <1>3, <1>4, <1>5, SettledOnce
<1>7. \A r : /\ Now("error").by = {} /\ Now("error").state = "error"
             /\ AnsweredBy(r).by = {r} /\ AnsweredBy(r).state = "answered"
  BY DEF Now, AnsweredBy
<1>8. CASE WellFormed(batch, order, kinds)
  <2>1. \A r \in ToSet(batch) :
            promise'[r].by \subseteq {r} /\ promise'[r].state # "pending"
    BY <1>6, <1>7, <1>8
  <2> QED  BY <1>2, <1>3, <1>6, <1>8, <2>1, BatchReturns DEF Answers, Pending
<1>9. CASE ~WellFormed(batch, order, kinds)
  BY <1>2, <1>3, <1>6, <1>9, BatchReturns DEF Answers
<1> QED  BY <1>8, <1>9

LEMMA HttpFailsKeeps ==
    ASSUME IInv, NEW batch \in inFlight, HttpFails(batch) PROVE IInv'
<1>1. batch \in Seq(Requests) /\ ToSet(batch) \subseteq Requests /\ Distinct(batch)
  BY DEF IInv, TypeOK, ToSet, NoRepeats
<1>2. Rejected(batch) \subseteq ToSet(batch)
  BY DEF Rejected, ToSet
<1>3. Now("failed") \in Promises /\ Now("failed").by = {}
      /\ Now("failed").state = "failed"
  BY DEF Now, Promises, States
<1>4. promise \in [Requests -> Promises]
  BY DEF IInv, TypeOK, Promises
<1> HIDE DEF Promises
<1>5. /\ promise' \in [Requests -> Promises]
      /\ \A r \in Requests : promise'[r] = IF r \in Rejected(batch)
                                           THEN Now("failed") ELSE promise[r]
  BY <1>3, <1>4 DEF HttpFails
<1>6. \A r \in ToSet(batch) \cap Pending' : SharesId(r)
  <2> SUFFICES ASSUME NEW r \in ToSet(batch), r \notin Rejected(batch)
               PROVE  SharesId(r)
    BY <1>3, <1>5 DEF Pending
  <2>1. PICK i \in DOMAIN batch : batch[i] = r
    BY DEF ToSet
  <2>2. PICK j \in 1 .. i - 1 : Id(batch[j]) = Id(r)
    BY <2>1 DEF Rejected
  <2>3. j \in DOMAIN batch /\ j # i /\ batch[j] \in Requests
    BY <1>1, <2>1
  <2>4. batch[j] # r
    BY <1>1, <2>1, <2>3 DEF Distinct
  <2> QED  BY <2>2, <2>3, <2>4 DEF SharesId
<1>7. \A r \in ToSet(batch) \ garbled : promise'[r].by \subseteq {r}
  BY <1>1, <1>3, <1>5 DEF IInv, OwnAnswer
<1> QED  BY <1>2, <1>5, <1>6, <1>7, BatchReturns DEF HttpFails

LEMMA NextKeeps == ASSUME IInv, [Next]_vars PROVE IInv'
<1>1. CASE Disconnect \/ UNCHANGED vars
  BY <1>1 DEF IInv, Disconnect, vars, TypeOK, WithinLimit, NoRepeats, SentOnce,
              NoneLeftWaiting, OwnAnswer, Pending, Sent, SharesId
<1> QED  BY <1>1, ExecuteKeeps, TickKeeps, AnswersKeep, HttpFailsKeeps DEF Next

LEMMA Invariance == Spec => []IInv
<1> QED  BY InitInvariant, NextKeeps, PTL DEF Spec

-----------------------------------------------------------------------------
(* The queue, the batches and the promises stay in their domains.           *)
THEOREM Typing == Spec => []TypeOK
<1>1. IInv => TypeOK
  BY DEF IInv
<1> QED  BY <1>1, Invariance, PTL

(* tick(): no batch is larger than batchSizeLimit and no full queue waits.  *)
THEOREM WithinLimitHolds == Spec => []WithinLimit
<1>1. IInv => WithinLimit
  BY DEF IInv
<1> QED  BY <1>1, Invariance, PTL

(* splice(): no request is in two places, and none that settled is in any.  *)
THEOREM SentOnceHolds == Spec => []SentOnce
<1>1. IInv => SentOnce
  BY DEF IInv
<1> QED  BY <1>1, Invariance, PTL

(* The error handler and forEach() leave no request of a batch waiting but  *)
(* those of garbled answers and those that share their id.                  *)
THEOREM NoneIsLeftWaiting == Spec => []NoneLeftWaiting
<1>1. IInv => NoneLeftWaiting
  BY DEF IInv
<1> QED  BY <1>1, Invariance, PTL

(* Results are matched to requests by position: while the node keeps to it, *)
(* each promise gets the answer to its own request.                         *)
THEOREM OwnAnswerHolds == Spec => []OwnAnswer
<1>1. IInv => OwnAnswer
  BY DEF IInv
<1> QED  BY <1>1, Invariance, PTL
=============================================================================
