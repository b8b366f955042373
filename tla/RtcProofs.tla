----------------------------- MODULE RtcProofs ------------------------------
(* What sessions keep for any number of nodes, any ceiling and any number   *)
(* of rounds at once: the ceiling, and that they implement the table.       *)
EXTENDS Rtc, FiniteSetTheorems, TLAPS

Phases == {"dial", "exchange", "read", "complete", "attached"}

Slots == [Ends -> {None} \cup [id : Ids, live : BOOLEAN]]

RtcType ==
  /\ known \in [Nodes -> SUBSET Nodes]
  /\ round \in [Ends -> {None} \cup [id : Ids, offers : BOOLEAN, phase : Phases]]
  /\ signal \in [Ids -> {None} \cup Connection]
  /\ \A id \in Ids : signal[id] # None => signal[id].from # signal[id].to
  /\ \A e \in Ends : round[e] # None /\ (round[e].phase = "read" \/ ~round[e].offers) =>
       signal[round[e].id] # None
  /\ slot \in Slots
  /\ driven \subseteq Ends \X Ids

\* A half is driven from the attach on.
DrivenIsAttached ==
  \A e \in Ends : round[e] # None /\ round[e].phase # "attached" => <<e, round[e].id>> \notin driven

\* A round that has not dialed is alone with its id ...
DialIsFresh ==
  \A e \in Ends : round[e] # None /\ round[e].phase = "dial" =>
    /\ signal[round[e].id] = None
    /\ ~Runs(Other(e), round[e].id)
    /\ <<Other(e), round[e].id>> \notin driven

Answerer(id) == <<signal[id].to, signal[id].from>>
Offerer(id) == <<signal[id].from, signal[id].to>>

\* ... and a connection that arrives has no answer yet.
ArrivalIsFresh ==
  \A id \in Ids : signal[id] # None /\ signal[id].st = "arriving" =>
    ~Runs(Answerer(id), id) /\ <<Answerer(id), id>> \notin driven

\* An id is one pair's, and its connection's.
IdIsOnePair ==
  /\ \A e, f \in Ends : \A id \in Ids : Runs(e, id) /\ Runs(f, id) => f \in {e, Other(e)}
  /\ \A id \in Ids : signal[id] # None =>
       \A e \in Ends : Runs(e, id) => e \in {Offerer(id), Answerer(id)}

IInv == RtcType /\ DrivenIsAttached /\ DialIsFresh /\ ArrivalIsFresh /\ IdIsOnePair

-----------------------------------------------------------------------------
LEMMA EndFacts ==
  ASSUME NEW e \in Ends
  PROVE  /\ Other(e) \in Ends /\ Other(Other(e)) = e /\ Other(e) # e
         /\ e = <<e[1], e[2]>> /\ e[1] \in Nodes /\ e[2] \in Nodes /\ e[1] # e[2]
BY DEF Ends, Other

LEMMA SignalEnds ==
  ASSUME RtcType, NEW id \in Ids, signal[id] # None
  PROVE  /\ Offerer(id) \in Ends /\ Answerer(id) \in Ends
         /\ Other(Offerer(id)) = Answerer(id) /\ Other(Answerer(id)) = Offerer(id)
         /\ signal[id] \in Connection
BY DEF RtcType, Offerer, Answerer, Other, Ends, Connection

\* Steps that start no round, dial and attach nothing: rounds go on or end,
\* connections close, halves end.
Settles ==
  /\ \A e \in Ends :
       \/ round'[e] = None
       \/ round'[e] = round[e]
       \/ /\ round[e] # None /\ round'[e].id = round[e].id
          /\ round[e].phase # "attached" /\ round'[e].phase # "dial"
  /\ \A id \in Ids :
       \/ signal'[id] = None
       \/ signal'[id] = signal[id]
       \/ /\ signal[id] # None
          /\ signal'[id].from = signal[id].from /\ signal'[id].to = signal[id].to
          /\ signal'[id].st # "arriving"
  /\ driven' \subseteq driven

LEMMA SettlesKeeps ==
  ASSUME IInv, Settles, RtcType'
  PROVE  IInv'
<1>1. \A e \in Ends, id \in Ids : Runs(e, id)' => Runs(e, id)
  BY DEF Settles, Runs
<1>2. \A id \in Ids : signal'[id] # None =>
        signal[id] # None /\ Offerer(id)' = Offerer(id) /\ Answerer(id)' = Answerer(id)
  BY DEF Settles, Offerer, Answerer
<1>3. DrivenIsAttached'
  BY DEF IInv, DrivenIsAttached, Settles
<1>4. DialIsFresh'
  <2> SUFFICES ASSUME NEW e \in Ends, NEW id \in Ids,
                      round'[e] # None, round'[e].id = id, round'[e].phase = "dial"
               PROVE  /\ signal'[id] = None
                      /\ ~(round'[Other(e)] # None /\ round'[Other(e)].id = id)
                      /\ <<Other(e), id>> \notin driven'
    BY DEF DialIsFresh, Runs, RtcType
  <2>1. round'[e] = round[e]
    BY DEF Settles
  <2>2. /\ signal[id] = None /\ ~Runs(Other(e), id) /\ <<Other(e), id>> \notin driven
    BY <2>1 DEF IInv, DialIsFresh
  <2> QED BY <2>2, <1>1, EndFacts DEF Settles, Runs
<1>5. ArrivalIsFresh'
  <2> SUFFICES ASSUME NEW id \in Ids, signal'[id] # None, signal'[id].st = "arriving"
               PROVE  ~Runs(Answerer(id), id)' /\ <<Answerer(id)', id>> \notin driven'
    BY DEF ArrivalIsFresh
  <2>1. signal'[id] = signal[id]
    BY DEF Settles
  <2>2. ~Runs(Answerer(id), id) /\ <<Answerer(id), id>> \notin driven /\ Answerer(id) \in Ends
    BY <2>1, SignalEnds DEF IInv, ArrivalIsFresh
  <2>3. Answerer(id)' = Answerer(id)
    BY <1>2
  <2>4. ~Runs(Answerer(id), id)'
    BY <2>2, <2>3, <1>1 DEF Runs
  <2> QED BY <2>2, <2>3, <2>4 DEF Settles
<1>6. IdIsOnePair'
  <2>1. \A e, f \in Ends : \A id \in Ids : Runs(e, id)' /\ Runs(f, id)' => f \in {e, Other(e)}
    BY <1>1 DEF IInv, IdIsOnePair
  <2>2. \A id \in Ids : signal'[id] # None =>
          \A e \in Ends : Runs(e, id)' => e \in {Offerer(id)', Answerer(id)'}
    BY <1>1, <1>2 DEF IInv, IdIsOnePair
  <2> QED BY <2>1, <2>2 DEF IdIsOnePair, Runs
<1> QED BY <1>3, <1>4, <1>5, <1>6 DEF IInv

\* An id nothing holds.
LEMMA NewIdIsFree ==
  ASSUME FreeIds # {}
  PROVE  /\ NewId \in Ids /\ signal[NewId] = None
         /\ \A e \in Ends : ~Runs(e, NewId) /\ <<e, NewId>> \notin driven
<1>1. NewId \in FreeIds
  BY DEF NewId
<1> QED BY <1>1 DEF FreeIds

LEMMA OfferKeeps ==
  ASSUME IInv, NEW e \in Ends, StartOffer(e), UNCHANGED <<signal, driven>>, RtcType'
  PROVE  IInv'
<1> DEFINE id == NewId
<1>1. /\ id \in Ids /\ signal[id] = None
      /\ \A f \in Ends : ~Runs(f, id) /\ <<f, id>> \notin driven
  BY NewIdIsFree DEF StartOffer
<1>2. /\ round'[e] = [id |-> id, offers |-> TRUE, phase |-> "dial"]
      /\ \A f \in Ends : f # e => round'[f] = round[f]
  BY DEF StartOffer, IInv, RtcType
<1> HIDE DEF id
<1>3. \A f \in Ends, i \in Ids : Runs(f, i)' => Runs(f, i) \/ (f = e /\ i = id)
  BY <1>2 DEF Runs
<1>4. \A i \in Ids : Offerer(i)' = Offerer(i) /\ Answerer(i)' = Answerer(i)
  BY DEF Offerer, Answerer
<1>5. DrivenIsAttached'
  BY <1>1, <1>2 DEF IInv, DrivenIsAttached
<1>6. DialIsFresh'
  <2> SUFFICES ASSUME NEW f \in Ends, NEW i \in Ids,
                      round'[f] # None, round'[f].id = i, round'[f].phase = "dial"
               PROVE  /\ signal'[i] = None
                      /\ ~(round'[Other(f)] # None /\ round'[Other(f)].id = i)
                      /\ <<Other(f), i>> \notin driven'
    BY DEF DialIsFresh, Runs, RtcType
  <2>1. CASE f = e
    BY <2>1, <1>1, <1>2, EndFacts DEF Runs
  <2>2. CASE f # e
    <3>1. signal[i] = None /\ ~Runs(Other(f), i) /\ <<Other(f), i>> \notin driven /\ Runs(f, i)
      BY <2>2, <1>2 DEF IInv, DialIsFresh, Runs
    <3>2. i # id
      BY <3>1, <1>1
    <3> QED BY <3>1, <3>2, <1>3, EndFacts DEF Runs
  <2> QED BY <2>1, <2>2
<1>7. ArrivalIsFresh'
  <2> SUFFICES ASSUME NEW i \in Ids, signal'[i] # None, signal'[i].st = "arriving"
               PROVE  ~Runs(Answerer(i), i)' /\ <<Answerer(i)', i>> \notin driven'
    BY DEF ArrivalIsFresh
  <2>1. ~Runs(Answerer(i), i) /\ <<Answerer(i), i>> \notin driven /\ Answerer(i) \in Ends
    BY SignalEnds DEF IInv, ArrivalIsFresh
  <2>2. i # id
    BY <1>1
  <2> QED BY <2>1, <2>2, <1>3, <1>4 DEF Runs
<1>8. IdIsOnePair'
  <2>1. ASSUME NEW f \in Ends, NEW g \in Ends, NEW i \in Ids, Runs(f, i)', Runs(g, i)'
        PROVE  g \in {f, Other(f)}
    <3>1. CASE i = id
      BY <3>1, <2>1, <1>1, <1>3
    <3>2. CASE i # id
      BY <3>2, <2>1, <1>3 DEF IInv, IdIsOnePair
    <3> QED BY <3>1, <3>2
  <2>2. \A i \in Ids : signal'[i] # None =>
          \A f \in Ends : Runs(f, i)' => f \in {Offerer(i)', Answerer(i)'}
    BY <1>1, <1>3, <1>4 DEF IInv, IdIsOnePair
  <2> QED BY <2>1, <2>2 DEF IdIsOnePair, Runs
<1> QED BY <1>5, <1>6, <1>7, <1>8 DEF IInv

LEMMA DialKeeps ==
  ASSUME IInv, NEW e \in Ends, Dial(e), RtcType'
  PROVE  IInv'
<1>0. PICK id \in Ids : id = round[e].id
  BY DEF Dial, IInv, RtcType
<1>1. /\ Runs(e, id) /\ signal[id] = None
      /\ ~Runs(Other(e), id) /\ <<Other(e), id>> \notin driven /\ <<e, id>> \notin driven
  BY <1>0 DEF Dial, IInv, RtcType, Runs, DialIsFresh, DrivenIsAttached
<1>2. /\ round'[e].id = id /\ round'[e].phase = "exchange"
      /\ \A f \in Ends : f # e => round'[f] = round[f]
      /\ signal'[id] = [from |-> e[1], to |-> e[2], st |-> "arriving"]
      /\ \A i \in Ids : i # id => signal'[i] = signal[i]
      /\ driven' = driven
  BY <1>0 DEF Dial, Enter, IInv, RtcType, sessions
<1>4. \A f \in Ends, i \in Ids : Runs(f, i)' => Runs(f, i)
  BY <1>1, <1>2 DEF Runs, RtcType, Dial
<1>5. /\ Offerer(id)' = e /\ Answerer(id)' = Other(e)
      /\ \A i \in Ids : i # id => Offerer(i)' = Offerer(i) /\ Answerer(i)' = Answerer(i)
  <2>1. e = <<e[1], e[2]>>
    BY EndFacts
  <2>2. Offerer(id)' = <<e[1], e[2]>> /\ Answerer(id)' = Other(e)
    BY <1>2 DEF Offerer, Answerer, Other
  <2> QED BY <2>1, <2>2, <1>2 DEF Offerer, Answerer
<1>6. DrivenIsAttached'
  BY <1>1, <1>2 DEF IInv, DrivenIsAttached
<1>7. DialIsFresh'
  <2> SUFFICES ASSUME NEW f \in Ends, NEW i \in Ids,
                      round'[f] # None, round'[f].id = i, round'[f].phase = "dial"
               PROVE  /\ signal'[i] = None
                      /\ ~(round'[Other(f)] # None /\ round'[Other(f)].id = i)
                      /\ <<Other(f), i>> \notin driven'
    BY DEF DialIsFresh, Runs, RtcType
  <2>1. f # e /\ round[f] = round'[f]
    BY <1>2
  <2>2. signal[i] = None /\ ~Runs(Other(f), i) /\ <<Other(f), i>> \notin driven /\ Runs(f, i)
    BY <2>1 DEF IInv, DialIsFresh, Runs
  <2>3. i # id
    BY <2>1, <2>2, <1>1 DEF IInv, IdIsOnePair
  <2> QED BY <2>2, <2>3, <1>2, <1>4, EndFacts DEF Runs
<1>8. ArrivalIsFresh'
  <2> SUFFICES ASSUME NEW i \in Ids, signal'[i] # None, signal'[i].st = "arriving"
               PROVE  ~Runs(Answerer(i), i)' /\ <<Answerer(i)', i>> \notin driven'
    BY DEF ArrivalIsFresh
  <2>1. CASE i = id
    <3>1. ~Runs(Other(e), id)' /\ <<Other(e), id>> \notin driven'
      BY <1>1, <1>2, <1>4, EndFacts
    <3> QED BY <2>1, <3>1, <1>5 DEF Runs
  <2>2. CASE i # id
    <3>1. ~Runs(Answerer(i), i) /\ <<Answerer(i), i>> \notin driven /\ Answerer(i) \in Ends
      BY <2>2, <1>2, SignalEnds DEF IInv, ArrivalIsFresh
    <3> QED BY <3>1, <2>2, <1>2, <1>4, <1>5 DEF Runs
  <2> QED BY <2>1, <2>2
<1>9. IdIsOnePair'
  <2>1. \A f, g \in Ends : \A i \in Ids : Runs(f, i)' /\ Runs(g, i)' => g \in {f, Other(f)}
    BY <1>4 DEF IInv, IdIsOnePair
  <2>2. \A i \in Ids : signal'[i] # None =>
          \A f \in Ends : Runs(f, i)' => f \in {Offerer(i)', Answerer(i)'}
    <3> SUFFICES ASSUME NEW i \in Ids, signal'[i] # None, NEW f \in Ends, Runs(f, i)'
                 PROVE  f \in {Offerer(i)', Answerer(i)'}
      OBVIOUS
    <3>1. CASE i = id
      BY <3>1, <1>1, <1>4, <1>5 DEF IInv, IdIsOnePair
    <3>2. CASE i # id
      BY <3>2, <1>2, <1>4, <1>5 DEF IInv, IdIsOnePair
    <3> QED BY <3>1, <3>2
  <2> QED BY <2>1, <2>2 DEF IdIsOnePair, Runs
<1> QED BY <1>6, <1>7, <1>8, <1>9 DEF IInv

LEMMA AttachKeeps ==
  ASSUME IInv, NEW e \in Ends, Attach(e), RtcType'
  PROVE  IInv'
<1>0. PICK id \in Ids : id = round[e].id
  BY DEF Attach, IInv, RtcType
<1>1. Runs(e, id)
  BY <1>0 DEF Attach, Runs
<1>2. /\ round'[e].id = id /\ round'[e].phase = "attached"
      /\ \A f \in Ends : f # e => round'[f] = round[f]
      /\ signal' = signal
      /\ driven' = driven \cup {<<e, id>>}
  BY <1>0 DEF Attach, Enter, IInv, RtcType
<1>3. \A f \in Ends, i \in Ids : Runs(f, i)' => Runs(f, i)
  BY <1>1, <1>2 DEF Runs
<1>4. \A i \in Ids : Offerer(i)' = Offerer(i) /\ Answerer(i)' = Answerer(i)
  BY <1>2 DEF Offerer, Answerer
<1>5. DrivenIsAttached'
  BY <1>2 DEF IInv, DrivenIsAttached
<1>6. DialIsFresh'
  <2> SUFFICES ASSUME NEW f \in Ends, NEW i \in Ids,
                      round'[f] # None, round'[f].id = i, round'[f].phase = "dial"
               PROVE  /\ signal'[i] = None
                      /\ ~(round'[Other(f)] # None /\ round'[Other(f)].id = i)
                      /\ <<Other(f), i>> \notin driven'
    BY DEF DialIsFresh, Runs, RtcType
  <2>1. f # e /\ round[f] = round'[f]
    BY <1>2
  <2>2. signal[i] = None /\ ~Runs(Other(f), i) /\ <<Other(f), i>> \notin driven
    BY <2>1 DEF IInv, DialIsFresh
  <2>3. <<Other(f), i>> # <<e, id>>
    BY <2>2, <1>1
  <2> QED BY <2>2, <2>3, <1>2, <1>3, EndFacts DEF Runs
<1>7. ArrivalIsFresh'
  <2> SUFFICES ASSUME NEW i \in Ids, signal'[i] # None, signal'[i].st = "arriving"
               PROVE  ~Runs(Answerer(i), i)' /\ <<Answerer(i)', i>> \notin driven'
    BY DEF ArrivalIsFresh
  <2>1. ~Runs(Answerer(i), i) /\ <<Answerer(i), i>> \notin driven /\ Answerer(i) \in Ends
    BY <1>2, SignalEnds DEF IInv, ArrivalIsFresh
  <2>2. <<Answerer(i), i>> # <<e, id>>
    BY <2>1, <1>1
  <2>3. ~Runs(Answerer(i), i)'
    BY <2>1, <1>3, <1>4 DEF Runs
  <2> QED BY <2>1, <2>2, <2>3, <1>2, <1>4
<1>8. IdIsOnePair'
  <2>1. \A f, g \in Ends : \A i \in Ids : Runs(f, i)' /\ Runs(g, i)' => g \in {f, Other(f)}
    BY <1>3 DEF IInv, IdIsOnePair
  <2>2. \A i \in Ids : signal'[i] # None =>
          \A f \in Ends : Runs(f, i)' => f \in {Offerer(i)', Answerer(i)'}
    BY <1>2, <1>3, <1>4 DEF IInv, IdIsOnePair
  <2> QED BY <2>1, <2>2 DEF IdIsOnePair, Runs
<1> QED BY <1>5, <1>6, <1>7, <1>8 DEF IInv

\* The answerer's round starts, on a connection that no longer arrives.
Answers(id, a) ==
  /\ round'[a].id = id /\ round'[a].phase = "read"
  /\ \A f \in Ends : f # a => round'[f] = round[f]
  /\ signal'[id].from = signal[id].from /\ signal'[id].to = signal[id].to
  /\ signal'[id].st = "open"
  /\ \A i \in Ids : i # id => signal'[i] = signal[i]
  /\ driven' = driven

LEMMA AnswersKeeps ==
  ASSUME IInv, NEW id \in Ids, signal[id] # None, signal[id].st = "arriving",
         NEW a \in Ends, a = Answerer(id), Answers(id, a), RtcType'
  PROVE  IInv'
<1>1. ~Runs(a, id) /\ <<a, id>> \notin driven /\ Other(a) = Offerer(id)
  BY SignalEnds DEF IInv, ArrivalIsFresh
<1>2. \A f \in Ends, i \in Ids : Runs(f, i)' => Runs(f, i) \/ (f = a /\ i = id)
  BY DEF Answers, Runs
<1>3. \A i \in Ids : Offerer(i)' = Offerer(i) /\ Answerer(i)' = Answerer(i)
  BY DEF Answers, Offerer, Answerer
<1>4. DrivenIsAttached'
  BY <1>1 DEF IInv, DrivenIsAttached, Answers
<1>5. DialIsFresh'
  <2> SUFFICES ASSUME NEW f \in Ends, NEW i \in Ids,
                      round'[f] # None, round'[f].id = i, round'[f].phase = "dial"
               PROVE  /\ signal'[i] = None
                      /\ ~(round'[Other(f)] # None /\ round'[Other(f)].id = i)
                      /\ <<Other(f), i>> \notin driven'
    BY DEF DialIsFresh, Runs, RtcType
  <2>1. f # a /\ round[f] = round'[f]
    BY DEF Answers
  <2>2. signal[i] = None /\ ~Runs(Other(f), i) /\ <<Other(f), i>> \notin driven
    BY <2>1 DEF IInv, DialIsFresh
  <2>3. i # id
    BY <2>2
  <2> QED BY <2>2, <2>3, <1>2, EndFacts DEF Runs, Answers
<1>6. ArrivalIsFresh'
  <2> SUFFICES ASSUME NEW i \in Ids, signal'[i] # None, signal'[i].st = "arriving"
               PROVE  ~Runs(Answerer(i), i)' /\ <<Answerer(i)', i>> \notin driven'
    BY DEF ArrivalIsFresh
  <2>1. i # id /\ signal'[i] = signal[i]
    BY DEF Answers
  <2>2. ~Runs(Answerer(i), i) /\ <<Answerer(i), i>> \notin driven /\ Answerer(i) \in Ends
    BY <2>1, SignalEnds DEF IInv, ArrivalIsFresh
  <2> QED BY <2>1, <2>2, <1>2, <1>3 DEF Runs, Answers
<1>7. IdIsOnePair'
  <2>0. \A f \in Ends : Runs(f, id)' => f \in {a, Other(a)}
    BY <1>1, <1>2 DEF IInv, IdIsOnePair
  <2>1. ASSUME NEW f \in Ends, NEW g \in Ends, NEW i \in Ids, Runs(f, i)', Runs(g, i)'
        PROVE  g \in {f, Other(f)}
    <3>1. CASE i = id
      BY <3>1, <2>0, <2>1, EndFacts
    <3>2. CASE i # id
      BY <3>2, <2>1, <1>2 DEF IInv, IdIsOnePair
    <3> QED BY <3>1, <3>2
  <2>2. \A i \in Ids : signal'[i] # None =>
          \A f \in Ends : Runs(f, i)' => f \in {Offerer(i)', Answerer(i)'}
    <3> SUFFICES ASSUME NEW i \in Ids, signal'[i] # None, NEW f \in Ends, Runs(f, i)'
                 PROVE  f \in {Offerer(i), Answerer(i)}
      BY <1>3
    <3>1. CASE i = id
      BY <3>1, <2>0, <1>1
    <3>2. CASE i # id
      <4>1. signal[i] # None /\ Runs(f, i)
        BY <3>2, <1>2 DEF Answers
      <4> QED BY <4>1 DEF IInv, IdIsOnePair
    <3> QED BY <3>1, <3>2
  <2> QED BY <2>1, <2>2 DEF IdIsOnePair, Runs
<1> QED BY <1>4, <1>5, <1>6, <1>7 DEF IInv

-----------------------------------------------------------------------------
(* Every action is of one of these kinds *)

LEMMA RemovedType ==
  ASSUME NEW s \in Slots, NEW e \in Ends, NEW id \in Ids
  PROVE  Removed(s, e) \in Slots /\ RemovedIfGeneration(s, e, id) \in Slots
BY DEF Slots, Removed, RemovedIfGeneration

LEMMA DetachHeldType ==
  ASSUME RtcType, NEW e \in Ends
  PROVE  DetachHeld(e) \in Slots
BY DEF RtcType, DetachHeld, Slots, Removed

LEMMA QuietKeeps ==
  ASSUME IInv, UNCHANGED <<known, round, signal>>, slot' \in Slots, driven' \subseteq driven
  PROVE  IInv'
<1>1. RtcType'
  BY DEF IInv, RtcType
<1>2. Settles
  BY DEF Settles
<1> QED BY <1>1, <1>2, SettlesKeeps

LEMMA EnterType ==
  ASSUME RtcType, NEW e \in Ends, round[e] # None, NEW phase \in Phases, Enter(e, phase)
  PROVE  /\ round' \in [Ends -> {None} \cup [id : Ids, offers : BOOLEAN, phase : Phases]]
         /\ round'[e].id = round[e].id /\ round'[e].offers = round[e].offers
         /\ round'[e].phase = phase
         /\ \A f \in Ends : f # e => round'[f] = round[f]
<1>1. round[e] \in [id : Ids, offers : BOOLEAN, phase : Phases]
  BY DEF RtcType
<1> QED BY <1>1 DEF RtcType, Enter

LEMMA DialType ==
  ASSUME IInv, NEW e \in Ends, Dial(e)
  PROVE  RtcType'
<1>1. PICK id \in Ids : id = round[e].id
  BY DEF Dial, IInv, RtcType
<1>2. e[1] \in Nodes /\ e[2] \in Nodes /\ e[1] # e[2]
  BY EndFacts
<1>3. /\ round' \in [Ends -> {None} \cup [id : Ids, offers : BOOLEAN, phase : Phases]]
      /\ round'[e].id = id /\ round'[e].offers = round[e].offers /\ round'[e].phase = "exchange"
      /\ \A f \in Ends : f # e => round'[f] = round[f]
  BY <1>1, EnterType DEF Dial, IInv, Phases
<1>4. /\ signal' = [signal EXCEPT ![id] = [from |-> e[1], to |-> e[2], st |-> "arriving"]]
      /\ UNCHANGED <<known, slot, driven>>
  BY <1>1 DEF Dial, sessions
<1>5. [from |-> e[1], to |-> e[2], st |-> "arriving"] # None
  BY <1>2, RtcAssumption DEF Connection
<1>6. signal' \in [Ids -> {None} \cup Connection]
  BY <1>2, <1>4 DEF IInv, RtcType, Connection
<1>7. \A i \in Ids : signal'[i] # None => signal'[i].from # signal'[i].to
  BY <1>2, <1>4 DEF IInv, RtcType
<1>8. signal'[id] # None /\ \A i \in Ids : signal[i] # None => signal'[i] # None
  BY <1>4, <1>5 DEF IInv, RtcType
<1>9. \A f \in Ends : round'[f] # None /\ (round'[f].phase = "read" \/ ~round'[f].offers) =>
        signal'[round'[f].id] # None
  <2> SUFFICES ASSUME NEW f \in Ends, round'[f] # None,
                      round'[f].phase = "read" \/ ~round'[f].offers
               PROVE  signal'[round'[f].id] # None
    OBVIOUS
  <2>1. CASE f = e
    BY <2>1, <1>3, <1>8
  <2>2. CASE f # e
    BY <2>2, <1>3, <1>8 DEF IInv, RtcType
  <2> QED BY <2>1, <2>2
<1> QED BY <1>3, <1>4, <1>6, <1>7, <1>9 DEF IInv, RtcType

LEMMA AttachType ==
  ASSUME IInv, NEW e \in Ends, Attach(e)
  PROVE  RtcType'
<1>1. round[e] \in [id : Ids, offers : BOOLEAN, phase : Phases] /\ round[e].phase = "complete"
  BY DEF Attach, IInv, RtcType
<1>2. /\ round' \in [Ends -> {None} \cup [id : Ids, offers : BOOLEAN, phase : Phases]]
      /\ round'[e].id = round[e].id /\ round'[e].offers = round[e].offers
      /\ round'[e].phase = "attached"
      /\ \A f \in Ends : f # e => round'[f] = round[f]
  BY EnterType DEF Attach, IInv, Phases
<1>3. \A f \in Ends : round'[f] # None /\ (round'[f].phase = "read" \/ ~round'[f].offers) =>
        signal[round'[f].id] # None
  BY <1>1, <1>2 DEF IInv, RtcType, Attach
<1>4. slot' \in Slots
  BY <1>1 DEF IInv, RtcType, Attach, Slots
<1>5. driven' \subseteq Ends \X Ids /\ UNCHANGED <<known, signal>>
  BY <1>1 DEF IInv, RtcType, Attach
<1> QED BY <1>2, <1>3, <1>4, <1>5 DEF IInv, RtcType

LEMMA StartOfferKeeps ==
  ASSUME IInv, NEW e \in Ends, StartOffer(e), UNCHANGED <<known, signal, driven>>, slot' \in Slots
  PROVE  IInv'
<1>1. PICK id \in Ids : id = NewId
  BY NewIdIsFree DEF StartOffer
<1>2. round' = [round EXCEPT ![e] = [id |-> id, offers |-> TRUE, phase |-> "dial"]]
  BY <1>1 DEF StartOffer
<1>3. RtcType'
  <2>1. round' \in [Ends -> {None} \cup [id : Ids, offers : BOOLEAN, phase : Phases]]
    BY <1>2 DEF IInv, RtcType, Phases
  <2>2. \A f \in Ends : round'[f] # None /\ (round'[f].phase = "read" \/ ~round'[f].offers) =>
          signal[round'[f].id] # None
    BY <1>2 DEF IInv, RtcType
  <2> QED BY <2>1, <2>2 DEF IInv, RtcType
<1> QED BY <1>3, OfferKeeps

\* Closing a connection: it is gone, or waits to be noticed.
LEMMA ClosedSignal ==
  ASSUME RtcType, NEW id \in Ids, signal[id] # None,
         NEW why \in {"answered", "refused", "closed"}, Closed(id, why)
  PROVE  /\ signal' \in [Ids -> {None} \cup Connection]
         /\ \A i \in Ids : i # id => signal'[i] = signal[i]
         /\ Waiting(id) => /\ signal'[id] # None /\ signal'[id].st = why
                           /\ signal'[id].from = signal[id].from
                           /\ signal'[id].to = signal[id].to
         /\ ~Waiting(id) => signal'[id] = None
<1>1. signal[id] \in Connection
  BY DEF RtcType
<1>2. PICK c : c = [signal[id] EXCEPT !.st = why]
  OBVIOUS
<1>3. c \in Connection /\ c.from = signal[id].from /\ c.to = signal[id].to /\ c.st = why
  BY <1>1, <1>2 DEF Connection
<1>4. c # None
  BY <1>3, RtcAssumption
<1>5. signal' = [signal EXCEPT ![id] = IF Waiting(id) THEN c ELSE None]
  BY <1>2 DEF Closed
<1> QED BY <1>3, <1>4, <1>5 DEF RtcType

\* Whoever runs a round on a connection, once its end e is known to, is the
\* offerer, or e.
LEMMA OthersWait ==
  ASSUME IInv, NEW id \in Ids, signal[id] # None, NEW e \in Ends, NEW f \in Ends,
         Runs(e, id), Runs(f, id), f # e
  PROVE  Waiting(id)
<1>1. {e, f} \subseteq {Offerer(id), Answerer(id)}
  BY DEF IInv, IdIsOnePair
<1> QED BY <1>1 DEF Waiting, Offerer

LEMMA LeaveKeeps ==
  ASSUME IInv, NEW e \in Ends, round[e] # None, NEW why \in {"answered", "closed"},
         Leave(e, why), UNCHANGED known, slot' \in Slots, driven' \subseteq driven
  PROVE  IInv'
<1>0. PICK id \in Ids : id = round[e].id
  BY DEF IInv, RtcType
<1>1. Runs(e, id)
  BY <1>0 DEF Runs
<1>2. /\ round' \in [Ends -> {None} \cup [id : Ids, offers : BOOLEAN, phase : Phases]]
      /\ round'[e] = None
      /\ \A f \in Ends : f # e => round'[f] = round[f]
  BY <1>0 DEF Leave, IInv, RtcType
<1>3. /\ signal' \in [Ids -> {None} \cup Connection]
      /\ \A i \in Ids : i # id => signal'[i] = signal[i]
      /\ \/ signal'[id] = None \/ signal'[id] = signal[id]
         \/ /\ signal[id] # None /\ signal'[id].st # "arriving"
            /\ signal'[id].from = signal[id].from
            /\ signal'[id].to = signal[id].to
      /\ \A f \in Ends : f # e /\ Runs(f, id) /\ signal[id] # None => signal'[id] # None
  <2>1. CASE round[e].offers
    <3>1. signal' = signal \/ (~Runs(Other(e), id) /\ signal' = [signal EXCEPT ![id] = None])
      BY <2>1, <1>0 DEF Leave
    <3>2. \A f \in Ends : f # e /\ Runs(f, id) => f = Other(e)
      BY <1>1 DEF IInv, IdIsOnePair
    <3> QED BY <3>1, <3>2 DEF IInv, RtcType
  <2>2. CASE ~round[e].offers
    <3>1. signal[id] # None /\ Closed(id, why)
      BY <2>2, <1>0 DEF IInv, RtcType, Leave
    <3> QED BY <3>1, <1>1, ClosedSignal, OthersWait DEF IInv
  <2> QED BY <2>1, <2>2
<1>4. \A i \in Ids : signal'[i] # None => signal'[i].from # signal'[i].to
  BY <1>3 DEF IInv, RtcType
<1>5. \A f \in Ends : round'[f] # None /\ (round'[f].phase = "read" \/ ~round'[f].offers) =>
        signal'[round'[f].id] # None
  <2> SUFFICES ASSUME NEW f \in Ends, round'[f] # None,
                      round'[f].phase = "read" \/ ~round'[f].offers
               PROVE  signal'[round'[f].id] # None
    OBVIOUS
  <2>1. f # e /\ round'[f] = round[f]
    BY <1>2
  <2>2. PICK i \in Ids : i = round[f].id
    BY <2>1 DEF IInv, RtcType
  <2>3. signal[i] # None /\ Runs(f, i)
    BY <2>1, <2>2 DEF IInv, RtcType, Runs
  <2> QED BY <2>1, <2>2, <2>3, <1>3
<1>6. RtcType'
  BY <1>2, <1>3, <1>4, <1>5 DEF IInv, RtcType
<1>7. Settles
  BY <1>2, <1>3 DEF Settles
<1> QED BY <1>6, <1>7, SettlesKeeps

LEMMA ReadAnswerKeeps ==
  ASSUME IInv, NEW e \in Ends, ReadAnswer(e)
  PROVE  IInv'
<1>1. round[e] # None /\ round[e].phase = "exchange" /\ UNCHANGED <<known, signal, slot, driven>>
  BY DEF ReadAnswer, sessions
<1>2. /\ round' \in [Ends -> {None} \cup [id : Ids, offers : BOOLEAN, phase : Phases]]
      /\ round'[e].id = round[e].id /\ round'[e].offers = round[e].offers
      /\ round'[e].phase = "complete"
      /\ \A f \in Ends : f # e => round'[f] = round[f]
  BY <1>1, EnterType DEF ReadAnswer, IInv, Phases
<1>3. \A f \in Ends : round'[f] # None /\ (round'[f].phase = "read" \/ ~round'[f].offers) =>
        signal[round'[f].id] # None
  BY <1>1, <1>2 DEF IInv, RtcType
<1>4. RtcType'
  BY <1>1, <1>2, <1>3 DEF IInv, RtcType
<1>5. Settles
  BY <1>1, <1>2 DEF Settles
<1> QED BY <1>4, <1>5, SettlesKeeps

LEMMA SendAnswerKeeps ==
  ASSUME IInv, NEW e \in Ends, SendAnswer(e)
  PROVE  IInv'
<1>0. PICK id \in Ids : id = round[e].id
  BY DEF SendAnswer, IInv, RtcType
<1>1. round[e] # None /\ round[e].phase = "read" /\ UNCHANGED <<known, slot, driven>>
  BY DEF SendAnswer, sessions
<1>2. /\ round' \in [Ends -> {None} \cup [id : Ids, offers : BOOLEAN, phase : Phases]]
      /\ round'[e].id = id /\ round'[e].offers = round[e].offers
      /\ round'[e].phase = "complete"
      /\ \A f \in Ends : f # e => round'[f] = round[f]
  BY <1>0, <1>1, EnterType DEF SendAnswer, IInv, Phases
<1>3. signal[id] # None /\ signal[id] \in Connection
  BY <1>0, <1>1 DEF IInv, RtcType
<1>4. PICK c : c = [signal[id] EXCEPT !.st = "answered"]
  OBVIOUS
<1>5. c \in Connection /\ c.from = signal[id].from /\ c.to = signal[id].to /\ c.st = "answered"
  BY <1>3, <1>4 DEF Connection
<1>6. c # None
  BY <1>5, RtcAssumption
<1>7. signal' = [signal EXCEPT ![id] = c]
  BY <1>0, <1>4 DEF SendAnswer
<1>8. RtcType'
  <2>1. signal' \in [Ids -> {None} \cup Connection]
    BY <1>5, <1>7 DEF IInv, RtcType
  <2>2. \A i \in Ids : signal'[i] # None => signal'[i].from # signal'[i].to
    BY <1>3, <1>5, <1>7 DEF IInv, RtcType
  <2>3. signal'[id] # None /\ \A i \in Ids : signal[i] # None => signal'[i] # None
    BY <1>6, <1>7 DEF IInv, RtcType
  <2>4. \A f \in Ends : round'[f] # None /\ (round'[f].phase = "read" \/ ~round'[f].offers) =>
          signal'[round'[f].id] # None
    <3> SUFFICES ASSUME NEW f \in Ends, round'[f] # None,
                        round'[f].phase = "read" \/ ~round'[f].offers
                 PROVE  signal'[round'[f].id] # None
      OBVIOUS
    <3>1. CASE f = e
      BY <3>1, <1>2, <2>3
    <3>2. CASE f # e
      BY <3>2, <1>2, <2>3 DEF IInv, RtcType
    <3> QED BY <3>1, <3>2
  <2> QED BY <1>1, <1>2, <2>1, <2>2, <2>4 DEF IInv, RtcType
<1>9. Settles
  <2>1. \A i \in Ids : i # id => signal'[i] = signal[i]
    BY <1>7 DEF IInv, RtcType
  <2>2. signal'[id] = c
    BY <1>7 DEF IInv, RtcType
  <2> QED BY <1>0, <1>1, <1>2, <1>3, <1>5, <2>1, <2>2 DEF Settles
<1> QED BY <1>8, <1>9, SettlesKeeps

LEMMA AcceptKeeps ==
  ASSUME IInv, NEW id \in Ids, Accept(id)
  PROVE  IInv'
<1>1. /\ signal[id] # None /\ signal[id].st = "arriving"
      /\ UNCHANGED <<known, driven>>
  BY DEF Accept
<1>2. PICK a \in Ends : a = Answerer(id)
  BY <1>1, SignalEnds DEF IInv
<1>3. slot' \in Slots
  <2>1. slot' = DetachHeld(a)
    BY <1>2 DEF Accept, Answerer
  <2> QED BY <2>1, DetachHeldType DEF IInv
<1>4. CASE TryAdmit(a, DetachHeld(a)) = "admitted"
  <2>1. /\ round' = [round EXCEPT ![a] = [id |-> id, offers |-> FALSE, phase |-> "read"]]
        /\ signal' = [signal EXCEPT ![id].st = "open"]
    BY <1>2, <1>4 DEF Accept, Answerer
  <2>2. /\ round' \in [Ends -> {None} \cup [id : Ids, offers : BOOLEAN, phase : Phases]]
        /\ round'[a] = [id |-> id, offers |-> FALSE, phase |-> "read"]
        /\ \A f \in Ends : f # a => round'[f] = round[f]
    BY <2>1 DEF IInv, RtcType, Phases
  <2>3. PICK c : c = [signal[id] EXCEPT !.st = "open"]
    OBVIOUS
  <2>4. /\ c \in Connection /\ c.from = signal[id].from /\ c.to = signal[id].to
        /\ c.st = "open"
    BY <1>1, <2>3 DEF IInv, RtcType, Connection
  <2>5. c # None
    BY <2>4, RtcAssumption
  <2>6. /\ signal' \in [Ids -> {None} \cup Connection] /\ signal'[id] = c
        /\ \A i \in Ids : i # id => signal'[i] = signal[i]
    BY <2>1, <2>3, <2>4 DEF IInv, RtcType
  <2>7. \A i \in Ids : signal'[i] # None => signal'[i].from # signal'[i].to
    BY <1>1, <2>4, <2>6 DEF IInv, RtcType
  <2>8. \A f \in Ends : round'[f] # None /\ (round'[f].phase = "read" \/ ~round'[f].offers) =>
          signal'[round'[f].id] # None
    <3> SUFFICES ASSUME NEW f \in Ends, round'[f] # None,
                        round'[f].phase = "read" \/ ~round'[f].offers
                 PROVE  signal'[round'[f].id] # None
      OBVIOUS
    <3>1. CASE f = a
      BY <3>1, <2>2, <2>5, <2>6
    <3>2. CASE f # a
      BY <3>2, <2>2, <2>5, <2>6 DEF IInv, RtcType
    <3> QED BY <3>1, <3>2
  <2>9. RtcType'
    BY <1>1, <1>3, <2>2, <2>6, <2>7, <2>8 DEF IInv, RtcType
  <2>10. Answers(id, a)
    BY <1>1, <2>2, <2>4, <2>6 DEF Answers
  <2> QED BY <1>1, <1>2, <2>9, <2>10, AnswersKeeps
<1>5. CASE TryAdmit(a, DetachHeld(a)) # "admitted"
  <2>1. PICK why \in {"refused", "closed"} : Closed(id, why) /\ UNCHANGED round
    BY <1>2, <1>5 DEF Accept, Answerer
  <2>2. /\ signal' \in [Ids -> {None} \cup Connection]
        /\ \A i \in Ids : i # id => signal'[i] = signal[i]
        /\ Waiting(id) => /\ signal'[id] # None /\ signal'[id].st = why
                          /\ signal'[id].from = signal[id].from
                          /\ signal'[id].to = signal[id].to
        /\ ~Waiting(id) => signal'[id] = None
    BY <1>1, <2>1, ClosedSignal DEF IInv
  <2>3. \A i \in Ids : signal'[i] # None => signal'[i].from # signal'[i].to
    BY <1>1, <2>2 DEF IInv, RtcType
  <2>4. \A f \in Ends : Runs(f, id) => signal'[id] # None
    <3>1. \A f \in Ends : Runs(f, id) => f = Offerer(id)
      BY <1>1 DEF IInv, IdIsOnePair, ArrivalIsFresh
    <3> QED BY <3>1, <2>2 DEF Waiting, Offerer
  <2>5. \A f \in Ends : round'[f] # None /\ (round'[f].phase = "read" \/ ~round'[f].offers) =>
          signal'[round'[f].id] # None
    BY <2>1, <2>2, <2>4 DEF IInv, RtcType, Runs
  <2>6. RtcType'
    BY <1>1, <1>3, <2>1, <2>2, <2>3, <2>5 DEF IInv, RtcType
  <2>7. Settles
    BY <1>1, <2>1, <2>2 DEF Settles
  <2> QED BY <2>6, <2>7, SettlesKeeps
<1> QED BY <1>4, <1>5

LEMMA RebuildKeeps ==
  ASSUME IInv, NEW n \in Nodes, Rebuild(n)
  PROVE  IInv'
<1>1. /\ round' = [e \in Ends |-> IF e[1] = n THEN None ELSE round[e]]
      /\ slot' = [e \in Ends |-> IF e[1] = n THEN None ELSE slot[e]]
      /\ driven' \subseteq driven /\ UNCHANGED known
  BY DEF Rebuild
<1>2. ASSUME NEW id \in Ids
      PROVE  /\ signal'[id] \in {None} \cup Connection
             /\ \/ signal'[id] = None \/ signal'[id] = signal[id]
                \/ /\ signal[id] # None /\ signal'[id].st # "arriving"
                   /\ signal'[id].from = signal[id].from
                   /\ signal'[id].to = signal[id].to
             /\ signal[id] # None =>
                  \A f \in Ends : f[1] # n /\ Runs(f, id) => signal'[id] # None
  <2>1. CASE signal[id] = None \/ n \notin {signal[id].from, signal[id].to}
    <3>1. signal'[id] = signal[id]
      BY <2>1 DEF Rebuild
    <3> QED BY <3>1 DEF IInv, RtcType
  <2>2. CASE signal[id] # None /\ n \in {signal[id].from, signal[id].to}
    <3> DEFINE c == [signal[id] EXCEPT !.st = "closed"]
    <3>1. signal[id] \in Connection /\ signal[id].from # signal[id].to
      BY <2>2 DEF IInv, RtcType
    <3>2. /\ c \in Connection /\ c # None /\ c.from = signal[id].from
          /\ c.to = signal[id].to /\ c.st = "closed"
      BY <3>1, RtcAssumption DEF Connection
    <3> HIDE DEF c
    <3>3. CASE signal[id].to = n /\ Waiting(id)
      <4>1. signal'[id] = c
        BY <2>2, <3>3 DEF Rebuild, c
      <4> QED BY <4>1, <2>2, <3>2
    <3>4. CASE /\ ~(signal[id].to = n /\ Waiting(id)) /\ signal[id].from = n
               /\ signal[id].st = "arriving" \/ \E e \in Ends : e[1] # n /\ Runs(e, id)
      <4>1. signal'[id] = signal[id]
        BY <2>2, <3>4 DEF Rebuild
      <4> QED BY <4>1, <3>1, <2>2
    <3>5. CASE /\ ~(signal[id].to = n /\ Waiting(id))
               /\ ~(/\ signal[id].from = n
                    /\ signal[id].st = "arriving" \/ \E e \in Ends : e[1] # n /\ Runs(e, id))
      <4>1. signal'[id] = None
        BY <2>2, <3>5 DEF Rebuild
      <4>2. ASSUME NEW f \in Ends, f[1] # n, Runs(f, id) PROVE FALSE
        <5>1. signal[id].to = n /\ ~Waiting(id)
          BY <2>2, <3>5, <4>2
        <5>2. f \in {Offerer(id), Answerer(id)}
          BY <4>2, <2>2 DEF IInv, IdIsOnePair
        <5>3. f = Offerer(id)
          BY <5>1, <5>2, <4>2 DEF Answerer
        <5> QED BY <5>1, <5>3, <4>2 DEF Waiting, Offerer
      <4> QED BY <4>1, <4>2
    <3> QED BY <3>3, <3>4, <3>5
  <2> QED BY <2>1, <2>2
<1>3. signal' \in [Ids -> {None} \cup Connection]
  <2>1. PICK g : signal' = [id \in Ids |-> g[id]]
    <3> DEFINE h == [id \in Ids |-> signal'[id]]
    <3>1. signal' = [id \in Ids |-> h[id]]
      BY DEF Rebuild
    <3> QED BY <3>1
  <2> QED BY <1>2, <2>1
<1>4. \A i \in Ids : signal'[i] # None => signal'[i].from # signal'[i].to
  BY <1>2 DEF IInv, RtcType
<1>5. \A f \in Ends : round'[f] # None /\ (round'[f].phase = "read" \/ ~round'[f].offers) =>
        signal'[round'[f].id] # None
  <2> SUFFICES ASSUME NEW f \in Ends, round'[f] # None,
                      round'[f].phase = "read" \/ ~round'[f].offers
               PROVE  signal'[round'[f].id] # None
    OBVIOUS
  <2>1. f[1] # n /\ round'[f] = round[f]
    BY <1>1
  <2>2. PICK i \in Ids : i = round[f].id
    BY <2>1 DEF IInv, RtcType
  <2>3. signal[i] # None /\ Runs(f, i)
    BY <2>1, <2>2 DEF IInv, RtcType, Runs
  <2> QED BY <2>1, <2>2, <2>3, <1>2
<1>6. RtcType'
  <2>1. /\ round' \in [Ends -> {None} \cup [id : Ids, offers : BOOLEAN, phase : Phases]]
        /\ slot' \in Slots /\ driven' \subseteq Ends \X Ids
    BY <1>1 DEF IInv, RtcType, Slots
  <2> QED BY <2>1, <1>1, <1>3, <1>4, <1>5 DEF IInv, RtcType
<1>7. Settles
  BY <1>1, <1>2 DEF Settles
<1> QED BY <1>6, <1>7, SettlesKeeps

LEMMA MemberEnd ==
  ASSUME RtcType, NEW n \in Nodes, n \in Members
  PROVE  ToRendezvous(n) \in Ends
BY DEF RtcType, Members, ToRendezvous, Ends

LEMMA OfferRendezvousFacts ==
  ASSUME NEW n \in Nodes, NEW slots \in Slots, NEW e \in Ends, e = ToRendezvous(n),
         OfferRendezvous(n, slots)
  PROVE  /\ slot' \in {slots, Removed(slots, e)} /\ slot' \in Slots
         /\ \/ UNCHANGED round
            \/ StartOffer(e) /\ TryAdmit(e, slot') = "admitted"
<1>1. Removed(slots, e) \in Slots
  BY DEF Removed, Slots
<1> QED BY <1>1 DEF OfferRendezvous

LEMMA NextKeeps ==
  ASSUME IInv, [Next]_vars
  PROVE  IInv'
<1>1. ASSUME NEW e \in Ends, Negotiate(e) PROVE IInv'
  <2>1. StartOffer(e) /\ UNCHANGED <<known, signal, slot, driven>>
    BY <1>1 DEF Negotiate, sessions
  <2> QED BY <2>1, StartOfferKeeps DEF IInv, RtcType
<1>2. ASSUME NEW e \in Ends, Dial(e) PROVE IInv'
  BY <1>2, DialType, DialKeeps
<1>3. ASSUME NEW e \in Ends, SendAnswer(e) PROVE IInv'
  BY <1>3, SendAnswerKeeps
<1>4. ASSUME NEW e \in Ends, ReadAnswer(e) PROVE IInv'
  BY <1>4, ReadAnswerKeeps
<1>5. ASSUME NEW e \in Ends, Attach(e) PROVE IInv'
  BY <1>5, AttachType, AttachKeeps
<1>6. ASSUME NEW e \in Ends, Fulfil(e) PROVE IInv'
  <2>1. /\ round[e] # None /\ Leave(e, "answered") /\ UNCHANGED <<known, driven>>
        /\ slot' = slot \/ slot' = [slot EXCEPT ![e].live = TRUE]
        /\ slot' # slot => slot[e] # None
    BY <1>6 DEF Fulfil, Holds
  <2>2. slot' \in Slots
    BY <2>1 DEF IInv, RtcType, Slots
  <2> QED BY <2>1, <2>2, LeaveKeeps
<1>7. ASSUME NEW e \in Ends, RoundFails(e) PROVE IInv'
  <2>1. /\ round[e] # None /\ Leave(e, "closed") /\ UNCHANGED known
        /\ driven' \subseteq driven
        /\ slot' \in {slot, RemovedIfGeneration(slot, e, round[e].id)}
    BY <1>7 DEF RoundFails, DropGuard
  <2>2. slot' \in Slots
    BY <2>1, RemovedType DEF IInv, RtcType
  <2> QED BY <2>1, <2>2, LeaveKeeps
<1>8. ASSUME NEW id \in Ids, Accept(id) PROVE IInv'
  BY <1>8, AcceptKeeps
<1>9. ASSUME NEW h \in driven, HalfEnds(h) PROVE IInv'
  <2>1. h[1] \in Ends /\ h[2] \in Ids
    BY DEF IInv, RtcType
  <2>2. slot' \in Slots
    BY <1>9, <2>1, RemovedType DEF HalfEnds, IInv, RtcType
  <2> QED BY <1>9, <2>2, QuietKeeps DEF HalfEnds
<1>10. ASSUME NEW n \in Nodes, HealTick(n) \/ NeighborDown(n) PROVE IInv'
  <2>1. PICK e \in Ends : e = ToRendezvous(n)
    BY <1>10, MemberEnd DEF HealTick, NeighborDown, IInv
  <2>2. PICK slots \in Slots : OfferRendezvous(n, slots)
    <3>1. slot \in Slots /\ Removed(slot, e) \in Slots
      BY DEF IInv, RtcType, Removed, Slots
    <3> QED BY <1>10, <2>1, <3>1 DEF HealTick, NeighborDown
  <2>3. slot' \in Slots /\ (UNCHANGED round \/ StartOffer(e))
    BY <2>1, <2>2, OfferRendezvousFacts
  <2>4. UNCHANGED <<known, signal, driven>>
    BY <1>10 DEF HealTick, NeighborDown
  <2> QED BY <2>3, <2>4, QuietKeeps, StartOfferKeeps
<1>11. ASSUME NEW n \in Nodes, Rebuild(n) PROVE IInv'
  BY <1>11, RebuildKeeps
<1>12. ASSUME UNCHANGED <<known, round, signal, sessions>> PROVE IInv'
  BY <1>12, QuietKeeps DEF sessions, IInv, RtcType
<1>13. ASSUME NEW n \in Nodes,
              CoolingEnds(n) \/ Graft(n) \/ NeighborUp(n) \/ GraftFails(n) \/ Close(n)
       PROVE  IInv'
  BY <1>12, <1>13 DEF CoolingEnds, Graft, NeighborUp, GraftFails, Close
<1>14. CASE Stabilise \/ UNCHANGED vars
  BY <1>12, <1>14 DEF Stabilise, vars
<1> QED BY <1>1, <1>2, <1>3, <1>4, <1>5, <1>6, <1>7, <1>8, <1>9, <1>10, <1>11, <1>13, <1>14
        DEF Next, RoundStep, LinkStep

LEMMA InitHolds == Init => IInv
BY RtcAssumption
   DEF Init, IInv, RtcType, Slots, DrivenIsAttached, DialIsFresh, ArrivalIsFresh, IdIsOnePair, Runs

LEMMA IInvHolds == Spec => []IInv
<1>1. IInv /\ [Next]_vars => IInv'
  BY NextKeeps
<1> QED BY <1>1, InitHolds, PTL DEF Spec

-----------------------------------------------------------------------------
(* The table *)

LEMMA SameEntry ==
  ASSUME slot' = slot, driven' = driven
  PROVE  UNCHANGED Table!table
BY DEF Table!table, Entry

LEMMA DetachStep ==
  ASSUME slot \in Slots, NEW e \in Ends, slot' \in {slot, Removed(slot, e)}, driven' = driven
  PROVE  [Table!TableNext]_(Table!table)
<1>1. CASE slot' = slot
  BY <1>1, SameEntry
<1>2. CASE slot' = Removed(slot, e) /\ slot[e] = None
  <2>1. slot' = slot
    BY <1>2 DEF Removed, Slots
  <2> QED BY <2>1, SameEntry
<1>3. CASE slot' = Removed(slot, e) /\ slot[e] # None
  <2>1. Entry[e] # None
    BY <1>3, RtcAssumption DEF Entry, Slots
  <2>2. Entry' = [Entry EXCEPT ![e] = None]
    BY <1>3 DEF Entry, Slots, Removed
  <2>3. Table!Detach(e)
    BY <2>1, <2>2 DEF Table!Detach
  <2> QED BY <2>3 DEF Table!TableNext
<1> QED BY <1>1, <1>2, <1>3

LEMMA EndStep ==
  ASSUME slot \in Slots, NEW e \in Ends, NEW id \in Ids,
         driven' = driven \ {<<e, id>>}, slot' = RemovedIfGeneration(slot, e, id)
  PROVE  [Table!TableNext]_(Table!table)
<1>1. CASE <<e, id>> \notin driven
  BY <1>1, DetachStep DEF RemovedIfGeneration
<1>2. CASE <<e, id>> \in driven
  <2>1. Entry[e] = id <=> Holds(slot, e, id)
    BY RtcAssumption DEF Entry, Holds, Slots
  <2>2. Entry' = IF Entry[e] = id THEN [Entry EXCEPT ![e] = None] ELSE Entry
    BY <2>1 DEF Entry, RemovedIfGeneration, Removed, Slots
  <2>3. Table!End(e, id)
    BY <1>2, <2>2 DEF Table!End
  <2> QED BY <2>3 DEF Table!TableNext
<1> QED BY <1>1, <1>2

LEMMA AttachStep ==
  ASSUME IInv, NEW e \in Ends, Attach(e)
  PROVE  Table!TableNext
<1>1. PICK id \in Ids : id = round[e].id
  BY DEF Attach, IInv, RtcType
<1>2. slot[e] = None /\ <<e, id>> \notin driven /\ driven' = driven \cup {<<e, id>>}
  BY <1>1 DEF Attach, IInv, DrivenIsAttached
<1> DEFINE s == [id |-> id, live |-> e[1] \in Tabs]
<1>3. s \in [id : Ids, live : BOOLEAN] /\ s.id = id /\ slot' = [slot EXCEPT ![e] = s]
  BY <1>1 DEF Attach
<1> HIDE DEF s
<1>4. s # None
  BY <1>3, RtcAssumption
<1>5. Entry' = [Entry EXCEPT ![e] = id]
  BY <1>3, <1>4 DEF Entry, IInv, RtcType, Slots
<1>6. Entry[e] = None
  BY <1>2 DEF Entry
<1>7. Table!Open(e, id)
  BY <1>2, <1>5, <1>6 DEF Table!Open
<1> QED BY <1>7 DEF Table!TableNext

LEMMA RebuildStep ==
  ASSUME IInv, NEW n \in Nodes, Rebuild(n)
  PROVE  [Table!TableNext]_(Table!table)
<1>1. /\ Entry' = [e \in Ends |-> IF e[1] = n THEN None ELSE Entry[e]]
      /\ driven' = {h \in driven : h[1][1] # n}
  BY DEF Rebuild, Entry, IInv, RtcType, Slots
<1>2. Table!Reset(n)
  BY <1>1 DEF Table!Reset
<1>3. CASE \E e \in Ends : e[1] = n
  BY <1>2, <1>3 DEF Table!TableNext
<1>4. CASE ~\E e \in Ends : e[1] = n
  <2>1. slot' = slot
    BY <1>4 DEF Rebuild, IInv, RtcType, Slots
  <2>2. driven' = driven
    BY <1>1, <1>4 DEF IInv, RtcType
  <2> QED BY <2>1, <2>2, SameEntry
<1> QED BY <1>3, <1>4

LEMMA FulfilSame ==
  ASSUME IInv, NEW e \in Ends, Fulfil(e)
  PROVE  Entry' = Entry /\ driven' = driven
<1>1. CASE slot' = slot
  BY <1>1 DEF Fulfil, Entry
<1>2. CASE slot[e] # None /\ slot' = [slot EXCEPT ![e].live = TRUE]
  <2>1. PICK s : s = [slot[e] EXCEPT !.live = TRUE]
    OBVIOUS
  <2>2. s \in [id : Ids, live : BOOLEAN] /\ s.id = slot[e].id
    BY <1>2, <2>1 DEF IInv, RtcType, Slots
  <2>3. s # None
    BY <2>2, RtcAssumption
  <2>4. slot' = [slot EXCEPT ![e] = s]
    BY <1>2, <2>1
  <2> QED BY <1>2, <2>2, <2>3, <2>4 DEF Fulfil, Entry, IInv, RtcType, Slots
<1> QED BY <1>1, <1>2 DEF Fulfil, Holds

LEMMA TableStep ==
  ASSUME IInv, [Next]_vars
  PROVE  [Table!TableNext]_(Table!table)
<1> DEFINE Goal == [Table!TableNext]_(Table!table)
<1>0. ASSUME slot' = slot, driven' = driven PROVE Goal
  BY <1>0, SameEntry
<1> HIDE DEF Goal
<1>1. ASSUME NEW e \in Ends, Negotiate(e) \/ Dial(e) \/ SendAnswer(e) \/ ReadAnswer(e) PROVE Goal
  BY <1>0, <1>1 DEF Negotiate, Dial, SendAnswer, ReadAnswer, sessions
<1>2. ASSUME NEW e \in Ends, Attach(e) PROVE Goal
  BY <1>2, AttachStep DEF Goal
<1>3. ASSUME NEW e \in Ends, Fulfil(e) PROVE Goal
  BY <1>3, FulfilSame DEF Goal, Table!table
<1>4. ASSUME NEW e \in Ends, RoundFails(e) PROVE Goal
  <2>1. PICK id \in Ids : id = round[e].id
    BY <1>4 DEF RoundFails, IInv, RtcType
  <2>2. driven' = driven \ {<<e, id>>}
    BY <1>4, <2>1 DEF RoundFails
  <2>3. CASE round[e].phase = "attached"
    <3>1. slot' = RemovedIfGeneration(slot, e, id)
      BY <1>4, <2>1, <2>3 DEF RoundFails, DropGuard
    <3> QED BY <2>2, <3>1, EndStep DEF IInv, RtcType, Goal
  <2>4. CASE round[e].phase # "attached"
    <3>1. <<e, id>> \notin driven /\ slot' = slot
      BY <1>4, <2>1, <2>4 DEF RoundFails, IInv, DrivenIsAttached
    <3> QED BY <2>2, <3>1, <1>0
  <2> QED BY <2>3, <2>4
<1>5. ASSUME NEW id \in Ids, Accept(id) PROVE Goal
  <2>1. PICK a \in Ends : a = Answerer(id)
    BY <1>5, SignalEnds DEF IInv, Accept
  <2>2. slot' \in {slot, Removed(slot, a)} /\ driven' = driven
    BY <1>5, <2>1 DEF Accept, DetachHeld, Answerer
  <2> QED BY <2>2, DetachStep DEF IInv, RtcType, Goal
<1>6. ASSUME NEW h \in driven, HalfEnds(h) PROVE Goal
  <2>1. PICK e \in Ends, id \in Ids : h = <<e, id>>
    BY DEF IInv, RtcType
  <2>2. driven' = driven \ {<<e, id>>} /\ slot' = RemovedIfGeneration(slot, e, id)
    BY <1>6, <2>1 DEF HalfEnds
  <2> QED BY <2>2, EndStep DEF IInv, RtcType, Goal
<1>7. ASSUME NEW n \in Nodes, HealTick(n) \/ NeighborDown(n) PROVE Goal
  <2>1. PICK e \in Ends : e = ToRendezvous(n)
    BY <1>7, MemberEnd DEF HealTick, NeighborDown, IInv
  <2>2. /\ slot \in Slots /\ Removed(slot, e) \in Slots
        /\ Removed(Removed(slot, e), e) = Removed(slot, e)
    BY DEF IInv, RtcType, Removed, Slots
  <2>3. slot' \in {slot, Removed(slot, e)}
    BY <1>7, <2>1, <2>2, OfferRendezvousFacts DEF HealTick, NeighborDown
  <2>4. driven' = driven
    BY <1>7 DEF HealTick, NeighborDown
  <2> QED BY <2>2, <2>3, <2>4, DetachStep DEF Goal
<1>8. ASSUME NEW n \in Nodes, Rebuild(n) PROVE Goal
  BY <1>8, RebuildStep DEF Goal
<1>9. ASSUME NEW n \in Nodes,
             CoolingEnds(n) \/ Graft(n) \/ NeighborUp(n) \/ GraftFails(n) \/ Close(n)
      PROVE  Goal
  BY <1>0, <1>9 DEF CoolingEnds, Graft, NeighborUp, GraftFails, Close, sessions
<1>10. ASSUME Stabilise \/ UNCHANGED vars PROVE Goal
  BY <1>0, <1>10 DEF Stabilise, vars, sessions
<1>11. Goal
  BY <1>1, <1>2, <1>3, <1>4, <1>5, <1>6, <1>7, <1>8, <1>9, <1>10 DEF Next, RoundStep, LinkStep
<1> QED BY <1>11 DEF Goal

\* For any nodes, ceiling and number of rounds, the registry and what drives its
\* sessions implement the table: reserve fills free slots only, and a half that
\* ends takes no successor's slot along (registry.rs).
THEOREM SessionsImplementTheTable == Spec => IsTable
<1>1. Init => Table!TableInit
  BY DEF Init, Table!TableInit, Entry
<1>2. IInv /\ [Next]_vars => [Table!TableNext]_(Table!table)
  BY TableStep
<1> QED BY <1>1, <1>2, IInvHolds, PTL DEF Spec, IsTable, Table!TableSpec

\* No phantom slot: what a registry names has a driver, or the browser's
\* hooks, to retire it (reserve, fulfil, remove_if_generation).
THEOREM NoPhantomSlot == Spec => []Table!NoPhantom
<1>1. Table!TableInit => Table!NoPhantom
  BY DEF Table!TableInit, Table!NoPhantom
<1>2. Table!NoPhantom /\ [Table!TableNext]_(Table!table) => Table!NoPhantom'
  <2> SUFFICES ASSUME Table!NoPhantom, [Table!TableNext]_(Table!table)
               PROVE  Table!NoPhantom'
    OBVIOUS
  <2>0. PICK old : old = Entry /\ old = [e \in Ends |-> old[e]]
    BY DEF Entry
  <2>1. ASSUME NEW e \in Ends, NEW s \in Ids, Table!Open(e, s) PROVE Table!NoPhantom'
    BY <2>0, <2>1 DEF Table!NoPhantom, Table!Open
  <2>2. ASSUME NEW e \in Ends, NEW s \in Ids, Table!End(e, s) PROVE Table!NoPhantom'
    BY <2>0, <2>2 DEF Table!NoPhantom, Table!End
  <2>3. ASSUME NEW e \in Ends, Table!Detach(e) PROVE Table!NoPhantom'
    BY <2>0, <2>3 DEF Table!NoPhantom, Table!Detach
  <2>4. ASSUME NEW n, Table!Reset(n) PROVE Table!NoPhantom'
    BY <2>4 DEF Table!NoPhantom, Table!Reset
  <2>5. CASE UNCHANGED Table!table
    BY <2>5 DEF Table!NoPhantom, Table!table
  <2> QED BY <2>1, <2>2, <2>3, <2>4, <2>5 DEF Table!TableNext
<1> QED BY <1>1, <1>2, SessionsImplementTheTable, PTL DEF IsTable, Table!TableSpec

-----------------------------------------------------------------------------
(* The ceiling *)

Taken(n) == LivePeers(slot, n) \cup InFlight(round, n)

LEMMA TakenFinite ==
  ASSUME NEW n \in Nodes, NEW slots
  PROVE  /\ IsFiniteSet(LivePeers(slots, n)) /\ IsFiniteSet(InFlight(round, n))
         /\ Cardinality(LivePeers(slots, n)) \in Nat
         /\ Cardinality(InFlight(round, n)) \in Nat
<1>1. LivePeers(slots, n) \in SUBSET Nodes /\ InFlight(round, n) \in SUBSET Nodes
  BY DEF LivePeers, InFlight
<1> QED BY <1>1, RtcAssumption, FS_Subset, FS_CardinalityType

\* Nothing new is taken.
LEMMA ShrinkKeepsCap ==
  ASSUME CapHolds, \A n \in Nodes : Taken(n)' \subseteq Taken(n)
  PROVE  CapHolds'
<1> SUFFICES ASSUME NEW n \in Nodes PROVE Cardinality(Taken(n)') <= Cap
  BY DEF CapHolds, Taken
<1>1. IsFiniteSet(Taken(n)) /\ Cardinality(Taken(n)) \in Nat
  BY TakenFinite, FS_Union, FS_CardinalityType DEF Taken
<1>2. Cardinality(Taken(n)) <= Cap
  BY DEF CapHolds, Taken
<1>3. IsFiniteSet(Taken(n)') /\ Cardinality(Taken(n)') <= Cardinality(Taken(n))
  BY <1>1, FS_Subset
<1>4. Cardinality(Taken(n)') \in Nat
  BY <1>3, FS_CardinalityType
<1> QED BY <1>1, <1>2, <1>3, <1>4, RtcAssumption

LEMMA OneMoreCard ==
  ASSUME NEW L, NEW F, NEW x, IsFiniteSet(L), IsFiniteSet(F),
         NEW T, T \subseteq (L \cup F) \cup {x}
  PROVE  Cardinality(T) \in Nat /\ Cardinality(T) <= Cardinality(L) + Cardinality(F) + 1
<1>1. /\ Cardinality(L) \in Nat /\ Cardinality(F) \in Nat /\ IsFiniteSet(L \cup F)
      /\ Cardinality(L \cup F) = Cardinality(L) + Cardinality(F) - Cardinality(L \cap F)
  BY FS_CardinalityType, FS_Union
<1>2. IsFiniteSet(L \cap F)
  BY FS_Subset
<1>3. Cardinality(L \cap F) \in Nat
  BY <1>2, FS_CardinalityType
<1>4. PICK U : U = L \cup F
  OBVIOUS
<1>5. IsFiniteSet(U) /\ Cardinality(U) \in Nat
  BY <1>1, <1>4, FS_CardinalityType
<1>6. IsFiniteSet(U \cup {x}) /\ Cardinality(U \cup {x}) \in {Cardinality(U), Cardinality(U) + 1}
  BY <1>5, FS_AddElement
<1>7. IsFiniteSet(T) /\ Cardinality(T) <= Cardinality(U \cup {x})
  BY <1>4, <1>6, FS_Subset
<1>8. Cardinality(T) \in Nat
  BY <1>7, FS_CardinalityType
<1>9. Cardinality(U) = Cardinality(L) + Cardinality(F) - Cardinality(L \cap F)
  BY <1>1, <1>4
<1> QED BY <1>1, <1>3, <1>5, <1>6, <1>7, <1>8, <1>9

\* One round starts, admitted.
LEMMA AdmitKeepsCap ==
  ASSUME IInv, CapHolds, NEW e \in Ends, TryAdmit(e, slot') = "admitted",
         \A f \in Ends : f # e => round'[f] = round[f],
         slot' \in {slot, Removed(slot, e)}
  PROVE  CapHolds'
<1> SUFFICES ASSUME NEW n \in Nodes PROVE Cardinality(Taken(n)') <= Cap
  BY DEF CapHolds, Taken
<1>1. CASE n # e[1]
  <2>1. Taken(n)' \subseteq Taken(n)
    BY <1>1 DEF Taken, LivePeers, InFlight, Live, Removed, IInv, RtcType, Slots, Ends
  <2>2. IsFiniteSet(Taken(n)) /\ Cardinality(Taken(n)) \in Nat
    BY TakenFinite, FS_Union, FS_CardinalityType DEF Taken
  <2>3. Cardinality(Taken(n)) <= Cap
    BY DEF CapHolds, Taken
  <2>4. IsFiniteSet(Taken(n)') /\ Cardinality(Taken(n)') <= Cardinality(Taken(n))
    BY <2>1, <2>2, FS_Subset
  <2>5. Cardinality(Taken(n)') \in Nat
    BY <2>4, FS_CardinalityType
  <2> QED BY <2>2, <2>3, <2>4, <2>5, RtcAssumption
<1>2. CASE n = e[1]
  <2> DEFINE L == LivePeers(slot', n)
             F == InFlight(round, n)
  <2>1. Cardinality(L) + Cardinality(F) < Cap
    BY <1>2 DEF TryAdmit, BelowCap
  <2>2. IsFiniteSet(L) /\ IsFiniteSet(F) /\ Cardinality(L) \in Nat /\ Cardinality(F) \in Nat
    BY TakenFinite
  <2>3. Taken(n)' \subseteq (L \cup F) \cup {e[2]}
    BY <1>2 DEF Taken, LivePeers, InFlight, Live, Ends
  <2> HIDE DEF L, F
  <2>4. Cardinality(Taken(n)') <= Cardinality(L) + Cardinality(F) + 1
    BY <2>2, <2>3, OneMoreCard
  <2>5. Cardinality(Taken(n)') \in Nat
    BY <2>2, <2>3, OneMoreCard
  <2> QED BY <2>1, <2>2, <2>4, <2>5, RtcAssumption
<1> QED BY <1>1, <1>2

LEMMA CapKept ==
  ASSUME IInv, CapHolds, [Next]_vars
  PROVE  CapHolds'
<1>1. ASSUME NEW e \in Ends, Negotiate(e) PROVE CapHolds'
  <2>1. slot' = slot
    BY <1>1 DEF Negotiate, sessions
  <2>2. TryAdmit(e, slot') = "admitted" /\ \A f \in Ends : f # e => round'[f] = round[f]
    BY <1>1, <2>1 DEF Negotiate, StartOffer, IInv, RtcType
  <2> QED BY <2>1, <2>2, AdmitKeepsCap
<1>2. ASSUME NEW e \in Ends, round[e] # None, \A f \in Ends : f # e => round'[f] = round[f],
             \A f \in Ends : f # e => slot'[f] = slot[f]
      PROVE  CapHolds'
  <2>1. \A n \in Nodes : Taken(n)' \subseteq Taken(n)
    BY <1>2 DEF Taken, LivePeers, InFlight, Live, Ends
  <2> QED BY <2>1, ShrinkKeepsCap
<1>3. ASSUME NEW e \in Ends, RoundStep(e) PROVE CapHolds'
  <2>1. round[e] # None
    BY <1>3 DEF RoundStep, Dial, SendAnswer, ReadAnswer, Attach, Fulfil, RoundFails
  <2>2. \A f \in Ends : f # e => round'[f] = round[f]
    BY <1>3 DEF RoundStep, Dial, SendAnswer, ReadAnswer, Attach, Fulfil, RoundFails, Enter, Leave,
                IInv, RtcType
  <2>3. \A f \in Ends : f # e => slot'[f] = slot[f]
    BY <1>3 DEF RoundStep, Dial, SendAnswer, ReadAnswer, Attach, Fulfil, RoundFails, sessions,
                DropGuard, RemovedIfGeneration, Removed, IInv, RtcType, Slots
  <2> QED BY <2>1, <2>2, <2>3, <1>2
<1>4. ASSUME \A f \in Ends : round'[f] \in {None, round[f]},
             \A f \in Ends : slot'[f] \in {None, slot[f]}
      PROVE  CapHolds'
  <2>1. \A n \in Nodes : Taken(n)' \subseteq Taken(n)
    BY <1>4 DEF Taken, LivePeers, InFlight, Live, Ends
  <2> QED BY <2>1, ShrinkKeepsCap
<1>5. ASSUME NEW id \in Ids, Accept(id) PROVE CapHolds'
  <2>1. PICK a \in Ends : a = Answerer(id)
    BY <1>5, SignalEnds DEF IInv, Accept
  <2>2. slot' = DetachHeld(a) /\ slot' \in {slot, Removed(slot, a)}
    BY <1>5, <2>1 DEF Accept, Answerer, DetachHeld
  <2>3. CASE TryAdmit(a, slot') = "admitted"
    <3>1. \A f \in Ends : f # a => round'[f] = round[f]
      BY <1>5, <2>1, <2>2, <2>3 DEF Accept, Answerer, IInv, RtcType
    <3> QED BY <2>2, <2>3, <3>1, AdmitKeepsCap
  <2>4. CASE TryAdmit(a, slot') # "admitted"
    <3>1. round' = round
      BY <1>5, <2>1, <2>2, <2>4 DEF Accept, Answerer
    <3>2. \A f \in Ends : slot'[f] \in {None, slot[f]}
      BY <2>2 DEF Removed, IInv, RtcType, Slots
    <3> QED BY <3>1, <3>2, <1>4
  <2> QED BY <2>3, <2>4
<1>6. ASSUME NEW h \in driven, HalfEnds(h) PROVE CapHolds'
  <2>1. \A f \in Ends : slot'[f] \in {None, slot[f]}
    BY <1>6 DEF HalfEnds, RemovedIfGeneration, Removed, IInv, RtcType, Slots
  <2>2. round' = round
    BY <1>6 DEF HalfEnds
  <2> QED BY <2>1, <2>2, <1>4
<1>7. ASSUME NEW n \in Nodes, HealTick(n) \/ NeighborDown(n) PROVE CapHolds'
  <2>1. PICK e \in Ends : e = ToRendezvous(n)
    BY <1>7, MemberEnd DEF HealTick, NeighborDown, IInv
  <2>2. /\ slot \in Slots /\ Removed(slot, e) \in Slots
        /\ Removed(Removed(slot, e), e) = Removed(slot, e)
    BY DEF IInv, RtcType, Removed, Slots
  <2>3. /\ slot' \in {slot, Removed(slot, e)}
        /\ UNCHANGED round \/ (StartOffer(e) /\ TryAdmit(e, slot') = "admitted")
    BY <1>7, <2>1, <2>2, OfferRendezvousFacts DEF HealTick, NeighborDown
  <2>4. CASE UNCHANGED round
    <3>1. \A f \in Ends : slot'[f] \in {None, slot[f]}
      BY <2>3 DEF Removed, IInv, RtcType, Slots
    <3> QED BY <2>4, <3>1, <1>4
  <2>5. CASE StartOffer(e) /\ TryAdmit(e, slot') = "admitted"
    <3>1. \A f \in Ends : f # e => round'[f] = round[f]
      BY <2>5 DEF StartOffer, IInv, RtcType
    <3> QED BY <2>3, <2>5, <3>1, AdmitKeepsCap
  <2> QED BY <2>3, <2>4, <2>5
<1>8. ASSUME NEW n \in Nodes, Rebuild(n) PROVE CapHolds'
  <2>1. /\ \A f \in Ends : round'[f] \in {None, round[f]}
        /\ \A f \in Ends : slot'[f] \in {None, slot[f]}
    BY <1>8 DEF Rebuild
  <2> QED BY <2>1, <1>4
<1>9. ASSUME UNCHANGED <<round, slot>> PROVE CapHolds'
  BY <1>4, <1>9
<1>10. ASSUME NEW n \in Nodes,
              CoolingEnds(n) \/ Graft(n) \/ NeighborUp(n) \/ GraftFails(n) \/ Close(n)
       PROVE  CapHolds'
  BY <1>9, <1>10 DEF CoolingEnds, Graft, NeighborUp, GraftFails, Close, sessions
<1>11. CASE Stabilise \/ UNCHANGED vars
  BY <1>9, <1>11 DEF Stabilise, vars, sessions
<1> QED BY <1>1, <1>3, <1>5, <1>6, <1>7, <1>8, <1>10, <1>11 DEF Next, LinkStep

\* The ceiling holds for any number of nodes and any ceiling: a round is
\* admitted only if sessions and rounds together are below it, and attaching
\* and fulfilling turn the one into the other (try_admit, attach, fulfil).
THEOREM CeilingHolds == Spec => []CapHolds
<1>1. Init => CapHolds
  <2> SUFFICES ASSUME Init, NEW n \in Nodes PROVE Cardinality(Taken(n)) <= Cap
    BY DEF CapHolds, Taken
  <2>1. Taken(n) = {}
    BY DEF Init, Taken, LivePeers, InFlight, Live, Ends
  <2> QED BY <2>1, FS_EmptySet, RtcAssumption
<1>2. IInv /\ CapHolds /\ [Next]_vars => CapHolds'
  BY CapKept
<1> QED BY <1>1, <1>2, IInvHolds, PTL DEF Spec
=============================================================================
