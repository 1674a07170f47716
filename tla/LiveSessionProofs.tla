------------------------- MODULE LiveSessionProofs --------------------------
(***************************************************************************)
(* The safety of a live session for any watchlist, any capacity of the     *)
(* queue, any limit of errors and any number of bells.                     *)
(***************************************************************************)
EXTENDS LiveSession, SequenceTheorems, TLAPS

(* What is on its way from the feed to the engines, oldest first: the      *)
(* message being handled, the queue, the message being pushed.             *)
Held(m) == IF m = NoMessage THEN <<>> ELSE <<m>>

InFlight == Held(msg) \o queue \o Held(pending)

-----------------------------------------------------------------------------
(* The inductive invariant *)

\* A thread holds a message only where it works on it.
HeldInPlace ==
    /\ msg # NoMessage => trader \in {"handling", "terminated"}
    /\ trader = "handling" => msg # NoMessage
    /\ pending # NoMessage => feed \in {"pushing", "terminated"} \/ trader = "terminated"
    /\ feed = "pushing" => pending # NoMessage

\* The feed thread is there from the start of a session to its join; one that
\* terminated took the process with it.
FeedInPlace ==
    /\ FeedOnlyInSession
    /\ InLoop => feed # "none"
    /\ feed = "terminated" => trader = "terminated"

\* The loop goes on after a message only while nothing has halted it, and the
\* limit of errors does.
ErrorsHalt ==
    /\ trader \in {"popping", "handling"} => halted = "no"
    /\ InLoop /\ errors >= ErrorLimit => halted # "no"

\* A session leaves through its bell, unless it was stopped or halted: what was
\* decided carries a bell that has rung by the time the next session opens.
BellsPass ==
    /\ InSession => \A s \in Universe : decided[s].bell <= bell
    /\ trader \in {"leaving", "joining"} => stop \/ halted # "no" \/ now >= bell
    /\ trader \in {"starting", "reading clock", "asleep"} =>
           stop \/ \A s \in Universe : decided[s].bell <= now

\* The bars of a symbol are on their way in the order of their days.
FlightInOrder ==
    InLoop => \A i, j \in 1..Len(InFlight) :
        /\ i < j
        /\ InFlight[i].kind = "bar"
        /\ InFlight[j].kind = "bar"
        /\ InFlight[i].symbol = InFlight[j].symbol
        => InFlight[i].day < InFlight[j].day

\* A bar on its way was seen, and is news to its engine.
FlightIsNews ==
    InLoop => \A i \in 1..Len(InFlight) :
        InFlight[i].kind = "bar" =>
            /\ InFlight[i].day <= seen[InFlight[i].symbol]
            /\ decided[InFlight[i].symbol].bell = bell =>
                   decided[InFlight[i].symbol].day < InFlight[i].day

\* What was decided in this session was seen in it.
DecidedWasSeen ==
    InLoop => \A s \in Universe :
        decided[s].bell = bell => decided[s].day <= seen[s]

\* NothingDropped, over what is on its way.
NothingLost ==
    InLoop => \A s \in Universe :
        seen[s] # 0 =>
            \/ decided[s] = [bell |-> bell, day |-> seen[s]]
            \/ \E i \in 1..Len(InFlight) : InFlight[i] = BarMessage(s, seen[s])

FlightInv ==
    /\ FlightInOrder
    /\ FlightIsNews
    /\ DecidedWasSeen
    /\ NothingLost

SessionInv ==
    /\ TypeOK
    /\ HeldInPlace
    /\ FeedInPlace
    /\ ErrorsHalt
    /\ BellsPass
    /\ FlightInv

-----------------------------------------------------------------------------
(* What is on its way is a sequence of messages, and a step hands it on,   *)
(* takes its head or adds to its end.                                      *)

LEMMA DaysAndBells ==
  ASSUME TypeOK
  PROVE  /\ Days \subseteq Nat \ {0}
         /\ seen \in [Universe -> Nat]
         /\ bell \in Nat
         /\ \A s \in Universe : decided[s].bell \in Nat /\ decided[s].day \in Nat
<1>1. MaxTime \in Nat /\ MaxTime \div 2 \in Nat
  BY SessionAssumption
<1>2. Days \subseteq Nat \ {0} /\ Days \cup {0} \subseteq Nat
  BY <1>1 DEF Days
<1>3. seen \in [Universe -> Nat]
  <2>1. seen \in [Universe -> Days \cup {0}]
    BY DEF TypeOK, TraderTypeOK, FeedTypeOK, QueueTypeOK, WorldTypeOK
  <2> QED
    BY <1>2, <2>1
<1>4. bell \in Nat
  <2>1. bell \in Bells
    BY DEF TypeOK, TraderTypeOK, FeedTypeOK, QueueTypeOK, WorldTypeOK
  <2> QED
    BY <1>1, <2>1 DEF Bells
<1>5. \A s \in Universe : decided[s].bell \in Nat /\ decided[s].day \in Nat
  <2> SUFFICES ASSUME NEW s \in Universe
               PROVE  decided[s].bell \in Nat /\ decided[s].day \in Nat
    OBVIOUS
  <2>1. decided[s] \in [bell : Bells, day : Days \cup {0}]
    BY DEF TypeOK, TraderTypeOK, FeedTypeOK, QueueTypeOK, WorldTypeOK
  <2>2. decided[s].bell \in Bells /\ decided[s].day \in Days \cup {0}
    BY <2>1
  <2>3. decided[s].bell \in Nat
    BY <1>1, <2>2 DEF Bells
  <2>4. decided[s].day \in Nat
    BY <1>2, <2>2
  <2> QED
    BY <2>3, <2>4
<1> QED
  BY <1>2, <1>3, <1>4, <1>5

LEMMA HeldIsSeq ==
  ASSUME NEW m \in Messages \cup {NoMessage}
  PROVE  Held(m) \in Seq(Messages)
  BY DEF Held

LEMMA FlightIsSeq ==
  ASSUME TypeOK
  PROVE  InFlight \in Seq(Messages)
<1>1. Held(msg) \in Seq(Messages) /\ queue \in Seq(Messages) /\ Held(pending) \in Seq(Messages)
  BY HeldIsSeq DEF TypeOK, TraderTypeOK, FeedTypeOK, QueueTypeOK, WorldTypeOK
<1> QED
  BY <1>1, ConcatProperties DEF InFlight

\* The feed pushes.
LEMMA FlightPushed ==
  ASSUME TypeOK, pending # NoMessage, msg' = msg,
         queue' = Append(queue, pending), pending' = NoMessage
  PROVE  InFlight' = InFlight
<1>1. Held(msg) \in Seq(Messages) /\ queue \in Seq(Messages) /\ pending \in Messages
  BY HeldIsSeq DEF TypeOK, TraderTypeOK, FeedTypeOK, QueueTypeOK, WorldTypeOK
<1>2. queue' = queue \o <<pending>>
  BY <1>1, AppendIsConcat
<1>3. Held(pending) = <<pending>> /\ Held(pending') = <<>> /\ Held(msg') = Held(msg)
  BY DEF Held
<1>4. <<pending>> \in Seq(Messages)
  BY <1>1
<1>5. queue' \in Seq(Messages)
  BY <1>1, <1>2, <1>4, ConcatProperties
<1>6. Held(msg) \o queue' \in Seq(Messages)
  BY <1>1, <1>5, ConcatProperties
<1>7. (Held(msg) \o queue') \o <<>> = Held(msg) \o queue'
  BY <1>6, ConcatEmptySeq
<1>8. Held(msg) \o queue' = (Held(msg) \o queue) \o <<pending>>
  BY <1>1, <1>2, <1>4, ConcatAssociative
<1> QED
  BY <1>3, <1>7, <1>8 DEF InFlight

\* The trader pops.
LEMMA FlightPopped ==
  ASSUME TypeOK, queue # <<>>, msg = NoMessage,
         msg' = Head(queue), queue' = Tail(queue), pending' = pending
  PROVE  InFlight' = InFlight
<1>1. queue \in Seq(Messages) /\ Head(queue) \in Messages /\ Tail(queue) \in Seq(Messages)
  BY HeadTailProperties DEF TypeOK, TraderTypeOK, FeedTypeOK, QueueTypeOK, WorldTypeOK
<1>2. Head(queue) # NoMessage
  BY <1>1 DEF Messages, NoMessage
<1>3. Held(msg) = <<>> /\ Held(msg') = <<Head(queue)>> /\ Held(pending') = Held(pending)
  BY <1>2 DEF Held
<1>4. <<>> \o queue = queue
  BY <1>1, ConcatEmptySeq
<1>5. <<Head(queue)>> \o Tail(queue) = queue
  BY <1>1
<1> QED
  BY <1>3, <1>4, <1>5 DEF InFlight

\* The trader is done with a message.
LEMMA FlightHandled ==
  ASSUME TypeOK, msg # NoMessage, msg' = NoMessage,
         queue' = queue, pending' = pending
  PROVE  /\ Len(InFlight) > 0
         /\ InFlight[1] = msg
         /\ InFlight' \in Seq(Messages)
         /\ Len(InFlight') = Len(InFlight) - 1
         /\ \A i \in 1..Len(InFlight') : InFlight'[i] = InFlight[i + 1]
<1>1. msg \in Messages /\ queue \in Seq(Messages) /\ Held(pending) \in Seq(Messages)
  BY HeldIsSeq DEF TypeOK, TraderTypeOK, FeedTypeOK, QueueTypeOK, WorldTypeOK
<1>2. Held(msg) = <<msg>> /\ Held(msg') = <<>>
  BY DEF Held
<1> DEFINE rest == queue \o Held(pending)
<1>3. rest \in Seq(Messages)
  BY <1>1, ConcatProperties
<1>4. <<msg>> \in Seq(Messages)
  BY <1>1
<1>5. InFlight = <<msg>> \o rest
  BY <1>1, <1>2, <1>4, ConcatAssociative DEF InFlight
<1>6. InFlight' = rest
  <2>1. <<>> \o queue = queue
    BY <1>1, ConcatEmptySeq
  <2> QED
    BY <1>2, <2>1 DEF InFlight
<1> HIDE DEF rest
<1> QED
  BY <1>3, <1>4, <1>5, <1>6, ConcatProperties

\* The feed has a message to push.
LEMMA FlightGrows ==
  ASSUME TypeOK, TypeOK', pending = NoMessage, pending' # NoMessage,
         msg' = msg, queue' = queue
  PROVE  /\ pending' \in Messages
         /\ InFlight' \in Seq(Messages)
         /\ Len(InFlight') = Len(InFlight) + 1
         /\ \A i \in 1..Len(InFlight) : InFlight'[i] = InFlight[i]
         /\ InFlight'[Len(InFlight) + 1] = pending'
<1>1. Held(msg) \in Seq(Messages) /\ queue \in Seq(Messages) /\ pending' \in Messages
  BY HeldIsSeq DEF TypeOK, TraderTypeOK, FeedTypeOK, QueueTypeOK, WorldTypeOK
<1>2. Held(pending) = <<>> /\ Held(pending') = <<pending'>> /\ Held(msg') = Held(msg)
  BY DEF Held
<1> DEFINE before == Held(msg) \o queue
<1>3. before \in Seq(Messages)
  BY <1>1, ConcatProperties
<1>4. InFlight = before
  BY <1>2, <1>3, ConcatEmptySeq DEF InFlight
<1>5. InFlight' = Append(before, pending')
  BY <1>1, <1>2, <1>3, AppendIsConcat DEF InFlight
<1> HIDE DEF before
<1> QED
  BY <1>1, <1>3, <1>4, <1>5, AppendProperties

-----------------------------------------------------------------------------
(* The parts of the invariant about what is on its way *)

\* A step that hands on what is on its way, or leaves it alone.
LEMMA FlightKept ==
  ASSUME FlightInv, InLoop' => InLoop,
         InFlight' = InFlight, UNCHANGED <<seen, decided, bell>>
  PROVE  FlightInv'
  BY DEF FlightInv, FlightInOrder, FlightIsNews, DecidedWasSeen, NothingLost

\* A new session starts with nothing on its way.
LEMMA FlightStarts ==
  ASSUME TypeOK, InFlight' = <<>>, seen' = [s \in Universe |-> 0], decided' = decided,
         \A s \in Universe : decided[s].bell < bell'
  PROVE  FlightInv'
<1>1. Len(InFlight') = 0
  OBVIOUS
<1>2. \A s \in Universe : bell' # decided[s].bell
  BY DaysAndBells
<1> QED
  BY <1>1, <1>2 DEF FlightInv, FlightInOrder, FlightIsNews, DecidedWasSeen, NothingLost

\* The trader is done with an error.
LEMMA FlightErrorHandled ==
  ASSUME TypeOK, FlightInv, InLoop, msg # NoMessage, msg.kind = "error",
         msg' = NoMessage, UNCHANGED <<queue, pending, seen, decided, bell>>
  PROVE  FlightInv'
<1>1. /\ Len(InFlight) > 0
      /\ InFlight[1] = msg
      /\ InFlight' \in Seq(Messages)
      /\ Len(InFlight') = Len(InFlight) - 1
      /\ \A i \in 1..Len(InFlight') : InFlight'[i] = InFlight[i + 1]
  BY FlightHandled
<1>2. Len(InFlight) \in Nat
  BY FlightIsSeq
<1>3. \A i \in 1..Len(InFlight') : i + 1 \in 1..Len(InFlight)
  BY <1>1, <1>2
<1>4. FlightInOrder'
  BY <1>1, <1>2, <1>3 DEF FlightInv, FlightInOrder
<1>5. FlightIsNews'
  BY <1>1, <1>3 DEF FlightInv, FlightIsNews
<1>6. DecidedWasSeen'
  BY DEF FlightInv, DecidedWasSeen
<1>7. NothingLost'
  <2> SUFFICES ASSUME NEW s \in Universe, seen[s] # 0,
                      decided[s] # [bell |-> bell, day |-> seen[s]]
               PROVE  \E i \in 1..Len(InFlight') : InFlight'[i] = BarMessage(s, seen[s])
    BY DEF NothingLost
  <2>1. PICK i \in 1..Len(InFlight) : InFlight[i] = BarMessage(s, seen[s])
    BY DEF FlightInv, NothingLost
  <2>2. i # 1
    BY <1>1, <2>1 DEF BarMessage
  <2>3. i - 1 \in 1..Len(InFlight') /\ i - 1 + 1 = i
    BY <1>1, <1>2, <2>2
  <2> QED
    BY <1>1, <2>1, <2>3
<1> QED
  BY <1>4, <1>5, <1>6, <1>7 DEF FlightInv

\* The trader is done with a bar.
LEMMA FlightBarHandled ==
  ASSUME TypeOK, FlightInv, InLoop, msg # NoMessage, msg.kind = "bar",
         Decide, msg' = NoMessage, UNCHANGED <<queue, pending, seen, bell>>
  PROVE  FlightInv'
<1>1. /\ Len(InFlight) > 0
      /\ InFlight[1] = msg
      /\ InFlight' \in Seq(Messages)
      /\ Len(InFlight') = Len(InFlight) - 1
      /\ \A i \in 1..Len(InFlight') : InFlight'[i] = InFlight[i + 1]
  BY FlightHandled
<1>2. Len(InFlight) \in Nat /\ InFlight \in Seq(Messages)
  BY FlightIsSeq
<1>3. \A i \in 1..Len(InFlight') : i + 1 \in 1..Len(InFlight)
  BY <1>1, <1>2
<1>4. msg.symbol \in Universe /\ msg.day \in Nat
  BY DaysAndBells DEF TypeOK, TraderTypeOK, FeedTypeOK, QueueTypeOK, WorldTypeOK, Messages, NoMessage
<1>5. /\ msg.day <= seen[msg.symbol]
      /\ decided[msg.symbol].bell = bell => decided[msg.symbol].day < msg.day
  BY <1>1, <1>2 DEF FlightInv, FlightIsNews
<1>6. /\ decided'[msg.symbol] = [bell |-> bell, day |-> msg.day]
      /\ \A s \in Universe \ {msg.symbol} : decided'[s] = decided[s]
  BY <1>4 DEF Decide, TypeOK, TraderTypeOK, FeedTypeOK, QueueTypeOK, WorldTypeOK
<1>7. FlightInOrder'
  BY <1>1, <1>2, <1>3, DaysAndBells DEF FlightInv, FlightInOrder
<1>8. FlightIsNews'
  <2> SUFFICES ASSUME NEW i \in 1..Len(InFlight'), InFlight'[i].kind = "bar"
               PROVE  /\ InFlight'[i].day <= seen[InFlight'[i].symbol]
                      /\ decided'[InFlight'[i].symbol].bell = bell =>
                           decided'[InFlight'[i].symbol].day < InFlight'[i].day
    BY DEF FlightIsNews
  <2>1. InFlight'[i] = InFlight[i + 1] /\ i + 1 \in 1..Len(InFlight)
    BY <1>1, <1>3
  <2>2. InFlight'[i].symbol \in Universe
    BY <1>1 DEF Messages
  <2>3. InFlight'[i].symbol = msg.symbol => msg.day < InFlight'[i].day
    BY <1>1, <1>2, <2>1 DEF FlightInv, FlightInOrder
  <2> QED
    BY <1>6, <2>1, <2>2, <2>3 DEF FlightInv, FlightIsNews
<1>9. DecidedWasSeen'
  BY <1>5, <1>6 DEF FlightInv, DecidedWasSeen
<1>10. NothingLost'
  <2> SUFFICES ASSUME NEW s \in Universe, seen[s] # 0,
                      decided'[s] # [bell |-> bell, day |-> seen[s]]
               PROVE  \E i \in 1..Len(InFlight') : InFlight'[i] = BarMessage(s, seen[s])
    BY DEF NothingLost
  <2>1. decided[s] # [bell |-> bell, day |-> seen[s]]
    <3> SUFFICES ASSUME decided[s] = [bell |-> bell, day |-> seen[s]]
                 PROVE  FALSE
      OBVIOUS
    <3>1. s = msg.symbol
      BY <1>6
    <3>2. seen[s] \in Nat /\ decided[s].bell = bell /\ decided[s].day = seen[s]
      BY DaysAndBells
    <3> QED
      BY <1>4, <1>5, <3>1, <3>2
  <2>2. PICK i \in 1..Len(InFlight) : InFlight[i] = BarMessage(s, seen[s])
    BY <2>1 DEF FlightInv, NothingLost
  <2>3. i # 1
    <3> SUFFICES ASSUME i = 1 PROVE FALSE
      OBVIOUS
    <3>1. msg.symbol = s /\ msg.day = seen[s]
      BY <1>1, <2>2 DEF BarMessage
    <3> QED
      BY <1>6, <3>1
  <2>4. i - 1 \in 1..Len(InFlight') /\ i - 1 + 1 = i
    BY <1>1, <1>2, <2>3
  <2> QED
    BY <1>1, <2>2, <2>4
<1> QED
  BY <1>7, <1>8, <1>9, <1>10 DEF FlightInv

\* The feed has an error to push.
LEMMA FlightErrorMet ==
  ASSUME TypeOK, TypeOK', FlightInv, InLoop' => InLoop, pending = NoMessage,
         pending'.kind = "error", pending' # NoMessage, UNCHANGED <<msg, queue, seen, decided, bell>>
  PROVE  FlightInv'
<1>1. /\ pending' \in Messages
      /\ InFlight' \in Seq(Messages)
      /\ Len(InFlight') = Len(InFlight) + 1
      /\ \A i \in 1..Len(InFlight) : InFlight'[i] = InFlight[i]
      /\ InFlight'[Len(InFlight) + 1] = pending'
  BY FlightGrows
<1>2. Len(InFlight) \in Nat
  BY FlightIsSeq
<1>3. \A i \in 1..Len(InFlight') :
        InFlight'[i].kind = "bar" => i \in 1..Len(InFlight) /\ InFlight'[i] = InFlight[i]
  BY <1>1, <1>2
<1>4. 1..Len(InFlight) \subseteq 1..Len(InFlight')
  BY <1>1, <1>2
<1>5. FlightInOrder'
  BY <1>3 DEF FlightInv, FlightInOrder
<1>6. FlightIsNews'
  BY <1>3 DEF FlightInv, FlightIsNews
<1>7. DecidedWasSeen'
  BY DEF FlightInv, DecidedWasSeen
<1>8. NothingLost'
  BY <1>1, <1>4 DEF FlightInv, NothingLost
<1> QED
  BY <1>5, <1>6, <1>7, <1>8 DEF FlightInv

\* The feed has a bar to push.
LEMMA FlightBarMet ==
  ASSUME TypeOK, TypeOK', FlightInv, InLoop' => InLoop, pending = NoMessage,
         NEW s \in Universe, NEW day \in Days, IsNews(s, day),
         pending' = BarMessage(s, day), seen' = [seen EXCEPT ![s] = day],
         UNCHANGED <<msg, queue, decided, bell>>
  PROVE  FlightInv'
<1>0. pending' # NoMessage
  BY DEF BarMessage, NoMessage
<1>1. /\ InFlight' \in Seq(Messages)
      /\ Len(InFlight') = Len(InFlight) + 1
      /\ \A i \in 1..Len(InFlight) : InFlight'[i] = InFlight[i]
      /\ InFlight'[Len(InFlight) + 1] = BarMessage(s, day)
  BY <1>0, FlightGrows
<1>2. Len(InFlight) \in Nat /\ InFlight \in Seq(Messages)
  BY FlightIsSeq
<1>3. \A i \in 1..Len(InFlight') : i \in 1..Len(InFlight) \/ i = Len(InFlight) + 1
  BY <1>1, <1>2
<1>4. 1..Len(InFlight) \subseteq 1..Len(InFlight') /\ Len(InFlight) + 1 \in 1..Len(InFlight')
  BY <1>1, <1>2
<1>5. day \in Nat \ {0} /\ seen \in [Universe -> Nat] /\ day > seen[s]
  BY DaysAndBells DEF IsNews
<1>6. seen'[s] = day /\ \A x \in Universe \ {s} : seen'[x] = seen[x]
  BY <1>5
<1>7. BarMessage(s, day).symbol = s /\ BarMessage(s, day).day = day
  BY DEF BarMessage
<1>8. \A i \in 1..Len(InFlight) : InFlight[i].kind = "bar" =>
        /\ InFlight[i].symbol \in Universe
        /\ InFlight[i].day \in Nat
  BY <1>2 DEF Messages, Days
<1>9. FlightInOrder'
  <2> SUFFICES ASSUME InLoop', NEW i \in 1..Len(InFlight'), NEW j \in 1..Len(InFlight'), i < j,
                      InFlight'[i].kind = "bar", InFlight'[j].kind = "bar",
                      InFlight'[i].symbol = InFlight'[j].symbol
               PROVE  InFlight'[i].day < InFlight'[j].day
    BY DEF FlightInOrder
  <2>1. i \in 1..Len(InFlight) /\ InFlight'[i] = InFlight[i]
    BY <1>1, <1>2
  <2>2. CASE j \in 1..Len(InFlight)
    BY <1>1, <2>1, <2>2 DEF FlightInv, FlightInOrder
  <2>3. CASE j = Len(InFlight) + 1
    <3>1. InFlight'[j].day = day /\ InFlight[i].symbol = s
      BY <1>1, <1>7, <2>1, <2>3
    <3>2. InFlight[i].day <= seen[s]
      BY <2>1, <3>1 DEF FlightInv, FlightIsNews
    <3>3. InFlight[i].day \in Nat /\ seen[s] \in Nat
      BY <1>5, <1>8, <2>1
    <3> QED
      BY <1>5, <2>1, <3>1, <3>2, <3>3
  <2> QED
    BY <1>3, <2>2, <2>3
<1>10. FlightIsNews'
  <2> SUFFICES ASSUME InLoop', NEW i \in 1..Len(InFlight'), InFlight'[i].kind = "bar"
               PROVE  /\ InFlight'[i].day <= seen'[InFlight'[i].symbol]
                      /\ decided[InFlight'[i].symbol].bell = bell =>
                           decided[InFlight'[i].symbol].day < InFlight'[i].day
    BY DEF FlightIsNews
  <2>1. CASE i \in 1..Len(InFlight)
    <3>1. InFlight'[i] = InFlight[i]
      BY <1>1, <2>1
    <3>2. InFlight[i].day <= seen[InFlight[i].symbol]
      BY <2>1, <3>1 DEF FlightInv, FlightIsNews
    <3>3. seen[InFlight[i].symbol] <= seen'[InFlight[i].symbol]
      BY <1>5, <1>6, <1>8, <2>1, <3>1
    <3>4. InFlight[i].day \in Nat /\ seen[InFlight[i].symbol] \in Nat /\ seen'[InFlight[i].symbol] \in Nat
      BY <1>5, <1>6, <1>8, <2>1, <3>1
    <3> QED
      BY <2>1, <3>1, <3>2, <3>3, <3>4 DEF FlightInv, FlightIsNews
  <2>2. CASE i = Len(InFlight) + 1
    <3>1. decided[s].bell = bell => decided[s].day <= seen[s]
      BY DEF FlightInv, DecidedWasSeen
    <3>2. decided[s].day \in Nat
      BY DaysAndBells
    <3> QED
      BY <1>1, <1>5, <1>6, <1>7, <2>2, <3>1, <3>2
  <2> QED
    BY <1>3, <2>1, <2>2
<1>11. DecidedWasSeen'
  <2>1. \A x \in Universe : decided[x].day \in Nat /\ seen[x] <= seen'[x] /\ seen[x] \in Nat /\ seen'[x] \in Nat
    BY <1>5, <1>6, DaysAndBells
  <2> QED
    BY <2>1 DEF FlightInv, DecidedWasSeen
<1>12. NothingLost'
  BY <1>1, <1>4, <1>6 DEF FlightInv, NothingLost
<1> QED
  BY <1>9, <1>10, <1>11, <1>12 DEF FlightInv

-----------------------------------------------------------------------------
(* Types *)

LEMMA Bounds ==
  /\ Capacity \in Nat \ {0} /\ ErrorLimit \in Nat \ {0} /\ MaxTime \in Nat \ {0}
  /\ Len(Watched) \in Nat \ {0}
  /\ \A i \in 1..Len(Watched) : Watched[i] \in Universe
<1>1. Watched \in Seq(Range(Watched)) /\ Watched # <<>>
  BY SessionAssumption
<1>2. Len(Watched) \in Nat \ {0}
  BY <1>1, EmptySeq
<1>3. \A i \in 1..Len(Watched) : Watched[i] \in Universe
  BY <1>1, ElementOfSeq DEF Universe
<1> QED
  BY <1>2, <1>3, SessionAssumption

\* A session is entered with its bell and its days within the bounds.
LEMMA TimeInRange ==
  ASSUME NEW t \in 0..MaxTime
  PROVE  t + 1 \in Bells /\ LatestDays(t) \subseteq Days
<1>1. t \div 2 \in Nat /\ t \div 2 <= MaxTime \div 2 /\ MaxTime \div 2 \in Nat
  BY Bounds
<1>2. t \div 2 + 1 \in Days /\ t \div 2 + 2 \in Days
  BY <1>1 DEF Days
<1> QED
  BY <1>2, Bounds DEF LatestDays, Bells

LEMMA EmptyQueue == <<>> \in Seq(Messages) /\ Len(<<>>) <= Capacity
<1>1. <<>> \in Seq(Messages) /\ Len(<<>>) = 0
  BY EmptySeq
<1> QED
  BY <1>1, Bounds

LEMMA NextSymbolType ==
  ASSUME at \in 1..Len(Watched), NextSymbol
  PROVE  at' \in 1..Len(Watched) /\ feed' \in {"polling", "napping"}
  BY Bounds DEF NextSymbol

\* What a step leaves alone keeps its type.
LEMMA Untouched ==
  ASSUME TypeOK
  PROVE  /\ UNCHANGED traderVars => TraderTypeOK'
         /\ UNCHANGED feedVars => FeedTypeOK'
         /\ UNCHANGED queue => QueueTypeOK'
         /\ UNCHANGED worldVars => WorldTypeOK'
<1>1. UNCHANGED traderVars => TraderTypeOK'
  BY DEF TypeOK, TraderTypeOK, traderVars
<1>2. UNCHANGED feedVars => FeedTypeOK'
  BY DEF TypeOK, FeedTypeOK, feedVars
<1>3. UNCHANGED queue => QueueTypeOK'
  BY DEF TypeOK, QueueTypeOK
<1>4. UNCHANGED worldVars => WorldTypeOK'
  BY DEF TypeOK, WorldTypeOK, worldVars
<1> QED
  BY <1>1, <1>2, <1>3, <1>4

\* The trading thread between its calls of the broker and around its loop.
LEMMA TraderMovesType ==
  ASSUME TypeOK,
         \/ Start \/ Stopped \/ ClockFails \/ WakeAtBell \/ WakeSpuriously
         \/ TestLoop \/ TestBell \/ Leave \/ Join \/ TraderThrowsForeign
  PROVE  TypeOK'
<1>1. TraderTypeOK'
  BY DEF Start, Stopped, ClockFails, WakeAtBell, WakeSpuriously, TestLoop, TestBell,
         Leave, Join, TraderThrowsForeign, Go, TypeOK, TraderTypeOK
<1>2. CASE Start \/ Stopped \/ ClockFails \/ WakeAtBell \/ WakeSpuriously \/ TestLoop \/ TestBell
  BY <1>1, <1>2, Untouched DEF Start, Stopped, ClockFails, WakeAtBell, WakeSpuriously,
     TestLoop, TestBell, TypeOK
<1>3. CASE Leave \/ Join \/ TraderThrowsForeign
  <2>1. FeedTypeOK'
    BY <1>3 DEF Leave, Join, TraderThrowsForeign, TypeOK, FeedTypeOK
  <2>2. QueueTypeOK'
    BY <1>3, EmptyQueue DEF Leave, Join, TraderThrowsForeign, TypeOK, QueueTypeOK
  <2> QED
    BY <1>1, <1>3, <2>1, <2>2, Untouched DEF Leave, Join, TraderThrowsForeign, TypeOK
<1> QED
  BY <1>2, <1>3

LEMMA SessionOpensType ==
  ASSUME TypeOK, OpenSession \/ FallAsleep
  PROVE  TypeOK'
<1>1. now + 1 \in Bells
  BY TimeInRange DEF TypeOK, WorldTypeOK
<1>2. CASE OpenSession
  <2>1. TraderTypeOK'
    <3>1. 0 \in 0..ErrorLimit
      BY Bounds
    <3> QED
      BY <1>1, <1>2, <3>1 DEF OpenSession, TypeOK, TraderTypeOK
  <2>2. FeedTypeOK'
    <3>1. 0 \in 0..ErrorLimit
      BY Bounds
    <3>2. seen' \in [Universe -> Days \cup {0}]
      BY <1>2 DEF OpenSession
    <3> QED
      BY <1>2, <3>1, <3>2 DEF OpenSession, TypeOK, FeedTypeOK
  <2>3. QueueTypeOK'
    BY <1>2, EmptyQueue DEF OpenSession, QueueTypeOK
  <2> QED
    BY <1>2, <2>1, <2>2, <2>3, Untouched DEF OpenSession, TypeOK
<1>3. CASE FallAsleep
  <2>1. TraderTypeOK'
    BY <1>1, <1>3 DEF FallAsleep, NextOpen, TypeOK, TraderTypeOK
  <2> QED
    BY <1>3, <2>1, Untouched DEF FallAsleep, TypeOK
<1> QED
  BY <1>2, <1>3

LEMMA PopType ==
  ASSUME TypeOK, Pop
  PROVE  TypeOK'
<1>1. queue \in Seq(Messages) /\ queue # <<>> /\ Len(queue) <= Capacity
  BY DEF TypeOK, QueueTypeOK, Pop
<1>2. msg' \in Messages /\ QueueTypeOK'
  BY <1>1, HeadTailProperties, Bounds DEF Pop, QueueTypeOK
<1>3. TraderTypeOK'
  BY <1>2 DEF Pop, TypeOK, TraderTypeOK
<1> QED
  BY <1>2, <1>3, Untouched DEF Pop, TypeOK

LEMMA HandleType ==
  ASSUME TypeOK, HeldInPlace, ErrorsHalt, HandleBar \/ HandleBarThrows \/ HandleError
  PROVE  TypeOK'
<1>a. ErrorLimit \in Nat /\ 0 \in 0..ErrorLimit
  BY Bounds
<1>b. errors \in 0..ErrorLimit
  BY DEF TypeOK, TraderTypeOK
<1>0. ErrorLimit \in Nat /\ 0 \in 0..ErrorLimit /\ errors \in 0..ErrorLimit
  BY <1>a, <1>b
<1>1. CASE HandleError
  <2>1. ~(errors >= ErrorLimit) /\ errors' = errors + 1
    BY <1>1 DEF HandleError, CountError, ErrorsHalt, InLoop
  <2>2. errors' \in 0..ErrorLimit
    BY <1>0, <2>1
  <2>3. TraderTypeOK'
    BY <1>1, <2>2 DEF HandleError, TypeOK, TraderTypeOK
  <2> QED
    BY <1>1, <2>3, Untouched DEF HandleError, TypeOK
<1>2. CASE HandleBar \/ HandleBarThrows
  <2>0. msg.kind = "bar"
    BY <1>2 DEF HandleBar, HandleBarThrows
  <2>1. msg.symbol \in Universe /\ msg.day \in Days /\ bell \in Bells
    <3>1. msg \in Messages \cup {NoMessage} /\ bell \in Bells
      BY DEF TypeOK, TraderTypeOK
    <3>2. msg \in [kind : {"bar"}, symbol : Universe, day : Days]
      BY <2>0, <3>1 DEF Messages, NoMessage
    <3> QED
      BY <3>1, <3>2
  <2>2. decided \in [Universe -> [bell : Bells, day : Days \cup {0}]]
    BY DEF TypeOK, TraderTypeOK
  <2>3. [bell |-> bell, day |-> msg.day] \in [bell : Bells, day : Days \cup {0}]
    BY <2>1
  <2>4. decided' \in [Universe -> [bell : Bells, day : Days \cup {0}]]
    BY <1>2, <2>2, <2>3 DEF HandleBar, HandleBarThrows, Decide
  <2>5. errors' \in 0..ErrorLimit
    BY <1>0, <1>2 DEF HandleBar, HandleBarThrows
  <2>6. TraderTypeOK'
    BY <1>2, <2>4, <2>5 DEF HandleBar, HandleBarThrows, TypeOK, TraderTypeOK
  <2>7. FeedTypeOK'
    BY <1>2 DEF HandleBar, HandleBarThrows, TypeOK, FeedTypeOK, feedVars
  <2> QED
    BY <1>2, <2>6, <2>7, Untouched DEF HandleBar, HandleBarThrows, TypeOK
<1> QED
  BY <1>1, <1>2

LEMMA FeedMovesType ==
  ASSUME TypeOK, TestFeed \/ PollStopped \/ PollNoNews \/ NapOver \/ PollThrowsForeign
  PROVE  TypeOK'
<1>1. FeedTypeOK'
  <2>1. 1 \in 1..Len(Watched) /\ 0 \in 0..ErrorLimit
    BY Bounds
  <2>2. CASE TestFeed \/ PollStopped \/ NapOver \/ PollThrowsForeign
    BY <2>1, <2>2 DEF TestFeed, PollStopped, NapOver, PollThrowsForeign, TypeOK, FeedTypeOK
  <2>3. CASE PollNoNews
    <3>1. at' \in 1..Len(Watched) /\ feed' \in {"polling", "napping"}
      BY <2>3, NextSymbolType DEF PollNoNews, TypeOK, FeedTypeOK
    <3> QED
      BY <2>1, <2>3, <3>1 DEF PollNoNews, TypeOK, FeedTypeOK
  <2> QED
    BY <2>2, <2>3
<1>2. CASE TestFeed \/ PollStopped \/ PollNoNews \/ NapOver
  BY <1>1, <1>2, Untouched DEF TestFeed, PollStopped, PollNoNews, NapOver, TypeOK
<1>3. CASE PollThrowsForeign
  <2>1. TraderTypeOK'
    BY <1>3 DEF PollThrowsForeign, Go, TypeOK, TraderTypeOK
  <2> QED
    BY <1>1, <1>3, <2>1, Untouched DEF PollThrowsForeign, TypeOK
<1> QED
  BY <1>2, <1>3

LEMMA PollBarType ==
  ASSUME TypeOK, PollBar
  PROVE  TypeOK'
<1>1. PICK day \in LatestDays(now) :
        /\ seen' = [seen EXCEPT ![Watched[at]] = day]
        /\ pending' = BarMessage(Watched[at], day)
  BY DEF PollBar
<1>2. day \in Days /\ Watched[at] \in Universe
  BY TimeInRange, Bounds DEF TypeOK, FeedTypeOK, WorldTypeOK
<1>3. seen' \in [Universe -> Days \cup {0}]
  BY <1>1, <1>2 DEF TypeOK, FeedTypeOK
<1>4. pending' \in Messages
  BY <1>1, <1>2 DEF BarMessage, Messages
<1>5. 0 \in 0..ErrorLimit
  BY Bounds
<1>6. FeedTypeOK'
  BY <1>3, <1>4, <1>5 DEF PollBar, TypeOK, FeedTypeOK
<1> QED
  BY <1>6, Untouched DEF PollBar, TypeOK

LEMMA PollFailsType ==
  ASSUME TypeOK, PollFails
  PROVE  TypeOK'
<1>1. failing \in 0..ErrorLimit /\ ErrorLimit \in Nat \ {0}
  BY Bounds DEF TypeOK, FeedTypeOK
<1>2. failing' \in 1..ErrorLimit /\ failing' \in 0..ErrorLimit
  BY <1>1 DEF PollFails
<1>3. pending' \in Messages
  BY <1>2 DEF PollFails, ErrorMessage, Messages
<1>4. FeedTypeOK'
  BY <1>2, <1>3 DEF PollFails, TypeOK, FeedTypeOK
<1> QED
  BY <1>4, Untouched DEF PollFails, TypeOK

LEMMA PushType ==
  ASSUME TypeOK, HeldInPlace, Push
  PROVE  TypeOK'
<1>1. queue \in Seq(Messages) /\ pending \in Messages
  BY DEF TypeOK, FeedTypeOK, QueueTypeOK, HeldInPlace, Push
<1>2. QueueTypeOK'
  BY <1>1, AppendProperties, Bounds DEF Push, Put, QueueTypeOK
<1>3. at' \in 1..Len(Watched) /\ feed' \in {"polling", "napping"}
  BY NextSymbolType DEF Push, TypeOK, FeedTypeOK
<1>4. FeedTypeOK'
  BY <1>3 DEF Push, TypeOK, FeedTypeOK
<1> QED
  BY <1>2, <1>4, Untouched DEF Push, TypeOK

LEMMA WorldType ==
  ASSUME TypeOK, Interrupt \/ Ring \/ BrokerChanges
  PROVE  TypeOK'
<1>1. CASE Ring
  <2>1. MaxTime \in Nat /\ now \in 0..MaxTime /\ now < MaxTime
    BY <1>1, Bounds DEF Ring, TypeOK, WorldTypeOK
  <2>2. now + 1 \in 0..MaxTime
    BY <2>1
  <2> QED
    BY <1>1, <2>2, Untouched DEF Ring, TypeOK, WorldTypeOK
<1>2. CASE Interrupt \/ BrokerChanges
  <2>1. WorldTypeOK'
    BY <1>2 DEF Interrupt, BrokerChanges, TypeOK, WorldTypeOK
  <2> QED
    BY <1>2, <2>1, Untouched DEF Interrupt, BrokerChanges, TypeOK
<1> QED
  BY <1>1, <1>2

LEMMA TypeStep ==
  ASSUME SessionInv, [Next]_vars
  PROVE  TypeOK'
<1>1. CASE Next
  BY <1>1, TraderMovesType, SessionOpensType, PopType, HandleType, FeedMovesType,
     PollBarType, PollFailsType, PushType, WorldType
     DEF Next, TraderStep, FeedStep, SessionInv
<1>2. CASE UNCHANGED vars
  BY <1>2, Untouched DEF SessionInv, TypeOK, vars
<1> QED
  BY <1>1, <1>2

-----------------------------------------------------------------------------
(* Where the threads are, and what they hold there *)

ControlInv == HeldInPlace /\ FeedInPlace /\ ErrorsHalt

LEMMA MessagesAreSome ==
  /\ NoMessage \notin Messages
  /\ \A s, day : BarMessage(s, day) # NoMessage
  /\ \A n : ErrorMessage(n) # NoMessage
  BY DEF Messages, NoMessage, BarMessage, ErrorMessage

LEMMA ErrorsStart ==
  ~(0 >= ErrorLimit)
  BY Bounds

LEMMA TraderMovesControl ==
  ASSUME ControlInv,
         \/ Start \/ Stopped \/ ClockFails \/ WakeAtBell \/ WakeSpuriously
         \/ FallAsleep \/ TestLoop \/ TestBell \/ Leave \/ Join \/ TraderThrowsForeign
  PROVE  ControlInv'
<1> USE DEF ControlInv, HeldInPlace, FeedInPlace, FeedOnlyInSession, ErrorsHalt,
            InLoop, InSession, feedVars
<1>1. CASE Start \/ Stopped \/ ClockFails \/ WakeAtBell \/ WakeSpuriously
  BY <1>1 DEF Start, Stopped, ClockFails, WakeAtBell, WakeSpuriously, Go
<1>2. CASE FallAsleep
  BY <1>2 DEF FallAsleep
<1>3. CASE TestLoop \/ TestBell
  BY <1>3 DEF TestLoop, TestBell, MayContinue, Go
<1>4. CASE Leave
  BY <1>4 DEF Leave, Go
<1>5. CASE Join
  BY <1>5 DEF Join, Go
<1>6. CASE TraderThrowsForeign
  BY <1>6 DEF TraderThrowsForeign, Go
<1> QED
  BY <1>1, <1>2, <1>3, <1>4, <1>5, <1>6

LEMMA TraderWorksControl ==
  ASSUME TypeOK, ControlInv, OpenSession \/ Pop \/ HandleBar \/ HandleBarThrows \/ HandleError
  PROVE  ControlInv'
<1> USE DEF ControlInv, HeldInPlace, FeedInPlace, FeedOnlyInSession, ErrorsHalt,
            InLoop, InSession
<1>1. CASE OpenSession
  BY <1>1, ErrorsStart DEF OpenSession
<1>2. CASE Pop
  <2>1. Head(queue) # NoMessage
    <3>1. queue \in Seq(Messages) /\ queue # <<>>
      BY <1>2 DEF Pop, TypeOK, QueueTypeOK
    <3>2. Head(queue) \in Messages
      BY <3>1, HeadTailProperties
    <3> QED
      BY <3>2, MessagesAreSome
  <2> QED
    BY <1>2, <2>1 DEF Pop, feedVars
<1>3. CASE HandleBar
  BY <1>3, ErrorsStart DEF HandleBar, feedVars
<1>4. CASE HandleBarThrows
  BY <1>4, ErrorsStart DEF HandleBarThrows
<1>5. CASE HandleError
  BY <1>5 DEF HandleError, feedVars
<1> QED
  BY <1>1, <1>2, <1>3, <1>4, <1>5

LEMMA FeedControl ==
  ASSUME ControlInv, FeedStep \/ PollThrowsForeign
  PROVE  ControlInv'
<1> USE DEF ControlInv, HeldInPlace, FeedInPlace, FeedOnlyInSession, ErrorsHalt,
            InLoop, InSession, traderVars
<1>1. CASE TestFeed
  BY <1>1 DEF TestFeed
<1>2. CASE PollStopped \/ NapOver
  BY <1>2 DEF PollStopped, NapOver
<1>3. CASE PollNoNews
  BY <1>3 DEF PollNoNews, NextSymbol
<1>4. CASE PollBar
  BY <1>4, MessagesAreSome DEF PollBar
<1>5. CASE PollFails
  BY <1>5, MessagesAreSome DEF PollFails
<1>6. CASE Push
  BY <1>6 DEF Push, NextSymbol
<1>7. CASE PollThrowsForeign
  BY <1>7 DEF PollThrowsForeign, Go
<1> QED
  BY <1>1, <1>2, <1>3, <1>4, <1>5, <1>6, <1>7 DEF FeedStep

LEMMA ControlStep ==
  ASSUME SessionInv, [Next]_vars
  PROVE  ControlInv'
<1>1. TypeOK /\ ControlInv
  BY DEF SessionInv, ControlInv
<1>2. CASE TraderStep \/ FeedStep \/ WakeSpuriously \/ PollThrowsForeign \/ TraderThrowsForeign
  BY <1>1, <1>2, TraderMovesControl, TraderWorksControl, FeedControl DEF TraderStep
<1>3. CASE Interrupt \/ Ring \/ BrokerChanges \/ UNCHANGED vars
  <2>1. UNCHANGED <<traderVars, feedVars>>
    BY <1>3 DEF Interrupt, Ring, BrokerChanges, vars
  <2> QED
    BY <1>1, <2>1 DEF ControlInv, HeldInPlace, FeedInPlace, FeedOnlyInSession, ErrorsHalt,
                      InLoop, InSession, traderVars, feedVars
<1> QED
  BY <1>2, <1>3 DEF Next

-----------------------------------------------------------------------------
(* The bells *)

LEMMA BellsStep ==
  ASSUME SessionInv, [Next]_vars
  PROVE  BellsPass'
<1>1. /\ bell \in Nat /\ now \in Nat
      /\ \A s \in Universe : decided[s].bell \in Nat
  <2>1. now \in Nat
    BY Bounds DEF SessionInv, TypeOK, WorldTypeOK
  <2> QED
    BY <2>1, DaysAndBells DEF SessionInv
<1>2. BellsPass /\ ControlInv
  BY DEF SessionInv, ControlInv
<1>3. CASE Start \/ Stopped \/ ClockFails \/ WakeAtBell \/ WakeSpuriously \/ FallAsleep
  BY <1>2, <1>3 DEF Start, Stopped, ClockFails, WakeAtBell, WakeSpuriously, FallAsleep, Go, worldVars,
                    BellsPass, InSession, InLoop
<1>4. CASE OpenSession
  <2>1. /\ trader' = "testing" /\ bell' = now + 1 /\ decided' = decided
        /\ \A s \in Universe : decided[s].bell <= now
    BY <1>2, <1>4 DEF OpenSession, BellsPass
  <2> QED
    BY <1>1, <2>1 DEF BellsPass, InSession, InLoop
<1>5. CASE TestLoop \/ Pop \/ HandleError \/ TestBell \/ Leave
  BY <1>2, <1>5 DEF TestLoop, MayContinue, Pop, HandleError, TestBell, Leave, Go, worldVars,
                    BellsPass, InSession, InLoop
<1>6. CASE HandleBar \/ HandleBarThrows
  <2>1. \A s \in Universe : decided'[s] = decided[s] \/ decided'[s].bell = bell
    <3>1. decided' = [decided EXCEPT ![msg.symbol] = [bell |-> bell, day |-> msg.day]]
      BY <1>6 DEF HandleBar, HandleBarThrows, Decide
    <3>2. DOMAIN decided = Universe
      BY DEF SessionInv, TypeOK, TraderTypeOK
    <3> QED
      BY <3>1, <3>2
  <2>2. bell' = bell /\ trader = "handling" /\ trader' \in {"past message", "unwinding"}
    BY <1>6 DEF HandleBar, HandleBarThrows
  <2>3. \A s \in Universe : decided[s].bell <= bell
    BY <1>2, <2>2 DEF BellsPass, InSession, InLoop
  <2>4. \A s \in Universe : decided'[s].bell <= bell'
    <3> SUFFICES ASSUME NEW s \in Universe PROVE decided'[s].bell <= bell
      BY <2>2
    <3>1. decided'[s].bell = decided[s].bell \/ decided'[s].bell = bell
      BY <2>1
    <3>2. decided[s].bell <= bell /\ bell <= bell
      BY <1>1, <2>3
    <3> QED
      BY <3>1, <3>2
  <2> QED
    BY <2>2, <2>4 DEF BellsPass
<1>7. CASE Join
  <2>1. UNCHANGED <<decided, bell, now, stop, halted>>
    BY <1>7 DEF Join, Go, worldVars
  <2>2. trader' = "reading clock" => trader = "joining" /\ halted = "no"
    BY <1>7 DEF Join, Go
  <2>3. trader' \in {"reading clock", "halted", "failed"}
    BY <1>7 DEF Join, Go
  <2>4. trader' = "reading clock" => stop \/ \A s \in Universe : decided[s].bell <= now
    <3> SUFFICES ASSUME trader = "joining", halted = "no", ~stop
                 PROVE  \A s \in Universe : decided[s].bell <= now
      BY <2>2
    <3>1. now >= bell /\ \A s \in Universe : decided[s].bell <= bell
      BY <1>2 DEF BellsPass, InSession, InLoop
    <3> QED
      BY <1>1, <3>1
  <2> QED
    BY <2>1, <2>3, <2>4 DEF BellsPass, InSession, InLoop
<1>8. CASE TraderThrowsForeign \/ PollThrowsForeign
  BY <1>2, <1>8 DEF TraderThrowsForeign, PollThrowsForeign, Go,
                    BellsPass, InSession, InLoop
<1>9. CASE FeedStep \/ BrokerChanges \/ UNCHANGED vars
  <2>1. UNCHANGED <<traderVars, stop, now>>
    BY <1>9 DEF FeedStep, TestFeed, PollStopped, PollNoNews, PollBar, PollFails, Push,
                NapOver, BrokerChanges, worldVars, vars
  <2> QED
    BY <1>2, <2>1 DEF traderVars, BellsPass, InSession, InLoop
<1>10. CASE Interrupt
  BY <1>2, <1>10 DEF Interrupt, traderVars, BellsPass, InSession, InLoop
<1>11. CASE Ring
  <2>1. UNCHANGED <<traderVars, stop>> /\ now' = now + 1
    BY <1>11 DEF Ring
  <2>2. UNCHANGED <<trader, bell, halted, decided>>
    BY <2>1 DEF traderVars
  <2>3. \A s \in Universe : decided[s].bell <= now => decided[s].bell <= now'
    BY <1>1, <2>1
  <2>4. now >= bell => now' >= bell
    BY <1>1, <2>1
  <2> QED
    BY <1>2, <2>1, <2>2, <2>3, <2>4 DEF BellsPass, InSession, InLoop
<1> QED
  BY <1>3, <1>4, <1>5, <1>6, <1>7, <1>8, <1>9, <1>10, <1>11 DEF Next, TraderStep

-----------------------------------------------------------------------------
(* What is on its way *)

LEMMA FlightStep ==
  ASSUME SessionInv, [Next]_vars
  PROVE  FlightInv'
<1>1. /\ TypeOK /\ FlightInv /\ HeldInPlace /\ FeedInPlace
      /\ TypeOK'
  BY TypeStep DEF SessionInv
<1>2. CASE Start \/ Stopped \/ ClockFails \/ WakeAtBell \/ WakeSpuriously \/ FallAsleep
           \/ Join \/ Leave \/ TraderThrowsForeign \/ PollThrowsForeign \/ HandleBarThrows
  <2>1. ~InLoop'
    BY <1>2 DEF Start, Stopped, ClockFails, WakeAtBell, WakeSpuriously, FallAsleep, Join,
                Leave, TraderThrowsForeign, PollThrowsForeign, HandleBarThrows, Go, InLoop
  <2> QED
    BY <2>1 DEF FlightInv, FlightInOrder, FlightIsNews, DecidedWasSeen, NothingLost
<1>3. CASE TestLoop \/ TestBell \/ TestFeed \/ PollStopped \/ PollNoNews \/ NapOver
           \/ Interrupt \/ Ring \/ BrokerChanges \/ UNCHANGED vars
  <2>1. UNCHANGED <<msg, queue, pending, seen, decided, bell>>
    BY <1>3 DEF TestLoop, TestBell, TestFeed, PollStopped, PollNoNews, NapOver, Interrupt,
                Ring, BrokerChanges, Go, vars, traderVars, feedVars
  <2>2. InLoop' => InLoop
    BY <1>3 DEF TestLoop, TestBell, TestFeed, PollStopped, PollNoNews, NapOver, Interrupt,
                Ring, BrokerChanges, Go, vars, traderVars, InLoop
  <2>3. InFlight' = InFlight
    BY <2>1 DEF InFlight
  <2> QED
    BY <1>1, <2>1, <2>2, <2>3, FlightKept
<1>4. CASE OpenSession
  <2>1. msg = NoMessage /\ pending = NoMessage
    BY <1>1, <1>4 DEF OpenSession, HeldInPlace, FeedInPlace, FeedOnlyInSession, InSession, InLoop
  <2>2. InFlight' = <<>>
    <3>1. /\ Held(msg') = <<>> /\ Held(pending') = <<>> /\ queue' = <<>>
      BY <1>4, <2>1 DEF OpenSession, Held
    <3> QED
      BY <3>1, ConcatEmptySeq, EmptySeq DEF InFlight
  <2>3. \A s \in Universe : decided[s].bell < bell'
    <3>1. now \in Nat
      BY <1>1, Bounds DEF TypeOK, WorldTypeOK
    <3>2. \A s \in Universe : decided[s].bell \in Nat
      BY <1>1, DaysAndBells
    <3>3. (\A s \in Universe : decided[s].bell <= now) /\ bell' = now + 1
      BY <1>4 DEF OpenSession, SessionInv, BellsPass
    <3> QED
      BY <3>1, <3>2, <3>3
  <2> QED
    BY <1>1, <1>4, <2>2, <2>3, FlightStarts DEF OpenSession
<1>5. CASE Pop
  <2>1. msg = NoMessage
    BY <1>1, <1>5 DEF Pop, HeldInPlace
  <2>2. InFlight' = InFlight
    BY <1>1, <1>5, <2>1, FlightPopped DEF Pop, feedVars
  <2> QED
    BY <1>1, <1>5, <2>2, FlightKept DEF Pop, feedVars, InLoop
<1>6. CASE HandleError
  BY <1>1, <1>6, FlightErrorHandled DEF HandleError, HeldInPlace, InLoop, feedVars
<1>7. CASE HandleBar
  BY <1>1, <1>7, FlightBarHandled DEF HandleBar, HeldInPlace, InLoop, feedVars
<1>8. CASE Push
  <2>1. InFlight' = InFlight
    BY <1>1, <1>8, FlightPushed DEF Push, Put, HeldInPlace, traderVars
  <2> QED
    BY <1>1, <1>8, <2>1, FlightKept DEF Push, traderVars, InLoop
<1>9. ASSUME PollBar \/ PollFails
      PROVE  pending = NoMessage /\ (InLoop' => InLoop)
  BY <1>1, <1>9 DEF PollBar, PollFails, HeldInPlace, FeedInPlace, FeedOnlyInSession,
                    InSession, InLoop, traderVars
<1>10. CASE PollFails
  BY <1>1, <1>9, <1>10, FlightErrorMet DEF PollFails, ErrorMessage, NoMessage, traderVars
<1>11. CASE PollBar
  <2>1. PICK day \in LatestDays(now) :
          /\ IsNews(Watched[at], day)
          /\ seen' = [seen EXCEPT ![Watched[at]] = day]
          /\ pending' = BarMessage(Watched[at], day)
    BY <1>11 DEF PollBar
  <2>2. day \in Days /\ Watched[at] \in Universe
    BY <1>1, TimeInRange, Bounds DEF TypeOK, FeedTypeOK, WorldTypeOK
  <2>3. UNCHANGED <<msg, queue, decided, bell>>
    BY <1>11 DEF PollBar, traderVars
  <2> QED
    BY <1>1, <1>9, <1>11, <2>1, <2>2, <2>3, FlightBarMet
<1> QED
  BY <1>2, <1>3, <1>4, <1>5, <1>6, <1>7, <1>8, <1>10, <1>11 DEF Next, TraderStep, FeedStep

-----------------------------------------------------------------------------
(* The theorems *)

LEMMA SessionInit ==
  ASSUME Init
  PROVE  SessionInv
<1>1. InFlight = <<>>
  BY ConcatEmptySeq, EmptySeq DEF Init, InFlight, Held
<1>2. TypeOK
  <2>1. /\ 0 \in Bells /\ 0 \in 0..ErrorLimit /\ 1 \in 1..Len(Watched)
        /\ 0 \in 0..MaxTime /\ 1 \in 0..MaxTime
    BY Bounds DEF Bells
  <2>2. TraderTypeOK
    BY <2>1 DEF Init, TraderTypeOK
  <2>3. FeedTypeOK
    BY <2>1 DEF Init, FeedTypeOK
  <2>4. QueueTypeOK
    BY EmptyQueue DEF Init, QueueTypeOK
  <2>5. WorldTypeOK
    BY <2>1 DEF Init, WorldTypeOK
  <2> QED
    BY <2>2, <2>3, <2>4, <2>5 DEF TypeOK
<1>3. HeldInPlace /\ FeedInPlace /\ ErrorsHalt
  BY DEF Init, HeldInPlace, FeedInPlace, FeedOnlyInSession, ErrorsHalt, InLoop
<1>4. BellsPass
  BY DEF Init, BellsPass, InSession, InLoop
<1>5. FlightInv
  BY DEF Init, FlightInv, FlightInOrder, FlightIsNews, DecidedWasSeen, NothingLost, InLoop
<1> QED
  BY <1>2, <1>3, <1>4, <1>5 DEF SessionInv

LEMMA SessionStep ==
  ASSUME SessionInv, [Next]_vars
  PROVE  SessionInv'
  BY TypeStep, ControlStep, BellsStep, FlightStep DEF SessionInv, ControlInv

\* The inductive invariant always holds: whatever the two threads, the clock, the
\* broker and the interrupt do between each other's steps.
THEOREM SessionInvariant == Spec => []SessionInv
  BY SessionInit, SessionStep, PTL DEF Spec

\* The types hold: the queue of a session never exceeds its capacity, and
\* consecutive_errors never passes the limit that halts trading.
THEOREM TypeCorrect == Spec => []TypeOK
  BY SessionInvariant, PTL DEF SessionInv

\* The feed thread is joined on every way out of trade_session (feed.hpp's
\* destructor): it is never there without a session.
THEOREM FeedJoined == Spec => []FeedOnlyInSession
<1>1. SessionInv => FeedOnlyInSession
  BY DEF SessionInv, FeedInPlace
<1> QED
  BY <1>1, SessionInvariant, PTL

\* No engine decides twice on a day's bar within a session, or on an older bar
\* after a newer one (last_seen_ and the order of the queue).
THEOREM NewsDecidedOnce == Spec => []NewsOnceASession
<1>1. SessionInv => NewsOnceASession
  <2> SUFFICES ASSUME SessionInv, trader = "handling", msg.kind = "bar"
               PROVE  \/ decided[msg.symbol].bell # bell
                      \/ decided[msg.symbol].day < msg.day
    BY DEF NewsOnceASession
  <2>1. msg \in Messages
    BY DEF SessionInv, HeldInPlace, TypeOK, TraderTypeOK
  <2> DEFINE rest == queue \o Held(pending)
  <2>2. InFlight = <<msg>> \o rest /\ rest \in Seq(Messages) /\ <<msg>> \in Seq(Messages)
    <3>1. queue \in Seq(Messages) /\ Held(pending) \in Seq(Messages) /\ <<msg>> \in Seq(Messages)
      BY <2>1, HeldIsSeq DEF SessionInv, TypeOK, FeedTypeOK, QueueTypeOK
    <3>2. Held(msg) = <<msg>>
      BY DEF Held, SessionInv, HeldInPlace
    <3> QED
      BY <3>1, <3>2, ConcatProperties, ConcatAssociative DEF InFlight
  <2> HIDE DEF rest
  <2>3. InFlight[1] = msg /\ 1 \in 1..Len(InFlight)
    BY <2>2, ConcatProperties
  <2> QED
    BY <2>3 DEF SessionInv, FlightInv, FlightIsNews, InLoop
<1> QED
  BY <1>1, SessionInvariant, PTL

\* While the session runs, a bar the feed marked as seen is on its way to its
\* engine or was decided on: last_seen_ is written before the push, and no
\* interleaving of the two threads loses the day.
THEOREM SeenIsDelivered == Spec => []NothingDropped
<1>1. SessionInv => NothingDropped
  <2> SUFFICES ASSUME SessionInv, InLoop, NEW i \in 1..Len(InFlight)
               PROVE  InFlight[i] \in {pending, msg} \cup Range(queue)
    BY DEF NothingDropped, SessionInv, FlightInv, NothingLost
  <2>1. Held(msg) \in Seq(Messages) /\ queue \in Seq(Messages) /\ Held(pending) \in Seq(Messages)
    BY HeldIsSeq DEF SessionInv, TypeOK, TraderTypeOK, FeedTypeOK, QueueTypeOK
  <2> DEFINE front == Held(msg) \o queue
  <2>2. front \in Seq(Messages)
    BY <2>1, ConcatProperties
  <2>3. Len(Held(msg)) \in Nat /\ Len(queue) \in Nat /\ Len(Held(pending)) \in Nat /\ Len(front) \in Nat
    BY <2>1, <2>2
  <2>4. \A m, k : k \in 1..Len(Held(m)) => Held(m)[k] = m
    BY DEF Held
  <2>5. ASSUME NEW k \in 1..Len(front)
        PROVE  front[k] \in {msg} \cup Range(queue)
    <3>1. front[k] = IF k <= Len(Held(msg)) THEN Held(msg)[k] ELSE queue[k - Len(Held(msg))]
      BY <2>1, ConcatProperties
    <3>2. CASE k <= Len(Held(msg))
      BY <2>3, <2>4, <3>1, <3>2
    <3>3. CASE ~(k <= Len(Held(msg)))
      <4>1. k - Len(Held(msg)) \in 1..Len(queue)
        BY <2>1, <2>3, <3>3, ConcatProperties
      <4>2. queue[k - Len(Held(msg))] \in Range(queue)
        BY <2>1, <4>1 DEF Range
      <4> QED
        BY <3>1, <3>3, <4>2
    <3> QED
      BY <3>2, <3>3
  <2>6. /\ InFlight[i] = IF i <= Len(front) THEN front[i] ELSE Held(pending)[i - Len(front)]
        /\ Len(InFlight) = Len(front) + Len(Held(pending))
    BY <2>1, <2>2, ConcatProperties DEF InFlight
  <2> HIDE DEF front
  <2>7. CASE i <= Len(front)
    BY <2>3, <2>5, <2>6, <2>7
  <2>8. CASE ~(i <= Len(front))
    <3>1. i - Len(front) \in 1..Len(Held(pending))
      BY <2>3, <2>6, <2>8
    <3> QED
      BY <2>4, <2>6, <2>8, <3>1
  <2> QED
    BY <2>7, <2>8
<1> QED
  BY <1>1, SessionInvariant, PTL
=============================================================================
