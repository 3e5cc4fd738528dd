-------------------------- MODULE BreakpointsProofs --------------------------
(***************************************************************************)
(* Which reported breakpoints the process keeps, and when the list it      *)
(* shows is what SAP holds: for any calls, positions and systems, whatever *)
(* POSTs overlap, fail or lose their answer, and through restarts.         *)
(***************************************************************************)
EXTENDS Breakpoints, TLAPS

\* What was reported and no POST under way puts at risk.
Kept(s) == acknowledged[s] \ exposed[s]

\* Two POSTs to one system have crossed, and both calls count as crossed.
Crossing ==
  \A c, d \in Calls :
    /\ ~ Idle(c) /\ ~ Idle(d) /\ c # d
    /\ request[c].system = request[d].system
    => c \in crossed

\* What is on its way to SAP, or on its way back, keeps what was reported.
Keeping ==
  \A c \in Calls :
    ~ Idle(c) => Kept(request[c].system) \subseteq request[c].set

\* An echo names what SAP registers, and is what it holds unless another POST
\* has come after.
Echoed ==
  \A c \in Calls :
    request[c].state = "processed" =>
      /\ request[c].set \subseteq Executable
      /\ c \notin crossed => request[c].set = held[request[c].system]

Recorded == \A s \in Systems : Kept(s) \subseteq registry \cap held[s]

\* The registry lags behind only while an answer is on its way.
Adopted ==
  \A s \in synchronised :
    /\ \A c \in UnderWay(s) : request[c].state # "abandoned"
    /\ (\A c \in UnderWay(s) : request[c].state # "processed")
         => registry = held[s]

IInv == TypeOK /\ Crossing /\ Keeping /\ Echoed /\ Recorded /\ Adopted

-----------------------------------------------------------------------------

LEMMA Initially == Init => IInv
  <1> SUFFICES ASSUME Init PROVE IInv
    OBVIOUS
  <1>1. PICK s \in Systems, p \in Positions :
          request = [c \in Calls |-> [state |-> "none", system |-> s,
                                      position |-> p, set |-> {}]]
    BY DEF Init
  <1>2. TypeOK
    BY <1>1 DEF Init, TypeOK, Requests
  <1>3. \A c \in Calls : request[c].state = "none"
    BY <1>1
  <1>4. Crossing /\ Keeping /\ Echoed /\ Adopted
    BY <1>3 DEF Init, Crossing, Keeping, Echoed, Adopted, Idle
  <1>5. Recorded
    BY DEF Init, Recorded, Kept
  <1>6. QED
    BY <1>2, <1>4, <1>5 DEF IInv

\* What a call's POST becomes, and what it leaves alone.
LEMMA MovedType ==
  ASSUME NEW q \in Requests, NEW set \in SUBSET Positions,
         NEW state \in {"none", "sent", "abandoned", "processed"}
  PROVE  /\ Moved(q, state, set) \in Requests
         /\ Moved(q, state, set).state = state
         /\ Moved(q, state, set).set = set
         /\ Moved(q, state, set).system = q.system
  BY DEF Moved, Requests

LEMMA Moving ==
  ASSUME TypeOK, NEW c \in Calls, NEW set \in SUBSET Positions,
         NEW state \in {"none", "sent", "abandoned", "processed"},
         Move(c, state, set)
  PROVE  /\ request' \in [Calls -> Requests]
         /\ request'[c].state = state
         /\ request'[c].set = set
         /\ request'[c].system = request[c].system
         /\ \A d \in Calls : d # c => request'[d] = request[d]
  <1>1. request[c] \in Requests /\ request'[c] = Moved(request[c], state, set)
    BY DEF TypeOK, Move
  <1>2. /\ Moved(request[c], state, set) \in Requests
        /\ Moved(request[c], state, set).state = state
        /\ Moved(request[c], state, set).set = set
        /\ Moved(request[c], state, set).system = request[c].system
    BY <1>1, MovedType
  <1>3. QED
    BY <1>1, <1>2 DEF TypeOK, Move

\* A POST that is sent carries what was reported and is not to be removed.
LEMMA Sending ==
  ASSUME IInv, NEW c \in Calls, NEW s \in Systems,
         NEW p \in Positions, NEW set \in SUBSET Positions,
         Post(c, s, p, set),
         acknowledged' \in [Systems -> SUBSET Executable],
         exposed' \in [Systems -> SUBSET Executable],
         standing' \subseteq Calls,
         \A t \in Systems : Kept(t)' \subseteq Kept(t),
         Kept(s)' \subseteq set
  PROVE  IInv'
  <1> USE DEF IInv, Post
  <1>1. TypeOK'
    BY DEF TypeOK, Requests, UnderWay
  <1>2. /\ request'[c].state = "sent" /\ request'[c].set = set
        /\ request'[c].system = s
    BY DEF TypeOK
  <1>3. \A d \in Calls : d # c => request'[d] = request[d]
    BY DEF TypeOK
  <1>4. \A d \in Calls : request[d].system \in Systems
    BY DEF TypeOK, Requests
  <1>5. Crossing'
    <2>1. SUFFICES ASSUME NEW d \in Calls, NEW e \in Calls,
                          Idle(d)' = FALSE, Idle(e)' = FALSE, d # e,
                          request'[d].system = request'[e].system
                   PROVE  d \in crossed'
      BY DEF Crossing, Idle
    <2>2. CASE d # c /\ e # c
      <3>1. d \in crossed
        BY <1>3, <2>1, <2>2 DEF Crossing, Idle
      <3>2. QED
        BY <2>2, <3>1
    <2>3. CASE d = c
      <3>1. e \in UnderWay(s)
        BY <1>2, <1>3, <2>1, <2>3 DEF UnderWay, Idle
      <3>2. QED
        BY <2>3, <3>1
    <2>4. CASE e = c
      <3>1. d \in UnderWay(s)
        BY <1>2, <1>3, <2>1, <2>4 DEF UnderWay, Idle
      <3>2. QED
        BY <2>4, <3>1
    <2>5. QED
      BY <2>2, <2>3, <2>4
  <1>6. Keeping'
    <2>1. SUFFICES ASSUME NEW d \in Calls, Idle(d)' = FALSE
                   PROVE  Kept(request[d].system)' \subseteq request'[d].set
      BY DEF Keeping, Idle
    <2>2. CASE d = c
      BY <1>2, <2>2 DEF Kept
    <2>3. CASE d # c
      <3>1. Kept(request[d].system) \subseteq request[d].set
        BY <1>3, <2>1, <2>3 DEF Keeping, Idle
      <3>2. QED
        BY <1>3, <1>4, <2>3, <3>1 DEF Kept
    <2>4. QED
      BY <2>2, <2>3
  <1>7. Echoed'
    <2>1. SUFFICES ASSUME NEW d \in Calls, request'[d].state = "processed"
                   PROVE  /\ request'[d].set \subseteq Executable
                          /\ d \notin crossed' =>
                               request'[d].set = held'[request'[d].system]
      BY DEF Echoed
    <2>2. d # c /\ request'[d] = request[d]
      BY <1>2, <1>3, <2>1
    <2>3. d \notin crossed' => d \notin crossed
      BY <2>2
    <2>4. QED
      BY <2>1, <2>2, <2>3 DEF Echoed
  <1>8. Recorded'
    BY DEF Recorded, Kept
  <1>9. Adopted'
    <2>1. SUFFICES ASSUME NEW t \in synchronised
                   PROVE  /\ \A d \in UnderWay(t)' :
                               request'[d].state # "abandoned"
                          /\ (\A d \in UnderWay(t)' :
                                request'[d].state # "processed")
                               => registry = held[t]
      BY DEF Adopted
    <2>2. \A d \in UnderWay(t) : d \in UnderWay(t)' /\ request'[d] = request[d]
      BY <1>3 DEF UnderWay, Idle
    <2>3. \A d \in UnderWay(t)' :
            \/ d \in UnderWay(t) /\ request'[d] = request[d]
            \/ request'[d].state = "sent"
      BY <1>2, <1>3 DEF UnderWay, Idle
    <2>4. QED
      BY <2>2, <2>3 DEF Adopted
  <1>10. QED
    BY <1>1, <1>5, <1>6, <1>7, <1>8, <1>9

LEMMA Beginning ==
  ASSUME IInv, NEW c \in Calls, Begin(c)
  PROVE  IInv'
  <1>1. PICK s \in Systems, p \in Positions :
          SetBreakpoint(c, s, p) \/ DeleteBreakpoint(c, s, p)
            \/ DeleteAllBreakpoints(c, s, p)
    BY DEF Begin
  <1>2. registry \subseteq Positions /\ Kept(s) \subseteq registry
    BY BreakpointsAssumption DEF IInv, TypeOK, Recorded
  <1>3. /\ acknowledged \in [Systems -> SUBSET Executable]
        /\ exposed \in [Systems -> SUBSET Executable]
        /\ standing \subseteq Calls
    BY DEF IInv, TypeOK
  <1>4. CASE SetBreakpoint(c, s, p)
    <2>1. Post(c, s, p, registry \cup {p})
      BY <1>4 DEF SetBreakpoint
    <2>2. /\ acknowledged' = acknowledged /\ exposed' = exposed
          /\ standing' \subseteq Calls
      BY <1>3, <1>4 DEF SetBreakpoint
    <2>3. \A t \in Systems : Kept(t)' = Kept(t)
      BY <2>2 DEF Kept
    <2>4. QED
      BY <1>2, <1>3, <2>1, <2>2, <2>3, Sending
  <1>5. CASE DeleteBreakpoint(c, s, p)
    <2>1. Post(c, s, p, registry \ {p}) /\ Withdraw(s, {p})
      BY <1>5 DEF DeleteBreakpoint
    <2>2. /\ acknowledged' \in [Systems -> SUBSET Executable]
          /\ exposed' \in [Systems -> SUBSET Executable]
          /\ standing' \subseteq Calls
      BY <1>3, <2>1 DEF Withdraw
    <2>3. /\ \A t \in Systems : Kept(t)' \subseteq Kept(t)
          /\ Kept(s)' \subseteq Kept(s) \ {p}
      BY <1>3, <2>1 DEF Withdraw, Kept
    <2>4. Kept(s)' \subseteq registry \ {p}
      BY <1>2, <2>3
    <2>5. QED
      BY <1>2, <2>1, <2>2, <2>3, <2>4, Sending
  <1>6. CASE DeleteAllBreakpoints(c, s, p)
    <2>1. Post(c, s, p, {}) /\ Withdraw(s, Positions)
      BY <1>6 DEF DeleteAllBreakpoints
    <2>2. /\ acknowledged' \in [Systems -> SUBSET Executable]
          /\ exposed' \in [Systems -> SUBSET Executable]
          /\ standing' \subseteq Calls
      BY <1>3, <2>1 DEF Withdraw
    <2>3. /\ \A t \in Systems : Kept(t)' \subseteq Kept(t)
          /\ Kept(s)' \subseteq Kept(s) \ Positions
      BY <1>3, <2>1 DEF Withdraw, Kept
    <2>4. Kept(s)' \subseteq {}
      BY <1>2, <2>3
    <2>5. QED
      BY <2>1, <2>2, <2>3, <2>4, Sending
  <1>7. QED
    BY <1>1, <1>4, <1>5, <1>6

\* A POST that ends or is given up: nothing comes to be at risk, and the list
\* is no longer vouched for.
LEMMA Leaving ==
  ASSUME IInv, NEW c \in Calls, ~ Idle(c),
         request' \in [Calls -> Requests],
         \/ request'[c].state = "none"
         \/ /\ request'[c].state = "abandoned"
            /\ request'[c].set = request[c].set,
         request'[c].system = request[c].system,
         \A d \in Calls : d # c => request'[d] = request[d],
         standing' \subseteq Calls,
         request[c].system \notin synchronised',
         synchronised' \subseteq synchronised,
         UNCHANGED <<registry, held, acknowledged, exposed, crossed>>
  PROVE  IInv'
  <1> USE DEF IInv
  <1>1. TypeOK'
    BY DEF TypeOK
  <1>2. Crossing'
    BY DEF Crossing, Idle
  <1>3. Keeping'
    BY DEF Keeping, Idle, Kept
  <1>4. Echoed'
    BY DEF Echoed
  <1>5. Recorded'
    BY DEF Recorded, Kept
  <1>6. Adopted'
    BY DEF Adopted, UnderWay, Idle
  <1>7. QED
    BY <1>1, <1>2, <1>3, <1>4, <1>5, <1>6

LEMMA Dropping ==
  ASSUME IInv, NEW c \in Calls, Drop(c)
  PROVE  IInv'
  <1>1. /\ request' \in [Calls -> Requests] /\ request'[c].state = "none"
        /\ request'[c].system = request[c].system
        /\ \A d \in Calls : d # c => request'[d] = request[d]
    BY Moving DEF IInv, Drop, Done
  <1>2. ~ Idle(c)
    BY DEF Drop, Idle
  <1>3. request[c].system \notin synchronised
    BY <1>2 DEF IInv, Adopted, Drop, UnderWay
  <1>4. standing' \subseteq Calls
    BY DEF Drop, reported, IInv, TypeOK
  <1>5. UNCHANGED <<registry, held, acknowledged, exposed, crossed, synchronised>>
    BY DEF Drop, reported
  <1>6. QED
    BY <1>1, <1>2, <1>3, <1>4, <1>5, Leaving

LEMMA Failing ==
  ASSUME IInv, NEW c \in Calls, Fail(c)
  PROVE  IInv'
  <1>1. request[c].set \in SUBSET Positions
    BY DEF IInv, TypeOK, Requests
  <1>2. /\ request' \in [Calls -> Requests]
        /\ \/ request'[c].state = "none"
           \/ /\ request'[c].state = "abandoned"
              /\ request'[c].set = request[c].set
        /\ request'[c].system = request[c].system
        /\ \A d \in Calls : d # c => request'[d] = request[d]
    BY <1>1, Moving DEF IInv, Fail, Done
  <1>3. ~ Idle(c)
    BY DEF Fail, Idle
  <1>4. /\ standing' \subseteq Calls
        /\ request[c].system \notin synchronised'
        /\ synchronised' \subseteq synchronised
        /\ UNCHANGED <<registry, held, acknowledged, exposed, crossed>>
    BY DEF Fail, IInv, TypeOK
  <1>5. QED
    BY <1>2, <1>3, <1>4, Leaving

LEMMA Processing ==
  ASSUME IInv, NEW c \in Calls, Synchronise(c)
  PROVE  IInv'
  <1> USE DEF IInv, Synchronise, reported
  <1> DEFINE s == request[c].system
             accepted == request[c].set \cap Executable
  <1>1. s \in Systems /\ ~ Idle(c) /\ accepted \in SUBSET Positions
    BY DEF TypeOK, Requests, Idle
  <1>2. /\ request' \in [Calls -> Requests]
        /\ \/ /\ request[c].state = "sent"
              /\ request'[c].state = "processed" /\ request'[c].set = accepted
           \/ request[c].state = "abandoned" /\ request'[c].state = "none"
        /\ request'[c].system = s
        /\ \A d \in Calls : d # c => request'[d] = request[d]
    BY <1>1, Moving DEF Done
  <1>3. /\ held'[s] = accepted
        /\ \A t \in Systems : t # s => held'[t] = held[t]
    BY <1>1 DEF TypeOK
  <1>4. Kept(s) \subseteq accepted
    BY <1>1 DEF TypeOK, Keeping, Kept
  <1> HIDE DEF accepted
  <1>5. TypeOK'
    BY <1>1, <1>2 DEF TypeOK, accepted
  <1>6. Crossing'
    BY <1>1, <1>2 DEF Crossing, Idle
  <1>7. Keeping'
    BY <1>1, <1>2, <1>4 DEF Keeping, Idle, Kept
  <1>8. Echoed'
    <2>1. SUFFICES ASSUME NEW d \in Calls, request'[d].state = "processed"
                   PROVE  /\ request'[d].set \subseteq Executable
                          /\ d \notin crossed =>
                               request'[d].set = held'[request'[d].system]
      BY DEF Echoed
    <2>2. CASE d = c
      BY <1>2, <1>3, <2>1, <2>2 DEF accepted
    <2>3. CASE d # c
      <3>1. request'[d] = request[d] /\ ~ Idle(d)
        BY <1>2, <2>1, <2>3 DEF Idle
      <3>2. request[d].system = s => d \in crossed
        BY <1>1, <2>3, <3>1 DEF Crossing
      <3>3. request[d].system \in Systems
        BY DEF TypeOK, Requests
      <3>4. QED
        BY <1>3, <2>1, <3>1, <3>2, <3>3 DEF Echoed
    <2>4. QED
      BY <2>2, <2>3
  <1>9. Recorded'
    BY <1>3, <1>4 DEF Recorded, Kept
  <1>10. Adopted'
    <2>1. SUFFICES ASSUME NEW t \in synchronised
                   PROVE  /\ \A d \in UnderWay(t)' :
                               request'[d].state # "abandoned"
                          /\ (\A d \in UnderWay(t)' :
                                request'[d].state # "processed")
                               => registry = held'[t]
      BY DEF Adopted
    <2>2. t \in Systems
      BY DEF TypeOK
    <2>3. CASE t = s
      <3>1. request[c].state = "sent"
        BY <1>1, <2>1, <2>3 DEF Adopted, UnderWay
      <3>2. c \in UnderWay(t)' /\ request'[c].state = "processed"
        BY <1>2, <2>3, <3>1 DEF UnderWay, Idle
      <3>3. \A d \in UnderWay(t)' : d # c => d \in UnderWay(t)
        BY <1>2 DEF UnderWay, Idle
      <3>4. QED
        BY <1>2, <2>1, <3>2, <3>3 DEF Adopted, UnderWay
    <2>4. CASE t # s
      <3>1. UnderWay(t)' = UnderWay(t) /\ c \notin UnderWay(t)
        BY <1>2, <2>4 DEF UnderWay, Idle
      <3>2. \A d \in UnderWay(t) : request'[d] = request[d]
        BY <1>2, <3>1 DEF UnderWay
      <3>3. QED
        BY <1>3, <2>2, <2>4, <3>1, <3>2 DEF Adopted
    <2>5. QED
      BY <2>3, <2>4
  <1>11. QED
    BY <1>5, <1>6, <1>7, <1>8, <1>9, <1>10

LEMMA Answering ==
  ASSUME IInv, NEW c \in Calls, Answer(c)
  PROVE  IInv'
  <1> USE DEF IInv, Answer, AdoptServerState
  <1>0. PICK s \in Systems, set \in SUBSET Executable :
          s = request[c].system /\ set = request[c].set
    BY DEF TypeOK, Requests, Echoed
  <1>1. s \in Systems /\ ~ Idle(c) /\ set \subseteq Executable
    BY DEF Idle
  <1>2. /\ request' \in [Calls -> Requests] /\ request'[c].state = "none"
        /\ \A d \in Calls : d # c => request'[d] = request[d]
    BY Moving DEF Done
  <1>3. News(c) \subseteq set
    BY <1>0 DEF News
  <1>4. c \notin crossed =>
          /\ set = held[s]
          /\ \A d \in Calls : d # c /\ ~ Idle(d) => request[d].system # s
    BY <1>0, <1>1 DEF Echoed, Crossing
  <1>5. registry' = set /\ Kept(s) \subseteq set
    BY <1>0, <1>1 DEF Keeping
  <1>6. /\ acknowledged'[s] = acknowledged[s] \cup News(c)
        /\ \A t \in Systems : t # s => acknowledged'[t] = acknowledged[t]
        /\ acknowledged' \in [Systems -> SUBSET Executable]
    BY <1>0, <1>1, <1>3 DEF TypeOK
  <1>7. /\ exposed'[s] = IF c \in crossed
                           THEN exposed[s] \cup (News(c) \ acknowledged[s])
                           ELSE exposed[s] \ set
        /\ \A t \in Systems : t # s => exposed'[t] = acknowledged[t]
        /\ exposed' \in [Systems -> SUBSET Executable]
    BY <1>0, <1>1, <1>3 DEF TypeOK, Exposing
  <1>8. \A t \in Systems : t # s => Kept(t)' = {}
    BY <1>6, <1>7 DEF Kept
  <1>9. /\ c \in crossed => Kept(s)' = Kept(s)
        /\ Kept(s)' \subseteq set
    BY <1>3, <1>5, <1>6, <1>7 DEF Kept
  <1>10. TypeOK'
    BY <1>1, <1>2, <1>5, <1>6, <1>7 DEF TypeOK
  <1>11. Crossing'
    BY <1>2 DEF Crossing, Idle
  <1>12. Keeping'
    <2>1. SUFFICES ASSUME NEW d \in Calls, ~ Idle(d)', d # c
                   PROVE  Kept(request[d].system)' \subseteq request'[d].set
      BY <1>2 DEF Keeping, Idle
    <2>2. request'[d] = request[d] /\ ~ Idle(d) /\ request[d].system \in Systems
      BY <1>2, <2>1 DEF Idle, TypeOK, Requests
    <2>3. CASE request[d].system = s
      BY <1>4, <1>9, <2>1, <2>2, <2>3 DEF Keeping, Kept
    <2>4. CASE request[d].system # s
      BY <1>8, <2>2, <2>4 DEF Kept
    <2>5. QED
      BY <2>3, <2>4
  <1>13. Echoed'
    BY <1>2 DEF Echoed
  <1>14. Recorded'
    <2>1. Kept(s) \subseteq held[s]
      BY <1>1 DEF Recorded
    <2>2. Kept(s)' \subseteq held[s]
      BY <1>4, <1>9, <2>1
    <2>3. QED
      BY <1>5, <1>8, <1>9, <2>2 DEF Recorded, Kept
  <1>15. Adopted'
    <2>1. CASE c \in crossed
      BY <2>1 DEF Adopted
    <2>2. CASE c \notin crossed
      <3>1. synchronised' = {s} /\ registry' = held'[s]
        BY <1>0, <1>4, <1>5, <2>2
      <3>2. UnderWay(s)' = {}
        BY <1>2, <1>4, <2>2 DEF UnderWay, Idle
      <3>3. QED
        BY <3>1, <3>2 DEF Adopted
    <2>3. QED
      BY <2>1, <2>2
  <1>16. QED
    BY <1>10, <1>11, <1>12, <1>13, <1>14, <1>15

LEMMA Restarting ==
  ASSUME IInv, Restart
  PROVE  IInv'
  <1> USE DEF IInv, Restart
  <1>1. \A c \in Calls :
          /\ request'[c] \in Requests
          /\ request'[c].system = request[c].system
          /\ request'[c].state # "none" => request[c].state # "none"
          /\ request'[c].state # "processed"
    <2> TAKE c \in Calls
    <2>1. request[c] \in Requests /\ request[c].set \in SUBSET Positions
      BY DEF TypeOK, Requests
    <2>2. CASE request[c].state = "sent"
      BY <2>1, <2>2, MovedType
    <2>3. CASE request[c].state = "processed"
      BY <2>1, <2>3, MovedType
    <2>4. CASE request[c].state \notin {"sent", "processed"}
      BY <2>1, <2>4
    <2>5. QED
      BY <2>2, <2>3, <2>4
  <1>2. \A s \in Systems : Kept(s)' = {}
    BY DEF Kept
  <1>3. TypeOK'
    BY <1>1 DEF TypeOK
  <1>4. Crossing'
    BY <1>1 DEF Crossing, Idle
  <1>5. Keeping'
    BY <1>1, <1>2 DEF Keeping, Requests, Kept
  <1>6. Echoed'
    BY <1>1 DEF Echoed
  <1>7. Recorded' /\ Adopted'
    BY <1>2 DEF Recorded, Adopted
  <1>8. QED
    BY <1>3, <1>4, <1>5, <1>6, <1>7

\* Whatever calls overlap, fail or lose their answer, and whatever systems they
\* go to: a breakpoint that was reported stays until somebody asks to remove it,
\* unless the call that reported it was crossed or another system's answer has
\* replaced the registry (adoptServerState); and the registry is what SAP holds
\* on the system that answered last, as ListedIsHeld says.
THEOREM BreakpointsKept ==
  Spec => [](TypeOK /\ AcknowledgedKept /\ ListedIsHeld)
  <1>1. IInv /\ [Next]_vars => IInv'
    <2> SUFFICES ASSUME IInv, [Next]_vars PROVE IInv'
      OBVIOUS
    <2>1. CASE Next
      BY <2>1, Beginning, Processing, Dropping, Answering, Failing, Restarting
      DEF Next
    <2>2. CASE UNCHANGED vars
      BY <2>2 DEF vars, reported, IInv, TypeOK, Crossing, Keeping, Echoed,
                  Recorded, Adopted, Idle, UnderWay, Kept
    <2>3. QED
      BY <2>1, <2>2
  <1>2. IInv => TypeOK /\ AcknowledgedKept /\ ListedIsHeld
    BY DEF IInv, Recorded, Adopted, AcknowledgedKept, ListedIsHeld, Kept
  <1>3. QED
    BY Initially, <1>1, <1>2, PTL DEF Spec

\* The variables keep their types, and neither the registry nor a system ever
\* holds a position that SAP refused.
THEOREM TypeCorrect == Spec => []TypeOK
  BY BreakpointsKept, PTL

\* The registry that DebuggerListBreakpoints shows is what SAP holds on the
\* system that answered last, once no POST to it is under way, unless that call
\* was crossed or a POST to the system has failed since.
THEOREM ListIsHeld == Spec => []ListedIsHeld
  BY BreakpointsKept, PTL

=============================================================================
