--------------------------- MODULE ChannelProofs ---------------------------
(***************************************************************************)
(* Proofs about the channel for any senders, values and capacities.        *)
(*                                                                         *)
(* The strengthening says what the reference count counts (Counting), that *)
(* whoever is inside send still owns a Sender and a value (Sending), and   *)
(* that after recv has reported the end nothing can be accepted any more   *)
(* (Ending): explicitly_closed is never reset, and a channel without       *)
(* senders has nobody to copy one from.                                    *)
(***************************************************************************)
EXTENDS Channel, SequenceFacts, FiniteSetTheorems

Labels == {"idle", "send", "notify_item", "notify_end", "close_empty", "close_full"}
Carried == {<<>>} \cup {<<v>> : v \in Values}

\* State::sender_count is the number of live Senders.
Counting == sender_count = Cardinality(holds)

\* A thread inside send holds a Sender and a value, and blocked ones are there.
Sending ==
  /\ \A s \in Senders : pc[s] = "send" => s \in holds /\ value[s] # <<>>
  /\ \A s \in waitFull : pc[s] = "send"

\* After the end nothing is queued and nobody can send.
Ending == ended => items = <<>> /\ (explicitly_closed \/ holds = {})

\* The senders that will look at the channel without being notified.
AwakeSenders == {s \in Senders : pc[s] = "send" /\ s \notin waitFull}

Inv == TypeOK /\ Counting /\ Sending /\ Ending /\ EndIsFinal /\ NoSenderForgotten
-----------------------------------------------------------------------------
USE DEF stateVars, senderVars, receiverVars, history, vars, RecvOps

\* A set of senders has a number of members.
LEMMA Counted ==
  ASSUME NEW S, S \subseteq Senders
  PROVE  IsFiniteSet(S) /\ Cardinality(S) \in Nat
  BY ChannelAssumption, FS_Subset, FS_CardinalityType

\* One sender more, one sender less, and what a larger set counts.
LEMMA Gains ==
  ASSUME NEW S, S \subseteq Senders, NEW t, t \notin S
  PROVE  Cardinality(S \cup {t}) = Cardinality(S) + 1
  BY Counted, FS_AddElement

LEMMA Loses ==
  ASSUME NEW S, S \subseteq Senders, NEW t, t \in S
  PROVE  Cardinality(S \ {t}) = Cardinality(S) - 1
  BY Counted, FS_RemoveElement

LEMMA Grows ==
  ASSUME NEW S, NEW T, S \subseteq T, T \subseteq Senders
  PROVE  Cardinality(S) <= Cardinality(T)
  BY ChannelAssumption, FS_Subset

\* Every action, spelled out once.
LEMMA NextSplit ==
  ASSUME [Next]_vars
  PROVE  \/ RecvTakes \/ RecvEnds \/ RecvBlocks \/ RecvGivesUp \/ RecvNotifies
         \/ DeadNotifies \/ Recv \/ MarkDead \/ ReceiverWakesAlone
         \/ \E s \in Senders :
              \/ SendAccepts(s) \/ SendFails(s) \/ SendBlocks(s) \/ SendNotifies(s)
              \/ ReleaseNotifies(s) \/ CloseWakesReceiver(s) \/ CloseWakesSenders(s)
              \/ Release(s) \/ Send(s) \/ Close(s) \/ SenderWakesAlone(s)
              \/ \E u \in Senders : Copy(s, u)
         \/ UNCHANGED vars
  BY DEF Next, ReceiverStep, SenderStep, SenderCall
-----------------------------------------------------------------------------
\* Typed says TypeOK without the bound on the count, which Counting gives.
Typed ==
  /\ capacity \in Capacities
  /\ items \in Seq(Values) /\ sent \in Seq(Values) /\ got \in Seq(Values)
  /\ receiver_alive \in BOOLEAN /\ explicitly_closed \in BOOLEAN /\ ended \in BOOLEAN
  /\ waitFull \subseteq Senders /\ waitEmpty \in BOOLEAN
  /\ holds \subseteq Senders
  /\ pc \in [Senders -> Labels]
  /\ value \in [Senders -> Carried]
  /\ rpc \in {"idle", "recv", "notify_room", "notify_dead"}
  /\ rop \in RecvOps \cup {"none"}

LEMMA CountIsBounded ==
  ASSUME Typed, Counting
  PROVE  TypeOK
<1>1. Cardinality(holds) \in Nat /\ Cardinality(Senders) \in Nat
  BY Counted DEF Typed
<1>2. Cardinality(holds) <= Cardinality(Senders)
  BY Grows DEF Typed
<1>3. sender_count \in 0..Cardinality(Senders)
  BY <1>1, <1>2 DEF Counting
<1>4. QED
  BY <1>3 DEF Typed, TypeOK, Labels, Carried

\* A value in the hands of a send is one of the values.
LEMMA CarriesOne ==
  ASSUME Typed, Sending, NEW s \in Senders, pc[s] = "send"
  PROVE  /\ value[s] \in Seq(Values) /\ Len(value[s]) = 1
<1>1. value[s] \in Carried /\ value[s] # <<>>
  BY DEF Typed, Sending
<1>2. PICK v \in Values : value[s] = <<v>>
  BY <1>1 DEF Carried
<1>3. QED
  BY <1>2

\* Every action keeps the types.
LEMMA TypeStep ==
  ASSUME Typed, Sending, [Next]_vars
  PROVE  Typed'
<1> USE DEF Typed, Labels
<1>1. ASSUME RecvTakes PROVE Typed'
  BY <1>1 DEF RecvTakes, RGoes
<1>2. ASSUME RecvEnds PROVE Typed'
  BY <1>2 DEF RecvEnds, RGoes, RReturns
<1>3. ASSUME RecvBlocks PROVE Typed'
  BY <1>3 DEF RecvBlocks
<1>4. ASSUME RecvGivesUp PROVE Typed'
  BY <1>4 DEF RecvGivesUp, RGoes, RReturns
<1>5. ASSUME RecvNotifies PROVE Typed'
  BY <1>5 DEF RecvNotifies, RGoes
<1>6. ASSUME DeadNotifies PROVE Typed'
  BY <1>6 DEF DeadNotifies, RGoes
<1>7. ASSUME Recv PROVE Typed'
  BY <1>7 DEF Recv, RGoes
<1>8. ASSUME MarkDead PROVE Typed'
  BY <1>8 DEF MarkDead, RGoes
<1>9. ASSUME ReceiverWakesAlone PROVE Typed'
  BY <1>9 DEF ReceiverWakesAlone
<1>10. ASSUME NEW s \in Senders, SendAccepts(s) PROVE Typed'
  <2>1. value[s] \in Seq(Values)
    BY <1>10, CarriesOne DEF SendAccepts, Goes
  <2>2. items' \in Seq(Values) /\ sent' \in Seq(Values)
    BY <1>10, <2>1 DEF SendAccepts
  <2>3. QED
    BY <1>10, <2>2 DEF SendAccepts, Goes, Carried
<1>11. ASSUME NEW s \in Senders, SendFails(s) PROVE Typed'
  BY <1>11 DEF SendFails, Goes, Carried
<1>12. ASSUME NEW s \in Senders, SendBlocks(s) PROVE Typed'
  BY <1>12 DEF SendBlocks
<1>13. ASSUME NEW s \in Senders, SendNotifies(s) PROVE Typed'
  BY <1>13 DEF SendNotifies, Goes
<1>14. ASSUME NEW s \in Senders, ReleaseNotifies(s) PROVE Typed'
  BY <1>14 DEF ReleaseNotifies, Goes
<1>15. ASSUME NEW s \in Senders, CloseWakesReceiver(s) PROVE Typed'
  BY <1>15 DEF CloseWakesReceiver, Goes
<1>16. ASSUME NEW s \in Senders, CloseWakesSenders(s) PROVE Typed'
  BY <1>16 DEF CloseWakesSenders, Goes
<1>17. ASSUME NEW s \in Senders, Release(s) PROVE Typed'
  BY <1>17 DEF Release, Goes
<1>18. ASSUME NEW s \in Senders, Send(s) PROVE Typed'
  <2>1. (CHOOSE v \in Unsent : TRUE) \in Unsent
    BY <1>18 DEF Send
  <2>2. (CHOOSE v \in Unsent : TRUE) \in Values
    BY <2>1 DEF Unsent
  <2>3. QED
    BY <1>18, <2>2 DEF Send, Goes, Carried
<1>19. ASSUME NEW s \in Senders, Close(s) PROVE Typed'
  BY <1>19 DEF Close, Goes
<1>20. ASSUME NEW s \in Senders, SenderWakesAlone(s) PROVE Typed'
  BY <1>20 DEF SenderWakesAlone
<1>21. ASSUME NEW s \in Senders, NEW u \in Senders, Copy(s, u) PROVE Typed'
  BY <1>21 DEF Copy
<1>22. ASSUME UNCHANGED vars PROVE Typed'
  BY <1>22
<1>23. QED
  BY NextSplit, <1>1, <1>2, <1>3, <1>4, <1>5, <1>6, <1>7, <1>8, <1>9, <1>10, <1>11, <1>12,
     <1>13, <1>14, <1>15, <1>16, <1>17, <1>18, <1>19, <1>20, <1>21, <1>22

\* The count, the places of the senders and the end survive every action.
LEMMA ControlStep ==
  ASSUME Typed, Counting, Sending, Ending, [Next]_vars
  PROVE  Counting' /\ Sending' /\ Ending'
<1> USE DEF Typed, Counting, Sending, Ending
<1>1. ASSUME RecvTakes PROVE Counting' /\ Sending' /\ Ending'
  BY <1>1 DEF RecvTakes, RGoes
<1>2. ASSUME RecvEnds PROVE Counting' /\ Sending' /\ Ending'
  <2>1. explicitly_closed \/ holds = {}
    <3>1. ASSUME ~explicitly_closed PROVE holds = {}
      <4>1. ~(Cardinality(holds) > 0) /\ Cardinality(holds) \in Nat
        BY <1>2, <3>1, Counted DEF RecvEnds, producers_alive
      <4>2. QED
        BY <4>1, Counted, FS_EmptySet
    <3>2. QED
      BY <3>1
  <2>2. QED
    BY <1>2, <2>1 DEF RecvEnds, RReturns, RGoes
<1>3. ASSUME RecvBlocks PROVE Counting' /\ Sending' /\ Ending'
  BY <1>3 DEF RecvBlocks
<1>4. ASSUME RecvGivesUp PROVE Counting' /\ Sending' /\ Ending'
  BY <1>4 DEF RecvGivesUp, RGoes, RReturns
<1>5. ASSUME RecvNotifies PROVE Counting' /\ Sending' /\ Ending'
  BY <1>5 DEF RecvNotifies, RGoes
<1>6. ASSUME DeadNotifies PROVE Counting' /\ Sending' /\ Ending'
  BY <1>6 DEF DeadNotifies, RGoes
<1>7. ASSUME Recv PROVE Counting' /\ Sending' /\ Ending'
  BY <1>7 DEF Recv, RGoes
<1>8. ASSUME MarkDead PROVE Counting' /\ Sending' /\ Ending'
  BY <1>8 DEF MarkDead, RGoes
<1>9. ASSUME ReceiverWakesAlone PROVE Counting' /\ Sending' /\ Ending'
  BY <1>9 DEF ReceiverWakesAlone
<1>10. ASSUME NEW s \in Senders, SendAccepts(s) PROVE Counting' /\ Sending' /\ Ending'
  <2>1. s \in holds /\ ~explicitly_closed
    BY <1>10 DEF SendAccepts, Goes, Refused
  <2>2. ~ended
    BY <2>1
  <2>3. QED
    BY <1>10, <2>2 DEF SendAccepts, Goes
<1>11. ASSUME NEW s \in Senders, SendFails(s) PROVE Counting' /\ Sending' /\ Ending'
  BY <1>11 DEF SendFails, Goes
<1>12. ASSUME NEW s \in Senders, SendBlocks(s) PROVE Counting' /\ Sending' /\ Ending'
  BY <1>12 DEF SendBlocks
<1>13. ASSUME NEW s \in Senders, SendNotifies(s) PROVE Counting' /\ Sending' /\ Ending'
  BY <1>13 DEF SendNotifies, Goes
<1>14. ASSUME NEW s \in Senders, ReleaseNotifies(s) PROVE Counting' /\ Sending' /\ Ending'
  BY <1>14 DEF ReleaseNotifies, Goes
<1>15. ASSUME NEW s \in Senders, CloseWakesReceiver(s) PROVE Counting' /\ Sending' /\
   Ending'
  BY <1>15 DEF CloseWakesReceiver, Goes
<1>16. ASSUME NEW s \in Senders, CloseWakesSenders(s) PROVE Counting' /\ Sending' /\
   Ending'
  BY <1>16 DEF CloseWakesSenders, Goes
<1>17. ASSUME NEW s \in Senders, Release(s) PROVE Counting' /\ Sending' /\ Ending'
  <2>1. s \in holds /\ holds' = holds \ {s} /\ pc[s] = "idle"
    BY <1>17 DEF Release, Goes
  <2>2. Cardinality(holds) \in Nat /\ Cardinality(holds \ {s}) = Cardinality(holds) - 1
        /\ Cardinality(holds \ {s}) \in Nat
    BY <2>1, Counted, Loses
  <2>3. sender_count' = sender_count - 1
    BY <1>17, <2>2 DEF Release
  <2>4. Counting'
    BY <2>1, <2>2, <2>3
  <2>5. pc' = [pc EXCEPT ![s] = pc'[s]] /\ pc'[s] # "send"
    BY <1>17 DEF Release, Goes
  <2>6. Sending' /\ Ending'
    BY <1>17, <2>1, <2>5 DEF Release
  <2>7. QED
    BY <2>4, <2>6
<1>18. ASSUME NEW s \in Senders, Send(s) PROVE Counting' /\ Sending' /\ Ending'
  <2>1. value'[s] # <<>>
    BY <1>18 DEF Send
  <2>2. QED
    BY <1>18, <2>1 DEF Send, Goes
<1>19. ASSUME NEW s \in Senders, Close(s) PROVE Counting' /\ Sending' /\ Ending'
  BY <1>19 DEF Close, Goes
<1>20. ASSUME NEW s \in Senders, SenderWakesAlone(s) PROVE Counting' /\ Sending' /\
   Ending'
  BY <1>20 DEF SenderWakesAlone
<1>21. ASSUME NEW s \in Senders, NEW u \in Senders, Copy(s, u) PROVE Counting' /\ Sending'
   /\ Ending'
  <2>1. Cardinality(holds \cup {u}) = Cardinality(holds) + 1
    BY <1>21, Gains DEF Copy
  <2>2. QED
    BY <1>21, <2>1 DEF Copy
<1>22. ASSUME UNCHANGED vars PROVE Counting' /\ Sending' /\ Ending'
  BY <1>22
<1>23. QED
  BY NextSplit, <1>1, <1>2, <1>3, <1>4, <1>5, <1>6, <1>7, <1>8, <1>9, <1>10, <1>11, <1>12,
     <1>13, <1>14, <1>15, <1>16, <1>17, <1>18, <1>19, <1>20, <1>21, <1>22

\* What is accepted, received and queued agrees after every action, and the
\* end stays the end.
LEMMA FinalStep ==
  ASSUME Typed, Sending, Ending, Ending', EndIsFinal, [Next]_vars
  PROVE  EndIsFinal'
<1> USE DEF Typed
<1>0. sent' = got' \o items' => EndIsFinal'
  <2>1. ended' => got' \o items' = got'
    <3>1. Typed'
      BY TypeStep
    <3>2. ended' => items' = <<>>
      BY DEF Ending
    <3>3. QED
      BY <3>1, <3>2, ConcatEmptySeq
  <2>2. QED
    BY <2>1 DEF EndIsFinal
<1>1. ASSUME RecvTakes PROVE EndIsFinal'
  <2>1. items # <<>> /\ items' = Tail(items) /\ got' = Append(got, Head(items)) /\ sent' = sent
    BY <1>1 DEF RecvTakes
  <2>2. Append(got, Head(items)) \o Tail(items) = got \o items
    BY <2>1, HeadMovesOver
  <2>3. QED
    BY <1>0, <2>1, <2>2 DEF EndIsFinal
<1>2. ASSUME NEW s \in Senders, SendAccepts(s) PROVE EndIsFinal'
  <2>1. value[s] \in Seq(Values)
    BY <1>2, CarriesOne DEF SendAccepts, Goes
  <2>2. (got \o items) \o value[s] = got \o (items \o value[s])
    BY <2>1, ConcatAssociative, SMTT(30)
  <2>3. items' = items \o value[s] /\ sent' = sent \o value[s] /\ got' = got
    BY <1>2 DEF SendAccepts
  <2>4. QED
    BY <1>0, <2>2, <2>3 DEF EndIsFinal
<1>3. ASSUME UNCHANGED <<items, sent, got>> PROVE EndIsFinal'
  BY <1>0, <1>3 DEF EndIsFinal
<1>4. QED
  BY NextSplit, <1>1, <1>2, <1>3 DEF RecvEnds, RecvBlocks, RecvGivesUp, RecvNotifies,
     DeadNotifies, Recv, MarkDead, ReceiverWakesAlone, SendFails, SendBlocks,
     SendNotifies, ReleaseNotifies, CloseWakesReceiver, CloseWakesSenders, Release,
     Send, Close, SenderWakesAlone, Copy
-----------------------------------------------------------------------------
\* Told is the notification the receiver still has to send.
Told == IF rpc = "notify_room" THEN 1 ELSE 0

\* The terms of the inequality are numbers.
LEMMA Numbers ==
  ASSUME Typed
  PROVE  /\ Cardinality(AwakeSenders) \in Nat /\ Told \in Nat
         /\ capacity \in Nat /\ Len(items) \in Nat
<1>1. AwakeSenders \subseteq Senders
  BY DEF AwakeSenders
<1>2. Cardinality(AwakeSenders) \in Nat
  BY <1>1, Counted
<1>3. QED
  BY <1>2, ChannelAssumption DEF Typed, Told

\* Where no place becomes free, and nobody awake goes away, none is forgotten.
LEMMA PlacesKept ==
  ASSUME Typed, Typed', NoSenderForgotten, items' = items, capacity' = capacity,
         waitFull' # {} => waitFull # {}, Refused => Refused',
         rpc = "notify_room" => rpc' = "notify_room",
         AwakeSenders \subseteq AwakeSenders'
  PROVE  NoSenderForgotten'
<1>1. AwakeSenders \subseteq Senders /\ AwakeSenders' \subseteq Senders
  BY DEF AwakeSenders
<1>2. Cardinality(AwakeSenders) <= Cardinality(AwakeSenders')
  BY <1>1, Grows
<1>3. Cardinality(AwakeSenders) \in Nat /\ Cardinality(AwakeSenders') \in Nat
  BY <1>1, Counted
<1>4. capacity \in Nat /\ Len(items) \in Nat
  BY Numbers
<1>5. Told \in Nat /\ Told' \in Nat /\ Told <= Told'
  BY DEF Told
<1>6. QED
  BY <1>2, <1>3, <1>4, <1>5 DEF NoSenderForgotten, AwakeSenders, Told

\* A channel that refuses or is full owes nobody a place.
LEMMA NoPlace ==
  ASSUME Typed', Refused' \/ waitFull' = {} \/ Len(items') >= capacity'
  PROVE  NoSenderForgotten'
<1>1. AwakeSenders' \subseteq Senders
  BY DEF AwakeSenders
<1>2. Cardinality(AwakeSenders') \in Nat
  BY <1>1, Counted
<1>3. capacity' \in Nat /\ Len(items') \in Nat /\ Told' \in Nat
  BY ChannelAssumption DEF Typed, Told
<1>4. QED
  BY <1>2, <1>3 DEF NoSenderForgotten, AwakeSenders, Told

\* Every action leaves enough senders awake, or a notification on its way, for
\* the free places.
LEMMA ForgottenStep ==
  ASSUME Typed, Typed', Sending, NoSenderForgotten, [Next]_vars
  PROVE  NoSenderForgotten'
<1>0. /\ Cardinality(AwakeSenders) \in Nat /\ capacity \in Nat /\ Len(items) \in Nat
      /\ AwakeSenders \subseteq Senders
  BY Numbers DEF AwakeSenders
<1>1. ASSUME RecvTakes PROVE NoSenderForgotten'
  <2>1. /\ Len(items') = Len(items) - 1 /\ capacity' = capacity /\ waitFull' = waitFull
        /\ (Refused <=> Refused') /\ rpc = "recv" /\ rpc' = "notify_room"
    BY <1>1 DEF RecvTakes, RGoes, Refused, Typed
  <2>2. AwakeSenders' = AwakeSenders
    BY <1>1 DEF RecvTakes, AwakeSenders
  <2>3. Told = 0 /\ Told' = 1
    BY <2>1 DEF Told
  <2>4. waitFull # {} /\ ~Refused => capacity - Len(items) <= Cardinality(AwakeSenders)
    BY <1>0, <2>3 DEF NoSenderForgotten, AwakeSenders, Told
  <2>5. waitFull' # {} /\ ~Refused' =>
          capacity' - Len(items') <= Cardinality(AwakeSenders') + Told'
    BY <1>0, <2>1, <2>2, <2>3, <2>4
  <2>6. QED
    BY <2>5 DEF NoSenderForgotten, AwakeSenders, Told
<1>2. ASSUME RecvEnds PROVE NoSenderForgotten'
  BY <1>2, PlacesKept DEF RecvEnds, RGoes, RReturns, AwakeSenders, Refused, Typed
<1>3. ASSUME RecvBlocks PROVE NoSenderForgotten'
  BY <1>3, PlacesKept DEF RecvBlocks, AwakeSenders, Refused, Typed
<1>4. ASSUME RecvGivesUp PROVE NoSenderForgotten'
  BY <1>4, PlacesKept DEF RecvGivesUp, RGoes, RReturns, AwakeSenders, Refused, Typed
<1>5. ASSUME RecvNotifies PROVE NoSenderForgotten'
  <2>1. CASE waitFull' = {}
    BY <2>1, NoPlace
  <2>2. ASSUME NEW w \in waitFull, waitFull' = waitFull \ {w} PROVE NoSenderForgotten'
    <3>1. /\ items' = items /\ capacity' = capacity /\ (Refused <=> Refused') /\ pc' = pc
          /\ rpc = "notify_room" /\ rpc' = "idle" /\ w \in Senders /\ pc[w] = "send"
      BY <1>5 DEF RecvNotifies, RGoes, Refused, Sending, Typed
    <3>2. w \notin AwakeSenders /\ AwakeSenders' = AwakeSenders \cup {w}
      BY <2>2, <3>1 DEF AwakeSenders
    <3>3. Cardinality(AwakeSenders') = Cardinality(AwakeSenders) + 1
      BY <1>0, <3>2, Gains
    <3>4. Told = 1 /\ Told' = 0 /\ waitFull # {}
      BY <3>1 DEF Told
    <3>5. QED
      BY <1>0, <3>1, <3>3, <3>4 DEF NoSenderForgotten, AwakeSenders, Told
  <2>3. QED
    BY <1>5, <2>1, <2>2 DEF RecvNotifies
<1>6. ASSUME DeadNotifies PROVE NoSenderForgotten'
  BY <1>6, NoPlace DEF DeadNotifies, Refused
<1>7. ASSUME Recv PROVE NoSenderForgotten'
  BY <1>7, PlacesKept DEF Recv, RGoes, AwakeSenders, Refused, Typed
<1>8. ASSUME MarkDead PROVE NoSenderForgotten'
  BY <1>8, NoPlace DEF MarkDead, Refused
<1>9. ASSUME ReceiverWakesAlone PROVE NoSenderForgotten'
  BY <1>9, PlacesKept DEF ReceiverWakesAlone, AwakeSenders, Refused, Typed
<1>10. ASSUME NEW s \in Senders, SendAccepts(s) PROVE NoSenderForgotten'
  <2>1. Len(value[s]) = 1 /\ value[s] \in Seq(Values)
    BY <1>10, CarriesOne DEF SendAccepts, Goes
  <2>2. Len(items') = Len(items) + 1
    <3>1. items' = items \o value[s] /\ items \in Seq(Values)
      BY <1>10 DEF SendAccepts, Typed
    <3>2. Len(items \o value[s]) = Len(items) + Len(value[s])
      BY <2>1, <3>1, ConcatProperties
    <3>3. QED
      BY <2>1, <3>1, <3>2
  <2>3. /\ capacity' = capacity /\ waitFull' = waitFull /\ (Refused <=> Refused')
        /\ Told' = Told /\ Told \in Nat
    BY <1>10 DEF SendAccepts, Refused, Told
  <2>4. s \in AwakeSenders /\ AwakeSenders' = AwakeSenders \ {s}
    BY <1>10 DEF SendAccepts, Goes, AwakeSenders, Typed
  <2>5. Cardinality(AwakeSenders') = Cardinality(AwakeSenders) - 1
    BY <1>0, <2>4, Loses
  <2>6. QED
    BY <1>0, <2>2, <2>3, <2>5 DEF NoSenderForgotten, AwakeSenders, Told
<1>11. ASSUME NEW s \in Senders, SendFails(s) PROVE NoSenderForgotten'
  BY <1>11, NoPlace DEF SendFails, Refused
<1>12. ASSUME NEW s \in Senders, SendBlocks(s) PROVE NoSenderForgotten'
  BY <1>12, <1>0, NoPlace DEF SendBlocks, HasRoom
<1>13. ASSUME NEW s \in Senders, SendNotifies(s) PROVE NoSenderForgotten'
  BY <1>13, PlacesKept DEF SendNotifies, Goes, AwakeSenders, Refused, Typed
<1>14. ASSUME NEW s \in Senders, ReleaseNotifies(s) PROVE NoSenderForgotten'
  BY <1>14, PlacesKept DEF ReleaseNotifies, Goes, AwakeSenders, Refused, Typed
<1>15. ASSUME NEW s \in Senders, CloseWakesReceiver(s) PROVE NoSenderForgotten'
  BY <1>15, PlacesKept DEF CloseWakesReceiver, Goes, AwakeSenders, Refused, Typed
<1>16. ASSUME NEW s \in Senders, CloseWakesSenders(s) PROVE NoSenderForgotten'
  BY <1>16, NoPlace DEF CloseWakesSenders, Refused
<1>17. ASSUME NEW s \in Senders, Release(s) PROVE NoSenderForgotten'
  BY <1>17, PlacesKept DEF Release, Goes, AwakeSenders, Refused, Typed
<1>18. ASSUME NEW s \in Senders, Send(s) PROVE NoSenderForgotten'
  BY <1>18, PlacesKept DEF Send, Goes, AwakeSenders, Refused, Typed
<1>19. ASSUME NEW s \in Senders, Close(s) PROVE NoSenderForgotten'
  BY <1>19, NoPlace DEF Close, Refused
<1>20. ASSUME NEW s \in Senders, SenderWakesAlone(s) PROVE NoSenderForgotten'
  BY <1>20, PlacesKept DEF SenderWakesAlone, AwakeSenders, Refused, Typed
<1>21. ASSUME NEW s \in Senders, NEW u \in Senders, Copy(s, u) PROVE NoSenderForgotten'
  BY <1>21, PlacesKept DEF Copy, AwakeSenders, Refused, Typed
<1>22. ASSUME UNCHANGED vars PROVE NoSenderForgotten'
  BY <1>22, PlacesKept DEF AwakeSenders, Refused, Typed
<1>23. QED
  BY NextSplit, <1>1, <1>2, <1>3, <1>4, <1>5, <1>6, <1>7, <1>8, <1>9, <1>10, <1>11, <1>12,
     <1>13, <1>14, <1>15, <1>16, <1>17, <1>18, <1>19, <1>20, <1>21, <1>22
-----------------------------------------------------------------------------
\* The inductive invariant holds in every state of every behaviour.
LEMMA ChannelInvariant == Spec => []Inv
<1>1. Init => Inv
  <2> SUFFICES ASSUME Init PROVE Inv
    OBVIOUS
  <2>1. items \in Seq(Values) /\ sent \in Seq(Values) /\ got \in Seq(Values)
    BY DEF Init
  <2>2. /\ receiver_alive \in BOOLEAN /\ explicitly_closed \in BOOLEAN
        /\ ended \in BOOLEAN /\ waitEmpty \in BOOLEAN
    BY DEF Init
  <2>3. Typed
    BY <2>1, <2>2, ChannelAssumption DEF Init, Typed, Labels, Carried
  <2>4. Counting
    BY FS_Singleton DEF Init, Counting
  <2>5. Sending /\ Ending
    BY <2>3 DEF Init, Sending, Ending, Typed
  <2>6. EndIsFinal
    BY ConcatEmptySeq DEF Init, EndIsFinal
  <2>7. NoSenderForgotten
    BY DEF Init, NoSenderForgotten
  <2>8. QED
    BY <2>3, <2>4, <2>5, <2>6, <2>7, CountIsBounded DEF Inv
<1>2. Inv /\ [Next]_vars => Inv'
  <2> SUFFICES ASSUME Inv, [Next]_vars PROVE Inv'
    OBVIOUS
  <2>1. Typed
    BY DEF Inv, TypeOK, Typed, Labels, Carried
  <2>2. Typed' /\ Counting' /\ Sending' /\ Ending'
    BY <2>1, TypeStep, ControlStep DEF Inv
  <2>3. TypeOK'
    <3>1. Cardinality(holds') \in Nat /\ Cardinality(Senders) \in Nat
      BY <2>2, Counted DEF Typed
    <3>2. Cardinality(holds') <= Cardinality(Senders)
      BY <2>2, Grows DEF Typed
    <3>3. sender_count' \in 0..Cardinality(Senders)
      BY <2>2, <3>1, <3>2 DEF Counting
    <3>4. QED
      BY <2>2, <3>3 DEF Typed, TypeOK, Labels, Carried
  <2>4. QED
    BY <2>1, <2>2, <2>3, FinalStep, ForgottenStep DEF Inv
<1>3. QED
  BY <1>1, <1>2, PTL DEF Spec

\* The channel's state keeps its types; in particular sender_count, which
\* channel.hpp decrements only above zero, is the number of live Senders.
THEOREM ChannelTypeCorrect == Spec => [](TypeOK /\ Counting)
<1>1. Inv => TypeOK /\ Counting
  BY DEF Inv
<1>2. QED
  BY <1>1, ChannelInvariant, PTL

\* The receiver gets the accepted values in order, and once recv or
\* recv_timeout has reported the end it has them all and nothing is accepted
\* any more, whatever copies, drops, sends and closes are under way.
THEOREM ChannelEndIsFinal == Spec => [](EndIsFinal /\ Ending)
<1>1. Inv => EndIsFinal /\ Ending
  BY DEF Inv
<1>2. QED
  BY <1>1, ChannelInvariant, PTL

\* A blocked sender is not forgotten while the channel is open and has room.
THEOREM ChannelForgetsNobody == Spec => []NoSenderForgotten
<1>1. Inv => NoSenderForgotten
  BY DEF Inv
<1>2. QED
  BY <1>1, ChannelInvariant, PTL
=============================================================================
