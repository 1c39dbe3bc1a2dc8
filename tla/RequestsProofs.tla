--------------------------- MODULE RequestsProofs ---------------------------
(***************************************************************************)
(* The request table for every set of callers and workers.                *)
(***************************************************************************)
EXTENDS Requests, TLAPS

\* What appending to a sequence, and taking its head, do.
LEMMA FrameSequences ==
    ASSUME NEW s \in Seq(Frame)
    PROVE  /\ Len(s) \in Nat
           /\ \A e \in Frame :
                 /\ Len(Append(s, e)) = Len(s) + 1
                 /\ \A i \in 1..Len(s) : Append(s, e)[i] = s[i]
                 /\ Append(s, e)[Len(s) + 1] = e
           /\ s # <<>> => /\ Len(s) >= 1
                          /\ Head(s) = s[1] /\ Head(s) \in Frame
                          /\ Tail(s) \in Seq(Frame)
                          /\ Len(Tail(s)) = Len(s) - 1
                          /\ \A i \in 1..(Len(s) - 1) : Tail(s)[i] = s[i + 1]
OBVIOUS

\* Types are preserved.
LEMMA TypeStep ==
    ASSUME TypeOK, [Next]_vars
    PROVE  TypeOK'
<1>. USE DEF callVars, linkVars, readVars
<1>1. ASSUME NEW c \in Caller, Check(c) PROVE TypeOK'
  BY <1>1 DEF Check, TypeOK, Frame, Failer
<1>2. ASSUME NEW c \in Caller, Register(c) PROVE TypeOK'
  BY <1>2 DEF Register, TypeOK, Frame, Failer
<1>3. ASSUME NEW c \in Caller, Send(c) PROVE TypeOK'
  BY <1>3 DEF Send, TypeOK, Frame, Failer
<1>4. ASSUME NEW c \in Caller, SendFails(c) PROVE TypeOK'
  BY <1>4 DEF SendFails, TypeOK, Frame, Failer
<1>5. ASSUME NEW c \in Caller, Return(c) PROVE TypeOK'
  BY <1>5 DEF Return, TypeOK, Frame, Failer
<1>6. ASSUME NEW c \in Caller, WorkerExits(c) PROVE TypeOK'
  BY <1>6 DEF WorkerExits, TypeOK, Frame, Failer
<1>7. ASSUME NEW c \in Caller, TimeOut(c) PROVE TypeOK'
  BY <1>7 DEF TimeOut, TypeOK, Frame, Failer
<1>8. ASSUME NEW s \in BOOLEAN, NEW m \in BOOLEAN, Answer(s, m)
      PROVE  TypeOK'
  BY <1>8 DEF Answer, TypeOK, Frame, Failer
<1>9. CASE Disconnect
  BY <1>9 DEF Disconnect, TypeOK, Frame, Failer
<1>10. CASE BadFrame
  BY <1>10 DEF BadFrame, Leave, TypeOK, Frame, Failer
<1>11. CASE CloseBegins
  BY <1>11 DEF CloseBegins, TypeOK, Frame, Failer
<1>12. CASE Receive
  <2>1. Head(frames) \in Frame /\ Tail(frames) \in Seq(Frame)
    BY <1>12, FrameSequences DEF Receive, TypeOK
  <2>2. pending' \subseteq pending /\ held' \in Frame
    BY <1>12, <2>1 DEF Receive, TypeOK
  <2>. QED BY <1>12, <2>1, <2>2 DEF Receive, TypeOK
<1>13. CASE Deliver
  BY <1>13 DEF Deliver, TypeOK, Frame, Failer
<1>14. CASE Erase
  BY <1>14 DEF Erase, TypeOK, Frame, Failer
<1>15. CASE ReaderEnds
  BY <1>15 DEF ReaderEnds, Leave, TypeOK, Frame, Failer
<1>16. CASE ReaderSwaps
  BY <1>16 DEF ReaderSwaps, Swap, TypeOK, Frame, Failer
<1>17. ASSUME NEW f \in Failer, FailOne(f) PROVE TypeOK'
  BY <1>17 DEF FailOne, TypeOK, Frame, Failer
<1>18. CASE ReaderGone
  BY <1>18 DEF ReaderGone, TypeOK, Frame, Failer
<1>19. CASE CloseShutsDown
  BY <1>19 DEF CloseShutsDown, TypeOK, Frame, Failer
<1>20. CASE CloseSwaps
  BY <1>20 DEF CloseSwaps, Swap, TypeOK, Frame, Failer
<1>21. CASE CloseFailed
  BY <1>21 DEF CloseFailed, TypeOK, Frame, Failer
<1>22. CASE CloseReturned
  BY <1>22 DEF CloseReturned, TypeOK, Frame, Failer
<1>23. CASE UNCHANGED vars
  BY <1>23 DEF vars, TypeOK, Frame, Failer
<1>. QED
  BY <1>1, <1>2, <1>3, <1>4, <1>5, <1>6, <1>7, <1>8, <1>9, <1>10, <1>11, <1>12,
     <1>13, <1>14, <1>15, <1>16, <1>17, <1>18, <1>19, <1>20, <1>21, <1>22, <1>23
  DEF Next, Call, Read, Close, Failer

\* Ids stay unique.
LEMMA IdsStep ==
    ASSUME TypeOK, IdsUnique, ReaderHolds, Failing, [Next]_vars
    PROVE  IdsUnique'
<1>. USE DEF callVars, linkVars, readVars
<1>1. ASSUME NEW c \in Caller, Check(c) PROVE IdsUnique'
  BY <1>1 DEF Check, TypeOK, IdsUnique, InCall, Issued, ReaderHolds, Failing
<1>2. ASSUME NEW c \in Caller, Register(c) PROVE IdsUnique'
  BY <1>2 DEF Register, TypeOK, IdsUnique, InCall, Issued, ReaderHolds, Failing
<1>3. ASSUME NEW c \in Caller, Send(c) PROVE IdsUnique'
  BY <1>3 DEF Send, TypeOK, IdsUnique, InCall, Issued, ReaderHolds, Failing
<1>4. ASSUME NEW c \in Caller, SendFails(c) PROVE IdsUnique'
  BY <1>4 DEF SendFails, TypeOK, IdsUnique, InCall, Issued, ReaderHolds, Failing
<1>5. ASSUME NEW c \in Caller, Return(c) PROVE IdsUnique'
  BY <1>5 DEF Return, TypeOK, IdsUnique, InCall, Issued, ReaderHolds, Failing
<1>6. ASSUME NEW c \in Caller, WorkerExits(c) PROVE IdsUnique'
  BY <1>6 DEF WorkerExits, TypeOK, IdsUnique, InCall, Issued, ReaderHolds, Failing
<1>7. ASSUME NEW c \in Caller, TimeOut(c) PROVE IdsUnique'
  BY <1>7 DEF TimeOut, TypeOK, IdsUnique, InCall, Issued, ReaderHolds, Failing
<1>8. ASSUME NEW s \in BOOLEAN, NEW m \in BOOLEAN, Answer(s, m)
      PROVE  IdsUnique'
  BY <1>8 DEF Answer, TypeOK, IdsUnique, InCall, Issued, ReaderHolds, Failing
<1>9. CASE Disconnect
  BY <1>9 DEF Disconnect, TypeOK, IdsUnique, InCall, Issued, ReaderHolds, Failing
<1>10. CASE BadFrame
  BY <1>10 DEF BadFrame, Leave, TypeOK, IdsUnique, InCall, Issued, ReaderHolds, Failing
<1>11. CASE CloseBegins
  BY <1>11 DEF CloseBegins, TypeOK, IdsUnique, InCall, Issued, ReaderHolds, Failing
<1>12. CASE Receive
  BY <1>12 DEF Receive, TypeOK, IdsUnique, InCall, Issued, ReaderHolds, Failing
<1>13. CASE Deliver
  BY <1>13 DEF Deliver, TypeOK, IdsUnique, InCall, Issued, ReaderHolds, Failing
<1>14. CASE Erase
  BY <1>14 DEF Erase, TypeOK, IdsUnique, InCall, Issued, ReaderHolds, Failing
<1>15. CASE ReaderEnds
  BY <1>15 DEF ReaderEnds, Leave, TypeOK, IdsUnique, InCall, Issued, ReaderHolds, Failing
<1>16. CASE ReaderSwaps
  BY <1>16 DEF ReaderSwaps, Swap, TypeOK, IdsUnique, InCall, Issued, ReaderHolds, Failing
<1>17. ASSUME NEW f \in Failer, FailOne(f) PROVE IdsUnique'
  BY <1>17 DEF FailOne, TypeOK, IdsUnique, InCall, Issued, ReaderHolds, Failing
<1>18. CASE ReaderGone
  BY <1>18 DEF ReaderGone, TypeOK, IdsUnique, InCall, Issued, ReaderHolds, Failing
<1>19. CASE CloseShutsDown
  BY <1>19 DEF CloseShutsDown, TypeOK, IdsUnique, InCall, Issued, ReaderHolds, Failing
<1>20. CASE CloseSwaps
  BY <1>20 DEF CloseSwaps, Swap, TypeOK, IdsUnique, InCall, Issued, ReaderHolds, Failing
<1>21. CASE CloseFailed
  BY <1>21 DEF CloseFailed, TypeOK, IdsUnique, InCall, Issued, ReaderHolds, Failing
<1>22. CASE CloseReturned
  BY <1>22 DEF CloseReturned, TypeOK, IdsUnique, InCall, Issued, ReaderHolds, Failing
<1>23. CASE UNCHANGED vars
  BY <1>23 DEF vars, TypeOK, IdsUnique, InCall, Issued, ReaderHolds, Failing
<1>. QED
  BY <1>1, <1>2, <1>3, <1>4, <1>5, <1>6, <1>7, <1>8, <1>9, <1>10, <1>11, <1>12,
     <1>13, <1>14, <1>15, <1>16, <1>17, <1>18, <1>19, <1>20, <1>21, <1>22, <1>23
  DEF Next, Call, Read, Close, Failer

\* The reader's bookkeeping is preserved.
LEMMA HoldsStep ==
    ASSUME TypeOK, IdsUnique, ReaderHolds, Failing, [Next]_vars
    PROVE  ReaderHolds'
<1>. USE DEF callVars, linkVars, readVars
<1>1. ASSUME NEW c \in Caller, Check(c) PROVE ReaderHolds'
  BY <1>1 DEF Check, TypeOK, IdsUnique, InCall, Issued, ReaderHolds, Failing, Frame, Failer
<1>2. ASSUME NEW c \in Caller, Register(c) PROVE ReaderHolds'
  BY <1>2 DEF Register, TypeOK, IdsUnique, InCall, Issued, ReaderHolds, Failing, Frame, Failer
<1>3. ASSUME NEW c \in Caller, Send(c) PROVE ReaderHolds'
  BY <1>3 DEF Send, TypeOK, IdsUnique, InCall, Issued, ReaderHolds, Failing, Frame, Failer
<1>4. ASSUME NEW c \in Caller, SendFails(c) PROVE ReaderHolds'
  BY <1>4 DEF SendFails, TypeOK, IdsUnique, InCall, Issued, ReaderHolds, Failing, Frame, Failer
<1>5. ASSUME NEW c \in Caller, Return(c) PROVE ReaderHolds'
  BY <1>5 DEF Return, TypeOK, IdsUnique, InCall, Issued, ReaderHolds, Failing, Frame, Failer
<1>6. ASSUME NEW c \in Caller, WorkerExits(c) PROVE ReaderHolds'
  BY <1>6 DEF WorkerExits, TypeOK, IdsUnique, InCall, Issued, ReaderHolds, Failing, Frame, Failer
<1>7. ASSUME NEW c \in Caller, TimeOut(c) PROVE ReaderHolds'
  BY <1>7 DEF TimeOut, TypeOK, IdsUnique, InCall, Issued, ReaderHolds, Failing, Frame, Failer
<1>8. ASSUME NEW s \in BOOLEAN, NEW m \in BOOLEAN, Answer(s, m)
      PROVE  ReaderHolds'
  <2>. DEFINE e == [id |-> Head(asked), stream |-> s, more |-> m]
  <2>1. e \in Frame /\ frames' = Append(frames, e) /\ (m => s)
    BY <1>8 DEF Answer, TypeOK, Frame
  <2>2. \A i \in 1..Len(frames') : frames'[i].more => frames'[i].stream
    <3>. SUFFICES ASSUME NEW i \in 1..Len(frames')
                  PROVE  frames'[i].more => frames'[i].stream
      OBVIOUS
    <3>1. /\ Len(frames) \in Nat /\ Len(frames') = Len(frames) + 1
          /\ i \in 1..Len(frames) => frames'[i] = frames[i]
          /\ frames'[Len(frames) + 1] = e
      BY <2>1, FrameSequences DEF TypeOK
    <3>2. CASE i \in 1..Len(frames)
      BY <3>1, <3>2 DEF ReaderHolds
    <3>3. CASE i = Len(frames) + 1
      BY <2>1, <3>1, <3>3
    <3>. QED BY <3>1, <3>2, <3>3
  <2>. QED BY <1>8, <2>2 DEF Answer, ReaderHolds, Issued
<1>9. CASE Disconnect
  BY <1>9 DEF Disconnect, TypeOK, IdsUnique, InCall, Issued, ReaderHolds, Failing, Frame, Failer
<1>10. CASE BadFrame
  BY <1>10 DEF BadFrame, Leave, TypeOK, IdsUnique, InCall, Issued, ReaderHolds, Failing, Frame, Failer
<1>11. CASE CloseBegins
  BY <1>11 DEF CloseBegins, TypeOK, IdsUnique, InCall, Issued, ReaderHolds, Failing, Frame, Failer
<1>12. CASE Receive
  <2>1. /\ Head(frames) \in Frame
        /\ Head(frames).more => Head(frames).stream
    BY <1>12, FrameSequences DEF Receive, TypeOK, ReaderHolds
  <2>2. \A i \in 1..Len(frames') : frames'[i].more => frames'[i].stream
    BY <1>12, FrameSequences DEF Receive, TypeOK, ReaderHolds
  <2>3. pending \cap done = {}
    BY <1>12 DEF Receive, ReaderHolds
  <2>4. CASE Head(frames).id \in pending
    <3>1. /\ reader' = "deliver" /\ held' = Head(frames)
          /\ pending' = IF Head(frames).stream THEN pending
                        ELSE pending \ {Head(frames).id}
          /\ UNCHANGED <<done, nextId>>
      BY <1>12, <2>4 DEF Receive
    <3>2. held'.id \in Issued'
      BY <2>4, <3>1 DEF TypeOK, Issued
    <3>. QED BY <2>1, <2>2, <2>3, <3>1, <3>2 DEF ReaderHolds
  <2>5. CASE Head(frames).id \notin pending
    <3>1. UNCHANGED <<reader, held, pending, done, nextId>>
      BY <1>12, <2>5 DEF Receive
    <3>. QED BY <2>2, <3>1 DEF ReaderHolds, Issued
  <2>. QED BY <2>4, <2>5
<1>13. CASE Deliver
  BY <1>13 DEF Deliver, TypeOK, IdsUnique, InCall, Issued, ReaderHolds, Failing, Frame, Failer
<1>14. CASE Erase
  BY <1>14 DEF Erase, TypeOK, IdsUnique, InCall, Issued, ReaderHolds, Failing, Frame, Failer
<1>15. CASE ReaderEnds
  BY <1>15 DEF ReaderEnds, Leave, TypeOK, IdsUnique, InCall, Issued, ReaderHolds, Failing, Frame, Failer
<1>16. CASE ReaderSwaps
  BY <1>16 DEF ReaderSwaps, Swap, TypeOK, IdsUnique, InCall, Issued, ReaderHolds, Failing, Frame, Failer
<1>17. ASSUME NEW f \in Failer, FailOne(f) PROVE ReaderHolds'
  BY <1>17 DEF FailOne, TypeOK, IdsUnique, InCall, Issued, ReaderHolds, Failing, Frame, Failer
<1>18. CASE ReaderGone
  BY <1>18 DEF ReaderGone, TypeOK, IdsUnique, InCall, Issued, ReaderHolds, Failing, Frame, Failer
<1>19. CASE CloseShutsDown
  BY <1>19 DEF CloseShutsDown, TypeOK, IdsUnique, InCall, Issued, ReaderHolds, Failing, Frame, Failer
<1>20. CASE CloseSwaps
  BY <1>20 DEF CloseSwaps, Swap, TypeOK, IdsUnique, InCall, Issued, ReaderHolds, Failing, Frame, Failer
<1>21. CASE CloseFailed
  BY <1>21 DEF CloseFailed, TypeOK, IdsUnique, InCall, Issued, ReaderHolds, Failing, Frame, Failer
<1>22. CASE CloseReturned
  BY <1>22 DEF CloseReturned, TypeOK, IdsUnique, InCall, Issued, ReaderHolds, Failing, Frame, Failer
<1>23. CASE UNCHANGED vars
  BY <1>23 DEF vars, TypeOK, IdsUnique, InCall, Issued, ReaderHolds, Failing, Frame, Failer
<1>. QED
  BY <1>1, <1>2, <1>3, <1>4, <1>5, <1>6, <1>7, <1>8, <1>9, <1>10, <1>11, <1>12,
     <1>13, <1>14, <1>15, <1>16, <1>17, <1>18, <1>19, <1>20, <1>21, <1>22, <1>23
  DEF Next, Call, Read, Close, Failer

\* So is that of the two runs of fail_all_pending.
LEMMA FailingStep ==
    ASSUME TypeOK, IdsUnique, ReaderHolds, Failing, [Next]_vars
    PROVE  Failing'
<1>. USE DEF callVars, linkVars, readVars
<1>1. ASSUME NEW c \in Caller, Check(c) PROVE Failing'
  BY <1>1 DEF Check, TypeOK, Issued, Failing, Failer
<1>2. ASSUME NEW c \in Caller, Register(c) PROVE Failing'
  BY <1>2 DEF Register, TypeOK, Issued, Failing, Failer
<1>3. ASSUME NEW c \in Caller, Send(c) PROVE Failing'
  BY <1>3 DEF Send, TypeOK, Issued, Failing, Failer
<1>4. ASSUME NEW c \in Caller, SendFails(c) PROVE Failing'
  BY <1>4 DEF SendFails, TypeOK, Issued, Failing, Failer
<1>5. ASSUME NEW c \in Caller, Return(c) PROVE Failing'
  BY <1>5 DEF Return, TypeOK, Issued, Failing, Failer
<1>6. ASSUME NEW c \in Caller, WorkerExits(c) PROVE Failing'
  BY <1>6 DEF WorkerExits, TypeOK, Issued, Failing, Failer
<1>7. ASSUME NEW c \in Caller, TimeOut(c) PROVE Failing'
  BY <1>7 DEF TimeOut, TypeOK, Issued, Failing, Failer
<1>8. ASSUME NEW s \in BOOLEAN, NEW m \in BOOLEAN, Answer(s, m)
      PROVE  Failing'
  BY <1>8 DEF Answer, TypeOK, Issued, Failing, Failer
<1>9. CASE Disconnect
  BY <1>9 DEF Disconnect, TypeOK, Issued, Failing, Failer
<1>10. CASE BadFrame
  BY <1>10 DEF BadFrame, Leave, TypeOK, Issued, Failing, Failer
<1>11. CASE CloseBegins
  BY <1>11 DEF CloseBegins, TypeOK, Issued, Failing, Failer
<1>12. CASE Receive
  BY <1>12 DEF Receive, TypeOK, Issued, Failing, Failer
<1>13. CASE Deliver
  BY <1>13 DEF Deliver, TypeOK, Issued, Failing, Failer
<1>14. CASE Erase
  BY <1>14 DEF Erase, TypeOK, Issued, Failing, Failer
<1>15. CASE ReaderEnds
  BY <1>15 DEF ReaderEnds, Leave, TypeOK, Issued, Failing, Failer
<1>16. CASE ReaderSwaps
  BY <1>16 DEF ReaderSwaps, Swap, TypeOK, Issued, Failing, Failer
<1>17. ASSUME NEW f \in Failer, FailOne(f) PROVE Failing'
  BY <1>17 DEF FailOne, TypeOK, Issued, Failing, Failer
<1>18. CASE ReaderGone
  BY <1>18 DEF ReaderGone, TypeOK, Issued, Failing, Failer
<1>19. CASE CloseShutsDown
  BY <1>19 DEF CloseShutsDown, TypeOK, Issued, Failing, Failer
<1>20. CASE CloseSwaps
  BY <1>20 DEF CloseSwaps, Swap, TypeOK, Issued, Failing, Failer
<1>21. CASE CloseFailed
  BY <1>21 DEF CloseFailed, TypeOK, Issued, Failing, Failer
<1>22. CASE CloseReturned
  BY <1>22 DEF CloseReturned, TypeOK, Issued, Failing, Failer
<1>23. CASE UNCHANGED vars
  BY <1>23 DEF vars, TypeOK, Issued, Failing, Failer
<1>. QED
  BY <1>1, <1>2, <1>3, <1>4, <1>5, <1>6, <1>7, <1>8, <1>9, <1>10, <1>11, <1>12,
     <1>13, <1>14, <1>15, <1>16, <1>17, <1>18, <1>19, <1>20, <1>21, <1>22, <1>23
  DEF Next, Call, Read, Close, Failer

\* A call in progress stays owed.
LEMMA OwedStep ==
    ASSUME TypeOK, IdsUnique, ReaderHolds, Failing, CallsOwed, [Next]_vars
    PROVE  CallsOwed'
<1>. USE DEF callVars, linkVars, readVars
<1>1. ASSUME NEW c \in Caller, Check(c) PROVE CallsOwed'
  BY <1>1 DEF Check, TypeOK, IdsUnique, InCall, Issued, ReaderHolds, Failing, Failer, CallsOwed, Owed
<1>2. ASSUME NEW c \in Caller, Register(c) PROVE CallsOwed'
  BY <1>2 DEF Register, TypeOK, IdsUnique, InCall, Issued, ReaderHolds, Failing, Failer, CallsOwed, Owed
<1>3. ASSUME NEW c \in Caller, Send(c) PROVE CallsOwed'
  BY <1>3 DEF Send, TypeOK, IdsUnique, InCall, Issued, ReaderHolds, Failing, Failer, CallsOwed, Owed
<1>4. ASSUME NEW c \in Caller, SendFails(c) PROVE CallsOwed'
  BY <1>4 DEF SendFails, TypeOK, IdsUnique, InCall, Issued, ReaderHolds, Failing, Failer, CallsOwed, Owed
<1>5. ASSUME NEW c \in Caller, Return(c) PROVE CallsOwed'
  BY <1>5 DEF Return, TypeOK, IdsUnique, InCall, Issued, ReaderHolds, Failing, Failer, CallsOwed, Owed
<1>6. ASSUME NEW c \in Caller, WorkerExits(c) PROVE CallsOwed'
  BY <1>6 DEF WorkerExits, TypeOK, IdsUnique, InCall, Issued, ReaderHolds, Failing, Failer, CallsOwed, Owed
<1>7. ASSUME NEW c \in Caller, TimeOut(c) PROVE CallsOwed'
  BY <1>7 DEF TimeOut, TypeOK, IdsUnique, InCall, Issued, ReaderHolds, Failing, Failer, CallsOwed, Owed
<1>8. ASSUME NEW s \in BOOLEAN, NEW m \in BOOLEAN, Answer(s, m)
      PROVE  CallsOwed'
  BY <1>8 DEF Answer, TypeOK, IdsUnique, InCall, Issued, ReaderHolds, Failing, Failer, CallsOwed, Owed
<1>9. CASE Disconnect
  BY <1>9 DEF Disconnect, TypeOK, IdsUnique, InCall, Issued, ReaderHolds, Failing, Failer, CallsOwed, Owed
<1>10. CASE BadFrame
  BY <1>10 DEF BadFrame, Leave, TypeOK, IdsUnique, InCall, Issued, ReaderHolds, Failing, Failer, CallsOwed, Owed
<1>11. CASE CloseBegins
  BY <1>11 DEF CloseBegins, TypeOK, IdsUnique, InCall, Issued, ReaderHolds, Failing, Failer, CallsOwed, Owed
<1>12. CASE Receive
  BY <1>12 DEF Receive, TypeOK, IdsUnique, InCall, Issued, ReaderHolds, Failing, Failer, CallsOwed, Owed
<1>13. CASE Deliver
  BY <1>13 DEF Deliver, TypeOK, IdsUnique, InCall, Issued, ReaderHolds, Failing, Failer, CallsOwed, Owed
<1>14. CASE Erase
  BY <1>14 DEF Erase, TypeOK, IdsUnique, InCall, Issued, ReaderHolds, Failing, Failer, CallsOwed, Owed
<1>15. CASE ReaderEnds
  BY <1>15 DEF ReaderEnds, Leave, TypeOK, IdsUnique, InCall, Issued, ReaderHolds, Failing, Failer, CallsOwed, Owed
<1>16. CASE ReaderSwaps
  BY <1>16 DEF ReaderSwaps, Swap, TypeOK, IdsUnique, InCall, Issued, ReaderHolds, Failing, Failer, CallsOwed, Owed
<1>17. ASSUME NEW f \in Failer, FailOne(f) PROVE CallsOwed'
  BY <1>17 DEF FailOne, TypeOK, IdsUnique, InCall, Issued, ReaderHolds, Failing, Failer, CallsOwed, Owed
<1>18. CASE ReaderGone
  BY <1>18 DEF ReaderGone, TypeOK, IdsUnique, InCall, Issued, ReaderHolds, Failing, Failer, CallsOwed, Owed
<1>19. CASE CloseShutsDown
  BY <1>19 DEF CloseShutsDown, TypeOK, IdsUnique, InCall, Issued, ReaderHolds, Failing, Failer, CallsOwed, Owed
<1>20. CASE CloseSwaps
  BY <1>20 DEF CloseSwaps, Swap, TypeOK, IdsUnique, InCall, Issued, ReaderHolds, Failing, Failer, CallsOwed, Owed
<1>21. CASE CloseFailed
  BY <1>21 DEF CloseFailed, TypeOK, IdsUnique, InCall, Issued, ReaderHolds, Failing, Failer, CallsOwed, Owed
<1>22. CASE CloseReturned
  BY <1>22 DEF CloseReturned, TypeOK, IdsUnique, InCall, Issued, ReaderHolds, Failing, Failer, CallsOwed, Owed
<1>23. CASE UNCHANGED vars
  BY <1>23 DEF vars, TypeOK, IdsUnique, InCall, Issued, ReaderHolds, Failing, Failer, CallsOwed, Owed
<1>. QED
  BY <1>1, <1>2, <1>3, <1>4, <1>5, <1>6, <1>7, <1>8, <1>9, <1>10, <1>11, <1>12,
     <1>13, <1>14, <1>15, <1>16, <1>17, <1>18, <1>19, <1>20, <1>21, <1>22, <1>23
  DEF Next, Call, Read, Close, Failer

\* The table stays live.
LEMMA TableStep ==
    ASSUME TypeOK, IdsUnique, ReaderHolds, TableIsLive, [Next]_vars
    PROVE  TableIsLive'
<1>. USE DEF callVars, linkVars, readVars
<1>1. ASSUME NEW c \in Caller, Check(c) PROVE TableIsLive'
  BY <1>1 DEF Check, TypeOK, IdsUnique, InCall, Issued, ReaderHolds, TableIsLive
<1>2. ASSUME NEW c \in Caller, Register(c) PROVE TableIsLive'
  BY <1>2 DEF Register, TypeOK, IdsUnique, InCall, Issued, ReaderHolds, TableIsLive
<1>3. ASSUME NEW c \in Caller, Send(c) PROVE TableIsLive'
  BY <1>3 DEF Send, TypeOK, IdsUnique, InCall, Issued, ReaderHolds, TableIsLive
<1>4. ASSUME NEW c \in Caller, SendFails(c) PROVE TableIsLive'
  BY <1>4 DEF SendFails, TypeOK, IdsUnique, InCall, Issued, ReaderHolds, TableIsLive
<1>5. ASSUME NEW c \in Caller, Return(c) PROVE TableIsLive'
  BY <1>5 DEF Return, TypeOK, IdsUnique, InCall, Issued, ReaderHolds, TableIsLive
<1>6. ASSUME NEW c \in Caller, WorkerExits(c) PROVE TableIsLive'
  BY <1>6 DEF WorkerExits, TypeOK, IdsUnique, InCall, Issued, ReaderHolds, TableIsLive
<1>7. ASSUME NEW c \in Caller, TimeOut(c) PROVE TableIsLive'
  BY <1>7 DEF TimeOut, TypeOK, IdsUnique, InCall, Issued, ReaderHolds, TableIsLive
<1>8. ASSUME NEW s \in BOOLEAN, NEW m \in BOOLEAN, Answer(s, m)
      PROVE  TableIsLive'
  BY <1>8 DEF Answer, TypeOK, IdsUnique, InCall, Issued, ReaderHolds, TableIsLive
<1>9. CASE Disconnect
  BY <1>9 DEF Disconnect, TypeOK, IdsUnique, InCall, Issued, ReaderHolds, TableIsLive
<1>10. CASE BadFrame
  BY <1>10 DEF BadFrame, Leave, TypeOK, IdsUnique, InCall, Issued, ReaderHolds, TableIsLive
<1>11. CASE CloseBegins
  BY <1>11 DEF CloseBegins, TypeOK, IdsUnique, InCall, Issued, ReaderHolds, TableIsLive
<1>12. CASE Receive
  BY <1>12 DEF Receive, TypeOK, IdsUnique, InCall, Issued, ReaderHolds, TableIsLive
<1>13. CASE Deliver
  BY <1>13 DEF Deliver, TypeOK, IdsUnique, InCall, Issued, ReaderHolds, TableIsLive
<1>14. CASE Erase
  BY <1>14 DEF Erase, TypeOK, IdsUnique, InCall, Issued, ReaderHolds, TableIsLive
<1>15. CASE ReaderEnds
  BY <1>15 DEF ReaderEnds, Leave, TypeOK, IdsUnique, InCall, Issued, ReaderHolds, TableIsLive
<1>16. CASE ReaderSwaps
  BY <1>16 DEF ReaderSwaps, Swap, TypeOK, IdsUnique, InCall, Issued, ReaderHolds, TableIsLive
<1>17. ASSUME NEW f \in Failer, FailOne(f) PROVE TableIsLive'
  BY <1>17 DEF FailOne, TypeOK, IdsUnique, InCall, Issued, ReaderHolds, TableIsLive
<1>18. CASE ReaderGone
  BY <1>18 DEF ReaderGone, TypeOK, IdsUnique, InCall, Issued, ReaderHolds, TableIsLive
<1>19. CASE CloseShutsDown
  BY <1>19 DEF CloseShutsDown, TypeOK, IdsUnique, InCall, Issued, ReaderHolds, TableIsLive
<1>20. CASE CloseSwaps
  BY <1>20 DEF CloseSwaps, Swap, TypeOK, IdsUnique, InCall, Issued, ReaderHolds, TableIsLive
<1>21. CASE CloseFailed
  BY <1>21 DEF CloseFailed, TypeOK, IdsUnique, InCall, Issued, ReaderHolds, TableIsLive
<1>22. CASE CloseReturned
  BY <1>22 DEF CloseReturned, TypeOK, IdsUnique, InCall, Issued, ReaderHolds, TableIsLive
<1>23. CASE UNCHANGED vars
  BY <1>23 DEF vars, TypeOK, IdsUnique, InCall, Issued, ReaderHolds, TableIsLive
<1>. QED
  BY <1>1, <1>2, <1>3, <1>4, <1>5, <1>6, <1>7, <1>8, <1>9, <1>10, <1>11, <1>12,
     <1>13, <1>14, <1>15, <1>16, <1>17, <1>18, <1>19, <1>20, <1>21, <1>22, <1>23
  DEF Next, Call, Read, Close, Failer

\* No caller starts to wait behind the second fail_all_pending.
LEMMA ReleasedStep ==
    ASSUME TypeOK, IdsUnique, ReaderHolds, Failing, CallsOwed, Released, [Next]_vars
    PROVE  Released'
<1>. USE DEF callVars, linkVars, readVars
<1>1. ASSUME NEW c \in Caller, Check(c) PROVE Released'
  BY <1>1 DEF Check, TypeOK, InCall, Failing, Failer, CallsOwed, Owed, Released
<1>2. ASSUME NEW c \in Caller, Register(c) PROVE Released'
  BY <1>2 DEF Register, TypeOK, InCall, Failing, Failer, CallsOwed, Owed, Released
<1>3. ASSUME NEW c \in Caller, Send(c) PROVE Released'
  BY <1>3 DEF Send, TypeOK, InCall, Failing, Failer, CallsOwed, Owed, Released
<1>4. ASSUME NEW c \in Caller, SendFails(c) PROVE Released'
  BY <1>4 DEF SendFails, TypeOK, InCall, Failing, Failer, CallsOwed, Owed, Released
<1>5. ASSUME NEW c \in Caller, Return(c) PROVE Released'
  BY <1>5 DEF Return, TypeOK, InCall, Failing, Failer, CallsOwed, Owed, Released
<1>6. ASSUME NEW c \in Caller, WorkerExits(c) PROVE Released'
  BY <1>6 DEF WorkerExits, TypeOK, InCall, Failing, Failer, CallsOwed, Owed, Released
<1>7. ASSUME NEW c \in Caller, TimeOut(c) PROVE Released'
  BY <1>7 DEF TimeOut, TypeOK, InCall, Failing, Failer, CallsOwed, Owed, Released
<1>8. ASSUME NEW s \in BOOLEAN, NEW m \in BOOLEAN, Answer(s, m)
      PROVE  Released'
  BY <1>8 DEF Answer, TypeOK, InCall, Failing, Failer, CallsOwed, Owed, Released
<1>9. CASE Disconnect
  BY <1>9 DEF Disconnect, TypeOK, InCall, Failing, Failer, CallsOwed, Owed, Released
<1>10. CASE BadFrame
  BY <1>10 DEF BadFrame, Leave, TypeOK, InCall, Failing, Failer, CallsOwed, Owed, Released
<1>11. CASE CloseBegins
  BY <1>11 DEF CloseBegins, TypeOK, InCall, Failing, Failer, CallsOwed, Owed, Released
<1>12. CASE Receive
  BY <1>12 DEF Receive, TypeOK, InCall, Failing, Failer, CallsOwed, Owed, Released
<1>13. CASE Deliver
  BY <1>13 DEF Deliver, TypeOK, InCall, Failing, Failer, CallsOwed, Owed, Released
<1>14. CASE Erase
  BY <1>14 DEF Erase, TypeOK, InCall, Failing, Failer, CallsOwed, Owed, Released
<1>15. CASE ReaderEnds
  BY <1>15 DEF ReaderEnds, Leave, TypeOK, InCall, Failing, Failer, CallsOwed, Owed, Released
<1>16. CASE ReaderSwaps
  BY <1>16 DEF ReaderSwaps, Swap, TypeOK, InCall, Failing, Failer, CallsOwed, Owed, Released
<1>17. ASSUME NEW f \in Failer, FailOne(f) PROVE Released'
  BY <1>17 DEF FailOne, TypeOK, InCall, Failing, Failer, CallsOwed, Owed, Released
<1>18. CASE ReaderGone
  BY <1>18 DEF ReaderGone, TypeOK, InCall, Failing, Failer, CallsOwed, Owed, Released
<1>19. CASE CloseShutsDown
  BY <1>19 DEF CloseShutsDown, TypeOK, InCall, Failing, Failer, CallsOwed, Owed, Released
<1>20. CASE CloseSwaps
  BY <1>20 DEF CloseSwaps, Swap, TypeOK, InCall, Failing, Failer, CallsOwed, Owed, Released
<1>21. CASE CloseFailed
  BY <1>21 DEF CloseFailed, TypeOK, InCall, Failing, Failer, CallsOwed, Owed, Released
<1>22. CASE CloseReturned
  BY <1>22 DEF CloseReturned, TypeOK, InCall, Failing, Failer, CallsOwed, Owed, Released
<1>23. CASE UNCHANGED vars
  BY <1>23 DEF vars, TypeOK, InCall, Failing, Failer, CallsOwed, Owed, Released
<1>. QED
  BY <1>1, <1>2, <1>3, <1>4, <1>5, <1>6, <1>7, <1>8, <1>9, <1>10, <1>11, <1>12,
     <1>13, <1>14, <1>15, <1>16, <1>17, <1>18, <1>19, <1>20, <1>21, <1>22, <1>23
  DEF Next, Call, Read, Close, Failer

\* The invariant holds initially.
LEMMA IInvInit == ASSUME Init PROVE IInv
<1>1. TypeOK
  <2>1. /\ closed \in BOOLEAN /\ held \in Frame
        /\ failing \in [Failer -> SUBSET Nat]
    BY DEF Init, Frame, NoFrame, Failer
  <2>2. /\ pc \in [Caller -> {"idle", "checked", "registered", "waiting", "gone"}]
        /\ id \in [Caller -> Nat]
        /\ asked \in Seq(Nat) /\ frames \in Seq(Frame)
    BY DEF Init
  <2>. QED BY <2>1, <2>2 DEF Init, TypeOK
<1>2. IdsUnique /\ CallsOwed /\ TableIsLive /\ Released
  BY DEF Init, IdsUnique, CallsOwed, TableIsLive, Released, InCall
<1>3. ReaderHolds
  BY DEF Init, ReaderHolds, NoFrame
<1>4. Failing
  BY DEF Init, Failing, Failer
<1>. QED BY <1>1, <1>2, <1>3, <1>4 DEF IInv

\* The invariant behind the three properties holds in every reachable state.
THEOREM RequestInvariant == Spec => []IInv
<1>1. Init => IInv
  BY IInvInit
<1>2. IInv /\ [Next]_vars => IInv'
  BY TypeStep, IdsStep, HoldsStep, FailingStep, OwedStep, TableStep,
     ReleasedStep DEF IInv
<1>. QED BY <1>1, <1>2, PTL DEF Spec

\* No wake-up is lost between request, reader_loop and fail_all_pending.
THEOREM NoLostWakeUp == Spec => []WaitersAreOwed
<1>1. IInv => WaitersAreOwed
  BY DEF IInv, CallsOwed, Owed, InCall, WaitersAreOwed
<1>. QED BY <1>1, RequestInvariant, PTL

\* No entry of the request table outlives its call.
THEOREM NoTableLeak == Spec => []TableIsLive
<1>1. IInv => TableIsLive
  BY DEF IInv
<1>. QED BY <1>1, RequestInvariant, PTL

\* Past its fail_all_pending, close() leaves no caller waiting.
THEOREM CloseReleasesAll == Spec => []ClosedReleasesAll
<1>1. IInv => ClosedReleasesAll
  BY DEF IInv, Released, Failing, ClosedReleasesAll
<1>. QED BY <1>1, RequestInvariant, PTL
=============================================================================
