--------------------------- MODULE Shutdown_proofs ---------------------------
(***************************************************************************)
(* Proofs about module Shutdown, for any number of worker threads, of      *)
(* threads that call shutdown() and of signals.                            *)
(***************************************************************************)
EXTENDS Shutdown, FiniteSetTheorems, TLAPS

USE DEF Frames, Initiators

-----------------------------------------------------------------------------
(* Every variable keeps its type.                                          *)

\* The initial state is well typed.
LEMMA InitType == Init => TypeOK
<1> SUFFICES ASSUME Init PROVE TypeOK
  OBVIOUS
<1>1. /\ pc \in [Frames -> WorkerLabels \cup CallerLabels \cup {"idle"}]
      /\ \A w \in Workers : pc[w] \in WorkerLabels
      /\ \A c \in Callers : pc[c] \in CallerLabels
      /\ pc[Signal] \in InitLabels \cup {"idle"}
  BY FramesAssumption DEF Init, WorkerLabels, CallerLabels
<1>2. elapsed \in [Callers -> 0..DrainTimeout]
  BY BoundsAssumption DEF Init
<1>3. /\ lock \in Frames \cup {NoFrame}
      /\ active \in Int /\ completed \in Nat /\ rejected \in Nat
      /\ signals \in Nat
      /\ data \in SUBSET Workers /\ late \in SUBSET Workers
  BY DEF Init
<1>4. /\ drained \in [Callers -> {"none", "yes", "no"}]
      /\ snap \in [Callers -> SUBSET Workers]
  BY DEF Init
<1>5. /\ health \in [state : States, accepting : BOOLEAN]
      /\ disk \in [whole : BOOLEAN, data : SUBSET Workers]
  BY DEF Init, States
<1>6. event \in BOOLEAN
  BY DEF Init
<1>7. QED
  BY <1>1, <1>2, <1>3, <1>4, <1>5, <1>6 DEF TypeOK

\* Each step of any frame keeps the types (the variables of shutdown.py).
LEMMA TypeStep == TypeOK /\ [Next]_vars => TypeOK'
<1> SUFFICES ASSUME TypeOK, [Next]_vars PROVE TypeOK'
  OBVIOUS
<1> USE FramesAssumption, BoundsAssumption DEF TypeOK, At, Goto, Section,
      tracker, waiting, session
<1>1. ASSUME NEW f \in Frames, Take(f) PROVE TypeOK'
  BY <1>1 DEF Take
<1>2. ASSUME NEW w \in Workers, Test(w) PROVE TypeOK'
  BY <1>2 DEF Test, WorkerLabels
<1>3. ASSUME NEW w \in Workers, Acquire(w) PROVE TypeOK'
  BY <1>3 DEF Acquire, WorkerLabels
<1>4. ASSUME NEW w \in Workers, Reject(w) PROVE TypeOK'
  BY <1>4 DEF Reject, WorkerLabels
<1>5. ASSUME NEW w \in Workers, SetState(w) PROVE TypeOK'
  BY <1>5 DEF SetState
<1>6. ASSUME NEW w \in Workers, Finish(w) PROVE TypeOK'
  BY <1>6 DEF Finish, WorkerLabels
<1>7. ASSUME NEW w \in Workers, Release(w) PROVE TypeOK'
  BY <1>7 DEF Release, WorkerLabels
<1>8. CASE Receive
  BY <1>8 DEF Receive, WorkerLabels, CallerLabels, InitLabels
<1>9. ASSUME NEW c \in Callers, CallShutdown(c) PROVE TypeOK'
  BY <1>9 DEF CallShutdown, CallerLabels, InitLabels
<1>10. ASSUME NEW i \in Initiators, CheckEvent(i) PROVE TypeOK'
  BY <1>10 DEF CheckEvent, AfterInitiate, CallerLabels, InitLabels
<1>11. ASSUME NEW i \in Initiators, SetEvent(i) PROVE TypeOK'
  BY <1>11 DEF SetEvent, CallerLabels, InitLabels
<1>12. ASSUME NEW i \in Initiators, Announce(i) PROVE TypeOK'
  BY <1>12 DEF States, Announce, CallerLabels, InitLabels
<1>13. ASSUME NEW i \in Initiators, Count(i) PROVE TypeOK'
  BY <1>13 DEF Count, CallerLabels, InitLabels
<1>14. ASSUME NEW i \in Initiators, OnShutdown(i) PROVE TypeOK'
  BY <1>14 DEF OnShutdown, AfterInitiate, CallerLabels, InitLabels
<1>15. ASSUME NEW c \in Callers, Poll(c) PROVE TypeOK'
  BY <1>15 DEF Poll, CallerLabels
<1>16. ASSUME NEW c \in Callers, Sleep(c) PROVE TypeOK'
  BY <1>16 DEF Sleep, CallerLabels
<1>17. ASSUME NEW c \in Callers, OnDrained(c) PROVE TypeOK'
  BY <1>17 DEF OnDrained, CallerLabels
<1>18. ASSUME NEW c \in Callers, PersistState(c) PROVE TypeOK'
  BY <1>18 DEF States, PersistState, CallerLabels
<1>19. ASSUME NEW c \in Callers, OpenFile(c) PROVE TypeOK'
  BY <1>19 DEF OpenFile, CallerLabels
<1>20. ASSUME NEW c \in Callers, WriteFile(c) PROVE TypeOK'
  <2>1. disk' \in [whole : BOOLEAN, data : SUBSET Workers]
    <3>1. PICK b \in BOOLEAN, d \in SUBSET Workers :
              disk' = disk \/ disk' = [whole |-> b, data |-> d]
      BY <1>20 DEF WriteFile
    <3>2. QED
      BY <3>1
  <2>2. snap' \in [Callers -> SUBSET Workers]
    BY <1>20 DEF WriteFile
  <2>3. PICK label \in {"stop", "failed"} : Goto(c, label)
    BY <1>20 DEF WriteFile
  <2>4. QED
    BY <1>20, <2>1, <2>2, <2>3 DEF WriteFile, CallerLabels
<1>21. ASSUME NEW c \in Callers, Stop(c) PROVE TypeOK'
  BY <1>21 DEF States, Stop, CallerLabels
<1>22. ASSUME NEW c \in Callers, Report(c) PROVE TypeOK'
  BY <1>22 DEF Report, CallerLabels
<1>23. CASE UNCHANGED vars
  BY <1>23 DEF vars
<1>24. QED
  BY <1>1, <1>2, <1>3, <1>4, <1>5, <1>6, <1>7, <1>8, <1>9, <1>10, <1>11,
     <1>12, <1>13, <1>14, <1>15, <1>16, <1>17, <1>18, <1>19, <1>20, <1>21,
     <1>22, <1>23 DEF Next, ShutdownStep, InitiateStep

\* The state of the shutdown machinery is well typed in every execution.
THEOREM TypeCorrect == Spec => []TypeOK
<1>1. QED
  BY InitType, TypeStep, PTL DEF Spec

-----------------------------------------------------------------------------
(* The tracker's counters.                                                 *)

LEMMA InitAccounting == Init => Accounting
<1> SUFFICES ASSUME Init PROVE Accounting
  OBVIOUS
<1>1. InFlight = {} /\ Served = {} /\ Refused = {}
  BY DEF Init, InFlight, Served, Refused
<1>2. QED
  BY <1>1, FS_EmptySet DEF Init, Accounting

\* A step that leaves every worker and the tracker alone.
LEMMA AccountingStutter ==
  ASSUME Accounting, \A w \in Workers : pc'[w] = pc[w], UNCHANGED tracker
  PROVE  Accounting'
<1>1. InFlight' = InFlight /\ Served' = Served /\ Refused' = Refused
  BY DEF InFlight, Served, Refused
<1>2. QED
  BY <1>1 DEF Accounting, tracker

\* A step of a frame that is not a worker leaves every worker where it is.
LEMMA OtherFrames ==
  ASSUME TypeOK, NEW i \in Initiators, NEW label, Goto(i, label)
  PROVE  \A w \in Workers : pc'[w] = pc[w]
  BY FramesAssumption DEF TypeOK, Goto

LEMMA InitiateMovesOneFrame ==
  ASSUME TypeOK, NEW i \in Initiators, InitiateStep(i)
  PROVE  (\A w \in Workers : pc'[w] = pc[w]) /\ UNCHANGED tracker
<1>1. UNCHANGED tracker /\ \E label : Goto(i, label)
  BY DEF InitiateStep, CheckEvent, SetEvent, Announce, Count, OnShutdown,
         tracker
<1>2. QED
  BY <1>1, OtherFrames

LEMMA ShutdownMovesOneFrame ==
  ASSUME TypeOK, NEW c \in Callers, ShutdownStep(c)
  PROVE  (\A w \in Workers : pc'[w] = pc[w]) /\ UNCHANGED tracker
<1>1. UNCHANGED tracker /\ \E label : Goto(c, label)
  BY DEF ShutdownStep, Poll, Sleep, OnDrained, PersistState, OpenFile,
         WriteFile, Stop, Report, tracker
<1>2. QED
  BY <1>1, OtherFrames

\* Every step keeps the counters equal to the number of requests they count.
LEMMA AccountingStep == TypeOK /\ Accounting /\ [Next]_vars => Accounting'
<1> SUFFICES ASSUME TypeOK, Accounting, [Next]_vars PROVE Accounting'
  OBVIOUS
<1> USE FramesAssumption
<1>0. IsFiniteSet(InFlight) /\ IsFiniteSet(Served) /\ IsFiniteSet(Refused)
  BY FS_Subset DEF InFlight, Served, Refused
<1>1. ASSUME NEW f \in Frames, Take(f) PROVE Accounting'
  BY <1>1, AccountingStutter DEF Take
<1>2. ASSUME NEW w \in Workers, Test(w) PROVE Accounting'
  <2>1. InFlight' = InFlight /\ Served' = Served /\ Refused' = Refused
    BY <1>2 DEF Test, At, Goto, TypeOK, InFlight, Served, Refused
  <2>2. QED
    BY <1>2, <2>1 DEF Test, Accounting, tracker
<1>3. ASSUME NEW w \in Workers, Acquire(w) PROVE Accounting'
  <2>1. /\ w \notin InFlight /\ InFlight' = InFlight \cup {w}
        /\ Served' = Served /\ Refused' = Refused
    BY <1>3 DEF Acquire, Section, At, Goto, TypeOK, InFlight, Served, Refused
  <2>2. Cardinality(InFlight') = Cardinality(InFlight) + 1
    BY <2>1, <1>0, FS_AddElement
  <2>3. QED
    BY <1>3, <2>1, <2>2 DEF Acquire, Accounting
<1>4. ASSUME NEW w \in Workers, Reject(w) PROVE Accounting'
  <2>1. /\ w \notin Refused /\ Refused' = Refused \cup {w}
        /\ Served' = Served /\ InFlight' = InFlight
    BY <1>4 DEF Reject, Section, At, Goto, TypeOK, InFlight, Served, Refused
  <2>2. Cardinality(Refused') = Cardinality(Refused) + 1
    BY <2>1, <1>0, FS_AddElement
  <2>3. QED
    BY <1>4, <2>1, <2>2 DEF Reject, Accounting
<1>5. ASSUME NEW w \in Workers, SetState(w) PROVE Accounting'
  BY <1>5, AccountingStutter DEF SetState
<1>6. ASSUME NEW w \in Workers, Finish(w) PROVE Accounting'
  <2>1. InFlight' = InFlight /\ Served' = Served /\ Refused' = Refused
    BY <1>6 DEF Finish, At, Goto, TypeOK, InFlight, Served, Refused
  <2>2. QED
    BY <1>6, <2>1 DEF Finish, Accounting, tracker
<1>7. ASSUME NEW w \in Workers, Release(w) PROVE Accounting'
  <2>1. /\ w \in InFlight /\ InFlight' = InFlight \ {w}
        /\ w \notin Served /\ Served' = Served \cup {w}
        /\ Refused' = Refused
    BY <1>7 DEF Release, Section, At, Goto, TypeOK, InFlight, Served, Refused
  <2>2. Cardinality(InFlight') = Cardinality(InFlight) - 1
    BY <2>1, <1>0, FS_RemoveElement
  <2>3. Cardinality(Served') = Cardinality(Served) + 1
    BY <2>1, <1>0, FS_AddElement
  <2>4. QED
    BY <1>7, <2>1, <2>2, <2>3 DEF Release, Accounting
<1>8. CASE Receive
  BY <1>8, OtherFrames, AccountingStutter DEF Receive
<1>9. ASSUME NEW c \in Callers, CallShutdown(c) PROVE Accounting'
  BY <1>9, OtherFrames, AccountingStutter DEF CallShutdown
<1>10. ASSUME NEW i \in Initiators, InitiateStep(i) PROVE Accounting'
  BY <1>10, InitiateMovesOneFrame, AccountingStutter
<1>11. ASSUME NEW c \in Callers, ShutdownStep(c) PROVE Accounting'
  BY <1>11, ShutdownMovesOneFrame, AccountingStutter
<1>12. CASE UNCHANGED vars
  BY <1>12, AccountingStutter DEF vars
<1>13. QED
  BY <1>1, <1>2, <1>3, <1>4, <1>5, <1>6, <1>7, <1>8, <1>9, <1>10, <1>11,
     <1>12 DEF Next

\* The tracker's counters are exact in every execution.
THEOREM AccountingCorrect == Spec => []Accounting
<1>1. Init => TypeOK /\ Accounting
  BY InitType, InitAccounting
<1>2. TypeOK /\ Accounting /\ [Next]_vars => (TypeOK /\ Accounting)'
  BY TypeStep, AccountingStep
<1>3. QED
  BY <1>1, <1>2, PTL DEF Spec

-----------------------------------------------------------------------------
(* What a drain's verdict means.                                           *)

\* The event comes first: strengthens DrainedOnlyLate and the refinement.
LEMMA DrainOrderStep == TypeOK /\ DrainOrder /\ [Next]_vars => DrainOrder'
<1> SUFFICES ASSUME TypeOK, DrainOrder, [Next]_vars PROVE DrainOrder'
  OBVIOUS
<1> USE FramesAssumption DEF DrainOrder, TypeOK, Goto
<1>1. ASSUME NEW f \in Frames, Take(f) PROVE DrainOrder'
  BY <1>1 DEF Take, waiting
<1>2. ASSUME NEW w \in Workers,
             Test(w) \/ Acquire(w) \/ Reject(w) \/ SetState(w) \/ Finish(w)
               \/ Release(w)
      PROVE  DrainOrder'
  <2>1. \A i \in Initiators : pc'[i] = pc[i]
    BY <1>2 DEF Test, Acquire, Reject, SetState, Finish, Release
  <2>2. UNCHANGED <<event, drained>>
    BY <1>2 DEF Test, Acquire, Reject, SetState, Finish, Release, waiting
  <2>3. QED
    BY <2>1, <2>2
<1>3. CASE Receive
  BY <1>3 DEF Receive, waiting
<1>4. ASSUME NEW c \in Callers, CallShutdown(c) PROVE DrainOrder'
  BY <1>4 DEF CallShutdown, At, waiting, InitLabels
<1>5. ASSUME NEW i \in Initiators, InitiateStep(i) PROVE DrainOrder'
  <2>1. CASE CheckEvent(i)
    BY <2>1 DEF CheckEvent, At, AfterInitiate, waiting, InitLabels
  <2>2. CASE SetEvent(i)
    BY <2>2 DEF SetEvent, At, waiting, InitLabels
  <2>3. CASE Announce(i)
    BY <2>3 DEF Announce, At, waiting, InitLabels
  <2>4. CASE Count(i)
    BY <2>4 DEF Count, Section, At, waiting, InitLabels
  <2>5. CASE OnShutdown(i)
    BY <2>5 DEF OnShutdown, At, AfterInitiate, waiting, InitLabels
  <2>6. QED
    BY <1>5, <2>1, <2>2, <2>3, <2>4, <2>5 DEF InitiateStep
<1>6. ASSUME NEW c \in Callers, ShutdownStep(c) PROVE DrainOrder'
  <2>1. CASE Poll(c)
    BY <2>1 DEF Poll, Section, At, InitLabels
  <2>2. CASE Sleep(c)
    BY <2>2 DEF Sleep, At, InitLabels
  <2>3. CASE OnDrained(c)
    BY <2>3 DEF OnDrained, waiting, InitLabels
  <2>4. CASE PersistState(c)
    BY <2>4 DEF PersistState, waiting, InitLabels
  <2>5. CASE OpenFile(c)
    BY <2>5 DEF OpenFile, waiting, InitLabels
  <2>6. CASE WriteFile(c)
    BY <2>6 DEF WriteFile, waiting, InitLabels
  <2>7. CASE Stop(c)
    BY <2>7 DEF Stop, waiting, InitLabels
  <2>8. CASE Report(c)
    BY <2>8 DEF Report, Section, waiting, InitLabels
  <2>9. QED
    BY <1>6, <2>1, <2>2, <2>3, <2>4, <2>5, <2>6, <2>7, <2>8 DEF ShutdownStep
<1>7. CASE UNCHANGED vars
  BY <1>7 DEF vars, waiting
<1>8. QED
  BY <1>1, <1>2, <1>3, <1>4, <1>5, <1>6, <1>7 DEF Next

\* A request still in flight after a "drained" verdict is a late one.
LEMMA DrainedStep ==
  TypeOK /\ Accounting /\ DrainOrder /\ DrainedOnlyLate /\ [Next]_vars
    => DrainedOnlyLate'
<1> SUFFICES ASSUME TypeOK, Accounting, DrainOrder, DrainedOnlyLate,
                    [Next]_vars
             PROVE  DrainedOnlyLate'
  OBVIOUS
<1> USE FramesAssumption DEF DrainedOnlyLate, InFlight, TypeOK, Goto
<1>1. ASSUME NEW f \in Frames, Take(f) PROVE DrainedOnlyLate'
  BY <1>1 DEF Take, waiting
<1>2. ASSUME NEW w \in Workers,
             Test(w) \/ Reject(w) \/ SetState(w) \/ Finish(w) \/ Release(w)
      PROVE  DrainedOnlyLate'
  <2>1. InFlight' \subseteq InFlight
    BY <1>2 DEF Test, Reject, SetState, Finish, Release, At, Section
  <2>2. UNCHANGED <<late, drained>>
    BY <1>2 DEF Test, Reject, SetState, Finish, Release, waiting
  <2>3. QED
    BY <2>1, <2>2
<1>3. ASSUME NEW w \in Workers, Acquire(w) PROVE DrainedOnlyLate'
  <2>1. ASSUME NEW c \in Callers, drained'[c] = "yes"
        PROVE  InFlight' \subseteq late'
    <3>1. drained[c] = "yes" /\ event
      BY <1>3, <2>1 DEF Acquire, waiting, DrainOrder
    <3>2. InFlight' \subseteq InFlight \cup {w} /\ late' = late \cup {w}
      BY <1>3, <3>1 DEF Acquire
    <3>3. QED
      BY <3>1, <3>2
  <2>2. QED
    BY <2>1
<1>4. CASE Receive
  BY <1>4 DEF Receive, waiting
<1>5. ASSUME NEW c \in Callers, CallShutdown(c) PROVE DrainedOnlyLate'
  BY <1>5 DEF CallShutdown, waiting
<1>6. ASSUME NEW i \in Initiators, InitiateStep(i) PROVE DrainedOnlyLate'
  <2>1. InFlight' = InFlight
    BY <1>6, InitiateMovesOneFrame
  <2>2. UNCHANGED <<late, drained>>
    BY <1>6 DEF InitiateStep, CheckEvent, SetEvent, Announce, Count,
                OnShutdown, waiting
  <2>3. QED
    BY <2>1, <2>2
<1>7. ASSUME NEW c \in Callers, ShutdownStep(c) PROVE DrainedOnlyLate'
  <2>1. InFlight' = InFlight
    BY <1>7, ShutdownMovesOneFrame
  <2>2. CASE Poll(c)
    <3>1. active <= 0 => InFlight = {}
      <4>1. IsFiniteSet(InFlight)
        BY FS_Subset DEF InFlight
      <4>2. Cardinality(InFlight) \in Nat
        BY <4>1, FS_CardinalityType
      <4>3. active <= 0 => Cardinality(InFlight) = 0
        BY <4>2 DEF Accounting
      <4>4. Cardinality(InFlight) = 0 => InFlight = {}
        BY <4>1, FS_EmptySet
      <4>5. QED
        BY <4>3, <4>4
    <3>2. QED
      BY <2>1, <2>2, <3>1 DEF Poll
  <2>3. CASE ~Poll(c)
    <3>1. UNCHANGED <<late, drained>>
      BY <1>7, <2>3 DEF ShutdownStep, Sleep, OnDrained, PersistState,
                        OpenFile, WriteFile, Stop, Report, waiting
    <3>2. QED
      BY <2>1, <3>1
  <2>4. QED
    BY <2>2, <2>3
<1>8. CASE UNCHANGED vars
  BY <1>8 DEF vars, waiting
<1>9. QED
  BY <1>1, <1>2, <1>3, <1>4, <1>5, <1>6, <1>7, <1>8 DEF Next

\* The inductive invariant of the shutdown machinery.
IInv == TypeOK /\ Accounting /\ DrainOrder /\ DrainedOnlyLate

LEMMA InitIInv == Init => IInv
<1>1. Init => DrainOrder /\ DrainedOnlyLate
  BY FramesAssumption DEF Init, DrainOrder, DrainedOnlyLate, InitLabels
<1>2. QED
  BY <1>1, InitType, InitAccounting DEF IInv

LEMMA StepIInv == IInv /\ [Next]_vars => IInv'
  BY TypeStep, AccountingStep, DrainOrderStep, DrainedStep DEF IInv

\* wait_for_drain's "True" leaves only late requests, in every execution.
THEOREM DrainedCorrect == Spec => []DrainedOnlyLate
<1>1. IInv => DrainedOnlyLate
  BY DEF IInv
<1>2. QED
  BY <1>1, InitIInv, StepIInv, PTL DEF Spec

-----------------------------------------------------------------------------
(* Shutdown implements the gate of module Drain.                           *)

LEMMA GateInit == Init => Gate!Init
  BY FramesAssumption DEF Init, Gate!Init, Pending, InFlight

\* A step that the gate cannot see.
LEMMA GateStutter ==
  ASSUME UNCHANGED <<event, late, drained>>, \A w \in Workers : pc'[w] = pc[w]
  PROVE  UNCHANGED Gate!vars
  BY DEF Gate!vars, Pending, InFlight

\* Every step is a step of the gate or leaves it alone.
LEMMA GateStep == IInv /\ [Next]_vars => [Gate!Next]_(Gate!vars)
<1> SUFFICES ASSUME IInv, [Next]_vars
             PROVE  Gate!Next \/ UNCHANGED Gate!vars
  OBVIOUS
<1> USE FramesAssumption
<1>0. TypeOK /\ DrainOrder /\ Accounting
  BY DEF IInv
<1>1. ASSUME NEW f \in Frames, Take(f) PROVE UNCHANGED Gate!vars
  BY <1>1, GateStutter DEF Take, waiting
<1>2. ASSUME NEW w \in Workers, Test(w)
      PROVE  Gate!Next \/ UNCHANGED Gate!vars
  <2>1. InFlight' = InFlight /\ UNCHANGED <<event, late, drained>>
    BY <1>0, <1>2 DEF Test, At, Goto, TypeOK, InFlight, waiting
  <2>2. CASE event
    <3>1. Pending' = Pending
      BY <1>0, <1>2, <2>2 DEF Test, At, Goto, TypeOK, Pending
    <3>2. QED
      BY <2>1, <3>1 DEF Gate!vars
  <2>3. CASE ~event
    <3>1. Pending' = Pending \cup {w}
      BY <1>0, <1>2, <2>3 DEF Test, At, Goto, TypeOK, Pending
    <3>2. Gate!Admit(w)
      BY <2>1, <2>3, <3>1 DEF Gate!Admit
    <3>3. QED
      BY <3>2 DEF Gate!Next
  <2>4. QED
    BY <2>2, <2>3
<1>3. ASSUME NEW w \in Workers, Acquire(w) PROVE Gate!Next
  <2>1. /\ w \in Pending /\ Pending' = Pending \ {w}
        /\ InFlight' = InFlight \cup {w}
    BY <1>0, <1>3 DEF Acquire, Section, At, Goto, TypeOK, Pending, InFlight
  <2>2. /\ late' = IF ~event THEN late ELSE late \cup {w}
        /\ UNCHANGED <<event, drained>>
    BY <1>3 DEF Acquire, waiting
  <2>3. Gate!Enter(w)
    BY <2>1, <2>2 DEF Gate!Enter
  <2>4. QED
    BY <2>3 DEF Gate!Next
<1>4. ASSUME NEW w \in Workers, Reject(w) \/ SetState(w) \/ Finish(w)
      PROVE  UNCHANGED Gate!vars
  <2>1. InFlight' = InFlight /\ Pending' = Pending
    BY <1>0, <1>4 DEF Reject, SetState, Finish, Section, At, Goto, TypeOK,
                      Pending, InFlight
  <2>2. UNCHANGED <<event, late, drained>>
    BY <1>4 DEF Reject, SetState, Finish, waiting
  <2>3. QED
    BY <2>1, <2>2 DEF Gate!vars
<1>5. ASSUME NEW w \in Workers, Release(w) PROVE Gate!Next
  <2>1. /\ w \in InFlight /\ InFlight' = InFlight \ {w}
        /\ Pending' = Pending
    BY <1>0, <1>5 DEF Release, Section, At, Goto, TypeOK, Pending, InFlight
  <2>2. UNCHANGED <<event, late, drained>>
    BY <1>5 DEF Release, waiting
  <2>3. Gate!Leave(w)
    BY <2>1, <2>2 DEF Gate!Leave
  <2>4. QED
    BY <2>3 DEF Gate!Next
<1>6. CASE Receive
  <2>1. \A w \in Workers : pc'[w] = pc[w]
    BY <1>0, <1>6, OtherFrames DEF Receive
  <2>2. QED
    BY <1>6, <2>1, GateStutter DEF Receive, waiting
<1>7. ASSUME NEW c \in Callers, CallShutdown(c) PROVE UNCHANGED Gate!vars
  <2>1. \A w \in Workers : pc'[w] = pc[w]
    BY <1>0, <1>7, OtherFrames DEF CallShutdown
  <2>2. QED
    BY <1>7, <2>1, GateStutter DEF CallShutdown, waiting
<1>8. ASSUME NEW i \in Initiators, InitiateStep(i)
      PROVE  Gate!Next \/ UNCHANGED Gate!vars
  <2>1. InFlight' = InFlight /\ Pending' = Pending
    BY <1>0, <1>8, InitiateMovesOneFrame DEF InFlight, Pending
  <2>2. UNCHANGED <<late, drained>>
    BY <1>8 DEF InitiateStep, CheckEvent, SetEvent, Announce, Count,
                OnShutdown, waiting
  <2>3. event' = event \/ event' = TRUE
    BY <1>8 DEF InitiateStep, CheckEvent, SetEvent, Announce, Count,
                OnShutdown
  <2>4. CASE event' = event
    BY <2>1, <2>2, <2>4 DEF Gate!vars
  <2>5. CASE event' = TRUE
    BY <2>1, <2>2, <2>5 DEF Gate!Close, Gate!Next
  <2>6. QED
    BY <2>3, <2>4, <2>5
<1>9. ASSUME NEW c \in Callers, ShutdownStep(c)
      PROVE  Gate!Next \/ UNCHANGED Gate!vars
  <2>1. InFlight' = InFlight /\ Pending' = Pending
    BY <1>0, <1>9, ShutdownMovesOneFrame DEF InFlight, Pending
  <2>2. UNCHANGED <<event, late>>
    BY <1>9 DEF ShutdownStep, Poll, Sleep, OnDrained, PersistState, OpenFile,
                WriteFile, Stop, Report
  <2>3. CASE UNCHANGED drained
    BY <2>1, <2>2, <2>3 DEF Gate!vars
  <2>4. ASSUME NEW v \in {"yes", "no"}, Poll(c),
               drained' = [drained EXCEPT ![c] = v],
               v = "yes" => active <= 0
        PROVE  Gate!Next
    <3>1. v = "yes" => InFlight = {}
      <4>1. IsFiniteSet(InFlight)
        BY FS_Subset DEF InFlight
      <4>2. active = Cardinality(InFlight) /\ Cardinality(InFlight) \in Nat
        BY <1>0, <4>1, FS_CardinalityType DEF Accounting
      <4>3. v = "yes" => Cardinality(InFlight) = 0
        BY <2>4, <4>2
      <4>4. QED
        BY <4>1, <4>3, FS_EmptySet
    <3>2. event /\ drained[c] = "none"
      BY <1>0, <2>4 DEF Poll, Section, At, DrainOrder
    <3>3. Gate!Decide(c, v)
      BY <2>1, <2>2, <2>4, <3>1, <3>2 DEF Gate!Decide
    <3>4. QED
      BY <3>3 DEF Gate!Next
  <2>5. CASE Poll(c)
    BY <2>3, <2>4, <2>5 DEF Poll
  <2>6. CASE ~Poll(c)
    <3>1. UNCHANGED drained
      BY <1>9, <2>6 DEF ShutdownStep, Sleep, OnDrained, PersistState,
                        OpenFile, WriteFile, Stop, Report, waiting
    <3>2. QED
      BY <2>3, <3>1
  <2>7. QED
    BY <2>5, <2>6
<1>10. CASE UNCHANGED vars
  BY <1>10, GateStutter DEF vars, waiting
<1>11. QED
  BY <1>1, <1>2, <1>3, <1>4, <1>5, <1>6, <1>7, <1>8, <1>9, <1>10 DEF Next

\* The threads, the lock, the signals and the file together keep the promise
\* of the gate: it closes once, and "yes" means that nobody was inside.
THEOREM Refinement == Spec => ImplementsDrain
<1>1. Init /\ [][Next]_vars => []IInv
  BY InitIInv, StepIInv, PTL
<1>2. QED
  BY <1>1, GateInit, GateStep, PTL DEF Spec, ImplementsDrain, Gate!Spec

-----------------------------------------------------------------------------
(* What is in the file when a shutdown that drained has written it.        *)

\* A caller at or past the writing of the file stays there.
Past == {"write", "stop", "report", "returned", "failed"}
Alone(c) == \A d \in Callers \ {c} : pc[d] \notin Past

\* Strengthens PersistedWhenDrained: what a caller that drained is about to
\* write (snap) already holds the state of every request counted in time.
FileKept ==
    \A c \in Callers : drained[c] = "yes" /\ Alone(c) =>
        /\ pc[c] = "write" => data \ late \subseteq snap[c]
        /\ pc[c] \in {"stop", "report", "returned"}
              => disk.whole /\ data \ late \subseteq disk.data

\* A step that leaves the file, the snapshots and the verdicts alone, brings
\* nobody into the part of shutdown() where the file is written, and adds to
\* the data only what a late request left there.
LEMMA FileKeptQuiet ==
  ASSUME FileKept, UNCHANGED <<drained, snap, disk>>,
         late \subseteq late', data' \ late' \subseteq data \ late,
         \A c \in Callers : pc'[c] # pc[c]
            => /\ pc[c] \notin Past \/ (pc[c] = "stop" /\ pc'[c] = "report")
                                    \/ (pc[c] = "report" /\ pc'[c] = "returned")
               /\ pc'[c] # "write" /\ (pc'[c] \in Past => pc[c] \in Past
                                                         \/ pc'[c] = "failed")
  PROVE  FileKept'
<1> SUFFICES ASSUME NEW c \in Callers, drained'[c] = "yes", Alone(c)'
             PROVE  /\ pc'[c] = "write" => data' \ late' \subseteq snap'[c]
                    /\ pc'[c] \in {"stop", "report", "returned"}
                          => disk'.whole /\ data' \ late' \subseteq disk'.data
  BY DEF FileKept, Alone
<1>1. \A d \in Callers \ {c} : pc[d] \notin Past
  BY DEF Alone, Past
<1>2. drained[c] = "yes" /\ Alone(c)
  BY <1>1 DEF Alone
<1>3. /\ pc'[c] = "write" => pc[c] = "write"
      /\ pc'[c] \in {"stop", "report", "returned"}
            => pc[c] \in {"stop", "report", "returned"}
  BY DEF Past
<1>4. QED
  BY <1>2, <1>3 DEF FileKept

\* No step loses what the file must hold.
LEMMA FileKeptStep == IInv /\ FileKept /\ [Next]_vars => FileKept'
<1> SUFFICES ASSUME IInv, FileKept, [Next]_vars PROVE FileKept'
  OBVIOUS
<1> USE FramesAssumption
<1>0. TypeOK /\ DrainOrder /\ DrainedOnlyLate
  BY DEF IInv
<1>1. ASSUME NEW f \in Frames, Take(f) PROVE FileKept'
  BY <1>1, FileKeptQuiet DEF Take, waiting, session
<1>2. ASSUME NEW w \in Workers, Test(w) \/ Reject(w) \/ Finish(w) \/ Release(w)
      PROVE  FileKept'
  <2>1. \A c \in Callers : pc'[c] = pc[c]
    BY <1>0, <1>2 DEF Test, Reject, Finish, Release, Goto, TypeOK
  <2>2. UNCHANGED <<drained, snap, disk, data, late>>
    BY <1>2 DEF Test, Reject, Finish, Release, waiting, session
  <2>3. QED
    BY <2>1, <2>2, FileKeptQuiet
<1>3. ASSUME NEW w \in Workers, Acquire(w) PROVE FileKept'
  <2>1. \A c \in Callers : pc'[c] = pc[c]
    BY <1>0, <1>3 DEF Acquire, Goto, TypeOK
  <2>2. UNCHANGED <<drained, snap, disk, data>> /\ late \subseteq late'
    BY <1>3 DEF Acquire, waiting, session
  <2>3. QED
    BY <2>1, <2>2, FileKeptQuiet
<1>4. ASSUME NEW w \in Workers, SetState(w) PROVE FileKept'
  <2>1. UNCHANGED <<pc, drained, snap, disk, late>> /\ data' = data \cup {w}
    BY <1>4 DEF SetState, waiting
  <2>2. w \in InFlight
    BY <1>4 DEF SetState, At, InFlight
  <2>3. \A c \in Callers : drained[c] = "yes" => data' \ late' = data \ late
    BY <1>0, <2>1, <2>2 DEF DrainedOnlyLate
  <2>4. QED
    BY <2>1, <2>3 DEF FileKept, Alone
<1>5. CASE Receive
  <2>1. \A c \in Callers : pc'[c] = pc[c]
    BY <1>0, <1>5 DEF Receive, Goto, TypeOK
  <2>2. UNCHANGED <<drained, snap, disk, data, late>>
    BY <1>5 DEF Receive, waiting, session
  <2>3. QED
    BY <2>1, <2>2, FileKeptQuiet
<1>6. ASSUME NEW c \in Callers, CallShutdown(c) PROVE FileKept'
  <2>1. \A d \in Callers : pc'[d] # pc[d]
                              => pc[d] \notin Past /\ pc'[d] \notin Past
    BY <1>0, <1>6 DEF CallShutdown, At, Goto, TypeOK, Past
  <2>2. UNCHANGED <<drained, snap, disk, data, late>>
    BY <1>6 DEF CallShutdown, waiting, session
  <2>3. QED
    BY <2>1, <2>2, FileKeptQuiet DEF Past
<1>7. ASSUME NEW i \in Initiators, InitiateStep(i) PROVE FileKept'
  <2>1. \A d \in Callers : pc'[d] # pc[d]
            => pc[d] \notin Past /\ (pc'[d] \in Past => pc'[d] = "failed")
    BY <1>0, <1>7 DEF InitiateStep, CheckEvent, SetEvent, Announce, Count,
                      OnShutdown, AfterInitiate, At, Section, Goto, TypeOK,
                      Past
  <2>2. UNCHANGED <<drained, snap, disk, data, late>>
    BY <1>7 DEF InitiateStep, CheckEvent, SetEvent, Announce, Count,
                OnShutdown, waiting, session
  <2>3. QED
    BY <2>1, <2>2, FileKeptQuiet DEF Past
<1>8. ASSUME NEW c \in Callers, Poll(c) PROVE FileKept'
  <2>1. \A d \in Callers : d # c => pc'[d] = pc[d] /\ drained'[d] = drained[d]
    BY <1>0, <1>8 DEF Poll, Goto, TypeOK
  <2>2. pc[c] = "poll" /\ pc'[c] \in {"onDrained", "persist", "sleep"}
    BY <1>0, <1>8 DEF Poll, Section, At, Goto, TypeOK
  <2>3. UNCHANGED <<snap, disk, data, late>>
    BY <1>8 DEF Poll, session
  <2>4. QED
    BY <2>1, <2>2, <2>3 DEF FileKept, Alone, Past
<1>9. ASSUME NEW c \in Callers, Sleep(c) \/ OnDrained(c) \/ PersistState(c)
      PROVE  FileKept'
  <2>1. \A d \in Callers : pc'[d] # pc[d]
            => pc[d] \notin Past /\ (pc'[d] \in Past => pc'[d] = "failed")
    BY <1>0, <1>9 DEF Sleep, OnDrained, PersistState, At, Goto, TypeOK, Past
  <2>2. UNCHANGED <<drained, snap, disk, data, late>>
    BY <1>9 DEF Sleep, OnDrained, PersistState, waiting, session
  <2>3. QED
    BY <2>1, <2>2, FileKeptQuiet DEF Past
<1>10. ASSUME NEW c \in Callers, OpenFile(c) PROVE FileKept'
  <2>1. /\ pc'[c] = "write" /\ \A d \in Callers : d # c => pc'[d] = pc[d]
        /\ snap'[c] = data /\ UNCHANGED <<drained, data, late>>
    BY <1>0, <1>10 DEF OpenFile, Goto, TypeOK, waiting
  <2>2. \A d \in Callers : d # c => ~Alone(d)'
    BY <2>1 DEF Alone, Past
  <2>3. QED
    BY <2>1, <2>2 DEF FileKept
<1>11. ASSUME NEW c \in Callers, WriteFile(c) PROVE FileKept'
  <2>1. /\ pc[c] = "write" /\ pc'[c] \in {"stop", "failed"}
        /\ \A d \in Callers : d # c => pc'[d] = pc[d]
        /\ UNCHANGED <<drained, data, late>>
    BY <1>0, <1>11 DEF WriteFile, At, Goto, TypeOK, waiting
  <2>2. \A d \in Callers : d # c => ~Alone(d)'
    BY <2>1 DEF Alone, Past
  <2>3. ASSUME drained'[c] = "yes", Alone(c)', pc'[c] = "stop"
        PROVE  disk'.whole /\ data' \ late' \subseteq disk'.data
    <3>1. Alone(c) /\ ~OthersWriting(c)
      BY <2>1, <2>3 DEF Alone, OthersWriting, Past
    <3>2. PICK seen \in {snap[c], data} :
              disk' = [whole |-> TRUE, data |-> seen]
      BY <1>0, <1>11, <2>3, <3>1 DEF WriteFile, Goto, TypeOK
    <3>3. data \ late \subseteq snap[c]
      BY <2>1, <2>3, <3>1 DEF FileKept
    <3>4. QED
      BY <2>1, <3>2, <3>3
  <2>4. QED
    BY <2>1, <2>2, <2>3 DEF FileKept
<1>12. ASSUME NEW c \in Callers, Stop(c) \/ Report(c) PROVE FileKept'
  <2>1. \A d \in Callers : pc'[d] # pc[d]
            => \/ pc[d] = "stop" /\ pc'[d] = "report"
               \/ pc[d] = "report" /\ pc'[d] = "returned"
    BY <1>0, <1>12 DEF Stop, Report, Section, At, Goto, TypeOK
  <2>2. UNCHANGED <<drained, snap, disk, data, late>>
    BY <1>12 DEF Stop, Report, waiting, session
  <2>3. QED
    BY <2>1, <2>2, FileKeptQuiet DEF Past
<1>13. CASE UNCHANGED vars
  BY <1>13, FileKeptQuiet DEF vars, waiting, session
<1>14. QED
  BY <1>1, <1>2, <1>3, <1>4, <1>5, <1>6, <1>7, <1>8, <1>9, <1>10, <1>11,
     <1>12, <1>13 DEF Next, ShutdownStep

\* A shutdown that drained, and that nobody else's writing disturbs, leaves a
\* whole file with the state of every request counted before the event
\* (persist_state, SessionState.persist), whatever the signals.
THEOREM PersistedCorrect == Spec => []PersistedWhenDrained
<1>1. Init => FileKept
  BY FramesAssumption DEF Init, FileKept
<1>2. FileKept => PersistedWhenDrained
  BY DEF FileKept, PersistedWhenDrained, Alone, Past
<1>3. QED
  BY <1>1, <1>2, InitIInv, StepIInv, FileKeptStep, PTL DEF Spec

-----------------------------------------------------------------------------
(* Where the health state comes to rest when nobody sends a signal.  With a *)
(* signal it need not: a handler may announce a shutdown after the last     *)
(* shutdown() has returned.                                                 *)

Underway == {"count", "hook", "poll", "sleep", "onDrained", "persist", "open",
             "write", "stop", "failed"}

\* Strengthens StoppedAtLast: while a shutdown() has returned and the state is
\* not "stopped", another one that will still set it, or fail, is under way.
SomeoneStops ==
    /\ pc[Signal] = "idle"
    /\ (\E c \in Callers : pc[c] \in {"report", "returned"})
          => health.state = "stopped" \/ \E d \in Callers : pc[d] \in Underway

\* A step that keeps the health state and every caller in the part it is in.
LEMMA SomeoneStopsQuiet ==
  ASSUME SomeoneStops, health' = health, pc'[Signal] = pc[Signal],
         \A c \in Callers :
            /\ pc[c] \in Underway => pc'[c] \in Underway
            /\ pc'[c] \in {"report", "returned"}
                  => pc[c] \in {"report", "returned"}
  PROVE  SomeoneStops'
  BY DEF SomeoneStops

\* Without signals, no step brings the state to rest at anything else.
LEMMA SomeoneStopsStep ==
  ASSUME MaxSignals = 0, TypeOK, SomeoneStops, [Next]_vars
  PROVE  SomeoneStops'
<1> USE FramesAssumption
<1>1. ASSUME NEW f \in Frames, Take(f) PROVE SomeoneStops'
  BY <1>1, SomeoneStopsQuiet DEF Take
<1>2. ASSUME NEW w \in Workers,
             Test(w) \/ Acquire(w) \/ Reject(w) \/ SetState(w) \/ Finish(w)
               \/ Release(w)
      PROVE  SomeoneStops'
  <2>1. \A i \in Initiators : pc'[i] = pc[i]
    BY <1>2 DEF Test, Acquire, Reject, SetState, Finish, Release, Goto, TypeOK
  <2>2. health' = health
    BY <1>2 DEF Test, Acquire, Reject, SetState, Finish, Release
  <2>3. QED
    BY <2>1, <2>2, SomeoneStopsQuiet
<1>3. CASE Receive
  BY <1>3 DEF Receive, TypeOK
<1>4. ASSUME NEW c \in Callers, CallShutdown(c) PROVE SomeoneStops'
  BY <1>4, SomeoneStopsQuiet DEF CallShutdown, At, Goto, TypeOK, Underway
<1>5. ASSUME NEW i \in Initiators, InitiateStep(i) PROVE SomeoneStops'
  <2>1. i \in Callers
    BY <1>5 DEF InitiateStep, CheckEvent, SetEvent, Announce, Count,
                OnShutdown, At, Section, SomeoneStops
  <2>2. CASE Announce(i)
    <3>1. pc'[i] \in Underway /\ pc'[Signal] = pc[Signal]
      BY <2>1, <2>2 DEF Announce, Goto, TypeOK, Underway
    <3>2. QED
      BY <2>1, <3>1 DEF SomeoneStops
  <2>3. CASE CheckEvent(i) \/ SetEvent(i) \/ Count(i) \/ OnShutdown(i)
    <3>1. /\ pc'[i] \notin {"report", "returned"}
          /\ pc[i] \in Underway => pc'[i] \in Underway
          /\ \A f \in Frames : f # i => pc'[f] = pc[f]
      BY <2>1, <2>3 DEF CheckEvent, SetEvent, Count, OnShutdown, Section, At,
           Goto, AfterInitiate, TypeOK, Underway
    <3>2. health' = health
      BY <2>3 DEF CheckEvent, SetEvent, Count, OnShutdown
    <3>3. QED
      BY <2>1, <3>1, <3>2, SomeoneStopsQuiet
  <2>4. QED
    BY <1>5, <2>2, <2>3 DEF InitiateStep
<1>6. ASSUME NEW c \in Callers, ShutdownStep(c) PROVE SomeoneStops'
  <2>0. \A f \in Frames : f # c => pc'[f] = pc[f]
    BY <1>6 DEF ShutdownStep, Poll, Sleep, OnDrained, PersistState, OpenFile,
                WriteFile, Stop, Report, Goto, TypeOK
  <2>1. CASE Poll(c) \/ Sleep(c) \/ OnDrained(c) \/ PersistState(c)
             \/ OpenFile(c) \/ WriteFile(c)
    <3>1. pc'[c] \in Underway
      BY <2>1 DEF Poll, Sleep, OnDrained, PersistState, OpenFile, WriteFile,
                  Goto, TypeOK, Underway
    <3>2. QED
      BY <2>0, <3>1 DEF SomeoneStops
  <2>2. CASE Stop(c)
    <3>1. health'.state = "stopped"
      BY <2>2 DEF Stop, TypeOK
    <3>2. QED
      BY <2>0, <3>1 DEF SomeoneStops
  <2>3. CASE Report(c)
    <3>1. pc[c] = "report" /\ health' = health
      BY <2>3 DEF Report, Section, At
    <3>2. QED
      BY <2>0, <3>1, SomeoneStopsQuiet DEF Underway
  <2>4. QED
    BY <1>6, <2>1, <2>2, <2>3 DEF ShutdownStep
<1>7. CASE UNCHANGED vars
  BY <1>7, SomeoneStopsQuiet DEF vars
<1>8. QED
  BY <1>1, <1>2, <1>3, <1>4, <1>5, <1>6, <1>7 DEF Next

\* When no signal arrives and every call of shutdown() that was made has
\* returned, the health state is "stopped", however the calls overlapped.
THEOREM StoppedCorrect == ASSUME MaxSignals = 0
                          PROVE  Spec => []StoppedAtLast
<1>1. Init => SomeoneStops
  BY FramesAssumption DEF Init, SomeoneStops
<1>2. TypeOK /\ SomeoneStops /\ [Next]_vars => SomeoneStops'
  BY SomeoneStopsStep
<1>3. SomeoneStops => StoppedAtLast
  BY DEF SomeoneStops, StoppedAtLast, Underway
<1>4. QED
  BY <1>1, <1>2, <1>3, InitType, TypeStep, PTL DEF Spec

-----------------------------------------------------------------------------
(* The health state moves forward when one thread, the main thread, shuts  *)
(* down, whatever signals strike it.                                       *)

Early == {"out", "check", "set"}

\* Where the state is at each statement of the one caller.  A handler goes on
\* to announce the shutdown only over a caller that has not: once the caller
\* has set the event, the handler finds it set and returns.
HealthOrder ==
    \A c \in Callers :
        /\ pc[c] \notin Early => event
        /\ pc[Signal] \in {"set", "announce"} => pc[c] \in Early
        /\ pc[c] \in Early \cup {"announce", "count", "hook", "poll", "sleep",
                                 "onDrained", "persist"}
              => health.state \in {"running", "draining"}
        /\ pc[c] \in {"open", "write", "stop"} => health.state = "persisting"
        /\ pc[c] \in {"report", "returned"} => health.state = "stopped"

\* Each step keeps the order, and is a step forward.
LEMMA HealthOrderStep ==
  ASSUME Callers = {Main}, TypeOK, HealthOrder, [Next]_vars
  PROVE  HealthOrder' /\ Rank[health.state] <= Rank[health'.state]
<1> USE FramesAssumption
<1>0. health.state \in States /\ health' = health
        => Rank[health.state] <= Rank[health'.state]
  BY DEF States, Rank
<1>a. health.state \in States /\ Main \in Callers /\ Signal \notin Callers
  BY DEF TypeOK
<1>1. ASSUME UNCHANGED <<event, health>>,
             \A i \in Initiators : pc'[i] = pc[i]
      PROVE  HealthOrder' /\ Rank[health.state] <= Rank[health'.state]
  BY <1>0, <1>a, <1>1 DEF HealthOrder
<1>2. ASSUME NEW f \in Frames, Take(f) PROVE UNCHANGED <<event, health, pc>>
  BY <1>2 DEF Take
<1>3. ASSUME NEW w \in Workers,
             Test(w) \/ Acquire(w) \/ Reject(w) \/ SetState(w) \/ Finish(w)
               \/ Release(w)
      PROVE  UNCHANGED <<event, health>> /\ \A i \in Initiators : pc'[i] = pc[i]
  BY <1>3 DEF Test, Acquire, Reject, SetState, Finish, Release, Goto, TypeOK
<1>4. CASE Receive
  <2>1. pc'[Signal] = "check" /\ \A c \in Callers : pc'[c] = pc[c]
    BY <1>4 DEF Receive, Goto, TypeOK
  <2>2. UNCHANGED <<event, health>>
    BY <1>4 DEF Receive
  <2>3. QED
    BY <1>0, <1>a, <2>1, <2>2 DEF HealthOrder
<1>5. ASSUME NEW c \in Callers, CallShutdown(c)
      PROVE  HealthOrder' /\ Rank[health.state] <= Rank[health'.state]
  <2>1. pc[c] \in Early /\ pc'[c] \in Early /\ pc'[Signal] = pc[Signal]
    BY <1>5 DEF CallShutdown, At, Goto, TypeOK, Early
  <2>2. UNCHANGED <<event, health>>
    BY <1>5 DEF CallShutdown
  <2>3. QED
    BY <1>0, <1>a, <2>1, <2>2 DEF HealthOrder, Early
<1>6. ASSUME InitiateStep(Signal)
      PROVE  HealthOrder' /\ Rank[health.state] <= Rank[health'.state]
  <2>0. pc'[Main] = pc[Main]
    BY <1>6, <1>a DEF InitiateStep, CheckEvent, SetEvent, Announce, Count,
                      OnShutdown, Goto, TypeOK
  <2>1. CASE CheckEvent(Signal)
    <3>1. /\ pc'[Signal] = "set" => ~event
          /\ pc'[Signal] # "announce" /\ UNCHANGED <<event, health>>
      BY <2>1 DEF CheckEvent, Goto, AfterInitiate, TypeOK
    <3>2. QED
      BY <1>0, <1>a, <2>0, <3>1 DEF HealthOrder
  <2>2. CASE SetEvent(Signal)
    <3>1. /\ pc[Signal] = "set" /\ event' = TRUE /\ health' = health
      BY <2>2 DEF SetEvent, At
    <3>2. QED
      BY <1>0, <1>a, <2>0, <3>1 DEF HealthOrder
  <2>3. CASE Announce(Signal)
    <3>1. /\ pc[Signal] = "announce" /\ pc'[Signal] = "count"
          /\ event' = event /\ health'.state = "draining"
      BY <2>3 DEF Announce, At, Goto, TypeOK
    <3>2. pc[Main] \in Early /\ health.state \in {"running", "draining"}
      BY <1>a, <3>1 DEF HealthOrder
    <3>3. HealthOrder'
      BY <2>0, <3>1, <3>2 DEF HealthOrder, Early
    <3>4. QED
      BY <3>1, <3>2, <3>3 DEF Rank
  <2>4. CASE Count(Signal) \/ OnShutdown(Signal)
    <3>1. pc'[Signal] \in {"hook", "idle"} /\ UNCHANGED <<event, health>>
      BY <2>4 DEF Count, OnShutdown, Section, Goto, AfterInitiate, TypeOK
    <3>2. QED
      BY <1>0, <1>a, <2>0, <3>1 DEF HealthOrder
  <2>5. QED
    BY <1>6, <2>1, <2>2, <2>3, <2>4 DEF InitiateStep
<1>7. ASSUME InitiateStep(Main) \/ ShutdownStep(Main)
      PROVE  HealthOrder' /\ Rank[health.state] <= Rank[health'.state]
  <2>0. pc[Signal] = "idle" /\ pc'[Signal] = "idle"
    BY <1>7, <1>a DEF InitiateStep, CheckEvent, SetEvent, Announce, Count,
         OnShutdown, ShutdownStep, Poll, Sleep, OnDrained, PersistState,
         OpenFile, WriteFile, Stop, Report, Section, At, Interrupted, Goto,
         TypeOK
  <2>1. CASE CheckEvent(Main)
    <3>1. /\ pc[Main] \in Early /\ UNCHANGED <<event, health>>
          /\ pc'[Main] = "set" \/ (pc'[Main] = "poll" /\ event)
      BY <2>1, <1>a DEF CheckEvent, At, Goto, AfterInitiate, TypeOK, Early
    <3>2. QED
      BY <1>0, <1>a, <2>0, <3>1 DEF HealthOrder, Early
  <2>2. CASE SetEvent(Main)
    <3>1. /\ pc[Main] \in Early /\ event' = TRUE /\ health' = health
          /\ pc'[Main] = "announce"
      BY <2>2, <1>a DEF SetEvent, At, Goto, TypeOK, Early
    <3>2. QED
      BY <1>0, <1>a, <2>0, <3>1 DEF HealthOrder, Early
  <2>3. CASE Announce(Main)
    <3>1. /\ pc[Main] = "announce" /\ pc'[Main] = "count"
          /\ event' = event /\ health'.state = "draining"
      BY <2>3, <1>a DEF Announce, At, Goto, TypeOK
    <3>2. event /\ health.state \in {"running", "draining"}
      BY <1>a, <3>1 DEF HealthOrder, Early
    <3>3. HealthOrder'
      BY <2>0, <3>1, <3>2 DEF HealthOrder, Early
    <3>4. QED
      BY <3>1, <3>2, <3>3 DEF Rank
  <2>4. CASE Count(Main) \/ OnShutdown(Main) \/ Poll(Main) \/ Sleep(Main)
             \/ OnDrained(Main)
    <3>1. /\ pc[Main] \in {"count", "hook", "poll", "sleep", "onDrained"}
          /\ pc'[Main] \in {"hook", "poll", "sleep", "onDrained", "persist",
                            "failed"}
      BY <2>4, <1>a DEF Count, OnShutdown, Poll, Sleep, OnDrained, Section,
                        At, Goto, AfterInitiate, TypeOK
    <3>2. UNCHANGED <<event, health>>
      BY <2>4 DEF Count, OnShutdown, Poll, Sleep, OnDrained
    <3>3. QED
      BY <1>0, <1>a, <2>0, <3>1, <3>2 DEF HealthOrder, Early
  <2>5. CASE PersistState(Main)
    <3>1. /\ pc[Main] = "persist" /\ pc'[Main] = "open" /\ event' = event
          /\ health'.state = "persisting"
      BY <2>5, <1>a DEF PersistState, At, Goto, TypeOK
    <3>2. event /\ health.state \in {"running", "draining"}
      BY <1>a, <3>1 DEF HealthOrder, Early
    <3>3. HealthOrder'
      BY <2>0, <3>1, <3>2 DEF HealthOrder, Early
    <3>4. QED
      BY <3>1, <3>2, <3>3 DEF Rank
  <2>6. CASE OpenFile(Main) \/ WriteFile(Main)
    <3>1. /\ pc[Main] \in {"open", "write"}
          /\ pc'[Main] \in {"write", "stop", "failed"}
      BY <2>6, <1>a DEF OpenFile, WriteFile, At, Goto, TypeOK
    <3>2. UNCHANGED <<event, health>>
      BY <2>6 DEF OpenFile, WriteFile
    <3>3. QED
      BY <1>0, <1>a, <2>0, <3>1, <3>2 DEF HealthOrder, Early
  <2>7. CASE Stop(Main)
    <3>1. /\ pc[Main] = "stop" /\ pc'[Main] = "report" /\ event' = event
          /\ health'.state = "stopped"
      BY <2>7, <1>a DEF Stop, At, Goto, TypeOK
    <3>2. event /\ health.state = "persisting"
      BY <1>a, <3>1 DEF HealthOrder, Early
    <3>3. HealthOrder'
      BY <2>0, <3>1, <3>2 DEF HealthOrder, Early
    <3>4. QED
      BY <3>1, <3>2, <3>3 DEF Rank
  <2>8. CASE Report(Main)
    <3>1. /\ pc[Main] = "report" /\ pc'[Main] = "returned"
          /\ UNCHANGED <<event, health>>
      BY <2>8, <1>a DEF Report, Section, At, Goto, TypeOK
    <3>2. QED
      BY <1>0, <1>a, <2>0, <3>1 DEF HealthOrder, Early
  <2>9. QED
    BY <1>7, <2>1, <2>2, <2>3, <2>4, <2>5, <2>6, <2>7, <2>8
       DEF InitiateStep, ShutdownStep
<1>8. CASE UNCHANGED vars
  BY <1>1, <1>8 DEF vars
<1>9. QED
  BY <1>1, <1>2, <1>3, <1>4, <1>5, <1>6, <1>7, <1>8 DEF Next

\* One shutdown() in the main thread and any number of signals: the health
\* state never moves back (running, draining, persisting, stopped).
THEOREM HealthCorrect == ASSUME Callers = {Main}
                         PROVE  Spec => HealthMonotone
<1>1. Init => HealthOrder
  BY FramesAssumption DEF Init, HealthOrder, Early
<1>2. TypeOK /\ HealthOrder /\ [Next]_vars
        => HealthOrder' /\ Rank[health.state] <= Rank[health'.state]
  BY HealthOrderStep
<1>3. QED
  BY <1>1, <1>2, InitType, TypeStep, PTL DEF Spec, HealthMonotone

\* The same caller finds the state "stopped" when it returns, signals or not.
THEOREM StoppedUnderSignals == ASSUME Callers = {Main}
                               PROVE  Spec => []StoppedAtLast
<1>1. Init => HealthOrder
  BY FramesAssumption DEF Init, HealthOrder, Early
<1>2. TypeOK /\ HealthOrder /\ [Next]_vars => HealthOrder'
  BY HealthOrderStep
<1>3. HealthOrder => StoppedAtLast
  BY DEF HealthOrder, StoppedAtLast
<1>4. QED
  BY <1>1, <1>2, <1>3, InitType, TypeStep, PTL DEF Spec
=============================================================================
