------------------------- MODULE Checkpoint_proofs -------------------------
(***************************************************************************)
(* Theorems about the checkpoint manager: any number of steps, containers, *)
(* faults and overlapping invocations, and any time limit and buffer.      *)
(***************************************************************************)
EXTENDS Checkpoint, FiniteSetTheorems, TLAPS

-----------------------------------------------------------------------------
(* Types.                                                                  *)

Documents == {Absent, Blank, Torn} \cup {Whole(k) : k \in 0..Steps}

\* The three files that are no checkpoint count as step 0, and differ from one
\* that is.
LEMMA DocumentFacts ==
    /\ Absent.step = 0 /\ Blank.step = 0 /\ Torn.step = 0
    /\ Absent # Blank /\ Absent # Torn /\ Blank # Torn
    /\ Absent.kind # "whole" /\ Blank.kind # "whole" /\ Torn.kind # "whole"
    /\ \A k : /\ Whole(k).kind = "whole" /\ Whole(k).step = k
              /\ Whole(k) # Absent /\ Whole(k) # Blank
    BY DEF Absent, Blank, Torn, Whole

\* The step of a stored document is one of the execution's.
LEMMA DocumentStep ==
    ASSUME NEW d \in Documents  PROVE d.step \in 0..Steps
    BY DocumentFacts, CheckpointAssumption DEF Documents

\* What a write, finished or not, can leave.
LEMMA WrittenTypes ==
    ASSUME TypeOK, NEW i \in Containers, NEW d \in Written(i)
    PROVE  d \in Documents /\ (d = file \/ d = Whole(at[i]) \/ d = Torn)
    <1>1. at[i] \in 0..Steps /\ file \in Documents
        BY DEF TypeOK, Documents
    <1>2. d \in {file, Whole(at[i]), Torn}
        BY DEF Written
    <1> QED BY <1>1, <1>2 DEF Documents

\* load starts at a step of the execution, which is that of the document, or
\* at the first one.
LEMMA LoadedTypes ==
    ASSUME TypeOK
    PROVE  Loaded \in 0..Steps /\ Loaded = file.step
    <1>1. file \in Documents  BY DEF TypeOK, Documents
    <1> QED BY <1>1, DocumentFacts, CheckpointAssumption DEF Documents, Loaded

\* Types are kept by every step.
LEMMA TypeStep == TypeOK /\ [Next]_vars => TypeOK'
    <1> SUFFICES ASSUME TypeOK, [Next]_vars  PROVE TypeOK'
        OBVIOUS
    <1>1. CASE UNCHANGED vars
        BY <1>1 DEF vars, outcome, trouble, TypeOK
    <1>2. ASSUME NEW i \in Containers, Start(i)  PROVE TypeOK'
        <2>1. Loaded \in 0..Steps  BY LoadedTypes
        <2>2. Budget \in 0..Budget  BY CheckpointAssumption
        <2>3. overlaps' \in Nat  BY <1>2 DEF Start, TypeOK
        <2> QED BY <1>2, <2>1, <2>2, <2>3 DEF Start, TypeOK, outcome
    <1>3. ASSUME NEW i \in Containers, End(i)
          PROVE  /\ pc' \in [Containers -> {"idle", "work", "write", "unlink"}]
                 /\ at' \in [Containers -> 0..Steps]
                 /\ left' \in [Containers -> 0..Budget]
        BY <1>3, CheckpointAssumption DEF End, TypeOK
    <1>4. ASSUME Fault  PROVE faults' \in Nat /\ overlaps' \in Nat
        BY <1>4 DEF Fault, TypeOK
    <1>5. ASSUME NEW i \in Containers, Work(i)  PROVE TypeOK'
        <2>1. PICK duration \in 1..Budget :
                 /\ IF duration > Buffer THEN Fault ELSE UNCHANGED trouble
                 /\ IF duration < left[i]
                    THEN /\ times' = [times EXCEPT ![at[i]] = @ + 1]
                         /\ at' = [at EXCEPT ![i] = @ + 1]
                         /\ left' = [left EXCEPT ![i] = @ - duration]
                         /\ UNCHANGED pc
                    ELSE /\ \/ times' = [times EXCEPT ![at[i]] = @ + 1]
                            \/ UNCHANGED times
                         /\ End(i)
            BY <1>5 DEF Work
        <2>2. faults' \in Nat /\ overlaps' \in Nat
            BY <2>1, <1>4 DEF TypeOK, trouble
        <2>3. times' \in [Indices -> Nat]
            BY <2>1 DEF TypeOK
        <2>4. /\ at' \in [Containers -> 0..Steps]
              /\ left' \in [Containers -> 0..Budget]
              /\ pc' \in [Containers -> {"idle", "work", "write", "unlink"}]
            <3>1. CASE duration < left[i]
                <4>1. at[i] + 1 \in 0..Steps /\ left[i] - duration \in 0..Budget
                    BY <1>5, <3>1, CheckpointAssumption DEF Work, TypeOK
                <4> QED BY <2>1, <3>1, <4>1 DEF TypeOK
            <3>2. CASE ~(duration < left[i])
                BY <2>1, <3>2, <1>3
            <3> QED BY <3>1, <3>2
        <2> QED BY <1>5, <2>2, <2>3, <2>4 DEF Work, TypeOK
    <1>6. ASSUME NEW i \in Containers, SaveFails(i)  PROVE TypeOK'
        BY <1>6, <1>3, <1>4 DEF SaveFails, TypeOK, outcome
    <1>7. ASSUME NEW i \in Containers, OpenFile(i)  PROVE TypeOK'
        BY <1>7 DEF OpenFile, Goto, TypeOK, outcome, trouble
    <1>8. ASSUME NEW i \in Containers, WriteFile(i)  PROVE TypeOK'
        <2>1. file' \in Documents  BY <1>8, WrittenTypes DEF WriteFile
        <2> QED BY <1>8, <1>3, <2>1
                DEF WriteFile, TypeOK, outcome, trouble, Documents
    <1>9. ASSUME NEW i \in Containers, WriteFails(i)  PROVE TypeOK'
        <2>1. file' \in Documents
            BY <1>9 DEF WriteFails, TypeOK, Documents
        <2> QED BY <1>9, <1>3, <1>4, <2>1
                DEF WriteFails, TypeOK, outcome, Documents
    <1>10. ASSUME NEW i \in Containers, Complete(i)  PROVE TypeOK'
        BY <1>10, <1>3 DEF Complete, Goto, TypeOK, trouble
    <1>11. ASSUME NEW i \in Containers, Unlink(i)  PROVE TypeOK'
        BY <1>11, <1>3 DEF Unlink, TypeOK, trouble
    <1>12. ASSUME NEW i \in Containers, Crash(i)  PROVE TypeOK'
        <2>1. file' \in Documents
            <3>1. file \in Documents /\ Torn \in Documents
                BY DEF TypeOK, Documents
            <3>2. file' \in Written(i) \/ file' = file \/ file' = Torn
                BY <1>12 DEF Crash
            <3> QED BY <3>1, <3>2, WrittenTypes
        <2> QED BY <1>12, <1>3, <1>4, <2>1
                DEF Crash, TypeOK, outcome, Documents
    <1> QED BY <1>1, <1>2, <1>5, <1>6, <1>7, <1>8, <1>9, <1>10, <1>11, <1>12
            DEF Next, InvocationStep

LEMMA TypeInit == Init => TypeOK
    <1> SUFFICES ASSUME Init  PROVE TypeOK
        OBVIOUS
    <1>1. 0 \in 0..Steps /\ 0 \in 0..Budget  BY CheckpointAssumption
    <1>2. /\ pc \in [Containers -> {"idle", "work", "write", "unlink"}]
          /\ at \in [Containers -> 0..Steps]
          /\ left \in [Containers -> 0..Budget]
        BY <1>1 DEF Init
    <1>3. held \in SUBSET Containers /\ autoCleanup \in BOOLEAN /\ completed \in BOOLEAN
        BY DEF Init
    <1>4. times \in [Indices -> Nat] /\ faults \in Nat /\ overlaps \in Nat
        BY DEF Init
    <1>5. file = Absent  BY DEF Init
    <1> QED BY <1>2, <1>3, <1>4, <1>5 DEF TypeOK

\* The invocations, the file and the counters keep their types.
THEOREM TypeCorrect == Spec => []TypeOK
    BY TypeInit, TypeStep, PTL DEF Spec

-----------------------------------------------------------------------------
(* No step is skipped.  What a container holds in its hand and what is in  *)
(* the file is never past a step that was not performed, and a container   *)
(* deletes the checkpoint only behind the last step.                       *)

UnlinkLast == \A i \in Containers : pc[i] = "unlink" => at[i] = Steps

SkipInv == TypeOK /\ NoStepSkipped /\ UnlinkLast

\* times only grow, so what was performed stays performed.
LEMMA PerformedStays ==
    ASSUME TypeOK, TypeOK', NEW k,
           \A j \in Indices : times'[j] >= times[j],
           Performed(k)
    PROVE  \A j \in Indices : j < k => times'[j] > 0
    BY DEF Performed, TypeOK

\* The history of a step is left alone by all but Work, which raises it.
LEMMA TimesGrow ==
    ASSUME TypeOK, [Next]_vars
    PROVE  \A j \in Indices : times'[j] >= times[j]
    <1> SUFFICES ASSUME NEW j \in Indices  PROVE times'[j] >= times[j]
        OBVIOUS
    <1>1. times[j] \in Nat /\ times \in [Indices -> Nat]
        BY DEF TypeOK
    <1>2. CASE UNCHANGED times
        BY <1>1, <1>2
    <1>3. ASSUME NEW i \in Containers, Work(i)  PROVE times'[j] >= times[j]
        <2>1. times' = [times EXCEPT ![at[i]] = @ + 1] \/ times' = times
            BY <1>3 DEF Work
        <2> QED BY <1>1, <2>1
    <1>4. UNCHANGED times \/ \E i \in Containers : Work(i)
        BY DEF Next, InvocationStep, Start, SaveFails, OpenFile, WriteFile,
               WriteFails, Complete, Unlink, Crash, vars, outcome
    <1> QED BY <1>2, <1>3, <1>4

LEMMA SkipStep == SkipInv /\ [Next]_vars => SkipInv'
    <1> SUFFICES ASSUME SkipInv, [Next]_vars  PROVE SkipInv'
        OBVIOUS
    <1>1. TypeOK /\ TypeOK'
        BY TypeStep DEF SkipInv
    <1> DEFINE Done(k) == \A j \in Indices : j < k => times'[j] > 0
    <1>2. ASSUME NEW k, Performed(k)  PROVE Done(k)
        BY <1>1, <1>2, TimesGrow, PerformedStays
    <1>3. /\ \A i \in Containers : Done(at[i])
          /\ Done(file.step)
          /\ completed => Done(Steps)
        BY <1>2 DEF SkipInv, NoStepSkipped
    <1>4. Done(0)
        BY DEF Indices
    <1>5. file.step = Loaded
        BY <1>1, LoadedTypes
    <1> HIDE DEF Done
    <1>6. \/ UNCHANGED <<pc, at, file, completed>>
          \/ \E i \in Containers :
                 \/ Start(i) \/ Work(i) \/ SaveFails(i) \/ OpenFile(i) \/ WriteFile(i)
                 \/ WriteFails(i) \/ Complete(i) \/ Unlink(i) \/ Crash(i)
        BY DEF Next, InvocationStep, vars, outcome
    \* The step at which a container stands.
    <1>7. \A j \in Containers : Done(at'[j])
        <2> SUFFICES ASSUME NEW j \in Containers  PROVE Done(at'[j])
            OBVIOUS
        <2>1. CASE UNCHANGED at
            BY <1>3, <2>1
        <2>2. ASSUME NEW i \in Containers, End(i)  PROVE Done(at'[j])
            <3>1. at'[j] = 0 \/ at'[j] = at[j]
                BY <1>1, <2>2 DEF End, TypeOK
            <3> QED BY <3>1, <1>3, <1>4
        <2>3. ASSUME NEW i \in Containers, Start(i)  PROVE Done(at'[j])
            <3>1. at'[j] = file.step \/ at'[j] = at[j]
                BY <1>1, <1>5, <2>3 DEF Start, TypeOK
            <3> QED BY <3>1, <1>3
        <2>4. ASSUME NEW i \in Containers, Work(i)  PROVE Done(at'[j])
            <3>1. \/ End(i)
                  \/ /\ at' = [at EXCEPT ![i] = @ + 1]
                     /\ times' = [times EXCEPT ![at[i]] = @ + 1]
                BY <2>4 DEF Work
            <3>2. ASSUME at' = [at EXCEPT ![i] = @ + 1],
                         times' = [times EXCEPT ![at[i]] = @ + 1]
                  PROVE  Done(at'[j])
                <4>1. at[i] \in Indices /\ at[i] \in Nat
                    BY <1>1, <2>4, CheckpointAssumption DEF Work, TypeOK, Indices
                <4>2. times'[at[i]] > 0
                    BY <1>1, <3>2, <4>1 DEF TypeOK
                <4>3. Done(at[i] + 1)
                    BY <4>1, <4>2, <1>3 DEF Done, Indices
                <4>4. at'[j] = at[i] + 1 \/ at'[j] = at[j]
                    BY <1>1, <3>2 DEF TypeOK
                <4> QED BY <4>3, <4>4, <1>3
            <3> QED BY <3>1, <3>2, <2>2
        <2>5. \/ UNCHANGED at
              \/ \E i \in Containers : End(i) \/ Start(i) \/ Work(i)
            BY <1>6 DEF SaveFails, OpenFile, WriteFile, WriteFails, Complete,
                        Unlink, Crash, Goto
        <2> QED BY <2>1, <2>2, <2>3, <2>4, <2>5
    \* The step in the file: one in the hand of a container that wrote it.
    <1>8. Done(file'.step)
        <2>1. ASSUME NEW i \in Containers, NEW d \in Written(i)
              PROVE  Done(d.step)
            <3>1. d = file \/ d = Whole(at[i]) \/ d = Torn
                BY <1>1, <2>1, WrittenTypes
            <3>2. Done(Whole(at[i]).step) /\ Done(Torn.step)
                BY <1>3, <1>4, DocumentFacts
            <3> QED BY <3>1, <3>2, <1>3
        <2>2. \/ file' \in {file, Absent, Blank, Torn}
              \/ \E i \in Containers : file' \in Written(i)
            BY <1>6 DEF Start, Work, SaveFails, OpenFile, WriteFile, WriteFails,
                        Complete, Unlink, Crash
        <2>3. CASE file' \in {file, Absent, Blank, Torn}
            BY <2>3, <1>3, <1>4, DocumentFacts
        <2> QED BY <2>1, <2>2, <2>3
    \* Completion: behind the last step.
    <1>9. completed' => Done(Steps)
        <2>1. completed' = completed \/ \E i \in Containers : Complete(i) \/ Unlink(i)
            BY <1>6 DEF Start, Work, SaveFails, OpenFile, WriteFile, WriteFails,
                        Crash, outcome
        <2>2. ASSUME NEW i \in Containers, Complete(i) \/ Unlink(i)
              PROVE  at[i] = Steps
            BY <2>2 DEF Complete, Unlink, SkipInv, UnlinkLast
        <2> QED BY <2>1, <2>2, <1>3
    <1>10. UnlinkLast'
        <2> SUFFICES ASSUME NEW j \in Containers, pc'[j] = "unlink"
                     PROVE  at'[j] = Steps
            BY DEF UnlinkLast
        <2>1. ASSUME NEW i \in Containers, End(i)  PROVE at'[j] = Steps
            BY <1>1, <2>1 DEF End, TypeOK, SkipInv, UnlinkLast
        <2>2. ASSUME NEW i \in Containers, Goto(i, "write") \/ Start(i)
              PROVE at'[j] = Steps
            BY <1>1, <2>2 DEF Goto, Start, TypeOK, SkipInv, UnlinkLast
        <2>3. ASSUME NEW i \in Containers, Goto(i, "unlink"), at[i] = Steps
              PROVE at'[j] = Steps
            BY <1>1, <2>3 DEF Goto, TypeOK, SkipInv, UnlinkLast
        <2>4. ASSUME NEW i \in Containers, Work(i)  PROVE at'[j] = Steps
            <3>1. \/ End(i)
                  \/ /\ at' = [at EXCEPT ![i] = @ + 1]
                     /\ UNCHANGED pc /\ pc[i] = "work"
                BY <2>4 DEF Work
            <3>2. ASSUME at' = [at EXCEPT ![i] = @ + 1], UNCHANGED pc, pc[i] = "work"
                  PROVE  at'[j] = Steps
                <4>1. j # i  BY <3>2
                <4> QED BY <1>1, <3>2, <4>1 DEF TypeOK, SkipInv, UnlinkLast
            <3> QED BY <3>1, <3>2, <2>1
        <2>5. \/ UNCHANGED <<pc, at>>
              \/ \E i \in Containers :
                    \/ End(i) \/ Goto(i, "write") \/ Start(i) \/ Work(i)
                    \/ Goto(i, "unlink") /\ at[i] = Steps
            BY <1>6 DEF SaveFails, OpenFile, WriteFile, WriteFails, Complete,
                        Unlink, Crash
        <2>6. CASE UNCHANGED <<pc, at>>
            BY <2>6 DEF SkipInv, UnlinkLast
        <2> QED BY <2>1, <2>2, <2>3, <2>4, <2>5, <2>6
    <1>11. NoStepSkipped'
        BY <1>7, <1>8, <1>9 DEF NoStepSkipped, Performed, Done
    <1> QED BY <1>1, <1>10, <1>11 DEF SkipInv

LEMMA SkipInit == Init => SkipInv
    <1> SUFFICES ASSUME Init  PROVE SkipInv
        OBVIOUS
    <1>1. Performed(0)  BY DEF Performed, Indices
    <1>2. \A i \in Containers : at[i] = 0 /\ pc[i] = "idle"  BY DEF Init
    <1>3. file.step = 0 /\ ~completed  BY DocumentFacts DEF Init
    <1> QED BY <1>1, <1>2, <1>3, TypeInit DEF SkipInv, NoStepSkipped, UnlinkLast

\* Killed, torn, overlapping or late, no invocation and no checkpoint is past a
\* step that was not performed, and completion means that all were.
THEOREM NothingSkipped == Spec => []NoStepSkipped
    <1>1. Spec => []SkipInv
        BY SkipInit, SkipStep, PTL DEF Spec
    <1>2. SkipInv => NoStepSkipped  BY DEF SkipInv
    <1> QED BY <1>1, <1>2, PTL

-----------------------------------------------------------------------------
(* The files.  A container writes into the stored file unless the execution *)
(* was completed meanwhile, which alone takes a file away.                 *)

Files ==
    /\ \A i \in Containers : pc[i] = "write" /\ i \notin held => completed
    /\ \A i \in Containers : pc[i] = "unlink" /\ file = Absent => completed
    /\ \A i \in held : pc[i] = "write"
    /\ \A i \in Containers : pc[i] = "write" => at[i] < Steps
    /\ held # {} => file # Absent

FilesInv == SkipInv /\ Files

\* What a write leaves is a file, if there was one.
LEMMA WrittenPresent ==
    ASSUME TypeOK, NEW i \in Containers, NEW d \in Written(i), d = Absent
    PROVE  file = Absent
    BY WrittenTypes, DocumentFacts

LEMMA FilesStep == FilesInv /\ [Next]_vars => FilesInv'
    <1> SUFFICES ASSUME FilesInv, [Next]_vars  PROVE Files'
        BY SkipStep DEF FilesInv
    <1>1. TypeOK  BY DEF FilesInv, SkipInv
    <1>2. CASE UNCHANGED vars
        BY <1>2 DEF vars, outcome, FilesInv, Files
    \* A container ends, and lets go of the file.
    <1>3. ASSUME NEW i \in Containers, End(i), held' = held \ {i},
                 file' = Absent => file = Absent, UNCHANGED completed
          PROVE  Files'
        BY <1>1, <1>3 DEF End, FilesInv, Files, TypeOK
    <1>4. ASSUME NEW i \in Containers, End(i), pc[i] # "write", UNCHANGED held,
                 UNCHANGED file, completed => completed'
          PROVE  Files'
        BY <1>1, <1>4 DEF End, FilesInv, Files, TypeOK
    <1>5. ASSUME NEW i \in Containers, Start(i)  PROVE Files'
        BY <1>1, <1>5 DEF Start, outcome, FilesInv, Files, TypeOK
    <1>6. ASSUME NEW i \in Containers, Work(i)  PROVE Files'
        <2>1. \/ End(i)
              \/ UNCHANGED pc /\ at' = [at EXCEPT ![i] = @ + 1]
            BY <1>6 DEF Work
        <2>2. UNCHANGED <<held, file, completed>> /\ pc[i] = "work"
            BY <1>6 DEF Work
        <2>3. CASE UNCHANGED pc /\ at' = [at EXCEPT ![i] = @ + 1]
            <3>1. \A j \in Containers : j # i => at'[j] = at[j]
                BY <1>1, <2>3 DEF TypeOK
            <3> QED BY <3>1, <2>2, <2>3 DEF FilesInv, Files
        <2> QED BY <2>1, <2>2, <2>3, <1>4
    <1>7. ASSUME NEW i \in Containers, SaveFails(i)  PROVE Files'
        BY <1>7, <1>4 DEF SaveFails, Saving, outcome
    <1>8. ASSUME NEW i \in Containers, OpenFile(i)  PROVE Files'
        BY <1>1, <1>8, DocumentFacts
        DEF OpenFile, Saving, Goto, outcome, FilesInv, Files, TypeOK
    <1>9. ASSUME NEW i \in Containers, WriteFile(i)  PROVE Files'
        BY <1>1, <1>9, <1>3, WrittenPresent DEF WriteFile, outcome
    <1>10. ASSUME NEW i \in Containers, WriteFails(i)  PROVE Files'
        <2>1. file' = file \/ file' = Torn
            BY <1>10 DEF WriteFails
        <2> QED BY <1>10, <1>3, <2>1, DocumentFacts DEF WriteFails, outcome
    <1>11. ASSUME NEW i \in Containers, Complete(i)  PROVE Files'
        <2>1. CASE End(i) /\ completed' = TRUE
            BY <1>11, <2>1, <1>4 DEF Complete
        <2>2. CASE Goto(i, "unlink") /\ UNCHANGED completed /\ file # Absent
            BY <1>1, <1>11, <2>2 DEF Complete, Goto, FilesInv, Files, TypeOK
        <2> QED BY <1>11, <2>1, <2>2 DEF Complete
    <1>12. ASSUME NEW i \in Containers, Unlink(i)  PROVE Files'
        <2>1. completed' = TRUE
            BY <1>12 DEF Unlink, FilesInv, Files
        <2> QED BY <1>1, <1>12, <2>1 DEF Unlink, End, FilesInv, Files, TypeOK
    <1>13. ASSUME NEW i \in Containers, Crash(i)  PROVE Files'
        <2>1. file' \in Written(i) \/ file' = file \/ file' = Torn
            BY <1>13 DEF Crash
        <2>2. file' = Absent => file = Absent
            BY <1>1, <2>1, WrittenPresent, DocumentFacts
        <2> QED BY <1>13, <1>3, <2>2 DEF Crash, outcome
    <1> QED BY <1>2, <1>5, <1>6, <1>7, <1>8, <1>9, <1>10, <1>11, <1>12, <1>13
            DEF Next, InvocationStep

LEMMA FilesInit == Init => FilesInv
    <1> SUFFICES ASSUME Init  PROVE FilesInv
        OBVIOUS
    <1>1. (\A i \in Containers : pc[i] = "idle") /\ held = {}  BY DEF Init
    <1> QED BY <1>1, SkipInit DEF FilesInv, Files

-----------------------------------------------------------------------------
(* Nothing is left behind.  Without overlaps one invocation runs at most,  *)
(* so nobody is left to write when the checkpoint is deleted.              *)

Alone ==
    overlaps = 0 =>
        /\ \A i, j \in Running : i = j
        /\ completed => Running = {}
        /\ completed /\ autoCleanup => file = Absent

AloneInv == TypeOK /\ Alone

LEMMA AloneStep == AloneInv /\ [Next]_vars => AloneInv'
    <1> SUFFICES ASSUME AloneInv, [Next]_vars  PROVE Alone'
        BY TypeStep DEF AloneInv
    <1>1. TypeOK  BY DEF AloneInv
    <1>2. CASE UNCHANGED vars
        BY <1>2 DEF vars, outcome, trouble, AloneInv, Alone, Running
    <1>3. ASSUME NEW i \in Containers, InvocationStep(i) \/ Crash(i)
          PROVE  pc[i] # "idle" /\ overlaps' = overlaps /\ UNCHANGED autoCleanup
        BY <1>3 DEF InvocationStep, Work, SaveFails, Saving, OpenFile, WriteFile,
               WriteFails, Complete, Unlink, Crash, Fault, trouble
    <1>4. ASSUME NEW i \in Containers, InvocationStep(i) \/ Crash(i), overlaps' = 0
          PROVE  Alone'
        <2>1. overlaps = 0 /\ Running = {i} /\ ~completed
            BY <1>3, <1>4 DEF AloneInv, Alone, Running
        <2>2. /\ Running' \subseteq {i}
              /\ End(i) => Running' = {}
            <3>1. \/ End(i) \/ UNCHANGED pc \/ \E label : Goto(i, label)
                BY <1>4 DEF InvocationStep, Work, SaveFails, OpenFile, WriteFile,
                            WriteFails, Complete, Unlink, Crash
            <3>2. \A j \in Containers : j # i => pc'[j] = pc[j]
                BY <1>1, <3>1 DEF End, Goto, TypeOK
            <3>3. End(i) => pc'[i] = "idle"
                BY <1>1 DEF End, TypeOK
            <3> QED BY <2>1, <3>2, <3>3 DEF Running
        <2>3. completed' => End(i)
            BY <1>4, <2>1 DEF InvocationStep, Work, SaveFails, OpenFile, WriteFile,
                              WriteFails, Complete, Unlink, Crash, outcome
        <2>4. completed' /\ autoCleanup => file' = Absent
            BY <1>4, <2>1 DEF InvocationStep, Work, SaveFails, OpenFile, WriteFile,
                              WriteFails, Complete, Unlink, Crash, outcome
        <2> QED BY <1>3, <1>4, <2>2, <2>3, <2>4 DEF Alone
    <1>5. ASSUME NEW i \in Containers, Start(i), overlaps' = 0  PROVE Alone'
        <2>1. overlaps = 0 /\ Running = {}
            BY <1>1, <1>5 DEF Start, TypeOK
        <2>2. ~completed' /\ pc' = [pc EXCEPT ![i] = "work"]
            BY <1>5 DEF Start, outcome
        <2>3. Running' \subseteq {i}
            BY <1>1, <2>1, <2>2 DEF Running, TypeOK
        <2> QED BY <2>2, <2>3 DEF Alone
    <1>6. CASE overlaps' # 0
        BY <1>6 DEF Alone
    <1> QED BY <1>2, <1>4, <1>5, <1>6 DEF Next

\* Invocations that never overlapped leave no checkpoint of an execution they
\* completed, so a later one of the same id starts at its first step.
THEOREM NoneLeft == Spec => []NothingLeftBehind
    <1>1. Init => AloneInv
        <2> SUFFICES ASSUME Init  PROVE Alone
            BY TypeInit DEF AloneInv
        <2>1. Running = {} /\ ~completed  BY DEF Init, Running
        <2> QED BY <2>1 DEF Alone
    <1>2. AloneInv => NothingLeftBehind
        BY DEF AloneInv, Alone, NothingLeftBehind
    <1> QED BY <1>1, <1>2, AloneStep, PTL DEF Spec

-----------------------------------------------------------------------------
(* Repetitions.  RepeatsBounded is not inductive: an invocation before step *)
(* k may still perform it, and so may one that starts from the file.        *)

\* The invocations that may still perform step k ...
Pending(k) == {i \in Running : at[i] <= k}

\* ... the one that runs alone, and whose file is still to be written ...
Sound == \E r \in Containers : Running = {r} /\ (r \in held => file = Blank)

\* ... and the next one, unless nothing will be started, or it will start from
\* what the sound one leaves.
Debt(k) == IF completed \/ Sound THEN 0
           ELSE IF Running = {} THEN (IF Loaded <= k THEN 1 ELSE 0)
           ELSE 1

Budgeted ==
    \A k \in Indices :
        times[k] + Cardinality(Pending(k)) + Debt(k) <= 1 + faults + 2 * overlaps

BudgetInv == FilesInv /\ Budgeted

LEMMA DebtRange == ASSUME NEW k  PROVE Debt(k) \in 0..1 /\ Debt(k)' \in 0..1
    BY DEF Debt

\* Cardinalities of sets of containers.
LEMMA ContainerSets ==
    ASSUME NEW S \in SUBSET Containers
    PROVE  /\ IsFiniteSet(S) /\ Cardinality(S) \in Nat
           /\ \A T \in SUBSET S : Cardinality(T) \in Nat /\ Cardinality(T) <= Cardinality(S)
           /\ \A i \in S : Cardinality(S \ {i}) = Cardinality(S) - 1
           /\ \A i \in Containers : Cardinality(S \cup {i}) <= Cardinality(S) + 1
    <1>1. IsFiniteSet(S)
        BY FS_Subset, CheckpointAssumption
    <1>2. ASSUME NEW T \in SUBSET S
          PROVE  Cardinality(T) \in Nat /\ Cardinality(T) <= Cardinality(S)
        BY <1>1, FS_Subset, FS_CardinalityType
    <1>3. Cardinality(S) \in Nat
        BY <1>1, FS_CardinalityType
    <1>4. ASSUME NEW i \in S  PROVE Cardinality(S \ {i}) = Cardinality(S) - 1
        BY <1>1, FS_RemoveElement
    <1>5. ASSUME NEW i \in Containers  PROVE Cardinality(S \cup {i}) <= Cardinality(S) + 1
        <2>1. CASE i \in S
            <3>1. Cardinality(S \cup {i}) = Cardinality(S)
                BY <1>1, <2>1, FS_AddElement
            <3> QED BY <1>3, <3>1
        <2>2. CASE i \notin S
            <3>1. Cardinality(S \cup {i}) = Cardinality(S) + 1
                BY <1>1, <2>2, FS_AddElement
            <3> QED BY <1>3, <3>1
        <2> QED BY <2>1, <2>2
    <1> QED BY <1>1, <1>2, <1>3, <1>4, <1>5

LEMMA PendingType ==
    ASSUME NEW k
    PROVE  Pending(k) \in SUBSET Containers /\ Pending(k)' \in SUBSET Containers
    BY DEF Pending, Running

\* A container that ends is no longer pending; the others stay as they are.
LEMMA PendingEnds ==
    ASSUME TypeOK, NEW i \in Containers, End(i), pc[i] # "idle"
    PROVE  /\ Running' = Running \ {i}
           /\ \A k : Pending(k)' = Pending(k) \ {i}
    <1>1. Running' = Running \ {i}
        BY DEF End, TypeOK, Running
    <1>2. \A j \in Running : j # i => at'[j] = at[j]
        BY DEF End, TypeOK, Running
    <1> QED BY <1>1, <1>2 DEF Pending

\* Anything a fault does is paid for by it, if no step is performed.
LEMMA FaultPays ==
    ASSUME BudgetInv, NEW i \in Containers, End(i), pc[i] # "idle", Fault,
           UNCHANGED times
    PROVE  Budgeted'
    <1> SUFFICES ASSUME NEW k \in Indices
                 PROVE  times'[k] + Cardinality(Pending(k)') + Debt(k)'
                        <= 1 + faults' + 2 * overlaps'
        BY DEF Budgeted
    <1>1. TypeOK  BY DEF BudgetInv, FilesInv, SkipInv
    <1>2. /\ Cardinality(Pending(k)') \in Nat /\ Cardinality(Pending(k)) \in Nat
          /\ Cardinality(Pending(k)') <= Cardinality(Pending(k))
        BY <1>1, PendingEnds, PendingType, ContainerSets
    <1>3. times[k] \in Nat /\ faults \in Nat /\ overlaps \in Nat
        BY <1>1 DEF TypeOK
    <1>4. times[k] + Cardinality(Pending(k)) + Debt(k) <= 1 + faults + 2 * overlaps
        BY DEF BudgetInv, Budgeted
    <1>5. faults' = faults + 1 /\ overlaps' = overlaps /\ times'[k] = times[k]
        BY DEF Fault
    <1>6. Debt(k) \in 0..1 /\ Debt(k)' \in 0..1
        BY DebtRange
    <1> HIDE DEF Debt
    <1> QED BY <1>2, <1>3, <1>4, <1>5, <1>6

\* A step that changes neither the history nor the trouble, adds nothing to what
\* is pending and no debt.
LEMMA NothingOwed ==
    ASSUME BudgetInv, UNCHANGED times, UNCHANGED trouble,
           \A k \in Indices : /\ Pending(k)' \subseteq Pending(k)
                              /\ Debt(k)' <= Debt(k)
    PROVE  Budgeted'
    <1> SUFFICES ASSUME NEW k \in Indices
                 PROVE  times'[k] + Cardinality(Pending(k)') + Debt(k)'
                        <= 1 + faults' + 2 * overlaps'
        BY DEF Budgeted
    <1>1. TypeOK  BY DEF BudgetInv, FilesInv, SkipInv
    <1>2. /\ Cardinality(Pending(k)') \in Nat /\ Cardinality(Pending(k)) \in Nat
          /\ Cardinality(Pending(k)') <= Cardinality(Pending(k))
        BY PendingType, ContainerSets
    <1>3. times[k] \in Nat /\ faults \in Nat /\ overlaps \in Nat
        BY <1>1 DEF TypeOK
    <1>4. times[k] + Cardinality(Pending(k)) + Debt(k) <= 1 + faults + 2 * overlaps
        BY DEF BudgetInv, Budgeted
    <1>5. faults' = faults /\ overlaps' = overlaps /\ times'[k] = times[k]
        BY DEF trouble
    <1>6. Debt(k) \in 0..1 /\ Debt(k)' \in 0..1 /\ Debt(k)' <= Debt(k)
        BY DebtRange
    <1> QED BY <1>2, <1>3, <1>4, <1>5, <1>6

LEMMA BudgetStart ==
    ASSUME BudgetInv, NEW i \in Containers, Start(i)  PROVE Budgeted'
    <1> SUFFICES ASSUME NEW k \in Indices
                 PROVE  times'[k] + Cardinality(Pending(k)') + Debt(k)'
                        <= 1 + faults' + 2 * overlaps'
        BY DEF Budgeted
    <1>1. TypeOK /\ Files  BY DEF BudgetInv, FilesInv, SkipInv
    <1>2. times[k] \in Nat /\ faults \in Nat /\ overlaps \in Nat
        BY <1>1 DEF TypeOK
    <1>3. times[k] + Cardinality(Pending(k)) + Debt(k) <= 1 + faults + 2 * overlaps
        BY DEF BudgetInv, Budgeted
    <1>4. faults' = faults /\ times'[k] = times[k]
        BY DEF Start, outcome
    <1>5. /\ Running' = Running \cup {i} /\ i \notin Running
          /\ pc'[i] = "work" /\ at'[i] = Loaded
          /\ \A j \in Running : at'[j] = at[j]
        BY <1>1 DEF Start, TypeOK, Running
    <1>6. Pending(k)' = Pending(k) \cup (IF Loaded <= k THEN {i} ELSE {})
        BY <1>5 DEF Pending
    <1>7. Debt(k) \in 0..1 /\ Debt(k)' \in 0..1
        BY DebtRange
    <1>8. Cardinality(Pending(k)) \in Nat /\ Cardinality(Pending(k)') \in Nat
        BY PendingType, ContainerSets
    <1>9. CASE Running = {}
        <2>1. Pending(k) = {}  BY <1>9 DEF Pending
        <2>2. Pending(k)' = IF Loaded <= k THEN {i} ELSE {}  BY <2>1, <1>6
        <2>3. Cardinality({}) = 0 /\ Cardinality({i}) = 1
            BY FS_EmptySet, FS_Singleton
        <2>4. Debt(k) = IF Loaded <= k THEN 1 ELSE 0
            BY <1>9 DEF Debt, Sound, Start
        <2>5. Debt(k)' = 0
            <3>1. i \notin held
                BY <1>1 DEF Files, Start
            <3>2. Running' = {i} /\ i \notin held'
                BY <1>5, <1>9, <3>1 DEF Start
            <3> QED BY <3>2 DEF Debt, Sound
        <2>6. overlaps' = overlaps  BY <1>9 DEF Start
        <2>7. Cardinality(Pending(k)') = Debt(k) /\ Cardinality(Pending(k)) = 0
            BY <2>1, <2>2, <2>3, <2>4
        <2> QED BY <1>2, <1>3, <1>4, <1>7, <2>5, <2>6, <2>7
    <1>10. CASE Running # {}
        <2>1. overlaps' = overlaps + 1  BY <1>10 DEF Start
        <2>2. Cardinality(Pending(k)') <= Cardinality(Pending(k)) + 1
            <3>1. CASE Loaded <= k
                BY <1>6, <3>1, PendingType, ContainerSets
            <3>2. CASE ~(Loaded <= k)
                BY <1>6, <1>8, <3>2
            <3> QED BY <3>1, <3>2
        <2> QED BY <1>2, <1>3, <1>4, <1>7, <1>8, <2>1, <2>2
    <1> QED BY <1>9, <1>10

LEMMA BudgetWork ==
    ASSUME BudgetInv, NEW i \in Containers, Work(i)  PROVE Budgeted'
    <1> SUFFICES ASSUME NEW k \in Indices
                 PROVE  times'[k] + Cardinality(Pending(k)') + Debt(k)'
                        <= 1 + faults' + 2 * overlaps'
        BY DEF Budgeted
    <1>1. TypeOK  BY DEF BudgetInv, FilesInv, SkipInv
    <1>2. /\ times[k] \in Nat /\ faults \in Nat /\ overlaps \in Nat
          /\ k \in Int /\ at[i] \in Nat /\ at[i] \in Indices /\ pc[i] = "work"
        BY <1>1, CheckpointAssumption DEF TypeOK, Work, Indices
    <1>3. times[k] + Cardinality(Pending(k)) + Debt(k) <= 1 + faults + 2 * overlaps
        BY DEF BudgetInv, Budgeted
    <1>4. Debt(k) \in 0..1 /\ Debt(k)' \in 0..1
        BY DebtRange
    <1>5. /\ Cardinality(Pending(k)) \in Nat /\ Cardinality(Pending(k)') \in Nat
          /\ Pending(k) \in SUBSET Containers
        BY PendingType, ContainerSets
    <1>6. i \in Pending(k) <=> at[i] <= k
        BY <1>2 DEF Pending, Running
    <1>7. PICK duration \in 1..Budget :
             /\ IF duration > Buffer THEN Fault ELSE UNCHANGED trouble
             /\ IF duration < left[i]
                THEN /\ times' = [times EXCEPT ![at[i]] = @ + 1]
                     /\ at' = [at EXCEPT ![i] = @ + 1]
                     /\ left' = [left EXCEPT ![i] = @ - duration]
                     /\ UNCHANGED pc
                ELSE /\ \/ times' = [times EXCEPT ![at[i]] = @ + 1]
                        \/ UNCHANGED times
                     /\ End(i)
        BY DEF Work
    <1>8. overlaps' = overlaps /\ faults' \in {faults, faults + 1}
        BY <1>7 DEF Fault, trouble
    <1>9. times'[k] = times[k] \/ (k = at[i] /\ times'[k] = times[k] + 1)
        BY <1>1, <1>2, <1>7 DEF TypeOK
    \* The container performed the step: it is behind it.
    <1>10. CASE duration < left[i]
        <2>1. Running' = Running
            BY <1>7, <1>10 DEF Running
        <2>2. \A j \in Running : at'[j] = IF j = i THEN at[i] + 1 ELSE at[j]
            BY <1>1, <1>7, <1>10 DEF TypeOK, Running
        <2>3. Pending(k)' = IF k = at[i] THEN Pending(k) \ {i} ELSE Pending(k)
            <3>1. at[i] + 1 <= k <=> at[i] <= k /\ k # at[i]
                BY <1>2
            <3>2. k = at[i] => ~(at[i] + 1 <= k)
                BY <1>2
            <3> QED BY <2>1, <2>2, <3>1, <3>2 DEF Pending
        <2>4. k = at[i] => Cardinality(Pending(k)') = Cardinality(Pending(k)) - 1
            BY <1>2, <1>5, <1>6, <2>3, ContainerSets
        <2>5. k # at[i] => Cardinality(Pending(k)') = Cardinality(Pending(k))
            BY <2>3
        <2>6. Debt(k)' = Debt(k)
            BY <2>1 DEF Debt, Sound, Loaded, Work
        <2> QED BY <1>2, <1>3, <1>4, <1>5, <1>8, <1>9, <2>4, <2>5, <2>6
    \* It was killed, which is a fault.
    <1>11. CASE ~(duration < left[i])
        <2>1. End(i)  BY <1>7, <1>11
        <2>2. duration > Buffer
            BY <1>1, <1>11, CheckpointAssumption DEF Work, ShouldCheckpoint, TypeOK
        <2>3. faults' = faults + 1
            BY <1>7, <2>2 DEF Fault
        <2>4. Pending(k)' = Pending(k) \ {i}
            BY <1>1, <1>2, <2>1, PendingEnds
        <2>5. k = at[i] => Cardinality(Pending(k)') = Cardinality(Pending(k)) - 1
            BY <1>2, <1>5, <1>6, <2>4, ContainerSets
        <2>6. Cardinality(Pending(k)') <= Cardinality(Pending(k))
            BY <1>5, <2>4, ContainerSets
        <2> QED BY <1>2, <1>3, <1>4, <1>5, <1>8, <1>9, <2>3, <2>5, <2>6
    <1> QED BY <1>10, <1>11

LEMMA BudgetOpen ==
    ASSUME BudgetInv, NEW i \in Containers, OpenFile(i)  PROVE Budgeted'
    <1>1. TypeOK /\ Files  BY DEF BudgetInv, FilesInv, SkipInv
    <1>2. pc[i] = "work" /\ pc' = [pc EXCEPT ![i] = "write"] /\ UNCHANGED at
        BY DEF OpenFile, Saving, Goto
    <1>3. Running' = Running /\ i \in Running
        BY <1>1, <1>2 DEF Running, TypeOK
    <1>4. \A k : Pending(k)' = Pending(k)
        BY <1>2, <1>3 DEF Pending
    <1>5. ASSUME NEW k \in Indices  PROVE Debt(k)' <= Debt(k)
        <2>1. Debt(k) \in 0..1 /\ Debt(k)' \in 0..1  BY DebtRange
        <2>2. file' = Blank /\ completed' = completed
            BY DEF OpenFile, outcome
        <2>3. Sound => Sound'
            BY <1>3, <2>2 DEF Sound
        <2>4. Debt(k) = 0 => Debt(k)' = 0
            BY <1>3, <2>2, <2>3 DEF Debt
        <2> QED BY <2>1, <2>4
    <1> QED BY <1>4, <1>5, NothingOwed DEF OpenFile, outcome

\* The invocation that runs alone leaves its step in the file: the next one
\* begins where it ended.
LEMMA BudgetWrite ==
    ASSUME BudgetInv, NEW i \in Containers, WriteFile(i)  PROVE Budgeted'
    <1>1. TypeOK /\ Files  BY DEF BudgetInv, FilesInv, SkipInv
    <1>2. /\ pc[i] = "write" /\ End(i) /\ file' \in Written(i) /\ held' = held \ {i}
          /\ completed' = completed /\ times' = times
          /\ faults' = faults /\ overlaps' = overlaps
        BY DEF WriteFile, outcome, trouble
    <1>3. /\ Running' = Running \ {i} /\ i \in Running
          /\ \A k : Pending(k)' = Pending(k) \ {i}
        BY <1>1, <1>2, PendingEnds DEF Running
    <1>4. CASE completed \/ ~Sound
        <2>1. ASSUME NEW k \in Indices  PROVE Debt(k)' <= Debt(k)
            <3>1. Debt(k)' \in 0..1  BY DebtRange
            <3>2. completed => Debt(k)' = 0 /\ Debt(k) = 0
                BY <1>2 DEF Debt
            <3>3. ~completed => Debt(k) = 1
                BY <1>3, <1>4 DEF Debt
            <3> QED BY <3>1, <3>2, <3>3
        <2> QED BY <1>2, <1>3, <2>1, NothingOwed DEF trouble
    <1>5. CASE ~completed /\ Sound
        <2>1. i \in held  BY <1>1, <1>2, <1>5 DEF Files
        <2>2. Running = {i} /\ file = Blank
            BY <1>3, <1>5, <2>1 DEF Sound
        <2>3. held = {i}
            <3>1. held \subseteq Running
                BY <1>1 DEF Files, Running, TypeOK
            <3> QED BY <2>1, <2>2, <3>1
        <2>4. file' = Whole(at[i])
            BY <1>2, <2>1, <2>2, <2>3 DEF Written
        <2>5. Running' = {}  BY <1>3, <2>2
        <2>6. Loaded' = at[i]
            BY <2>4, DocumentFacts DEF Loaded
        <2>7. ASSUME NEW k \in Indices
              PROVE  times'[k] + Cardinality(Pending(k)') + Debt(k)'
                     <= 1 + faults' + 2 * overlaps'
            <3>1. Debt(k)' = IF at[i] <= k THEN 1 ELSE 0
                BY <1>2, <1>5, <2>5, <2>6 DEF Debt, Sound
            <3>2. Debt(k) = 0  BY <1>5 DEF Debt
            <3>3. Pending(k) = IF at[i] <= k THEN {i} ELSE {}
                BY <2>2 DEF Pending
            <3>4. Pending(k)' = {}  BY <2>5 DEF Pending
            <3>5. Cardinality({}) = 0 /\ Cardinality({i}) = 1
                BY FS_EmptySet, FS_Singleton
            <3>6. Cardinality(Pending(k)) = Debt(k)' /\ Cardinality(Pending(k)') = 0
                BY <3>1, <3>3, <3>4, <3>5
            <3>7. times[k] + Cardinality(Pending(k)) + Debt(k) <= 1 + faults + 2 * overlaps
                BY DEF BudgetInv, Budgeted
            <3>8. times[k] \in Nat /\ faults \in Nat /\ overlaps \in Nat /\ Debt(k)' \in 0..1
                BY <1>1, DebtRange DEF TypeOK
            <3> QED BY <1>2, <3>2, <3>6, <3>7, <3>8
        <2> QED BY <2>7 DEF Budgeted
    <1> QED BY <1>4, <1>5

LEMMA BudgetComplete ==
    ASSUME BudgetInv, NEW i \in Containers, Complete(i) \/ Unlink(i)
    PROVE  Budgeted'
    <1>1. TypeOK /\ Files  BY DEF BudgetInv, FilesInv, SkipInv
    <1>2. pc[i] # "idle" /\ UNCHANGED times /\ UNCHANGED trouble
        BY DEF Complete, Unlink
    <1>3. CASE End(i) /\ completed' = TRUE
        <2>1. ASSUME NEW k \in Indices
              PROVE  Pending(k)' \subseteq Pending(k) /\ Debt(k)' <= Debt(k)
            <3>1. Pending(k)' = Pending(k) \ {i}
                BY <1>1, <1>2, <1>3, PendingEnds
            <3>2. Debt(k)' = 0  BY <1>3 DEF Debt
            <3>3. Debt(k) \in 0..1  BY DebtRange
            <3> QED BY <3>1, <3>2, <3>3
        <2> QED BY <1>2, <2>1, NothingOwed
    <1>4. CASE Goto(i, "unlink") /\ UNCHANGED <<completed, held, file>>
        <2>1. Running' = Running
            BY <1>1, <1>2, <1>4 DEF Running, Goto, TypeOK
        <2>2. \A k : Pending(k)' = Pending(k)
            BY <1>4, <2>1 DEF Pending, Goto
        <2>3. \A k \in Indices : Debt(k)' = Debt(k)
            BY <1>4, <2>1 DEF Debt, Sound, Loaded
        <2>4. \A k \in Indices : Debt(k)' <= Debt(k)
            <3> SUFFICES ASSUME NEW k \in Indices  PROVE Debt(k)' <= Debt(k)
                OBVIOUS
            <3>1. Debt(k) \in 0..1  BY DebtRange
            <3> QED BY <2>3, <3>1
        <2> QED BY <1>2, <2>2, <2>4, NothingOwed
    <1>5. Unlink(i) => End(i) /\ completed' = TRUE
        BY <1>1 DEF Unlink, Files
    <1> QED BY <1>3, <1>4, <1>5 DEF Complete

LEMMA BudgetStep == BudgetInv /\ [Next]_vars => BudgetInv'
    <1> SUFFICES ASSUME BudgetInv, [Next]_vars  PROVE Budgeted'
        BY FilesStep DEF BudgetInv
    <1>1. CASE UNCHANGED vars
        <2>1. \A k : Pending(k)' = Pending(k) /\ Debt(k)' = Debt(k)
            BY <1>1 DEF vars, outcome, Pending, Debt, Sound, Running, Loaded
        <2>2. times' = times /\ faults' = faults /\ overlaps' = overlaps
            BY <1>1 DEF vars, outcome, trouble
        <2> QED BY <2>1, <2>2 DEF BudgetInv, Budgeted
    <1>2. ASSUME NEW i \in Containers, SaveFails(i) \/ WriteFails(i) \/ Crash(i)
          PROVE  Budgeted'
        <2>1. End(i) /\ pc[i] # "idle" /\ Fault /\ UNCHANGED times
            BY <1>2 DEF SaveFails, Saving, WriteFails, Crash, outcome
        <2> QED BY <2>1, FaultPays
    <1> QED BY <1>1, <1>2, BudgetStart, BudgetWork, BudgetOpen, BudgetWrite,
               BudgetComplete DEF Next, InvocationStep

\* However many invocations there are, a step is performed once, and once more
\* for each that failed, and twice more for each that ran beside another.
THEOREM RepeatsPaid == Spec => []RepeatsBounded
    <1>1. Init => BudgetInv
        <2> SUFFICES ASSUME Init  PROVE Budgeted
            BY FilesInit DEF BudgetInv
        <2> SUFFICES ASSUME NEW k \in Indices
                     PROVE  times[k] + Cardinality(Pending(k)) + Debt(k)
                            <= 1 + faults + 2 * overlaps
            BY DEF Budgeted
        <2>1. Pending(k) = {}  BY DEF Init, Pending, Running
        <2>2. Cardinality(Pending(k)) = 0  BY <2>1, FS_EmptySet
        <2>3. Debt(k) \in 0..1  BY DebtRange
        <2>4. times[k] = 0 /\ faults = 0 /\ overlaps = 0  BY DEF Init
        <2> QED BY <2>2, <2>3, <2>4
    <1>2. BudgetInv => RepeatsBounded
        <2> SUFFICES ASSUME BudgetInv, NEW k \in Indices
                     PROVE  times[k] <= 1 + faults + 2 * overlaps
            BY DEF RepeatsBounded
        <2>1. TypeOK  BY DEF BudgetInv, FilesInv, SkipInv
        <2>2. times[k] \in Nat /\ faults \in Nat /\ overlaps \in Nat
            BY <2>1 DEF TypeOK
        <2>3. Debt(k) \in 0..1 /\ Cardinality(Pending(k)) \in Nat
            BY DebtRange, PendingType, ContainerSets
        <2>4. times[k] + Cardinality(Pending(k)) + Debt(k) <= 1 + faults + 2 * overlaps
            BY DEF BudgetInv, Budgeted
        <2> QED BY <2>2, <2>3, <2>4
    <1> QED BY <1>1, <1>2, BudgetStep, PTL DEF Spec

=============================================================================
