---------------------------- MODULE Undo_proofs ----------------------------
(***************************************************************************)
(* Proofs about the undo of the editor, for any number of editors,         *)
(* sceneries and files.  The lock file alone does not say that its maker   *)
(* works: the inductive invariant adds that whoever works made it, and     *)
(* where in the numbers of the files its records are.                      *)
(***************************************************************************)
EXTENDS Undo, FiniteSetTheorems, SequenceTheorems, TLAPS

LockHeld ==
  \A e \in Editors : phase[e] \in Working => lockFile = e

Fresh ==
  \A e \in Editors :
    phase[e] \in {"init", "clean"} => oldest[e] = 0 /\ youngest[e] = 0

WindowOf(e) ==
  /\ oldest[e] <= youngest[e]
  /\ youngest[e] <= oldest[e] + MaxFiles
  /\ youngest[e] <= LastFile + 1
  /\ phase[e] = "save" => /\ youngest[e] < oldest[e] + MaxFiles
                          /\ youngest[e] <= LastFile
  /\ \A n \in oldest[e]..(youngest[e] - 1) :
       n \notin refused => files[n] \in Sceneries
  /\ \A n \in Slots \ refused :
       files[n] # Missing => oldest[e] <= n /\ n < oldest[e] + MaxFiles

Window == \A e \in Editors : phase[e] \in {"undo", "save"} => WindowOf(e)

IInv == TypeOK /\ LockHeld /\ Fresh /\ Window

-----------------------------------------------------------------------------
LEMMA InitInv == Init => IInv
<1> SUFFICES ASSUME Init PROVE IInv
  OBVIOUS
<1> USE UndoAssumption
<1> QED
  BY DEF Init, IInv, TypeOK, LockHeld, Fresh, Window, Phases, Running, Working,
         Slots, WindowOf

LEMMA AtWork == ASSUME IInv PROVE OneEditorAtWork
BY DEF IInv, LockHeld, OneEditorAtWork

LEMMA TypeNext == ASSUME IInv, [Next]_vars PROVE TypeOK'
<1> USE UndoAssumption DEF IInv, TypeOK, Phases, Running, Working, Stored
<1>1. CASE UNCHANGED vars
  BY <1>1 DEF vars
<1>2. CASE RemoveStaleLock
  BY <1>2 DEF RemoveStaleLock
<1>3. ASSUME NEW e \in Editors, Start(e) PROVE TypeOK'
  BY <1>3 DEF Start
<1>4. ASSUME NEW e \in Editors, CreateLock(e) PROVE TypeOK'
  BY <1>4 DEF CreateLock
<1>5. ASSUME NEW e \in Editors, NEW n \in Slots, RemoveLeftover(e, n)
      PROVE TypeOK'
  BY <1>5 DEF RemoveLeftover, Remove
<1>6. ASSUME NEW e \in Editors, EndInit(e) PROVE TypeOK'
  BY <1>6 DEF EndInit
<1>7. ASSUME NEW e \in Editors, Edit(e) PROVE TypeOK'
  <2>1. PICK s \in Sceneries : scenery' = [scenery EXCEPT ![e] = s]
    BY <1>7 DEF Edit
  <2> QED
    BY <1>7, <2>1 DEF Edit
<1>8. ASSUME NEW e \in Editors, Store(e) PROVE TypeOK'
  <2>1. Stored(e) >= MaxFiles => oldest[e] \in Slots
    BY <1>8 DEF Store, Slots
  <2>2. /\ files' \in [Slots -> Sceneries \cup {Missing, Torn}]
        /\ refused' \subseteq Slots
        /\ oldest' \in [Editors -> Nat]
    BY <1>8, <2>1 DEF Store, Remove
  <2> QED
    BY <1>8, <2>2 DEF Store
<1>9. ASSUME NEW e \in Editors, Save(e) PROVE TypeOK'
  <2>1. youngest[e] \in Slots
    BY <1>9 DEF Save, Window, WindowOf, Slots
  <2>2. /\ files' \in [Slots -> Sceneries \cup {Missing, Torn}]
        /\ refused' \subseteq Slots
        /\ youngest' \in [Editors -> Nat]
    BY <1>9, <2>1 DEF Save
  <2> QED
    BY <1>9, <2>2 DEF Save
<1>10. ASSUME NEW e \in Editors, PerformFails(e) PROVE TypeOK'
  BY <1>10 DEF PerformFails
<1>11. ASSUME NEW e \in Editors, Perform(e) PROVE TypeOK'
  <2>1. youngest[e] - 1 \in Nat
    BY <1>11 DEF Perform, Window, WindowOf
  <2>2. youngest' \in [Editors -> Nat]
    BY <1>11, <2>1 DEF Perform
  <2>3. scenery' \in [Editors -> Sceneries]
    BY <1>11 DEF Perform, Loadable
  <2> QED
    BY <1>11, <2>2, <2>3 DEF Perform
<1>12. ASSUME NEW e \in Editors, Quit(e) PROVE TypeOK'
  BY <1>12 DEF Quit
<1>13. ASSUME NEW e \in Editors, Export(e) PROVE TypeOK'
  BY <1>13 DEF Export
<1>14. ASSUME NEW e \in Editors, Crash(e) PROVE TypeOK'
  BY <1>14 DEF Crash
<1> QED
  BY <1>1, <1>2, <1>3, <1>4, <1>5, <1>6, <1>7, <1>8, <1>9, <1>10, <1>11, <1>12,
     <1>13, <1>14 DEF Next

(* Nobody else works while e does, and a change of e's phase to one in     *)
(* which it does not work cannot break the lock.                           *)
LEMMA LockNext == ASSUME IInv, [Next]_vars PROVE LockHeld'
<1> USE UndoAssumption DEF IInv, TypeOK, LockHeld, Phases, Running, Working
<1>1. CASE UNCHANGED vars
  BY <1>1 DEF vars
<1>2. CASE RemoveStaleLock
  BY <1>2 DEF RemoveStaleLock
<1>3. ASSUME NEW e \in Editors, CreateLock(e) PROVE LockHeld'
  BY <1>3 DEF CreateLock
<1>4. ASSUME NEW e \in Editors, Quit(e) PROVE LockHeld'
  BY <1>4 DEF Quit
<1>5. ASSUME NEW e \in Editors,
             Start(e) \/ EndInit(e) \/ PerformFails(e) \/ Export(e)
             \/ Crash(e) \/ Store(e) \/ Save(e)
      PROVE LockHeld'
  BY <1>5 DEF Start, EndInit, PerformFails, Export, Crash, Store, Save
<1>6. ASSUME NEW e \in Editors,
             Edit(e) \/ Perform(e) \/ \E n \in Slots : RemoveLeftover(e, n)
      PROVE LockHeld'
  <2>1. UNCHANGED <<phase, lockFile>>
    BY <1>6 DEF Edit, Perform, RemoveLeftover
  <2> QED
    BY <2>1
<1> QED
  BY <1>1, <1>2, <1>3, <1>4, <1>5, <1>6 DEF Next

LEMMA FreshNext == ASSUME IInv, [Next]_vars PROVE Fresh'
<1> USE DEF IInv, TypeOK, Fresh
<1>1. CASE UNCHANGED vars
  BY <1>1 DEF vars
<1>2. CASE RemoveStaleLock
  BY <1>2 DEF RemoveStaleLock
<1>3. ASSUME NEW e \in Editors, Start(e) \/ CreateLock(e) PROVE Fresh'
  BY <1>3 DEF Start, CreateLock
<1>4. ASSUME NEW e \in Editors, Store(e) \/ Save(e) \/ Perform(e) PROVE Fresh'
  BY <1>4 DEF Store, Save, Perform
<1>5. ASSUME NEW e \in Editors,
             EndInit(e) \/ PerformFails(e) \/ Export(e) \/ Crash(e) \/ Quit(e)
             \/ Edit(e) \/ \E n \in Slots : RemoveLeftover(e, n)
      PROVE Fresh'
  BY <1>5 DEF EndInit, PerformFails, Export, Crash, Quit, Edit, RemoveLeftover
<1> QED
  BY <1>1, <1>2, <1>3, <1>4, <1>5 DEF Next

(* Only the editor that works touches the files, so only its own records   *)
(* move.                                                                   *)
LEMMA WindowNext == ASSUME IInv, [Next]_vars PROVE Window'
<1> USE UndoAssumption DEF IInv, TypeOK, LockHeld, Working, Slots
<1>1. CASE UNCHANGED <<files, oldest, youngest, refused>>
           /\ \A e \in Editors :
                phase'[e] = phase[e] \/ phase'[e] \notin {"undo", "save"}
  BY <1>1 DEF Window, WindowOf
<1>2. CASE UNCHANGED vars \/ RemoveStaleLock
  BY <1>2, <1>1 DEF vars, RemoveStaleLock
<1>3. ASSUME NEW e \in Editors, PerformFails(e) \/ Quit(e) \/ Export(e)
                               \/ Edit(e)
      PROVE Window'
  BY <1>3, <1>1 DEF PerformFails, Quit, Export, Edit
<1>11. ASSUME NEW e \in Editors, CreateLock(e) PROVE Window'
  <2>1. CASE lockFile = Nobody
    <3>1. \A f \in Editors : phase'[f] \notin {"undo", "save"}
      BY <1>11, <2>1 DEF CreateLock
    <3> QED
      BY <3>1 DEF Window
  <2>2. CASE lockFile # Nobody
    BY <1>11, <2>2, <1>1 DEF CreateLock
  <2> QED
    BY <2>1, <2>2
<1>4. ASSUME NEW e \in Editors, Start(e) PROVE Window'
  BY <1>4 DEF Start, Window, WindowOf
<1>5. ASSUME NEW e \in Editors, NEW n \in Slots, RemoveLeftover(e, n)
      PROVE Window'
  <2>1. \A f \in Editors : phase'[f] \notin {"undo", "save"}
    BY <1>5 DEF RemoveLeftover
  <2> QED
    BY <2>1 DEF Window
<1>6. ASSUME NEW e \in Editors, EndInit(e) PROVE Window'
  <2>1. \A f \in Editors : phase'[f] \in {"undo", "save"} => f = e
    BY <1>6 DEF EndInit
  <2>2. oldest'[e] = 0 /\ youngest'[e] = 0 /\ phase'[e] = "undo"
    BY <1>6 DEF EndInit, Fresh
  <2>3. \A n \in Slots : files'[n] = Missing \/ n \in refused'
    BY <1>6 DEF EndInit
  <2>4. WindowOf(e)'
    BY <2>2, <2>3 DEF WindowOf
  <2> QED
    BY <2>1, <2>4 DEF Window
<1>7. ASSUME NEW e \in Editors, Store(e) PROVE Window'
  <2>1. WindowOf(e) /\ phase[e] = "undo" /\ phase' = [phase EXCEPT ![e] = "save"]
        /\ youngest' = youngest /\ youngest[e] <= LastFile
    BY <1>7 DEF Store, Window
  <2>2. \A f \in Editors : phase'[f] \in {"undo", "save"} => f = e
    BY <2>1
  <2>3. CASE Stored(e) >= MaxFiles
    <3>1. oldest'[e] = oldest[e] + 1 /\ Remove(oldest[e])
      BY <1>7, <2>3 DEF Store
    <3>2. oldest[e] + MaxFiles = youngest[e] /\ oldest[e] \in Slots
      <4>1. oldest[e] \in Nat /\ youngest[e] \in Nat
        OBVIOUS
      <4>2. oldest[e] + MaxFiles = youngest[e]
        <5>1. youngest[e] <= oldest[e] + MaxFiles
          BY <2>1 DEF WindowOf
        <5>2. youngest[e] - oldest[e] >= MaxFiles
          BY <2>3 DEF Stored
        <5> HIDE DEF IInv, TypeOK, LockHeld, Slots
        <5> QED
          BY <4>1, <5>1, <5>2, UndoAssumption
      <4> QED
        BY <2>1, <4>1, <4>2, UndoAssumption
    <3>3. /\ files'[oldest[e]] = Missing \/ oldest[e] \in refused'
          /\ \A n \in Slots \ {oldest[e]} :
               files'[n] = files[n] /\ (n \in refused' <=> n \in refused)
      <4>1. CASE /\ files' = [files EXCEPT ![oldest[e]] = Missing]
                 /\ refused' = refused \ {oldest[e]}
        BY <3>2, <4>1
      <4>2. CASE files' = files /\ refused' = refused \cup {oldest[e]}
        BY <3>2, <4>2
      <4> QED
        BY <3>1, <4>1, <4>2 DEF Remove
    <3>4. \A n \in oldest'[e]..(youngest'[e] - 1) :
            n \notin refused' => files'[n] \in Sceneries
      <4>1. \A n \in oldest'[e]..(youngest'[e] - 1) :
              /\ n \in oldest[e]..(youngest[e] - 1)
              /\ n \in Slots \ {oldest[e]}
        BY <2>1, <3>1, <3>2
      <4> QED
        BY <2>1, <3>3, <4>1 DEF WindowOf
    <3>5. \A n \in Slots \ refused' :
            files'[n] # Missing =>
              oldest'[e] <= n /\ n < oldest'[e] + MaxFiles
      <4> SUFFICES ASSUME NEW n \in Slots \ refused', files'[n] # Missing
                   PROVE  oldest'[e] <= n /\ n < oldest'[e] + MaxFiles
        OBVIOUS
      <4>1. n # oldest[e] /\ n \in Slots \ refused /\ files[n] # Missing
        BY <3>3
      <4>2. oldest[e] <= n /\ n < oldest[e] + MaxFiles
        BY <2>1, <4>1 DEF WindowOf
      <4>3. oldest[e] \in Nat /\ n \in Nat
        BY DEF Slots
      <4> QED
        BY <3>1, <4>1, <4>2, <4>3, UndoAssumption
    <3>6. WindowOf(e)'
      BY <2>1, <3>1, <3>2, <3>4, <3>5 DEF WindowOf
    <3> QED
      BY <2>2, <3>6 DEF Window
  <2>4. CASE ~(Stored(e) >= MaxFiles)
    <3>1. WindowOf(e)'
      BY <1>7, <2>1, <2>4 DEF Store, Stored, WindowOf
    <3> QED
      BY <2>2, <3>1 DEF Window
  <2> QED
    BY <2>3, <2>4
<1>8. ASSUME NEW e \in Editors, Save(e) PROVE Window'
  <2>1. /\ WindowOf(e) /\ phase[e] = "save"
        /\ phase' = [phase EXCEPT ![e] = "undo"] /\ oldest' = oldest
    BY <1>8 DEF Save, Window
  <2>2. \A f \in Editors : phase'[f] \in {"undo", "save"} => f = e
    BY <2>1
  <2> DEFINE n0 == youngest[e]
  <2>3. n0 \in Slots /\ oldest[e] <= n0 /\ n0 < oldest[e] + MaxFiles
    BY <2>1 DEF WindowOf
  <2>4. \A n \in Slots \ {n0} :
          files'[n] = files[n] /\ (n \in refused' <=> n \in refused)
    BY <1>8 DEF Save
  <2>5. \/ youngest' = youngest
        \/ /\ youngest' = [youngest EXCEPT ![e] = @ + 1]
           /\ files'[n0] \in Sceneries \/ n0 \in refused'
    BY <1>8, <2>3 DEF Save
  <2>6. \A n \in oldest'[e]..(youngest'[e] - 1) :
          n \notin refused' => files'[n] \in Sceneries
    <3>1. SUFFICES ASSUME NEW n \in oldest'[e]..(youngest'[e] - 1),
                          n \notin refused'
                   PROVE  files'[n] \in Sceneries
      OBVIOUS
    <3>2. CASE n = n0
      BY <2>1, <2>5, <3>1, <3>2
    <3>3. CASE n # n0
      <4>1. n \in oldest[e]..(youngest[e] - 1) /\ n \in Slots \ {n0}
        BY <2>1, <2>3, <2>5, <3>3
      <4> QED
        BY <2>1, <2>4, <3>1, <4>1 DEF WindowOf
    <3> QED
      BY <3>2, <3>3
  <2>7. \A n \in Slots \ refused' :
          files'[n] # Missing => oldest'[e] <= n /\ n < oldest'[e] + MaxFiles
    BY <2>1, <2>3, <2>4 DEF WindowOf
  <2>8. WindowOf(e)'
    BY <2>1, <2>3, <2>5, <2>6, <2>7 DEF WindowOf
  <2> QED
    BY <2>2, <2>8 DEF Window
<1>9. ASSUME NEW e \in Editors, Perform(e) PROVE Window'
  <2>1. /\ WindowOf(e) /\ phase[e] = "undo" /\ phase' = phase
        /\ refused' = refused
        /\ oldest' = oldest /\ files' = files /\ youngest[e] - oldest[e] > 0
        /\ youngest' = [youngest EXCEPT ![e] = @ - 1]
    BY <1>9 DEF Perform, Window, Stored
  <2>2. \A f \in Editors : phase'[f] \in {"undo", "save"} => f = e
    BY <2>1
  <2>3. WindowOf(e)'
    BY <2>1 DEF WindowOf
  <2> QED
    BY <2>2, <2>3 DEF Window
<1>10. ASSUME NEW e \in Editors, Crash(e) PROVE Window'
  <2>1. CASE phase[e] = "save"
    <3>1. \A f \in Editors : phase'[f] \notin {"undo", "save"}
      BY <1>10, <2>1 DEF Crash
    <3> QED
      BY <3>1 DEF Window
  <2>2. CASE phase[e] # "save"
    BY <1>10, <2>2, <1>1 DEF Crash
  <2> QED
    BY <2>1, <2>2
<1> QED
  BY <1>2, <1>3, <1>4, <1>5, <1>6, <1>7, <1>8, <1>9, <1>10,
     <1>11 DEF Next

LEMMA NextInv == ASSUME IInv, [Next]_vars PROVE IInv'
BY TypeNext, LockNext, FreshNext, WindowNext DEF IInv

LEMMA Inductive == Spec => []IInv
BY InitInv, NextInv, PTL DEF Spec

(* Every state is well typed, for any number of editors and files.         *)
THEOREM TypeCorrect == Spec => []TypeOK
<1>1. IInv => TypeOK
  BY DEF IInv
<1> QED
  BY <1>1, Inductive, PTL

(* Two editors never work on the temporary files at once: whoever works    *)
(* has made the lock file, and there is one.                               *)
THEOREM OneAtWork == Spec => []OneEditorAtWork
<1>1. IInv => OneEditorAtWork
  BY AtWork
<1> QED
  BY <1>1, Inductive, PTL

(* The records an editor counts are whole files, but for those the system  *)
(* would not take, and besides the files it would not remove or write      *)
(* there are no more than MaxFiles: they lie in one window of the numbers. *)
THEOREM RecordsKept == Spec => []RecordsOnDisk
<1>1. ASSUME IInv PROVE RecordsOnDisk
  <2> SUFFICES ASSUME NEW e \in Editors, phase[e] \in {"undo", "save"}
               PROVE /\ \A n \in oldest[e]..(youngest[e] - 1) :
                          n \notin refused => files[n] \in Sceneries
                     /\ Cardinality({n \in Slots \ refused :
                                       files[n] # Missing}) <= MaxFiles
    BY DEF RecordsOnDisk
  <2>1. WindowOf(e)
    BY <1>1 DEF IInv, Window
  <2> DEFINE a == oldest[e]
             I == a..(a + MaxFiles - 1)
             F == {n \in Slots \ refused : files[n] # Missing}
  <2>2. a \in Int /\ a + MaxFiles - 1 \in Int /\ MaxFiles \in Nat
    BY <1>1, UndoAssumption DEF IInv, TypeOK
  <2>3. IsFiniteSet(I) /\ Cardinality(I) = MaxFiles
    <3>1. ~(a > a + MaxFiles - 1) /\ (a + MaxFiles - 1) - a + 1 = MaxFiles
      BY <2>2, UndoAssumption
    <3> HIDE DEF a
    <3> QED
      BY <2>2, <3>1, FS_Interval
  <2>4. F \subseteq I
    BY <2>1, <2>2 DEF WindowOf, Slots
  <2>5. Cardinality(F) <= Cardinality(I)
    BY <2>3, <2>4, FS_Subset
  <2> QED
    BY <2>1, <2>3, <2>5 DEF WindowOf
<1> QED
  BY <1>1, Inductive, PTL

(* The files of an editor that died stay as they are: whoever changes one  *)
(* has made the lock file and works, and nobody else does a step.          *)
THEOREM LeftoversStay == Spec => LeftoversKept
<1>1. ASSUME IInv, [Next]_vars
      PROVE  [files' # files =>
                /\ lockFile # Nobody
                /\ phase[lockFile] \in Working
                /\ \A e \in Editors \ {lockFile} :
                     phase'[e] = phase[e] /\ scenery'[e] = scenery[e]]_vars
  <2> USE UndoAssumption DEF IInv, TypeOK, LockHeld, Working
  <2>1. ASSUME NEW e \in Editors,
               \/ \E n \in Slots : RemoveLeftover(e, n)
               \/ Store(e) \/ Save(e) \/ Crash(e)
        PROVE  files' # files =>
                 /\ lockFile # Nobody
                 /\ phase[lockFile] \in Working
                 /\ \A f \in Editors \ {lockFile} :
                      phase'[f] = phase[f] /\ scenery'[f] = scenery[f]
    <3>1. files' # files => phase[e] \in {"clean", "undo", "save"}
      BY <2>1 DEF RemoveLeftover, Remove, Store, Save, Crash
    <3>2. scenery' = scenery
      BY <2>1 DEF RemoveLeftover, Remove, Store, Save, Crash
    <3>3. \A f \in Editors \ {e} : phase'[f] = phase[f]
      <4>1. phase' = phase \/ \E p \in Phases : phase' = [phase EXCEPT ![e] = p]
        BY <2>1 DEF RemoveLeftover, Store, Save, Crash, Phases, Running
      <4>2. phase \in [Editors -> Phases]
        BY <1>1
      <4> QED
        BY <4>1, <4>2
    <3>4. phase[e] \in Working => lockFile = e /\ e # Nobody
      BY <1>1
    <3> QED
      BY <3>1, <3>2, <3>3, <3>4
  <2>2. ASSUME NEW e \in Editors,
               \/ Start(e) \/ CreateLock(e) \/ EndInit(e) \/ Edit(e)
               \/ Perform(e) \/ PerformFails(e) \/ Quit(e) \/ Export(e)
        PROVE  files' = files
    BY <2>2 DEF Start, CreateLock, EndInit, Edit, Perform, PerformFails, Quit,
                Export
  <2>3. RemoveStaleLock \/ UNCHANGED vars => files' = files
    BY DEF RemoveStaleLock, vars
  <2> QED
    BY <1>1, <2>1, <2>2, <2>3 DEF Next
<1> QED
  BY <1>1, Inductive, PTL DEF Spec, LeftoversKept

-----------------------------------------------------------------------------
(* The refinement.  While somebody holds the stack it is the only one at   *)
(* work, and its records are a sequence.                                   *)
LEMMA OnlyHolder ==
  ASSUME IInv, NEW e \in Editors, phase[e] \in Working
  PROVE  \A f \in Editors : phase[f] \in Working => f = e
BY DEF IInv, LockHeld

LEMMA ChooseOne ==
  ASSUME NEW S, NEW e, S = {e}
  PROVE  S # {} /\ (CHOOSE x \in S : TRUE) = e
OBVIOUS

LEMMA AppendIs ==
  ASSUME NEW S, NEW s \in Seq(S), NEW x \in S, NEW n, n = Len(s)
  PROVE  Append(s, x) = [i \in 1..(n + 1) |-> IF i <= n THEN s[i] ELSE x]
<1> DEFINE t == [i \in 1..(n + 1) |-> IF i <= n THEN s[i] ELSE x]
<1>1. n \in Nat
  OBVIOUS
<1>2. /\ Append(s, x) \in Seq(S) /\ Len(Append(s, x)) = n + 1
      /\ \A i \in 1..n : Append(s, x)[i] = s[i]
      /\ Append(s, x)[n + 1] = x
  BY AppendProperties
<1>3. t \in Seq(S) /\ Len(t) = n + 1
  <2>1. \A i \in 1..(n + 1) : (IF i <= n THEN s[i] ELSE x) \in S
    BY <1>1
  <2> QED
    BY <1>1, <2>1
<1>4. \A i \in 1..(n + 1) : Append(s, x)[i] = t[i]
  BY <1>1, <1>2
<1> HIDE DEF t
<1>5. Append(s, x) = t
  BY <1>1, <1>2, <1>3, <1>4, SeqEqual
<1> QED
  BY <1>5 DEF t

LEMMA TailIs ==
  ASSUME NEW S, NEW s \in Seq(S), Len(s) >= 1
  PROVE  Tail(s) = [i \in 1..(Len(s) - 1) |-> s[i + 1]]
<1> DEFINE t == [i \in 1..(Len(s) - 1) |-> s[i + 1]]
<1>1. /\ Tail(s) \in Seq(S) /\ Len(Tail(s)) = Len(s) - 1
      /\ \A i \in 1..(Len(s) - 1) : Tail(s)[i] = s[i + 1]
  OBVIOUS
<1>2. /\ t \in Seq(S) /\ Len(t) = Len(s) - 1
      /\ \A i \in 1..(Len(s) - 1) : t[i] = s[i + 1]
  OBVIOUS
<1> HIDE DEF t
<1>3. Tail(s) = t
  BY <1>1, <1>2, SeqEqual
<1> QED
  BY <1>3 DEF t

LEMMA Held ==
  ASSUME IInv, NEW e \in Editors, phase[e] \in {"undo", "save"}
  PROVE  /\ Holders = {e} /\ Holder = e /\ Stack = Records(e)
         /\ e # Nobody
         /\ Stored(e) \in Nat
         /\ Records(e) \in Seq(Sceneries \cup {Torn})
         /\ Len(Records(e)) = Stored(e)
<1>1. Holders = {e}
  BY OnlyHolder DEF Holders, Working
<1>2. Holder = e /\ Stack = Records(e)
  BY <1>1, ChooseOne DEF Holder, Stack
<1>3. WindowOf(e) /\ oldest[e] \in Nat /\ youngest[e] \in Nat
  BY DEF IInv, Window, TypeOK
<1>4. Stored(e) \in Nat
  BY <1>3 DEF Stored, WindowOf
<1>5. \A i \in 1..Stored(e) :
        Recorded(oldest[e] + i - 1) \in Sceneries \cup {Torn}
  BY <1>3, <1>4 DEF Stored, WindowOf, Recorded
<1> QED
  BY <1>1, <1>2, <1>4, <1>5, UndoAssumption DEF Records

(* Recorded after a step.                                                  *)
RecordedNext(n) == IF n \in refused' THEN Torn ELSE files'[n]

LEMMA NotHeld ==
  ASSUME Holders = {} PROVE Holder = Nobody /\ Stack = <<>>
BY DEF Holder, Stack

(* The abstract state is the same if the phases that count, the records of *)
(* the holder and the sceneries are.                                       *)
LEMMA SameStack ==
  ASSUME Holders' = Holders, UNCHANGED <<files, oldest, youngest, refused>>
  PROVE  Holder' = Holder /\ Stack' = Stack
BY DEF Holder, Stack, Records, Recorded, Stored

LEMMA Step ==
  ASSUME IInv, IInv', [Next]_vars
  PROVE  [Undoing!Next]_(Undoing!svars)
<1> USE UndoAssumption
<1> TypeOK /\ LockHeld
  BY DEF IInv
<1>1. ASSUME Holders' = Holders,
             UNCHANGED <<files, oldest, youngest, scenery, refused>>
      PROVE  UNCHANGED Undoing!svars
  BY <1>1, SameStack DEF Undoing!svars
<1>2. CASE UNCHANGED vars \/ RemoveStaleLock
  <2>1. Holders' = Holders
    BY <1>2 DEF vars, RemoveStaleLock, Holders
  <2> QED
    BY <1>1, <1>2, <2>1 DEF vars, RemoveStaleLock
<1>3. ASSUME NEW e \in Editors, CreateLock(e) PROVE UNCHANGED Undoing!svars
  <2>1. Holders' = Holders
    BY <1>3 DEF CreateLock, Holders, TypeOK
  <2>2. CASE lockFile = Nobody
    <3>1. Holders = {} /\ Holders' = {}
      BY <2>1, <2>2 DEF Holders, LockHeld, Working
    <3> QED
      BY <1>3, <3>1 DEF Holder, Stack, Undoing!svars, CreateLock
  <2>3. CASE lockFile # Nobody
    BY <1>1, <1>3, <2>1, <2>3 DEF CreateLock
  <2> QED
    BY <2>2, <2>3
<1>4. ASSUME NEW e \in Editors, Start(e) PROVE Undoing!Restart(e)
  <2>1. e \notin Holders /\ Holders' = Holders
    BY <1>4 DEF Start, Holders, TypeOK
  <2>2. CASE Holders = {}
    <3>1. Holder' = Nobody /\ Stack' = <<>>
      BY <2>1, <2>2 DEF Holder, Stack
    <3> QED
      BY <1>4, <2>2, <3>1, NotHeld DEF Start, Undoing!Restart
  <2>3. ASSUME NEW f \in Holders PROVE Undoing!Restart(e)
    <3>1. f \in Editors /\ phase[f] \in {"undo", "save"} /\ f # e
      BY <2>1, <2>3 DEF Holders
    <3>2. Holders = {f} /\ Holder = f /\ Stack = Records(f)
      BY <3>1, Held
    <3>3. Holder' = f /\ Stack' = Records(f)'
      BY <2>1, <3>2, ChooseOne DEF Holder, Stack
    <3>4. Records(f)' = Records(f)
      BY <1>4, <3>1 DEF Start, Records, Recorded, Stored, TypeOK
    <3> QED
      BY <1>4, <3>2, <3>3, <3>4 DEF Start, Undoing!Restart
  <2> QED
    BY <2>2, <2>3
<1>5. ASSUME NEW e \in Editors, NEW n \in Slots, RemoveLeftover(e, n)
      PROVE  UNCHANGED Undoing!svars
  <2>1. Holders = {} /\ Holders' = {}
    BY <1>5, OnlyHolder DEF RemoveLeftover, Holders, Working
  <2> QED
    BY <1>5, <2>1 DEF Holder, Stack, Undoing!svars, RemoveLeftover
<1>6. ASSUME NEW e \in Editors, EndInit(e) PROVE Undoing!Begin(e)
  <2>1. Holders = {}
    BY <1>6, OnlyHolder DEF EndInit, Holders, Working
  <2>2. Holders' = {e}
    BY <1>6, OnlyHolder DEF EndInit, Holders, Working, TypeOK
  <2>3. Holder' = e /\ Stack' = Records(e)'
    BY <2>2, ChooseOne DEF Holder, Stack
  <2>4. Stored(e)' = 0
    BY <1>6 DEF EndInit, Stored, IInv, Fresh
  <2>5. Records(e)' = <<>>
    BY <2>4 DEF Records
  <2> QED
    BY <1>6, <2>1, <2>3, <2>5, NotHeld DEF Undoing!Begin, EndInit
<1>7. ASSUME NEW e \in Editors, Edit(e) PROVE Undoing!Edit(e)
  <2>1. Holders' = Holders
    BY <1>7 DEF Edit, Holders
  <2> QED
    BY <1>7, <2>1, SameStack DEF Edit, Undoing!Edit
<1>8. ASSUME NEW e \in Editors, Store(e)
      PROVE  Undoing!DropOldest \/ UNCHANGED Undoing!svars
  <2>1. phase[e] = "undo" /\ phase' = [phase EXCEPT ![e] = "save"]
    BY <1>8 DEF Store
  <2>2. Holder = e /\ Stack = Records(e) /\ Stored(e) \in Nat
    BY <2>1, Held
  <2>3. Holders' = Holders
    BY <2>1 DEF Holders, TypeOK
  <2>4. Holder' = e /\ Stack' = Records(e)'
    BY <2>1, <2>2, <2>3, Held, ChooseOne DEF Holder, Stack
  <2>5. oldest[e] \in Nat /\ youngest[e] \in Nat /\ WindowOf(e)
    BY <2>1 DEF TypeOK, IInv, Window
  <2>6. CASE Stored(e) >= MaxFiles
    <3>1. /\ oldest' = [oldest EXCEPT ![e] = @ + 1] /\ youngest' = youngest
          /\ Remove(oldest[e])
      BY <1>8, <2>6 DEF Store
    <3>2. Stored(e) = MaxFiles
      BY <2>5, <2>6 DEF Stored, WindowOf
    <3>3. Stored(e)' = Stored(e) - 1
      BY <2>5, <3>1 DEF Stored, TypeOK
    <3>4. /\ Len(Records(e)) = MaxFiles /\ Records(e) \in Seq(Sceneries \cup {Torn})
          /\ Stored(e)' \in Nat
      BY <2>1, <2>2, <3>2, <3>3, Held
    <3>5. \A i \in 1..(Stored(e) - 1) :
            RecordedNext(oldest[e] + i) = Records(e)[i + 1]
      <4>1. \A n \in Slots \ {oldest[e]} : RecordedNext(n) = Recorded(n)
        BY <3>1 DEF Remove, Recorded, RecordedNext, TypeOK
      <4>2. \A i \in 1..(Stored(e) - 1) :
              /\ oldest[e] + i \in Slots \ {oldest[e]}
              /\ i + 1 \in 1..Stored(e) /\ oldest[e] + (i + 1) - 1 = oldest[e] + i
        BY <2>2, <2>5, <3>2 DEF Slots, Stored, WindowOf
      <4> QED
        BY <4>1, <4>2 DEF Records
    <3>6. Records(e)' = [i \in 1..(Stored(e) - 1) |-> Records(e)[i + 1]]
      <4>1. Records(e)'
              = [i \in 1..(Stored(e) - 1) |-> RecordedNext(oldest'[e] + i - 1)]
        BY <3>3 DEF Records, Recorded, RecordedNext
      <4>2. \A i \in 1..(Stored(e) - 1) : oldest'[e] + i - 1 = oldest[e] + i
        BY <2>2, <2>5, <3>1 DEF TypeOK
      <4> QED
        BY <3>5, <4>1, <4>2
    <3>7. Tail(Records(e)) = [i \in 1..(Stored(e) - 1) |-> Records(e)[i + 1]]
      BY <3>2, <3>4, TailIs
    <3> QED
      BY <1>8, <2>2, <2>4, <3>4, <3>6, <3>7 DEF Undoing!DropOldest, Store
  <2>7. CASE ~(Stored(e) >= MaxFiles)
    BY <1>1, <1>8, <2>3, <2>7 DEF Store
  <2> QED
    BY <2>6, <2>7
<1>9. ASSUME NEW e \in Editors, Save(e)
      PROVE  Undoing!Record \/ UNCHANGED Undoing!svars
  <2>1. phase[e] = "save" /\ phase' = [phase EXCEPT ![e] = "undo"]
    BY <1>9 DEF Save
  <2>2. Holder = e /\ Stack = Records(e) /\ Stored(e) \in Nat /\ e # Nobody
        /\ Records(e) \in Seq(Sceneries \cup {Torn}) /\ Len(Records(e)) = Stored(e)
    BY <2>1, Held
  <2>3. Holders' = Holders
    BY <2>1 DEF Holders, TypeOK
  <2>4. Holder' = e /\ Stack' = Records(e)'
    BY <2>1, <2>2, <2>3, Held, ChooseOne DEF Holder, Stack
  <2>5. oldest[e] \in Nat /\ youngest[e] \in Nat /\ WindowOf(e)
    BY <2>1 DEF TypeOK, IInv, Window
  <2>6. Stored(e) < MaxFiles
    BY <2>1, <2>5 DEF Stored, WindowOf
  <2>7. \A i \in 1..Stored(e) : RecordedNext(oldest[e] + i - 1) = Records(e)[i]
    <3>1. \A n \in Slots \ {youngest[e]} : RecordedNext(n) = Recorded(n)
      BY <1>9 DEF Save, Recorded, RecordedNext, TypeOK
    <3>2. \A i \in 1..Stored(e) : oldest[e] + i - 1 \in Slots \ {youngest[e]}
      BY <2>2, <2>5 DEF Stored, WindowOf, Slots
    <3> QED
      BY <3>1, <3>2 DEF Records
  <2>8. oldest' = oldest
    BY <1>9 DEF Save
  <2>9. Records(e)' = [i \in 1..Stored(e)' |-> RecordedNext(oldest[e] + i - 1)]
    BY <2>8 DEF Records, Recorded, RecordedNext
  <2>10. CASE youngest' = [youngest EXCEPT ![e] = @ + 1]
    <3>1. Stored(e)' = Stored(e) + 1
      BY <2>5, <2>8, <2>10 DEF Stored, TypeOK
    <3> DEFINE x == RecordedNext(youngest[e])
    <3>2. x \in {scenery[e], Torn}
      <4>1. youngest[e] \in Slots
        BY <2>1, <2>5 DEF WindowOf, Slots
      <4>2. youngest' # youngest
        BY <2>5, <2>10 DEF TypeOK
      <4> QED
        BY <1>9, <4>1, <4>2 DEF TypeOK, RecordedNext, Save
    <3>3. oldest[e] + (Stored(e) + 1) - 1 = youngest[e]
      BY <2>5 DEF Stored
    <3>4. Records(e)' = [i \in 1..(Stored(e) + 1) |->
                           IF i <= Stored(e) THEN Records(e)[i] ELSE x]
      BY <2>2, <2>7, <2>9, <3>1, <3>3
    <3> HIDE DEF x
    <3>5. scenery[e] \in Sceneries
      BY DEF TypeOK
    <3>6. Append(Records(e), x)
            = [i \in 1..(Stored(e) + 1) |->
                 IF i <= Stored(e) THEN Records(e)[i] ELSE x]
      BY <2>2, <3>2, <3>5, AppendIs
    <3> QED
      BY <1>9, <2>2, <2>4, <2>6, <3>2, <3>4, <3>6 DEF Undoing!Record, Save
  <2>11. CASE youngest' = youngest
    <3>1. Stored(e)' = Stored(e)
      BY <2>8, <2>11 DEF Stored
    <3>2. Records(e)' = Records(e)
      BY <2>7, <2>9, <3>1 DEF Records
    <3> QED
      BY <1>9, <2>2, <2>4, <3>2 DEF Save, Undoing!svars
  <2> QED
    BY <1>9, <2>10, <2>11 DEF Save
<1>10. ASSUME NEW e \in Editors, Perform(e) PROVE Undoing!TakeBack
  <2>1. phase[e] = "undo" /\ phase' = phase
    BY <1>10 DEF Perform
  <2>2. Holder = e /\ Stack = Records(e) /\ Stored(e) \in Nat
        /\ Records(e) \in Seq(Sceneries \cup {Torn}) /\ Len(Records(e)) = Stored(e)
    BY <2>1, Held
  <2>3. Holders' = Holders
    BY <2>1 DEF Holders
  <2>4. Holder' = e /\ Stack' = Records(e)'
    BY <2>1, <2>2, <2>3, Held, ChooseOne DEF Holder, Stack
  <2>5. oldest[e] \in Nat /\ youngest[e] \in Nat /\ Stored(e) > 0
    BY <1>10 DEF TypeOK, Perform
  <2>6. Records(e)[Stored(e)] = Recorded(youngest[e] - 1)
    BY <2>2, <2>5 DEF Records, Stored
  <2>11. PICK s \in Sceneries :
           /\ files[youngest[e] - 1] \in {s, Torn}
           /\ files[youngest[e] - 1] # Pointless
           /\ scenery' = [scenery EXCEPT ![e] = s]
    BY <1>10 DEF Perform, Loadable
  <2>12. /\ Recorded(youngest[e] - 1) \in {s, Torn}
         /\ Recorded(youngest[e] - 1) # Pointless
    BY <2>11 DEF Recorded
  <2>7. Stored(e)' = Stored(e) - 1
    BY <1>10, <2>5 DEF Stored, Perform, TypeOK
  <2>8. Records(e)' = [i \in 1..(Stored(e) - 1) |-> Records(e)[i]]
    BY <1>10, <2>2, <2>7 DEF Records, Recorded, Perform
  <2>9. SubSeq(Records(e), 1, Stored(e) - 1)
          = [i \in 1..(Stored(e) - 1) |-> Records(e)[i]]
    BY <2>2, <2>5
  <2>10. Stack # <<>>
    BY <2>2, <2>5
  <2> QED
    BY <2>2, <2>4, <2>6, <2>8, <2>9, <2>10, <2>11, <2>12 DEF Undoing!TakeBack
<1>11. ASSUME NEW e \in Editors,
              PerformFails(e) \/ Quit(e) \/ Export(e) \/ Crash(e)
       PROVE  Undoing!End \/ UNCHANGED Undoing!svars
  <2>1. phase' = [phase EXCEPT ![e] = "off"] /\ scenery' = scenery
        /\ oldest' = oldest /\ youngest' = youngest
    BY <1>11 DEF PerformFails, Quit, Export, Crash
  <2>2. CASE phase[e] \in {"undo", "save"}
    <3>1. Holders' = {}
      BY <2>1, <2>2, OnlyHolder DEF Holders, Working, TypeOK
    <3>2. Holder' = Nobody /\ Stack' = <<>>
      BY <3>1 DEF Holder, Stack
    <3> QED
      BY <2>1, <3>2 DEF Undoing!End
  <2>3. CASE phase[e] \notin {"undo", "save"}
    <3>1. Holders' = Holders
      BY <2>1, <2>3 DEF Holders, TypeOK
    <3>2. files' = files /\ refused' = refused
      BY <1>11, <2>3 DEF PerformFails, Quit, Export, Crash
    <3> QED
      BY <1>1, <2>1, <3>1, <3>2
  <2> QED
    BY <2>2, <2>3
<1> QED
  BY <1>2, <1>3, <1>4, <1>5, <1>6, <1>7, <1>8, <1>9, <1>10, <1>11
     DEF Next, Undoing!Next

(* The lock, the numbers and the files implement the bounded stack.        *)
THEOREM ImplementsStack == Spec => UndoSpec
<1>1. Init => Undoing!Init
  <2> SUFFICES ASSUME Init PROVE Undoing!Init
    OBVIOUS
  <2>1. Holders = {}
    BY DEF Init, Holders
  <2> QED
    BY <2>1, NotHeld DEF Init, Undoing!Init
<1>2. IInv /\ IInv' /\ [Next]_vars => [Undoing!Next]_(Undoing!svars)
  BY Step
<1> QED
  BY <1>1, <1>2, Inductive, PTL DEF Spec, UndoSpec, Undoing!Spec
=============================================================================
