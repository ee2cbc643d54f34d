------------------------- MODULE VisionEventsProofs -------------------------
(***************************************************************************)
(* Proofs about VisionEvents for every set of people, of enrolled people   *)
(* and every bound: its types, and that what the loop takes as known is in *)
(* the rows.                                                               *)
(***************************************************************************)
EXTENDS VisionEvents, FiniteSetTheorems, TLAPS

USE VisionAssumption

(* No more people are counted than there are.                               *)
LEMMA CountTypes ==
  ASSUME NEW S \in SUBSET People
  PROVE  Cardinality(S) \in 0 .. Cardinality(People)
<1>1. /\ IsFiniteSet(S) /\ IsFiniteSet(People)
      /\ Cardinality(S) <= Cardinality(People)
  BY FS_Subset
<1>2. Cardinality(S) \in Nat /\ Cardinality(People) \in Nat
  BY <1>1, FS_CardinalityType
<1> QED BY <1>1, <1>2

(* A bound is spent down to 0.                                              *)
LEMMA SpendTypes ==
  ASSUME left \in [Bounds -> Nat], NEW b \in Bounds, Spend(b)
  PROVE  left' \in [Bounds -> Nat]
<1>1. left[b] \in Nat /\ left[b] - 1 \in Nat
  BY DEF Spend
<1> QED BY <1>1 DEF Spend

-----------------------------------------------------------------------------
(* Every state of every behaviour has the types of VisionEvents.             *)
THEOREM TypeCorrect == Spec => []TypeOK
<1>1. Init => TypeOK
  <2> SUFFICES ASSUME Init PROVE TypeOK
    OBVIOUS
  <2>1. 0 \in 0 .. Cardinality(People)
    BY CountTypes, FS_EmptySet
  <2>2. left \in [Bounds -> Nat]
    BY DEF Init
  <2>3. active \in BOOLEAN
    BY DEF Init
  <2> QED BY <2>1, <2>2, <2>3 DEF Init, TypeOK
<1>2. TypeOK /\ [Next]_vars => TypeOK'
  <2> SUFFICES ASSUME TypeOK, [Next]_vars PROVE TypeOK'
    OBVIOUS
  <2> USE DEF TypeOK
  <2>1. CASE \E p \in People : Move(p)
    <3>1. PICK p \in People : Move(p)
      BY <2>1
    <3>2. left' \in [Bounds -> Nat]
      BY <3>1, SpendTypes DEF Move, Bounds
    <3>3. room' \in SUBSET People
      BY <3>1 DEF Move
    <3> QED BY <3>1, <3>2, <3>3 DEF Move, poll, written
  <2>2. CASE Command
    <3>1. left' \in [Bounds -> Nat]
      BY <2>2, SpendTypes DEF Command, Bounds
    <3>2. active' \in BOOLEAN
      BY <2>2, Zenon DEF Command
    <3> QED BY <2>2, <3>1, <3>2 DEF Command, poll, written
  <2>3. CASE Restart
    <3>1. left' \in [Bounds -> Nat]
      BY <2>3, SpendTypes DEF Restart, Bounds
    <3>2. 0 \in 0 .. Cardinality(People)
      BY CountTypes, FS_EmptySet
    <3>3. active' \in BOOLEAN
      BY <2>3 DEF Restart
    <3> QED BY <2>3, <3>1, <3>2, <3>3 DEF Restart
  <2>4. CASE Check
    BY <2>4 DEF Check, world, poll, written
  <2>5. CASE GetFrame
    BY <2>5 DEF GetFrame, world, written
  <2>6. CASE Detect
    BY <2>6, CountTypes DEF Detect, world, poll
  <2>7. CASE Count
    BY <2>7, CountTypes DEF Count, world, poll, written
  <2>8. CASE Recognize
    <3>1. left' \in [Bounds -> Nat]
      BY <2>8, SpendTypes DEF Recognize, Bounds
    <3> QED BY <2>8, <3>1 DEF Recognize, written
  <2>9. CASE \E n \in Enrolled : LogName(n)
    BY <2>9 DEF LogName, world
  <2>10. CASE NamesDone
    BY <2>10 DEF NamesDone, world, poll, written
  <2>11. CASE Fails
    <3>1. left' \in [Bounds -> Nat]
      BY <2>11, SpendTypes DEF Fails, Bounds
    <3> QED BY <2>11, <3>1 DEF Fails, poll, written
  <2>12. CASE UNCHANGED vars
    BY <2>12 DEF vars
  <2> QED BY <2>1, <2>2, <2>3, <2>4, <2>5, <2>6, <2>7, <2>8, <2>9, <2>10,
             <2>11, <2>12 DEF Next, Loop
<1> QED BY <1>1, <1>2, PTL DEF Spec

-----------------------------------------------------------------------------
(* While the new names are being written, those no longer pending are in the *)
(* rows: what makes NamesDone keep RowsTellAll.                              *)
NamesWritten == pc = "names" => names \ pending \subseteq named

RowsInv == RowsTellAll /\ NamesWritten

(* In every reachable state the latest presence row and the names in the     *)
(* rows tell all that the loop takes as known, whatever fails and whenever   *)
(* SON is started again.                                                     *)
THEOREM RowsCorrect == Spec => []RowsTellAll
<1>1. Init => RowsInv
  BY DEF Init, RowsInv, RowsTellAll, NamesWritten
<1>2. RowsInv /\ [Next]_vars => RowsInv'
  <2> SUFFICES ASSUME RowsInv, [Next]_vars PROVE RowsInv'
    OBVIOUS
  <2> USE DEF RowsInv, RowsTellAll, NamesWritten
  <2>1. CASE \E p \in People : Move(p)
    BY <2>1 DEF Move, poll, written
  <2>2. CASE Command
    BY <2>2 DEF Command, poll, written
  <2>3. CASE Restart
    BY <2>3 DEF Restart
  <2>4. CASE Check
    BY <2>4 DEF Check, poll, written
  <2>5. CASE GetFrame
    BY <2>5 DEF GetFrame, written
  <2>6. CASE Detect
    BY <2>6 DEF Detect, poll
  <2>7. CASE Count
    BY <2>7 DEF Count, poll, written
  <2>8. CASE Recognize
    BY <2>8 DEF Recognize, written
  <2>9. CASE \E n \in Enrolled : LogName(n)
    BY <2>9 DEF LogName
  <2>10. CASE NamesDone
    BY <2>10 DEF NamesDone, poll, written
  <2>11. CASE Fails
    BY <2>11 DEF Fails, poll, written
  <2>12. CASE UNCHANGED vars
    BY <2>12 DEF vars
  <2> QED BY <2>1, <2>2, <2>3, <2>4, <2>5, <2>6, <2>7, <2>8, <2>9, <2>10,
             <2>11, <2>12 DEF Next, Loop
<1>3. RowsInv => RowsTellAll
  BY DEF RowsInv
<1> QED BY <1>1, <1>2, <1>3, PTL DEF Spec
=============================================================================
