--------------------------- MODULE PaginationProofs ---------------------------
(***************************************************************************)
(* What a walk through GET /jobs shows, for any number of jobs, any page   *)
(* size and any interleaving with other requests.                          *)
(***************************************************************************)
EXTENDS Pagination, FiniteSetTheorems, TLAPS

USE Zenon

(* The cursor gives back the created_at it was made from.                  *)
LEMMA CursorRoundTrip ==
  ASSUME NEW t \in Nat
  PROVE  EncodeCursor(t) \in Nat \X Nat /\ DecodeCursor(EncodeCursor(t)) = t
  <1>1. Second \in Nat \ {0}
    BY PageAssumption
  <1>2. t \div Second \in Nat /\ t % Second \in Nat
    BY <1>1, SMT
  <1>3. (t \div Second) * Second + (t % Second) = t
    BY <1>1, SMT
  <1>. QED
    BY <1>2, <1>3, SMT DEF EncodeCursor, DecodeCursor

-----------------------------------------------------------------------------
PageType ==
  /\ createdAt \in [Jobs -> Times \cup {NoTime}]
  /\ listed \subseteq Rows /\ steady \subseteq listed /\ shown \subseteq Rows
  /\ cursor \in Nat \X Nat /\ walking \in BOOLEAN

(* Rows the next page may have.                                            *)
Ahead(j) == cursor = NoCursor \/ createdAt[j] < DecodeCursor(cursor)

(* What was shown is behind the cursor, so that no later page has it.      *)
Behind == walking => \A j \in shown : ~Ahead(j)

(* What has not been shown is ahead of the cursor.                         *)
NothingLost ==
  /\ UniqueTimes => Distinct(createdAt)
  /\ \A j \in steady : j \in shown \/ (walking /\ Ahead(j))

LEMMA TimesAreNat ==
  ASSUME PageType, NEW j \in Rows
  PROVE  j \in Jobs /\ createdAt[j] \in Nat \ {0}
<1>1. MaxTime \in Nat
  BY PageAssumption
<1>. QED  BY <1>1, SMT DEF PageType, Rows, Times, NoTime

(* A change of the table moves no row's created_at.                        *)
LEMMA ChangeKeepsTimes ==
  ASSUME PageType, Change
  PROVE  /\ PageType'
         /\ \A j \in Rows : j \in Rows' /\ createdAt'[j] = createdAt[j]
         /\ steady' \subseteq steady
         /\ UniqueTimes /\ Distinct(createdAt) => Distinct(createdAt)'
         /\ UNCHANGED walk
<1>. PageType
  OBVIOUS
<1>1. PICK i \in Jobs : CreateJob(i) \/ ChangeStatus(i) \/ DeleteJob(i)
  BY DEF Change
<1>2. CASE CreateJob(i)
  <2>1. PICK t \in Times : createdAt' = [createdAt EXCEPT ![i] = t] /\ (UniqueTimes => Distinct(createdAt'))
    BY <1>2 DEF CreateJob
  <2>2. t # NoTime
    BY PageAssumption, SMT DEF Times, NoTime
  <2>3. createdAt' \in [Jobs -> Times \cup {NoTime}] /\ Rows' = Rows \cup {i} /\ i \notin Rows
    BY <1>2, <2>1, <2>2, SMT DEF PageType, Rows, CreateJob
  <2>4. \A j \in Rows : createdAt'[j] = createdAt[j]
    BY <2>1, <2>3 DEF PageType, Rows
  <2>. QED  BY <1>2, <2>1, <2>3, <2>4 DEF CreateJob, PageType, walk, Distinct
<1>3. CASE ChangeStatus(i) \/ DeleteJob(i)
  BY <1>3 DEF ChangeStatus, DeleteJob, PageType, walk, Rows, Distinct
<1>. QED  BY <1>1, <1>2, <1>3

(* The page is the newest part of what is ahead: without next_cursor it is *)
(* all of it.                                                              *)
LEMMA LastPageIsWhole ==
  ASSUME PageType, NEW P \in SUBSET Jobs, IsPage(P), Limit \in 1..MaxLimit,
         ~(Cardinality(P) = Limit /\ P # {})
  PROVE  P = BeforeCursor
<1>1. IsFiniteSet(P) /\ Cardinality(P) \in Nat
  BY PageAssumption, FS_Subset, FS_CardinalityType
<1>2. P = {} => Cardinality(P) = 0
  BY FS_EmptySet
<1>3. EffectiveLimit = Limit /\ Limit \in Int /\ Limit > 0
  BY PageAssumption, SMT DEF EffectiveLimit
<1>4. Cardinality(P) < EffectiveLimit
  BY <1>1, <1>2, <1>3, SMT DEF IsPage
<1>. QED  BY <1>4 DEF IsPage

(* A page is ahead of the old cursor and behind the new one; with distinct *)
(* times what it leaves is ahead of the new one.                           *)
LEMMA PageAdvances ==
  ASSUME PageType, Behind, NEW P \in SUBSET Jobs, ListPage(P)
  PROVE  /\ PageType' /\ Behind' /\ shown \cap P = {}
         /\ \A j \in listed : j \in P \/ ~Ahead(j) \/ (walking' /\ Ahead(j)')
                              \/ ~walking' \/ ~(UniqueTimes /\ Distinct(createdAt))
<1>. PageType /\ walking /\ IsPage(P) /\ UNCHANGED <<createdAt, listed, deleted, steady>>
  BY DEF ListPage, rows
<1>1. P \subseteq listed /\ P \subseteq Rows /\ \A j \in P : Ahead(j)
  BY DEF IsPage, BeforeCursor, Ahead, PageType
<1>2. shown \cap P = {}
  BY <1>1 DEF Behind
<1>3. Rows' = Rows /\ shown' = shown \cup P /\ shown' \subseteq Rows'
  BY <1>1 DEF ListPage, Rows, PageType
<1>4. CASE Cardinality(P) = Limit /\ P # {}
  <2>1. PICK p \in P : /\ \A q \in P : createdAt[p] <= createdAt[q]
                       /\ cursor' = EncodeCursor(createdAt[p])
    BY <1>4 DEF ListPage
  <2>2. createdAt[p] \in Nat \ {0}
    BY <1>1, TimesAreNat
  <2>3. cursor' \in Nat \X Nat /\ DecodeCursor(cursor') = createdAt[p]
    BY <2>1, <2>2, CursorRoundTrip
  <2>4. cursor' # NoCursor
    <3>1. DecodeCursor(NoCursor) = 0
      BY PageAssumption, SMT DEF DecodeCursor, NoCursor
    <3>. QED  BY <2>2, <2>3, <3>1
  <2>5. walking' = walking
    BY <1>4 DEF ListPage
  <2>6. \A j \in Rows : Ahead(j)' <=> createdAt[j] < createdAt[p]
    BY <2>3, <2>4 DEF Ahead
  <2>7. \A j \in P : ~Ahead(j)'
    BY <1>1, <2>1, <2>2, <2>6, TimesAreNat, SMT
  <2>8. ASSUME NEW j \in shown  PROVE ~Ahead(j)'
    <3>1. j \in Rows /\ createdAt[j] \in Nat /\ p \in Rows
      BY <1>1, TimesAreNat DEF PageType
    <3>2. cursor # NoCursor /\ ~(createdAt[j] < DecodeCursor(cursor))
      BY DEF Behind, Ahead
    <3>3. createdAt[p] < DecodeCursor(cursor)
      BY <1>1, <3>2 DEF Ahead
    <3>4. DecodeCursor(cursor) \in Nat
      BY PageAssumption, SMT DEF DecodeCursor, PageType
    <3>5. ~(createdAt[j] < createdAt[p])
      BY <2>2, <3>1, <3>2, <3>3, <3>4, SMT
    <3>. QED  BY <2>6, <3>1, <3>5
  <2>9. ASSUME NEW j \in listed, j \notin P, Ahead(j), UniqueTimes, Distinct(createdAt)
        PROVE  Ahead(j)'
    <3>1. j \in Rows /\ p \in Rows /\ j \in Jobs /\ p \in Jobs
      BY <1>1 DEF PageType, Rows
    <3>2. createdAt[p] >= createdAt[j]
      BY <2>9 DEF IsPage, BeforeCursor, Ahead
    <3>3. createdAt[p] # createdAt[j]
      BY <2>9, <3>1 DEF Distinct, Rows
    <3>4. createdAt[j] < createdAt[p]
      BY <2>2, <3>1, <3>2, <3>3, TimesAreNat, SMT
    <3>. QED  BY <2>6, <3>1, <3>4
  <2>. QED  BY <1>2, <1>3, <2>3, <2>5, <2>7, <2>8, <2>9 DEF PageType, Behind
<1>5. CASE ~(Cardinality(P) = Limit /\ P # {})
  BY <1>2, <1>3, <1>5 DEF ListPage, PageType, Behind
<1>. QED  BY <1>4, <1>5

-----------------------------------------------------------------------------
(* No row is shown twice in a walk: for every page size, also with equal   *)
(* created_at, and whatever other requests do to the table meanwhile.      *)
THEOREM NoRowShownTwice == Spec => []NoDuplicates
<1>. DEFINE Inv == PageType /\ Behind /\ NoDuplicates
<1>1. Init => Inv
  BY SMT DEF Init, PageType, Behind, NoDuplicates, NoCursor, Rows
<1>2. Inv /\ [Next]_vars => Inv'
  <2>. SUFFICES ASSUME Inv, [Next]_vars  PROVE Inv'
    OBVIOUS
  <2>1. CASE Change
    <3>1. PageType' /\ UNCHANGED walk /\ \A j \in Rows : createdAt'[j] = createdAt[j]
      BY <2>1, ChangeKeepsTimes
    <3>. QED  BY <3>1 DEF walk, Behind, Ahead, NoDuplicates, PageType
  <2>2. ASSUME NEW P \in SUBSET Jobs, ListPage(P)  PROVE Inv'
    <3>1. PageType' /\ Behind' /\ shown \cap P = {}
      BY <2>2, PageAdvances
    <3>. QED  BY <2>2, <3>1 DEF ListPage, NoDuplicates
  <2>3. CASE UNCHANGED vars
    BY <2>3 DEF vars, PageType, Rows, Behind, Ahead, NoDuplicates
  <2>. QED  BY <2>1, <2>2, <2>3 DEF Next, Walk
<1>. QED  BY <1>1, <1>2, PTL DEF Spec

(* A finished walk has shown every row that was listed throughout, if no   *)
(* two rows share a created_at and the limit asked for is in range; the    *)
(* runs same_time and clamped show that it needs both.                     *)
THEOREM NoRowSkipped ==
  ASSUME UniqueTimes, Limit \in 1..MaxLimit
  PROVE  Spec => []NoSkips
<1>. DEFINE Inv == PageType /\ Behind /\ NothingLost
<1>1. Init => Inv
  BY SMT DEF Init, PageType, Behind, NothingLost, Ahead, NoCursor, Rows
<1>2. Inv /\ [Next]_vars => Inv'
  <2>. SUFFICES ASSUME Inv, [Next]_vars  PROVE Inv'
    OBVIOUS
  <2>. Distinct(createdAt)
    BY DEF NothingLost
  <2>1. CASE Change
    <3>1. /\ PageType' /\ UNCHANGED walk /\ \A j \in Rows : createdAt'[j] = createdAt[j]
          /\ steady' \subseteq steady /\ Distinct(createdAt)'
      BY <2>1, ChangeKeepsTimes
    <3>. QED  BY <3>1 DEF walk, Behind, Ahead, NothingLost, PageType
  <2>2. ASSUME NEW P \in SUBSET Jobs, ListPage(P)  PROVE Inv'
    <3>1. /\ PageType' /\ Behind'
          /\ \A j \in listed : j \in P \/ ~Ahead(j) \/ (walking' /\ Ahead(j)') \/ ~walking'
      BY <2>2, PageAdvances
    <3>2. shown' = shown \cup P /\ steady' = steady /\ createdAt' = createdAt /\ walking
      BY <2>2 DEF ListPage, rows
    <3>3. ASSUME NEW j \in steady, j \notin shown, j \notin P  PROVE walking' /\ Ahead(j)'
      <4>1. j \in listed /\ Ahead(j)
        BY <3>3 DEF NothingLost, PageType
      <4>2. walking'
        <5>1. P # BeforeCursor
          BY <3>3, <4>1 DEF BeforeCursor, Ahead
        <5>2. Cardinality(P) = Limit /\ P # {}
          BY <2>2, <5>1, LastPageIsWhole DEF ListPage
        <5>. QED  BY <2>2, <5>2 DEF ListPage
      <4>. QED  BY <3>1, <3>3, <4>1, <4>2
    <3>. QED  BY <3>1, <3>2, <3>3 DEF NothingLost, Distinct
  <2>3. CASE UNCHANGED vars
    BY <2>3 DEF vars, PageType, Rows, Behind, Ahead, NothingLost, Distinct
  <2>. QED  BY <2>1, <2>2, <2>3 DEF Next, Walk
<1>3. Inv => NoSkips
  BY DEF NothingLost, NoSkips
<1>. QED  BY <1>1, <1>2, <1>3, PTL DEF Spec
=============================================================================
