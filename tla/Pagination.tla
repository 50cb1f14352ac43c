----------------------------- MODULE Pagination -----------------------------
(***************************************************************************)
(* A client walks GET /jobs page by page with next_cursor while jobs are   *)
(* created, change their status (and so enter or leave the filter) and are *)
(* deleted.  A row's created_at is fixed before it becomes visible, so a   *)
(* row may appear behind rows that were listed earlier.                    *)
(***************************************************************************)
EXTENDS Integers, FiniteSets

CONSTANTS
  Jobs,
  Second,        \* ticks of created_at per second (microseconds: 10^6)
  MaxTime,       \* bound: the last created_at
  Limit,         \* the limit the client asks for, after int32()
  DefaultLimit,  \* 20
  MaxLimit,      \* 100
  UniqueTimes    \* no two rows of the user have the same created_at

ASSUME PageAssumption ==
  /\ IsFiniteSet(Jobs)
  /\ Second \in Nat \ {0} /\ MaxTime \in Nat
  /\ Limit \in Int
  /\ DefaultLimit \in 1..MaxLimit /\ MaxLimit \in Nat
  /\ UniqueTimes \in BOOLEAN

Times == 1..MaxTime
NoTime == 0          \* created_at of no row yet; no cursor

VARIABLES
  createdAt,     \* of each row
  listed,        \* rows that are not deleted and match the filter
  deleted,
  cursor,        \* of the next request: seconds and fraction, or none yet
  walking,       \* FALSE once a page came without next_cursor
  shown, twice,  \* history: rows shown; rows shown more than once
  steady         \* history: rows listed ever since the walk began

vars == <<createdAt, listed, deleted, cursor, walking, shown, twice, steady>>
rows == <<createdAt, listed, deleted>>
walk == <<cursor, walking, shown, twice>>

Rows == {j \in Jobs : createdAt[j] # NoTime}
Distinct(at) == \A i, j \in Jobs : at[i] = at[j] /\ at[i] # NoTime => i = j

(* RFC3339 keeps whole seconds.                                            *)
EncodeWholeSeconds(t) == <<t \div Second, 0>>
(* RFC3339Nano keeps every digit the column has.                           *)
EncodeCursor(t) == <<t \div Second, t % Second>>
DecodeCursor(c) == c[1] * Second + c[2]
NoCursor == <<0, 0>>

Init ==
  /\ createdAt \in [Jobs -> Times \cup {NoTime}]
  /\ UniqueTimes => Distinct(createdAt)
  /\ listed \in SUBSET Rows
  /\ deleted = {}
  /\ cursor = NoCursor /\ walking = TRUE
  /\ shown = {} /\ twice = {}
  /\ steady = listed

-----------------------------------------------------------------------------
CreateJob(j) ==
  /\ j \notin Rows
  /\ \E t \in Times :
       /\ createdAt' = [createdAt EXCEPT ![j] = t]
       /\ UniqueTimes => Distinct(createdAt')
  /\ listed' \in {listed, listed \cup {j}}
  /\ UNCHANGED <<deleted, walk, steady>>

(* A status change moves a row into or out of the status filter.           *)
ChangeStatus(j) ==
  /\ j \in Rows \ deleted
  /\ listed' = IF j \in listed THEN listed \ {j} ELSE listed \cup {j}
  /\ steady' = steady \ {j}
  /\ UNCHANGED <<createdAt, deleted, walk>>

DeleteJob(j) ==
  /\ j \in Rows \ deleted
  /\ deleted' = deleted \cup {j}
  /\ listed' = listed \ {j} /\ steady' = steady \ {j}
  /\ UNCHANGED <<createdAt, walk>>

-----------------------------------------------------------------------------
(* Service.List replaces a limit out of range.                             *)
EffectiveLimit == IF Limit <= 0 \/ Limit > MaxLimit THEN DefaultLimit ELSE Limit

(* The cursor is not passed on to the query.                               *)
AnyCursor == listed
(* created_at <= cursor.                                                   *)
UpToCursor == {j \in listed : cursor = NoCursor \/ createdAt[j] <= DecodeCursor(cursor)}
BeforeCursor == {j \in listed : cursor = NoCursor \/ createdAt[j] < DecodeCursor(cursor)}

(* ORDER BY created_at DESC LIMIT n: rows with equal times in any order.   *)
IsPage(P) ==
  /\ P \subseteq BeforeCursor
  /\ \A p \in P, q \in BeforeCursor \ P : createdAt[p] >= createdAt[q]
  /\ Cardinality(P) <= EffectiveLimit
  /\ Cardinality(P) < EffectiveLimit => P = BeforeCursor

(* A page shorter than what was asked for has no next_cursor.              *)
ListPage(P) ==
  /\ walking /\ IsPage(P)
  /\ \/ /\ Cardinality(P) = Limit /\ P # {}
        /\ \E p \in P :
             /\ \A q \in P : createdAt[p] <= createdAt[q]
             /\ cursor' = EncodeCursor(createdAt[p])
        /\ UNCHANGED walking
     \/ /\ ~(Cardinality(P) = Limit /\ P # {})
        /\ walking' = FALSE /\ UNCHANGED cursor
  /\ shown' = shown \cup P /\ twice' = twice \cup (shown \cap P)
  /\ UNCHANGED <<rows, steady>>

Change == \E j \in Jobs : CreateJob(j) \/ ChangeStatus(j) \/ DeleteJob(j)
Walk == \E P \in SUBSET Jobs : ListPage(P)

Next == Change \/ Walk

Spec == Init /\ [][Next]_vars

(* The client asks for the next page as long as there is one.              *)
FairSpec == Spec /\ WF_vars(Walk)

-----------------------------------------------------------------------------
(* No row is shown twice in a walk, whatever is created, deleted or        *)
(* changed between two pages (ADR 0006; the cursor of JobHandler.List).    *)
NoDuplicates == twice = {}

(* A finished walk has shown every row that was listed all the time: "A    *)
(* keyset cursor doesn't have either failure mode" (ADR 0006).  It holds   *)
(* when no two rows have the same created_at and the limit asked for is    *)
(* one Service.List takes as it is.                                        *)
NoSkips == ~walking => steady \subseteq shown

(* A walk ends, though rows may be created faster than pages are read.     *)
WalkEnds == <>(~walking)
=============================================================================
