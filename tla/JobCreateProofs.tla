--------------------------- MODULE JobCreateProofs ---------------------------
(***************************************************************************)
(* Idempotent creation, for any number of clients, keys, retries and       *)
(* failures.                                                               *)
(***************************************************************************)
EXTENDS JobCreate, TLAPS

USE Zenon

TypeOK ==
  /\ phase \in [Clients -> Phases]
  /\ tries \in [Clients -> 0..MaxPosts]
  /\ object \in [Clients -> Posts \cup {None}]
  /\ job \in [Clients -> Posts \cup {None}]
  /\ hpc \in [Posts -> HandlerPcs]
  /\ status \in [Posts -> {"absent", "pending", "queued"}]
  /\ objectKey \in [Posts -> Posts \cup {None}]
  /\ deleted \in [Posts -> BOOLEAN]
  /\ created \subseteq Posts /\ stream \subseteq Posts /\ objects \subseteq Posts
  /\ faults \in Nat
  /\ \A c \in Clients : phase[c] = "uploading" => object[c] \in Posts

LEMMA PostParts ==
  ASSUME NEW h \in Posts
  PROVE  h[1] \in Clients /\ h[2] \in 1..MaxPosts /\ h = <<h[1], h[2]>>
BY SMT DEF Posts

LEMMA NextPost ==
  ASSUME TypeOK, NEW c \in Clients, tries[c] < MaxPosts
  PROVE  tries[c] + 1 \in 0..MaxPosts /\ <<c, tries[c] + 1>> \in Posts
BY FaultsAssumption, SMT DEF TypeOK, Posts

(* An answer touches the client and the handler only.                      *)
LEMMA RespondType ==
  ASSUME TypeOK, NEW h \in Posts, NEW i \in Posts \cup {None}, Respond(h, i)
  PROVE  /\ phase' \in [Clients -> Phases] /\ job' \in [Clients -> Posts \cup {None}]
         /\ hpc' \in [Posts -> HandlerPcs] /\ UNCHANGED <<tries, object>>
         /\ \A c \in Clients : phase'[c] = "uploading" => phase[c] = "uploading"
<1>1. h[1] \in Clients
  BY PostParts
<1>. QED  BY <1>1, SMT DEF Respond, TypeOK, Phases, HandlerPcs

LEMMA FaultType ==
  ASSUME TypeOK, NEW k, Fault(k)
  PROVE  faults' \in Nat
BY SMT DEF Fault, TypeOK

(* A client sends the same key, or none, with every POST.                  *)
LEMMA KeyStays == [Next]_vars => key' = key
BY DEF Next, vars, ClientStep, HandlerStep, CreateUpload, PutUpload, PostJob, TryAgain, LoseReply,
   Lookup, InsertJob, CreatedEvent, ToQueued, QueuedEvent, Enqueue, HandlerError, DeleteJob

LEMMA TypeStep == TypeOK /\ [Next]_vars => TypeOK'
<1>. SUFFICES ASSUME TypeOK, [Next]_vars  PROVE TypeOK'
  OBVIOUS
<1>1. ASSUME NEW c \in Clients, CreateUpload(c)  PROVE TypeOK'
  <2>1. <<c, tries[c] + 1>> \in Posts
    BY <1>1, NextPost DEF CreateUpload
  <2>2. object' \in [Clients -> Posts \cup {None}] /\ phase' \in [Clients -> Phases]
    <3>1. object' \in [Clients -> Posts \cup {None}]
      BY <1>1, <2>1 DEF CreateUpload, TypeOK
    <3>2. phase' \in [Clients -> Phases]
      BY <1>1 DEF CreateUpload, TypeOK, Phases
    <3>. QED  BY <3>1, <3>2
  <2>3. \A d \in Clients : phase'[d] = "uploading" => object'[d] \in Posts
    BY <1>1, <2>1 DEF CreateUpload, TypeOK
  <2>. QED  BY <1>1, <2>2, <2>3 DEF CreateUpload, TypeOK, rows
<1>2. ASSUME NEW c \in Clients, PutUpload(c)  PROVE TypeOK'
  <2>1. faults' \in Nat
    BY <1>2, FaultType DEF PutUpload, TypeOK
  <2>2. object[c] \in Posts
    BY <1>2 DEF PutUpload, TypeOK
  <2>. QED  BY <1>2, <2>1, <2>2 DEF PutUpload, TypeOK, Phases, rows
<1>3. ASSUME NEW c \in Clients, PostJob(c)  PROVE TypeOK'
  <2>1. tries[c] + 1 \in 0..MaxPosts /\ <<c, tries[c] + 1>> \in Posts
    BY <1>3, NextPost DEF PostJob
  <2>. QED  BY <1>3, <2>1 DEF PostJob, TypeOK, Phases, HandlerPcs
<1>4. ASSUME NEW c \in Clients, TryAgain(c) \/ LoseReply(c)  PROVE TypeOK'
  <2>1. faults' \in Nat
    BY <1>4, FaultType DEF TryAgain, LoseReply, TypeOK
  <2>. QED  BY <1>4, <2>1 DEF TryAgain, LoseReply, TypeOK, Phases, rows
<1>5. ASSUME NEW h \in Posts, Lookup(h)  PROVE TypeOK'
  <2>1. ASSUME NEW i \in JobsByKey(KeyOf(h)), Respond(h, i)  PROVE TypeOK'
    <3>1. i \in Posts \cup {None}
      BY DEF JobsByKey, Rows
    <3>. QED  BY <1>5, <2>1, <3>1, RespondType DEF Lookup, TypeOK, rows
  <2>2. CASE HandlerGoto(h, "insert")
    BY <1>5, <2>2 DEF Lookup, HandlerGoto, TypeOK, HandlerPcs, rows, client
  <2>. QED  BY <1>5, <2>1, <2>2 DEF Lookup
<1>6. ASSUME NEW h \in Posts, InsertJob(h) \/ ToQueued(h)  PROVE TypeOK'
  <2>1. CASE Respond(h, None)
    BY <1>6, <2>1, RespondType DEF InsertJob, ToQueued, HandlerGoto, TypeOK, rows
  <2>2. CASE HandlerGoto(h, "created_event") \/ HandlerGoto(h, "queued_event")
    BY <1>6, <2>2, SMT DEF InsertJob, ToQueued, HandlerGoto, TypeOK, HandlerPcs, rows, client
  <2>. QED  BY <1>6, <2>1, <2>2 DEF InsertJob, ToQueued
<1>7. ASSUME NEW h \in Posts, CreatedEvent(h) \/ QueuedEvent(h)  PROVE TypeOK'
  BY <1>7 DEF CreatedEvent, QueuedEvent, HandlerGoto, TypeOK, HandlerPcs, rows, client
<1>8. ASSUME NEW h \in Posts, Enqueue(h)  PROVE TypeOK'
  BY <1>8, RespondType DEF Enqueue, TypeOK, rows
<1>9. ASSUME NEW h \in Posts, HandlerError(h)  PROVE TypeOK'
  <2>1. faults' \in Nat
    BY <1>9, FaultType DEF HandlerError, TypeOK
  <2>. QED  BY <1>9, <2>1, RespondType DEF HandlerError, TypeOK, rows
<1>10. ASSUME NEW h \in Posts, DeleteJob(h)  PROVE TypeOK'
  BY <1>10, SMT DEF DeleteJob, TypeOK, client
<1>11. CASE UNCHANGED vars
  BY <1>11 DEF vars, client, rows, TypeOK
<1>. QED  BY <1>1, <1>2, <1>3, <1>4, <1>5, <1>6, <1>7, <1>8, <1>9, <1>10, <1>11
          DEF Next, ClientStep, HandlerStep

(* The POSTs a client has not made have no handler.                        *)
Fresh == \A c \in Clients, n \in 1..MaxPosts : n > tries[c] => hpc[<<c, n>>] = "unused"

LEMMA FreshStep == TypeOK /\ Fresh /\ [Next]_vars => Fresh'
<1>. SUFFICES ASSUME TypeOK, Fresh, [Next]_vars  PROVE Fresh'
  OBVIOUS
<1>1. CASE UNCHANGED <<tries, hpc>>
  BY <1>1 DEF Fresh
<1>2. ASSUME NEW h \in Posts, hpc[h] # "unused", NEW l, hpc' = [hpc EXCEPT ![h] = l], tries' = tries
      PROVE  Fresh'
  BY <1>2, SMT DEF Fresh, TypeOK, Posts
<1>3. ASSUME NEW c \in Clients, PostJob(c)  PROVE Fresh'
  <2>1. tries' = [tries EXCEPT ![c] = @ + 1]
        /\ \E l : hpc' = [hpc EXCEPT ![<<c, tries[c] + 1>>] = l]
    BY <1>3 DEF PostJob
  <2>2. <<c, tries[c] + 1>> \in Posts
    BY <1>3, NextPost DEF PostJob
  <2>3. tries \in [Clients -> Nat] /\ hpc \in [Posts -> HandlerPcs]
    BY SMT DEF TypeOK
  <2>. QED  BY <2>1, <2>2, <2>3, SMT DEF Fresh, Posts
<1>4. ASSUME NEW h \in Posts, HandlerStep(h) \/ HandlerError(h)  PROVE Fresh'
  BY <1>2, <1>4 DEF HandlerStep, Lookup, InsertJob, CreatedEvent, ToQueued, QueuedEvent, Enqueue,
       HandlerError, Respond, HandlerGoto, client
<1>. QED  BY <1>1, <1>3, <1>4 DEF Next, ClientStep, vars, client, CreateUpload, PutUpload, TryAgain,
       LoseReply, DeleteJob

-----------------------------------------------------------------------------
(* Keys.                                                                   *)

Inserted == {"created_event", "transition", "queued_event", "enqueue"}

Keyed ==
  /\ \A i, k \in Rows : KeyOf(i) = KeyOf(k) /\ KeyOf(i) # NoKey => i = k
  /\ \A c \in Clients : job[c] # None => job[c] \in Rows /\ KeyOf(job[c]) = key[c]
  /\ \A h \in Posts : (hpc[h] \in Inserted => h \in Rows)
                      /\ (hpc[h] \in {"unused", "lookup", "insert"} => h \notin Rows)
  /\ created \subseteq Rows

(* An answer with a row of the key the client sent, or with no job.        *)
LEMMA RespondKeyed ==
  ASSUME TypeOK, Keyed, NEW h \in Posts, NEW i, i = None \/ (i \in Rows /\ KeyOf(i) = KeyOf(h)),
         Respond(h, i), UNCHANGED <<status, created, key>>
  PROVE  Keyed'
<1>1. h[1] \in Clients /\ KeyOf(h) = key[h[1]]
  BY PostParts DEF KeyOf
<1>2. Rows' = Rows
  BY DEF Rows
<1>3. job' = [job EXCEPT ![h[1]] = IF Awaited(h) THEN i ELSE @]
  BY DEF Respond
<1>4. \A c \in Clients : job'[c] = job[c] \/ (c = h[1] /\ job'[c] = i)
  BY <1>3 DEF TypeOK
<1>5. \A c \in Clients : job'[c] # None => job'[c] \in Rows /\ KeyOf(job'[c]) = key[c]
  BY <1>1, <1>4 DEF Keyed
<1>6. \A g \in Posts : hpc'[g] = hpc[g] \/ hpc'[g] = "done"
  BY DEF Respond, TypeOK
<1>. QED  BY <1>2, <1>5, <1>6 DEF Keyed, KeyOf, Inserted

(* A handler that goes on, with the rows, the keys and the answers left.   *)
LEMMA GotoKeyed ==
  ASSUME TypeOK, Keyed, NEW h \in Posts, NEW l, hpc' = [hpc EXCEPT ![h] = l],
         l \in Inserted => h \in Rows, l \in {"unused", "lookup", "insert"} => h \notin Rows,
         UNCHANGED <<Rows, job, key>>, created' \subseteq Rows
  PROVE  Keyed'
<1>1. \A g \in Posts : hpc'[g] = IF g = h THEN l ELSE hpc[g]
  BY DEF TypeOK
<1>2. \A g \in Posts : (hpc'[g] \in Inserted => g \in Rows)
                       /\ (hpc'[g] \in {"unused", "lookup", "insert"} => g \notin Rows)
  BY <1>1 DEF Keyed
<1>3. (\A i, k \in Rows : KeyOf(i) = KeyOf(k) /\ KeyOf(i) # NoKey => i = k)'
  BY DEF Keyed, KeyOf
<1>4. (\A c \in Clients : job[c] # None => job[c] \in Rows /\ KeyOf(job[c]) = key[c])'
  BY DEF Keyed, KeyOf
<1>. QED  BY <1>2, <1>3, <1>4 DEF Keyed, Inserted

LEMMA KeyedStep == TypeOK /\ Fresh /\ Keyed /\ [Next]_vars => Keyed'
<1>. SUFFICES ASSUME TypeOK, Fresh, Keyed, [Next]_vars  PROVE Keyed'
  OBVIOUS
<1>. key' = key
  BY KeyStays
<1>1. CASE UNCHANGED <<status, job, created, hpc>>
  <2>1. Rows' = Rows
    BY <1>1 DEF Rows
  <2>2. (\A i, k \in Rows : KeyOf(i) = KeyOf(k) /\ KeyOf(i) # NoKey => i = k)'
    BY <2>1 DEF Keyed, KeyOf
  <2>3. (\A c \in Clients : job[c] # None => job[c] \in Rows /\ KeyOf(job[c]) = key[c])'
    BY <1>1, <2>1 DEF Keyed, KeyOf
  <2>. QED  BY <1>1, <2>1, <2>2, <2>3 DEF Keyed
<1>2. ASSUME NEW c \in Clients, CreateUpload(c) \/ PutUpload(c) \/ TryAgain(c) \/ LoseReply(c)  PROVE Keyed'
  BY <1>1, <1>2 DEF CreateUpload, PutUpload, TryAgain, LoseReply, rows
<1>3. ASSUME NEW c \in Clients, PostJob(c)  PROVE Keyed'
  <2>1. <<c, tries[c] + 1>> \in Posts
    BY <1>3, NextPost DEF PostJob
  <2>2. hpc[<<c, tries[c] + 1>>] = "unused"
    <3>1. tries[c] + 1 \in 1..MaxPosts /\ tries[c] + 1 > tries[c]
      BY <1>3, FaultsAssumption, SMT DEF TypeOK, PostJob
    <3>. QED  BY <3>1 DEF Fresh
  <2>3. <<c, tries[c] + 1>> \notin Rows
    BY <2>1, <2>2 DEF Keyed
  <2>4. PICK l : l \in {"insert", "lookup"} /\ hpc' = [hpc EXCEPT ![<<c, tries[c] + 1>>] = l]
    BY <1>3 DEF PostJob
  <2>5. UNCHANGED <<Rows, job>> /\ created' \subseteq Rows
    BY <1>3 DEF PostJob, Rows, Keyed
  <2>. QED  BY <2>1, <2>3, <2>4, <2>5, GotoKeyed DEF Inserted
<1>4. ASSUME NEW h \in Posts, Lookup(h)  PROVE Keyed'
  <2>1. ASSUME NEW i \in JobsByKey(KeyOf(h)), Respond(h, i)  PROVE Keyed'
    BY <1>4, <2>1, RespondKeyed DEF Lookup, JobsByKey, rows
  <2>2. CASE HandlerGoto(h, "insert")
    <3>1. h \notin Rows /\ hpc' = [hpc EXCEPT ![h] = "insert"]
      BY <1>4, <2>2 DEF Lookup, HandlerGoto, Keyed
    <3>2. UNCHANGED <<Rows, job>> /\ created' \subseteq Rows
      BY <1>4, <2>2 DEF Lookup, HandlerGoto, Rows, Keyed, rows, client
    <3>. QED  BY <3>1, <3>2, GotoKeyed DEF Inserted
  <2>. QED  BY <1>4, <2>1, <2>2 DEF Lookup
<1>5. ASSUME NEW h \in Posts, InsertJob(h)  PROVE Keyed'
  <2>1. CASE KeyConflict(h)
    BY <1>5, <2>1, RespondKeyed DEF InsertJob, rows
  <2>2. CASE ~KeyConflict(h)
    <3>1. Rows' = Rows \cup {h}
      BY <1>5, <2>2 DEF InsertJob, TypeOK, Rows
    <3>2. KeyOf(h) # NoKey => \A i \in Rows : KeyOf(i) # KeyOf(h)
      BY <2>2 DEF KeyConflict
    <3>3. hpc' = [hpc EXCEPT ![h] = "created_event"] /\ UNCHANGED <<job, created>>
      BY <1>5, <2>2 DEF InsertJob, HandlerGoto, client
    <3>4. (\A i, k \in Rows : KeyOf(i) = KeyOf(k) /\ KeyOf(i) # NoKey => i = k)'
      <4>1. \A i : KeyOf(i)' = KeyOf(i)
        BY DEF KeyOf
      <4>2. \A i, k \in Rows \cup {h} : KeyOf(i) = KeyOf(k) /\ KeyOf(i) # NoKey => i = k
        BY <3>2 DEF Keyed
      <4>. QED  BY <3>1, <4>1, <4>2
    <3>5. (\A c \in Clients : job[c] # None => job[c] \in Rows /\ KeyOf(job[c]) = key[c])'
      BY <3>1, <3>3 DEF Keyed, KeyOf
    <3>6. \A g \in Posts : hpc'[g] = IF g = h THEN "created_event" ELSE hpc[g]
      BY <3>3 DEF TypeOK
    <3>7. (\A g \in Posts : (hpc[g] \in Inserted => g \in Rows)
                            /\ (hpc[g] \in {"unused", "lookup", "insert"} => g \notin Rows))'
      BY <3>1, <3>6 DEF Keyed, Inserted
    <3>8. (created \subseteq Rows)'
      BY <3>1, <3>3 DEF Keyed
    <3>. QED  BY <3>4, <3>5, <3>7, <3>8 DEF Keyed, Inserted
  <2>. QED  BY <2>1, <2>2
<1>6. ASSUME NEW h \in Posts, CreatedEvent(h) \/ QueuedEvent(h)  PROVE Keyed'
  <2>1. h \in Rows /\ Rows' = Rows
    BY <1>6 DEF CreatedEvent, QueuedEvent, Keyed, Inserted, Rows, rows
  <2>2. PICK l : l \in {"transition", "enqueue"} /\ hpc' = [hpc EXCEPT ![h] = l]
    BY <1>6 DEF CreatedEvent, QueuedEvent, HandlerGoto
  <2>3. job' = job /\ created' \subseteq Rows
    BY <1>6, <2>1 DEF CreatedEvent, QueuedEvent, HandlerGoto, Keyed, client
  <2>. QED  BY <2>1, <2>2, <2>3, GotoKeyed
<1>7. ASSUME NEW h \in Posts, ToQueued(h)  PROVE Keyed'
  <2>1. CASE deleted[h]
    BY <1>7, <2>1, RespondKeyed DEF ToQueued
  <2>2. CASE ~deleted[h]
    <3>1. h \in Rows
      BY <1>7 DEF ToQueued, Keyed, Inserted
    <3>2. Rows' = Rows
      BY <1>7, <2>2, <3>1 DEF ToQueued, TypeOK, Rows
    <3>3. hpc' = [hpc EXCEPT ![h] = "queued_event"] /\ job' = job /\ created' \subseteq Rows
      BY <1>7, <2>2 DEF ToQueued, HandlerGoto, Keyed, client
    <3>. QED  BY <3>1, <3>2, <3>3, GotoKeyed
  <2>. QED  BY <2>1, <2>2
<1>8. ASSUME NEW h \in Posts, Enqueue(h)  PROVE Keyed'
  <2>1. h \in Rows
    BY <1>8 DEF Enqueue, Keyed, Inserted
  <2>. QED  BY <1>8, <2>1, RespondKeyed DEF Enqueue, rows
<1>9. ASSUME NEW h \in Posts, HandlerError(h)  PROVE Keyed'
  BY <1>9, RespondKeyed DEF HandlerError, rows
<1>10. ASSUME NEW h \in Posts, DeleteJob(h)  PROVE Keyed'
  BY <1>1, <1>10 DEF DeleteJob, client
<1>11. CASE UNCHANGED vars
  BY <1>1, <1>11 DEF vars, client, rows
<1>. QED  BY <1>2, <1>3, <1>4, <1>5, <1>6, <1>7, <1>8, <1>9, <1>10, <1>11
          DEF Next, ClientStep, HandlerStep

CreateInv == TypeOK /\ Fresh /\ Keyed

LEMMA CreateInvariant == Spec => []CreateInv
<1>1. Init => CreateInv
  <2>. SUFFICES ASSUME Init  PROVE CreateInv
    OBVIOUS
  <2>1. TypeOK
    BY FaultsAssumption, SMT DEF Init, TypeOK, Phases, HandlerPcs
  <2>2. Fresh
    BY SMT DEF Init, Fresh, Posts
  <2>3. Keyed
    BY DEF Init, Keyed, Rows, Inserted
  <2>. QED  BY <2>1, <2>2, <2>3 DEF CreateInv
<1>2. CreateInv /\ [Next]_vars => CreateInv'
  BY TypeStep, FreshStep, KeyedStep DEF CreateInv
<1>. QED  BY <1>1, <1>2, PTL DEF Spec

(* A key names at most one job, whatever POSTs with it overlap or are      *)
(* repeated, and whoever was answered got that job.                        *)
THEOREM KeyNamesOneJob == Spec => []OneJobPerKey
<1>1. CreateInv => OneJobPerKey
  BY DEF CreateInv, Keyed, OneJobPerKey
<1>. QED  BY <1>1, CreateInvariant, PTL

(* A job is counted as submitted at most once per key.                     *)
THEOREM KeyIsCountedOnce == Spec => []CountedOncePerKey
<1>1. CreateInv => CountedOncePerKey
  BY DEF CreateInv, Keyed, CountedOncePerKey
<1>. QED  BY <1>1, CreateInvariant, PTL

-----------------------------------------------------------------------------
(* Audio.                                                                  *)

(* Object o is in the store, unless the job made from it was deleted.      *)
Stored(o) == o \in objects \/ \E i \in Rows : deleted[i] /\ objectKey[i] = o

(* A client uploads objects of its own, a fresh one for every POST it      *)
(* makes without a key, and a POST names a stored one.                     *)
ClientAudio(c) ==
  /\ object[c] \in Posts => object[c][1] = c
  /\ phase[c] \in {"uploading", "creating"} =>
       object[c] \in Posts /\ (key[c] = NoKey => object[c] = <<c, tries[c] + 1>>)
  /\ phase[c] = "creating" => Stored(object[c])
PostAudio(h) ==
  hpc[h] # "unused" =>
    /\ objectKey[h] \in Posts /\ objectKey[h][1] = h[1] /\ Stored(objectKey[h])
    /\ KeyOf(h) = NoKey => objectKey[h] = h
Audio == (\A c \in Clients : ClientAudio(c)) /\ (\A h \in Posts : PostAudio(h))

LEMMA RowsArePosted ==
  ASSUME Keyed, NEW h \in Rows
  PROVE  h \in Posts /\ hpc[h] # "unused"
BY DEF Keyed, Rows

(* Two jobs are never made from one object.                                *)
LEMMA OneJobPerObject ==
  ASSUME Keyed, Audio, NEW i \in Rows, NEW k \in Rows, objectKey[i] = objectKey[k]
  PROVE  i = k
<1>1. i \in Posts /\ k \in Posts /\ PostAudio(i) /\ PostAudio(k) /\ hpc[i] # "unused" /\ hpc[k] # "unused"
  BY RowsArePosted DEF Audio
<1>2. KeyOf(i) = KeyOf(k)
  BY <1>1 DEF PostAudio, KeyOf
<1>3. CASE KeyOf(i) = NoKey
  BY <1>1, <1>2, <1>3 DEF PostAudio
<1>4. CASE KeyOf(i) # NoKey
  BY <1>2, <1>4 DEF Keyed
<1>. QED  BY <1>3, <1>4

(* No step takes a stored object away except the deletion of its job.      *)
LEMMA StoredStays ==
  ASSUME TypeOK, Fresh, Keyed, [Next]_vars, NEW o, Stored(o)
  PROVE  Stored(o)'
<1>1. ASSUME objects \subseteq objects', \A h \in Rows : h \in Rows' /\ UNCHANGED <<deleted[h], objectKey[h]>>
      PROVE  Stored(o)'
  BY <1>1 DEF Stored
<1>2. CASE UNCHANGED rows /\ objects \subseteq objects'
  BY <1>1, <1>2 DEF rows, Rows
<1>3. ASSUME NEW c \in Clients, PostJob(c)  PROVE Stored(o)'
  <2>1. tries[c] + 1 \in 1..MaxPosts /\ tries[c] + 1 > tries[c]
    BY <1>3, FaultsAssumption, SMT DEF TypeOK, PostJob
  <2>2. hpc[<<c, tries[c] + 1>>] = "unused"
    BY <2>1 DEF Fresh
  <2>3. \A h \in Rows : h # <<c, tries[c] + 1>>
    BY <2>2, RowsArePosted
  <2>4. \A h \in Rows : h \in Rows' /\ UNCHANGED <<deleted[h], objectKey[h]>>
    BY <1>3, <2>3 DEF PostJob, Rows, TypeOK
  <2>. QED  BY <1>1, <1>3, <2>4 DEF PostJob
<1>4. ASSUME NEW h \in Posts, InsertJob(h) \/ ToQueued(h)  PROVE Stored(o)'
  <2>1. \A g \in Rows : g \in Rows' /\ UNCHANGED <<deleted[g], objectKey[g]>>
    BY <1>4 DEF InsertJob, ToQueued, Rows, TypeOK, rows
  <2>. QED  BY <1>1, <1>4, <2>1 DEF InsertJob, ToQueued
<1>5. ASSUME NEW h \in Posts, DeleteJob(h)  PROVE Stored(o)'
  <2>1. Rows' = Rows /\ h \in Rows /\ objectKey' = objectKey /\ deleted'[h] = TRUE
    BY <1>5 DEF DeleteJob, Rows, TypeOK
  <2>2. \A g \in Rows : deleted[g] => deleted'[g]
    BY <1>5 DEF DeleteJob, Rows, TypeOK
  <2>3. o \in objects => o \in objects' \/ o = objectKey[h]
    BY <1>5 DEF DeleteJob
  <2>. QED  BY <2>1, <2>2, <2>3 DEF Stored
<1>6. CASE UNCHANGED vars
  BY <1>2, <1>6 DEF vars
<1>. QED  BY <1>2, <1>3, <1>4, <1>5, <1>6 DEF Next, ClientStep, HandlerStep, CreateUpload, PutUpload,
       TryAgain, LoseReply, Lookup, CreatedEvent, QueuedEvent, Enqueue, HandlerError

LEMMA AudioStep == TypeOK /\ Fresh /\ Keyed /\ Audio /\ [Next]_vars => Audio'
<1>. SUFFICES ASSUME TypeOK, Fresh, Keyed, Audio, [Next]_vars  PROVE Audio'
  OBVIOUS
<1>. key' = key
  BY KeyStays
<1>. \A o : Stored(o) => Stored(o)'
  BY StoredStays
<1>1. ASSUME NEW h \in Posts, UNCHANGED objectKey[h], hpc'[h] # "unused" => hpc[h] # "unused"
      PROVE  PostAudio(h)'
  BY <1>1 DEF Audio, PostAudio, KeyOf
<1>2. ASSUME NEW c \in Clients, UNCHANGED <<object[c], tries[c]>>,
             phase'[c] = phase[c] \/ phase'[c] \notin {"uploading", "creating"}
      PROVE  ClientAudio(c)'
  BY <1>2 DEF Audio, ClientAudio
<1>3. ASSUME NEW c \in Clients, CreateUpload(c) \/ PutUpload(c) \/ TryAgain(c) \/ LoseReply(c)
      PROVE  Audio'
  <2>1. \A h \in Posts : PostAudio(h)'
    BY <1>1, <1>3 DEF CreateUpload, PutUpload, TryAgain, LoseReply, rows
  <2>2. \A d \in Clients : d # c => ClientAudio(d)'
    BY <1>2, <1>3 DEF CreateUpload, PutUpload, TryAgain, LoseReply, TypeOK
  <2>3. ClientAudio(c)'
    <3>1. CASE CreateUpload(c)
      <4>1. <<c, tries[c] + 1>> \in Posts /\ <<c, tries[c] + 1>>[1] = c
        BY <3>1, NextPost DEF CreateUpload
      <4>. QED  BY <1>2, <3>1, <4>1 DEF CreateUpload, ClientAudio, TypeOK
    <3>2. CASE PutUpload(c)
      <4>1. CASE phase'[c] = "creating"
        <5>1. object[c] \in objects'
          BY <3>2, <4>1 DEF PutUpload, TypeOK
        <5>. QED  BY <3>2, <4>1, <5>1 DEF PutUpload, Audio, ClientAudio, Stored
      <4>2. CASE phase'[c] # "creating"
        BY <1>2, <3>2, <4>2 DEF PutUpload, TypeOK
      <4>. QED  BY <4>1, <4>2
    <3>3. CASE TryAgain(c)
      <4>1. CASE phase'[c] = "creating"
        <5>1. key[c] # NoKey /\ object[c] \in objects
          BY <3>3, <4>1 DEF TryAgain, TypeOK
        <5>2. object[c] \in Posts /\ UNCHANGED <<object, objects>>
          BY <3>3, <5>1 DEF TryAgain, TypeOK
        <5>. QED  BY <4>1, <5>1, <5>2 DEF Audio, ClientAudio, Stored
      <4>2. CASE phase'[c] # "creating"
        BY <1>2, <3>3, <4>2 DEF TryAgain, TypeOK
      <4>. QED  BY <4>1, <4>2
    <3>4. CASE LoseReply(c)
      BY <1>2, <3>4 DEF LoseReply, TypeOK
    <3>. QED  BY <1>3, <3>1, <3>2, <3>3, <3>4
  <2>. QED  BY <2>1, <2>2, <2>3 DEF Audio
<1>4. ASSUME NEW c \in Clients, PostJob(c)  PROVE Audio'
  <2>1. <<c, tries[c] + 1>> \in Posts
    BY <1>4, NextPost DEF PostJob
  <2>2. /\ object[c] \in Posts /\ object[c][1] = c /\ Stored(object[c])
        /\ key[c] = NoKey => object[c] = <<c, tries[c] + 1>>
    BY <1>4 DEF PostJob, Audio, ClientAudio
  <2>3. ClientAudio(c)'
    <3>1. phase'[c] = "waiting" /\ object' = object
      BY <1>4 DEF PostJob, TypeOK
    <3>. QED  BY <2>2, <3>1 DEF ClientAudio
  <2>4. \A d \in Clients : d # c => ClientAudio(d)'
    BY <1>2, <1>4 DEF PostJob, TypeOK
  <2>5. ASSUME NEW h \in Posts, h # <<c, tries[c] + 1>>  PROVE PostAudio(h)'
    <3>1. UNCHANGED <<objectKey[h], hpc[h]>>
      BY <1>4, <2>1, <2>5 DEF PostJob, TypeOK
    <3>. QED  BY <1>1, <3>1
  <2>6. ASSUME NEW h \in Posts, h = <<c, tries[c] + 1>>  PROVE PostAudio(h)'
    <3>1. objectKey'[h] = object[c]
      BY <1>4, <2>6 DEF PostJob, TypeOK
    <3>2. h[1] = c
      BY <2>6
    <3>3. PICK o : o = object[c]
      OBVIOUS
    <3>4. Stored(o)'
      BY <2>2, <3>3
    <3>5. Stored(objectKey[h])'
      BY <3>1, <3>3, <3>4 DEF Stored
    <3>. QED  BY <2>2, <2>6, <3>1, <3>2, <3>5 DEF PostAudio, KeyOf
  <2>. QED  BY <2>3, <2>4, <2>5, <2>6 DEF Audio
<1>5. ASSUME NEW h \in Posts, HandlerStep(h) \/ HandlerError(h)  PROVE Audio'
  <2>1. objectKey' = objectKey /\ UNCHANGED <<object, tries>> /\ hpc[h] # "unused"
    BY <1>5 DEF HandlerStep, Lookup, InsertJob, CreatedEvent, ToQueued, QueuedEvent, Enqueue,
         HandlerError, Respond, HandlerGoto, client, rows
  <2>2. \E l : hpc' = [hpc EXCEPT ![h] = l]
    BY <1>5 DEF HandlerStep, Lookup, InsertJob, CreatedEvent, ToQueued, QueuedEvent, Enqueue,
         HandlerError, Respond, HandlerGoto
  <2>3. ASSUME NEW d \in Clients  PROVE phase'[d] = phase[d] \/ phase'[d] \notin {"uploading", "creating"}
    <3>1. phase' = phase \/ \E i : Respond(h, i)
      BY <1>5 DEF HandlerStep, Lookup, InsertJob, CreatedEvent, ToQueued, QueuedEvent, Enqueue,
           HandlerError, HandlerGoto, client
    <3>. QED  BY <3>1, PostParts DEF Respond, TypeOK
  <2>4. \A g \in Posts : PostAudio(g)'
    BY <1>1, <2>1, <2>2 DEF TypeOK
  <2>5. \A d \in Clients : ClientAudio(d)'
    BY <1>2, <2>1, <2>3
  <2>. QED  BY <2>4, <2>5 DEF Audio
<1>6. ASSUME NEW h \in Posts, DeleteJob(h)  PROVE Audio'
  BY <1>1, <1>2, <1>6 DEF DeleteJob, client, Audio
<1>7. CASE UNCHANGED vars
  BY <1>1, <1>2, <1>7 DEF vars, client, rows, Audio
<1>. QED  BY <1>3, <1>4, <1>5, <1>6, <1>7 DEF Next, ClientStep

(* No deletion takes away the audio of another job: what the owner of a    *)
(* job has not deleted is still in the object store.                       *)
THEOREM LiveJobsKeepAudio == Spec => []LiveJobHasAudio
<1>1. Init => Audio
  <2>. SUFFICES ASSUME Init  PROVE Audio
    OBVIOUS
  <2>1. ASSUME NEW c \in Clients  PROVE ClientAudio(c)
    <3>1. phase[c] = "idle" /\ object[c] = None
      BY DEF Init
    <3>. QED  BY <3>1, NoneAssumption DEF ClientAudio
  <2>2. ASSUME NEW h \in Posts  PROVE PostAudio(h)
    <3>1. hpc[h] = "unused"
      BY DEF Init
    <3>. QED  BY <3>1 DEF PostAudio
  <2>. QED  BY <2>1, <2>2 DEF Audio
<1>2. CreateInv /\ Audio /\ [Next]_vars => Audio'
  BY AudioStep DEF CreateInv
<1>3. CreateInv /\ Audio => LiveJobHasAudio
  <2>. SUFFICES ASSUME CreateInv, Audio, NEW h \in Rows, ~deleted[h]  PROVE objectKey[h] \in objects
    BY DEF LiveJobHasAudio
  <2>1. Stored(objectKey[h])
    BY RowsArePosted DEF Audio, PostAudio, CreateInv
  <2>. QED  BY <2>1, OneJobPerObject DEF Stored, CreateInv
<1>. QED  BY <1>1, <1>2, <1>3, CreateInvariant, PTL DEF Spec

-----------------------------------------------------------------------------
(* Handing over.                                                           *)

Running(h) == hpc[h] \notin {"unused", "done"}

(* While nothing fails a handler that runs has a client that waits for it, *)
(* so its context is not cancelled, and leaves no row behind that it does  *)
(* not hand over.                                                          *)
Handed(h) ==
  /\ Running(h) => Awaited(h)
  /\ h \in Rows => h \in stream \/ deleted[h] \/ hpc[h] \in Inserted
HandedOver == faults = 0 => \A h \in Posts : Handed(h)

(* A failure counts.                                                       *)
LEMMA NoFault ==
  ASSUME TypeOK, [Next]_vars, faults' = 0
  PROVE  faults = 0 /\ \A k : ~Fault(k)
<1>1. \A k : ~Fault(k)
  BY SMT DEF Fault, TypeOK
<1>. QED
  BY <1>1 DEF Next, vars, ClientStep, HandlerStep, CreateUpload, PutUpload, PostJob, TryAgain, LoseReply,
     Lookup, InsertJob, CreatedEvent, ToQueued, QueuedEvent, Enqueue, HandlerError, DeleteJob

(* Handlers of one client that it waits for are the same.                  *)
LEMMA OneAwaited ==
  ASSUME NEW g \in Posts, NEW h \in Posts, Awaited(g), Awaited(h), g[1] = h[1]
  PROVE  g = h
BY PostParts DEF Awaited

(* An awaited handler ends, with its row handed over, deleted or not made. *)
LEMMA HandedAnswer ==
  ASSUME TypeOK, \A g \in Posts : Handed(g), NEW h \in Posts, Running(h), NEW i, Respond(h, i),
         \A g \in Posts \ {h} : g \in Rows' => g \in Rows,
         stream \subseteq stream', UNCHANGED deleted,
         h \in Rows' => h \in stream' \/ deleted'[h]
  PROVE  \A g \in Posts : Handed(g)'
<1>1. /\ hpc'[h] = "done" /\ \A g \in Posts \ {h} : hpc'[g] = hpc[g]
      /\ h[1] \in Clients /\ \A d \in Clients \ {h[1]} : phase'[d] = phase[d]
      /\ UNCHANGED tries
  BY PostParts DEF Respond, TypeOK
<1>2. ASSUME NEW g \in Posts, g # h  PROVE Handed(g)'
  <2>1. Running(g) => g[1] # h[1]
    BY <1>2, OneAwaited DEF Handed
  <2>2. Running(g)' => Awaited(g)'
    BY <1>1, <1>2, <2>1, PostParts DEF Running, Handed, Awaited
  <2>3. (g \in Rows => g \in stream \/ deleted[g] \/ hpc[g] \in Inserted)'
    BY <1>1, <1>2 DEF Handed, Inserted
  <2>. QED  BY <2>2, <2>3 DEF Handed
<1>3. Handed(h)'
  BY <1>1 DEF Handed, Running
<1>. QED  BY <1>2, <1>3

(* A handler goes on, and the clients wait.                                *)
LEMMA HandedGoesOn ==
  ASSUME TypeOK, \A g \in Posts : Handed(g), NEW h \in Posts, Running(h), NEW l, HandlerGoto(h, l),
         \A g \in Posts \ {h} : g \in Rows' => g \in Rows, UNCHANGED <<stream, deleted>>,
         h \in Rows' => l \in Inserted
  PROVE  \A g \in Posts : Handed(g)'
<1>1. /\ hpc'[h] = l /\ UNCHANGED <<phase, tries>>
      /\ \A g \in Posts \ {h} : hpc'[g] = hpc[g]
  BY DEF HandlerGoto, TypeOK, client
<1>2. ASSUME NEW g \in Posts, g # h  PROVE Handed(g)'
  BY <1>1, <1>2 DEF Handed, Running, Awaited, Inserted
<1>3. Handed(h)'
  BY <1>1 DEF Handed, Running, Awaited, Inserted
<1>. QED  BY <1>2, <1>3

(* A client that waits for no answer has no handler running.               *)
LEMMA HandedIdle ==
  ASSUME TypeOK, \A g \in Posts : Handed(g), NEW c \in Clients, phase[c] # "waiting",
         \A d \in Clients \ {c} : phase'[d] = phase[d], UNCHANGED <<tries, hpc, rows, stream>>
  PROVE  \A g \in Posts : Handed(g)'
<1>1. \A g \in Posts : Running(g) => g[1] # c
  BY DEF Handed, Awaited
<1>2. ASSUME NEW g \in Posts  PROVE Handed(g)'
  <2>1. Running(g)' => Awaited(g)'
    BY <1>1, PostParts DEF Handed, Running, Awaited
  <2>. QED  BY <2>1 DEF Handed, Rows, rows, Inserted
<1>. QED  BY <1>2

(* A POST: the client waits for it, and for no earlier one.                *)
LEMMA HandedPost ==
  ASSUME TypeOK, Fresh, Keyed, \A g \in Posts : Handed(g), NEW c \in Clients, PostJob(c)
  PROVE  \A g \in Posts : Handed(g)'
<1>1. tries[c] + 1 \in 1..MaxPosts /\ tries[c] + 1 > tries[c]
  BY FaultsAssumption, SMT DEF TypeOK, PostJob
<1>2. PICK h \in Posts : h = <<c, tries[c] + 1>>
  BY NextPost DEF PostJob
<1>3. hpc[h] = "unused" /\ h \notin Rows
  BY <1>1, <1>2 DEF Fresh, Keyed
<1>4. \A g \in Posts : Running(g) => g[1] # c
  BY DEF PostJob, Handed, Awaited
<1>5. /\ phase'[c] = "waiting" /\ tries'[c] = tries[c] + 1
      /\ \A d \in Clients \ {c} : phase'[d] = phase[d] /\ tries'[d] = tries[d]
  BY DEF PostJob, TypeOK
<1>6. \A g \in Posts \ {h} : hpc'[g] = hpc[g]
  BY <1>2 DEF PostJob, TypeOK
<1>7. Rows' = Rows /\ UNCHANGED <<stream, deleted>>
  BY DEF PostJob, Rows
<1>8. Handed(h)'
  <2>1. h[1] = c /\ h[2] = tries[c] + 1
    BY <1>2
  <2>. QED  BY <1>3, <1>5, <1>7, <2>1 DEF Handed, Awaited
<1>9. ASSUME NEW g \in Posts, g # h  PROVE Handed(g)'
  <2>1. Running(g)' => Awaited(g)'
    BY <1>4, <1>5, <1>6, <1>9, PostParts DEF Handed, Running, Awaited
  <2>. QED  BY <1>6, <1>7, <1>9, <2>1 DEF Handed, Inserted
<1>. QED  BY <1>8, <1>9

LEMMA HandedStep == TypeOK /\ Fresh /\ Keyed /\ HandedOver /\ [Next]_vars => HandedOver'
<1>. SUFFICES ASSUME TypeOK, Fresh, Keyed, HandedOver, [Next]_vars, faults' = 0
              PROVE  \A g \in Posts : Handed(g)'
  BY DEF HandedOver
<1>1. (\A g \in Posts : Handed(g)) /\ \A k : ~Fault(k)
  BY NoFault DEF HandedOver
<1>2. ASSUME NEW c \in Clients, CreateUpload(c) \/ PutUpload(c) \/ TryAgain(c)
      PROVE  \A g \in Posts : Handed(g)'
  <2>1. phase[c] # "waiting" /\ UNCHANGED <<tries, hpc, rows, stream>>
    BY <1>2 DEF CreateUpload, PutUpload, TryAgain
  <2>2. \A d \in Clients \ {c} : phase'[d] = phase[d]
    BY <1>2 DEF CreateUpload, PutUpload, TryAgain, TypeOK
  <2>. QED  BY <1>1, <2>1, <2>2, HandedIdle
<1>3. ASSUME NEW h \in Posts, Lookup(h)  PROVE \A g \in Posts : Handed(g)'
  <2>1. Running(h) /\ h \notin Rows /\ Rows' = Rows /\ UNCHANGED <<stream, deleted>>
    BY <1>3 DEF Lookup, Running, Keyed, Rows, rows
  <2>. QED  BY <1>1, <1>3, <2>1, HandedAnswer, HandedGoesOn DEF Lookup
<1>4. ASSUME NEW h \in Posts, InsertJob(h)  PROVE \A g \in Posts : Handed(g)'
  <2>1. Running(h) /\ h \notin Rows /\ UNCHANGED <<stream, deleted>>
    BY <1>4 DEF InsertJob, Running, Keyed, rows
  <2>2. CASE KeyConflict(h)
    <3>1. Rows' = Rows /\ Respond(h, None)
      BY <1>4, <2>2 DEF InsertJob, Rows, rows
    <3>. QED  BY <1>1, <2>1, <3>1, HandedAnswer
  <2>3. CASE ~KeyConflict(h)
    <3>1. HandlerGoto(h, "created_event") /\ \A g \in Posts \ {h} : g \in Rows' => g \in Rows
      BY <1>4, <2>3 DEF InsertJob, Rows, TypeOK
    <3>. QED  BY <1>1, <2>1, <3>1, HandedGoesOn DEF Inserted
  <2>. QED  BY <2>2, <2>3
<1>5. ASSUME NEW h \in Posts, CreatedEvent(h) \/ QueuedEvent(h)  PROVE \A g \in Posts : Handed(g)'
  <2>1. Running(h) /\ Rows' = Rows /\ UNCHANGED <<stream, deleted>>
    BY <1>5 DEF CreatedEvent, QueuedEvent, Running, Rows, rows
  <2>2. PICK l \in Inserted : HandlerGoto(h, l)
    BY <1>5 DEF CreatedEvent, QueuedEvent, Inserted
  <2>. QED  BY <1>1, <2>1, <2>2, HandedGoesOn
<1>6. ASSUME NEW h \in Posts, ToQueued(h)  PROVE \A g \in Posts : Handed(g)'
  <2>1. Running(h) /\ UNCHANGED <<stream, deleted>>
    BY <1>6 DEF ToQueued, Running
  <2>2. \A g \in Posts \ {h} : g \in Rows' => g \in Rows
    BY <1>6 DEF ToQueued, Rows, TypeOK
  <2>3. CASE deleted[h]
    BY <1>1, <1>6, <2>1, <2>2, <2>3, HandedAnswer DEF ToQueued
  <2>4. CASE ~deleted[h]
    BY <1>1, <1>6, <2>1, <2>2, <2>4, HandedGoesOn DEF ToQueued, Inserted
  <2>. QED  BY <2>3, <2>4
<1>7. ASSUME NEW h \in Posts, Enqueue(h)  PROVE \A g \in Posts : Handed(g)'
  <2>1. Running(h) /\ Rows' = Rows /\ UNCHANGED deleted /\ stream' = stream \cup {h}
    BY <1>7 DEF Enqueue, Running, Rows, rows
  <2>. QED  BY <1>1, <1>7, <2>1, HandedAnswer DEF Enqueue
<1>8. ASSUME NEW h \in Posts, HandlerError(h)  PROVE FALSE
  BY <1>1, <1>8 DEF HandlerError, Handed, Running
<1>9. ASSUME NEW c \in Clients, LoseReply(c)  PROVE FALSE
  BY <1>1, <1>9 DEF LoseReply
<1>10. ASSUME NEW h \in Posts, DeleteJob(h)  PROVE \A g \in Posts : Handed(g)'
  <2>1. UNCHANGED <<phase, tries, hpc, status, stream>> /\ \A g \in Posts : deleted[g] => deleted'[g]
    BY <1>10 DEF DeleteJob, client, TypeOK
  <2>. QED  BY <1>1, <2>1 DEF Handed, Running, Awaited, Rows, Inserted
<1>11. CASE UNCHANGED vars
  BY <1>1, <1>11 DEF vars, client, rows, Handed, Running, Awaited, Rows, Inserted
<1>. QED
  BY <1>1, <1>2, <1>3, <1>4, <1>5, <1>6, <1>7, <1>8, <1>9, <1>10, <1>11, HandedPost
  DEF Next, ClientStep, HandlerStep

(* While nothing fails, a client is only ever given a job that has been    *)
(* enqueued, is about to be, or was deleted: by its own POST or by another *)
(* with the same key.                                                      *)
THEOREM AnsweredJobsAreEnqueued == Spec => []AnsweredJobIsEnqueued
<1>1. Init => HandedOver
  BY DEF Init, HandedOver, Handed, Running, Rows
<1>2. CreateInv /\ HandedOver /\ [Next]_vars => HandedOver'
  BY HandedStep DEF CreateInv
<1>3. CreateInv /\ HandedOver => AnsweredJobIsEnqueued
  <2>. SUFFICES ASSUME CreateInv, HandedOver, NEW c \in Clients, faults = 0, job[c] # None
                PROVE  job[c] \in stream \/ deleted[job[c]] \/ hpc[job[c]] \notin {"unused", "done"}
    BY DEF AnsweredJobIsEnqueued
  <2>1. PICK h \in Rows : h = job[c]
    BY DEF CreateInv, Keyed
  <2>2. h \in stream \/ deleted[h] \/ hpc[h] \in Inserted
    BY DEF HandedOver, Handed, Rows
  <2>. QED  BY <2>1, <2>2 DEF Inserted
<1>. QED  BY <1>1, <1>2, <1>3, CreateInvariant, PTL DEF Spec
=============================================================================
