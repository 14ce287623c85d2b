--------------------------- MODULE MapServerProofs --------------------------
(***************************************************************************)
(* Proofs about MapServer, for every set of areas, docking stations and    *)
(* faults: its types, that the published map is the one on the disk, and   *)
(* that without storage faults it implements MapStore.                     *)
(***************************************************************************)
EXTENDS MapServer, SequenceTheorems, WellFoundedInduction, TLAPS

-----------------------------------------------------------------------------
(* Lemmas about the operators of the data.                                  *)

\* The loops of the handlers stop at an index of the sequence, at a record with the id.
LEMMA FirstWithIdInDomain ==
  ASSUME NEW S, NEW s \in Seq(S), NEW id, HasId(s, id)
  PROVE  FirstWithId(s, id) \in DOMAIN s /\ s[FirstWithId(s, id)].id = id
<1> DEFINE T == {i \in DOMAIN s : s[i].id = id}
<1>1. T # {} /\ T \subseteq Nat
  <2>1. DOMAIN s = 1..Len(s) /\ Len(s) \in Nat
    BY LenProperties
  <2> QED BY <2>1 DEF HasId
<1> DEFINE Less == {ss \in Nat \X Nat : ss[1] < ss[2]}
<1>2. IsWellFoundedOn(Less, Nat)
  BY NatLessThanWellFounded DEF OpToRel
<1>3. PICK x \in T : \A y \in T : <<y, x>> \notin Less
  <2> HIDE DEF T, Less
  <2> QED BY <1>1, <1>2, WFMin
<1>4. ASSUME NEW y \in T PROVE x <= y
  <2>1. x \in Nat /\ y \in Nat
    BY <1>1
  <2>2. <<y, x>> \in Less <=> y < x
    BY <2>1
  <2>3. ~(y < x)
    BY <1>3, <2>2
  <2> QED BY <2>1, <2>3
<1>5. \E i \in DOMAIN s : s[i].id = id /\ \A j \in DOMAIN s : s[j].id = id => i <= j
  BY <1>4
<1> HIDE DEF T, Less
<1> QED
  BY <1>5 DEF FirstWithId

\* Overwriting or adding a record gives a sequence of records.
LEMMA UpsertType ==
  ASSUME NEW S, NEW s \in Seq(S), NEW rec \in S
  PROVE  Upsert(s, rec) \in Seq(S)
<1>1. CASE HasId(s, rec.id)
  <2>1. FirstWithId(s, rec.id) \in 1..Len(s)
    BY <1>1, FirstWithIdInDomain, LenProperties
  <2> QED BY <1>1, <2>1, ExceptSeq DEF Upsert
<1>2. CASE ~HasId(s, rec.id)
  BY <1>2, AppendProperties DEF Upsert
<1> QED BY <1>1, <1>2

\* Erasing a record gives a sequence of records.
LEMMA EraseType ==
  ASSUME NEW S, NEW s \in Seq(S), NEW id
  PROVE  Erase(s, id) \in Seq(S)
<1>1. CASE HasId(s, id)
  <2> DEFINE i == FirstWithId(s, id)
  <2>1. i \in 1..Len(s) /\ Len(s) \in Nat
    BY <1>1, FirstWithIdInDomain, LenProperties
  <2> HIDE DEF i
  <2>2. SubSeq(s, 1, i-1) \in Seq(S)
    BY <2>1, SubSeqProperties, ElementOfSeq
  <2>3. SubSeq(s, i+1, Len(s)) \in Seq(S)
    BY <2>1, SubSeqProperties, ElementOfSeq
  <2>4. RemoveAt(s, i) \in Seq(S)
    BY <2>2, <2>3, ConcatProperties DEF RemoveAt
  <2> QED BY <1>1, <2>4 DEF Erase, i
<1>2. CASE ~HasId(s, id)
  BY <1>2 DEF Erase
<1> QED BY <1>1, <1>2

\* An edit takes a map to a map.
LEMMA EditType ==
  ASSUME NEW m \in Maps, NEW c \in Calls
  PROVE  Edit(m, c) \in Maps
<1>1. CASE c \in [op: {"save_area"}, rec: Areas]
  BY <1>1, UpsertType DEF Edit, Maps
<1>2. CASE c \in [op: {"save_dock"}, rec: Docks]
  BY <1>2, UpsertType DEF Edit, Maps
<1>3. CASE c \in [op: {"remove_area"}, id: AreaIds]
  BY <1>3, EraseType DEF Edit, Maps
<1>4. CASE c \in [op: {"remove_dock"}, id: DockIds]
  BY <1>4, EraseType DEF Edit, Maps
<1> QED BY <1>1, <1>2, <1>3, <1>4 DEF Calls, Saves, Removes

\* The round trip through the file takes a map to a map.
LEMMA StoredType ==
  ASSUME NEW m \in Maps
  PROVE  Stored(m) \in Maps
<1>1. \A a \in Areas : StoredArea(a) \in Areas
  BY DEF StoredArea, Areas
<1>2. \A d \in Docks : StoredDock(d) \in Docks
  BY DEF StoredDock, Docks
<1>3. /\ m.areas \in Seq(Areas) /\ m.docks \in Seq(Docks)
      /\ DOMAIN m.areas = 1..Len(m.areas) /\ Len(m.areas) \in Nat
      /\ DOMAIN m.docks = 1..Len(m.docks) /\ Len(m.docks) \in Nat
  BY LenProperties DEF Maps
<1>4. [i \in DOMAIN m.areas |-> StoredArea(m.areas[i])] \in Seq(Areas)
  BY <1>1, <1>3, ElementOfSeq, SeqDef
<1>5. [i \in DOMAIN m.docks |-> StoredDock(m.docks[i])] \in Seq(Docks)
  BY <1>2, <1>3, ElementOfSeq, SeqDef
<1> QED BY <1>4, <1>5 DEF Stored, Maps

-----------------------------------------------------------------------------
(* Types.                                                                   *)

\* Every variable of the map server keeps its type, whatever the faults.
THEOREM TypeCorrect == Spec => []TypeOK
<1> USE DEF TypeOK
<1>1. Init => TypeOK
  <2> SUFFICES ASSUME Init PROVE TypeOK
    OBVIOUS
  <2>1. EmptyMap \in Maps
    BY EmptySeq DEF EmptyMap, Maps
  <2>2. InitialMaps \subseteq Maps
    BY InitialMapsAssumption
  <2>3. file \in [kind: FileKinds, map: Maps]
    BY <2>1, <2>2 DEF Init, InitFiles, Blank, FileKinds
  <2> QED BY <2>1, <2>3 DEF Init, Codes, NoTopic
<1>2. TypeOK /\ [Next]_vars => TypeOK'
  <2> SUFFICES ASSUME TypeOK, [Next]_vars PROVE TypeOK'
    OBVIOUS
  <2>1. EmptyMap \in Maps /\ NoTopic \in [Topics -> Maps \union {NoMap}]
    BY EmptySeq DEF EmptyMap, Maps, NoTopic
  <2>2. \A k \in FileKinds : Blank(k) \in [kind: FileKinds, map: Maps]
    BY <2>1 DEF Blank
  <2>3. ASSUME NEW c \in Calls, Handle(c) PROVE TypeOK'
    <3>1. Edit(memory, c) \in Maps
      BY EditType
    <3> QED BY <2>3, <3>1 DEF Handle, Codes
  <2>4. Throw /\ UNCHANGED file => TypeOK'
    BY <2>1 DEF Throw, Off, CatchCode, Codes
  <2>5. CASE Start
    BY <2>5 DEF Start
  <2>6. CASE Crash
    BY <2>1, <2>2, <2>6 DEF Crash, Off, FileKinds, Codes
  <2>7. CASE Clients
    <3>1. ASSUME NEW a \in Areas, SaveArea(a) PROVE TypeOK'
      BY <2>3, <3>1 DEF SaveArea, Calls, Saves
    <3>2. ASSUME NEW d \in Docks, SaveDock(d) PROVE TypeOK'
      BY <2>3, <3>2 DEF SaveDock, Calls, Saves
    <3>3. ASSUME NEW i \in AreaIds, RemoveArea(i) PROVE TypeOK'
      BY <2>3, <3>3 DEF RemoveArea, Calls, Removes
    <3>4. ASSUME NEW i \in DockIds, RemoveDock(i) PROVE TypeOK'
      BY <2>3, <3>4 DEF RemoveDock, Calls, Removes
    <3> QED BY <2>7, <3>1, <3>2, <3>3, <3>4 DEF Clients
  <2>8. CASE OpenFile
    BY <2>2, <2>8 DEF OpenFile, FileKinds, volatile
  <2>9. CASE OpenFails
    BY <2>4, <2>9 DEF OpenFails
  <2>10. CASE WriteFile
    BY <2>2, <2>10, StoredType DEF WriteFile, FileOf, FileKinds, volatile
  <2>11. CASE Load
    BY <2>11 DEF Load, Parse
  <2>12. CASE LoadThrows
    BY <2>4, <2>12 DEF LoadThrows
  <2>13. CASE PublishMap
    BY <2>13 DEF PublishMap, Topics
  <2>14. CASE GridThrows
    BY <2>4, <2>14 DEF GridThrows
  <2>15. CASE PublishGrid
    BY <2>15 DEF PublishGrid, Topics
  <2>16. CASE GridDies
    BY <2>1, <2>16 DEF GridDies, Off, Codes
  <2>17. CASE PublishRest
    BY <2>17 DEF PublishRest, Topics, Codes
  <2>18. CASE UNCHANGED vars
    BY <2>18 DEF vars
  <2> QED
    BY <2>5, <2>6, <2>7, <2>8, <2>9, <2>10, <2>11, <2>12, <2>13, <2>14, <2>15, <2>16,
       <2>17, <2>18 DEF Next, Executor
<1>3. QED
  BY <1>1, <1>2, PTL DEF Spec

-----------------------------------------------------------------------------
(* Durability of the published map.                                         *)

\* PublishedIsDurable is not inductive: it needs what the steps between the reload and the
\* reply keep, and that a request that has not opened the file has not touched it.
DurableInv ==
  /\ pc \in {"pub_map", "pub_grid", "pub_rest"} => memory = Parse(file)
  /\ pc \in {"pub_grid", "pub_rest"} => topic["map"] = Parse(file)
  /\ pc \in {"idle", "open"} /\ Readable(file) => topic["map"] = Parse(file)

\* Whatever the faults, a readable file holds the map that was last published.
THEOREM PublicationDurable == Spec => []PublishedIsDurable
<1>1. Init => DurableInv
  BY DEF Init, DurableInv
<1>2. TypeOK /\ DurableInv /\ [Next]_vars => DurableInv'
  <2> SUFFICES ASSUME TypeOK, DurableInv, [Next]_vars PROVE DurableInv'
    OBVIOUS
  <2> USE DEF DurableInv, Readable, Parse
  <2>1. ASSUME NEW c, Handle(c) PROVE DurableInv'
    BY <2>1 DEF Handle
  <2>2. ASSUME Off PROVE DurableInv'
    BY <2>2 DEF Off
  <2>3. ASSUME Throw, UNCHANGED file,
               call # NoCall /\ Readable(file) => topic["map"] = Parse(file)
        PROVE  DurableInv'
    BY <2>2, <2>3 DEF Throw
  <2>4. CASE Start
    BY <2>4 DEF Start
  <2>5. CASE Crash
    BY <2>2, <2>5 DEF Crash
  <2>6. CASE Clients
    BY <2>1, <2>6 DEF Clients, SaveArea, SaveDock, RemoveArea, RemoveDock
  <2>7. CASE OpenFile
    BY <2>7 DEF OpenFile
  <2>8. CASE OpenFails
    BY <2>3, <2>8 DEF OpenFails
  <2>9. CASE WriteFile
    BY <2>9 DEF WriteFile
  <2>10. CASE Load
    BY <2>10 DEF Load
  <2>11. CASE LoadThrows
    BY <2>3, <2>11 DEF LoadThrows
  <2>12. CASE PublishMap
    BY <2>12 DEF PublishMap, TypeOK, Topics
  <2>13. CASE GridThrows
    BY <2>3, <2>13 DEF GridThrows
  <2>14. CASE PublishGrid
    BY <2>14 DEF PublishGrid, TypeOK, Topics
  <2>15. CASE GridDies
    BY <2>2, <2>15 DEF GridDies
  <2>16. CASE PublishRest
    BY <2>16 DEF PublishRest, TypeOK, Topics
  <2>17. CASE UNCHANGED vars
    BY <2>17 DEF vars
  <2> QED
    BY <2>4, <2>5, <2>6, <2>7, <2>8, <2>9, <2>10, <2>11, <2>12, <2>13, <2>14, <2>15,
       <2>16, <2>17 DEF Next, Executor
<1>3. DurableInv => PublishedIsDurable
  BY DEF DurableInv, PublishedIsDurable
<1>4. QED
  BY <1>1, <1>2, <1>3, TypeCorrect, PTL DEF Spec

-----------------------------------------------------------------------------
(* Refinement of MapStore.                                                  *)

\* What a request in progress has done so far, when the storage never fails: current_map_
\* is the file's map until the handler edits it, and again once it has been reloaded.
RequestInv ==
  /\ pc \in {"idle", "pub_map", "pub_grid", "pub_rest"} => memory = Parse(file)
  /\ pc = "open" => call \in Calls /\ Stored(memory) = StoredEdit(Parse(file), call)
  /\ pc = "write" => call # NoCall
  /\ pc = "down" => call = NoCall
  /\ pc = "load" /\ call # NoCall => Readable(file)

LEMMA CallsAreCalls == \A c \in Calls : c # NoCall
  BY DEF Calls, Saves, Removes, NoCall

LEMMA RequestInvariant ==
  ASSUME Faults \subseteq {"crash"}
  PROVE  Spec => []RequestInv
<1>1. Init => RequestInv
  BY DEF Init, RequestInv
<1>2. TypeOK /\ RequestInv /\ [Next]_vars => RequestInv'
  <2> SUFFICES ASSUME TypeOK, RequestInv, [Next]_vars PROVE RequestInv'
    OBVIOUS
  <2> USE DEF RequestInv, Readable, Parse
  <2>1. ASSUME NEW c \in Calls, Handle(c) PROVE RequestInv'
    BY <2>1 DEF Handle, StoredEdit
  <2>2. ASSUME Off PROVE RequestInv'
    BY <2>2 DEF Off
  <2>3. CASE Start
    BY <2>3 DEF Start
  <2>4. CASE Crash
    BY <2>2, <2>4 DEF Crash
  <2>5. CASE Clients
    BY <2>1, <2>5 DEF Clients, SaveArea, SaveDock, RemoveArea, RemoveDock, Calls, Saves, Removes
  <2>6. CASE OpenFile
    BY <2>6, CallsAreCalls DEF OpenFile, volatile
  <2>7. CASE OpenFails
    BY <2>7 DEF OpenFails
  <2>8. CASE WriteFile
    BY <2>8 DEF WriteFile, FileOf, volatile
  <2>9. CASE Load
    BY <2>9 DEF Load
  <2>10. CASE LoadThrows
    BY <2>2, <2>10 DEF LoadThrows, Throw
  <2>11. CASE PublishMap
    BY <2>11 DEF PublishMap
  <2>12. CASE GridThrows
    BY <2>2, <2>12 DEF GridThrows, Throw
  <2>13. CASE PublishGrid
    BY <2>13 DEF PublishGrid
  <2>14. CASE GridDies
    BY <2>2, <2>14 DEF GridDies
  <2>15. CASE PublishRest
    BY <2>15 DEF PublishRest
  <2>16. CASE UNCHANGED vars
    BY <2>16 DEF vars
  <2> QED
    BY <2>3, <2>4, <2>5, <2>6, <2>7, <2>8, <2>9, <2>10, <2>11, <2>12, <2>13, <2>14,
       <2>15, <2>16 DEF Next, Executor
<1>3. QED
  BY <1>1, <1>2, TypeCorrect, PTL DEF Spec

\* current_map_ is what subscribers of /map hold from its publication to the next request.
PublishedInv == pc \in {"pub_grid", "pub_rest", "idle"} => memory = topic["map"]

\* Without storage faults no handler leaves an edit in current_map_ that nobody was shown
\* (the four handlers, saveAndPublishMap).
THEOREM MemoryPublished ==
  ASSUME Faults \subseteq {"crash"}
  PROVE  Spec => []MemoryIsPublished
<1>1. Init => PublishedInv
  BY DEF Init, PublishedInv
<1>2. TypeOK /\ RequestInv /\ PublishedInv /\ [Next]_vars => PublishedInv'
  <2> SUFFICES ASSUME TypeOK, RequestInv, PublishedInv, [Next]_vars PROVE PublishedInv'
    OBVIOUS
  <2> USE DEF PublishedInv
  <2>1. ASSUME NEW c, Handle(c) PROVE PublishedInv'
    BY <2>1 DEF Handle
  <2>2. ASSUME Off PROVE PublishedInv'
    BY <2>2 DEF Off
  <2>3. CASE Start \/ UNCHANGED vars
    BY <2>3 DEF Start, vars
  <2>4. CASE Crash
    BY <2>2, <2>4 DEF Crash
  <2>5. CASE Clients
    BY <2>1, <2>5 DEF Clients, SaveArea, SaveDock, RemoveArea, RemoveDock
  <2>6. CASE OpenFile \/ OpenFails \/ WriteFile \/ Load
    BY <2>6 DEF OpenFile, OpenFails, WriteFile, Load
  <2>7. CASE LoadThrows
    BY <2>2, <2>7 DEF LoadThrows, Throw, RequestInv
  <2>8. CASE PublishMap
    BY <2>8 DEF PublishMap, TypeOK, Topics
  <2>9. CASE GridThrows
    BY <2>2, <2>9 DEF GridThrows, Throw
  <2>10. CASE PublishGrid
    BY <2>10 DEF PublishGrid, TypeOK, Topics
  <2>11. CASE GridDies
    BY <2>2, <2>11 DEF GridDies
  <2>12. CASE PublishRest
    BY <2>12 DEF PublishRest, TypeOK, Topics
  <2> QED
    BY <2>3, <2>4, <2>5, <2>6, <2>7, <2>8, <2>9, <2>10, <2>11, <2>12 DEF Next, Executor
<1>3. PublishedInv => MemoryIsPublished
  BY DEF PublishedInv, MemoryIsPublished
<1>4. QED
  BY <1>1, <1>2, <1>3, TypeCorrect, RequestInvariant, PTL DEF Spec

\* Without storage faults the map server implements the map store: every request is one
\* atomic edit of the durable map, at the moment its file is truncated.
THEOREM ServerImplementsStore ==
  ASSUME Faults \subseteq {"crash"}
  PROVE  Spec => ImplementsMapStore
<1> DEFINE stored == IF pc = "write" THEN Stored(memory) ELSE Parse(file)
<1>1. Init /\ TypeOK => Store!StoreInit
  BY DEF Init, TypeOK, Store!StoreInit, Parse, NoTopic, Topics
<1>2. TypeOK /\ RequestInv /\ [Next]_vars => [Store!StoreNext]_<<stored, topic["map"]>>
  <2> SUFFICES ASSUME TypeOK, RequestInv, [Next]_vars
               PROVE  [Store!StoreNext]_<<stored, topic["map"]>>
    OBVIOUS
  <2> USE DEF Store!StoreNext, Parse
  <2> DEFINE Stutter == UNCHANGED <<stored, topic["map"]>>
  <2>1. ASSUME NEW c, Handle(c) PROVE Stutter
    BY <2>1 DEF Handle
  <2>2. ASSUME Off, UNCHANGED file, pc # "write" PROVE Store!Forget
    BY <2>2 DEF Off, Store!Forget, NoTopic, Topics
  <2>3. ASSUME Throw, UNCHANGED file, pc # "write" PROVE Store!Forget \/ Stutter
    BY <2>2, <2>3 DEF Throw
  <2>4. CASE Start
    BY <2>4 DEF Start
  <2>5. CASE Crash
    BY <2>2, <2>5 DEF Crash
  <2>6. CASE Clients
    BY <2>1, <2>6 DEF Clients, SaveArea, SaveDock, RemoveArea, RemoveDock
  <2>7. CASE OpenFile
    <3>1. call \in Calls /\ Store!Commit(call)
      BY <2>7 DEF OpenFile, RequestInv, Store!Commit, volatile
    <3> QED BY <3>1
  <2>8. CASE OpenFails
    BY <2>8 DEF OpenFails
  <2>9. CASE WriteFile
    BY <2>9 DEF WriteFile, FileOf, volatile
  <2>10. CASE Load
    BY <2>10 DEF Load
  <2>11. CASE LoadThrows
    BY <2>3, <2>11 DEF LoadThrows
  <2>12. CASE PublishMap
    BY <2>12 DEF PublishMap, RequestInv, TypeOK, Topics, Store!Announce
  <2>13. CASE GridThrows
    BY <2>3, <2>13 DEF GridThrows
  <2>14. CASE PublishGrid
    BY <2>14 DEF PublishGrid, TypeOK, Topics
  <2>15. CASE GridDies
    BY <2>2, <2>15 DEF GridDies
  <2>16. CASE PublishRest
    BY <2>16 DEF PublishRest, TypeOK, Topics
  <2>17. CASE UNCHANGED vars
    BY <2>17 DEF vars
  <2> QED
    BY <2>4, <2>5, <2>6, <2>7, <2>8, <2>9, <2>10, <2>11, <2>12, <2>13, <2>14, <2>15,
       <2>16, <2>17 DEF Next, Executor
<1>3. QED
  BY <1>1, <1>2, TypeCorrect, RequestInvariant, PTL
     DEF Spec, ImplementsMapStore, Store!StoreSpec, Store!storeVars
-----------------------------------------------------------------------------
(* Records keep their identity: what the loops and the file do to the ids.  *)

\* Erasing the record at i closes the gap: what was behind it moves up by one.
LEMMA RemoveAtElements ==
  ASSUME NEW S, NEW s \in Seq(S), NEW i \in 1..Len(s)
  PROVE  /\ DOMAIN RemoveAt(s, i) = 1..(Len(s) - 1)
         /\ \A j \in 1..(Len(s) - 1) : RemoveAt(s, i)[j] = IF j < i THEN s[j] ELSE s[j + 1]
<1> DEFINE before == SubSeq(s, 1, i-1)
           after  == SubSeq(s, i+1, Len(s))
<1>1. Len(s) \in Nat /\ i \in Nat /\ 1 <= i /\ i <= Len(s)
  BY LenProperties
<1>2. \A j \in 1..Len(s) : s[j] \in S
  BY ElementOfSeq
<1>3. /\ before \in Seq(S) /\ Len(before) = i - 1
      /\ \A j \in 1..(i-1) : before[j] = s[j]
  BY <1>1, <1>2, SubSeqProperties
<1>4. /\ after \in Seq(S) /\ Len(after) = Len(s) - i
      /\ \A j \in 1..(Len(s) - i) : after[j] = s[j + i]
  BY <1>1, <1>2, SubSeqProperties
<1> HIDE DEF before, after
<1>5. /\ before \o after \in Seq(S) /\ Len(before \o after) = Len(s) - 1
      /\ \A j \in 1..(Len(s) - 1) :
           (before \o after)[j] = IF j <= i - 1 THEN before[j] ELSE after[j - (i - 1)]
  <2>1. /\ before \o after \in Seq(S) /\ Len(before \o after) = Len(before) + Len(after)
        /\ \A j \in 1..(Len(before) + Len(after)) :
             (before \o after)[j] = IF j <= Len(before) THEN before[j] ELSE after[j - Len(before)]
    BY <1>3, <1>4, ConcatProperties
  <2>2. (i - 1) + (Len(s) - i) = Len(s) - 1
    BY <1>1
  <2> QED BY <1>3, <1>4, <2>1, <2>2
<1>6. RemoveAt(s, i) = before \o after
  BY DEF RemoveAt, before, after
<1>7. DOMAIN (before \o after) = 1..(Len(s) - 1)
  BY <1>5, LenProperties
<1>8. ASSUME NEW j \in 1..(Len(s) - 1)
      PROVE  (before \o after)[j] = IF j < i THEN s[j] ELSE s[j + 1]
  <2>1. CASE j < i
    BY <1>1, <1>3, <1>5, <2>1
  <2>2. CASE ~(j < i)
    <3>1. j - (i - 1) \in 1..(Len(s) - i) /\ (j - (i - 1)) + i = j + 1
      BY <1>1, <2>2
    <3> QED BY <1>1, <1>4, <1>5, <2>2, <3>1
  <2> QED BY <2>1, <2>2
<1> QED BY <1>6, <1>7, <1>8

\* Saving a record repeats no id, and loses none.
LEMMA UpsertIds ==
  ASSUME NEW S, NEW s \in Seq(S), NEW rec \in S
  PROVE  /\ DistinctIds(s) => DistinctIds(Upsert(s, rec))
         /\ \A i \in DOMAIN s : \E j \in DOMAIN Upsert(s, rec) : Upsert(s, rec)[j].id = s[i].id
<1>1. CASE HasId(s, rec.id)
  <2> DEFINE k == FirstWithId(s, rec.id)
             t == [s EXCEPT ![k] = rec]
  <2>1. k \in DOMAIN s /\ s[k].id = rec.id
    BY <1>1, FirstWithIdInDomain
  <2> HIDE DEF k
  <2>2. DOMAIN t = DOMAIN s /\ \A j \in DOMAIN s : t[j].id = s[j].id
    BY <2>1
  <2>3. Upsert(s, rec) = t
    BY <1>1 DEF Upsert, k
  <2> HIDE DEF t
  <2> QED BY <2>2, <2>3 DEF DistinctIds
<1>2. CASE ~HasId(s, rec.id)
  <2>1. /\ Upsert(s, rec) = Append(s, rec) /\ Len(s) \in Nat
        /\ DOMAIN s = 1..Len(s)
        /\ DOMAIN Append(s, rec) = 1..(Len(s) + 1)
        /\ \A j \in 1..Len(s) : Append(s, rec)[j] = s[j]
        /\ Append(s, rec)[Len(s) + 1] = rec
    BY <1>2, AppendProperties, LenProperties DEF Upsert
  <2>2. \A j \in 1..(Len(s) + 1) : j \in 1..Len(s) \/ j = Len(s) + 1
    BY <2>1
  <2>3. \A j \in 1..Len(s) : j \in 1..(Len(s) + 1) /\ s[j].id # rec.id
    BY <1>2, <2>1 DEF HasId
  <2> QED BY <2>1, <2>2, <2>3 DEF DistinctIds
<1> QED BY <1>1, <1>2

\* Removing a record repeats no id.
LEMMA EraseIds ==
  ASSUME NEW S, NEW s \in Seq(S), NEW id, DistinctIds(s)
  PROVE  DistinctIds(Erase(s, id))
<1>1. CASE HasId(s, id)
  <2> DEFINE k == FirstWithId(s, id)
             t == RemoveAt(s, k)
             Source(j) == IF j < k THEN j ELSE j + 1
  <2>1. k \in 1..Len(s) /\ Len(s) \in Nat /\ DOMAIN s = 1..Len(s)
    BY <1>1, FirstWithIdInDomain, LenProperties
  <2> HIDE DEF k
  <2>2. DOMAIN t = 1..(Len(s) - 1) /\ \A j \in DOMAIN t : t[j] = s[Source(j)]
    BY <2>1, RemoveAtElements
  <2>3. \A j \in 1..(Len(s) - 1) : Source(j) \in DOMAIN s
    BY <2>1
  <2>4. \A i, j \in 1..(Len(s) - 1) : Source(i) = Source(j) => i = j
    BY <2>1
  <2>5. Erase(s, id) = t
    BY <1>1 DEF Erase, k
  <2> HIDE DEF t, Source
  <2> QED BY <2>2, <2>3, <2>4, <2>5 DEF DistinctIds
<1>2. CASE ~HasId(s, id)
  BY <1>2 DEF Erase
<1> QED BY <1>1, <1>2

\* No handler's loop repeats an id.
LEMMA EditDistinct ==
  ASSUME NEW m \in Maps, NEW c \in Calls, Distinct(m)
  PROVE  Distinct(Edit(m, c))
<1> USE DEF Edit, Distinct, Maps
<1>1. CASE c \in [op: {"save_area"}, rec: Areas]
  BY <1>1, UpsertIds
<1>2. CASE c \in [op: {"save_dock"}, rec: Docks]
  BY <1>2, UpsertIds
<1>3. CASE c \in [op: {"remove_area"}, id: AreaIds]
  BY <1>3, EraseIds
<1>4. CASE c \in [op: {"remove_dock"}, id: DockIds]
  BY <1>4, EraseIds
<1> QED BY <1>1, <1>2, <1>3, <1>4 DEF Calls, Saves, Removes

\* The loop of a save handler loses no record.
LEMMA SaveKeepsIds ==
  ASSUME NEW m \in Maps, NEW c \in Saves
  PROVE  Ids(m) \subseteq Ids(Edit(m, c))
<1> USE DEF Edit, Ids, Maps
<1>1. CASE c \in [op: {"save_area"}, rec: Areas]
  BY <1>1, UpsertIds
<1>2. CASE c \in [op: {"save_dock"}, rec: Docks]
  BY <1>2, UpsertIds
<1> QED BY <1>1, <1>2 DEF Saves

\* The round trip through the file changes no id and no order.
LEMMA StoredIds ==
  ASSUME NEW m \in Maps
  PROVE  /\ Distinct(Stored(m)) <=> Distinct(m)
         /\ Ids(Stored(m)) = Ids(m)
<1>1. /\ DOMAIN Stored(m).areas = DOMAIN m.areas
      /\ \A i \in DOMAIN m.areas : Stored(m).areas[i].id = m.areas[i].id
  <2>1. \A i \in DOMAIN m.areas : m.areas[i] \in Areas
    BY ElementOfSeq, LenProperties DEF Maps
  <2>2. \A a \in Areas : StoredArea(a).id = a.id
    BY DEF StoredArea, Areas
  <2> QED BY <2>1, <2>2 DEF Stored
<1>2. /\ DOMAIN Stored(m).docks = DOMAIN m.docks
      /\ \A i \in DOMAIN m.docks : Stored(m).docks[i].id = m.docks[i].id
  <2>1. \A i \in DOMAIN m.docks : m.docks[i] \in Docks
    BY ElementOfSeq, LenProperties DEF Maps
  <2>2. \A d \in Docks : StoredDock(d).id = d.id
    BY DEF StoredDock, Docks
  <2> QED BY <2>1, <2>2 DEF Stored
<1>3. Ids(Stored(m)) = Ids(m)
  <2>1. {Stored(m).areas[i].id : i \in DOMAIN Stored(m).areas} = {m.areas[i].id : i \in DOMAIN m.areas}
    BY <1>1
  <2>2. {Stored(m).docks[i].id : i \in DOMAIN Stored(m).docks} = {m.docks[i].id : i \in DOMAIN m.docks}
    BY <1>2
  <2> QED BY <2>1, <2>2 DEF Ids
<1> QED BY <1>1, <1>2, <1>3 DEF Distinct, DistinctIds

LEMMA EmptyMapDistinct == Distinct(EmptyMap) /\ Ids(EmptyMap) = {}
  BY DEF Distinct, DistinctIds, EmptyMap, Ids

\* Whatever the faults, no step makes a map with distinct ids into one that repeats an id
\* (the loops of the four handlers, save() and load()).
THEOREM IdsStayDistinct == Spec => NoIdIsDuplicated
<1> DEFINE Unique == Distinct(memory) /\ Distinct(Parse(file))
<1>1. TypeOK /\ [Next]_vars => [Unique => Distinct(memory') /\ Distinct(Parse(file'))]_vars
  <2> SUFFICES ASSUME TypeOK, [Next]_vars, Unique
               PROVE  Distinct(memory') /\ Distinct(Parse(file'))
    OBVIOUS
  <2> USE DEF Parse
  <2> DEFINE Kept == Distinct(memory') /\ Distinct(file'.map)
  <2>1. ASSUME NEW c \in Calls, Handle(c) PROVE Kept
    <3>1. Distinct(Edit(memory, c))
      BY EditDistinct DEF TypeOK
    <3> QED BY <2>1, <3>1 DEF Handle
  <2>2. ASSUME Off PROVE Distinct(memory')
    BY <2>2, EmptyMapDistinct DEF Off
  <2>3. ASSUME Throw, UNCHANGED file PROVE Kept
    BY <2>2, <2>3 DEF Throw
  <2>4. \A k : Distinct(Blank(k).map)
    BY EmptyMapDistinct DEF Blank
  <2>5. CASE Start \/ UNCHANGED vars
    BY <2>5 DEF Start, vars
  <2>6. CASE Crash
    BY <2>2, <2>4, <2>6 DEF Crash
  <2>7. CASE Clients
    BY <2>1, <2>7 DEF Clients, SaveArea, SaveDock, RemoveArea, RemoveDock, Calls, Saves, Removes
  <2>8. CASE OpenFile
    BY <2>4, <2>8 DEF OpenFile, volatile
  <2>9. CASE OpenFails \/ LoadThrows \/ GridThrows
    BY <2>3, <2>9 DEF OpenFails, LoadThrows, GridThrows
  <2>10. CASE WriteFile
    <3>1. Distinct(FileOf(memory).map)
      BY StoredIds DEF FileOf, TypeOK
    <3> QED BY <2>4, <2>10, <3>1 DEF WriteFile, volatile
  <2>11. CASE Load
    BY <2>11 DEF Load
  <2>12. CASE PublishMap \/ PublishGrid \/ PublishRest
    BY <2>12 DEF PublishMap, PublishGrid, PublishRest
  <2>13. CASE GridDies
    BY <2>2, <2>13 DEF GridDies
  <2> QED
    BY <2>5, <2>6, <2>7, <2>8, <2>9, <2>10, <2>11, <2>12, <2>13 DEF Next, Executor
<1>2. QED
  BY <1>1, TypeCorrect, PTL DEF Spec, NoIdIsDuplicated

\* NoRecordVanishes turns on what the reload finds: the file that this request has just
\* written from current_map_, or, in the constructor, any file, with current_map_ still empty.
ReloadInv ==
  /\ pc = "down" => memory = EmptyMap
  /\ pc = "load" => Ids(memory) \subseteq Ids(Parse(file))

\* As long as the disk does not fill up during a save, an id leaves current_map_ of a living
\* process only in the handler of a request to remove it; crashes, a crash that tears the file
\* and a file that cannot be opened change nothing about that.
THEOREM RecordsStay ==
  ASSUME "disk_full" \notin Faults
  PROVE  Spec => NoRecordVanishes
<1>1. Init => ReloadInv
  BY DEF Init, ReloadInv
<1>2. TypeOK /\ ReloadInv /\ [Next]_vars => ReloadInv'
  <2> SUFFICES ASSUME TypeOK, ReloadInv, [Next]_vars PROVE ReloadInv'
    OBVIOUS
  <2> USE DEF ReloadInv
  <2>1. ASSUME NEW c, Handle(c) PROVE ReloadInv'
    BY <2>1 DEF Handle
  <2>2. ASSUME Off PROVE ReloadInv'
    BY <2>2 DEF Off
  <2>3. CASE Start
    BY <2>3, EmptyMapDistinct DEF Start
  <2>4. CASE Crash
    BY <2>2, <2>4 DEF Crash
  <2>5. CASE Clients
    BY <2>1, <2>5 DEF Clients, SaveArea, SaveDock, RemoveArea, RemoveDock
  <2>6. CASE OpenFile \/ Load \/ PublishMap \/ PublishGrid \/ PublishRest
    BY <2>6 DEF OpenFile, Load, PublishMap, PublishGrid, PublishRest
  <2>7. CASE OpenFails \/ LoadThrows \/ GridThrows
    BY <2>2, <2>7 DEF OpenFails, LoadThrows, GridThrows, Throw
  <2>8. CASE WriteFile
    BY <2>8, StoredIds DEF WriteFile, FileOf, Parse, volatile, TypeOK
  <2>9. CASE GridDies
    BY <2>2, <2>9 DEF GridDies
  <2>10. CASE UNCHANGED vars
    BY <2>10 DEF vars, Parse
  <2> QED
    BY <2>3, <2>4, <2>5, <2>6, <2>7, <2>8, <2>9, <2>10 DEF Next, Executor
<1> DEFINE Removal == (\E i \in AreaIds : RemoveArea(i)) \/ (\E i \in DockIds : RemoveDock(i))
<1>3. TypeOK /\ ReloadInv /\ [Next]_vars
        => [pc' # "down" /\ ~(\E i \in AreaIds : RemoveArea(i)) /\ ~(\E i \in DockIds : RemoveDock(i))
              => Ids(memory) \subseteq Ids(memory')]_vars
  <2> SUFFICES ASSUME TypeOK, ReloadInv, [Next]_vars, pc' # "down", ~Removal
               PROVE  Ids(memory) \subseteq Ids(memory')
    BY DEF Removal
  <2>1. ASSUME NEW c \in Saves, Handle(c) PROVE Ids(memory) \subseteq Ids(memory')
    BY <2>1, SaveKeepsIds DEF Handle, TypeOK
  <2>2. CASE Clients
    BY <2>1, <2>2 DEF Clients, SaveArea, SaveDock, Saves
  <2>3. CASE Load
    BY <2>3 DEF Load, ReloadInv
  <2>4. CASE Crash \/ GridDies
    BY <2>4 DEF Crash, GridDies, Off
  <2>5. CASE OpenFails \/ LoadThrows \/ GridThrows
    BY <2>5 DEF OpenFails, LoadThrows, GridThrows, Throw, Off
  <2>6. CASE Start \/ OpenFile \/ WriteFile \/ UNCHANGED vars
    BY <2>6 DEF Start, OpenFile, WriteFile, volatile, vars
  <2>7. CASE PublishMap \/ PublishGrid \/ PublishRest
    BY <2>7 DEF PublishMap, PublishGrid, PublishRest
  <2> QED
    BY <2>2, <2>3, <2>4, <2>5, <2>6, <2>7 DEF Next, Executor
<1>4. QED
  BY <1>1, <1>2, <1>3, TypeCorrect, PTL DEF Spec, NoRecordVanishes
=============================================================================
