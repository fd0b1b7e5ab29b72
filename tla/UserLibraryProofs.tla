------------------------- MODULE UserLibraryProofs --------------------------
(***************************************************************************)
(* Proofs about scan history: types and the cap of the table, retention,    *)
(* and what a revoked consent keeps out.                                    *)
(***************************************************************************)
EXTENDS UserLibrary, TLAPS, FiniteSetTheorems, SequenceTheorems

-----------------------------------------------------------------------------
(* The newest entries of a table.                                           *)

LEMMA ScansAreFinite ==
    ASSUME NEW S \in SUBSET Scans
    PROVE  IsFiniteSet(S) /\ Cardinality(S) \in Nat /\ S \subseteq Nat
<1>1. MaxScans \in Nat
  BY LibraryAssumption
<1>2. IsFiniteSet(Scans)
  BY <1>1, FS_Interval DEF Scans
<1>3. IsFiniteSet(S)
  BY <1>2, FS_Subset
<1>4. S \subseteq Nat
  BY <1>1 DEF Scans
<1>. QED
  BY <1>3, <1>4, FS_CardinalityType

\* The order of the natural numbers, as a relation.
Smaller == {p \in Nat \X Nat : p[1] < p[2]}

LEMMA LeastNumber ==
    ASSUME NEW S \in SUBSET Nat, S # {}
    PROVE  \E s \in S : \A t \in S : s <= t
<1>1. IsWellFoundedOn(Smaller, Nat)
  BY NatLessThanWellFounded DEF OpToRel, Smaller
<1>2. PICK s \in S : \A t \in S : <<t, s>> \notin Smaller
  BY <1>1, WFMin
<1>3. \A t \in S : ~(t < s)
  BY <1>2 DEF Smaller
<1>. QED
  BY <1>3

\* The greatest scan is the one with the fewest scans to come.
LEMMA GreatestScan ==
    ASSUME NEW S \in SUBSET Scans, S # {}
    PROVE  \E s \in S : \A t \in S : t <= s
<1>. DEFINE left == {MaxScans - s : s \in S}
<1>1. MaxScans \in Nat /\ \A s \in S : s \in Nat /\ MaxScans - s \in Nat
  BY LibraryAssumption DEF Scans
<1>2. left \in SUBSET Nat /\ left # {}
  BY <1>1
<1>3. PICK n \in left : \A k \in left : n <= k
  <2>. HIDE DEF left
  <2>. QED
    BY <1>2, LeastNumber
<1>4. PICK s \in S : n = MaxScans - s
  BY <1>3
<1>5. \A t \in S : MaxScans - s <= MaxScans - t
  BY <1>3, <1>4
<1>. QED
  BY <1>1, <1>5

\* A larger set of scans has more elements.
LEMMA Counts ==
    ASSUME NEW S \in SUBSET Scans, NEW T \in SUBSET S
    PROVE  Cardinality(T) <= Cardinality(S)
BY ScansAreFinite, FS_Subset

\* The entries of a table that are newer than s.
Above(S, s) == {t \in S : t > s}

LEMMA AboveCounts ==
    ASSUME NEW S \in SUBSET Scans
    PROVE  /\ \A s \in S : s \in Nat /\ Cardinality(Above(S, s)) \in Nat
           /\ Newest(S) \in SUBSET S
           /\ \A s \in S : s \in Newest(S) <=> Cardinality(Above(S, s)) < Limit
<1>1. \A s \in S : s \in Nat
  BY ScansAreFinite
<1>2. ASSUME NEW s \in S
      PROVE  Cardinality(Above(S, s)) \in Nat
  <2>1. Above(S, s) \in SUBSET Scans
    BY DEF Above
  <2>. QED
    BY <2>1, ScansAreFinite
<1>3. Newest(S) = {s \in S : Cardinality(Above(S, s)) < Limit}
  BY DEF Newest, Above
<1>. QED
  BY <1>1, <1>2, <1>3

\* Newest keeps at most Limit entries.
LEMMA NewestIsCapped ==
    ASSUME NEW S \in SUBSET Scans
    PROVE  Cardinality(Newest(S)) <= Limit
<1>. Limit \in Nat \ {0}
  BY LibraryAssumption
<1>1. Newest(S) \in SUBSET S /\ Newest(S) \in SUBSET Scans
  BY AboveCounts
<1>2. IsFiniteSet(Newest(S)) /\ Cardinality(Newest(S)) \in Nat
  BY <1>1, ScansAreFinite
<1>3. CASE Newest(S) = {}
  BY <1>3, FS_EmptySet
<1>4. CASE Newest(S) # {}
  <2>1. Newest(S) \in SUBSET Nat
    BY <1>1, AboveCounts
  <2>2. PICK m \in Newest(S) : \A t \in Newest(S) : m <= t
    BY <2>1, <1>4, LeastNumber
  <2>3. Newest(S) \ {m} \in SUBSET Above(S, m)
    <3>. SUFFICES ASSUME NEW t \in Newest(S), t # m
                  PROVE  t \in S /\ t > m
      BY DEF Above
    <3>1. m <= t /\ m \in Nat /\ t \in Nat
      BY <2>1, <2>2
    <3>. QED
      BY <1>1, <3>1
  <2>4. Above(S, m) \in SUBSET Scans
    BY DEF Above
  <2>5. Cardinality(Newest(S) \ {m}) <= Cardinality(Above(S, m))
    BY <2>3, <2>4, Counts
  <2>6. Cardinality(Newest(S) \ {m}) = Cardinality(Newest(S)) - 1
    BY <1>2, <2>2, FS_RemoveElement
  <2>7. Cardinality(Above(S, m)) < Limit /\ Cardinality(Above(S, m)) \in Nat
    BY <1>1, <2>2, AboveCounts
  <2>. QED
    BY <1>2, <2>5, <2>6, <2>7
<1>. QED
  BY <1>3, <1>4

\* If it drops an entry it keeps Limit, all of them newer.
LEMMA NewestDropsTheOldest ==
    ASSUME NEW S \in SUBSET Scans, NEW s \in S, s \notin Newest(S)
    PROVE  /\ Cardinality(Newest(S)) = Limit
           /\ \A t \in Newest(S) : t > s
<1>. Limit \in Nat \ {0}
  BY LibraryAssumption
<1>1. Newest(S) \in SUBSET S /\ Newest(S) \in SUBSET Scans
  BY AboveCounts
<1>2. Cardinality(Newest(S)) \in Nat
  BY <1>1, ScansAreFinite
<1>3. ASSUME NEW t \in Newest(S)
      PROVE  t > s
  <2>1. SUFFICES ASSUME ~(t > s)
                 PROVE  FALSE
    OBVIOUS
  <2>2. t \in S /\ t \in Nat /\ s \in Nat
    BY <1>1, AboveCounts
  <2>3. Above(S, s) \in SUBSET Above(S, t)
    <3>. SUFFICES ASSUME NEW u \in S, u > s
                  PROVE  u > t
      BY DEF Above
    <3>1. u \in Nat
      BY AboveCounts
    <3>. QED
      BY <2>1, <2>2, <3>1
  <2>4. Above(S, t) \in SUBSET Scans
    BY DEF Above
  <2>5. Cardinality(Above(S, s)) <= Cardinality(Above(S, t))
    BY <2>3, <2>4, Counts
  <2>. QED
    BY <2>2, <2>5, AboveCounts
<1>4. Cardinality(Newest(S)) >= Limit
  <2>1. S \ Newest(S) \in SUBSET Scans /\ S \ Newest(S) # {}
    OBVIOUS
  <2>2. PICK m \in S \ Newest(S) : \A t \in S \ Newest(S) : t <= m
    BY <2>1, GreatestScan
  <2>3. Above(S, m) \in SUBSET Newest(S)
    <3>. SUFFICES ASSUME NEW t \in S, t > m, t \notin Newest(S)
                  PROVE  FALSE
      BY DEF Above
    <3>1. t <= m /\ t \in Nat /\ m \in Nat
      BY <2>2, AboveCounts
    <3>. QED
      BY <3>1
  <2>4. Cardinality(Above(S, m)) <= Cardinality(Newest(S))
    BY <1>1, <2>3, Counts
  <2>5. ~(Cardinality(Above(S, m)) < Limit) /\ Cardinality(Above(S, m)) \in Nat
    BY <2>2, AboveCounts
  <2>. QED
    BY <1>2, <2>4, <2>5
<1>5. Cardinality(Newest(S)) <= Limit
  BY NewestIsCapped
<1>. QED
  BY <1>2, <1>3, <1>4, <1>5

-----------------------------------------------------------------------------
(* Types and the cap.                                                       *)

LEMMA TypeInit == Init => LibraryTypeOK
<1>. SUFFICES ASSUME Init
              PROVE  LibraryTypeOK
  OBVIOUS
<1>1. FreeScan \in ScanRecord
  BY LibraryAssumption DEF FreeScan, ScanRecord, Phases
<1>2. NoLoad \in LoadRecord
  BY DEF NoLoad, LoadRecord
<1>3. Cardinality(saved) <= Limit
  BY LibraryAssumption, FS_EmptySet DEF Init
<1>4. sent \in Seq([on : BOOLEAN, was : BOOLEAN, asked : 0..MaxScans])
  BY DEF Init
<1>5. failed \in Seq(BOOLEAN)
  BY DEF Init
<1>6. consent \in 0..MaxConsent /\ accepted \in 0..MaxScans /\ revoked \in 0..MaxScans
  BY LibraryAssumption DEF Init
<1>7. scans \in [Scans -> ScanRecord]
  BY <1>1 DEF Init
<1>. QED
  BY <1>2, <1>3, <1>4, <1>5, <1>6, <1>7 DEF Init, LibraryTypeOK

\* What invalidating consent leaves well typed.
LEMMA SwitchTypes ==
    ASSUME LibraryTypeOK, NEW on \in BOOLEAN, ShowSwitch(on)
    PROVE  /\ historyEnabled' \in BOOLEAN
           /\ consent' \in 0..MaxConsent
           /\ scans' \in [Scans -> ScanRecord]
<1>1. CASE historyEnabled = on
  BY <1>1 DEF LibraryTypeOK, ShowSwitch
<1>2. CASE historyEnabled # on
  <2>1. InvalidateConsent /\ historyEnabled' = on
    BY <1>2 DEF ShowSwitch
  <2>2. consent' \in 0..MaxConsent
    BY <2>1, LibraryAssumption DEF LibraryTypeOK, InvalidateConsent
  <2>3. \A s \in Scans :
          [scans[s] EXCEPT !.cancelled = TRUE] \in ScanRecord
    BY DEF LibraryTypeOK, ScanRecord
  <2>4. scans' \in [Scans -> ScanRecord]
    BY <2>1, <2>3 DEF LibraryTypeOK, InvalidateConsent
  <2>. QED
    BY <2>1, <2>2, <2>4
<1>. QED
  BY <1>1, <1>2

LEMMA MoveTypes ==
    ASSUME LibraryTypeOK, NEW s \in Scans, NEW p, NEW q \in Phases, Move(s, p, q)
    PROVE  scans' \in [Scans -> ScanRecord]
<1>1. [scans[s] EXCEPT !.phase = q] \in ScanRecord
  BY DEF LibraryTypeOK, ScanRecord
<1>. QED
  BY <1>1 DEF LibraryTypeOK, Move

LEMMA WriteTaskTypes ==
    ASSUME LibraryTypeOK, NEW s \in Scans, WriteTask(s)
    PROVE  LibraryTypeOK'
<1>. USE DEF screen, camera, switch, store, OnlyCamera
<1>1. CASE RecordCameraScan(s)
  <2>1. scans' \in [Scans -> ScanRecord]
    BY <1>1, MoveTypes DEF RecordCameraScan, MoveIfConsented, Phases
  <2>. QED
    BY <1>1, <2>1 DEF RecordCameraScan, LibraryTypeOK
<1>2. CASE StartWrite(s)
  <2>1. scans' \in [Scans -> ScanRecord]
    BY <1>2, MoveTypes DEF StartWrite, MoveIfConsented, Phases
  <2>. QED
    BY <1>2, <2>1 DEF StartWrite, LibraryTypeOK
<1>3. CASE BeginRecord(s)
  BY <1>3 DEF BeginRecord, LibraryTypeOK
<1>4. CASE RefuseRecord(s)
  <2>1. scans' \in [Scans -> ScanRecord]
    BY <1>4, MoveTypes DEF RefuseRecord, Phases
  <2>. QED
    BY <1>4, <2>1 DEF RefuseRecord, LibraryTypeOK
<1>5. CASE CommitRecord(s)
  <2>1. scans' \in [Scans -> ScanRecord]
    BY <1>5, MoveTypes DEF CommitRecord, Phases
  <2>2. saved \cup {s} \in SUBSET Scans
    BY DEF LibraryTypeOK
  <2>3. saved' \in SUBSET Scans /\ Cardinality(saved') <= Limit
    BY <1>5, <2>2, AboveCounts, NewestIsCapped DEF CommitRecord
  <2>. QED
    BY <1>5, <2>1, <2>3 DEF CommitRecord, LibraryTypeOK
<1>6. CASE RollBackRecord(s)
  <2>1. scans' \in [Scans -> ScanRecord]
    BY <1>6, MoveTypes DEF RollBackRecord, Phases
  <2>. QED
    BY <1>6, <2>1 DEF RollBackRecord, LibraryTypeOK
<1>7. CASE AfterRecord(s)
  <2>1. scans' \in [Scans -> ScanRecord]
    BY <1>7, MoveTypes DEF AfterRecord, MoveIfConsented, Phases
  <2>. QED
    BY <1>7, <2>1 DEF AfterRecord, LibraryTypeOK
<1>8. CASE ReadBack(s)
  <2>1. scans' \in [Scans -> ScanRecord]
    BY <1>8, MoveTypes DEF ReadBack, Phases
  <2>. QED
    BY <1>8, <2>1 DEF ReadBack, LibraryTypeOK
<1>9. CASE ReadBackFails(s)
  <2>1. scans' \in [Scans -> ScanRecord]
    BY <1>9, MoveTypes DEF ReadBackFails, Phases
  <2>. QED
    BY <1>9, <2>1 DEF ReadBackFails, LibraryTypeOK
<1>. QED
  BY <1>1, <1>2, <1>3, <1>4, <1>5, <1>6, <1>7, <1>8, <1>9 DEF WriteTask

\* The calls that wait for the store.
Calls == [on : BOOLEAN, was : BOOLEAN, asked : 0..MaxScans]

LEMMA SwitchCallTypes ==
    ASSUME LibraryTypeOK
    PROVE  /\ \A on \in BOOLEAN : SetHistoryEnabled(on) => LibraryTypeOK'
           /\ StoreSwitch => LibraryTypeOK'
           /\ StoreSwitchFails => LibraryTypeOK'
           /\ RevertSwitch => LibraryTypeOK'
<1>. USE DEF screen, camera, switch, store
<1>0. sent \in Seq(Calls) /\ failed \in Seq(BOOLEAN)
  BY DEF LibraryTypeOK, Calls
<1>1. ASSUME NEW on \in BOOLEAN, SetHistoryEnabled(on)
      PROVE  LibraryTypeOK'
  <2>1. /\ historyEnabled' \in BOOLEAN
        /\ consent' \in 0..MaxConsent
        /\ scans' \in [Scans -> ScanRecord]
    BY <1>1, SwitchTypes DEF SetHistoryEnabled
  <2>2. [on |-> on, was |-> historyEnabled, asked |-> accepted] \in Calls
    BY DEF LibraryTypeOK, Calls
  <2>3. sent' \in Seq(Calls)
    BY <1>0, <1>1, <2>2, AppendProperties DEF SetHistoryEnabled
  <2>. QED
    BY <1>1, <2>1, <2>3 DEF SetHistoryEnabled, LibraryTypeOK, Calls
<1>2. ASSUME StoreSwitch
      PROVE  LibraryTypeOK'
  <2>1. Head(sent) \in Calls /\ Tail(sent) \in Seq(Calls)
    BY <1>0, <1>2, HeadTailProperties DEF StoreSwitch
  <2>2. optIn' \in BOOLEAN /\ revoked' \in 0..MaxScans
    BY <1>2, <2>1 DEF StoreSwitch, LibraryTypeOK, Calls
  <2>. QED
    BY <1>2, <2>1, <2>2 DEF StoreSwitch, LibraryTypeOK, Calls
<1>3. ASSUME StoreSwitchFails
      PROVE  LibraryTypeOK'
  <2>1. Head(sent) \in Calls /\ Tail(sent) \in Seq(Calls)
    BY <1>0, <1>3, HeadTailProperties DEF StoreSwitchFails
  <2>2. failed' \in Seq(BOOLEAN)
    BY <1>0, <1>3, <2>1, AppendProperties DEF StoreSwitchFails, Calls
  <2>. QED
    BY <1>3, <2>1, <2>2 DEF StoreSwitchFails, LibraryTypeOK, Calls
<1>4. ASSUME RevertSwitch
      PROVE  LibraryTypeOK'
  <2>1. Head(failed) \in BOOLEAN /\ Tail(failed) \in Seq(BOOLEAN)
    BY <1>0, <1>4, HeadTailProperties DEF RevertSwitch
  <2>. QED
    BY <1>4, <2>1 DEF RevertSwitch, LibraryTypeOK
<1>. QED
  BY <1>1, <1>2, <1>3, <1>4

LEMMA LoadTypes ==
    ASSUME LibraryTypeOK
    PROVE  /\ StartLoad => LibraryTypeOK'
           /\ \A part \in Parts : ServeLoad(part) => LibraryTypeOK'
           /\ LoadFails => LibraryTypeOK'
           /\ FinishLoad => LibraryTypeOK'
<1>. USE DEF screen, camera, switch, store
<1>0. NoLoad \in LoadRecord
  BY DEF NoLoad, LoadRecord
<1>1. ASSUME StartLoad
      PROVE  LibraryTypeOK'
  <2>1. load' \in LoadRecord
    BY <1>0, <1>1 DEF StartLoad, LoadRecord, NoLoad
  <2>. QED
    BY <1>1, <2>1 DEF StartLoad, LibraryTypeOK
<1>2. ASSUME NEW part \in Parts, ServeLoad(part)
      PROVE  LibraryTypeOK'
  <2>1. load' \in LoadRecord
    BY <1>2 DEF ServeLoad, LoadRecord, LibraryTypeOK
  <2>. QED
    BY <1>2, <2>1 DEF ServeLoad, LibraryTypeOK
<1>3. ASSUME LoadFails
      PROVE  LibraryTypeOK'
  BY <1>0, <1>3 DEF LoadFails, LibraryTypeOK
<1>4. ASSUME FinishLoad
      PROVE  LibraryTypeOK'
  <2>1. load.on \in BOOLEAN /\ load.entries \subseteq Scans
    BY DEF LibraryTypeOK, LoadRecord
  <2>2. /\ historyEnabled' \in BOOLEAN
        /\ consent' \in 0..MaxConsent
        /\ scans' \in [Scans -> ScanRecord]
    BY <1>4, <2>1, SwitchTypes DEF FinishLoad
  <2>. QED
    BY <1>0, <1>4, <2>1, <2>2 DEF FinishLoad, LibraryTypeOK
<1>. QED
  BY <1>1, <1>2, <1>3, <1>4

LEMMA TypeNext ==
    ASSUME LibraryTypeOK, [Next]_vars
    PROVE  LibraryTypeOK'
<1>. USE DEF screen, camera, switch, store
<1>1. CASE Tap
  BY <1>1 DEF Tap, LibraryTypeOK
<1>2. CASE \E on \in BOOLEAN : SetHistoryEnabled(on)
  BY <1>2, SwitchCallTypes
<1>3. CASE StoreSwitch \/ StoreSwitchFails \/ RevertSwitch
  BY <1>3, SwitchCallTypes
<1>4. ASSUME NEW s \in Scans, AcceptScan(s)
      PROVE  LibraryTypeOK'
  <2>1. [FreeScan EXCEPT !.phase = "lookingUp", !.token = consent] \in ScanRecord
    BY DEF LibraryTypeOK, ScanRecord, FreeScan, Phases
  <2>2. scans' \in [Scans -> ScanRecord]
    BY <1>4, <2>1 DEF AcceptScan, LibraryTypeOK
  <2>3. accepted' \in 0..MaxScans
    BY <1>4, LibraryAssumption DEF AcceptScan, Scans
  <2>. QED
    BY <1>4, <2>2, <2>3 DEF AcceptScan, LibraryTypeOK
<1>5. ASSUME NEW s \in Scans, DropLookup(s)
      PROVE  LibraryTypeOK'
  <2>1. scans' \in [Scans -> ScanRecord]
    BY <1>5, MoveTypes DEF DropLookup, Phases
  <2>. QED
    BY <1>5, <2>1 DEF DropLookup, OnlyCamera, LibraryTypeOK
<1>6. ASSUME NEW s \in Scans, WriteTask(s)
      PROVE  LibraryTypeOK'
  BY <1>6, WriteTaskTypes
<1>7. CASE ClearHistory
  <2>1. Cardinality(saved') <= Limit
    BY <1>7, LibraryAssumption, FS_EmptySet DEF ClearHistory
  <2>. QED
    BY <1>7, <2>1 DEF ClearHistory, LibraryTypeOK
<1>8. ASSUME NEW s \in Scans, DeleteHistoryEntry(s)
      PROVE  LibraryTypeOK'
  <2>1. saved' \in SUBSET saved /\ saved \in SUBSET Scans
    BY <1>8 DEF DeleteHistoryEntry, LibraryTypeOK
  <2>2. Cardinality(saved') <= Cardinality(saved)
    BY <2>1, Counts
  <2>3. Cardinality(saved') \in Nat /\ Cardinality(saved) \in Nat
    BY <2>1, ScansAreFinite
  <2>4. Cardinality(saved') <= Limit
    BY <2>2, <2>3, LibraryAssumption DEF LibraryTypeOK
  <2>. QED
    BY <1>8, <2>1, <2>4 DEF DeleteHistoryEntry, LibraryTypeOK
<1>9. CASE StartLoad \/ LoadFails \/ FinishLoad
  BY <1>9, LoadTypes
<1>10. CASE \E part \in Parts : ServeLoad(part)
  BY <1>10, LoadTypes
<1>11. CASE Relaunch
  <2>1. FreeScan \in ScanRecord
    BY LibraryAssumption DEF FreeScan, ScanRecord, Phases
  <2>2. [FreeScan EXCEPT !.phase = "ended"] \in ScanRecord
    BY <2>1 DEF ScanRecord, Phases
  <2>3. scans' \in [Scans -> ScanRecord]
    BY <1>11, <2>1, <2>2 DEF Relaunch
  <2>4. load' \in LoadRecord
    BY <1>11 DEF Relaunch, NoLoad, LoadRecord
  <2>5. /\ sent' \in Seq([on : BOOLEAN, was : BOOLEAN, asked : 0..MaxScans])
        /\ failed' \in Seq(BOOLEAN)
    BY <1>11 DEF Relaunch
  <2>6. consent' \in 0..MaxConsent
    BY <1>11, LibraryAssumption DEF Relaunch
  <2>. QED
    BY <1>11, <2>3, <2>4, <2>5, <2>6 DEF Relaunch, LibraryTypeOK
<1>12. CASE UNCHANGED vars
  BY <1>12 DEF vars, LibraryTypeOK
<1>. QED
  BY <1>1, <1>2, <1>3, <1>4, <1>5, <1>6, <1>7, <1>8, <1>9, <1>10, <1>11, <1>12
  DEF Next

(* Types, and HF-HISTORY-003: scan_history never holds more than Limit      *)
(* entries, in every state of every execution and for every limit.          *)
THEOREM LibraryTypeCorrect == Spec => []LibraryTypeOK
<1>. QED
  BY TypeInit, TypeNext, PTL DEF Spec

-----------------------------------------------------------------------------
(* Retention.                                                               *)

\* Who writes the table.
LEMMA SavedChanges ==
    ASSUME LibraryTypeOK, [Next]_vars, saved' # saved
    PROVE  \/ ClearHistory
           \/ \E n \in Scans : DeleteHistoryEntry(n)
           \/ \E n \in Scans : CommitRecord(n)
<1>. USE DEF screen, camera, switch, store, OnlyCamera
<1>1. ~Tap /\ ~StoreSwitch /\ ~StoreSwitchFails /\ ~RevertSwitch
      /\ ~StartLoad /\ ~LoadFails /\ ~FinishLoad /\ ~Relaunch
  BY DEF Tap, StoreSwitch, StoreSwitchFails, RevertSwitch, StartLoad,
         LoadFails, FinishLoad, Relaunch
<1>2. \A on \in BOOLEAN : ~SetHistoryEnabled(on)
  BY DEF SetHistoryEnabled
<1>3. \A part \in Parts : ~ServeLoad(part)
  BY DEF ServeLoad
<1>4. \A n \in Scans : ~AcceptScan(n) /\ ~DropLookup(n)
  BY DEF AcceptScan, DropLookup
<1>5. ASSUME NEW n \in Scans, WriteTask(n)
      PROVE  CommitRecord(n)
  BY <1>5 DEF WriteTask, RecordCameraScan, StartWrite, BeginRecord,
     RefuseRecord, RollBackRecord, AfterRecord, ReadBack, ReadBackFails
<1>6. ~UNCHANGED vars
  BY DEF vars
<1>. QED
  BY <1>1, <1>2, <1>3, <1>4, <1>5, <1>6 DEF Next

(* Every trim of every limit keeps the newest entries: a recorded scan      *)
(* displaces an entry only from a full table, and only an older one.        *)
THEOREM OnlyNewerDisplace == Spec => OnlyNewerEntriesDisplace
<1>1. ASSUME LibraryTypeOK, [Next]_vars, writing # Nobody,
             NEW s \in saved \ saved'
      PROVE  Cardinality(saved') = Limit /\ \A t \in saved' : t > s
  <2>1. PICK n \in Scans : CommitRecord(n)
    <3>1. saved' # saved
      BY <1>1
    <3>2. ~ClearHistory /\ \A n \in Scans : ~DeleteHistoryEntry(n)
      BY <1>1 DEF ClearHistory, DeleteHistoryEntry
    <3>. QED
      BY <1>1, <3>1, <3>2, SavedChanges
  <2>2. saved \cup {n} \in SUBSET Scans /\ saved' = Newest(saved \cup {n})
    BY <1>1, <2>1 DEF CommitRecord, LibraryTypeOK
  <2>3. s \in saved \cup {n} /\ s \notin Newest(saved \cup {n})
    BY <1>1, <2>2
  <2>. QED
    BY <2>2, <2>3, NewestDropsTheOldest
<1>2. LibraryTypeOK /\ [Next]_vars
        => [writing # Nobody =>
              \A s \in saved \ saved' :
                 /\ Cardinality(saved') = Limit
                 /\ \A t \in saved' : t > s]_vars
  BY <1>1
<1>. QED
  BY <1>2, LibraryTypeCorrect, PTL DEF Spec, OnlyNewerEntriesDisplace

-----------------------------------------------------------------------------
(* What a revoked consent keeps out.                                        *)

\* A scan that may still be saved.
Live(s) ==
    /\ ~scans[s].cancelled
    /\ \/ scans[s].phase \in TaskPhases
       \/ /\ scans[s].phase = "lookingUp"
          /\ historyEnabled
          /\ scans[s].token = consent

\* It is newer than every disabling that was carried out or waits for the
\* store.
Ahead(s) ==
    /\ historyEnabled
    /\ scans[s].token = consent
    /\ revoked < s
    /\ \A i \in 1..Len(sent) : sent[i].on \/ sent[i].asked < s

ConsentInv ==
    /\ failed # <<>> => thrown
    /\ revoked <= accepted
    /\ \A i \in 1..Len(sent) : sent[i].asked <= accepted
    /\ \A s \in Scans : scans[s].token <= consent
    /\ thrown \/ \A s \in Scans : Live(s) => Ahead(s)
    /\ thrown \/ writing = Nobody \/ revoked < writing

LEMMA ConsentInit == Init => ConsentInv
<1>. SUFFICES ASSUME Init
              PROVE  ConsentInv
  OBVIOUS
<1>1. \A s \in Scans : scans[s] = FreeScan
  BY DEF Init
<1>2. \A s \in Scans : scans[s].token = 0 /\ ~Live(s)
  BY <1>1 DEF FreeScan, Live, TaskPhases
<1>3. Len(sent) = 0
  BY DEF Init
<1>. QED
  BY <1>2, <1>3 DEF Init, ConsentInv

\* A new revision leaves no scan live.
LEMMA InvalidationEndsThemAll ==
    ASSUME LibraryTypeOK, ConsentInv, NEW on \in BOOLEAN, ShowSwitch(on),
           historyEnabled # on
    PROVE  \A s \in Scans : ~Live(s)' /\ scans'[s].token <= consent'
<1>1. InvalidateConsent
  BY DEF ShowSwitch
<1>2. consent \in Nat /\ consent' = consent + 1
  BY <1>1, LibraryAssumption DEF InvalidateConsent, LibraryTypeOK
<1>. SUFFICES ASSUME NEW s \in Scans
              PROVE  ~Live(s)' /\ scans'[s].token <= consent'
  OBVIOUS
<1>3. scans[s] \in ScanRecord /\ scans[s].token <= consent
  BY DEF LibraryTypeOK, ConsentInv
<1>4. scans'[s] = IF scans[s].phase \in TaskPhases
                  THEN [scans[s] EXCEPT !.cancelled = TRUE] ELSE scans[s]
  BY <1>1 DEF InvalidateConsent
<1>5. scans'[s].token = scans[s].token /\ scans'[s].phase = scans[s].phase
  BY <1>3, <1>4 DEF ScanRecord
<1>6. scans[s].phase \in TaskPhases => scans'[s].cancelled
  BY <1>3, <1>4 DEF ScanRecord
<1>7. scans[s].token \in Nat
  BY <1>3, LibraryAssumption DEF ScanRecord
<1>8. scans'[s].token < consent'
  BY <1>2, <1>3, <1>5, <1>7
<1>9. scans'[s].token # consent'
  BY <1>2, <1>3, <1>5, <1>7
<1>. QED
  BY <1>2, <1>5, <1>6, <1>7, <1>8, <1>9 DEF Live

\* A scan that moves on was live before.
LEMMA MovesStayLive ==
    ASSUME LibraryTypeOK, NEW s \in Scans, NEW p, NEW q, Move(s, p, q),
           \/ q = "ended" \/ p \in TaskPhases
           \/ p = "lookingUp" /\ Consented(s),
           UNCHANGED <<historyEnabled, consent>>
    PROVE  \A t \in Scans : /\ scans'[t].token = scans[t].token
                            /\ Live(t)' => Live(t)
<1>1. scans' = [scans EXCEPT ![s].phase = q] /\ scans[s].phase = p
  BY DEF Move
<1>. SUFFICES ASSUME NEW t \in Scans
              PROVE  scans'[t].token = scans[t].token /\ (Live(t)' => Live(t))
  OBVIOUS
<1>2. CASE t # s
  <2>1. scans'[t] = scans[t]
    BY <1>1, <1>2 DEF LibraryTypeOK
  <2>. QED
    BY <2>1 DEF Live
<1>3. CASE t = s
  <2>1. scans'[s] = [scans[s] EXCEPT !.phase = q] /\ scans[s] \in ScanRecord
    BY <1>1 DEF LibraryTypeOK
  <2>2. /\ scans'[s].phase = q
        /\ scans'[s].token = scans[s].token
        /\ scans'[s].cancelled = scans[s].cancelled
    BY <2>1 DEF ScanRecord
  <2>3. Live(s)' => Live(s)
    BY <1>1, <2>2 DEF Live, Consented, TaskPhases
  <2>. QED
    BY <1>3, <2>2, <2>3
<1>. QED
  BY <1>2, <1>3

\* A step that brings no scan to life and takes nothing back keeps the
\* invariant.
LEMMA QuietStep ==
    ASSUME ConsentInv,
           UNCHANGED <<historyEnabled, consent, accepted, sent, failed,
                       thrown, revoked>>,
           writing' = writing \/ writing' = Nobody,
           \A t \in Scans : scans'[t].token = scans[t].token /\ (Live(t)' => Live(t))
    PROVE  ConsentInv'
<1>1. \A t \in Scans : Ahead(t) => Ahead(t)'
  BY DEF Ahead
<1>. QED
  BY <1>1 DEF ConsentInv

LEMMA WriteTaskConsent ==
    ASSUME LibraryTypeOK, ConsentInv, NEW s \in Scans, WriteTask(s)
    PROVE  ConsentInv'
<1>. USE DEF screen, camera, switch, store, OnlyCamera
<1>1. CASE RecordCameraScan(s)
  <2>1. \A t \in Scans : scans'[t].token = scans[t].token /\ (Live(t)' => Live(t))
    BY <1>1, MovesStayLive DEF RecordCameraScan, MoveIfConsented
  <2>. QED
    BY <1>1, <2>1, QuietStep DEF RecordCameraScan
<1>2. CASE StartWrite(s)
  <2>1. \A t \in Scans : scans'[t].token = scans[t].token /\ (Live(t)' => Live(t))
    BY <1>2, MovesStayLive DEF StartWrite, MoveIfConsented, TaskPhases
  <2>. QED
    BY <1>2, <2>1, QuietStep DEF StartWrite
<1>3. CASE BeginRecord(s)
  <2>1. Live(s)
    BY <1>3 DEF BeginRecord, Live, TaskPhases
  <2>2. \A t \in Scans : /\ scans'[t].token = scans[t].token
                         /\ Live(t)' => Live(t)
                         /\ Ahead(t) => Ahead(t)'
    BY <1>3 DEF BeginRecord, Live, Ahead
  <2>3. thrown \/ revoked < s
    BY <2>1 DEF ConsentInv, Ahead
  <2>. QED
    BY <1>3, <2>2, <2>3 DEF BeginRecord, ConsentInv
<1>4. CASE RefuseRecord(s)
  <2>1. \A t \in Scans : scans'[t].token = scans[t].token /\ (Live(t)' => Live(t))
    BY <1>4, MovesStayLive DEF RefuseRecord, TaskPhases
  <2>. QED
    BY <1>4, <2>1, QuietStep DEF RefuseRecord
<1>5. CASE CommitRecord(s)
  <2>1. \A t \in Scans : scans'[t].token = scans[t].token /\ (Live(t)' => Live(t))
    BY <1>5, MovesStayLive DEF CommitRecord, TaskPhases
  <2>. QED
    BY <1>5, <2>1, QuietStep DEF CommitRecord
<1>6. CASE RollBackRecord(s)
  <2>1. \A t \in Scans : scans'[t].token = scans[t].token /\ (Live(t)' => Live(t))
    BY <1>6, MovesStayLive DEF RollBackRecord
  <2>. QED
    BY <1>6, <2>1, QuietStep DEF RollBackRecord
<1>7. CASE AfterRecord(s)
  <2>1. \A t \in Scans : scans'[t].token = scans[t].token /\ (Live(t)' => Live(t))
    BY <1>7, MovesStayLive DEF AfterRecord, MoveIfConsented, TaskPhases
  <2>. QED
    BY <1>7, <2>1, QuietStep DEF AfterRecord
<1>8. CASE ReadBack(s)
  <2>1. \A t \in Scans : scans'[t].token = scans[t].token /\ (Live(t)' => Live(t))
    BY <1>8, MovesStayLive DEF ReadBack
  <2>. QED
    BY <1>8, <2>1, QuietStep DEF ReadBack
<1>9. CASE ReadBackFails(s)
  <2>1. \A t \in Scans : scans'[t].token = scans[t].token /\ (Live(t)' => Live(t))
    BY <1>9, MovesStayLive DEF ReadBackFails
  <2>. QED
    BY <1>9, <2>1, QuietStep DEF ReadBackFails
<1>. QED
  BY <1>1, <1>2, <1>3, <1>4, <1>5, <1>6, <1>7, <1>8, <1>9 DEF WriteTask

\* The store serves the switch in the order of the taps.
LEMMA SentTail ==
    ASSUME LibraryTypeOK, sent # <<>>
    PROVE  /\ Head(sent) = sent[1] /\ 1 \in 1..Len(sent)
           /\ Head(sent) \in Calls
           /\ \A i \in 1..Len(Tail(sent)) :
                 i + 1 \in 1..Len(sent) /\ Tail(sent)[i] = sent[i + 1]
<1>1. sent \in Seq(Calls)
  BY DEF LibraryTypeOK, Calls
<1>2. Len(sent) \in Nat \ {0} /\ Head(sent) \in Calls
  BY <1>1, HeadTailProperties, EmptySeq
<1>3. Len(Tail(sent)) = Len(sent) - 1
  BY <1>1, HeadTailProperties
<1>. QED
  BY <1>1, <1>2, <1>3

LEMMA SwitchConsent ==
    ASSUME LibraryTypeOK, ConsentInv
    PROVE  /\ \A on \in BOOLEAN : SetHistoryEnabled(on) => ConsentInv'
           /\ StoreSwitch => ConsentInv'
           /\ StoreSwitchFails => ConsentInv'
           /\ RevertSwitch => ConsentInv'
<1>. USE DEF screen, camera, switch, store
<1>0. accepted \in Nat /\ revoked \in Nat /\ Scans \subseteq Nat
  BY LibraryAssumption DEF LibraryTypeOK, Scans
<1>1. ASSUME NEW on \in BOOLEAN, SetHistoryEnabled(on)
      PROVE  ConsentInv'
  <2>. DEFINE call == [on |-> on, was |-> historyEnabled, asked |-> accepted]
  <2>1. ShowSwitch(on) /\ sent' = Append(sent, call)
        /\ UNCHANGED <<accepted, failed, thrown, revoked, writing>>
    BY <1>1 DEF SetHistoryEnabled
  <2>2. sent \in Seq(Calls) /\ call \in Calls
    BY DEF LibraryTypeOK, Calls
  <2>3. \A i \in 1..Len(sent') :
          \/ i \in 1..Len(sent) /\ sent'[i] = sent[i]
          \/ sent'[i] = call
    BY <2>1, <2>2, AppendProperties
  <2>4. \A i \in 1..Len(sent') : sent'[i].asked <= accepted'
    BY <1>0, <2>1, <2>3 DEF ConsentInv
  <2>5. CASE historyEnabled # on
    <3>1. \A s \in Scans : ~Live(s)' /\ scans'[s].token <= consent'
      BY <2>1, <2>5, InvalidationEndsThemAll
    <3>. QED
      BY <2>1, <2>4, <3>1 DEF ConsentInv
  <2>6. CASE historyEnabled = on
    <3>1. UNCHANGED <<historyEnabled, consent, scans>>
      BY <2>1, <2>6 DEF ShowSwitch
    <3>2. ASSUME NEW s \in Scans, Live(s)', ~thrown
          PROVE  Ahead(s)'
      <4>1. Live(s)
        BY <3>1, <3>2 DEF Live
      <4>2. Ahead(s)
        BY <3>2, <4>1 DEF ConsentInv
      <4>3. call.on
        BY <2>6, <4>2 DEF Ahead
      <4>. QED
        BY <2>1, <2>3, <3>1, <4>2, <4>3 DEF Ahead
    <3>. QED
      BY <2>1, <2>4, <3>1, <3>2 DEF ConsentInv
  <2>. QED
    BY <2>5, <2>6
<1>2. ASSUME StoreSwitch
      PROVE  ConsentInv'
  <2>1. sent # <<>> /\ sent' = Tail(sent) /\ writing = Nobody
        /\ revoked' = (IF Head(sent).on THEN revoked ELSE Head(sent).asked)
        /\ UNCHANGED <<historyEnabled, consent, scans, accepted, failed,
                       thrown, writing>>
    BY <1>2 DEF StoreSwitch
  <2>2. \A i \in 1..Len(sent') : sent'[i].asked <= accepted'
    BY <2>1, SentTail DEF ConsentInv
  <2>3. revoked' <= accepted'
    BY <2>1, SentTail DEF ConsentInv
  <2>4. \A s \in Scans : Ahead(s) => Ahead(s)'
    BY <2>1, SentTail DEF Ahead
  <2>5. \A s \in Scans : Live(s)' => Live(s)
    BY <2>1 DEF Live
  <2>. QED
    BY <2>1, <2>2, <2>3, <2>4, <2>5 DEF ConsentInv
<1>3. ASSUME StoreSwitchFails
      PROVE  ConsentInv'
  <2>1. sent # <<>> /\ sent' = Tail(sent) /\ thrown' = TRUE
        /\ UNCHANGED <<consent, scans, accepted, revoked>>
    BY <1>3 DEF StoreSwitchFails
  <2>2. \A i \in 1..Len(sent') : sent'[i].asked <= accepted'
    BY <2>1, SentTail DEF ConsentInv
  <2>. QED
    BY <2>1, <2>2 DEF ConsentInv
<1>4. ASSUME RevertSwitch
      PROVE  ConsentInv'
  BY <1>4 DEF RevertSwitch, ConsentInv
<1>. QED
  BY <1>1, <1>2, <1>3, <1>4

LEMMA ConsentNext ==
    ASSUME LibraryTypeOK, ConsentInv, [Next]_vars
    PROVE  ConsentInv'
<1>. USE DEF screen, camera, switch, store
<1>0. \A t \in Scans : UNCHANGED <<scans, historyEnabled, consent>>
        => scans'[t].token = scans[t].token /\ (Live(t)' => Live(t))
  BY DEF Live
<1>1. CASE Tap
  BY <1>0, <1>1, QuietStep DEF Tap
<1>2. CASE \E on \in BOOLEAN : SetHistoryEnabled(on)
  BY <1>2, SwitchConsent
<1>3. CASE StoreSwitch \/ StoreSwitchFails \/ RevertSwitch
  BY <1>3, SwitchConsent
<1>4. ASSUME NEW s \in Scans, AcceptScan(s)
      PROVE  ConsentInv'
  <2>1. accepted \in Nat /\ revoked \in Nat /\ s = accepted + 1 /\ accepted' = s
        /\ historyEnabled
        /\ UNCHANGED <<historyEnabled, consent, sent, failed, thrown, revoked, writing>>
    BY <1>4, LibraryAssumption DEF AcceptScan, LibraryTypeOK
  <2>2. [FreeScan EXCEPT !.phase = "lookingUp", !.token = consent].token = consent
    BY DEF FreeScan
  <2>3. /\ scans'[s].token = consent
        /\ \A t \in Scans \ {s} : scans'[t] = scans[t]
    BY <1>4, <2>2 DEF AcceptScan, LibraryTypeOK
  <2>4. consent \in Nat
    BY LibraryAssumption DEF LibraryTypeOK
  <2>5. \A t \in Scans : scans'[t].token <= consent'
    <3>1. ASSUME NEW t \in Scans \ {s}
          PROVE  scans'[t].token <= consent'
      BY <2>1, <2>3 DEF ConsentInv
    <3>2. scans'[s].token <= consent'
      BY <2>1, <2>3, <2>4
    <3>. QED
      BY <3>1, <3>2
  <2>6. \A i \in 1..Len(sent) : sent[i] \in Calls
    <3>1. sent \in Seq(Calls)
      BY DEF LibraryTypeOK, Calls
    <3>. QED
      BY <3>1, ElementOfSeq
  <2>7. \A i \in 1..Len(sent) : sent[i].asked \in Nat /\ sent[i].asked < s
    BY <2>1, <2>6, LibraryAssumption DEF ConsentInv, Calls
  <2>8. Ahead(s)'
    BY <2>1, <2>3, <2>7 DEF Ahead, ConsentInv
  <2>9. \A t \in Scans \ {s} : (Live(t)' => Live(t)) /\ (Ahead(t) => Ahead(t)')
    BY <2>1, <2>3 DEF Live, Ahead
  <2>10. \A i \in 1..Len(sent') : sent'[i].asked <= accepted'
    BY <2>1, <2>7
  <2>. QED
    BY <2>1, <2>5, <2>8, <2>9, <2>10 DEF ConsentInv
<1>5. ASSUME NEW s \in Scans, DropLookup(s)
      PROVE  ConsentInv'
  <2>1. \A t \in Scans : scans'[t].token = scans[t].token /\ (Live(t)' => Live(t))
    BY <1>5, MovesStayLive DEF DropLookup, OnlyCamera
  <2>. QED
    BY <1>5, <2>1, QuietStep DEF DropLookup, OnlyCamera
<1>6. ASSUME NEW s \in Scans, WriteTask(s)
      PROVE  ConsentInv'
  BY <1>6, WriteTaskConsent
<1>7. CASE ClearHistory
  BY <1>0, <1>7, QuietStep DEF ClearHistory
<1>8. ASSUME NEW s \in Scans, DeleteHistoryEntry(s)
      PROVE  ConsentInv'
  BY <1>0, <1>8, QuietStep DEF DeleteHistoryEntry
<1>9. CASE StartLoad
  BY <1>0, <1>9, QuietStep DEF StartLoad
<1>10. CASE LoadFails
  BY <1>0, <1>10, QuietStep DEF LoadFails
<1>11. CASE FinishLoad
  <2>1. load.on \in BOOLEAN
    BY DEF LibraryTypeOK, LoadRecord
  <2>2. ShowSwitch(load.on) /\ UNCHANGED <<accepted, sent, failed, thrown, revoked, writing>>
    BY <1>11 DEF FinishLoad
  <2>3. CASE historyEnabled # load.on
    <3>1. \A s \in Scans : ~Live(s)' /\ scans'[s].token <= consent'
      BY <2>1, <2>2, <2>3, InvalidationEndsThemAll
    <3>. QED
      BY <2>2, <3>1 DEF ConsentInv
  <2>4. CASE historyEnabled = load.on
    <3>1. UNCHANGED <<historyEnabled, consent, scans>>
      BY <2>2, <2>4 DEF ShowSwitch
    <3>. QED
      BY <1>0, <2>2, <3>1, QuietStep
  <2>. QED
    BY <2>3, <2>4
<1>12. ASSUME NEW part \in Parts, ServeLoad(part)
       PROVE  ConsentInv'
  BY <1>0, <1>12, QuietStep DEF ServeLoad
<1>13. CASE Relaunch
  <2>1. \A s \in Scans : /\ scans'[s] \in {[FreeScan EXCEPT !.phase = "ended"], FreeScan}
    BY <1>13 DEF Relaunch
  <2>2. \A s \in Scans : scans'[s].token = 0 /\ scans'[s].phase \in {"ended", "free"}
    BY <2>1 DEF FreeScan
  <2>3. \A s \in Scans : ~Live(s)'
    BY <2>2 DEF Live, TaskPhases
  <2>4. Len(sent') = 0 /\ failed' = <<>> /\ consent' = 0 /\ writing' = Nobody
        /\ UNCHANGED <<accepted, revoked>>
    BY <1>13 DEF Relaunch
  <2>. QED
    BY <2>2, <2>3, <2>4 DEF ConsentInv
<1>14. CASE UNCHANGED vars
  BY <1>0, <1>14, QuietStep DEF vars
<1>. QED
  BY <1>1, <1>2, <1>3, <1>4, <1>5, <1>6, <1>7, <1>8, <1>9, <1>10, <1>11, <1>12,
     <1>13, <1>14 DEF Next

LEMMA AddingStep ==
    ASSUME LibraryTypeOK, [Next]_vars, NEW s \in saved' \ saved
    PROVE  s = writing /\ writing # Nobody
<1>1. saved' # saved
  OBVIOUS
<1>2. ~ClearHistory /\ \A n \in Scans : ~DeleteHistoryEntry(n)
  BY DEF ClearHistory, DeleteHistoryEntry
<1>3. PICK n \in Scans : CommitRecord(n)
  BY <1>1, <1>2, SavedChanges
<1>4. saved \cup {n} \in SUBSET Scans
  BY DEF LibraryTypeOK
<1>5. saved' \subseteq saved \cup {n} /\ writing = n
  BY <1>3, <1>4, AboveCounts DEF CommitRecord
<1>. QED
  BY <1>5, LibraryAssumption DEF Scans, Nobody

(* For every number of taps, scans and launches: no scan accepted before a  *)
(* disabling that the store carried out is saved after it, unless a call of *)
(* setHistoryEnabled has failed since launch.                               *)
THEOREM RevokedScansStayOut == Spec => RevokedScansStayOutUnlessThrown
<1>1. Spec => []ConsentInv
  BY ConsentInit, ConsentNext, LibraryTypeCorrect, PTL DEF Spec
<1>2. LibraryTypeOK /\ ConsentInv /\ [Next]_vars
        => [\A s \in saved' \ saved : s > revoked \/ thrown]_vars
  <2>. SUFFICES ASSUME LibraryTypeOK, ConsentInv, [Next]_vars,
                       NEW s \in saved' \ saved
                PROVE  s > revoked \/ thrown
    OBVIOUS
  <2>1. s = writing /\ writing # Nobody
    BY AddingStep
  <2>2. revoked \in Nat /\ writing \in Nat
    BY <2>1, LibraryAssumption DEF LibraryTypeOK, Scans
  <2>. QED
    BY <2>1, <2>2 DEF ConsentInv
<1>. QED
  BY <1>1, <1>2, LibraryTypeCorrect, PTL DEF Spec, RevokedScansStayOutUnlessThrown
=============================================================================
