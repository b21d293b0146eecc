------------------------- MODULE ImageRegistryProof -------------------------
(***************************************************************************)
(* The image registry of ops/datastore_browser.py, for any number of       *)
(* scans, processes, vCenters, datastores and images.                      *)
(*                                                                         *)
(* The argument: before it loads the file, a scan holds rows of its own    *)
(* target only, those of one browse for each datastore it has browsed,     *)
(* and it browses none twice; what it keeps of the file are all the rows   *)
(* of a datastore or none; and only the caller that has the lock file is   *)
(* between Load and Save, so that the rows it decided about are still      *)
(* those on file when it replaces them.                                    *)
(***************************************************************************)
EXTENDS ImageRegistry, TLAPS

Inside == {"load", "save"}

ImagesIn(rs, t, d) == {i \in Images : [target |-> t, ds |-> d, image |-> i] \in rs}

\* Each datastore's rows are what one browse of it found.
Unmixed(rs) ==
  \A t \in Targets, d \in Datastores :
    ImagesIn(rs, t, d) # {} => ImagesIn(rs, t, d) \in seen[t][d]

Alone(c) == at[c] \in Inside => flock = c

Once(c) == at[c] # "idle" => scan[c].todo \cap scan[c].browsed = {}

\* Until it loads the file: rows of its own target, of datastores it browsed.
OwnRows(c) ==
  at[c] \in {"scanning", "waiting", "load"} =>
    /\ Unmixed(scan[c].found)
    /\ \A r \in scan[c].found : r.target = scan[c].target /\ r.ds \in scan[c].browsed

\* About to write: nothing mixed, and nothing lost that is to be kept.
Merged(c) ==
  at[c] = "save" =>
    /\ Unmixed(scan[c].found)
    /\ \A r \in RowsOnFile : Keep(scan[c], r) => r \in scan[c].found

Scanning(c) == Alone(c) /\ Once(c) /\ OwnRows(c) /\ Merged(c)

Inv == TypeOK /\ OneBrowsePerDatastore /\ \A c \in Callers : Scanning(c)

-----------------------------------------------------------------------------
(* The registry on file is unmixed exactly when OneBrowsePerDatastore      *)
(* holds.                                                                  *)
LEMMA OnFile == OneBrowsePerDatastore <=> (file # Unreadable => Unmixed(file))
  BY DEF OneBrowsePerDatastore, Unmixed, ImagesIn

(* What browses have found is only ever added to.                          *)
LEMMA UnmixedStays ==
  ASSUME NEW rs, Unmixed(rs),
         \A t \in Targets, d \in Datastores : seen[t][d] \subseteq seen'[t][d]
  PROVE  \A t \in Targets, d \in Datastores :
           ImagesIn(rs, t, d) # {} => ImagesIn(rs, t, d) \in seen'[t][d]
  BY DEF Unmixed

(* Adding the rows of one browse changes the images of that datastore of   *)
(* that target, and of no other.  (scan_all_datastore_images)              *)
LEMMA BrowseAdds ==
  ASSUME NEW rs, NEW t \in Targets, NEW d \in Datastores, NEW is \in SUBSET Images,
         NEW u \in Targets, NEW e \in Datastores
  PROVE  ImagesIn(rs \cup RowsOf(t, d, is), u, e) =
           ImagesIn(rs, u, e) \cup (IF u = t /\ e = d THEN is ELSE {})
<1> DEFINE Row(i) == [target |-> u, ds |-> e, image |-> i]
<1>1. ASSUME NEW i \in Images
      PROVE  Row(i) \in RowsOf(t, d, is) <=> (u = t /\ e = d /\ i \in is)
  <2>1. Row(i).target = u /\ Row(i).ds = e /\ Row(i).image = i
      OBVIOUS
  <2>2. ASSUME NEW j \in is
        PROVE  /\ [target |-> t, ds |-> d, image |-> j].target = t
               /\ [target |-> t, ds |-> d, image |-> j].ds = d
               /\ [target |-> t, ds |-> d, image |-> j].image = j
      OBVIOUS
  <2> QED BY <2>1, <2>2 DEF RowsOf
<1> QED BY <1>1 DEF ImagesIn

(* What a scan keeps of the file, beside its own rows, mixes with nothing: *)
(* all the rows of a datastore are kept, or none.  (_keep)                 *)
LEMMA MergeIsUnmixed ==
  ASSUME NEW s \in Scans, NEW rs \in SUBSET Rows, Unmixed(rs), Unmixed(s.found),
         \A r \in s.found : r.target = s.target /\ r.ds \in s.browsed
  PROVE  Unmixed(s.found \cup {r \in rs : Keep(s, r)})
<1> DEFINE all == s.found \cup {r \in rs : Keep(s, r)}
<1> SUFFICES ASSUME NEW t \in Targets, NEW d \in Datastores
             PROVE  ImagesIn(all, t, d) \in {ImagesIn(rs, t, d), ImagesIn(s.found, t, d), {}}
    BY DEF Unmixed
<1> DEFINE Row(i) == [target |-> t, ds |-> d, image |-> i]
<1>1. \A i \in Images : Row(i).target = t /\ Row(i).ds = d
    OBVIOUS
<1>2. s.target \in Targets /\ t # Legacy
    BY RegistryAssumption DEF Scans
<1>3. CASE t # s.target
  <2>1. \A i \in Images : Keep(s, Row(i)) /\ Row(i) \notin s.found
      BY <1>1, <1>2, <1>3 DEF Keep
  <2>2. ImagesIn(all, t, d) = ImagesIn(rs, t, d)
      BY <2>1 DEF ImagesIn
  <2> QED BY <2>2
<1>4. CASE t = s.target /\ d \in s.browsed
  <2>1. \A i \in Images : ~Keep(s, Row(i))
      BY <1>1, <1>2, <1>4 DEF Keep
  <2>2. ImagesIn(all, t, d) = ImagesIn(s.found, t, d)
      BY <2>1 DEF ImagesIn
  <2> QED BY <2>2
<1>5. CASE t = s.target /\ d \in s.listed \ s.browsed
  <2>1. \A i \in Images : Keep(s, Row(i)) /\ Row(i) \notin s.found
      BY <1>1, <1>2, <1>5 DEF Keep
  <2>2. ImagesIn(all, t, d) = ImagesIn(rs, t, d)
      BY <2>1 DEF ImagesIn
  <2> QED BY <2>2
<1>6. CASE t = s.target /\ d \notin s.listed /\ d \notin s.browsed
  <2>1. \A i \in Images : ~Keep(s, Row(i)) /\ Row(i) \notin s.found
      BY <1>1, <1>2, <1>6 DEF Keep
  <2>2. ImagesIn(all, t, d) = {}
      BY <2>1 DEF ImagesIn
  <2> QED BY <2>2
<1> QED BY <1>3, <1>4, <1>5, <1>6

(* The invariant holds before the first scan.                              *)
LEMMA InvInit == Init => Inv
<1> SUFFICES ASSUME Init PROVE Inv
    OBVIOUS
<1>1. TypeOK
    BY LockAssumption, RegistryAssumption
    DEF Init, LockInit, TypeOK, LockTypeOK, Label, Rows
<1>2. ASSUME file # Unreadable, NEW t \in Targets, NEW d \in Datastores
      PROVE  ImagesIn(file, t, d) = {}
  <2>1. \A r \in file : r.target = Legacy
      BY <1>2 DEF Init
  <2>2. \A i \in Images : [target |-> t, ds |-> d, image |-> i].target # Legacy
      BY RegistryAssumption
  <2> QED BY <2>1, <2>2 DEF ImagesIn
<1>3. OneBrowsePerDatastore
    BY <1>2, OnFile DEF Unmixed
<1>4. \A c \in Callers : Scanning(c)
    BY DEF Init, Scanning, Alone, Once, OwnRows, Merged, Inside
<1> QED BY <1>1, <1>3, <1>4 DEF Inv

(* A browse that ends adds the images it found to the rows of its scan;    *)
(* those of other scans, and the file, stay unmixed.                       *)
LEMMA BrowseInv ==
  ASSUME Inv, NEW c \in Callers, NEW d \in Datastores, Browse(c, d)
  PROVE  Inv'
<1> DEFINE t == scan[c].target
           is == holds[t][d]
<1>1. /\ at[c] = "scanning" /\ d \in scan[c].todo /\ scan[c] \in Scans
      /\ t \in Targets /\ is \in SUBSET Images
    BY DEF Inv, TypeOK, Browse, Scans
<1>2. /\ scan' = [scan EXCEPT ![c].todo = @ \ {d}, ![c].browsed = @ \cup {d},
                              ![c].found = @ \cup RowsOf(t, d, is)]
      /\ seen' = [seen EXCEPT ![t][d] = @ \cup {is}]
      /\ UNCHANGED <<world, file, at, changes, faults, locks>>
    BY DEF Browse
<1>3. RowsOf(t, d, is) \subseteq Rows
    BY <1>1 DEF RowsOf, Rows
<1>4. /\ scan'[c].target = t /\ scan'[c].listed = scan[c].listed
      /\ scan'[c].todo = scan[c].todo \ {d} /\ scan'[c].browsed = scan[c].browsed \cup {d}
      /\ scan'[c].found = scan[c].found \cup RowsOf(t, d, is)
      /\ scan'[c] \in Scans
      /\ \A e \in Callers \ {c} : scan'[e] = scan[e]
  <2>1. scan \in [Callers -> Scans \cup {NoScan}]
      BY DEF Inv, TypeOK
  <2>2. /\ scan'[c] = [scan[c] EXCEPT !.todo = @ \ {d}, !.browsed = @ \cup {d},
                                      !.found = @ \cup RowsOf(t, d, is)]
        /\ \A e \in Callers \ {c} : scan'[e] = scan[e]
      BY <2>1, <1>2
  <2>3. /\ scan'[c].target = t /\ scan'[c].listed = scan[c].listed
        /\ scan'[c].todo = scan[c].todo \ {d} /\ scan'[c].browsed = scan[c].browsed \cup {d}
        /\ scan'[c].found = scan[c].found \cup RowsOf(t, d, is)
      BY <2>2, <1>1 DEF Scans
  <2>4. scan'[c] \in Scans
    <3>1. ASSUME NEW more \in SUBSET Rows
          PROVE  [scan[c] EXCEPT !.todo = @ \ {d}, !.browsed = @ \cup {d},
                                 !.found = @ \cup more] \in Scans
        BY <1>1 DEF Scans
    <3> QED BY <3>1, <2>2, <1>3
  <2> QED BY <2>2, <2>3, <2>4
<1>5. /\ seen' \in [Targets -> [Datastores -> SUBSET SUBSET Images]]
      /\ \A u \in Targets, e \in Datastores :
           /\ seen[u][e] \subseteq seen'[u][e]
           /\ u = t /\ e = d => is \in seen'[u][e]
    BY <1>1, <1>2 DEF Inv, TypeOK
<1>6. TypeOK'
  <2>1. scan' \in [Callers -> Scans \cup {NoScan}]
      BY <1>2, <1>4 DEF Inv, TypeOK
  <2>2. \A e \in Callers : at'[e] = "idle" <=> scan'[e] = NoScan
      BY <1>1, <1>2, <1>4, RegistryAssumption DEF Inv, TypeOK
  <2> QED BY <2>1, <2>2, <1>2, <1>5 DEF Inv, TypeOK, LockTypeOK, locks, world
<1>7. OneBrowsePerDatastore'
  <2>1. CASE file # Unreadable
      BY <2>1, <1>2, <1>5, UnmixedStays, OnFile DEF Inv, OneBrowsePerDatastore, ImagesIn
  <2> QED BY <2>1, <1>2 DEF OneBrowsePerDatastore
<1>8. ASSUME NEW e \in Callers PROVE Scanning(e)'
  <2>0. Scanning(e) /\ at' = at /\ flock' = flock /\ file' = file
      BY <1>2 DEF Inv, locks
  <2>1. CASE e # c
    <3>1. scan'[e] = scan[e]
        BY <2>1, <1>4
    <3>2. Unmixed(scan[e].found) => Unmixed(scan[e].found)'
      <4>1. SUFFICES ASSUME Unmixed(scan[e].found) PROVE Unmixed(scan[e].found)'
          OBVIOUS
      <4> QED BY <4>1, <3>1, <1>5, UnmixedStays DEF Unmixed, ImagesIn
    <3> QED BY <2>0, <3>1, <3>2 DEF Scanning, Alone, Once, OwnRows, Merged, RowsOnFile, Keep
  <2>2. CASE e = c
    <3>1. ASSUME NEW u \in Targets, NEW f \in Datastores,
                 ImagesIn(scan'[c].found, u, f) # {}
          PROVE  ImagesIn(scan'[c].found, u, f) \in seen'[u][f]
      <4>1. ImagesIn(scan'[c].found, u, f) =
              ImagesIn(scan[c].found, u, f) \cup (IF u = t /\ f = d THEN is ELSE {})
          BY <1>1, <1>4, BrowseAdds
      <4>2. CASE u = t /\ f = d
        <5>1. d \notin scan[c].browsed
            BY <1>1 DEF Inv, Scanning, Once
        <5>2. ImagesIn(scan[c].found, t, d) = {}
            BY <5>1, <1>1 DEF Inv, Scanning, OwnRows, ImagesIn
        <5> QED BY <5>2, <4>1, <4>2, <1>5
      <4>3. CASE ~(u = t /\ f = d)
          BY <4>1, <4>3, <3>1, <1>1, <1>5 DEF Inv, Scanning, OwnRows, Unmixed
      <4> QED BY <4>2, <4>3
    <3>2. \A r \in RowsOf(t, d, is) : r.target = t /\ r.ds = d
        BY DEF RowsOf
    <3>3. Unmixed(scan[c].found)'
        BY <3>1 DEF Unmixed, ImagesIn
    <3> QED BY <2>0, <2>2, <1>1, <1>4, <3>2, <3>3
            DEF Scanning, Alone, Once, OwnRows, Merged, Inside
  <2> QED BY <2>1, <2>2
<1> QED BY <1>6, <1>7, <1>8 DEF Inv

(* The merge leaves what is to be written unmixed, and has all that is to  *)
(* be kept.                                                                *)
LEMMA LoadInv ==
  ASSUME Inv, NEW c \in Callers, Load(c)
  PROVE  Inv'
<1> DEFINE kept == {r \in RowsOnFile : Keep(scan[c], r)}
<1>1. /\ at[c] = "load" /\ scan[c] \in Scans
      /\ RowsOnFile \in SUBSET Rows /\ Unmixed(RowsOnFile)
  <2>1. Unmixed({})
      BY DEF Unmixed, ImagesIn
  <2> QED BY <2>1, OnFile DEF Load, Inv, TypeOK, RowsOnFile
<1>2. /\ scan' = [scan EXCEPT ![c].found = @ \cup kept]
      /\ at' = [at EXCEPT ![c] = "save"]
      /\ UNCHANGED <<world, file, seen, changes, faults, locks>>
    BY DEF Load, Go
<1>3. /\ scan'[c].target = scan[c].target /\ scan'[c].listed = scan[c].listed
      /\ scan'[c].todo = scan[c].todo /\ scan'[c].browsed = scan[c].browsed
      /\ scan'[c].found = scan[c].found \cup kept
      /\ scan'[c] \in Scans
      /\ \A e \in Callers \ {c} : scan'[e] = scan[e]
    BY <1>1, <1>2 DEF Inv, TypeOK, Scans
<1>4. TypeOK'
    BY <1>1, <1>2, <1>3, RegistryAssumption DEF Inv, TypeOK, LockTypeOK, Label, locks, world
<1>5. OneBrowsePerDatastore'
    BY <1>2 DEF Inv, OneBrowsePerDatastore
<1>6. Unmixed(scan[c].found \cup kept)
    BY <1>1, MergeIsUnmixed DEF Inv, Scanning, OwnRows
<1>7. ASSUME NEW e \in Callers PROVE Scanning(e)'
  <2>0. /\ Scanning(e) /\ flock' = flock /\ file' = file /\ seen' = seen /\ at[e] \in Label
        /\ at'[e] = IF e = c THEN "save" ELSE at[e]
      BY <1>2 DEF Inv, TypeOK, locks
  <2>1. CASE e # c
      BY <2>0, <2>1, <1>3 DEF Scanning, Alone, Once, OwnRows, Merged, Unmixed, ImagesIn, RowsOnFile, Keep
  <2>2. CASE e = c
    <3>1. Unmixed(scan[c].found)'
        BY <1>6, <1>3, <2>0 DEF Unmixed, ImagesIn
    <3>2. RowsOnFile' = RowsOnFile /\ \A r \in RowsOnFile : Keep(scan'[c], r) <=> Keep(scan[c], r)
        BY <2>0, <1>3 DEF RowsOnFile, Keep
    <3> QED BY <2>0, <2>2, <1>1, <1>3, <3>1, <3>2 DEF Scanning, Alone, Once, OwnRows, Merged, Inside
  <2> QED BY <2>1, <2>2
<1> QED BY <1>4, <1>5, <1>7 DEF Inv

(* Only the holder of the lock file is between Load and Save: what it      *)
(* replaces the file by was decided about the rows that are on file.       *)
LEMMA SaveInv ==
  ASSUME Inv, NEW c \in Callers, Save(c)
  PROVE  Inv'
<1>1. /\ at[c] = "save" /\ scan[c] \in Scans /\ flock = c
      /\ \A e \in Callers \ {c} : at[e] \notin Inside
    BY DEF Save, Inv, TypeOK, Scanning, Alone, Inside
<1>2. /\ file' = scan[c].found /\ flock' = Nobody
      /\ mutex' = [mutex EXCEPT ![ProcOf[c]] = Nobody]
      /\ at' = [at EXCEPT ![c] = "idle"] /\ scan' = [scan EXCEPT ![c] = NoScan]
      /\ UNCHANGED <<world, seen, changes, faults>>
    BY DEF Save, Unlock, Go
<1>3. TypeOK'
    BY <1>1, <1>2, LockAssumption DEF Inv, TypeOK, LockTypeOK, Label, Scans, world
<1>4. Unmixed(scan[c].found)
    BY <1>1 DEF Inv, Scanning, Merged
<1>5. OneBrowsePerDatastore'
    BY <1>2, <1>4 DEF OneBrowsePerDatastore, Unmixed, ImagesIn
<1>6. ASSUME NEW e \in Callers PROVE Scanning(e)'
  <2>1. CASE e = c
      BY <2>1, <1>2, <1>3 DEF TypeOK, Scanning, Alone, Once, OwnRows, Merged, Inside
  <2>2. CASE e # c
      BY <2>2, <1>1, <1>2 DEF Inv, Scanning, Alone, Once, OwnRows, Merged, Unmixed, ImagesIn, Inside
  <2> QED BY <2>1, <2>2
<1> QED BY <1>3, <1>5, <1>6 DEF Inv

(* What Scanning says of a caller is about its own label and scan, the     *)
(* file and what browses found.                                            *)
LEMMA ScanningStays ==
  ASSUME NEW e \in Callers, Scanning(e), at'[e] = at[e], scan'[e] = scan[e],
         file' = file, seen' = seen, at[e] \in Inside => flock' = flock
  PROVE  Scanning(e)'
<1>1. Alone(e)' /\ Once(e)'
    BY DEF Scanning, Alone, Once
<1>2. Unmixed(scan[e].found)' <=> Unmixed(scan[e].found)
    BY DEF Unmixed, ImagesIn
<1>3. OwnRows(e)'
    BY <1>2 DEF Scanning, OwnRows
<1>4. RowsOnFile' = RowsOnFile
    BY DEF RowsOnFile
<1>5. \A r : Keep(scan[e], r)' <=> Keep(scan[e], r)
    BY DEF Keep
<1>6. Merged(e)'
    BY <1>2, <1>4, <1>5 DEF Scanning, Merged
<1> QED BY <1>1, <1>3, <1>6 DEF Scanning

(* Other steps of a caller change its label only, or end its scan: nothing *)
(* of another caller, of the file or of what browses found.                *)
LEMMA QuietInv ==
  ASSUME Inv, NEW c \in Callers, TypeOK', file' = file, seen' = seen,
         \A e \in Callers \ {c} :
           /\ at'[e] = at[e] /\ scan'[e] = scan[e]
           /\ at[e] \in Inside => flock' = flock,
         Scanning(c)'
  PROVE  Inv'
<1>1. OneBrowsePerDatastore'
    BY DEF Inv, OneBrowsePerDatastore
<1>2. ASSUME NEW e \in Callers, e # c PROVE Scanning(e)'
    BY <1>2, ScanningStays DEF Inv
<1> QED BY <1>1, <1>2 DEF Inv

(* A step keeps the invariant.                                             *)
LEMMA InvNext == Inv /\ [Next]_vars => Inv'
<1> USE LockAssumption, RegistryAssumption
<1> SUFFICES ASSUME Inv, [Next]_vars PROVE Inv'
    OBVIOUS
<1>t. /\ TypeOK /\ at \in [Callers -> Label]
      /\ \A c \in Callers : Scanning(c) /\ (at[c] # "idle" => scan[c] \in Scans)
    BY DEF Inv, TypeOK
<1>q. ASSUME NEW c \in Callers, at'[c] = "idle", TypeOK' PROVE Scanning(c)'
    BY <1>q DEF Scanning, Alone, Once, OwnRows, Merged, Inside
<1>1. ASSUME NEW t \in Targets, NEW d \in Datastores, NEW i \in Images,
             FileComesOrGoes(t, d, i)
      PROVE  Inv'
  <2>1. TypeOK'
      BY <1>1, <1>t DEF FileComesOrGoes, TypeOK, LockTypeOK, calls, locks
  <2>2. UNCHANGED <<file, at, scan, seen, flock>>
      BY <1>1 DEF FileComesOrGoes, calls, locks
  <2> QED BY <2>1, <2>2, <1>t, ScanningStays DEF Inv, OneBrowsePerDatastore
<1>2. ASSUME NEW t \in Targets, NEW d \in Datastores, NEW s \in {"up", "down", "gone"},
             DatastoreTurns(t, d, s)
      PROVE  Inv'
  <2>1. TypeOK'
      BY <1>2, <1>t DEF DatastoreTurns, TypeOK, LockTypeOK, calls, locks
  <2>2. UNCHANGED <<file, at, scan, seen, flock>>
      BY <1>2 DEF DatastoreTurns, calls, locks
  <2> QED BY <2>1, <2>2, <1>t, ScanningStays DEF Inv, OneBrowsePerDatastore
<1>3. ASSUME NEW c \in Callers, NEW t \in Targets, StartScan(c, t) PROVE Inv'
  <2>1. TypeOK'
      BY <1>3, <1>t DEF StartScan, Go, TypeOK, LockTypeOK, Scans, Label, locks, world
  <2>2. at'[c] = "scanning" /\ scan'[c].todo \cap scan'[c].browsed = {} /\ scan'[c].found = {}
      BY <1>3, <1>t DEF StartScan, Go, TypeOK
  <2>3. Scanning(c)'
      BY <2>2 DEF Scanning, Alone, Once, OwnRows, Merged, Unmixed, ImagesIn, Inside
  <2> QED BY <2>1, <2>3, <1>3, <1>t, QuietInv DEF StartScan, Go, TypeOK, locks
<1>4. ASSUME NEW c \in Callers, NEW d \in Datastores, Browse(c, d) PROVE Inv'
    BY <1>4, BrowseInv
<1>5. ASSUME NEW c \in Callers, NEW d \in Datastores, BrowseFails(c, d) PROVE Inv'
  <2>1. /\ at[c] = "scanning" /\ at' = at /\ scan' = [scan EXCEPT ![c].todo = @ \ {d}]
        /\ faults' \in {faults, faults + 1} /\ (faults' = faults \/ faults < MaxFaults)
        /\ UNCHANGED <<world, file, seen, changes, locks>>
      BY <1>5 DEF BrowseFails
  <2>2. /\ scan'[c] \in Scans /\ \A e \in Callers \ {c} : scan'[e] = scan[e]
        /\ scan'[c].todo \subseteq scan[c].todo /\ scan'[c].browsed = scan[c].browsed
        /\ scan'[c].found = scan[c].found /\ scan'[c].target = scan[c].target
      BY <2>1, <1>t DEF TypeOK, Scans
  <2>3. TypeOK'
    <3>1. scan' \in [Callers -> Scans \cup {NoScan}]
        BY <2>1, <2>2, <1>t DEF TypeOK
    <3>2. \A e \in Callers : at'[e] = "idle" <=> scan'[e] = NoScan
        BY <2>1, <2>2, <1>t DEF TypeOK
    <3>3. faults' \in 0..MaxFaults
        BY <2>1, <1>t DEF TypeOK
    <3> QED BY <2>1, <3>1, <3>2, <3>3, <1>t DEF TypeOK, LockTypeOK, locks, world
  <2>4. Scanning(c)'
      BY <2>1, <2>2, <1>t DEF Scanning, Alone, Once, OwnRows, Merged, Unmixed, ImagesIn, Inside
  <2> QED BY <2>1, <2>2, <2>3, <2>4, QuietInv DEF locks
<1>6. ASSUME NEW c \in Callers, EnterProcess(c) PROVE Inv'
  <2>1. TypeOK'
      BY <1>6, <1>t DEF EnterProcess, TakeMutex, Go, TypeOK, LockTypeOK, Label, world
  <2>2. Scanning(c)'
      BY <1>6, <1>t DEF EnterProcess, TakeMutex, Go, Scanning, Alone, Once, OwnRows, Merged, Unmixed, ImagesIn, Inside
  <2> QED BY <2>1, <2>2, <1>6, <1>t, QuietInv DEF EnterProcess, TakeMutex, Go
<1>7. ASSUME NEW c \in Callers, EnterFile(c) PROVE Inv'
  <2>1. TypeOK'
      BY <1>7, <1>t DEF EnterFile, TryLock, Go, TypeOK, LockTypeOK, Label, world
  <2>2. Scanning(c)'
      BY <1>7, <1>t DEF EnterFile, TryLock, Go, Scanning, Alone, Once, OwnRows, Merged, Unmixed, ImagesIn, Inside
  <2>3. \A e \in Callers \ {c} : at[e] \notin Inside
      BY <1>7, <1>t DEF EnterFile, TryLock, Scanning, Alone
  <2> QED BY <2>1, <2>2, <2>3, <1>7, <1>t, QuietInv DEF EnterFile, TryLock, Go, TypeOK
<1>8. ASSUME NEW c \in Callers, LockFails(c) PROVE Inv'
  <2>1. TypeOK'
      BY <1>8, <1>t DEF LockFails, GiveUp, Go, TypeOK, LockTypeOK, Label, world
  <2> QED BY <2>1, <1>8, <1>t, <1>q, QuietInv DEF LockFails, GiveUp, Go, TypeOK
<1>9. ASSUME NEW c \in Callers, Load(c) PROVE Inv'
    BY <1>9, LoadInv
<1>10. ASSUME NEW c \in Callers, Save(c) PROVE Inv'
    BY <1>10, SaveInv
<1>11. ASSUME NEW c \in Callers, UpdateFails(c) PROVE Inv'
  <2>1. TypeOK'
      BY <1>11, <1>t DEF UpdateFails, Unlock, Go, TypeOK, LockTypeOK, Label, world
  <2>2. \A e \in Callers \ {c} : at[e] \notin Inside
      BY <1>11, <1>t DEF UpdateFails, Scanning, Alone, Inside
  <2> QED BY <2>1, <2>2, <1>11, <1>t, <1>q, QuietInv DEF UpdateFails, Unlock, Go, TypeOK
<1>12. ASSUME NEW r \in Procs, Crash(r) PROVE Inv'
  <2>1. TypeOK'
      BY <1>12, <1>t DEF Crash, ProcessDies, TypeOK, LockTypeOK, Label, world
  <2>2. OneBrowsePerDatastore'
      BY <1>12 DEF Crash, Inv, OneBrowsePerDatastore
  <2>3. ASSUME NEW c \in Callers PROVE Scanning(c)'
    <3>1. CASE ProcOf[c] = r
        BY <3>1, <1>12, <1>q, <2>1 DEF Crash
    <3>2. CASE ProcOf[c] # r
      <4>1. /\ at'[c] = at[c] /\ scan'[c] = scan[c] /\ file' = file /\ seen' = seen
            /\ at[c] \in Inside => flock' = c
          BY <3>2, <1>12, <1>t DEF Crash, ProcessDies, Scanning, Alone
      <4> QED BY <4>1, <1>12, <1>t, ScanningStays DEF Crash, ProcessDies, Scanning, Alone
    <3> QED BY <3>1, <3>2
  <2> QED BY <2>1, <2>2, <2>3 DEF Inv
<1>13. CASE UNCHANGED vars
  <2>1. UNCHANGED <<holds, state, file, at, scan, seen, changes, faults, mutex, flock>>
      BY <1>13 DEF vars, locks
  <2>2. TypeOK'
      BY <2>1, <1>t DEF TypeOK, LockTypeOK
  <2> QED BY <2>1, <2>2, <1>t, ScanningStays DEF Inv, OneBrowsePerDatastore
<1> QED
    BY <1>1, <1>2, <1>3, <1>4, <1>5, <1>6, <1>7, <1>8, <1>9, <1>10, <1>11, <1>12, <1>13 DEF Next, Step

-----------------------------------------------------------------------------
(* The inductive invariant of the registry.                                *)
LEMMA Invariant == Spec => []Inv
<1>1. Inv /\ [Next]_vars => Inv'
    BY InvNext
<1> QED BY InvInit, <1>1, PTL DEF Spec

(* TypeOK: the registry is unreadable or a set of rows, and a caller has a *)
(* scan in memory while it is in a call and at no other time.              *)
THEOREM RegistryTypeCorrect == Spec => []TypeOK
<1>1. Inv => TypeOK
    BY DEF Inv
<1> QED BY Invariant, <1>1, PTL

(* The rows of one datastore on file are what one browse of it found, and  *)
(* never a mixture of two scans.  (update_registry, _keep)                 *)
THEOREM NoMixedRows == Spec => []OneBrowsePerDatastore
<1>1. Inv => OneBrowsePerDatastore
    BY DEF Inv
<1> QED BY Invariant, <1>1, PTL

(* Only Save changes the file.                                             *)
LEMMA OnlySaveWrites ==
  ASSUME [Next]_vars, file' # file
  PROVE  \E c \in Callers : Save(c)
  BY DEF Next, Step, vars, FileComesOrGoes, DatastoreTurns, StartScan, Browse, BrowseFails, EnterProcess,
     EnterFile, LockFails, Load, UpdateFails, Crash

(* A row goes only with a scan that browsed its datastore, or did not find *)
(* it any more, however the scans of two vCenters overlap.                 *)
THEOREM OthersRowsAreKept == Spec => OnlyTheBrowsedIsReplaced
<1> DEFINE Accounted ==
      \A r \in Dropped : \E c \in Callers :
         /\ at[c] = "save" /\ r.target \in {scan[c].target, Legacy}
         /\ \/ r.ds \in scan[c].browsed
            \/ r.target = scan[c].target /\ r.ds \notin scan[c].listed
<1>1. Inv /\ [Next]_vars => [Accounted]_file
  <2> SUFFICES ASSUME Inv, [Next]_vars, file' # file, NEW r \in Dropped
               PROVE  \E c \in Callers :
                        /\ at[c] = "save" /\ r.target \in {scan[c].target, Legacy}
                        /\ \/ r.ds \in scan[c].browsed
                           \/ r.target = scan[c].target /\ r.ds \notin scan[c].listed
      OBVIOUS
  <2>1. PICK c \in Callers : Save(c)
      BY OnlySaveWrites
  <2>2. at[c] = "save" /\ file' = scan[c].found
      BY <2>1 DEF Save
  <2>3. r \in RowsOnFile /\ r \notin scan[c].found /\ r \in Rows
      BY <2>2 DEF Dropped, RowsOnFile, Inv, TypeOK
  <2>4. ~Keep(scan[c], r)
      BY <2>2, <2>3 DEF Inv, Scanning, Merged
  <2>5. CASE r.target = Legacy
      BY <2>2, <2>4, <2>5 DEF Keep
  <2>6. CASE r.target # Legacy
    <3>1. r.target = scan[c].target /\ r.ds \notin scan[c].listed \ scan[c].browsed
      <4>1. r.target \in Targets
          BY <2>3, <2>6 DEF Rows
      <4> QED BY <4>1, <2>4, <2>6 DEF Keep
    <3> QED BY <2>2, <3>1
  <2> QED BY <2>5, <2>6
<1> QED BY Invariant, <1>1, PTL DEF Spec, OnlyTheBrowsedIsReplaced
=============================================================================
