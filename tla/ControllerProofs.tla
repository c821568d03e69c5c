------------------------- MODULE ControllerProofs --------------------------
(***************************************************************************)
(* Proofs about ControllerStart, for any number of requests, and about the *)
(* file its paths write their results to.                                  *)
(***************************************************************************)
EXTENDS ControllerStart, ResultFile, TLAPS

Types ==
    /\ pc \in [Requests -> {"idle", "check", "build", "store", "return", "use",
                            "ok", "notFound"}]
    /\ self \in [Requests -> Requests \cup {None}]
    /\ on \in [Requests -> Posts \cup {None}]
    /\ looking \in [Requests -> BOOLEAN]
    /\ instances \in built \cup {None}
    /\ built \subseteq Requests
    /\ thread \in [Requests -> {"none", "http", "grpc", "serving", "ended"}]
    /\ http \in Requests \cup {None}
    /\ paths \in [Requests -> SUBSET Posts]
    /\ deleted \subseteq Posts
    /\ raced \in BOOLEAN

\* A request that is about to read or use an instance finds one.
Stored ==
    \A r \in Requests :
        /\ pc[r] \in {"return", "use"} => instances # None
        /\ pc[r] = "use" => self[r] \in built
        /\ r \in Posts /\ looking[r] => instances # None

\* Without a race one request constructs, before an instance is stored.
Alone ==
    ~raced =>
        /\ \A r, s \in Constructing : r = s
        /\ instances # None => Constructing = {} /\ built = {instances}
        /\ instances = None => built \subseteq {r \in Requests : pc[r] = "store"}

\* What a request asks for was created, and stays until it is deleted.
Created ==
    /\ \A r \in Posts : on[r] = r
    /\ \A r \in Posts : pc[r] \in {"ok", "notFound"} => looking[r]
    /\ \A r \in Gets \cup Deletes :
          /\ looking[r]
          /\ pc[r] # "idle" => on[r] \in Posts /\ looking[on[r]]
    /\ ~raced => \A p \in Posts :
          looking[p] => p \in deleted \/ p \in paths[instances]

\* Paths are in controllers, and one of these has the port of the metrics.
Served ==
    /\ \A o \in Requests : paths[o] # {} => o \in built
    /\ \A o \in Requests : thread[o] \in {"grpc", "serving"} => http = o

\* A controller that is about to be stored was built.
Storing == \A r \in Requests : pc[r] = "store" => r \in built

IInv == Types /\ Storing /\ Stored /\ Alone /\ Created /\ Served /\ PathsAreFound

-----------------------------------------------------------------------------

LEMMA StartHolds == Init => IInv
<1> SUFFICES ASSUME Init PROVE IInv
  OBVIOUS
<1> USE RequestsAssumption DEF Init
<1>1. Types
  BY DEF Types, Requests
<1>2. Storing /\ Stored /\ Served
  BY DEF Storing, Stored, Served, Requests
<1>3. Alone
  BY DEF Alone, Constructing
<1>4. Created /\ PathsAreFound
  BY DEF Created, PathsAreFound, Requests
<1> QED BY <1>1, <1>2, <1>3, <1>4 DEF IInv

\* Without a race there is never more than one controller.
LEMMA OneBuilt ==
    ASSUME IInv, ~raced, NEW o \in built, NEW q \in built
    PROVE  o = q
BY DEF IInv, Types, Alone, Constructing

LEMMA StepHolds == IInv /\ [Next]_vars => IInv'
<1> SUFFICES ASSUME IInv, [Next]_vars PROVE IInv'
  OBVIOUS
<1> USE RequestsAssumption DEF IInv, request, objects, server, Step
<1>1. ASSUME NEW r \in Requests, NEW p \in Posts, Request(r, p) PROVE IInv'
  <2>1. Types'
    BY <1>1 DEF Request, Types, Requests
  <2>2. Storing' /\ Stored' /\ Served'
    BY <1>1 DEF Request, Types, Storing, Stored, Served
  <2>3. Alone'
    BY <1>1 DEF Request, Types, Alone, Constructing
  <2>4. Created' /\ PathsAreFound'
    BY <1>1 DEF Request, Types, Created, PathsAreFound, Requests
  <2> QED BY <2>1, <2>2, <2>3, <2>4
<1>2. ASSUME NEW r \in Requests, CheckInstances(r) PROVE IInv'
  <2>1. Types'
    BY <1>2 DEF CheckInstances, Types
  <2>2. Storing' /\ Stored' /\ Served'
    BY <1>2 DEF CheckInstances, Types, Storing, Stored, Served
  <2>3. Alone'
    BY <1>2 DEF CheckInstances, Types, Alone, Constructing
  <2>4. Created' /\ PathsAreFound'
    BY <1>2 DEF CheckInstances, Types, Created, PathsAreFound, Requests
  <2> QED BY <2>1, <2>2, <2>3, <2>4
<1>3. ASSUME NEW r \in Requests, Construct(r) PROVE IInv'
  <2>1. Types'
    BY <1>3 DEF Construct, Types
  <2>2. Storing' /\ Stored' /\ Served'
    BY <1>3 DEF Construct, Types, Storing, Stored, Served
  <2>3. Alone'
    BY <1>3 DEF Construct, Types, Alone, Constructing
  <2>4. Created' /\ PathsAreFound'
    BY <1>3 DEF Construct, Types, Created, PathsAreFound, Requests
  <2> QED BY <2>1, <2>2, <2>3, <2>4
<1>4. ASSUME NEW r \in Requests, StoreInstance(r) PROVE IInv'
  <2>0. r \in built
    BY <1>4 DEF StoreInstance, Types, Storing
  <2>1. Types'
    BY <1>4, <2>0 DEF StoreInstance, Types
  <2>2. Storing' /\ Stored' /\ Served'
    BY <1>4 DEF StoreInstance, Types, Storing, Stored, Served
  <2>3. Alone'
    BY <1>4, <2>0 DEF StoreInstance, Types, Alone, Constructing
  <2>4. Created' /\ PathsAreFound'
    BY <1>4 DEF StoreInstance, Types, Stored, Alone, Constructing, Created, PathsAreFound, Requests
  <2> QED BY <2>1, <2>2, <2>3, <2>4
<1>5. ASSUME NEW r \in Requests, ReturnInstance(r) PROVE IInv'
  <2>1. Types'
    BY <1>5 DEF ReturnInstance, Types
  <2>2. Storing' /\ Stored' /\ Served'
    BY <1>5 DEF ReturnInstance, Types, Storing, Stored, Served
  <2>3. Alone'
    BY <1>5 DEF ReturnInstance, Types, Alone, Constructing
  <2>4. Created' /\ PathsAreFound'
    BY <1>5 DEF ReturnInstance, Types, Created, PathsAreFound, Requests
  <2> QED BY <2>1, <2>2, <2>3, <2>4
<1>6. ASSUME NEW r \in Requests, CreatePath(r) PROVE IInv'
  <2>0. r \in Posts /\ self[r] \in built /\ instances # None /\ self[r] \in Requests
    BY <1>6 DEF CreatePath, Types, Stored, Created, Requests
  <2>1. Types'
    BY <1>6, <2>0 DEF CreatePath, Types
  <2>2. Storing' /\ Stored' /\ Served'
    BY <1>6, <2>0 DEF CreatePath, Types, Storing, Stored, Served
  <2>3. Alone'
    BY <1>6 DEF CreatePath, Types, Alone, Constructing
  <2>4. ~raced => self[r] = instances
    BY <2>0 DEF Alone
  <2>5. Created' /\ PathsAreFound'
    BY <1>6, <2>0, <2>4 DEF CreatePath, Types, Created, PathsAreFound, Requests
  <2> QED BY <2>1, <2>2, <2>3, <2>5
<1>7. ASSUME NEW r \in Requests, GetPathInfo(r) PROVE IInv'
  <2>1. Types'
    BY <1>7 DEF GetPathInfo, Types
  <2>2. Storing' /\ Stored' /\ Served'
    BY <1>7 DEF GetPathInfo, Types, Storing, Stored, Served
  <2>3. Alone'
    BY <1>7 DEF GetPathInfo, Types, Alone, Constructing
  <2>4. ~raced => self[r] = instances
    BY <1>7 DEF GetPathInfo, Stored, Alone
  <2>5. Created'
    BY <1>7 DEF GetPathInfo, Types, Created, Requests
  <2>6. PathsAreFound'
    BY <1>7, <2>4 DEF GetPathInfo, Found, Types, Created, PathsAreFound, Requests
  <2> QED BY <2>1, <2>2, <2>3, <2>5, <2>6
<1>8. ASSUME NEW r \in Requests, DestroyPath(r) PROVE IInv'
  <2>0. on[r] \in Posts /\ looking[on[r]] /\ self[r] \in Requests
    BY <1>8 DEF DestroyPath, Types, Stored, Created
  <2>1. Types'
    BY <1>8, <2>0 DEF DestroyPath, Types
  <2>2. Storing' /\ Stored' /\ Served'
    BY <1>8, <2>0 DEF DestroyPath, Types, Storing, Stored, Served
  <2>3. Alone'
    BY <1>8 DEF DestroyPath, Types, Alone, Constructing
  <2>4. ~raced => self[r] = instances
    BY <1>8 DEF DestroyPath, Stored, Alone
  <2>5. Created'
    BY <1>8, <2>0, <2>4 DEF DestroyPath, Found, Types, Created, Requests
  <2>6. PathsAreFound'
    BY <1>8, <2>0, <2>4 DEF DestroyPath, Found, Types, Created, PathsAreFound, Requests
  <2> QED BY <2>1, <2>2, <2>3, <2>5, <2>6
<1>9. ASSUME NEW o \in Requests, Run(o) PROVE IInv'
  <2>1. Types' /\ Served'
    BY <1>9 DEF Run, StartHttpServer, ServeLogServer, Types, Served
  <2>2. Storing' /\ Stored' /\ Alone' /\ Created' /\ PathsAreFound'
    BY <1>9
    DEF Run, StartHttpServer, ServeLogServer, Storing, Stored, Alone, Constructing,
        Created, PathsAreFound
  <2> QED BY <2>1, <2>2
<1>10. ASSUME UNCHANGED vars PROVE IInv'
  BY <1>10 DEF vars, Types, Storing, Stored, Alone, Constructing, Created, Served, PathsAreFound
<1> QED
  BY <1>1, <1>2, <1>3, <1>4, <1>5, <1>6, <1>7, <1>8, <1>9, <1>10 DEF Next, Serve

-----------------------------------------------------------------------------

(***************************************************************************)
(* Without a race in Singleton one controller is constructed, which has    *)
(* every path that was created and not deleted.                            *)
(***************************************************************************)
THEOREM StartInvariant == Spec => []IInv
BY StartHolds, StepHolds, PTL DEF Spec

(***************************************************************************)
(* However many requests come at the start, a request is answered 404 only *)
(* for a path that was deleted, or after two requests constructed at once. *)
(***************************************************************************)
THEOREM PathsAreAlwaysFound == Spec => []PathsAreFound
<1>1. IInv => PathsAreFound
  BY DEF IInv
<1> QED BY <1>1, StartInvariant, PTL

(***************************************************************************)
(* At most one controller serves the reports of the nodes, and unless two  *)
(* were constructed at once it has all paths.                              *)
(***************************************************************************)
THEOREM ReportsAlwaysArrive == Spec => []ReportsFindTheirPath
<1>1. IInv => ReportsFindTheirPath
  <2> SUFFICES ASSUME IInv, NEW o \in built, NEW q \in built, thread[o] = "serving"
               PROVE  /\ thread[q] = "serving" => q = o
                      /\ paths[q] # {} => raced \/ q = o
    BY DEF ReportsFindTheirPath
  <2>1. thread[q] = "serving" => q = o
    BY DEF IInv, Types, Served
  <2>2. raced \/ q = o
    BY OneBuilt
  <2> QED BY <2>1, <2>2
<1> QED BY <1>1, StartInvariant, PTL

(***************************************************************************)
(* Races included: once an instance is stored and no request is about to   *)
(* store another, no request ever constructs again.                        *)
(***************************************************************************)
THEOREM OneControllerStays == Spec => OneControllerInTheEnd
<1>1. IInv /\ [Next]_vars => [Settled => Settled' /\ instances' = instances]_vars
  <2> SUFFICES ASSUME IInv, Settled, Next
               PROVE  Settled' /\ instances' = instances
    BY DEF vars
  <2> USE DEF IInv, Types, Settled, Constructing, Step, request, objects, server
  <2>1. ASSUME NEW r \in Requests, NEW p \in Posts, Request(r, p)
        PROVE  Settled' /\ instances' = instances
    BY <2>1 DEF Request
  <2>2. ASSUME NEW r \in Requests, Serve(r)
        PROVE  Settled' /\ instances' = instances
    BY <2>2
    DEF Serve, CheckInstances, Construct, StoreInstance, ReturnInstance,
        CreatePath, GetPathInfo, DestroyPath
  <2>3. ASSUME NEW r \in Requests, Run(r)
        PROVE  Settled' /\ instances' = instances
    BY <2>3 DEF Run, StartHttpServer, ServeLogServer
  <2> QED BY <2>1, <2>2, <2>3 DEF Next
<1> QED BY <1>1, StartInvariant, PTL DEF Spec, OneControllerInTheEnd

-----------------------------------------------------------------------------
(***************************************************************************)
(* The file the paths of a controller write to (ResultFile), for any       *)
(* number of paths and lines.                                              *)
(***************************************************************************)

FileTypes ==
    /\ handle \in [Paths -> {"none", "open", "closed", "gone"}]
    /\ written \in [Paths -> Nat]
    /\ flushed \in [Paths -> Nat]
    /\ file \in Seq(Paths \cup {Hole})
    /\ last \in Paths \cup {Nobody}
    /\ before \subseteq Paths

\* Only what was written can be flushed, and closing flushes it all.
Counts == \A p \in Paths :
             /\ flushed[p] <= written[p]
             /\ handle[p] = "none" => written[p] = 0
             /\ handle[p] = "closed" => flushed[p] = written[p]

\* Whoever can write is the latest path or was there before it.
Writers == \A p \in Paths : handle[p] = "open" => p \in before \cup {last}

FileInv == /\ FileTypes
           /\ Counts
           /\ Writers
           /\ LatestResultsSurvive
           /\ OlderResultsAreErased

-----------------------------------------------------------------------------

(***************************************************************************)
(* What the file holds after the lines of p up to the n-th were put in it: *)
(* line by line those of p, what was there, or holes behind its old end.   *)
(***************************************************************************)
LEMMA FileAfterPut ==
    ASSUME FileTypes, NEW p \in Paths, NEW n \in Nat, flushed[p] <= n, Put(p, n)
    PROVE  /\ file' \in Seq(Paths \cup {Hole})
           /\ Len(file') >= Len(file)
           /\ n > flushed[p] => Len(file') >= n
           /\ \A k \in 1..Len(file') :
                 file'[k] = IF k \in (flushed[p] + 1)..n THEN p
                            ELSE IF k <= Len(file) THEN file[k] ELSE Hole
           /\ \A k \in 1..Len(file') : k > Len(file) => k <= n /\ n > flushed[p]
<1> DEFINE size == IF n > flushed[p] THEN Longer(n) ELSE Len(file)
           line(k) == IF k \in (flushed[p] + 1)..n THEN p
                      ELSE IF k <= Len(file) THEN file[k] ELSE Hole
<1>1. /\ Len(file) \in Nat
      /\ flushed[p] \in Nat
      /\ \A k \in 1..Len(file) : file[k] \in Paths \cup {Hole}
  BY DEF FileTypes
<1>2. /\ size \in Nat
      /\ size >= Len(file)
      /\ n > flushed[p] => size >= n
      /\ \A k \in 1..size : k > Len(file) => k <= n /\ n > flushed[p]
  BY <1>1 DEF Longer
<1>3. file' = [k \in 1..size |-> line(k)]
  BY DEF Put
<1>4. \A k \in 1..size : line(k) \in Paths \cup {Hole}
  BY <1>1, <1>2
<1> HIDE DEF size, line
<1>5. file' \in Seq(Paths \cup {Hole}) /\ Len(file') = size
  BY <1>2, <1>3, <1>4
<1>6. \A k \in 1..Len(file') : file'[k] = line(k)
  BY <1>3, <1>5
<1> QED
  BY <1>2, <1>5, <1>6 DEF line

LEMMA FileStarts == FileInit => FileInv
BY NamesAssumption
   DEF FileInit, FileInv, FileTypes, Counts, Writers, LatestResultsSurvive,
       OlderResultsAreErased

(***************************************************************************)
(* The lines of a path that is open reach the file, whether it stays open. *)
(***************************************************************************)
LEMMA PutStep ==
    ASSUME FileInv, NEW p \in Paths, handle[p] = "open",
           NEW n \in Nat, flushed[p] <= n, n <= written[p], Put(p, n),
           \/ UNCHANGED handle
           \/ handle' = [handle EXCEPT ![p] = "closed"] /\ n = written[p]
    PROVE  FileInv'
<1> USE DEF FileInv
<1>1. /\ flushed' = [flushed EXCEPT ![p] = n]
      /\ UNCHANGED <<written, last, before>>
  BY DEF Put
<1>2. FileTypes'
  BY <1>1, FileAfterPut DEF FileTypes
<1>3. Counts'
  BY <1>1 DEF FileTypes, Counts
<1>4. Writers'
  BY <1>1 DEF FileTypes, Writers
<1>5. p \in before \cup {last}
  BY DEF Writers
<1>6. LatestResultsSurvive'
  <2> SUFFICES ASSUME last # Nobody
               PROVE  /\ handle'[last] = "closed" => flushed'[last] = written'[last]
                      /\ \A k \in 1..flushed'[last] :
                            /\ k <= Len(file')
                            /\ file'[k] # last =>
                                 \E q \in before : file'[k] = q /\ flushed'[q] >= k
    BY <1>1 DEF LatestResultsSurvive
  <2>1. last \in Paths
    BY DEF FileTypes
  <2>2. handle'[last] = "closed" => flushed'[last] = written'[last]
    BY <1>3, <2>1 DEF Counts
  <2>3. ASSUME NEW k \in 1..flushed'[last]
        PROVE  k <= Len(file')
    <3>1. CASE k <= flushed[last]
      BY <3>1, <2>1, FileAfterPut DEF FileTypes, LatestResultsSurvive
    <3>2. CASE k > flushed[last]
      <4>1. last = p /\ k <= n
        BY <3>2, <2>1, <1>1 DEF FileTypes
      <4>2. n > flushed[p] /\ k \in Nat
        BY <4>1, <3>2 DEF FileTypes
      <4>3. Len(file') >= n
        BY <4>2, FileAfterPut
      <4>4. Len(file') \in Nat
        BY <1>2 DEF FileTypes
      <4> QED BY <4>1, <4>2, <4>3, <4>4
    <3> QED BY <3>1, <3>2, <2>1, <1>2 DEF FileTypes
  <2>4. ASSUME NEW k \in 1..flushed'[last], file'[k] # last
        PROVE  \E q \in before : file'[k] = q /\ flushed'[q] >= k
    <3>1. k \in 1..Len(file')
      BY <2>3, <2>1, <1>2 DEF FileTypes
    <3>2. CASE k \in (flushed[p] + 1)..n
      <4>1. file'[k] = p
        BY <3>1, <3>2, FileAfterPut
      <4>2. p \in before /\ flushed'[p] >= k
        BY <4>1, <2>4, <1>5, <1>1, <3>2 DEF FileTypes
      <4> QED BY <4>1, <4>2
    <3>3. CASE k \notin (flushed[p] + 1)..n
      <4>1. k \in 1..flushed[last]
        BY <3>3, <1>1, <2>1, <2>4 DEF FileTypes
      <4>2. k <= Len(file) /\ file'[k] = file[k]
        BY <4>1, <3>1, <3>3, FileAfterPut DEF LatestResultsSurvive
      <4>3. PICK q \in before : file[k] = q /\ flushed[q] >= k
        BY <4>1, <4>2, <2>4 DEF LatestResultsSurvive
      <4>4. flushed'[q] >= k
        BY <4>3, <4>1, <1>1 DEF FileTypes
      <4> QED BY <4>2, <4>3, <4>4
    <3> QED BY <3>2, <3>3
  <2> QED BY <2>2, <2>3, <2>4
<1>7. OlderResultsAreErased'
  <2> SUFFICES ASSUME NEW k \in 1..Len(file')
               PROVE  \/ file'[k] \in before \cup {last}
                      \/ file'[k] = Hole /\ \E q \in before : flushed'[q] > k
    BY <1>1 DEF OlderResultsAreErased
  <2>0. k \in Nat /\ k >= 1 /\ Len(file) \in Nat
    BY <1>2 DEF FileTypes
  <2>1. CASE k \in (flushed[p] + 1)..n
    BY <2>1, <1>5, FileAfterPut
  <2>2. CASE k \notin (flushed[p] + 1)..n /\ k <= Len(file)
    <3>1. file'[k] = file[k]
      BY <2>2, FileAfterPut
    <3>2. \A q \in before : flushed[q] > k => flushed'[q] > k
      BY <1>1, <2>0 DEF FileTypes
    <3>3. \/ file[k] \in before \cup {last}
          \/ file[k] = Hole /\ \E q \in before : flushed[q] > k
      BY <2>0, <2>2 DEF OlderResultsAreErased
    <3> QED BY <3>1, <3>2, <3>3
  <2>3. CASE k \notin (flushed[p] + 1)..n /\ k > Len(file)
    <3>1. file'[k] = Hole
      BY <2>3, FileAfterPut
    <3>2. k <= n /\ n > flushed[p] /\ k <= flushed[p]
      BY <2>3, <2>0, FileAfterPut DEF FileTypes
    <3>3. flushed'[p] > k
      BY <3>2, <2>0, <1>1 DEF FileTypes
    <3>4. p # last
      <4> SUFFICES ASSUME p = last PROVE FALSE
        OBVIOUS
      <4>1. k \in 1..flushed[last] /\ last # Nobody
        BY <3>2, <2>0, NamesAssumption DEF FileTypes
      <4> QED BY <4>1, <2>3, <2>0 DEF LatestResultsSurvive
    <3> QED BY <3>1, <3>3, <3>4, <1>5
  <2> QED BY <2>1, <2>2, <2>3, <2>0
<1> QED BY <1>2, <1>3, <1>4, <1>6, <1>7

LEMMA FileSteps == FileInv /\ [FileNext]_fileVars => FileInv'
<1> SUFFICES ASSUME FileInv, [FileNext]_fileVars PROVE FileInv'
  OBVIOUS
<1> USE DEF FileInv
<1>1. ASSUME NEW p \in Paths, Open(p) PROVE FileInv'
  <2>1. /\ flushed[p] = 0 /\ p # Nobody
        /\ file' = <<>>
    BY <1>1, NamesAssumption DEF Open, FileTypes, Counts
  <2>2. FileTypes' /\ Counts' /\ Writers'
    BY <1>1 DEF Open, FileTypes, Counts, Writers, Opened
  <2>3. LatestResultsSurvive'
    BY <1>1, <2>1 DEF Open, FileTypes, LatestResultsSurvive
  <2>4. OlderResultsAreErased'
    BY <2>1 DEF OlderResultsAreErased
  <2> QED BY <2>2, <2>3, <2>4
<1>2. ASSUME NEW p \in Paths, WriteLine(p) PROVE FileInv'
  <2>1. FileTypes' /\ Counts' /\ Writers'
    BY <1>2 DEF WriteLine, FileTypes, Counts, Writers
  <2>2. LatestResultsSurvive' /\ OlderResultsAreErased'
    BY <1>2 DEF WriteLine, FileTypes, Counts, LatestResultsSurvive,
                OlderResultsAreErased
  <2> QED BY <2>1, <2>2
<1>3. ASSUME NEW p \in Paths, Flush(p) PROVE FileInv'
  <2>1. PICK n \in (flushed[p] + 1)..written[p] : Put(p, n)
    BY <1>3 DEF Flush
  <2>2. n \in Nat /\ flushed[p] <= n /\ n <= written[p]
    BY DEF FileTypes
  <2> QED BY <1>3, <2>1, <2>2, PutStep DEF Flush
<1>4. ASSUME NEW p \in Paths, Close(p) PROVE FileInv'
  <2>1. written[p] \in Nat /\ flushed[p] <= written[p] /\ written[p] <= written[p]
    BY DEF FileTypes, Counts
  <2> QED BY <1>4, <2>1, PutStep DEF Close
<1>5. ASSUME Crash PROVE FileInv'
  <2>1. FileTypes' /\ Counts' /\ Writers'
    BY <1>5 DEF Crash, FileTypes, Counts, Writers
  <2>2. LatestResultsSurvive' /\ OlderResultsAreErased'
    BY <1>5 DEF Crash, FileTypes, LatestResultsSurvive,
                OlderResultsAreErased
  <2> QED BY <2>1, <2>2
<1>6. ASSUME UNCHANGED fileVars PROVE FileInv'
  BY <1>6 DEF fileVars, FileTypes, Counts, Writers, LatestResultsSurvive,
              OlderResultsAreErased
<1> QED BY <1>1, <1>2, <1>3, <1>4, <1>5, <1>6 DEF FileNext

-----------------------------------------------------------------------------

(***************************************************************************)
(* The invariant: only the latest path and those that were open before it  *)
(* write to the file, and nothing of the others is left in it.             *)
(***************************************************************************)
THEOREM FileInvariant == FileSpec => []FileInv
BY FileStarts, FileSteps, PTL DEF FileSpec

(***************************************************************************)
(* Only paths that were open when it was created can take lines from the   *)
(* latest path; closing files, or a crash, never does.                     *)
(***************************************************************************)
THEOREM LatestSurvives == FileSpec => []LatestResultsSurvive
<1>1. FileInv => LatestResultsSurvive
  BY DEF FileInv
<1> QED BY <1>1, FileInvariant, PTL

(***************************************************************************)
(* However many paths there are, the creation of one erases what the       *)
(* others had written to the file.                                         *)
(***************************************************************************)
THEOREM OlderErased == FileSpec => []OlderResultsAreErased
<1>1. FileInv => OlderResultsAreErased
  BY DEF FileInv
<1> QED BY <1>1, FileInvariant, PTL
=============================================================================
