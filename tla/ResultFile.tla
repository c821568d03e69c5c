----------------------------- MODULE ResultFile -----------------------------
(***************************************************************************)
(* The file the successes of a path are written to (that of the failures   *)
(* is used in the same way).  Its name is the same for all paths: the      *)
(* constructor of a path opens it for writing, which empties it, and each  *)
(* path has a lock, a buffer and a place in the file of its own.           *)
(*                                                                         *)
(* Lines are of one length; the k-th line of a path is named by the path,  *)
(* and its place in the file says which it is.                             *)
(***************************************************************************)
EXTENDS Naturals, Sequences

CONSTANTS Paths,
          MaxLines,   \* bound on the lines of each path
          Hole,       \* what stands where nobody has written
          Nobody

ASSUME LinesAssumption == MaxLines \in Nat
ASSUME NamesAssumption == Nobody \notin Paths /\ Hole \notin Paths

VARIABLES
    handle,    \* m_v of each path: none, open, closed, or gone in a crash
    written,   \* lines each path has written
    flushed,   \* how many of them have left its buffer
    file,      \* what the file holds
    last,      \* history: the path that opened it last
    before     \* history: the paths that had it open then

fileVars == <<handle, written, flushed, file, last, before>>

FileInit == /\ handle = [p \in Paths |-> "none"]
            /\ written = [p \in Paths |-> 0]
            /\ flushed = [p \in Paths |-> 0]
            /\ file = <<>>
            /\ last = Nobody
            /\ before = {}

Opened == {p \in Paths : handle[p] = "open"}

\* Faulty variant: the file keeps what it holds.
OpenAsItIs(p) ==
    /\ handle[p] = "none"
    /\ handle' = [handle EXCEPT ![p] = "open"]
    /\ last' = p
    /\ before' = Opened
    /\ UNCHANGED <<written, flushed, file>>

\* open('/tmp/mtd_valid.csv', 'w')
Open(p) ==
    /\ handle[p] = "none"
    /\ handle' = [handle EXCEPT ![p] = "open"]
    /\ file' = <<>>
    /\ last' = p
    /\ before' = Opened
    /\ UNCHANGED <<written, flushed>>

\* m_v.write, under the lock of the path.
WriteLine(p) ==
    /\ handle[p] = "open" /\ written[p] < MaxLines
    /\ written' = [written EXCEPT ![p] = @ + 1]
    /\ UNCHANGED <<handle, flushed, file, last, before>>

Longer(n) == IF n > Len(file) THEN n ELSE Len(file)

\* The next lines of p, up to its n-th, reach the file where p is in it.
Put(p, n) ==
    /\ flushed' = [flushed EXCEPT ![p] = n]
    /\ file' = [k \in 1..(IF n > flushed[p] THEN Longer(n) ELSE Len(file)) |->
                   IF k \in (flushed[p] + 1)..n THEN p
                   ELSE IF k <= Len(file) THEN file[k] ELSE Hole]
    /\ UNCHANGED <<written, last, before>>

\* The buffer is full.
Flush(p) ==
    /\ handle[p] = "open"
    /\ \E n \in (flushed[p] + 1)..written[p] : Put(p, n)
    /\ UNCHANGED handle

\* Faulty variant: the buffer is dropped.
CloseUnflushed(p) ==
    /\ handle[p] = "open"
    /\ handle' = [handle EXCEPT ![p] = "closed"]
    /\ UNCHANGED <<written, flushed, file, last, before>>

\* closeFiles, when the path is destroyed or its creation rolled back.
Close(p) ==
    /\ handle[p] = "open"
    /\ handle' = [handle EXCEPT ![p] = "closed"]
    /\ Put(p, written[p])

\* The controller dies, and its buffers with it.
Crash ==
    /\ handle' = [p \in Paths |-> IF handle[p] = "open" THEN "gone" ELSE handle[p]]
    /\ UNCHANGED <<written, flushed, file, last, before>>

FileNext == \/ \E p \in Paths : Open(p) \/ WriteLine(p) \/ Flush(p) \/ Close(p)
            \/ Crash

FileSpec == FileInit /\ [][FileNext]_fileVars

-----------------------------------------------------------------------------
(* Properties *)

(***************************************************************************)
(* A line of the path that was created last stays in the file once it left *)
(* the buffer, and all have when the path is closed, unless a path that    *)
(* was there before it wrote over it: nothing that happens to paths that   *)
(* had ended matters, nor a crash.                                         *)
(***************************************************************************)
LatestResultsSurvive ==
    last # Nobody =>
        /\ handle[last] = "closed" => flushed[last] = written[last]
        /\ \A k \in 1..flushed[last] :
              /\ k <= Len(file)
              /\ file[k] # last => \E q \in before : file[k] = q /\ flushed[q] >= k

(***************************************************************************)
(* The creation of a path erases the results of all others: afterwards the *)
(* file holds lines of the new path, lines that paths which were there     *)
(* wrote later, and holes before those, and no line from before.           *)
(***************************************************************************)
OlderResultsAreErased ==
    \A k \in 1..Len(file) :
        \/ file[k] \in before \cup {last}
        \/ file[k] = Hole /\ \E q \in before : flushed[q] > k
=============================================================================
