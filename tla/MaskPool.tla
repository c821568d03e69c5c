------------------------------ MODULE MaskPool ------------------------------
(***************************************************************************)
(* MaskManager: the pool of one-time key bytes from which the symmetric    *)
(* masks of a path are cut.  The REST threads that create paths extract    *)
(* masks; a timer thread replaces the keys.  The shelf is opened without   *)
(* write-back, so every read of it is a private copy, and an extraction    *)
(* works on such a copy until _update_masks stores it again.               *)
(*                                                                         *)
(* Time is abstracted to one bit: fresh says whether                       *)
(* time.time() - last_update <= timer_time.                                *)
(***************************************************************************)
EXTENDS Naturals, Sequences, FiniteSets

CONSTANTS Paths,        \* extractions, one for each path that is created
          Wanted,       \* masks each of them needs: number_of_nodes - 1
          KeysPerBatch, \* keys one call of generate_masks stores
          MasksPerKey,  \* len(key) / MASK_SIZE
          MaxBatch,     \* bound on the batches generated in a run
          ApiMayFail,   \* keys come from the HTTP service, which may fail
          ShelfMayFail  \* writing to the shelf may fail

ASSUME WantedAssumption == Wanted \in [Paths -> Nat \ {0}]
ASSUME SizeAssumption == /\ KeysPerBatch \in Nat \ {0}
                         /\ MasksPerKey \in Nat \ {0}
                         /\ MaxBatch \in Nat \ {0}
ASSUME SwitchAssumption == ApiMayFail \in BOOLEAN /\ ShelfMayFail \in BOOLEAN

VARIABLES
    shelf,      \* self.keys['keys']
    fresh,      \* the last update is not older than timer_time
    batches,    \* batches generated so far
    lock,       \* self.lock was left held, by a write to the shelf that failed
    timer,      \* what the timer thread does next
    pc,         \* what each extraction does next
    keys,       \* its local copy of the keys
    masks,      \* the masks it has cut
    disturbed   \* history: extractions that overlapped another one, or whose
                \* remaining keys were not stored

vars == <<shelf, fresh, batches, lock, timer, pc, keys, masks, disturbed>>

\* A key is the batch and place it comes from and the masks already cut.
Key == [batch : 1..MaxBatch, place : 1..KeysPerBatch, cut : 0..MasksPerKey]

Batch(b) ==
    [i \in 1..KeysPerBatch |-> [batch |-> b, place |-> i, cut |-> 0]]

\* Faulty variant: an empty key is not too short.
ShortOffByOne(key) == key.cut > MasksPerKey

Short(key) == key.cut >= MasksPerKey      \* len(key) < MASK_SIZE

\* The first MASK_SIZE bytes of a key; no bytes at all give the mask [0, 0].
Zero == [zero |-> TRUE]
Cut(key) == IF Short(key) THEN Zero
            ELSE [batch |-> key.batch, place |-> key.place, at |-> key.cut]
\* Faulty variant: the bytes that were cut stay.
RestUncut(key) == key

Rest(key) == IF Short(key) THEN key ELSE [key EXCEPT !.cut = @ + 1]

Butlast(s) == SubSeq(s, 1, Len(s) - 1)

Working == {e \in Paths : pc[e] \notin {"idle", "done", "failed"}}

Init == /\ shelf = Batch(1)
        /\ fresh = TRUE
        /\ batches = 1
        /\ lock = FALSE
        /\ timer = "sleep"
        /\ pc = [e \in Paths |-> "idle"]
        /\ keys = [e \in Paths |-> <<>>]
        /\ masks = [e \in Paths |-> <<>>]
        /\ disturbed = {}

-----------------------------------------------------------------------------
(* extract_opot_masks and _update_masks *)

\* keys = self.keys['keys']
ReadKeys(e) ==
    /\ pc[e] = "idle"
    /\ pc' = [pc EXCEPT ![e] = "take"]
    /\ keys' = [keys EXCEPT ![e] = shelf]
    /\ disturbed' = IF Working = {} THEN disturbed
                    ELSE disturbed \cup Working \cup {e}
    /\ UNCHANGED <<shelf, fresh, batches, lock, timer, masks>>

\* Cut one mask from the last of the given keys, and keep what is left.
TakeFrom(e, ks) ==
    LET last == ks[Len(ks)]
    IN  /\ masks' = [masks EXCEPT ![e] = Append(@, Cut(last))]
        /\ keys' = [keys EXCEPT ![e] = [ks EXCEPT ![Len(ks)] = Rest(last)]]
        /\ pc' = [pc EXCEPT ![e] =
                    IF Len(masks[e]) + 1 = Wanted[e] THEN "commit" ELSE "take"]

\* The keys without the last one, when it is too short for a mask.
Trimmed(ks) == IF Short(ks[Len(ks)]) THEN Butlast(ks) ELSE ks

TakeMask(e) ==
    /\ pc[e] = "take"
    /\ Trimmed(keys[e]) # <<>>
    /\ TakeFrom(e, Trimmed(keys[e]))
    /\ UNCHANGED <<shelf, fresh, batches, lock, timer, disturbed>>

\* generate_masks, with reason=True: new keys and a new last_update.  Who finds
\* the lock left behind waits for it for ever.
Generate ==
    /\ ~lock
    /\ batches < MaxBatch
    /\ batches' = batches + 1
    /\ shelf' = Batch(batches + 1)
    /\ fresh' = TRUE
    /\ UNCHANGED lock

\* ... and its write fails: the exception passes by the release of the lock,
\* when last_update was set already and the shelf holds what it held.
WriteFails == /\ ShelfMayFail /\ ~lock
              /\ lock' = TRUE
              /\ fresh' = TRUE
              /\ UNCHANGED <<shelf, batches>>

\* No key is left in the copy: the extraction generates a batch itself.
GenerateInline(e) ==
    /\ pc[e] = "take"
    /\ Trimmed(keys[e]) = <<>>
    /\ Generate
    /\ pc' = [pc EXCEPT ![e] = "reread"]
    /\ UNCHANGED <<timer, keys, masks, disturbed>>

\* ... and fails when the key service does: create_path answers an error.  If
\* the service never answers, the extraction takes no step any more.
GenerateFails(e) ==
    /\ ApiMayFail
    /\ pc[e] = "take"
    /\ Trimmed(keys[e]) = <<>>
    /\ pc' = [pc EXCEPT ![e] = "failed"]
    /\ UNCHANGED <<shelf, fresh, batches, lock, timer, keys, masks, disturbed>>

\* Then it reads the shelf again and cuts without looking at the length.
RereadKeys(e) ==
    /\ pc[e] = "reread"
    /\ TakeFrom(e, shelf)
    /\ UNCHANGED <<shelf, fresh, batches, lock, timer, disturbed>>

\* Faulty variant: a key that became too short is dropped when storing.
UpdateTrimmed(e) ==
    /\ pc[e] = "commit" /\ ~lock
    /\ pc' = [pc EXCEPT ![e] = "done"]
    /\ shelf' = IF fresh THEN Trimmed(keys[e]) ELSE shelf
    /\ disturbed' = IF fresh THEN disturbed ELSE disturbed \cup {e}
    /\ UNCHANGED <<fresh, batches, lock, timer, keys, masks>>

\* _update_masks with reason=False: the remaining keys are stored unless the
\* last update is too old, and dropped without a word otherwise.
UpdateMasks(e) ==
    /\ pc[e] = "commit" /\ ~lock
    /\ pc' = [pc EXCEPT ![e] = "done"]
    /\ shelf' = IF fresh THEN keys[e] ELSE shelf
    /\ disturbed' = IF fresh THEN disturbed ELSE disturbed \cup {e}
    /\ UNCHANGED <<fresh, batches, lock, timer, keys, masks>>

\* The write of either fails, and create_path answers an error.
ExtractFails(e) ==
    /\ \/ pc[e] = "take" /\ Trimmed(keys[e]) = <<>>
       \/ pc[e] = "commit" /\ fresh
    /\ WriteFails
    /\ pc' = [pc EXCEPT ![e] = "failed"]
    /\ UNCHANGED <<timer, keys, masks, disturbed>>

Extract(e) == \/ ReadKeys(e) \/ TakeMask(e) \/ GenerateInline(e)
              \/ GenerateFails(e) \/ RereadKeys(e) \/ UpdateMasks(e)
              \/ ExtractFails(e)

-----------------------------------------------------------------------------
(* The timer thread and the clock *)

TimerGenerates ==
    /\ timer = "sleep"
    /\ Generate
    /\ timer' = "stamp"
    /\ UNCHANGED <<pc, keys, masks, disturbed>>

\* run() catches nothing: an error of the key service ends the thread.
TimerFails ==
    /\ ApiMayFail
    /\ timer = "sleep"
    /\ timer' = "dead"
    /\ UNCHANGED <<shelf, fresh, batches, lock, pc, keys, masks, disturbed>>

\* requests.get is given no timeout: it may never return.
TimerHangs ==
    /\ ApiMayFail
    /\ timer = "sleep"
    /\ timer' = "hung"
    /\ UNCHANGED <<shelf, fresh, batches, lock, pc, keys, masks, disturbed>>

\* An error of the shelf ends the thread as well, with the lock in its hands.
TimerWriteFails ==
    /\ timer = "sleep"
    /\ WriteFails
    /\ timer' = "dead"
    /\ UNCHANGED <<pc, keys, masks, disturbed>>

\* Faulty variant: the thread stamps the time and never sleeps again.
TimerRunsOnce ==
    /\ timer = "stamp"
    /\ fresh' = TRUE
    /\ UNCHANGED <<shelf, batches, lock, timer, pc, keys, masks, disturbed>>

\* self.last_update = time.time(), a second time and without the lock.
TimerStamps ==
    /\ timer = "stamp"
    /\ timer' = "sleep"
    /\ fresh' = TRUE
    /\ UNCHANGED <<shelf, batches, lock, pc, keys, masks, disturbed>>

\* More than timer_time passes since the last update.
TimePasses ==
    /\ fresh
    /\ fresh' = FALSE
    /\ UNCHANGED <<shelf, batches, lock, timer, pc, keys, masks, disturbed>>

Timer == TimerGenerates \/ TimerStamps

TimerFault == TimerFails \/ TimerHangs \/ TimerWriteFails

Next == (\E e \in Paths : Extract(e)) \/ Timer \/ TimerFault \/ TimePasses

Spec == Init /\ [][Next]_vars

(***************************************************************************)
(* sleep() returns and the timer thread is scheduled.  Its request may end *)
(* well, fail or never end: nothing says which, as the faults take away    *)
(* the step that is fair.  Extractions need not go on, nor time pass.      *)
(***************************************************************************)
FairSpec == Spec /\ WF_vars(Timer)

-----------------------------------------------------------------------------
(* Properties *)

Mask == {Zero} \cup [batch : 1..MaxBatch, place : 1..KeysPerBatch,
                     at : 0..(MasksPerKey - 1)]

TypeOK == /\ shelf \in Seq(Key)
          /\ fresh \in BOOLEAN
          /\ batches \in 1..MaxBatch
          /\ lock \in BOOLEAN
          /\ timer \in {"sleep", "stamp", "hung", "dead"}
          /\ pc \in [Paths -> {"idle", "take", "reread", "commit", "done",
                               "failed"}]
          /\ keys \in [Paths -> Seq(Key)]
          /\ masks \in [Paths -> Seq(Mask)]
          /\ disturbed \in SUBSET Paths

MasksOf(e) == {masks[e][i] : i \in 1..Len(masks[e])}

(***************************************************************************)
(* keys[n_keys - 1] never fails: the pool and the copy an extraction is    *)
(* about to cut from hold a key, however extractions, the timer and lost   *)
(* updates interleave.                                                     *)
(***************************************************************************)
PoolNeverEmpty ==
    /\ shelf # <<>>
    /\ \A e \in Paths : pc[e] \in {"take", "commit"} => keys[e] # <<>>

(***************************************************************************)
(* Masks are one-time: an extraction that ran alone and whose remaining    *)
(* keys were stored gets masks that are whole, all different, and given to *)
(* no other such path, across regenerations by itself or by the timer.     *)
(***************************************************************************)
UndisturbedMasksAreFresh ==
    LET alone == {e \in Paths \ disturbed : pc[e] # "failed"}
    IN  \A e \in alone :
            /\ Zero \notin MasksOf(e)
            /\ Cardinality(MasksOf(e)) = Len(masks[e])
            /\ \A f \in alone \ {e} : MasksOf(e) \cap MasksOf(f) = {}

(***************************************************************************)
(* MaskManager.__init__: timer_time is the time "that must pass to reload  *)
(* the stored keys".  Keys that became too old are replaced, unless an     *)
(* error ended the timer thread, its request never returns, or a write     *)
(* that failed, of the timer or of an extraction, left the lock held.      *)
(* MaxBatch bounds the run.                                                *)
(***************************************************************************)
OldKeysAreReplaced ==
    \A b \in 1..(MaxBatch - 1) :
        ~fresh /\ batches = b ~>
            batches > b \/ timer \in {"dead", "hung"} \/ lock
=============================================================================
