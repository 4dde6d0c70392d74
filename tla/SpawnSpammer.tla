---------------------------- MODULE SpawnSpammer ----------------------------
(***************************************************************************)
(* createSpammers of cmd/thorchainspam: the main goroutine starts one      *)
(* goroutine per spam key, at most SemaphoreSize at a time, and waits for  *)
(* all of them.  Each looks its account up on the chain and appends a      *)
(* spammer to the shared slice.                                            *)
(*                                                                         *)
(* The append is not synchronised.  A goroutine loads the slice header,    *)
(* and later writes its element behind the length it loaded and stores the *)
(* header: writers[p] collects who wrote position p, and which of them the *)
(* position ends up with is left open.  The words of a header are taken to *)
(* be loaded and stored together.                                          *)
(***************************************************************************)
EXTENDS Integers, FiniteSets

CONSTANTS
  Keys,           \* the keys of the keybase that have the spam prefix
  SemaphoreSize,  \* the capacity of the channel semaphore (50)
  Unread          \* no slice header was loaded

ASSUME SpawnAssumption ==
  /\ IsFiniteSet(Keys)
  /\ SemaphoreSize \in Nat \ {0}
  /\ Unread \notin Nat

VARIABLES
  todo,       \* the keys the main loop has not reached
  main,       \* where createSpammers is
  wg,         \* the counter of the WaitGroup
  semaphore,  \* the number of values in the channel
  at,         \* where the goroutine of a key is
  loaded,     \* the slice length the goroutine of a key loaded
  length,     \* the length in the shared slice header
  writers,    \* the goroutines that wrote a position of the slice
  spammers    \* the slice createSpammers returned

slice == <<length, writers, spammers>>
vars == <<todo, main, wg, semaphore, at, loaded, slice>>

Init ==
  /\ todo = Keys
  /\ main = "loop"
  /\ wg = 0
  /\ semaphore = 0
  /\ at = [k \in Keys |-> "none"]
  /\ loaded = [k \in Keys |-> Unread]
  /\ length = 0
  /\ writers = [p \in 1..Cardinality(Keys) |-> {}]
  /\ spammers = <<>>

Go(k, label) == at' = [at EXCEPT ![k] = label]

(* Faulty variant: wg.Add(1) is left to the goroutine.                     *)
spawn_NoAdd(k) ==
  /\ main = "loop"
  /\ semaphore < SemaphoreSize
  /\ todo' = todo \ {k}
  /\ semaphore' = semaphore + 1
  /\ Go(k, "query")
  /\ UNCHANGED <<main, wg, loaded, slice>>

(* Faulty variant: the main loop does not wait for the semaphore.          *)
spawn_NoLimit(k) ==
  /\ main = "loop"
  /\ todo' = todo \ {k}
  /\ wg' = wg + 1
  /\ semaphore' = semaphore + 1
  /\ Go(k, "query")
  /\ UNCHANGED <<main, loaded, slice>>

(* One iteration of the main loop; it blocks while the semaphore is full.  *)
spawn(k) ==
  /\ main = "loop"
  /\ semaphore < SemaphoreSize
  /\ todo' = todo \ {k}
  /\ wg' = wg + 1
  /\ semaphore' = semaphore + 1
  /\ Go(k, "query")
  /\ UNCHANGED <<main, loaded, slice>>

Release == semaphore' = semaphore - 1

(* Faulty variant: a skipped key keeps its slot of the semaphore.          *)
accountNotFound_KeepsSlot(k) ==
  /\ main # "crashed"
  /\ at[k] = "query"
  /\ Go(k, "return")
  /\ UNCHANGED <<todo, main, wg, semaphore, loaded, slice>>

(* GetAccount failed: the key is skipped.                                  *)
accountNotFound(k) ==
  /\ main # "crashed"
  /\ at[k] = "query"
  /\ Release
  /\ Go(k, "return")
  /\ UNCHANGED <<todo, main, wg, loaded, slice>>

(* ExportPrivateKeyObject failed: the panic ends the process.              *)
keyNotExported(k) ==
  /\ main # "crashed"
  /\ at[k] = "query"
  /\ main' = "crashed"
  /\ UNCHANGED <<todo, wg, semaphore, at, loaded, slice>>

loadSlice(k) ==
  /\ main # "crashed"
  /\ at[k] = "query"
  /\ loaded' = [loaded EXCEPT ![k] = length]
  /\ Go(k, "append")
  /\ UNCHANGED <<todo, main, wg, semaphore, slice>>

storeSlice(k) ==
  /\ main # "crashed"
  /\ at[k] = "append"
  /\ length' = loaded[k] + 1
  /\ writers' = [writers EXCEPT ![length'] = @ \cup {k}]
  /\ Go(k, "release")
  /\ UNCHANGED <<todo, main, wg, semaphore, loaded, spammers>>

release(k) ==
  /\ main # "crashed"
  /\ at[k] = "release"
  /\ Release
  /\ Go(k, "return")
  /\ UNCHANGED <<todo, main, wg, loaded, slice>>

(* The deferred wg.Done().                                                 *)
done(k) ==
  /\ main # "crashed"
  /\ at[k] = "return"
  /\ wg' = wg - 1
  /\ Go(k, "done")
  /\ UNCHANGED <<todo, main, semaphore, loaded, slice>>

(* wg.Wait() returns.                                                      *)
wait ==
  /\ main = "loop"
  /\ todo = {}
  /\ wg = 0
  /\ main' = "returned"
  /\ spammers' \in {s \in [1..length -> Keys] : \A p \in 1..length : s[p] \in writers[p]}
  /\ UNCHANGED <<todo, wg, semaphore, at, loaded, length, writers>>

goroutine(k) ==
  \/ accountNotFound(k)
  \/ keyNotExported(k)
  \/ loadSlice(k)
  \/ storeSlice(k)
  \/ release(k)
  \/ done(k)

(* The command goes on, or the process is gone.                            *)
Terminated ==
  /\ main \in {"returned", "crashed"}
  /\ UNCHANGED vars

Next ==
  \/ \E k \in todo : spawn(k)
  \/ \E k \in Keys : goroutine(k)
  \/ wait
  \/ Terminated

Spec == Init /\ [][Next]_vars

(* The Go scheduler runs every goroutine that can go on.                   *)
LiveSpec ==
  /\ Spec
  /\ WF_vars(wait \/ \E k \in todo : spawn(k))
  /\ \A k \in Keys : WF_vars(goroutine(k))

-----------------------------------------------------------------------------
(* Properties.                                                             *)

Working == {k \in Keys : at[k] \in {"query", "append", "release"}}

(* The semaphore counts exactly the goroutines that work on an account,    *)
(* whether they end well or are skipped, so never more than its capacity   *)
(* query the node at once and no slot is lost.                             *)
SemaphoreCountsWorkers ==
  /\ semaphore = Cardinality(Working)
  /\ semaphore \in 0..SemaphoreSize

(* createSpammers returns only when every goroutine has finished: none can *)
(* still write the slice that the sending loop reads.                      *)
ReturnsAfterAll ==
  main = "returned" => \A k \in Keys : at[k] = "done"

(* Under LiveSpec createSpammers returns, or the process panics: the main  *)
(* goroutine never waits for good, on the semaphore or on the WaitGroup.   *)
Returns == <>(main \in {"returned", "crashed"})

(* Every account that was found on the chain sends transactions: it is in  *)
(* the slice that createSpammers returns.                                  *)
NoSpammerLost ==
  main = "returned" =>
    \A k \in Keys : loaded[k] # Unread => \E p \in 1..length : spammers[p] = k
=============================================================================
