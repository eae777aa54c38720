-------------------------------- MODULE KeyFile --------------------------------
(***************************************************************************)
(* The life of the configuration file (src/src/keyfile.c): loaded by        *)
(* main(), read by service_thread_init and by the start of every client     *)
(* thread, and closed by whoever brings s_refcount_conf to zero             *)
(* (conf_dec_count in src/src/main.c).  Nothing but that counter protects   *)
(* the readers: key_file_close frees the file and the getters do not ask.   *)
(*                                                                         *)
(* A thread's group in the file is absent, or one its init refuses (mail    *)
(* and rss without entries, mpd without a server to connect to), or good.   *)
(***************************************************************************)
EXTENDS Naturals, FiniteSets

CONSTANTS
  Threads,        \* the compiled-in client threads
  Service,        \* service_thread_init, in the main thread
  AbsentCounts,   \* who calls conf_dec_count when its group is absent
  Refusable       \* those whose init or connect can fail: mail, rss, mpd

ASSUME ThreadsAssumption ==
  /\ IsFiniteSet(Threads)
  /\ Service \notin Threads
  /\ AbsentCounts \subseteq Threads
  /\ Refusable \subseteq Threads

Readers == Threads \cup {Service}
Groups == {"absent", "refused", "good"}

VARIABLES
  group,     \* what the file says about each reader
  pc,        \* where each reader is
  refcount,  \* s_refcount_conf
  open,      \* s_key_file has not been freed
  misread    \* a getter ran on the freed file

file_vars == <<group, pc, refcount, open, misread>>

Places == {"waiting", "asking", "reading", "counting", "closing", "done"}

FileInit ==
  /\ group \in [Readers -> Groups]
  /\ \A r \in Readers : group[r] = "refused" => r \in Refusable
  /\ pc = [r \in Readers |-> IF r = Service THEN "asking" ELSE "waiting"]
  /\ refcount = Cardinality(Threads) + 1
  /\ open = TRUE
  /\ misread = FALSE

(* main() creates the client threads when service_thread_init has returned. *)
Create(t) ==
  /\ pc[Service] = "done"
  /\ pc[t] = "waiting"
  /\ pc' = [pc EXCEPT ![t] = "asking"]
  /\ UNCHANGED <<group, refcount, open, misread>>

Reads == misread' = (misread \/ ~ open)

(* key_file_has_group; mail and the service thread return without counting. *)
AskGroup_CountsFirst(r) ==  \* mutant: counts, and then goes on to read
  /\ pc[r] = "asking"
  /\ Reads
  /\ pc' = [pc EXCEPT ![r] = "reading"]
  /\ refcount' = refcount - 1
  /\ open' = (open /\ refcount' # 0)
  /\ UNCHANGED group

AskGroup(r) ==
  /\ pc[r] = "asking"
  /\ Reads
  /\ pc' = [pc EXCEPT ![r] =
       IF group[r] # "absent" THEN "reading"
       ELSE IF r \in AbsentCounts THEN "counting" ELSE "done"]
  /\ UNCHANGED <<group, refcount, open>>

(* One of the getters of the reader's init. *)
ReadValue(r) ==
  /\ pc[r] = "reading"
  /\ Reads
  /\ UNCHANGED <<group, pc, refcount, open>>

(* An init that fails makes its thread return without counting. *)
InitReturns(r) ==
  /\ pc[r] = "reading"
  /\ pc' = [pc EXCEPT ![r] = IF group[r] = "good" THEN "counting" ELSE "done"]
  /\ UNCHANGED <<group, refcount, open, misread>>

(* conf_dec_count: g_atomic_int_dec_and_test, then key_file_close. *)
DecCount_Early(r) ==  \* mutant: closes when one reader is left
  /\ pc[r] = "counting"
  /\ refcount' = refcount - 1
  /\ pc' = [pc EXCEPT ![r] = IF refcount' <= 1 THEN "closing" ELSE "done"]
  /\ UNCHANGED <<group, open, misread>>

DecCount_TestsOld(r) ==  \* mutant: tests the value before the decrement
  /\ pc[r] = "counting"
  /\ refcount' = refcount - 1
  /\ pc' = [pc EXCEPT ![r] = IF refcount = 0 THEN "closing" ELSE "done"]
  /\ UNCHANGED <<group, open, misread>>

DecCount(r) ==
  /\ pc[r] = "counting"
  /\ refcount' = refcount - 1
  /\ pc' = [pc EXCEPT ![r] = IF refcount' = 0 THEN "closing" ELSE "done"]
  /\ UNCHANGED <<group, open, misread>>

Close(r) ==
  /\ pc[r] = "closing"
  /\ open' = FALSE
  /\ pc' = [pc EXCEPT ![r] = "done"]
  /\ UNCHANGED <<group, refcount, misread>>

AllDone == \A r \in Readers : pc[r] = "done"
Finished == AllDone /\ UNCHANGED file_vars

Advance(r) == AskGroup(r) \/ InitReturns(r) \/ DecCount(r) \/ Close(r)

FileNext ==
  \/ \E r \in Readers : Advance(r) \/ ReadValue(r)
  \/ \E t \in Threads : Create(t)
  \/ Finished

FileSpec == FileInit /\ [][FileNext]_file_vars

FairSpec ==
  /\ FileSpec
  /\ \A r \in Readers : WF_file_vars(Advance(r))
  /\ \A t \in Threads : WF_file_vars(Create(t))

-----------------------------------------------------------------------------
(* Properties.                                                               *)

TypeOK ==
  /\ group \in [Readers -> Groups]
  /\ pc \in [Readers -> Places]
  /\ refcount \in Nat
  /\ open \in BOOLEAN
  /\ misread \in BOOLEAN

(* Whatever the file says and however the threads interleave, no getter runs *)
(* on the freed file, also while other threads are still in their init.      *)
NoReadAfterClose == ~ misread

(* The file is closed once, by the last reader: nobody is still on the way   *)
(* to a getter, and the counter has not been counted down by anyone twice.   *)
ClosedByLast == ~ open => refcount = 0 /\ \A r \in Readers : pc[r] = "done"

(* If every group is there and good, the file is freed in the end. *)
GoodFileIsFreed == (\A r \in Readers : group[r] = "good") ~> ~ open

=============================================================================
