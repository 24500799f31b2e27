-------------------------------- MODULE Dice --------------------------------
(***************************************************************************)
(* laba2/main.c: the experiments of a dice game are shared out among       *)
(* threads.  Every thread counts its own results and then adds them to the *)
(* three totals of main under one mutex; main joins the threads and prints *)
(* the totals.  What the dice show is a free choice; the number of rounds  *)
(* and the start points only weigh it.                                     *)
(*                                                                         *)
(* An addition of C is a load and a store, so that two threads inside it   *)
(* at once could lose one of the results.                                  *)
(***************************************************************************)
EXTENDS Integers

CONSTANTS
  MaxThreads,   (* max_threads: the -tr flag, 4 by default  *)
  Experiments   (* experiments: the fourth argument         *)

\* With no thread at all the division of main is undefined, and a negative
\* number of experiments plays nothing; both are excluded here.
ASSUME DiceAssumption == MaxThreads \in Nat \ {0} /\ Experiments \in Nat

Threads == 0..(MaxThreads - 1)
Kinds   == {"first", "second", "draw"}
Nobody  == -1

VARIABLES
  created,   (* how many threads main has created               *)
  joined,    (* how many it has joined                          *)
  state,     (* where each thread is                            *)
  left,      (* experiments the thread still has to play        *)
  local,     (* its own counters                                *)
  kind,      (* the total it is adding to                       *)
  loaded,    (* the value of that total it has read             *)
  mutex,     (* the owner of the mutex, or Nobody               *)
  total,     (* first_wins, second_wins, draws of main          *)
  added      (* history: what was added to each of them         *)

vars == <<created, joined, state, left, local, kind, loaded, mutex, total, added>>

\* The order of the three additions, "none" standing before and after them.
NextKind == [none |-> "first", first |-> "second", second |-> "draw", draw |-> "none"]

States == {"none", "playing", "adding", "storing", "done"}

\* Faulty variant: the rest of the division goes to every thread.
ShareGenerous(i) ==
  Experiments \div MaxThreads + (IF Experiments % MaxThreads > 0 THEN 1 ELSE 0)

\* experiments_per_thread of thread i.
Share(i) ==
  Experiments \div MaxThreads + (IF i < Experiments % MaxThreads THEN 1 ELSE 0)

TypeOK ==
  /\ created \in 0..MaxThreads
  /\ joined \in 0..MaxThreads
  /\ state \in [Threads -> States]
  /\ left \in [Threads -> Nat]
  /\ local \in [Threads -> [Kinds -> Nat]]
  /\ kind \in [Threads -> Kinds \cup {"none"}]
  /\ loaded \in [Threads -> Nat]
  /\ mutex \in Threads \cup {Nobody}
  /\ total \in [Kinds -> Nat]
  /\ added \in [Kinds -> Nat]

Init ==
  /\ created = 0 /\ joined = 0
  /\ state = [i \in Threads |-> "none"]
  /\ left = [i \in Threads |-> 0]
  /\ local = [i \in Threads |-> [k \in Kinds |-> 0]]
  /\ kind = [i \in Threads |-> "none"]
  /\ loaded = [i \in Threads |-> 0]
  /\ mutex = Nobody
  /\ total = [k \in Kinds |-> 0]
  /\ added = [k \in Kinds |-> 0]
-----------------------------------------------------------------------------
\* main fills in threads_data of the next thread and starts it.
CreateThread ==
  /\ created < MaxThreads
  /\ created' = created + 1
  /\ state' = [state EXCEPT ![created] = "playing"]
  /\ left' = [left EXCEPT ![created] = Share(created)]
  /\ UNCHANGED <<joined, local, kind, loaded, mutex, total, added>>

\* Faulty variant: <= for < in the loop over the experiments.
RemainsOneMore(i) == left[i] >= 0

Remains(i) == left[i] > 0

\* One turn of the loop of simulate_game.
Play(i) ==
  /\ state[i] = "playing" /\ Remains(i)
  /\ left' = [left EXCEPT ![i] = @ - 1]
  /\ \E k \in Kinds : local' = [local EXCEPT ![i][k] = @ + 1]
  /\ UNCHANGED <<created, joined, state, kind, loaded, mutex, total, added>>

\* Faulty variant: the mutex is not waited for.
NotWaited == TRUE

MutexFree == mutex = Nobody

\* pthread_mutex_lock
Lock(i) ==
  /\ state[i] = "playing" /\ left[i] = 0
  /\ MutexFree
  /\ mutex' = i
  /\ state' = [state EXCEPT ![i] = "adding"]
  /\ kind' = [kind EXCEPT ![i] = NextKind.none]
  /\ UNCHANGED <<created, joined, left, local, loaded, total, added>>

\* The two halves of *(input_data->first_wins) += first_wins and its likes.
Load(i) ==
  /\ state[i] = "adding" /\ kind[i] # "none"
  /\ loaded' = [loaded EXCEPT ![i] = total[kind[i]]]
  /\ state' = [state EXCEPT ![i] = "storing"]
  /\ UNCHANGED <<created, joined, left, local, kind, mutex, total, added>>

Store(i) ==
  /\ state[i] = "storing"
  /\ total' = [total EXCEPT ![kind[i]] = loaded[i] + local[i][kind[i]]]
  /\ added' = [added EXCEPT ![kind[i]] = @ + local[i][kind[i]]]
  /\ kind' = [kind EXCEPT ![i] = NextKind[@]]
  /\ state' = [state EXCEPT ![i] = "adding"]
  /\ UNCHANGED <<created, joined, left, local, loaded, mutex>>

\* Faulty variant: the thread returns with the mutex locked.
StillHeld == mutex

Released == Nobody

\* pthread_mutex_unlock and the return of the thread.
Unlock(i) ==
  /\ state[i] = "adding" /\ kind[i] = "none"
  /\ mutex' = Released
  /\ state' = [state EXCEPT ![i] = "done"]
  /\ UNCHANGED <<created, joined, left, local, kind, loaded, total, added>>

\* pthread_join, in the order of creation.
JoinThread ==
  /\ created = MaxThreads /\ joined < MaxThreads
  /\ state[joined] = "done"
  /\ joined' = joined + 1
  /\ UNCHANGED <<created, state, left, local, kind, loaded, mutex, total, added>>

ThreadStep(i) == Play(i) \/ Lock(i) \/ Load(i) \/ Store(i) \/ Unlock(i)

Next == CreateThread \/ JoinThread \/ \E i \in Threads : ThreadStep(i)

Spec == Init /\ [][Next]_vars

\* A thread that can run is run; the mutex is not promised to be fair.
FairSpec ==
  /\ Spec
  /\ WF_vars(CreateThread) /\ WF_vars(JoinThread)
  /\ \A i \in Threads : WF_vars(ThreadStep(i))
-----------------------------------------------------------------------------
\* All threads are joined: main prints the totals.
Printing == joined = MaxThreads

\* No addition gets lost between a load and a store of two threads: each total
\* is what was added to it.
NoLostUpdate == total = added

\* The three numbers main prints add up to the number of experiments it
\* prints, however they were shared out and whenever the threads finished.
TotalsAddUp ==
  Printing => total["first"] + total["second"] + total["draw"] = Experiments

\* main comes to print the result.
Finishes == <>Printing
=============================================================================
