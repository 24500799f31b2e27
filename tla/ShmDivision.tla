---------------------------- MODULE ShmDivision ----------------------------
(***************************************************************************)
(* lab3: the division of lab1 over shared memory.  The parent puts a line  *)
(* into shared memory and posts sem_parent, the child replaces it by the   *)
(* result and posts sem_child.  The semaphores and the memory have names   *)
(* and outlive the processes: only a session that ends with the exit line  *)
(* removes them, and the next session opens what it finds.                 *)
(*                                                                         *)
(* The n-th line of all sessions together is [kind |-> k, n |-> n]:        *)
(*   "numbers"  some numbers, none of them after the first one zero        *)
(*   "zero"     with a division by zero                                    *)
(*   "fatal"    the empty line, for which strtok returns NULL, or INT_MIN  *)
(*              divided by -1: the child crashes                           *)
(*   "exit"     the line that ends the session                             *)
(* and the child's answer to it is [kind |-> "quotient" or "error", n |-> n]. *)
(***************************************************************************)
EXTENDS Integers

CONSTANTS
  MaxLines,      (* bound: how many lines are typed in all sessions *)
  MaxSessions    (* bound: how often the program is started         *)

ASSUME ShmAssumption == MaxLines \in Nat /\ MaxSessions \in Nat \ {0}

VARIABLES
  parent,      (* where the parent is                               *)
  child,       (* where the child is                                *)
  semParent,   (* the value of the semaphore SEM_PARENT             *)
  semChild,    (* the value of SEM_CHILD                            *)
  mem,         (* shared_mem->command                               *)
  typed,       (* how many lines were typed                         *)
  sent,        (* the line the parent sent last                     *)
  shown,       (* what the parent printed last                      *)
  session,     (* the number of this run of the program             *)
  clean        (* history: this session found no old semaphore      *)

vars == <<parent, child, semParent, semChild, mem, typed, sent, shown, session, clean>>

LineKinds == {"numbers", "zero", "fatal", "exit"}
Words     == [kind : LineKinds \cup {"quotient", "error", "none"}, n : 0..MaxLines]
Nothing   == [kind |-> "none", n |-> 0]

ParentStates == {"command", "posting", "waiting", "printing", "joining", "ended", "killed"}
ChildStates  == {"starting", "waiting", "woken", "dividing", "posting", "exited"}

TypeOK ==
  /\ parent \in ParentStates /\ child \in ChildStates
  /\ semParent \in 0..MaxLines /\ semChild \in 0..MaxLines
  /\ mem \in Words /\ sent \in Words /\ shown \in Words
  /\ typed \in 0..MaxLines /\ session \in 1..MaxSessions
  /\ clean \in BOOLEAN

Init ==
  /\ parent = "command" /\ child = "starting"
  /\ semParent = 0 /\ semChild = 0
  /\ mem = Nothing /\ sent = Nothing /\ shown = Nothing
  /\ typed = 0 /\ session = 1
  /\ clean = TRUE
-----------------------------------------------------------------------------
(* The parent.                                                             *)

\* Reads a line and copies it into shared memory.  At the end of standard
\* input fgets leaves the old line, which is copied again.
CopyLine(k) ==
  /\ parent = "command" /\ typed < MaxLines
  /\ typed' = typed + 1
  /\ sent' = [kind |-> k, n |-> typed + 1]
  /\ mem' = sent'
  /\ parent' = "posting"
  /\ UNCHANGED <<child, semParent, semChild, shown, session, clean>>

PostLine ==
  /\ parent = "posting"
  /\ semParent' = semParent + 1
  /\ parent' = IF sent.kind = "exit" THEN "joining" ELSE "waiting"
  /\ UNCHANGED <<child, semChild, mem, typed, sent, shown, session, clean>>

\* Faulty variants of sem_wait: it does not wait; it does not take what it
\* waited for.
PostedOrNot(sem) == TRUE
Kept(sem) == sem

Posted(sem) == sem > 0
Taken(sem) == sem - 1

\* sem_wait(sem_child)
WaitAnswer ==
  /\ parent = "waiting" /\ Posted(semChild)
  /\ semChild' = Taken(semChild)
  /\ parent' = "printing"
  /\ UNCHANGED <<child, semParent, mem, typed, sent, shown, session, clean>>

PrintAnswer ==
  /\ parent = "printing"
  /\ shown' = mem
  /\ parent' = "command"
  /\ UNCHANGED <<child, semParent, semChild, mem, typed, sent, session, clean>>

\* Faulty variant: the names of the semaphores are not removed.
StillThere(sem) == sem

Removed(sem) == 0

\* wait(NULL), then the semaphores and the memory are removed.
CleanUp ==
  /\ parent = "joining" /\ child = "exited"
  /\ parent' = "ended"
  /\ semParent' = Removed(semParent) /\ semChild' = Removed(semChild) /\ mem' = Nothing
  /\ UNCHANGED <<child, typed, sent, shown, session, clean>>
-----------------------------------------------------------------------------
(* The child.                                                              *)

StartChild ==
  /\ child = "starting"
  /\ child' = "waiting"
  /\ UNCHANGED <<parent, semParent, semChild, mem, typed, sent, shown, session, clean>>

\* execl fails; or fopen fails in a woken child.
ChildFails ==
  /\ \/ child = "starting"
     \/ child = "woken" /\ mem.kind # "exit"
  /\ child' = "exited"
  /\ UNCHANGED <<parent, semParent, semChild, mem, typed, sent, shown, session, clean>>

\* sem_wait(sem_parent)
WaitLine ==
  /\ child = "waiting" /\ Posted(semParent)
  /\ semParent' = Taken(semParent)
  /\ child' = "woken"
  /\ UNCHANGED <<parent, semChild, mem, typed, sent, shown, session, clean>>

\* The exit line ends the child; a line that strtok or the division cannot
\* take crashes it; otherwise the file is opened.  What an earlier answer left
\* in the memory is taken for a line of numbers.
LookAtLine ==
  /\ child = "woken"
  /\ child' = IF mem.kind \in {"exit", "fatal", "none"} THEN "exited" ELSE "dividing"
  /\ UNCHANGED <<parent, semParent, semChild, mem, typed, sent, shown, session, clean>>

\* The text of an error holds words whose atoi is 0: read again, it is a
\* division by zero again.  Reading the line and writing the result is one
\* step: where the parent writes at the same time (never in a clean session,
\* CleanSessionExcludes) the real memory may hold a mixture.
Divide ==
  /\ child = "dividing"
  /\ mem' = [kind |-> IF mem.kind \in {"zero", "error"} THEN "error" ELSE "quotient",
              n    |-> mem.n]
  /\ child' = "posting"
  /\ UNCHANGED <<parent, semParent, semChild, typed, sent, shown, session, clean>>

\* Faulty variant: after a division by zero the child does not post.
PostsUnlessError == IF mem.kind = "error" THEN 0 ELSE 1

Posts == 1

PostAnswer ==
  /\ child = "posting"
  /\ semChild' = semChild + Posts
  /\ child' = "waiting"
  /\ UNCHANGED <<parent, semParent, mem, typed, sent, shown, session, clean>>
-----------------------------------------------------------------------------
\* The terminal interrupts both processes: nothing is cleaned up.
Interrupt ==
  /\ parent \notin {"ended", "killed"}
  /\ parent' = "killed" /\ child' = "exited"
  /\ UNCHANGED <<semParent, semChild, mem, typed, sent, shown, session, clean>>

\* The program is started again: sem_open and shm_open with O_CREAT find the
\* old objects, whose initial value 0 is then ignored.
Restart ==
  /\ parent \in {"ended", "killed"} /\ session < MaxSessions
  /\ session' = session + 1
  /\ parent' = "command" /\ child' = "starting"
  /\ clean' = (semParent = 0 /\ semChild = 0)
  /\ sent' = Nothing /\ shown' = Nothing
  /\ UNCHANGED <<semParent, semChild, mem, typed>>

ParentWork == PostLine \/ WaitAnswer \/ PrintAnswer \/ CleanUp
ChildWork  == StartChild \/ WaitLine \/ LookAtLine \/ Divide \/ PostAnswer

Next == \/ \E k \in LineKinds : CopyLine(k)
        \/ ParentWork \/ ChildWork \/ ChildFails \/ Interrupt \/ Restart

Spec == Init /\ [][Next]_vars

\* Both processes run; typing, failures and interrupts need not happen.
FairSpec == Spec /\ WF_vars(ParentWork) /\ WF_vars(ChildWork)
-----------------------------------------------------------------------------
\* What the parent shows after a line is the child's answer to this very line.
AnswerShown ==
  parent = "command" /\ shown # Nothing =>
    shown.n = typed /\ shown.kind \in {"quotient", "error"}

\* In a session that found no old semaphores the answer shown is right.
CleanSessionAnswers == clean => AnswerShown

\* In such a session parent and child are never in the shared memory at once:
\* while the parent may touch it the child is blocked or gone.
CleanSessionExcludes ==
  clean /\ parent \in {"command", "posting", "printing"} =>
    child \in {"starting", "waiting", "exited"} /\ semParent = 0

\* The exit line heals: the session after one that came to its own end is
\* clean, whatever the sessions before them left behind.
ExitLineHeals == [][parent = "ended" /\ parent' # "ended" => clean']_vars

\* A line that was sent in a clean session is answered unless the child fails.
SentLineIsAnswered ==
  (parent = "waiting" /\ clean) ~> (parent # "waiting" \/ child = "exited")

(* What the comments say and the code does not keep.                       *)

\* The parent waits until the child is done (main.c:73) and the second
\* semaphore says that the result is ready (child.c:38): what is shown is the
\* answer to the line that was sent.
NoStaleAnswer == AnswerShown
=============================================================================
