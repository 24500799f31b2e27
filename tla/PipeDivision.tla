---------------------------- MODULE PipeDivision ----------------------------
(***************************************************************************)
(* lab1: a parent sends a file name and then lines of numbers to a child   *)
(* through pipe1, the child divides, logs the quotient to the file and     *)
(* sends it back through pipe2.                                            *)
(*                                                                         *)
(* A pipe keeps no message boundaries: a read takes what is in the pipe,   *)
(* up to 256 bytes, and the program looks at the first string of it only.  *)
(* One string always fits, two of them need not: of a line that is read    *)
(* together with the file name nothing, its end or all of it stays behind. *)
(*                                                                         *)
(* The n-th line the user types is the record [kind |-> k, n |-> n]:       *)
(*   "numbers"   some numbers, none of them after the first one zero       *)
(*   "zero"      with a division by zero                                   *)
(*   "overflow"  INT_MIN divided by -1, which kills the child              *)
(*   "exit"      the line that ends the session                            *)
(* The end of a line that was cut off has n = 0.                           *)
(***************************************************************************)
EXTENDS Integers, Sequences, SequencesExt

CONSTANT MaxLines   (* bound: how many lines the user types *)

ASSUME MaxLinesAssumption == MaxLines \in Nat

VARIABLES
  parent,   (* where the parent is                               *)
  child,    (* where the child is                                *)
  typed,    (* how many lines were typed                         *)
  pipe1,    (* to the child                                      *)
  pipe2,    (* from the child                                    *)
  line,     (* the line the child works on                       *)
  shown,    (* the last result the parent printed                *)
  log,      (* the file: the lines whose quotient it holds       *)
  lost      (* history: lines a read of the child threw away     *)

vars == <<parent, child, typed, pipe1, pipe2, line, shown, log, lost>>

LineKinds   == {"numbers", "zero", "overflow", "exit"}
Lines       == [kind : LineKinds \cup {"name"}, n : 0..MaxLines]
Results     == [kind : {"quotient", "text", "garbage"}, n : 0..MaxLines]
FileName    == [kind |-> "name", n |-> 0]
NothingRead == [kind |-> "garbage", n |-> 0]

ParentStates == {"filename", "command", "reading", "waiting", "done", "killed"}
ChildStates  == {"starting", "opening", "reading", "dividing", "answering", "exited"}

TypeOK ==
  /\ parent \in ParentStates /\ child \in ChildStates
  /\ typed \in 0..MaxLines
  /\ pipe1 \in Seq(Lines) /\ Len(pipe1) <= 2
  /\ pipe2 \in Seq(Results) /\ Len(pipe2) <= 1
  /\ line \in Lines /\ shown \in Results
  /\ log \in SUBSET (0..MaxLines) /\ lost \in SUBSET (0..MaxLines)

Init ==
  /\ parent = "filename" /\ child = "starting"
  /\ typed = 0
  /\ pipe1 = <<>> /\ pipe2 = <<>>
  /\ line = FileName /\ shown = NothingRead
  /\ log = {} /\ lost = {}
-----------------------------------------------------------------------------
(* The parent.  A write to pipe1 without a reader ends it with a SIGPIPE.  *)

SendName ==
  /\ parent = "filename"
  /\ \/ child # "exited" /\ parent' = "command" /\ pipe1' = Append(pipe1, FileName)
     \/ child = "exited" /\ parent' = "killed" /\ UNCHANGED pipe1
  /\ UNCHANGED <<child, typed, pipe2, line, shown, log, lost>>

\* Faulty variant: the next line is sent without reading the result.
MaySendAhead == parent \in {"command", "reading"}

MaySend == parent = "command"

\* At the end of standard input fgets leaves the buffer as it is, and the
\* last line, or at first an undefined one, is sent again and again.
SendLine(k) ==
  /\ MaySend
  /\ typed < MaxLines
  /\ typed' = typed + 1
  /\ IF child = "exited" THEN parent' = "killed" /\ UNCHANGED pipe1
     ELSE /\ pipe1' = Append(pipe1, [kind |-> k, n |-> typed + 1])
          /\ parent' = IF k = "exit" THEN "waiting" ELSE "reading"
  /\ UNCHANGED <<child, pipe2, line, shown, log, lost>>

\* Faulty variant: the parent keeps its own copy of the writing end open.
NeverEnds == FALSE

EndOfPipe2 == child = "exited"

\* What the buffer of the result holds before a read has written to it: it is
\* never initialised, and its place on the stack may still hold the last result.
Unwritten == {shown, NothingRead}

\* The read of the result; at the end of the pipe it reads nothing, nobody
\* looks, and what the buffer holds is printed.
ReadResult ==
  /\ parent = "reading"
  /\ \/ pipe2 # <<>> /\ shown' = Head(pipe2)
     \/ pipe2 = <<>> /\ EndOfPipe2 /\ shown' \in Unwritten
  /\ pipe2' = <<>>
  /\ parent' = "command"
  /\ UNCHANGED <<child, typed, pipe1, line, log, lost>>

\* wait(NULL)
WaitChild ==
  /\ parent = "waiting" /\ child = "exited"
  /\ parent' = "done"
  /\ UNCHANGED <<child, typed, pipe1, pipe2, line, shown, log, lost>>
-----------------------------------------------------------------------------
(* The child.                                                              *)

\* How the end of line l is taken when it is divided for itself: its first
\* number may be cut, so that only a zero after it is still one, and if just
\* the final NUL is left atoi(NULL) kills the child.
EndKinds(l) == {"numbers", "overflow"} \cup ({l.kind} \cap {"zero"})

\* What stays in the pipe of the strings after the file name.
Behind(rest) ==
  IF rest = <<>> THEN {<<>>}
  ELSE {<<>>, rest} \cup {<<[kind |-> k, n |-> 0]>> : k \in EndKinds(Head(rest))}

\* One read: the child looks at the first string and left is still to be read.
TakeFirst(left, next) ==
  /\ line' = Head(pipe1)
  /\ pipe1' = left
  /\ lost' = lost \cup {l.n : l \in ToSet(Tail(pipe1)) \ ToSet(left)}
  /\ child' = next
  /\ UNCHANGED <<parent, typed, pipe2, shown, log>>

ReadName ==
  /\ child = "starting" /\ pipe1 # <<>>
  /\ \E left \in Behind(Tail(pipe1)) : TakeFirst(left, "opening")

ReadLine ==
  /\ child = "reading" /\ pipe1 # <<>>
  /\ TakeFirst(<<>>, "dividing")

\* execl or fopen fails.
ChildFails ==
  /\ child \in {"starting", "opening"}
  /\ child' = "exited"
  /\ UNCHANGED <<parent, typed, pipe1, pipe2, line, shown, log, lost>>

OpenLog ==
  /\ child = "opening"
  /\ child' = "reading"
  /\ UNCHANGED <<parent, typed, pipe1, pipe2, line, shown, log, lost>>

\* Faulty variant: the quotient is sent but not written to the file.
NotLogged == log

Logged == log \cup {line.n}

\* The quotient is computed and flushed to the file.
Divide ==
  /\ child = "dividing" /\ line.kind = "numbers"
  /\ log' = Logged
  /\ child' = "answering"
  /\ UNCHANGED <<parent, typed, pipe1, pipe2, line, shown, lost>>

\* A division by zero or the exit line: the message goes to standard output,
\* which is pipe2, when the child exits.
DivideByZero ==
  /\ child = "dividing" /\ line.kind \in {"zero", "exit"}
  /\ pipe2' = Append(pipe2, [kind |-> "text", n |-> line.n])
  /\ child' = "exited"
  /\ UNCHANGED <<parent, typed, pipe1, line, shown, log, lost>>

\* SIGFPE, or SIGSEGV for a line without a number: nothing is flushed.
DivisionTraps ==
  /\ child = "dividing" /\ line.kind = "overflow"
  /\ child' = "exited"
  /\ UNCHANGED <<parent, typed, pipe1, pipe2, line, shown, log, lost>>

Answer ==
  /\ child = "answering"
  /\ pipe2' = Append(pipe2, [kind |-> "quotient", n |-> line.n])
  /\ child' = "reading"
  /\ UNCHANGED <<parent, typed, pipe1, line, shown, log, lost>>

Proceed == ReadResult \/ WaitChild
Work == \/ ReadName \/ ReadLine \/ OpenLog \/ Divide \/ DivideByZero
        \/ DivisionTraps \/ Answer

Next == SendName \/ (\E k \in LineKinds : SendLine(k)) \/ Proceed \/ Work \/ ChildFails

Spec == Init /\ [][Next]_vars

\* Both processes run; the user may stop typing and nothing has to fail.
FairSpec == Spec /\ WF_vars(Proceed) /\ WF_vars(Work)
-----------------------------------------------------------------------------
\* The first line was read together with the file name.
FirstCut == typed = 1 /\ lost = {1}

\* The quotient the parent prints is the newest one of the file, and that of the
\* line typed last, unless the child is gone or that line was the first one and
\* was cut off by the name.
ShownIsNewest ==
  parent = "command" /\ shown.kind = "quotient" =>
    /\ \A m \in log : m <= shown.n
    /\ shown.n = typed \/ child = "exited" \/ FirstCut

\* A quotient the parent may see or has seen is in the file already.
LoggedBeforeAnswered ==
  \A r \in ToSet(pipe2) \cup {shown} : r.kind = "quotient" => r.n \in log

\* Only the first line can get lost: once the child has read it, the strict
\* alternation of the two processes keeps later lines apart.
OnlyFirstLineLost == lost \subseteq {1}

\* A line that was sent is answered, or the child ends, unless it was lost.
SentLineIsAnswered == parent \in {"reading", "waiting"} ~>
                        (parent \notin {"reading", "waiting"} \/ lost # {})

(* What the comments say and the code does not keep.                       *)

\* The child "reads the command through the first pipe" (child.c:27) and the
\* parent "reads the result from child through pipe2" (main.c:83): the two are
\* never waiting for each other with both pipes empty.
NoMutualWait ==
  ~(/\ parent \in {"reading", "waiting"} /\ child = "reading"
    /\ pipe1 = <<>> /\ pipe2 = <<>>)
=============================================================================
