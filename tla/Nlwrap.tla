------------------------------- MODULE Nlwrap -------------------------------
(***************************************************************************)
(* nlwrap: runs a child between two pipes and replaces every \r by \n on   *)
(* the way to the child and back.  One thread, one Buf per direction:      *)
(*                                                                         *)
(*   stdin -> from_real -> fakewrite =pipe=> child                         *)
(*   stdout <- from_child <- fakeread <=pipe= child                        *)
(*                                                                         *)
(* The child, the kernel's pipes and what stands at nlwrap's own ends are  *)
(* the environment.                                                        *)
(***************************************************************************)
EXTENDS Integers, Sequences, SequencesExt

CONSTANTS
    Typed,     (* the bytes that arrive on stdin before its end              *)
    Said,      (* the bytes the child would write if it lived long enough    *)
    BufSize,   (* sizeof(Buf::buf)                                           *)
    PipeSize   (* what a pipe holds                                          *)

ASSUME NlwrapAssumption ==
    /\ Typed \in Seq(STRING) /\ Said \in Seq(STRING)
    /\ BufSize \in Nat \ {0} /\ PipeSize \in Nat
    /\ BufSize <= PipeSize

Dirs == {"child", "real"}

VARIABLES
    pc,         (* "add", "child", "real", "close" or "wait"; over: "exit",  *)
                (* "killed"                                                  *)
    rfds,       (* the directions whose read end select() reported           *)
    data,       (* [Dirs -> bytes]: Buf::buf up to Buf::size                 *)
    eof,        (* [Dirs -> BOOLEAN]: Buf::eof                               *)
    closed,     (* from_real's write end is closed                           *)
    childDead,  (* the local child_dead                                      *)
    alive,      (* the child runs                                            *)
    busy,       (* the child is inside a write                               *)
    stdin,      (* bytes of Typed not read yet                               *)
    toChild, fromChild,  (* the pipes                                        *)
    said,       (* bytes the child has written so far                        *)
    childGot,   (* history: bytes the child has read                         *)
    sawEof,     (* the child has read the end of its input                   *)
    stdout      (* history: bytes written to stdout                          *)

bufs == <<data, eof, closed>>
child == <<alive, busy, said, childGot, sawEof>>
vars == <<pc, rfds, bufs, childDead, child, stdin, toChild, fromChild, stdout>>

Init ==
    /\ pc = "add" /\ rfds = {}
    /\ data = [d \in Dirs |-> << >>] /\ eof = [d \in Dirs |-> FALSE]
    /\ closed = FALSE /\ childDead = FALSE /\ alive = TRUE /\ busy = FALSE
    /\ stdin = Typed /\ toChild = << >> /\ fromChild = << >>
    /\ said = 0 /\ childGot = << >> /\ sawEof = FALSE
    /\ stdout = << >>

Running == pc \notin {"exit", "killed"}
Least(a, b) == IF a < b THEN a ELSE b
From(s, n) == SubSeq(s, n + 1, Len(s))

-----------------------------------------------------------------------------
(* The child writes, reads, and exits at any time.  It does one thing at a *)
(* time: a write blocks on a full pipe.                                    *)

ChildStartsWrite ==
    /\ alive /\ ~busy /\ said < Len(Said)
    /\ busy' = TRUE
    /\ UNCHANGED <<pc, rfds, bufs, childDead, alive, said, childGot, sawEof,
                   stdin, toChild, fromChild, stdout>>

ChildWrites ==
    /\ alive /\ busy /\ Len(fromChild) < PipeSize
    /\ busy' = FALSE
    /\ said' = said + 1
    /\ fromChild' = Append(fromChild, Said[said + 1])
    /\ UNCHANGED <<pc, rfds, bufs, childDead, alive, childGot, sawEof, stdin,
                   toChild, stdout>>

ChildReads ==
    /\ alive /\ ~busy
    /\ \/ /\ toChild # << >>
          /\ childGot' = Append(childGot, Head(toChild))
          /\ toChild' = Tail(toChild)
          /\ UNCHANGED sawEof
       \/ /\ toChild = << >> /\ closed /\ ~sawEof
          /\ sawEof' = TRUE
          /\ UNCHANGED <<childGot, toChild>>
    /\ UNCHANGED <<pc, rfds, bufs, childDead, alive, busy, said, stdin,
                   fromChild, stdout>>

ChildExits ==
    /\ alive /\ alive' = FALSE
    /\ UNCHANGED <<pc, rfds, bufs, childDead, busy, said, childGot, sawEof,
                   stdin, toChild, fromChild, stdout>>

-----------------------------------------------------------------------------
(* mainloop().                                                             *)

(* What a read end has to offer; at its end a read returns 0 at once.      *)
Offered(d) == IF d = "real" THEN stdin ELSE fromChild
AtEnd(d) == Offered(d) = << >> /\ (d = "real" \/ ~alive)

(* Buf::maybe_add: a read end is asked about while the buffer is empty.    *)
Asked(d) == data[d] = << >> /\ ~eof[d]

(* select() comes back with what is ready, and after 100 ms in any case.   *)
(* What is typed arrives whenever it likes.                                *)
Ready == {d \in Dirs : Asked(d) /\ (Offered(d) # << >> \/ AtEnd(d))}
Select ==
    /\ pc = "add"
    /\ rfds' \in {Ready, Ready \ {"real"}}
    /\ pc' = "child"
    /\ UNCHANGED <<bufs, childDead, child, stdin, toChild, fromChild, stdout>>

ReplacedHead(s) ==
    [i \in DOMAIN s |-> IF i = 1 /\ s[i] = "CR" THEN "LF" ELSE s[i]]
Replaced(s) == [i \in DOMAIN s |-> IF s[i] = "CR" THEN "LF" ELSE s[i]]

EndRead(n) == n = 0

(* The reading half of Buf::maybe_do.                                      *)
Fill(d) ==
    \E n \in Least(1, Len(Offered(d)))..Least(BufSize, Len(Offered(d))) :
        /\ data' = [data EXCEPT ![d] = Replaced(SubSeq(Offered(d), 1, n))]
        /\ eof' = [eof EXCEPT ![d] = EndRead(n)]
        /\ IF d = "real"
           THEN stdin' = From(stdin, n) /\ UNCHANGED fromChild
           ELSE fromChild' = From(fromChild, n) /\ UNCHANGED stdin

RestNotMoved(s, n) == SubSeq(s, 1, Len(s) - n)
(* What a short write leaves is moved to the front of the buffer.          *)
Rest(s, n) == From(s, n)

(* from_child.maybe_do: a read, or a write to stdout that may be short.    *)
FromChild ==
    /\ pc = "child"
    /\ CASE data["child"] = << >> /\ "child" \in rfds ->
              Fill("child") /\ UNCHANGED stdout
         [] data["child"] # << >> ->
              /\ \E n \in 1..Len(data["child"]) :
                    /\ stdout' = stdout \o SubSeq(data["child"], 1, n)
                    /\ data' = [data EXCEPT !["child"] = Rest(@, n)]
              /\ UNCHANGED <<eof, stdin, fromChild>>
         [] OTHER -> UNCHANGED <<data, eof, stdin, fromChild, stdout>>
    /\ pc' = "real"
    /\ UNCHANGED <<rfds, closed, childDead, child, toChild>>

CloseNever == FALSE
(* from_real is at its end and nothing stands in the other direction.      *)
CloseDue == eof["real"] /\ data["child"] = << >>

(* from_real.maybe_do.  The write blocks until the pipe takes all of it;   *)
(* to a child that is gone it ends nlwrap (SIGPIPE).                       *)
FromReal ==
    /\ pc = "real"
    /\ CASE data["real"] = << >> /\ "real" \in rfds ->
              Fill("real") /\ pc' = "close" /\ UNCHANGED toChild
         [] data["real"] # << >> /\ alive ->
              /\ Len(toChild) + Len(data["real"]) <= PipeSize
              /\ toChild' = toChild \o data["real"]
              /\ data' = [data EXCEPT !["real"] = << >>]
              /\ pc' = "close"
              /\ UNCHANGED <<eof, stdin, fromChild>>
         [] data["real"] # << >> /\ ~alive ->
              pc' = "killed" /\ UNCHANGED <<data, eof, stdin, toChild, fromChild>>
         [] OTHER ->
              pc' = "close" /\ UNCHANGED <<data, eof, stdin, toChild, fromChild>>
    /\ UNCHANGED <<rfds, closed, childDead, child, stdout>>

Close ==
    /\ pc = "close"
    /\ closed' = (closed \/ (CloseDue /\ data["real"] = << >>))
    /\ pc' = "wait"
    /\ UNCHANGED <<rfds, data, eof, childDead, child, stdin, toChild, fromChild,
                   stdout>>

DoneInverted(dead) == dead /\ data["child"] # << >>

(* The loop ends when the child is dead and nothing stands in from_child;  *)
(* what stands in the pipe is not asked for.                               *)
Done(dead) == dead /\ data["child"] = << >>

Wait ==
    /\ pc = "wait"
    /\ childDead' = ~alive
    /\ pc' = IF Done(~alive) THEN "exit" ELSE "add"
    /\ UNCHANGED <<rfds, bufs, child, stdin, toChild, fromChild, stdout>>

-----------------------------------------------------------------------------
Child == ChildStartsWrite \/ ChildWrites \/ ChildReads \/ ChildExits
Program == Select \/ FromChild \/ FromReal \/ Close \/ Wait
Next == Program \/ Child

Spec == Init /\ [][Next]_vars

(* nlwrap is scheduled; what is typed arrives; the child, as long as it    *)
(* lives, ends its writes if it can and reads on.                          *)
FairSpec ==
    /\ Spec
    /\ WF_vars(Program) /\ SF_vars(Select /\ rfds' = Ready)
    /\ WF_vars(ChildWrites) /\ SF_vars(ChildReads)

-----------------------------------------------------------------------------
WasSaid == SubSeq(Said, 1, said)
Translated(s) == [i \in DOMAIN s |-> IF s[i] = "CR" THEN "LF" ELSE s[i]]

(* However reads and writes are cut, what the child wrote is, with every   *)
(* CR replaced, what went to stdout followed by what stands in from_child  *)
(* and in the pipe: no byte is lost, doubled or overtaken inside nlwrap.   *)
OutputConserved ==
    stdout \o data["child"] \o Translated(fromChild) = Translated(WasSaid)

(* The same towards the child, which sees the end of its input only after  *)
(* all of the input.                                                       *)
InputConserved ==
    /\ childGot \o toChild \o data["real"] \o Translated(stdin) = Translated(Typed)
    /\ sawEof => childGot = Translated(Typed)

(* "Runs a subprogram while replacing all \r with \n, in both directions": *)
(* when nlwrap ends by itself, all that the child wrote is on stdout.      *)
OutputComplete == pc = "exit" => stdout = Translated(WasSaid)

(* nlwrap waits for room in the child's input, the child for room in its   *)
(* output.                                                                 *)
CircularWait ==
    /\ pc = "real" /\ Len(toChild) + Len(data["real"]) > PipeSize
    /\ busy /\ Len(fromChild) = PipeSize

(* The end of stdin gets through to the child, unless the child dies, or   *)
(* talks so much that the two wait for each other.                         *)
EofReachesChild == stdin = << >> ~> closed \/ ~alive \/ CircularWait

(* The child's death ends nlwrap, wherever it was in its loop.             *)
EndsAfterChild == ~alive ~> ~Running
=============================================================================
